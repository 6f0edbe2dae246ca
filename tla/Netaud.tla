------------------------------- MODULE Netaud -------------------------------
(***************************************************************************)
(* apps/netaud: the sound card on the network.  The PortAudio callback     *)
(* broadcasts what the microphone recorded and plays what clients sent;    *)
(* the server thread (NetServer) stores what clients send, holding         *)
(* client_data_mutex from the first chunk of a session to its end.         *)
(*                                                                         *)
(* One client is modelled.  The calls of ns_server_broadcast and of the    *)
(* server thread are steps here, with what they do to the connection       *)
(* (NetServer has their interleavings); the linked buffer is its number of *)
(* bytes (LinkedBuffer shows that it is a FIFO, if its calls are           *)
(* serialised).                                                            *)
(***************************************************************************)
EXTENDS Wire

CONSTANTS DataBufSize,   \* DATA_BUF_SIZE of the server thread
          MaxFrames      \* bound: frames_per_buffer, which PortAudio chooses

ASSUME NetaudAssumption == DataBufSize \in Nat \ {0} /\ MaxFrames \in Nat \ {0}

VARIABLES nm,            \* main(): "open", "start", "wait", "close", "exit"
          mutex,         \* holder of client_data_mutex
          spc, chunk,    \* server thread: place and client_data_chunk_len
          cpc, frames,   \* stream_callback: place and frames_per_buffer
          stored,        \* bytes in client_data_buffer
          offset         \* history: bytes of the next sample that were popped before

netaudVars == <<nm, mutex, spc, chunk, cpc, frames, stored, offset>>

NetaudInit ==
    /\ nm = "open" /\ mutex = "free"
    /\ spc = "none" /\ chunk = 0
    /\ cpc = "idle" /\ frames = 0
    /\ stored = 0 /\ offset = 0

-----------------------------------------------------------------------------
(***************************************************************************)
(* main()                                                                  *)
(***************************************************************************)
\* The process ends, for whatever reason, and its sockets with it.
NetaudEnds ==
    /\ nm' = "exit" /\ spc' = "none" /\ cpc' = "idle" /\ mutex' = "free"
    /\ chunk' = 0 /\ frames' = 0 /\ stored' = 0 /\ offset' = 0
    /\ aud_end' = "closed" /\ up' = 0

\* audio_open: from now on PortAudio calls stream_callback.
AudioOpen ==
    /\ nm = "open" /\ nm' = "start"
    /\ UNCHANGED <<mutex, spc, chunk, cpc, frames, stored, offset, wireVars>>

\* Opening or starting the stream fails.
AudioFails ==
    /\ nm = "open"
    /\ NetaudEnds
    /\ UNCHANGED <<tnc_end, down, cut>>

\* ns_server_set_callbacks and ns_server_start
ServerStart ==
    /\ nm = "start" /\ nm' = "wait" /\ spc' = "poll"
    /\ UNCHANGED <<mutex, chunk, cpc, frames, stored, offset, wireVars>>

\* ns_server_wait returns and audio_close stops the stream ...
ServerWait ==
    /\ nm = "wait" /\ spc = "done" /\ nm' = "close"
    /\ UNCHANGED <<mutex, spc, chunk, cpc, frames, stored, offset, wireVars>>

\* ... which lets a running callback finish.
AudioClose ==
    /\ nm = "close" /\ cpc = "idle"
    /\ NetaudEnds
    /\ UNCHANGED <<tnc_end, down, cut>>

NetaudMain == AudioOpen \/ AudioFails \/ ServerStart \/ ServerWait \/ AudioClose

-----------------------------------------------------------------------------
(***************************************************************************)
(* Server thread                                                           *)
(***************************************************************************)
Accept ==
    /\ spc = "poll" /\ aud_end = "queued"
    /\ aud_end' = "open"
    /\ UNCHANGED <<netaudVars, tnc_end, up, down, cut>>

\* pselect() or accept() fails (see NetServer).
ServerFails ==
    /\ spc = "poll" /\ spc' = "done"
    /\ UNCHANGED <<nm, mutex, chunk, cpc, frames, stored, offset, wireVars>>

\* recv() returns data.  The first chunk of a session needs the mutex.
RecvData(n) ==
    /\ spc \in {"poll", "recv"} /\ aud_end = "open"
    /\ up' = up - n /\ Cuts(n)
    /\ chunk' = n
    /\ spc' = IF spc = "poll" THEN "lock" ELSE "push"
    /\ UNCHANGED <<nm, mutex, cpc, frames, stored, offset, tnc_end, aud_end, down>>


\* recv() returns 0 or fails (a reset discards what was not received); a session
\* that is open ends.
RecvEnd ==
    /\ \/ spc \in {"poll", "recv"} /\ aud_end = "open" /\ tnc_end = "closed"
       \/ spc = "recv" /\ aud_end = "closed"
    /\ aud_end' = "closed" /\ up' = 0
    /\ spc' = IF spc = "poll" THEN "poll" ELSE "end"
    /\ UNCHANGED <<nm, mutex, chunk, cpc, frames, stored, offset, tnc_end, down, cut>>

client_data_start_callback ==
    /\ spc = "lock" /\ mutex = "free"
    /\ mutex' = "session" /\ spc' = "push"
    /\ UNCHANGED <<nm, chunk, cpc, frames, stored, offset, wireVars>>

\* Mutant of client_data_chunk_callback: unlocks after every chunk.
ChunkUnlocks ==
    /\ spc = "push"
    /\ stored' = stored + chunk
    /\ spc' = (IF chunk = DataBufSize THEN "recv" ELSE "end") /\ chunk' = 0
    /\ mutex' = "free"
    /\ UNCHANGED <<nm, cpc, frames, offset, wireVars>>

\* Mutant of client_data_chunk_callback: the whole data buffer is pushed.
ChunkPushesBuffer ==
    /\ spc = "push"
    /\ stored' = stored + DataBufSize
    /\ spc' = (IF chunk = DataBufSize THEN "recv" ELSE "end") /\ chunk' = 0
    /\ UNCHANGED <<nm, mutex, cpc, frames, offset, wireVars>>

\* The chunk is pushed; a full buffer means another recv().
client_data_chunk_callback ==
    /\ spc = "push"
    /\ stored' = stored + chunk
    /\ spc' = (IF chunk = DataBufSize THEN "recv" ELSE "end") /\ chunk' = 0
    /\ UNCHANGED <<nm, mutex, cpc, frames, offset, wireVars>>

client_data_end_callback ==
    /\ spc = "end"
    /\ mutex' = "free" /\ spc' = "poll"
    /\ UNCHANGED <<nm, chunk, cpc, frames, stored, offset, wireVars>>

NetaudServer ==
    \/ Accept \/ RecvEnd \/ client_data_start_callback
    \/ client_data_chunk_callback \/ client_data_end_callback
    \/ \E n \in Chunks(DataBufSize, up) : RecvData(n)

-----------------------------------------------------------------------------
(***************************************************************************)
(* stream_callback                                                         *)
(***************************************************************************)
StreamCallback(n) ==
    /\ nm \in {"start", "wait"} /\ cpc = "idle"
    /\ frames' = n /\ cpc' = "broadcast"
    /\ UNCHANGED <<nm, mutex, spc, chunk, stored, offset, wireVars>>

\* ns_server_broadcast waits until the client takes the samples.  What is sent
\* to a client that has gone is lost, and sooner or later the slot is emptied.
Broadcast ==
    /\ cpc = "broadcast" /\ cpc' = "lock"
    /\ \/ aud_end # "open" /\ UNCHANGED <<aud_end, down>>
       \/ /\ aud_end = "open" /\ tnc_end = "open"
          /\ down + frames * SampleSize <= DownCap
          /\ down' = down + frames * SampleSize
          /\ UNCHANGED aud_end
       \/ /\ aud_end = "open" /\ tnc_end = "closed"
          /\ aud_end' \in {"open", "closed"}
          /\ UNCHANGED down
    /\ UNCHANGED <<nm, mutex, spc, chunk, frames, stored, offset, tnc_end, up, cut>>

\* ... unless SIGPIPE ends the process first.
BroadcastSigPipe ==
    /\ cpc = "broadcast" /\ aud_end = "open" /\ tnc_end = "closed"
    /\ NetaudEnds
    /\ UNCHANGED <<tnc_end, down, cut>>

CallbackLock ==
    /\ cpc = "lock" /\ mutex = "free"
    /\ mutex' = "callback" /\ cpc' = "pop"
    /\ UNCHANGED <<nm, spc, chunk, frames, stored, offset, wireVars>>

\* Mutant of Wanted: frames taken for bytes.
WantedFrames == frames

Wanted == frames * SampleSize

\* Mutant of Popped: a pop always returns what it was asked for.
PoppedAll == Wanted

Popped == IF stored < Wanted THEN stored ELSE Wanted


\* Pop and unlock.  Bytes beyond the last whole sample are popped too and then
\* overwritten by the silence that fills the buffer up.
CallbackPop ==
    /\ cpc = "pop"
    /\ stored' = stored - Popped
    /\ offset' = (offset + Popped) % SampleSize
    /\ mutex' = "free" /\ cpc' = "idle" /\ frames' = 0
    /\ UNCHANGED <<nm, spc, chunk, wireVars>>

NetaudCallback == Broadcast \/ BroadcastSigPipe \/ CallbackLock \/ CallbackPop

-----------------------------------------------------------------------------
NetaudTypeOK ==
    /\ nm \in {"open", "start", "wait", "close", "exit"}
    /\ mutex \in {"free", "session", "callback"}
    /\ spc \in {"none", "poll", "lock", "push", "recv", "end", "done"}
    /\ chunk \in 0 .. DataBufSize
    /\ cpc \in {"idle", "broadcast", "lock", "pop"}
    /\ frames \in 0 .. MaxFrames
    /\ stored \in Nat
    /\ offset \in 0 .. SampleSize - 1
=============================================================================
