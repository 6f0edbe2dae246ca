------------------------------- MODULE Station ------------------------------
(***************************************************************************)
(* A packet radio station: netaud with the sound card, and ax25tnc as its  *)
(* client.  Five threads in two processes wait for one another through two *)
(* sockets, a mutex and two joins.                                         *)
(***************************************************************************)
EXTENDS Netaud, Tnc, FiniteSets

vars == <<wireVars, netaudVars, tncVars>>

Init == WireInit /\ NetaudInit /\ TncInit

\* A step of one program leaves the other's variables alone.
InNetaud(A) == A /\ UNCHANGED tncVars
InTnc(A) == A /\ UNCHANGED netaudVars

PortAudio == \E n \in 1 .. MaxFrames : StreamCallback(n)
KissClient == \E n \in 1 .. MaxBits : incoming_kiss_message_callback(n)

Next ==
    \/ InNetaud(NetaudMain) \/ InNetaud(NetaudServer) \/ InNetaud(ServerFails)
    \/ InNetaud(NetaudCallback) \/ InNetaud(PortAudio)
    \/ InTnc(TncMain) \/ InTnc(SetupFails) \/ InTnc(KissThread) \/ InTnc(KissServerFails)
    \/ InTnc(ClientThread) \/ InTnc(KissClient) \/ InTnc(KissClientReads)
    \/ InTnc(KissClientGoes)

\* Every thread runs, PortAudio goes on calling, a KISS client that is
\* connected reads sooner or later, and a thread that waits for the mutex gets
\* it if it is released again and again (the callback holds it for a copy and
\* then not for the rest of a buffer's time).  Nobody need send or fail.
Spec ==
    /\ Init /\ [][Next]_vars
    /\ WF_vars(InNetaud(NetaudMain)) /\ WF_vars(InNetaud(NetaudServer))
    /\ WF_vars(InNetaud(NetaudCallback)) /\ WF_vars(InNetaud(PortAudio))
    /\ SF_vars(InNetaud(client_data_start_callback)) /\ SF_vars(InNetaud(CallbackLock))
    /\ WF_vars(InTnc(TncMain)) /\ WF_vars(InTnc(KissThread))
    /\ WF_vars(InTnc(ClientThread)) /\ WF_vars(InTnc(KissClientReads))

-----------------------------------------------------------------------------
(***************************************************************************)
(* Properties                                                              *)
(***************************************************************************)
\* The fields and locals of both programs stay in their types.
TypeOK == WireTypeOK /\ NetaudTypeOK /\ TncTypeOK

\* Is a session open: start callback called, end callback not yet?
InSession == spc \in {"push", "recv", "end"}

\* The audio callback takes nothing out of the buffer while a session is open.
\* This is what ds_linked_buffer_t asks of its users (push and pop never
\* overlap), and it keeps silence out of the middle of what a client sends in
\* one piece: a buffer is filled up with silence only between sessions.
PopOutsideSession == ~(cpc = "pop" /\ InSession)

\* As long as no recv() has ended within a sample, both programs see samples
\* where the other wrote them: no pop, session end, disconnection or buffer
\* size of theirs makes a stream start again in the middle of a sample.
SamplesAligned == ~cut => offset = 0 /\ partial = 0

\* The connection is broken as soon as one end is closed.
Connection ==
    IF "closed" \in {tnc_end, aud_end} THEN "broken"
    ELSE IF tnc_end = "none" THEN "none" ELSE "up"

BufferSizes == {n * SampleSize : n \in 1 .. MaxFrames}

\* The two programs implement the samples' way there and back: what is under way
\* or in the server thread's hands is not yet stored, the buffer holds what is not
\* yet played.  No byte is lost or counted twice between ns_client_send, the chunk
\* callback's push and the audio callback's pop, none is pushed outside a session
\* or popped inside one, and only the end of a program breaks the connection.
Link == INSTANCE AudioLink
            WITH Bit <- BitBytes, Buffers <- BufferSizes, link <- Connection,
                 session <- InSession, toAudio <- up + chunk, speaker <- stored,
                 toTnc <- down

ImplementsLink == Link!LinkSpec

\* Why a connected TNC may exit: netaud or a KISS client has gone (SIGPIPE), or
\* its own KISS server has failed.
MayExit == aud_end = "closed" \/ kiss = "gone" \/ kt = "done"

\* A TNC that is connected exits for no other reason: neither a slow netaud, nor
\* a full socket, nor a KISS client that stops to read ends it.
ConnectedTncStays == [][socket = "open" /\ tm # "exit" /\ tm' = "exit" => MayExit]_vars

\* Every parameter of a TNC that starts is what the first line with its key and
\* a value says, whatever other lines there are, and a TNC that refuses to start
\* was not given one of them among the entries that fit the table.
ConfigFaithful ==
    LET Entries == {i \in DOMAIN file : Len(file[i]) >= 2 /\ file[i][1] # Hash}
        First(k) == {i \in Entries : /\ file[i][1] = k
                                     /\ \A j \in Entries : file[j][1] = k => i <= j}
        Fits(i) == Cardinality({j \in Entries : j < i}) < MaxEntries
        Value(k, i) == IF k \in NumKeys THEN Atoi(file[i][2]) ELSE file[i][2]
    IN  /\ tm = "server" => \A k \in Keys : \E i \in First(k) : config[k] = Value(k, i)
        /\ tm = "refuse" => \E k \in Keys : \A i \in First(k) : ~Fits(i)

\* The session waits for its client: the last chunk filled the buffer, and
\* nothing more is under way.
SessionWaits == spc = "recv" /\ up = 0 /\ tnc_end # "closed" /\ aud_end = "open"




\* netserver.c:307: "Call the client data end callback after all (and not
\* zero) data is received".
SessionEnds == InSession ~> ~InSession
=============================================================================
