---------------------------- MODULE StationProofs ---------------------------
(***************************************************************************)
(* Proofs about Station: client_data_mutex keeps pops out of sessions,     *)
(* samples stay whole as long as TCP does not cut them, both programs      *)
(* implement the way of the samples that AudioLink states, and a connected *)
(* TNC exits only for the reasons it names; for every size of the buffers, *)
(* the sockets and the samples.  A TNC starts with what its configuration  *)
(* file says.                                                              *)
(***************************************************************************)
EXTENDS Station, FiniteSetTheorems, Induction

-----------------------------------------------------------------------------
(***************************************************************************)
(* Whole samples                                                           *)
(***************************************************************************)
Whole(n) == \E k \in Int : n = k * SampleSize

LEMMA Sizes ==
    /\ SampleSize \in Nat \ {0} /\ UpCap \in Nat /\ DownCap \in Nat
    /\ DataBufSize \in Nat \ {0} /\ MaxFrames \in Nat \ {0}
    /\ BitBytes \in Nat \ {0} /\ MaxBits \in Nat
BY WireAssumption, NetaudAssumption, TncAssumption

LEMMA NothingLeftIsWhole ==
    ASSUME NEW n \in Nat, n % SampleSize = 0
    PROVE  Whole(n)
<1>. SUFFICES \E k \in Int : n = k * SampleSize
  BY DEF Whole
<1>1. n \div SampleSize \in Int
  BY Sizes
<1>. WITNESS n \div SampleSize \in Int
<1>. QED  BY Sizes

LEMMA WholeLeavesNothing ==
    ASSUME NEW n \in Nat, Whole(n)
    PROVE  n % SampleSize = 0
<1>1. PICK k \in Int : n = k * SampleSize
  BY DEF Whole
<1>. QED  BY <1>1, Sizes

LEMMA WholeSum ==
    ASSUME NEW a \in Int, NEW b \in Int, Whole(a), Whole(b)
    PROVE  Whole(a + b) /\ Whole(a - b)
<1>1. PICK j \in Int : a = j * SampleSize
  BY DEF Whole
<1>2. PICK k \in Int : b = k * SampleSize
  BY DEF Whole
<1>3. a + b = (j + k) * SampleSize /\ a - b = (j - k) * SampleSize
  BY <1>1, <1>2, Sizes
<1>4. j + k \in Int /\ j - k \in Int
  OBVIOUS
<1>. QED  BY <1>3, <1>4 DEF Whole

LEMMA NoneIsWhole == Whole(0)
BY Sizes DEF Whole

-----------------------------------------------------------------------------
(***************************************************************************)
(* Inductive invariant                                                     *)
(***************************************************************************)
\* client_data_mutex belongs to whoever is past its lock, and main() starts the
\* server thread.
Exclusive ==
    /\ mutex = "session" <=> InSession
    /\ mutex = "callback" <=> cpc = "pop"
    /\ nm \in {"open", "start"} => spc = "none"

\* Until a recv() cuts a sample, every place where bytes rest has whole samples.
Uncut == ~cut => offset = 0 /\ partial = 0 /\ Whole(stored) /\ Whole(chunk)

\* A packet that is being sent has bits left; the client's socket is open only
\* while main() waits, and main() joins only after the KISS server has ended.
Serving ==
    /\ kt = "send" => bits >= 1
    /\ socket = "open" => tm \in {"wait", "join"}
    /\ tm = "join" => kt = "done"

StationInv == TypeOK /\ Exclusive /\ Uncut /\ Serving

\* Steps of netaud do not touch what is said of ax25tnc, and the other way round.
LEMMA TncUntouched ==
    ASSUME StationInv, UNCHANGED tncVars
    PROVE  TncTypeOK' /\ Serving' /\ partial' = partial
BY DEF StationInv, TypeOK, TncTypeOK, ClientTypeOK, Serving, tncVars, clientVars

LEMMA NetaudUntouched ==
    ASSUME StationInv, UNCHANGED netaudVars
    PROVE  NetaudTypeOK' /\ Exclusive' /\ UNCHANGED <<offset, stored, chunk>>
BY DEF StationInv, TypeOK, NetaudTypeOK, Exclusive, InSession, netaudVars

LEMMA WireUntouched ==
    ASSUME StationInv, UNCHANGED wireVars
    PROVE  WireTypeOK' /\ cut' = cut
BY DEF StationInv, TypeOK, WireTypeOK, wireVars

\* Steps that move no bytes keep them whole.
LEMMA UncutStays ==
    ASSUME Uncut, UNCHANGED <<cut, offset, partial, stored, chunk>>
    PROVE  Uncut'
BY DEF Uncut, Whole

\* What recv() returns is a positive part of what is there.
LEMMA ChunkSizes ==
    ASSUME NEW size \in Nat, NEW there \in Nat, NEW n \in Chunks(size, there)
    PROVE  n \in 1 .. size /\ there - n \in 0 .. there
BY DEF Chunks

\* Without a cut, a chunk is whole.
LEMMA CutsTells ==
    ASSUME NEW n \in Nat, cut \in BOOLEAN, Cuts(n)
    PROVE  cut' \in BOOLEAN /\ (~cut' => ~cut /\ n % SampleSize = 0)
BY DEF Cuts

LEMMA StationInitially == Init => StationInv
<1>. SUFFICES ASSUME Init PROVE StationInv
  OBVIOUS
<1>. USE DEF Init, WireInit, NetaudInit, TncInit, ClientInit
<1>1. cut \in BOOLEAN /\ crun \in BOOLEAN
  OBVIOUS
<1>2. up \in 0 .. UpCap /\ down \in 0 .. DownCap /\ partial \in 0 .. SampleSize - 1
      /\ bits \in 0 .. MaxBits /\ budget \in 0 .. MaxBits
  BY Sizes
<1>3. WireTypeOK
  BY <1>1, <1>2, Zenon DEF WireTypeOK
<1>4. NetaudTypeOK
  BY Sizes DEF NetaudTypeOK
<1>5. TncTypeOK
  BY <1>1, <1>2, Zenon DEF TncTypeOK, ClientTypeOK
<1>6. Exclusive /\ Serving
  BY DEF Exclusive, InSession, Serving
<1>7. Uncut
  BY NoneIsWhole DEF Uncut
<1>. QED  BY <1>3, <1>4, <1>5, <1>6, <1>7 DEF StationInv, TypeOK

-----------------------------------------------------------------------------
(***************************************************************************)
(* Steps of netaud                                                         *)
(***************************************************************************)
\* The end of the process empties its memory.
LEMMA NetaudEndsKeeps ==
    ASSUME StationInv, NetaudEnds, UNCHANGED <<tnc_end, down, cut>>, UNCHANGED tncVars
    PROVE  StationInv'
<1>1. TncTypeOK' /\ Serving' /\ partial' = partial
  BY TncUntouched
<1>2. WireTypeOK'
  BY Sizes DEF NetaudEnds, StationInv, TypeOK, WireTypeOK
<1>3. NetaudTypeOK'
  BY Sizes DEF NetaudEnds, NetaudTypeOK
<1>4. Exclusive'
  BY DEF NetaudEnds, Exclusive, InSession
<1>5. Uncut'
  BY <1>1, NoneIsWhole DEF NetaudEnds, StationInv, Uncut
<1>. QED  BY <1>1, <1>2, <1>3, <1>4, <1>5 DEF StationInv, TypeOK

LEMMA NetaudMainKeeps ==
    ASSUME StationInv, NetaudMain, UNCHANGED tncVars
    PROVE  StationInv'
<1>1. CASE AudioClose \/ AudioFails
  BY <1>1, NetaudEndsKeeps DEF AudioClose, AudioFails
<1>2. CASE AudioOpen \/ ServerStart \/ ServerWait
  <2>1. TncTypeOK' /\ Serving' /\ partial' = partial
    BY TncUntouched
  <2>2. UNCHANGED wireVars /\ UNCHANGED <<offset, stored, chunk>>
    BY <1>2 DEF AudioOpen, ServerStart, ServerWait
  <2>3. WireTypeOK' /\ Uncut'
    BY <2>1, <2>2, WireUntouched, UncutStays DEF StationInv
  <2>4. NetaudTypeOK'
    BY <1>2 DEF StationInv, TypeOK, NetaudTypeOK, AudioOpen, ServerStart, ServerWait
  <2>5. Exclusive'
    BY <1>2 DEF StationInv, Exclusive, InSession, AudioOpen, ServerStart, ServerWait
  <2>. QED  BY <2>1, <2>3, <2>4, <2>5 DEF StationInv, TypeOK
<1>. QED  BY <1>1, <1>2 DEF NetaudMain

\* The server thread takes the mutex with the first chunk of a session and
\* gives it back at its end.
LEMMA NetaudServerKeeps ==
    ASSUME StationInv, NetaudServer \/ ServerFails, UNCHANGED tncVars
    PROVE  StationInv'
<1>1. TncTypeOK' /\ Serving' /\ partial' = partial
  BY TncUntouched
<1>2. CASE Accept
  <2>1. NetaudTypeOK' /\ Exclusive' /\ UNCHANGED <<offset, stored, chunk>>
    BY <1>2, NetaudUntouched DEF Accept
  <2>2. WireTypeOK'
    BY <1>2 DEF StationInv, TypeOK, WireTypeOK, Accept
  <2>3. Uncut'
    BY <1>1, <1>2, <2>1, UncutStays DEF StationInv, Accept
  <2>. QED  BY <1>1, <2>1, <2>2, <2>3 DEF StationInv, TypeOK
<1>3. CASE RecvEnd
  <2>1. WireTypeOK'
    BY <1>3, Sizes DEF StationInv, TypeOK, WireTypeOK, RecvEnd
  <2>2. NetaudTypeOK'
    BY <1>3 DEF StationInv, TypeOK, NetaudTypeOK, RecvEnd
  <2>3. Exclusive'
    BY <1>3 DEF StationInv, Exclusive, InSession, RecvEnd
  <2>4. Uncut'
    BY <1>1, <1>3, UncutStays DEF StationInv, RecvEnd
  <2>. QED  BY <1>1, <2>1, <2>2, <2>3, <2>4 DEF StationInv, TypeOK
<1>4. CASE client_data_start_callback \/ client_data_end_callback \/ ServerFails
  <2>1. UNCHANGED wireVars /\ UNCHANGED <<offset, stored, chunk>>
    BY <1>4 DEF client_data_start_callback, client_data_end_callback, ServerFails
  <2>2. WireTypeOK' /\ Uncut'
    BY <1>1, <2>1, WireUntouched, UncutStays DEF StationInv
  <2>3. NetaudTypeOK'
    BY <1>4 DEF StationInv, TypeOK, NetaudTypeOK, client_data_start_callback,
                client_data_end_callback, ServerFails
  <2>4. Exclusive'
    BY <1>4 DEF StationInv, Exclusive, InSession, client_data_start_callback,
                client_data_end_callback, ServerFails
  <2>. QED  BY <1>1, <2>2, <2>3, <2>4 DEF StationInv, TypeOK
<1>5. CASE client_data_chunk_callback
  <2>1. stored \in Nat /\ chunk \in 0 .. DataBufSize
    BY DEF StationInv, TypeOK, NetaudTypeOK
  <2>2. UNCHANGED wireVars /\ offset' = offset /\ stored' = stored + chunk /\ chunk' = 0
    BY <1>5 DEF client_data_chunk_callback
  <2>3. WireTypeOK' /\ cut' = cut
    BY <2>2, WireUntouched
  <2>4. NetaudTypeOK'
    BY <1>5, <2>1, Sizes DEF StationInv, TypeOK, NetaudTypeOK, client_data_chunk_callback
  <2>5. Exclusive'
    BY <1>5 DEF StationInv, Exclusive, InSession, client_data_chunk_callback
  <2>6. Uncut'
    <3>1. SUFFICES ASSUME ~cut PROVE offset' = 0 /\ partial' = 0 /\ Whole(stored') /\ Whole(chunk')
      BY <2>3 DEF Uncut, Whole
    <3>2. offset = 0 /\ partial = 0 /\ Whole(stored) /\ Whole(chunk)
      BY <3>1 DEF StationInv, Uncut
    <3>3. Whole(stored + chunk)
      BY <2>1, <3>2, WholeSum, Sizes
    <3>. QED  BY <1>1, <2>2, <3>2, <3>3, NoneIsWhole
  <2>. QED  BY <1>1, <2>3, <2>4, <2>5, <2>6 DEF StationInv, TypeOK
<1>6. ASSUME NEW n \in Chunks(DataBufSize, up), RecvData(n) PROVE StationInv'
  <2>1. up \in 0 .. UpCap /\ cut \in BOOLEAN
    BY DEF StationInv, TypeOK, WireTypeOK
  <2>2. n \in 1 .. DataBufSize /\ up - n \in 0 .. UpCap
    BY <2>1, ChunkSizes, Sizes
  <2>3. cut' \in BOOLEAN /\ (~cut' => ~cut /\ n % SampleSize = 0)
    BY <1>6, <2>1, <2>2, CutsTells, Sizes DEF RecvData
  <2>4. WireTypeOK'
    BY <1>6, <2>2, <2>3, Zenon DEF StationInv, TypeOK, WireTypeOK, RecvData
  <2>5. NetaudTypeOK'
    BY <1>6, <2>2, Sizes DEF StationInv, TypeOK, NetaudTypeOK, RecvData
  <2>6. Exclusive'
    BY <1>6 DEF StationInv, Exclusive, InSession, RecvData
  <2>7. Uncut'
    <3>1. SUFFICES ASSUME ~cut' PROVE offset' = 0 /\ partial' = 0 /\ Whole(stored') /\ Whole(chunk')
      BY DEF Uncut, Whole
    <3>2. offset = 0 /\ partial = 0 /\ Whole(stored) /\ n % SampleSize = 0
      BY <2>3, <3>1 DEF StationInv, Uncut
    <3>3. Whole(n)
      BY <2>2, <3>2, NothingLeftIsWhole, Sizes
    <3>4. offset' = offset /\ stored' = stored /\ chunk' = n
      BY <1>6 DEF RecvData
    <3>. QED  BY <1>1, <3>2, <3>3, <3>4
  <2>. QED  BY <1>1, <2>4, <2>5, <2>6, <2>7 DEF StationInv, TypeOK
<1>. QED  BY <1>2, <1>3, <1>4, <1>5, <1>6 DEF NetaudServer

\* What a pop takes and leaves, of a buffer of whole samples, are whole samples.
LEMMA PopSizes ==
    ASSUME StationInv
    PROVE  /\ Popped \in Nat /\ stored - Popped \in Nat
           /\ Whole(stored) => Whole(Popped) /\ Whole(stored - Popped)
<1>1. stored \in Nat /\ frames \in Nat
  BY Sizes DEF StationInv, TypeOK, NetaudTypeOK
<1>2. Wanted \in Nat /\ Whole(Wanted)
  BY <1>1, Sizes DEF Wanted, Whole
<1>3. Popped \in Nat /\ stored - Popped \in Nat
  BY <1>1, <1>2 DEF Popped
<1>4. Whole(stored) => Whole(Popped)
  BY <1>2 DEF Popped
<1>. QED  BY <1>1, <1>3, <1>4, WholeSum

\* The audio callback takes the mutex only when no session holds it.
LEMMA NetaudCallbackKeeps ==
    ASSUME StationInv, NetaudCallback \/ PortAudio, UNCHANGED tncVars
    PROVE  StationInv'
<1>1. TncTypeOK' /\ Serving' /\ partial' = partial
  BY TncUntouched
<1>2. CASE PortAudio
  <2>1. PICK n \in 1 .. MaxFrames : StreamCallback(n)
    BY <1>2 DEF PortAudio
  <2>2. WireTypeOK' /\ Uncut'
    BY <1>1, <2>1, WireUntouched, UncutStays DEF StationInv, StreamCallback
  <2>3. NetaudTypeOK'
    BY <2>1, Sizes DEF StationInv, TypeOK, NetaudTypeOK, StreamCallback
  <2>4. Exclusive'
    BY <2>1 DEF StationInv, Exclusive, InSession, StreamCallback
  <2>. QED  BY <1>1, <2>2, <2>3, <2>4 DEF StationInv, TypeOK
<1>3. CASE Broadcast
  <2>1. frames \in Nat /\ down \in 0 .. DownCap
    BY Sizes DEF StationInv, TypeOK, WireTypeOK, NetaudTypeOK
  <2>2. frames * SampleSize \in Nat
    BY <2>1, Sizes
  <2>3. down' \in 0 .. DownCap
    BY <1>3, <2>1, <2>2, Sizes DEF Broadcast
  <2>4. aud_end' \in {"none", "queued", "open", "closed"}
    BY <1>3 DEF Broadcast, StationInv, TypeOK, WireTypeOK
  <2>5. WireTypeOK'
    BY <1>3, <2>3, <2>4 DEF StationInv, TypeOK, WireTypeOK, Broadcast
  <2>6. NetaudTypeOK' /\ Exclusive'
    BY <1>3 DEF StationInv, TypeOK, NetaudTypeOK, Exclusive, InSession, Broadcast
  <2>7. Uncut'
    BY <1>1, <1>3, UncutStays DEF StationInv, Broadcast
  <2>. QED  BY <1>1, <2>5, <2>6, <2>7 DEF StationInv, TypeOK
<1>4. CASE BroadcastSigPipe
  BY <1>4, NetaudEndsKeeps DEF BroadcastSigPipe
<1>5. CASE CallbackLock
  <2>1. WireTypeOK' /\ Uncut'
    BY <1>1, <1>5, WireUntouched, UncutStays DEF StationInv, CallbackLock
  <2>2. NetaudTypeOK'
    BY <1>5 DEF StationInv, TypeOK, NetaudTypeOK, CallbackLock
  <2>3. Exclusive'
    BY <1>5 DEF StationInv, Exclusive, InSession, CallbackLock
  <2>. QED  BY <1>1, <2>1, <2>2, <2>3 DEF StationInv, TypeOK
<1>6. CASE CallbackPop
  <2>1. PICK n \in Nat : n = Popped
    BY PopSizes
  <2>2. /\ stored' = stored - n /\ offset' = (offset + n) % SampleSize
        /\ mutex' = "free" /\ cpc' = "idle" /\ frames' = 0
        /\ UNCHANGED <<nm, spc, chunk, wireVars>>
    BY <1>6, <2>1 DEF CallbackPop
  <2>3. stored - n \in Nat /\ (Whole(stored) => Whole(n) /\ Whole(stored - n))
    BY <2>1, PopSizes
  <2>4. WireTypeOK' /\ cut' = cut
    BY <2>2, WireUntouched
  <2>5. offset' \in 0 .. SampleSize - 1
    <3>1. offset + n \in Nat
      BY Sizes DEF StationInv, TypeOK, NetaudTypeOK
    <3>. QED  BY <2>2, <3>1, Sizes
  <2>6. NetaudTypeOK'
    BY <2>2, <2>3, <2>5, Sizes DEF StationInv, TypeOK, NetaudTypeOK
  <2>7. Exclusive'
    BY <1>6, <2>2 DEF StationInv, Exclusive, InSession, CallbackPop
  <2>8. Uncut'
    <3>1. SUFFICES ASSUME ~cut PROVE offset' = 0 /\ partial' = 0 /\ Whole(stored') /\ Whole(chunk')
      BY <2>4 DEF Uncut, Whole
    <3>2. offset = 0 /\ partial = 0 /\ Whole(stored) /\ Whole(chunk)
      BY <3>1 DEF StationInv, Uncut
    <3>3. n % SampleSize = 0
      BY <2>3, <3>2, WholeLeavesNothing
    <3>. QED  BY <1>1, <2>2, <2>3, <3>2, <3>3
  <2>. QED  BY <1>1, <2>4, <2>6, <2>7, <2>8 DEF StationInv, TypeOK
<1>. QED  BY <1>2, <1>3, <1>4, <1>5, <1>6 DEF NetaudCallback

-----------------------------------------------------------------------------
(***************************************************************************)
(* Steps of ax25tnc                                                        *)
(***************************************************************************)
LEMMA TncEndsKeeps ==
    ASSUME StationInv, TncEnds, UNCHANGED netaudVars
    PROVE  StationInv'
<1>1. NetaudTypeOK' /\ Exclusive' /\ UNCHANGED <<offset, stored, chunk>>
  BY NetaudUntouched
<1>2. WireTypeOK'
  BY Sizes DEF TncEnds, StationInv, TypeOK, WireTypeOK
<1>3. TncTypeOK'
  <2>1. crun' \in BOOLEAN
    BY DEF TncEnds
  <2>2. partial' \in 0 .. SampleSize - 1 /\ bits' \in 0 .. MaxBits /\ budget' \in 0 .. MaxBits
    BY Sizes DEF TncEnds
  <2>. QED  BY <2>1, <2>2, Zenon DEF TncEnds, TncTypeOK, ClientTypeOK
<1>4. Serving'
  BY DEF TncEnds, Serving
<1>5. Uncut'
  BY <1>1 DEF TncEnds, StationInv, Uncut, Whole
<1>. QED  BY <1>1, <1>2, <1>3, <1>4, <1>5 DEF StationInv, TypeOK

\* The steps of main() that go on.
LEMMA TncMainKeeps ==
    ASSUME StationInv, TncMain \/ SetupFails, UNCHANGED netaudVars
    PROVE  StationInv'
<1>1. NetaudTypeOK' /\ Exclusive' /\ UNCHANGED <<offset, stored, chunk>>
  BY NetaudUntouched
<1>2. CASE ConfigRefused \/ Cleanup \/ SetupFails
  BY <1>2, TncEndsKeeps DEF ConfigRefused, Cleanup, SetupFails
<1>3. CASE ReadConfig \/ StartKissServer
  <2>1. UNCHANGED <<wireVars, clientVars, bits, budget, kiss>>
    BY <1>3 DEF ReadConfig, StartKissServer, kissVars
  <2>2. WireTypeOK' /\ Uncut'
    BY <1>1, <2>1, WireUntouched, UncutStays DEF StationInv, clientVars
  <2>3. TncTypeOK'
    BY <1>3, <2>1 DEF StationInv, TypeOK, TncTypeOK, ClientTypeOK, clientVars, kissVars,
                      ReadConfig, StartKissServer
  <2>4. Serving'
    BY <1>3, <2>1 DEF StationInv, Serving, clientVars, kissVars, ReadConfig, StartKissServer
  <2>. QED  BY <1>1, <2>2, <2>3, <2>4 DEF StationInv, TypeOK
<1>4. CASE MakeSocket \/ StopClient
  <2>1. UNCHANGED <<wireVars, partial, ct, file, config, kt, bits, budget, kiss>>
    BY <1>4 DEF MakeSocket, StopClient, ClientSocket, ClientStop, kissVars
  <2>2. crun' \in BOOLEAN
    BY <1>4 DEF MakeSocket, StopClient, ClientSocket, ClientStop
  <2>3. WireTypeOK' /\ Uncut'
    BY <1>1, <2>1, WireUntouched, UncutStays DEF StationInv
  <2>4. TncTypeOK'
    BY <1>4, <2>1, <2>2 DEF StationInv, TypeOK, TncTypeOK, ClientTypeOK, MakeSocket,
                            StopClient, ClientSocket, ClientStop
  <2>5. Serving'
    BY <1>4, <2>1 DEF StationInv, Serving, MakeSocket, StopClient, ClientSocket, ClientStop
  <2>. QED  BY <1>1, <2>3, <2>4, <2>5 DEF StationInv, TypeOK
<1>5. CASE Connect
  <2>1. crun' \in BOOLEAN
    BY <1>5 DEF Connect, ClientConnect
  <2>2. WireTypeOK'
    BY <1>5 DEF StationInv, TypeOK, WireTypeOK, Connect, ClientConnect
  <2>3. TncTypeOK'
    BY <1>5, <2>1 DEF StationInv, TypeOK, TncTypeOK, ClientTypeOK, Connect, ClientConnect,
                      kissVars
  <2>4. Serving'
    BY <1>5 DEF StationInv, Serving, Connect, ClientConnect, kissVars
  <2>5. Uncut'
    BY <1>1, <1>5, UncutStays DEF StationInv, Connect, ClientConnect
  <2>. QED  BY <1>1, <2>2, <2>3, <2>4, <2>5 DEF StationInv, TypeOK
<1>. QED  BY <1>2, <1>3, <1>4, <1>5 DEF TncMain

\* The KISS server's thread and what drives it.
LEMMA KissThreadKeeps ==
    ASSUME StationInv, UNCHANGED netaudVars,
           KissThread \/ KissServerFails \/ KissClient \/ KissClientReads \/ KissClientGoes
    PROVE  StationInv'
<1>1. NetaudTypeOK' /\ Exclusive' /\ UNCHANGED <<offset, stored, chunk>>
  BY NetaudUntouched
<1>2. CASE SamplesRefused
  BY <1>2, TncEndsKeeps DEF SamplesRefused
<1>3. CASE modulated_samples_callback
  <2>1. /\ bits \in 0 .. MaxBits /\ bits >= 1 /\ kt = "send" /\ bits' = bits - 1
        /\ kt' = IF bits = 1 THEN "poll" ELSE "send"
        /\ UNCHANGED <<clientVars, tm, budget, kiss, tnc_end, aud_end, down, cut>>
    BY <1>3 DEF StationInv, TypeOK, TncTypeOK, Serving, modulated_samples_callback, SendDone
  <2>2. up' \in 0 .. UpCap
    BY <1>3, Sizes DEF StationInv, TypeOK, WireTypeOK, modulated_samples_callback, SendDone
  <2>3. WireTypeOK'
    BY <2>1, <2>2 DEF StationInv, TypeOK, WireTypeOK
  <2>4. TncTypeOK'
    BY <2>1, Sizes DEF StationInv, TypeOK, TncTypeOK, ClientTypeOK, clientVars
  <2>5. Serving'
    BY <2>1 DEF StationInv, Serving, clientVars
  <2>6. Uncut'
    BY <1>1, <2>1, UncutStays DEF StationInv, clientVars
  <2>. QED  BY <1>1, <2>3, <2>4, <2>5, <2>6 DEF StationInv, TypeOK
<1>4. CASE KissServerFails \/ KissClientReads \/ KissClientGoes
  <2>1. UNCHANGED <<wireVars, clientVars, tm, bits, budget>>
    BY <1>4 DEF KissServerFails, KissClientReads, KissClientGoes
  <2>2. WireTypeOK' /\ Uncut'
    BY <1>1, <2>1, WireUntouched, UncutStays DEF StationInv, clientVars
  <2>3. kiss' \in {"reads", "deaf", "gone"}
    BY <1>4 DEF KissServerFails, KissClientReads, KissClientGoes, StationInv, TypeOK, TncTypeOK
  <2>4. TncTypeOK'
    BY <1>4, <2>1, <2>3 DEF StationInv, TypeOK, TncTypeOK, ClientTypeOK, clientVars,
                            KissServerFails, KissClientReads, KissClientGoes
  <2>5. Serving'
    BY <1>4, <2>1 DEF StationInv, Serving, clientVars, KissServerFails, KissClientReads,
                      KissClientGoes
  <2>. QED  BY <1>1, <2>2, <2>4, <2>5 DEF StationInv, TypeOK
<1>5. CASE KissClient
  <2>1. PICK n \in 1 .. MaxBits : incoming_kiss_message_callback(n)
    BY <1>5 DEF KissClient
  <2>2. /\ n <= budget /\ kt = "poll" /\ kt' = "send" /\ bits' = n /\ budget' = budget - n
        /\ UNCHANGED <<wireVars, clientVars, tm, kiss>>
    BY <2>1 DEF incoming_kiss_message_callback
  <2>3. WireTypeOK' /\ Uncut'
    BY <1>1, <2>2, WireUntouched, UncutStays DEF StationInv, clientVars
  <2>4. TncTypeOK'
    BY <2>2, Sizes DEF StationInv, TypeOK, TncTypeOK, ClientTypeOK, clientVars
  <2>5. Serving'
    BY <2>2 DEF StationInv, Serving, clientVars
  <2>. QED  BY <1>1, <2>3, <2>4, <2>5 DEF StationInv, TypeOK
<1>. QED  BY <1>2, <1>3, <1>4, <1>5 DEF KissThread

\* The audio client's thread.
LEMMA ClientThreadKeeps ==
    ASSUME StationInv, UNCHANGED netaudVars, ClientThread
    PROVE  StationInv'
<1>1. NetaudTypeOK' /\ Exclusive' /\ UNCHANGED <<offset, stored, chunk>>
  BY NetaudUntouched
<1>2. CASE data_callback \/ demodulated_packet_callback \/ (ClientEof /\ UNCHANGED <<tm, file, config, kissVars>>)
  <2>1. UNCHANGED <<wireVars, socket, crun, partial, tm, kt, bits, budget>>
    BY <1>2 DEF data_callback, demodulated_packet_callback, ClientEof, kissVars
  <2>2. ct' \in {"recv", "packet", "done"} /\ kiss' \in {"reads", "deaf", "gone"}
    BY <1>2 DEF data_callback, demodulated_packet_callback, ClientEof, kissVars, Loop,
                StationInv, TypeOK, TncTypeOK
  <2>3. WireTypeOK' /\ Uncut'
    BY <1>1, <2>1, WireUntouched, UncutStays DEF StationInv
  <2>4. TncTypeOK'
    BY <2>1, <2>2 DEF StationInv, TypeOK, TncTypeOK, ClientTypeOK
  <2>5. Serving'
    BY <2>1 DEF StationInv, Serving
  <2>. QED  BY <1>1, <2>3, <2>4, <2>5 DEF StationInv, TypeOK
<1>3. ASSUME NEW n \in Chunks(ClientBufSize, down), ClientRecv(n),
             UNCHANGED <<tm, file, config, kissVars>>
      PROVE  StationInv'
  <2>1. down \in 0 .. DownCap /\ cut \in BOOLEAN /\ partial \in 0 .. SampleSize - 1
    BY DEF StationInv, TypeOK, WireTypeOK, TncTypeOK, ClientTypeOK
  <2>2. n \in Nat /\ down - n \in 0 .. DownCap
    BY <2>1, ChunkSizes, Sizes, NetClientAssumption
  <2>3. cut' \in BOOLEAN /\ (~cut' => ~cut /\ n % SampleSize = 0)
    BY <1>3, <2>1, <2>2, CutsTells DEF ClientRecv
  <2>4. WireTypeOK'
    BY <1>3, <2>2, <2>3, Zenon DEF StationInv, TypeOK, WireTypeOK, ClientRecv
  <2>5. partial' \in 0 .. SampleSize - 1
    <3>1. partial + n \in Nat
      BY <2>1, <2>2, Sizes
    <3>. QED  BY <1>3, <3>1, Sizes DEF ClientRecv
  <2>6. TncTypeOK'
    BY <1>3, <2>5 DEF StationInv, TypeOK, TncTypeOK, ClientTypeOK, ClientRecv, kissVars
  <2>7. Serving'
    BY <1>3 DEF StationInv, Serving, ClientRecv, kissVars
  <2>8. Uncut'
    <3>1. SUFFICES ASSUME ~cut' PROVE offset' = 0 /\ partial' = 0 /\ Whole(stored') /\ Whole(chunk')
      BY DEF Uncut, Whole
    <3>2. offset = 0 /\ partial = 0 /\ Whole(stored) /\ Whole(chunk) /\ n % SampleSize = 0
      BY <2>3, <3>1 DEF StationInv, Uncut
    <3>3. partial' = n % SampleSize
      BY <1>3, <2>2, <3>2 DEF ClientRecv
    <3>. QED  BY <1>1, <3>2, <3>3
  <2>. QED  BY <1>1, <2>4, <2>6, <2>7, <2>8 DEF StationInv, TypeOK
<1>4. CASE PacketSigPipe
  BY <1>4, TncEndsKeeps DEF PacketSigPipe
<1>. QED  BY <1>2, <1>3, <1>4 DEF ClientThread

LEMMA StationKeeps == StationInv /\ [Next]_vars => StationInv'
<1>. SUFFICES ASSUME StationInv, [Next]_vars PROVE StationInv'
  OBVIOUS
<1>1. CASE /\ NetaudMain \/ NetaudServer \/ ServerFails \/ NetaudCallback \/ PortAudio
           /\ UNCHANGED tncVars
  BY <1>1, NetaudMainKeeps, NetaudServerKeeps, NetaudCallbackKeeps
<1>2. CASE /\ \/ TncMain \/ SetupFails \/ KissThread \/ KissServerFails
              \/ ClientThread \/ KissClient \/ KissClientReads \/ KissClientGoes
           /\ UNCHANGED netaudVars
  BY <1>2, TncMainKeeps, KissThreadKeeps, ClientThreadKeeps
<1>3. CASE UNCHANGED vars
  <2>1. UNCHANGED tncVars /\ UNCHANGED netaudVars /\ UNCHANGED wireVars
    BY <1>3 DEF vars
  <2>2. TncTypeOK' /\ Serving' /\ partial' = partial /\ WireTypeOK' /\ cut' = cut
    BY <2>1, TncUntouched, WireUntouched
  <2>3. NetaudTypeOK' /\ Exclusive' /\ UNCHANGED <<offset, stored, chunk>>
    BY <2>1, NetaudUntouched
  <2>4. Uncut'
    BY <2>2, <2>3, UncutStays DEF StationInv
  <2>. QED  BY <2>2, <2>3, <2>4 DEF StationInv, TypeOK
<1>. QED  BY <1>1, <1>2, <1>3 DEF Next, InNetaud, InTnc

-----------------------------------------------------------------------------
\* At every step of both programs' threads the mutex is with whoever is past its
\* lock, bytes rest in whole samples, and main() of the TNC is where its threads
\* let it be.
THEOREM StationInvariant == Spec => []StationInv
<1>1. Init => StationInv
  BY StationInitially
<1>2. StationInv /\ [Next]_vars => StationInv'
  BY StationKeeps
<1>. QED  BY <1>1, <1>2, PTL DEF Spec

\* The fields and locals of netaud and ax25tnc stay in their types.
THEOREM StationTypes == Spec => []TypeOK
<1>1. StationInv => TypeOK
  BY DEF StationInv
<1>. QED  BY <1>1, StationInvariant, PTL

\* stream_callback never pops while the server thread's session is open.
THEOREM NoPopInSession == Spec => []PopOutsideSession
<1>1. StationInv => PopOutsideSession
  BY DEF StationInv, Exclusive, PopOutsideSession
<1>. QED  BY <1>1, StationInvariant, PTL

\* Neither stream_callback's pops nor data_callback's samples lose step with what
\* was sent, until a recv() ends within a sample.
THEOREM SamplesStayWhole == Spec => []SamplesAligned
<1>1. StationInv => SamplesAligned
  BY DEF StationInv, Uncut, SamplesAligned
<1>. QED  BY <1>1, StationInvariant, PTL

\* main(), modulated_samples_callback and SIGPIPE in a broadcast end a connected
\* TNC only when netaud or a KISS client has gone or the KISS server has ended.
THEOREM TncStaysConnected == Spec => ConnectedTncStays
<1>1. StationInv /\ [Next]_vars
        => [socket = "open" /\ tm # "exit" /\ tm' = "exit" => MayExit]_vars
  <2>. SUFFICES ASSUME StationInv, Next, socket = "open", tm # "exit", tm' = "exit"
                PROVE  MayExit
    OBVIOUS
  <2>1. Serving
    BY DEF StationInv
  <2>2. CASE UNCHANGED tncVars
    BY <2>2 DEF tncVars
  <2>3. CASE TncMain \/ SetupFails
    BY <2>1, <2>3 DEF Serving, TncMain, ReadConfig, ConfigRefused, StartKissServer, MakeSocket,
                      Connect, SetupFails, StopClient, Cleanup, MayExit
  <2>4. CASE KissThread \/ KissServerFails \/ KissClient \/ KissClientReads \/ KissClientGoes
    BY <2>4 DEF KissThread, modulated_samples_callback, SamplesRefused, SendFails,
                KissServerFails, KissClient, incoming_kiss_message_callback, KissClientReads,
                KissClientGoes, MayExit
  <2>5. CASE ClientThread
    BY <2>5 DEF ClientThread, data_callback, demodulated_packet_callback, PacketSigPipe, MayExit
  <2>. QED  BY <2>2, <2>3, <2>4, <2>5 DEF Next, InNetaud, InTnc
<1>. QED  BY <1>1, StationInvariant, PTL DEF Spec, ConnectedTncStays

-----------------------------------------------------------------------------
(***************************************************************************)
(* The samples' way (AudioLink)                                            *)
(***************************************************************************)
\* The server thread holds data from a recv() to its push, and a callback that
\* runs has a buffer.
HandsFull ==
    /\ chunk # 0 <=> spc \in {"lock", "push"}
    /\ cpc # "idle" => frames # 0

\* The TNC's socket is open as long as its end of the connection, which it makes
\* last of all; samples are sent only to an end that is open.
Ends ==
    /\ socket = "open" <=> tnc_end = "open"
    /\ tm \notin {"wait", "join", "exit"} => tnc_end = "none"
    /\ down # 0 => tnc_end = "open"

LinkInv == StationInv /\ HandsFull /\ Ends

LEMMA LinkInitially == Init => LinkInv
<1>1. Init => HandsFull /\ Ends
  BY DEF Init, WireInit, NetaudInit, TncInit, ClientInit, HandsFull, Ends
<1>. QED  BY <1>1, StationInitially DEF LinkInv

NetaudStep ==
    NetaudMain \/ NetaudServer \/ ServerFails \/ NetaudCallback \/ PortAudio
TncStep ==
    \/ TncMain \/ SetupFails \/ KissThread \/ KissServerFails \/ ClientThread
    \/ KissClient \/ KissClientReads \/ KissClientGoes

LEMMA StepsSplit ==
    ASSUME Next
    PROVE  (NetaudStep /\ UNCHANGED tncVars) \/ (TncStep /\ UNCHANGED netaudVars)
BY DEF Next, InNetaud, InTnc, NetaudStep, TncStep

\* The bytes counted.
LEMMA Counts ==
    ASSUME StationInv
    PROVE  /\ up \in Nat /\ down \in Nat /\ chunk \in Nat /\ stored \in Nat /\ frames \in Nat
           /\ frames <= MaxFrames
BY Sizes DEF StationInv, TypeOK, WireTypeOK, NetaudTypeOK

LEMMA HandsFullKept ==
    ASSUME LinkInv, NetaudStep
    PROVE  HandsFull'
<1>. USE DEF HandsFull
<1>0. HandsFull /\ up \in Nat /\ (nm \in {"open", "start"} => spc = "none")
  BY Counts DEF LinkInv, StationInv, Exclusive
<1>1. CASE NetaudMain
  BY <1>0, <1>1 DEF NetaudMain, AudioOpen, AudioFails, ServerStart, ServerWait, AudioClose,
                    NetaudEnds
<1>2. CASE Accept \/ RecvEnd \/ client_data_start_callback \/ client_data_chunk_callback
           \/ client_data_end_callback \/ ServerFails
  BY <1>0, <1>2 DEF Accept, RecvEnd, client_data_start_callback, client_data_chunk_callback,
                    client_data_end_callback, ServerFails, netaudVars
<1>3. ASSUME NEW n \in Chunks(DataBufSize, up), RecvData(n) PROVE HandsFull'
  <2>1. n # 0
    BY <1>0, ChunkSizes, Sizes
  <2>. QED  BY <1>0, <1>3, <2>1 DEF RecvData
<1>4. CASE Broadcast \/ BroadcastSigPipe \/ CallbackLock \/ CallbackPop
  BY <1>0, <1>4 DEF Broadcast, BroadcastSigPipe, CallbackLock, CallbackPop, NetaudEnds
<1>5. ASSUME NEW n \in 1 .. MaxFrames, StreamCallback(n) PROVE HandsFull'
  BY <1>0, <1>5 DEF StreamCallback
<1>. QED  BY <1>1, <1>2, <1>3, <1>4, <1>5 DEF NetaudStep, NetaudServer, NetaudCallback, PortAudio

LEMMA EndsKeptByNetaud ==
    ASSUME LinkInv, NetaudStep, UNCHANGED tncVars
    PROVE  Ends'
<1>0. Ends /\ UNCHANGED <<socket, tm>>
  BY DEF LinkInv, tncVars, clientVars
<1>1. tnc_end' = tnc_end /\ (tnc_end # "open" => down' = down)
  <2>1. CASE NetaudMain
    BY <2>1 DEF NetaudMain, AudioOpen, AudioFails, ServerStart, ServerWait, AudioClose, wireVars
  <2>2. CASE NetaudServer \/ ServerFails
    BY <2>2 DEF NetaudServer, Accept, RecvEnd, RecvData, client_data_start_callback,
                client_data_chunk_callback, client_data_end_callback, ServerFails, wireVars
  <2>3. CASE NetaudCallback \/ PortAudio
    BY <2>3 DEF NetaudCallback, PortAudio, Broadcast, BroadcastSigPipe, CallbackLock,
                CallbackPop, StreamCallback, wireVars
  <2>. QED  BY <2>1, <2>2, <2>3 DEF NetaudStep
<1>. QED  BY <1>0, <1>1 DEF Ends

LEMMA EndsKeptByTnc ==
    ASSUME LinkInv, TncStep
    PROVE  Ends'
<1>. USE DEF Ends
<1>0. Ends /\ down \in Nat /\ (socket = "open" => tm \in {"wait", "join"})
      /\ tnc_end \in {"none", "open", "closed"}
  BY Counts DEF LinkInv, StationInv, Serving, TypeOK, WireTypeOK
<1>1. CASE TncEnds
  BY <1>0, <1>1 DEF TncEnds
<1>2. CASE ReadConfig \/ StartKissServer \/ MakeSocket \/ Connect \/ StopClient
  BY <1>0, <1>2 DEF ReadConfig, StartKissServer, MakeSocket, Connect, StopClient, ClientSocket,
                    ClientConnect, ClientStop, clientVars, wireVars
<1>3. CASE modulated_samples_callback \/ KissServerFails \/ KissClientReads \/ KissClientGoes
  BY <1>0, <1>3 DEF modulated_samples_callback, SendDone, KissServerFails, KissClientReads,
                    KissClientGoes, clientVars, wireVars
<1>4. CASE KissClient
  BY <1>0, <1>4 DEF KissClient, incoming_kiss_message_callback, clientVars, wireVars
<1>5. CASE data_callback \/ demodulated_packet_callback
           \/ (ClientEof /\ UNCHANGED <<tm, file, config, kissVars>>)
  BY <1>0, <1>5 DEF data_callback, demodulated_packet_callback, ClientEof, wireVars
<1>6. ASSUME NEW n \in Chunks(ClientBufSize, down), ClientRecv(n), UNCHANGED tm
      PROVE  Ends'
  <2>1. down # 0
    BY <1>0, ChunkSizes, NetClientAssumption
  <2>. QED  BY <1>0, <1>6, <2>1 DEF ClientRecv
<1>. QED  BY <1>1, <1>2, <1>3, <1>4, <1>5, <1>6
          DEF TncStep, TncMain, ConfigRefused, Cleanup, SetupFails, KissThread, SamplesRefused,
              ClientThread, PacketSigPipe

LEMMA LinkKeeps == LinkInv /\ [Next]_vars => LinkInv'
<1>. SUFFICES ASSUME LinkInv, [Next]_vars PROVE LinkInv'
  OBVIOUS
<1>1. StationInv'
  BY StationKeeps DEF LinkInv
<1>2. CASE NetaudStep /\ UNCHANGED tncVars
  BY <1>1, <1>2, HandsFullKept, EndsKeptByNetaud DEF LinkInv
<1>3. CASE TncStep /\ UNCHANGED netaudVars
  <2>1. HandsFull'
    BY <1>3 DEF LinkInv, HandsFull, netaudVars
  <2>. QED  BY <1>1, <1>3, <2>1, EndsKeptByTnc DEF LinkInv
<1>4. CASE UNCHANGED vars
  BY <1>1, <1>4 DEF LinkInv, HandsFull, Ends, vars, wireVars, netaudVars, tncVars, clientVars
<1>. QED  BY <1>2, <1>3, <1>4, StepsSplit

\* Nothing seen of the samples changes.
Unseen == UNCHANGED <<tnc_end, aud_end, InSession, up, chunk, stored, down>>

LEMMA UnseenStutters ==
    ASSUME Unseen
    PROVE  UNCHANGED (Link!linkVars)
BY DEF Unseen, Connection, Link!linkVars

LEMMA AudioEndsLinked ==
    ASSUME NetaudEnds, UNCHANGED down
    PROVE  Link!LinkNext
<1>1. Connection' = "broken"
  BY DEF NetaudEnds, Connection
<1>2. Link!AudioEnds
  BY <1>1 DEF NetaudEnds, InSession, Link!AudioEnds
<1>. QED  BY <1>2 DEF Link!LinkNext

\* netaud's main() and the callback: whole buffers are recorded and played.
LEMMA NetaudMainLinked ==
    ASSUME LinkInv, NetaudMain
    PROVE  [Link!LinkNext]_(Link!linkVars)
<1>1. CASE AudioFails \/ AudioClose
  BY <1>1, AudioEndsLinked DEF AudioFails, AudioClose
<1>2. CASE AudioOpen \/ ServerStart \/ ServerWait
  <2>1. Unseen
    BY <1>2 DEF LinkInv, StationInv, Exclusive, AudioOpen, ServerStart, ServerWait, Unseen,
                InSession, wireVars
  <2>. QED  BY <2>1, UnseenStutters
<1>. QED  BY <1>1, <1>2 DEF NetaudMain

LEMMA CallbackBuffers ==
    ASSUME LinkInv, cpc # "idle"
    PROVE  frames * SampleSize \in BufferSizes
<1>1. frames \in 1 .. MaxFrames
  BY Counts, Sizes DEF LinkInv, HandsFull
<1>. QED  BY <1>1 DEF BufferSizes

LEMMA CallbackLinked ==
    ASSUME LinkInv, NetaudCallback \/ PortAudio
    PROVE  [Link!LinkNext]_(Link!linkVars)
<1>1. CASE PortAudio \/ CallbackLock
  <2>1. Unseen
    BY <1>1 DEF PortAudio, StreamCallback, CallbackLock, Unseen, InSession, wireVars
  <2>. QED  BY <2>1, UnseenStutters
<1>2. CASE Broadcast
  <2>1. PICK size \in BufferSizes : size = frames * SampleSize
    BY <1>2, CallbackBuffers DEF Broadcast
  <2>2. UNCHANGED <<spc, InSession, stored, chunk, tnc_end, up>>
    BY <1>2 DEF Broadcast, InSession
  <2>3. CASE aud_end # "open" \/ tnc_end # "open"
    <3>1. Connection' = Connection /\ down' = down
      BY <1>2, <2>3 DEF Broadcast, Connection
    <3>. QED  BY <2>2, <3>1 DEF Link!linkVars
  <2>4. CASE aud_end = "open" /\ tnc_end = "open"
    <3>1. down' = down + size /\ aud_end' = aud_end
      BY <1>2, <2>1, <2>4 DEF Broadcast
    <3>2. Connection = "up" /\ Connection' = Connection
      BY <2>2, <2>4, <3>1 DEF Connection
    <3>3. Link!Record
      BY <2>2, <3>1, <3>2 DEF Link!Record
    <3>. QED  BY <3>3 DEF Link!LinkNext
  <2>. QED  BY <2>3, <2>4
<1>3. CASE BroadcastSigPipe
  BY <1>3, AudioEndsLinked DEF BroadcastSigPipe
<1>4. CASE CallbackPop
  <2>1. PICK size \in BufferSizes : size = frames * SampleSize
    BY <1>4, CallbackBuffers DEF CallbackPop
  <2>2. ~InSession /\ UNCHANGED <<InSession, Connection, up, chunk, down>>
    BY <1>4 DEF LinkInv, StationInv, Exclusive, CallbackPop, InSession, Connection, wireVars
  <2>3. stored' = IF stored < size THEN 0 ELSE stored - size
    <3>1. stored \in Nat
      BY Counts DEF LinkInv
    <3>2. stored' = stored - (IF stored < size THEN stored ELSE size)
      BY <1>4, <2>1 DEF CallbackPop, Popped, Wanted
    <3>. QED  BY <3>1, <3>2
  <2>4. Link!Play
    BY <2>2, <2>3 DEF Link!Play
  <2>. QED  BY <2>4 DEF Link!LinkNext
<1>. QED  BY <1>1, <1>2, <1>3, <1>4 DEF NetaudCallback

\* The server thread stores in sessions what it received.
LEMMA ServerLinked ==
    ASSUME LinkInv, NetaudServer \/ ServerFails
    PROVE  [Link!LinkNext]_(Link!linkVars)
<1>0. up \in Nat /\ chunk \in Nat /\ stored \in Nat /\ (chunk # 0 <=> spc \in {"lock", "push"})
  BY Counts DEF LinkInv, HandsFull
<1>1. CASE Accept \/ ServerFails
  <2>1. Connection' = Connection
    BY <1>1 DEF Accept, ServerFails, Connection, wireVars
  <2>2. UNCHANGED <<InSession, up, chunk, stored, down>>
    BY <1>1 DEF Accept, ServerFails, InSession, wireVars, netaudVars
  <2>. QED  BY <2>1, <2>2 DEF Link!linkVars
<1>2. ASSUME NEW n \in Chunks(DataBufSize, up), RecvData(n)
      PROVE  [Link!LinkNext]_(Link!linkVars)
  <2>1. n \in Nat
    BY <1>0, ChunkSizes, Sizes
  <2>2. chunk = 0 /\ up' = up - n /\ chunk' = n
    BY <1>0, <1>2 DEF RecvData
  <2>3. up' + chunk' = up + chunk
    BY <1>0, <2>1, <2>2
  <2>4. UNCHANGED <<InSession, stored, down, Connection>>
    BY <1>2 DEF RecvData, InSession, Connection
  <2>. QED  BY <2>3, <2>4 DEF Link!linkVars
<1>3. CASE RecvEnd
  <2>1. Connection = "broken" /\ Connection' = "broken"
    BY <1>3 DEF RecvEnd, Connection
  <2>2. up' + chunk' = 0
    BY <1>0, <1>3 DEF RecvEnd
  <2>3. UNCHANGED <<InSession, stored, down>>
    BY <1>3 DEF RecvEnd, InSession
  <2>4. Link!LoseSamples
    BY <2>1, <2>2, <2>3 DEF Link!LoseSamples
  <2>. QED  BY <2>4 DEF Link!LinkNext
<1>4. CASE client_data_start_callback
  <2>1. up + chunk > 0
    BY <1>0, <1>4 DEF client_data_start_callback
  <2>2. ~InSession /\ InSession' /\ UNCHANGED <<up, chunk, stored, down, Connection>>
    BY <1>4 DEF client_data_start_callback, InSession, Connection, wireVars
  <2>3. InSession' = TRUE
    BY <2>2 DEF InSession
  <2>4. Link!OpenSession
    BY <2>1, <2>2, <2>3 DEF Link!OpenSession
  <2>. QED  BY <2>4 DEF Link!LinkNext
<1>5. CASE client_data_chunk_callback
  <2>1. chunk > 0 /\ chunk' = 0 /\ up' = up /\ stored' = stored + chunk
    BY <1>0, <1>5 DEF client_data_chunk_callback, wireVars
  <2>2. up' + chunk' < up + chunk /\ stored' = stored + ((up + chunk) - (up' + chunk'))
    BY <1>0, <2>1
  <2>3. InSession /\ UNCHANGED <<InSession, down, Connection>>
    BY <1>5 DEF client_data_chunk_callback, InSession, Connection, wireVars
  <2>4. Link!Store
    BY <2>2, <2>3 DEF Link!Store
  <2>. QED  BY <2>4 DEF Link!LinkNext
<1>6. CASE client_data_end_callback
  <2>1. InSession /\ InSession' = FALSE /\ UNCHANGED <<up, chunk, stored, down, Connection>>
    BY <1>6 DEF client_data_end_callback, InSession, Connection, wireVars
  <2>2. Link!CloseSession
    BY <2>1 DEF Link!CloseSession
  <2>. QED  BY <2>2 DEF Link!LinkNext
<1>. QED  BY <1>1, <1>2, <1>3, <1>4, <1>5, <1>6 DEF NetaudServer

\* The TNC connects once, sends the samples of its bits and takes what it
\* receives; its end is the end of the connection.
LEMMA TncEndsLinked ==
    ASSUME LinkInv, TncEnds, UNCHANGED netaudVars
    PROVE  [Link!LinkNext]_(Link!linkVars)
<1>0. tnc_end \in {"none", "open", "closed"} /\ (down # 0 => tnc_end = "open")
  BY DEF LinkInv, StationInv, TypeOK, WireTypeOK, Ends
<1>1. UNCHANGED <<InSession, up, chunk, stored, aud_end>>
  BY DEF TncEnds, netaudVars, InSession
<1>2. down' = 0 /\ tnc_end' = IF tnc_end = "open" THEN "closed" ELSE tnc_end
  BY DEF TncEnds
<1>3. CASE tnc_end = "open"
  <2>1. Connection # "none" /\ Connection' = "broken"
    BY <1>1, <1>2, <1>3 DEF Connection
  <2>2. Link!TncEnds
    BY <1>1, <1>2, <2>1 DEF Link!TncEnds
  <2>. QED  BY <2>2 DEF Link!LinkNext
<1>4. CASE tnc_end # "open"
  <2>1. UNCHANGED <<down, Connection>>
    BY <1>0, <1>1, <1>2, <1>4 DEF Connection
  <2>. QED  BY <1>1, <2>1 DEF Link!linkVars
<1>. QED  BY <1>3, <1>4

LEMMA TncLinked ==
    ASSUME LinkInv, TncStep, UNCHANGED netaudVars
    PROVE  [Link!LinkNext]_(Link!linkVars)
<1>0. /\ up \in Nat /\ chunk \in Nat /\ down \in Nat /\ tnc_end \in {"none", "open", "closed"}
      /\ socket = "open" => tnc_end = "open"
      /\ tm = "connect" => tnc_end = "none"
  BY Counts DEF LinkInv, StationInv, TypeOK, WireTypeOK, Ends
<1>1. UNCHANGED <<InSession, chunk, stored>>
  BY DEF netaudVars, InSession
<1>2. CASE ConfigRefused \/ Cleanup \/ SetupFails \/ SamplesRefused \/ PacketSigPipe
  BY <1>2, TncEndsLinked DEF ConfigRefused, Cleanup, SetupFails, SamplesRefused, PacketSigPipe
<1>3. CASE \/ ReadConfig \/ StartKissServer \/ MakeSocket \/ StopClient \/ KissServerFails
           \/ KissClient \/ KissClientReads \/ KissClientGoes \/ data_callback
           \/ demodulated_packet_callback
           \/ (ClientEof /\ UNCHANGED <<tm, file, config, kissVars>>)
  <2>1. UNCHANGED wireVars
    BY <1>3 DEF ReadConfig, StartKissServer, MakeSocket, ClientSocket, StopClient, ClientStop,
                KissServerFails, KissClient, incoming_kiss_message_callback, KissClientReads,
                KissClientGoes, data_callback, demodulated_packet_callback, ClientEof
  <2>2. Unseen
    BY <1>1, <2>1 DEF Unseen, wireVars
  <2>. QED  BY <2>2, UnseenStutters
<1>4. CASE Connect
  <2>1. Connection = "none" /\ Connection' = "up"
    BY <1>0, <1>4 DEF Connect, ClientConnect, Connection
  <2>2. UNCHANGED <<up, down>>
    BY <1>4 DEF Connect, ClientConnect
  <2>3. Link!Connect
    BY <1>1, <2>1, <2>2 DEF Link!Connect
  <2>. QED  BY <2>3 DEF Link!LinkNext
<1>5. CASE modulated_samples_callback
  <2>1. SendDone(BitBytes) /\ UNCHANGED <<tnc_end, aud_end, down>> /\ socket = "open"
    BY <1>5 DEF modulated_samples_callback, SendDone
  <2>2. CASE aud_end = "closed"
    <3>1. Unseen
      BY <1>1, <2>1, <2>2 DEF SendDone, Unseen
    <3>. QED  BY <3>1, UnseenStutters
  <2>3. CASE aud_end # "closed"
    <3>1. up' = up + BitBytes
      BY <2>1, <2>3 DEF SendDone
    <3>2. Connection = "up" /\ Connection' = Connection
      BY <1>0, <2>1, <2>3 DEF Connection
    <3>3. up' + chunk' = (up + chunk) + BitBytes
      BY <1>0, <1>1, <3>1, Sizes
    <3>4. Link!Transmit
      BY <1>1, <2>1, <3>2, <3>3 DEF Link!Transmit
    <3>. QED  BY <3>4 DEF Link!LinkNext
  <2>. QED  BY <2>2, <2>3
<1>6. ASSUME NEW n \in Chunks(ClientBufSize, down), ClientRecv(n)
      PROVE  [Link!LinkNext]_(Link!linkVars)
  <2>1. n \in 1 .. ClientBufSize /\ down' = down - n
    BY <1>0, <1>6, ChunkSizes, NetClientAssumption DEF ClientRecv
  <2>2. down' < down
    BY <1>0, <2>1, NetClientAssumption
  <2>3. UNCHANGED <<up, Connection>>
    BY <1>6 DEF ClientRecv, Connection
  <2>4. Link!Receive
    BY <1>1, <2>2, <2>3 DEF Link!Receive
  <2>. QED  BY <2>4 DEF Link!LinkNext
<1>. QED  BY <1>2, <1>3, <1>4, <1>5, <1>6 DEF TncStep, TncMain, KissThread, ClientThread

\* netaud and ax25tnc, with their five threads, the mutex and the sockets between
\* them, implement the samples' way: each of their steps is one of its steps or
\* changes nothing of it.
THEOREM StationImplementsLink == Spec => ImplementsLink
<1>1. Init => LinkInv
  BY LinkInitially
<1>2. Init => Link!LinkInit
  BY DEF Init, WireInit, NetaudInit, TncInit, Link!LinkInit, Connection, InSession
<1>3. LinkInv /\ [Next]_vars => LinkInv'
  BY LinkKeeps
<1>4. LinkInv /\ [Next]_vars => [Link!LinkNext]_(Link!linkVars)
  <2>. SUFFICES ASSUME LinkInv, [Next]_vars PROVE [Link!LinkNext]_(Link!linkVars)
    OBVIOUS
  <2>1. CASE NetaudStep
    BY <2>1, NetaudMainLinked, CallbackLinked, ServerLinked DEF NetaudStep
  <2>2. CASE TncStep /\ UNCHANGED netaudVars
    BY <2>2, TncLinked
  <2>3. CASE UNCHANGED vars
    <3>1. Unseen
      BY <2>3 DEF vars, wireVars, netaudVars, Unseen, InSession
    <3>. QED  BY <3>1, UnseenStutters
  <2>. QED  BY <2>1, <2>2, <2>3, StepsSplit
<1>. QED  BY <1>1, <1>2, <1>3, <1>4, PTL DEF Spec, ImplementsLink, Link!LinkSpec

-----------------------------------------------------------------------------
(***************************************************************************)
(* The configuration                                                       *)
(***************************************************************************)
ConfigLines == Seq(Seq(STRING))

\* The lines the reading loop takes for entries, how many come before a line, and
\* the first one with a key.
EntryLines(f) == {i \in DOMAIN f : IsEntry(f[i])}
Before(f, n) == {i \in EntryLines(f) : i < n}
Count(f, n) == Cardinality(Before(f, n))
First(f, k) == {i \in EntryLines(f) : /\ f[i][1] = k
                                      /\ \A j \in EntryLines(f) : f[j][1] = k => i <= j}

\* The table after n lines: the entries among them, in order, as far as they fit.
Holds(f, table, n) ==
    /\ table \in ConfigLines
    /\ Len(table) = IF Count(f, n + 1) < MaxEntries THEN Count(f, n + 1) ELSE MaxEntries
    /\ \A i \in EntryLines(f) :
         i <= n /\ Count(f, i) < MaxEntries =>
            Count(f, i) + 1 \in 1 .. Len(table) /\ table[Count(f, i) + 1] = f[i]
    /\ \A m \in 1 .. Len(table) : \E i \in EntryLines(f) : i <= n /\ Count(f, i) + 1 = m

\* The recursion that stands for the loop of cs_config_read has a solution.
LEMMA TableDef ==
    ASSUME NEW f \in ConfigLines
    PROVE  /\ Table(f)[0] = <<>>
           /\ \A n \in 1 .. Len(f) : Table(f)[n] = Read(Table(f)[n - 1], f[n])
<1>. DEFINE Turn(t, n) == IF n = 0 THEN <<>> ELSE Read(t[n - 1], f[n])
            UpTo(t, m) == t = [n \in 0..m |-> Turn(t, n)]
            Missing == {m \in 0 .. Len(f) : ~\E t : UpTo(t, m)}
<1>0. Len(f) \in Nat
  BY DEF ConfigLines
<1>1. ASSUME Missing # {} PROVE FALSE
  <2>0. Missing \in SUBSET Nat
    BY <1>0
  <2>1. PICK m \in Missing : \A k \in Missing : m <= k
    <3>. HIDE DEF Missing
    <3>. QED  BY <1>1, <2>0, LeastNatural
  <2>2. m \in 0 .. Len(f) /\ ~\E t : UpTo(t, m)
    BY <2>1
  <2>3. CASE m = 0
    <3>. DEFINE new == [n \in 0..m |-> <<>>]
    <3>1. UpTo(new, m)
      BY <2>3
    <3>. QED  BY <2>2, <3>1
  <2>4. CASE m # 0
    <3>1. m - 1 \in 0 .. Len(f) /\ ~(m <= m - 1) /\ m \in Nat
      BY <2>2, <2>4, <1>0
    <3>2. PICK t : UpTo(t, m - 1)
      <4>. HIDE DEF UpTo
      <4>. QED  BY <2>1, <3>1
    <3>. DEFINE new == [n \in 0..m |-> IF n = m THEN Read(t[m - 1], f[m]) ELSE t[n]]
    <3>3. \A n \in 0..m : n # m => n \in 0 .. m - 1 /\ t[n] = Turn(t, n)
      BY <3>1, <3>2
    <3>4. \A n \in 0..m : n # 0 => n - 1 \in 0..m /\ n - 1 # m /\ new[n - 1] = t[n - 1]
      BY <3>1
    <3>5. \A n \in 0..m : new[n] = Turn(new, n)
      <4>. SUFFICES ASSUME NEW n \in 0..m PROVE new[n] = Turn(new, n)
        OBVIOUS
      <4>1. CASE n = m
        BY <2>4, <3>4, <4>1
      <4>2. CASE n # m
        BY <3>3, <3>4, <4>2
      <4>. QED  BY <4>1, <4>2
    <3>6. UpTo(new, m)
      BY <3>5
    <3>. QED  BY <2>2, <3>6
  <2>. QED  BY <2>3, <2>4
<1>2. \E t : UpTo(t, Len(f))
  <2>. HIDE DEF UpTo
  <2>. QED  BY <1>0, <1>1
<1>3. UpTo(Table(f), Len(f))
  <2>1. Table(f) = CHOOSE t : UpTo(t, Len(f))
    BY DEF Table
  <2>. HIDE DEF UpTo
  <2>. QED  BY <1>2, <2>1
<1>4. PICK T : T = Table(f)
  OBVIOUS
<1>5. \A n \in 0 .. Len(f) : T[n] = Turn(T, n)
  BY <1>3, <1>4
<1>. QED  BY <1>0, <1>4, <1>5

\* Counting the entries before a line.
LEMMA Counting ==
    ASSUME NEW f \in ConfigLines
    PROVE  /\ \A n \in Nat : IsFiniteSet(Before(f, n)) /\ Count(f, n) \in Nat
           /\ Count(f, 1) = 0
           /\ \A n \in EntryLines(f) : n \in 1 .. Len(f) /\ Count(f, n + 1) = Count(f, n) + 1
           /\ \A n \in 1 .. Len(f) : n \notin EntryLines(f) => Count(f, n + 1) = Count(f, n)
           /\ \A i \in EntryLines(f), n \in Nat : i < n => Count(f, i) < Count(f, n)
<1>0. DOMAIN f = 1 .. Len(f) /\ Len(f) \in Nat
  BY DEF ConfigLines
<1>1. ASSUME NEW n \in Nat PROVE IsFiniteSet(Before(f, n)) /\ Count(f, n) \in Nat
  <2>1. Before(f, n) \subseteq 1 .. Len(f)
    BY <1>0 DEF Before, EntryLines
  <2>2. IsFiniteSet(1 .. Len(f))
    BY <1>0, FS_Interval
  <2>3. IsFiniteSet(Before(f, n))
    BY <2>1, <2>2, FS_Subset
  <2>. QED  BY <2>3, FS_CardinalityType DEF Count
<1>2. Count(f, 1) = 0
  <2>1. Before(f, 1) = {}
    BY <1>0 DEF Before, EntryLines
  <2>. QED  BY <2>1, FS_EmptySet DEF Count
<1>3. ASSUME NEW n \in EntryLines(f) PROVE n \in 1 .. Len(f) /\ Count(f, n + 1) = Count(f, n) + 1
  <2>1. n \in 1 .. Len(f) /\ n \in Nat
    BY <1>0 DEF EntryLines
  <2>2. Before(f, n + 1) = Before(f, n) \cup {n} /\ n \notin Before(f, n)
    BY <1>0, <2>1 DEF Before, EntryLines
  <2>3. IsFiniteSet(Before(f, n))
    BY <1>1, <2>1
  <2>. QED  BY <2>1, <2>2, <2>3, FS_AddElement DEF Count
<1>4. ASSUME NEW n \in 1 .. Len(f), n \notin EntryLines(f) PROVE Count(f, n + 1) = Count(f, n)
  <2>1. Before(f, n + 1) = Before(f, n)
    BY <1>0, <1>4 DEF Before, EntryLines
  <2>. QED  BY <2>1 DEF Count
<1>5. ASSUME NEW i \in EntryLines(f), NEW n \in Nat, i < n
      PROVE  Count(f, i) < Count(f, n)
  <2>1. i \in Nat /\ n \in Nat /\ i + 1 \in Nat
    BY <1>3
  <2>2. Before(f, i + 1) \subseteq Before(f, n)
    BY <1>0, <1>5, <2>1 DEF Before, EntryLines
  <2>3. IsFiniteSet(Before(f, n))
    BY <1>1, <2>1
  <2>4. Cardinality(Before(f, i + 1)) <= Cardinality(Before(f, n))
    BY <2>2, <2>3, FS_Subset
  <2>5. Count(f, i + 1) <= Count(f, n)
    BY <2>4 DEF Count
  <2>6. Count(f, i + 1) = Count(f, i) + 1 /\ Count(f, i) \in Nat /\ Count(f, n) \in Nat
    BY <1>1, <1>3, <2>1
  <2>. QED  BY <2>5, <2>6
<1>. QED  BY <1>1, <1>2, <1>3, <1>4, <1>5

\* One turn of the reading loop.
LEMMA TurnHolds ==
    ASSUME NEW f \in ConfigLines, NEW n \in 1 .. Len(f), NEW table, Holds(f, table, n - 1)
    PROVE  Holds(f, Read(table, f[n]), n)
<1>0. /\ Len(f) \in Nat /\ n \in Nat /\ (n - 1) + 1 = n /\ f[n] \in Seq(STRING)
      /\ DOMAIN f = 1 .. Len(f)
  BY DEF ConfigLines
<1>1. MaxEntries \in Nat
  BY ConfigAssumption
<1>2. PICK c, d : c = Count(f, n) /\ d = Count(f, n + 1)
  OBVIOUS
<1>3. /\ c \in Nat
      /\ \A i \in EntryLines(f) : i \in Nat
      /\ \A i \in EntryLines(f) : i < n => Count(f, i) < c
      /\ n \in EntryLines(f) => d = c + 1
      /\ n \notin EntryLines(f) => d = c
  <2>1. \A i \in EntryLines(f) : i \in 1 .. Len(f)
    BY Counting
  <2>2. \A i \in EntryLines(f) : i < n => Count(f, i) < Count(f, n)
    BY <1>0, Counting
  <2>3. c \in Nat /\ (n \in EntryLines(f) => d = c + 1) /\ (n \notin EntryLines(f) => d = c)
    BY <1>0, <1>2, Counting
  <2>. QED  BY <1>0, <1>2, <2>1, <2>2, <2>3
<1>4. /\ table \in ConfigLines /\ Len(table) \in Nat
      /\ Len(table) = IF c < MaxEntries THEN c ELSE MaxEntries
      /\ \A i \in EntryLines(f) :
           i <= n - 1 /\ Count(f, i) < MaxEntries =>
              Count(f, i) + 1 \in 1 .. Len(table) /\ table[Count(f, i) + 1] = f[i]
      /\ \A m \in 1 .. Len(table) : \E i \in EntryLines(f) : i <= n - 1 /\ Count(f, i) + 1 = m
  <2>1. Count(f, (n - 1) + 1) = c
    BY <1>0, <1>2
  <2>2. table \in ConfigLines /\ Len(table) \in Nat
    BY DEF Holds, ConfigLines
  <2>3. Len(table) = IF c < MaxEntries THEN c ELSE MaxEntries
    BY <2>1 DEF Holds
  <2>. QED  BY <2>2, <2>3 DEF Holds
<1>5. CASE n \in EntryLines(f) /\ c < MaxEntries
  <2>1. Len(table) = c /\ IsEntry(f[n])
    BY <1>4, <1>5 DEF EntryLines
  <2>2. PICK new : new = Append(table, f[n])
    OBVIOUS
  <2>3. Read(table, f[n]) = new
    BY <1>5, <2>1, <2>2 DEF Read
  <2>4. /\ new \in ConfigLines /\ Len(new) = c + 1 /\ new[c + 1] = f[n]
        /\ \A m \in 1 .. c : new[m] = table[m]
    BY <1>0, <1>3, <1>4, <2>1, <2>2 DEF ConfigLines
  <2>5. Len(new) = IF d < MaxEntries THEN d ELSE MaxEntries
    BY <1>1, <1>3, <1>5, <2>4
  <2>6. ASSUME NEW i \in EntryLines(f), i <= n, Count(f, i) < MaxEntries
        PROVE  Count(f, i) + 1 \in 1 .. Len(new) /\ new[Count(f, i) + 1] = f[i]
    <3>1. CASE i = n
      BY <1>2, <1>3, <2>4, <3>1
    <3>2. CASE i # n
      <4>1. i <= n - 1
        BY <1>0, <1>3, <2>6, <3>2
      <4>2. Count(f, i) + 1 \in 1 .. c /\ table[Count(f, i) + 1] = f[i]
        BY <1>4, <2>1, <2>6, <4>1
      <4>. QED  BY <1>3, <2>4, <4>2
    <3>. QED  BY <3>1, <3>2
  <2>7. ASSUME NEW m \in 1 .. Len(new)
        PROVE  \E i \in EntryLines(f) : i <= n /\ Count(f, i) + 1 = m
    <3>1. CASE m = c + 1
      BY <1>0, <1>2, <1>5, <3>1
    <3>2. CASE m # c + 1
      <4>1. m \in 1 .. Len(table)
        BY <1>3, <2>1, <2>4, <3>2
      <4>2. PICK i \in EntryLines(f) : i <= n - 1 /\ Count(f, i) + 1 = m
        BY <1>4, <4>1
      <4>. QED  BY <1>0, <1>3, <4>2
    <3>. QED  BY <3>1, <3>2
  <2>. QED  BY <1>2, <2>3, <2>4, <2>5, <2>6, <2>7 DEF Holds
<1>6. CASE ~(n \in EntryLines(f) /\ c < MaxEntries)
  <2>1. n \in EntryLines(f) <=> IsEntry(f[n])
    BY <1>0 DEF EntryLines
  <2>2. Read(table, f[n]) = table
    BY <1>1, <1>4, <1>6, <2>1 DEF Read
  <2>3. Len(table) = IF d < MaxEntries THEN d ELSE MaxEntries
    BY <1>1, <1>3, <1>4, <1>6
  <2>4. ASSUME NEW i \in EntryLines(f), i <= n, Count(f, i) < MaxEntries
        PROVE  Count(f, i) + 1 \in 1 .. Len(table) /\ table[Count(f, i) + 1] = f[i]
    <3>1. i <= n - 1
      <4>1. i # n
        BY <1>2, <1>6, <2>4
      <4>. QED  BY <1>0, <1>3, <2>4, <4>1
    <3>. QED  BY <1>4, <2>4, <3>1
  <2>5. ASSUME NEW m \in 1 .. Len(table)
        PROVE  \E i \in EntryLines(f) : i <= n /\ Count(f, i) + 1 = m
    <3>1. PICK i \in EntryLines(f) : i <= n - 1 /\ Count(f, i) + 1 = m
      BY <1>4
    <3>. QED  BY <1>0, <1>3, <3>1
  <2>. QED  BY <1>2, <1>4, <2>2, <2>3, <2>4, <2>5 DEF Holds
<1>. QED  BY <1>5, <1>6

\* After the last line the table holds the entries of the file, as far as they fit.
LEMMA TableHolds ==
    ASSUME NEW f \in ConfigLines
    PROVE  Holds(f, cs_config_read(f), Len(f))
<1>. DEFINE Wrong == {n \in 0 .. Len(f) : ~Holds(f, Table(f)[n], n)}
<1>0. Len(f) \in Nat
  BY DEF ConfigLines
<1>1. ASSUME Wrong # {} PROVE FALSE
  <2>1. PICK n \in Wrong : \A m \in Wrong : n <= m
    <3>1. Wrong \in SUBSET Nat
      BY <1>0
    <3>. HIDE DEF Wrong
    <3>. QED  BY <1>1, <3>1, LeastNatural
  <2>2. CASE n = 0
    <3>1. Holds(f, <<>>, 0)
      <4>1. Count(f, 0 + 1) = 0 /\ \A i \in EntryLines(f) : i \in 1 .. Len(f)
        BY Counting
      <4>2. \A i \in EntryLines(f) : ~(i <= 0)
        BY <4>1
      <4>3. <<>> \in ConfigLines /\ Len(<<>>) = 0 /\ 1 .. 0 = {} /\ MaxEntries \in Nat
        BY ConfigAssumption DEF ConfigLines
      <4>. QED  BY <4>1, <4>2, <4>3 DEF Holds
    <3>. QED  BY <2>1, <2>2, <3>1, TableDef
  <2>3. CASE n # 0
    <3>1. n \in 1 .. Len(f) /\ n - 1 \in 0 .. Len(f) /\ ~(n <= n - 1)
      BY <1>0, <2>1, <2>3
    <3>2. PICK table : table = Table(f)[n - 1]
      OBVIOUS
    <3>3. Holds(f, table, n - 1)
      BY <2>1, <3>1, <3>2
    <3>4. Holds(f, Read(table, f[n]), n)
      BY <3>1, <3>3, TurnHolds
    <3>5. Table(f)[n] = Read(table, f[n])
      BY <3>1, <3>2, TableDef
    <3>. QED  BY <2>1, <3>4, <3>5
  <2>. QED  BY <2>2, <2>3
<1>2. Len(f) \in 0 .. Len(f)
  BY <1>0
<1>3. Holds(f, Table(f)[Len(f)], Len(f))
  BY <1>1, <1>2
<1>. QED  BY <1>3 DEF cs_config_read

\* A key that is in the table has the value of the first line with it; one that is
\* not has no line that fits.
LEMMA KeyRead ==
    ASSUME NEW f \in ConfigLines, NEW k, NEW table, table = cs_config_read(f)
    PROVE  /\ Has(table, k) =>
                \E i \in First(f, k) : cs_config_get_str(table, k) = f[i][2]
           /\ ~Has(table, k) => \A i \in First(f, k) : ~(Count(f, i) < MaxEntries)
<1>0. /\ Len(f) \in Nat /\ \A i \in EntryLines(f) : i \in 1 .. Len(f) /\ i \in Nat
      /\ \A i \in EntryLines(f) : Count(f, i) \in Nat
  <2>1. Len(f) \in Nat
    BY DEF ConfigLines
  <2>2. \A i \in EntryLines(f) : i \in 1 .. Len(f)
    BY Counting
  <2>3. \A i \in EntryLines(f) : i \in Nat
    BY <2>1, <2>2
  <2>. QED  BY <2>1, <2>2, <2>3, Counting
<1>1. /\ table \in ConfigLines
      /\ Len(table) <= MaxEntries
      /\ \A i \in EntryLines(f) :
           Count(f, i) < MaxEntries =>
              Count(f, i) + 1 \in 1 .. Len(table) /\ table[Count(f, i) + 1] = f[i]
      /\ \A m \in 1 .. Len(table) : \E i \in EntryLines(f) : Count(f, i) + 1 = m
  <2>1. Holds(f, table, Len(f))
    BY TableHolds
  <2>2. \A i \in EntryLines(f) : i <= Len(f)
    BY <1>0
  <2>3. MaxEntries \in Nat /\ Count(f, Len(f) + 1) \in Nat
    BY <1>0, ConfigAssumption, Counting
  <2>. QED  BY <2>1, <2>2, <2>3 DEF Holds
<1>2. DOMAIN table = 1 .. Len(table) /\ Len(table) \in Nat
  BY <1>1 DEF ConfigLines
<1>3. ASSUME Has(table, k)
      PROVE  \E i \in First(f, k) : cs_config_get_str(table, k) = f[i][2]
  <2>. DEFINE With == {m \in 1 .. Len(table) : table[m][1] = k}
              IsFound(m) == table[m][1] = k /\ \A j \in 1 .. m - 1 : table[j][1] # k
              found == CHOOSE m \in DOMAIN table : IsFound(m)
  <2>1. \E m \in DOMAIN table : IsFound(m)
    <3>1. With # {} /\ With \in SUBSET Nat
      BY <1>2, <1>3 DEF Has
    <3>2. PICK m \in With : \A j \in With : m <= j
      <4>. HIDE DEF With
      <4>. QED  BY <3>1, LeastNatural
    <3>3. \A j \in 1 .. m - 1 : j \in 1 .. Len(table) /\ ~(m <= j)
      BY <1>2, <3>2
    <3>. QED  BY <1>2, <3>2, <3>3
  <2>2. found \in 1 .. Len(table) /\ IsFound(found)
    BY <1>2, <2>1
  <2>3. cs_config_get_str(table, k) = table[found][2]
    BY DEF cs_config_get_str
  <2>4. PICK m : m = found
    OBVIOUS
  <2>5. /\ m \in 1 .. Len(table) /\ table[m][1] = k /\ \A j \in 1 .. m - 1 : table[j][1] # k
        /\ cs_config_get_str(table, k) = table[m][2]
    BY <2>2, <2>3, <2>4
  <2>6. PICK i \in EntryLines(f) : Count(f, i) + 1 = m
    BY <1>1, <2>5
  <2>7. Count(f, i) < MaxEntries
    BY <1>0, <1>1, <1>2, <2>5, <2>6, ConfigAssumption
  <2>8. table[m] = f[i]
    BY <1>1, <2>6, <2>7
  <2>9. ASSUME NEW j \in EntryLines(f), f[j][1] = k PROVE i <= j
    <3>1. ASSUME j < i PROVE FALSE
      <4>1. Count(f, j) < Count(f, i)
        BY <3>1, Counting
      <4>2. Count(f, j) < MaxEntries /\ Count(f, j) + 1 \in 1 .. m - 1
        BY <1>0, <2>5, <2>6, <2>7, <4>1, ConfigAssumption
      <4>3. table[Count(f, j) + 1] = f[j]
        BY <1>1, <4>2
      <4>. QED  BY <2>5, <2>9, <4>2, <4>3
    <3>. QED  BY <1>0, <3>1
  <2>10. i \in First(f, k)
    BY <2>5, <2>8, <2>9 DEF First
  <2>. QED  BY <2>5, <2>8, <2>10
<1>4. ASSUME NEW i \in First(f, k), Count(f, i) < MaxEntries PROVE Has(table, k)
  <2>1. i \in EntryLines(f) /\ f[i][1] = k
    BY DEF First
  <2>2. Count(f, i) + 1 \in 1 .. Len(table) /\ table[Count(f, i) + 1] = f[i]
    BY <1>1, <1>4, <2>1
  <2>. QED  BY <1>2, <2>1, <2>2 DEF Has
<1>. QED  BY <1>3, <1>4

\* The TNC has its parameters if and only if each was supplied.
LEMMA ParametersRead ==
    ASSUME NEW f \in ConfigLines, NEW table, table = cs_config_read(f)
    PROVE  /\ ax25tnc_config_read(f) = <<>> <=> \E k \in Keys : ~Has(table, k)
           /\ ax25tnc_config_read(f) # <<>> =>
                \A k \in Keys : ax25tnc_config_read(f)[k] =
                   IF k \in NumKeys THEN Atoi(cs_config_get_str(table, k))
                   ELSE cs_config_get_str(table, k)
<1>1. Keys # {}
  BY ConfigAssumption DEF Keys
<1>2. CASE \A k \in Keys : Has(table, k)
  <2>. DEFINE read == [k \in Keys |-> IF k \in NumKeys THEN Atoi(cs_config_get_str(table, k))
                                      ELSE cs_config_get_str(table, k)]
  <2>1. ax25tnc_config_read(f) = read
    BY <1>2 DEF ax25tnc_config_read, cs_config_get_int
  <2>2. read # <<>>
    <3>1. DOMAIN read = Keys
      OBVIOUS
    <3>2. DOMAIN <<>> = {}
      OBVIOUS
    <3>. QED  BY <1>1, <3>1, <3>2
  <2>. QED  BY <1>2, <2>1, <2>2
<1>3. CASE \E k \in Keys : ~Has(table, k)
  BY <1>3 DEF ax25tnc_config_read
<1>. QED  BY <1>2, <1>3

\* What main() has read, until the KISS server starts.
ConfigInv ==
    /\ tm = "config" => file \in ConfigLines
    /\ tm \in {"server", "refuse"} =>
         /\ file \in ConfigLines /\ config = ax25tnc_config_read(file)
         /\ tm = "refuse" <=> config = <<>>

LEMMA ConfigKeeps == ConfigInv /\ [Next]_vars => ConfigInv'
<1>. SUFFICES ASSUME ConfigInv, [Next]_vars PROVE ConfigInv'
  OBVIOUS
<1>1. CASE ReadConfig
  BY <1>1 DEF ConfigInv, ReadConfig
<1>2. CASE tm' \notin {"config", "server", "refuse"}
  BY <1>2 DEF ConfigInv
<1>3. CASE UNCHANGED <<tm, file, config>>
  BY <1>3 DEF ConfigInv
<1>4. ASSUME TncMain \/ SetupFails \/ KissThread \/ KissServerFails
      PROVE  ReadConfig \/ tm' \notin {"config", "server", "refuse"} \/ UNCHANGED <<tm, file, config>>
  BY <1>4 DEF TncMain, ConfigRefused, StartKissServer, MakeSocket, Connect, SetupFails, StopClient,
       Cleanup, TncEnds, KissThread, modulated_samples_callback, SamplesRefused, SendFails,
       KissServerFails
<1>5. ASSUME ClientThread \/ KissClient \/ KissClientReads \/ KissClientGoes
      PROVE  tm' \notin {"config", "server", "refuse"} \/ UNCHANGED <<tm, file, config>>
  BY <1>5 DEF ClientThread, ClientRecv, data_callback, demodulated_packet_callback, PacketSigPipe, TncEnds,
       KissClient, incoming_kiss_message_callback, KissClientReads, KissClientGoes, kissVars
<1>6. CASE UNCHANGED vars \/ UNCHANGED tncVars
  BY <1>3, <1>6 DEF vars, tncVars
<1>. QED  BY <1>1, <1>2, <1>3, <1>4, <1>5, <1>6 DEF Next, InNetaud, InTnc

\* cs_config_read, cs_config_get_* and ax25tnc_config_read give a TNC that starts
\* what the first line with each key says, for every file and every size of the
\* table; a TNC that refuses to start found a key in none of the entries that fit.
THEOREM ConfigIsFaithful == Spec => []ConfigFaithful
<1>1. Init => ConfigInv
  BY TncAssumption DEF Init, TncInit, ConfigInv, ConfigLines
<1>2. ConfigInv => ConfigFaithful
  <2>. SUFFICES ASSUME ConfigInv, tm \in {"server", "refuse"} PROVE ConfigFaithful
    BY DEF ConfigFaithful
  <2>1. PICK f \in ConfigLines : f = file
    BY DEF ConfigInv
  <2>2. PICK table : table = cs_config_read(f)
    OBVIOUS
  <2>3. ASSUME tm = "server", NEW k \in Keys
        PROVE  \E i \in First(f, k) : config[k] = IF k \in NumKeys THEN Atoi(f[i][2]) ELSE f[i][2]
    <3>1. config = ax25tnc_config_read(f) /\ config # <<>>
      BY <2>1, <2>3 DEF ConfigInv
    <3>2. Has(table, k)
      BY <2>2, <3>1, ParametersRead
    <3>3. PICK i \in First(f, k) : cs_config_get_str(table, k) = f[i][2]
      BY <2>2, <3>2, KeyRead
    <3>. QED  BY <2>2, <3>1, <3>3, ParametersRead
  <2>4. ASSUME tm = "refuse"
        PROVE  \E k \in Keys : \A i \in First(f, k) : ~(Count(f, i) < MaxEntries)
    <3>1. ax25tnc_config_read(f) = <<>>
      BY <2>1, <2>4 DEF ConfigInv
    <3>2. PICK k \in Keys : ~Has(table, k)
      BY <2>2, <3>1, ParametersRead
    <3>. QED  BY <2>2, <3>2, KeyRead
  <2>. QED  BY <2>1, <2>3, <2>4 DEF ConfigFaithful, First, Count, Before, EntryLines, IsEntry
<1>. QED  BY <1>1, <1>2, ConfigKeeps, PTL DEF Spec
=============================================================================
