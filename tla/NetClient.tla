------------------------------ MODULE NetClient -----------------------------
(***************************************************************************)
(* src/netstuff/netclient.c: a TCP client with a thread that receives.     *)
(* ns_client_t is zeroed by ns_client_init (and, as a global, before), so  *)
(* that an unconnected client's socket is descriptor 0, standard input.    *)
(***************************************************************************)
EXTENDS Wire

CONSTANTS ClientBufSize   \* DATA_BUF_SIZE of the client thread

ASSUME NetClientAssumption == ClientBufSize \in Nat \ {0}

VARIABLES socket,   \* client->socket: "stdin" (0), "fresh" (not connected), "open"
          crun,     \* client->run
          ct,       \* client thread: "none", "recv", "callback", "packet", "done"
          partial   \* history: bytes of a sample that the last chunks broke off

clientVars == <<socket, crun, ct, partial>>

ClientInit == socket = "stdin" /\ crun = FALSE /\ ct = "none" /\ partial = 0

\* ns_client_connect up to socket().
ClientSocket ==
    /\ socket' = "fresh" /\ crun' = FALSE
    /\ UNCHANGED <<ct, partial, wireVars>>

\* connect() and pthread_create() succeed.
ClientConnect ==
    /\ socket' = "open" /\ crun' = TRUE /\ ct' = "recv"
    /\ tnc_end' = "open" /\ aud_end' = "queued"
    /\ UNCHANGED <<partial, up, down, cut>>

\* Mutant of SendFails: a full socket is an error.
SendFailsFull(n) == socket # "open" \/ aud_end = "closed" \/ up + n > UpCap

\* ns_client_send of n bytes fails: the socket is descriptor 0 or not connected,
\* which the check for a negative one does not see, or the server is gone.
SendFails(n) == socket # "open" \/ aud_end = "closed"

\* It succeeds, perhaps after waiting for room; what is sent first after the
\* server has gone is lost.
SendDone(n) ==
    /\ socket = "open"
    /\ IF aud_end = "closed" THEN UNCHANGED up
       ELSE up + n <= UpCap /\ up' = up + n
    /\ UNCHANGED <<clientVars, tnc_end, aud_end, down, cut>>

\* Back at the head of the client thread's loop.
Loop == IF crun THEN "recv" ELSE "done"

\* recv() returns n bytes for data_callback, which hands whole samples on.
ClientRecv(n) ==
    /\ ct = "recv"
    /\ down' = down - n /\ Cuts(n)
    /\ partial' = (partial + n) % SampleSize
    /\ ct' = "callback"
    /\ UNCHANGED <<socket, crun, tnc_end, aud_end, up>>

\* recv() returns 0, or fails: a reset discards what was not received.
ClientEof ==
    /\ ct = "recv" /\ aud_end = "closed"
    /\ ct' = "done"
    /\ UNCHANGED <<socket, crun, partial, wireVars>>


\* ns_client_destroy: no more turns of the loop ...
ClientStop ==
    /\ crun' = FALSE
    /\ UNCHANGED <<socket, ct, partial, wireVars>>

\* ... and pthread_join().
ClientJoined == ct = "done"

ClientTypeOK ==
    /\ socket \in {"stdin", "fresh", "open"} /\ crun \in BOOLEAN
    /\ ct \in {"none", "recv", "callback", "packet", "done"}
    /\ partial \in 0 .. SampleSize - 1
=============================================================================
