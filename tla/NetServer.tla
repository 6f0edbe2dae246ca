----------------------------- MODULE NetServer ------------------------------
(***************************************************************************)
(* src/netstuff/netserver.c: a TCP server with a fixed table of client     *)
(* sockets, shared by two threads:                                         *)
(*   - the server thread (server_thread_function) polls, accepts, receives *)
(*     and drops clients whose recv() fails;                               *)
(*   - the caster, whichever thread calls ns_server_broadcast (netaud: the *)
(*     audio callback; ax25tnc: the audio client's thread), sends to every *)
(*     client and drops those whose send() fails.                          *)
(* client_sockets_mutex is taken by the caster around a drop and by the    *)
(* server thread around the construction of the set it polls, and nowhere  *)
(* else; every other access to client_sockets is unsynchronised, so each   *)
(* access is a step of its own.                                            *)
(*                                                                         *)
(* The kernel (external) is a table of file descriptors, with accept()     *)
(* returning the lowest free number as POSIX requires.  Number 0 starts as *)
(* the process's standard input.  The listening socket stays open for as   *)
(* long as the server runs; its number is Listener.                        *)
(***************************************************************************)
EXTENDS Integers, Sequences, FiniteSets

CONSTANTS MaxClients,     \* MAX_CLIENTS
          QueueSize,      \* CONNECTION_QUEUE_SIZE
          BufSize,        \* DATA_BUF_SIZE, in units of data
          Duplex,         \* is client_data_chunk_callback set?
          Conns,          \* bound: the connections clients may make
          MaxFd,          \* bound: the descriptors are 0..MaxFd
          MaxInbox,       \* bound: received data not yet read, per connection
          MaxBroadcasts,  \* bound: calls of ns_server_broadcast
          Faults,         \* which unlikely outcomes of system calls may occur
          Stdin, Closed   \* what a descriptor may stand for besides a connection

ASSUME NetServerAssumption ==
    /\ MaxClients \in Nat \ {0} /\ QueueSize \in Nat \ {0} /\ BufSize \in Nat \ {0}
    /\ MaxFd \in Nat /\ MaxInbox \in Nat /\ MaxBroadcasts \in Nat
    /\ Duplex \in BOOLEAN
    /\ Faults \subseteq {"addrlen", "short", "sigpipe"}
    /\ Stdin \notin Conns /\ Closed \notin Conns /\ Stdin # Closed

VARIABLES
    fds,             \* kernel: what each descriptor stands for
    peer,            \* the client's end: "new", "up" or "gone"
    backlog,         \* connections waiting for accept()
    inbox,           \* amount of received, unread data
    stalled,         \* connections whose send buffer is full
    client_sockets,  \* server->client_sockets; 0 is an empty slot
    mutex,           \* holder of server->client_sockets_mutex
    spc, si,         \* server thread: place and loop index i
    fdset,           \* its sockets_to_read
    client_socket,   \* its client_socket while it looks for a slot, else 0
    recving,         \* the connection its recv() call is waiting on, else Closed
    total,           \* client_data_total_len > 0
    addrset,         \* client_address_length has been written by accept()
    session,         \* start callback called, end callback not yet
    bpc, bi,         \* caster: place and loop index i
    wfd,             \* the member of its write_fds, 0 when out of scope
    bn,              \* number of the broadcast in progress (history)
    got,             \* the broadcasts each client received, in order (history)
    cut              \* clients that received only part of a broadcast (history)

kernelVars == <<fds, peer, backlog, inbox, stalled>>
serverVars == <<spc, si, fdset, client_socket, recving, total, addrset, session>>
casterVars == <<bpc, bi, wfd, bn, got, cut>>
vars == <<kernelVars, client_sockets, mutex, serverVars, casterVars>>

Slots == 1..MaxClients
Fd == 0..MaxFd
Listener == MaxFd + 1

\* No thread of the process runs any more.
Dead == "dead"

-----------------------------------------------------------------------------
(***************************************************************************)
(* Kernel                                                                  *)
(***************************************************************************)
Free == {f \in Fd : fds[f] = Closed}
Lowest(S) == CHOOSE f \in S : \A g \in S : f <= g

\* close(f): EBADF on a closed descriptor changes nothing.
Close(f) == fds' = [fds EXCEPT ![f] = Closed]

Readable(f) == IF f = Listener THEN backlog # <<>>
               ELSE fds[f] \in Conns /\ (inbox[fds[f]] > 0 \/ peer[fds[f]] = "gone")

\* Is there room to send?  (What descriptor 0 stood for at first always takes
\* data, and sending to a client that has gone does not block.)
Writable(f) == fds[f] \notin stalled

-----------------------------------------------------------------------------
(***************************************************************************)
(* Clients (external)                                                      *)
(***************************************************************************)
Connect(c) ==
    /\ peer[c] = "new" /\ Len(backlog) < QueueSize
    /\ peer' = [peer EXCEPT ![c] = "up"]
    /\ backlog' = Append(backlog, c)
    /\ UNCHANGED <<fds, inbox, stalled, client_sockets, mutex, serverVars, casterVars>>

ClientSend(c, n) ==
    /\ peer[c] = "up" /\ inbox[c] + n <= MaxInbox
    /\ inbox' = [inbox EXCEPT ![c] = @ + n]
    /\ UNCHANGED <<fds, peer, backlog, stalled, client_sockets, mutex, serverVars, casterVars>>

ClientClose(c) ==
    /\ peer[c] = "up"
    /\ peer' = [peer EXCEPT ![c] = "gone"]
    /\ stalled' = stalled \ {c}
    /\ UNCHANGED <<fds, backlog, inbox, client_sockets, mutex, serverVars, casterVars>>

\* The client reads, and its end of the connection takes data again.
Resume(c) ==
    /\ c \in stalled
    /\ stalled' = stalled \ {c}
    /\ UNCHANGED <<fds, peer, backlog, inbox, client_sockets, mutex, serverVars, casterVars>>

Client(c) ==
    \/ Connect(c) \/ ClientClose(c) \/ Resume(c)
    \/ \E n \in 1..MaxInbox : ClientSend(c, n)

-----------------------------------------------------------------------------
(***************************************************************************)
(* Server thread                                                           *)
(***************************************************************************)
\* The server thread goes to wait for the descriptors of a set.
PollFor(set) ==
    /\ fdset' = set
    /\ spc' = "pselect"
    /\ UNCHANGED <<kernelVars, client_sockets, mutex, si, client_socket, recving, total,
                   addrset, session, casterVars>>

ClientSockets == {client_sockets[i] : i \in Slots} \ {0}

\* Mutant of BuildSet: client sockets are polled also without a data callback.
BuildSetAll ==
    /\ spc = "top" /\ mutex = "free"
    /\ PollFor({Listener} \cup ClientSockets)

\* Mutant of BuildSet: connections are left in the queue while the table is full.
BuildSetWithRoom ==
    /\ spc = "top" /\ (Duplex => mutex = "free")
    /\ PollFor((IF \E i \in Slots : client_sockets[i] = 0 THEN {Listener} ELSE {})
                 \cup (IF Duplex THEN ClientSockets ELSE {}))

\* Build sockets_to_read; the client sockets are read under the mutex.
BuildSet ==
    /\ spc = "top"
    /\ Duplex => mutex = "free"
    /\ PollFor({Listener} \cup (IF Duplex THEN ClientSockets ELSE {}))

\* pselect(): a closed member makes it fail and ends the thread; nothing to
\* read within a second starts over.
Pselect ==
    /\ spc = "pselect"
    /\ LET ready == {f \in fdset : Readable(f)}
       IN  IF fdset \cap Free # {}
           THEN spc' = "done" /\ UNCHANGED fdset
           ELSE /\ fdset' = ready
                /\ spc' = IF ready = {} THEN "top" ELSE "accept"
    /\ UNCHANGED <<kernelVars, client_sockets, mutex, si, client_socket, recving, total,
                   addrset, session, casterVars>>

\* accept(), when the listening socket is ready.  Before the first accept()
\* client_address_length is uninitialised: the call may fail, or leave the
\* address unwritten so that it reads as 0 and the client is turned away.
Accept ==
    /\ spc = "accept"
    /\ si' = 1
    /\ \/ /\ Listener \notin fdset
          /\ spc' = "scan"
          /\ UNCHANGED <<fds, backlog, fdset, client_socket, addrset>>
       \/ /\ Listener \in fdset
          /\ backlog' = IF Free = {} THEN backlog ELSE Tail(backlog)
          /\ addrset' = TRUE
          /\ \/ /\ Free # {}
                /\ client_socket' = Lowest(Free)
                /\ fds' = [fds EXCEPT ![Lowest(Free)] = Head(backlog)]
                /\ spc' = "slot"
                /\ UNCHANGED fdset
             \/ /\ Free = {} \/ ("addrlen" \in Faults /\ ~addrset)
                /\ spc' = "done"
                /\ UNCHANGED <<fds, fdset, client_socket>>
             \/ /\ Free # {} /\ "addrlen" \in Faults /\ ~addrset
                /\ spc' = "top" /\ fdset' = {}
                /\ UNCHANGED <<fds, client_socket>>
    /\ UNCHANGED <<peer, inbox, stalled, client_sockets, mutex, recving, total,
                   session, casterVars>>

\* One iteration of the search for an empty slot, or the rejection after it.
FindSlot ==
    /\ spc = "slot"
    /\ \/ /\ si > MaxClients
          /\ Close(client_socket)
          /\ spc' = "scan" /\ si' = 1 /\ client_socket' = 0
          /\ UNCHANGED client_sockets
       \/ /\ si \in Slots /\ client_sockets[si] <= 0
          /\ client_sockets' = [client_sockets EXCEPT ![si] = client_socket]
          /\ spc' = "scan" /\ si' = 1 /\ client_socket' = 0
          /\ UNCHANGED fds
       \/ /\ si \in Slots /\ client_sockets[si] > 0
          /\ si' = si + 1
          /\ UNCHANGED <<fds, client_sockets, client_socket, spc>>
    /\ UNCHANGED <<peer, backlog, inbox, stalled, mutex, fdset, recving, total, addrset,
                   session, casterVars>>

\* One iteration of the search for client sockets with activity.
Scan ==
    /\ spc = "scan"
    /\ \/ /\ ~Duplex \/ si > MaxClients
          /\ spc' = "top" /\ si' = 1 /\ fdset' = {}
       \/ /\ Duplex /\ si \in Slots
          /\ IF client_sockets[si] > 0 /\ client_sockets[si] \in fdset
             THEN spc' = "recv" /\ UNCHANGED si
             ELSE si' = si + 1 /\ UNCHANGED spc
          /\ UNCHANGED fdset
    /\ UNCHANGED <<kernelVars, client_sockets, mutex, client_socket, recving, total,
                   addrset, session, casterVars>>

\* recv() looks its descriptor up: not a socket or not open is an error.
RecvCall ==
    /\ spc = "recv"
    /\ LET o == fds[client_sockets[si]]
       IN  IF o \in Conns
           THEN recving' = o /\ spc' = "recving"
           ELSE UNCHANGED recving /\ spc' = "drop"
    /\ UNCHANGED <<kernelVars, client_sockets, mutex, si, fdset, client_socket, total,
                   addrset, session, casterVars>>

\* recv() returns data: the start callback before the first chunk, the chunk
\* callback, and another recv() if the buffer was filled.
RecvData ==
    /\ spc = "recving" /\ inbox[recving] > 0
    /\ LET n == IF inbox[recving] < BufSize THEN inbox[recving] ELSE BufSize
       IN  /\ inbox' = [inbox EXCEPT ![recving] = @ - n]
           /\ spc' = IF n = BufSize THEN "recv" ELSE "end"
    /\ session' = TRUE
    /\ total' = TRUE
    /\ recving' = Closed
    /\ UNCHANGED <<fds, peer, backlog, stalled, client_sockets, mutex, si, fdset,
                   client_socket, addrset, casterVars>>

\* recv() returns 0.
RecvEof ==
    /\ spc = "recving" /\ inbox[recving] = 0 /\ peer[recving] = "gone"
    /\ spc' = "drop"
    /\ recving' = Closed
    /\ UNCHANGED <<kernelVars, client_sockets, mutex, si, fdset, client_socket, total,
                   addrset, session, casterVars>>

\* close(server->client_sockets[i]), without the mutex ...
DropClose ==
    /\ spc = "drop"
    /\ Close(client_sockets[si])
    /\ spc' = "zero"
    /\ UNCHANGED <<peer, backlog, inbox, stalled, client_sockets, mutex, si, fdset,
                   client_socket, recving, total, addrset, session, casterVars>>

\* The server thread stores a value in the slot it has closed.
StoreDropped(value) ==
    /\ spc = "zero"
    /\ client_sockets' = [client_sockets EXCEPT ![si] = value]
    /\ spc' = "end"
    /\ UNCHANGED <<kernelVars, mutex, si, fdset, client_socket, recving, total, addrset,
                   session, casterVars>>

\* Mutant of DropZero: the slot keeps the closed descriptor.
DropKeeps == StoreDropped(client_sockets[si])

\* ... and server->client_sockets[i] = 0.
DropZero == StoreDropped(0)

\* The next slot, after the end callback if it is due.
EndIf(due) ==
    /\ spc = "end"
    /\ session' = IF due THEN FALSE ELSE session
    /\ total' = FALSE
    /\ si' = si + 1
    /\ spc' = "scan"
    /\ UNCHANGED <<kernelVars, client_sockets, mutex, fdset, client_socket, recving,
                   addrset, casterVars>>

\* Mutant of EndData: no end callback for a client that a broadcast has dropped.
EndDataOccupied == EndIf(total /\ client_sockets[si] > 0)

\* The end callback is due if any data was received.
EndData == EndIf(total)

ServerThread ==
    \/ BuildSet \/ Pselect \/ Accept \/ FindSlot \/ Scan \/ RecvCall \/ RecvData
    \/ RecvEof \/ DropClose \/ DropZero \/ EndData

-----------------------------------------------------------------------------
(***************************************************************************)
(* Caster                                                                  *)
(***************************************************************************)
BroadcastCall ==
    /\ bpc = "idle" /\ bn < MaxBroadcasts
    /\ bn' = bn + 1
    /\ bi' = 1
    /\ bpc' = "check"
    /\ UNCHANGED <<kernelVars, client_sockets, mutex, serverVars, wfd, got, cut>>

CheckSlot ==
    /\ bpc = "check"
    /\ \/ bi > MaxClients /\ bpc' = "idle" /\ UNCHANGED bi
       \/ bi \in Slots /\ client_sockets[bi] > 0 /\ bpc' = "fdset" /\ UNCHANGED bi
       \/ bi \in Slots /\ client_sockets[bi] <= 0 /\ bi' = bi + 1 /\ UNCHANGED bpc
    /\ UNCHANGED <<kernelVars, client_sockets, mutex, serverVars, wfd, bn, got, cut>>

\* FD_SET(server->client_sockets[i], &write_fds)
FdSet ==
    /\ bpc = "fdset"
    /\ wfd' = client_sockets[bi]
    /\ bpc' = "select"
    /\ UNCHANGED <<kernelVars, client_sockets, mutex, serverVars, bi, bn, got, cut>>

\* Mutant of SelectCall: a client that cannot take data now is skipped.
SelectSkips ==
    /\ bpc = "select"
    /\ IF Writable(wfd)
       THEN bpc' = (IF wfd > client_sockets[bi] THEN "hung"
                    ELSE IF fds[wfd] = Closed THEN "lock" ELSE "selecting")
            /\ UNCHANGED <<bi, wfd>>
       ELSE bpc' = "check" /\ bi' = bi + 1 /\ wfd' = 0
    /\ UNCHANGED <<kernelVars, client_sockets, mutex, serverVars, bn, got, cut>>

\* select(server->client_sockets[i] + 1, ...): the limit is read anew.  A
\* member beyond it is not looked at, and no timeout ends such a wait.
SelectCall ==
    /\ bpc = "select"
    /\ bpc' = CASE wfd > client_sockets[bi] -> "hung"
                [] wfd <= client_sockets[bi] /\ fds[wfd] = Closed -> "lock"
                [] OTHER -> "selecting"
    /\ UNCHANGED <<kernelVars, client_sockets, mutex, serverVars, bi, wfd, bn, got, cut>>

\* select() returns; POSIX leaves open what happens when its member is closed
\* by the other thread meanwhile.
SelectReturn ==
    /\ bpc = "selecting" /\ Writable(wfd)
    /\ bpc' = "send"
    /\ UNCHANGED <<kernelVars, client_sockets, mutex, serverVars, bi, wfd, bn, got, cut>>

\* send() of the whole broadcast: on to the next slot.  A client that does not
\* read lets its send buffer fill up; what is sent to one that has gone is lost
\* in the network.
SendAll ==
    /\ bpc = "send"
    /\ LET o == fds[client_sockets[bi]]
       IN  /\ o \in Conns /\ Writable(client_sockets[bi])
           /\ got' = IF peer[o] = "up" THEN [got EXCEPT ![o] = Append(@, bn)] ELSE got
           /\ stalled' \in {stalled, stalled \cup {o}}
    /\ bi' = bi + 1 /\ wfd' = 0
    /\ bpc' = "check"
    /\ UNCHANGED <<fds, peer, backlog, inbox, client_sockets, mutex, serverVars, bn, cut>>

\* Mutant of SendShort: a short send() is taken for a complete one.
ShortIgnored ==
    /\ bpc = "send" /\ "short" \in Faults
    /\ LET o == fds[client_sockets[bi]]
       IN  /\ o \in Conns /\ Writable(client_sockets[bi])
           /\ cut' = cut \cup {o}
    /\ bi' = bi + 1 /\ wfd' = 0
    /\ bpc' = "check"
    /\ UNCHANGED <<kernelVars, client_sockets, mutex, serverVars, bn, got>>

\* send() sends less: goto DISCONNECT.
SendShort ==
    /\ bpc = "send" /\ "short" \in Faults
    /\ LET o == fds[client_sockets[bi]]
       IN  /\ o \in Conns /\ Writable(client_sockets[bi])
           /\ cut' = cut \cup {o}
    /\ bpc' = "lock"
    /\ UNCHANGED <<kernelVars, client_sockets, mutex, serverVars, bi, wfd, bn, got>>

\* send() fails (not a socket, not open, or reset by the client): goto DISCONNECT.
SendFails ==
    /\ bpc = "send"
    /\ LET o == fds[client_sockets[bi]]
       IN  o \in Conns => peer[o] = "gone"
    /\ bpc' = "lock"
    /\ UNCHANGED <<kernelVars, client_sockets, mutex, serverVars, bi, wfd, bn, got, cut>>

\* The second send() to a client that has gone raises SIGPIPE, which nothing
\* in the program blocks or handles.
SigPipe ==
    /\ bpc = "send" /\ "sigpipe" \in Faults
    /\ LET o == fds[client_sockets[bi]]
       IN  o \in Conns /\ peer[o] = "gone"
    /\ bpc' = Dead /\ spc' = Dead
    /\ UNCHANGED <<kernelVars, client_sockets, mutex, si, fdset, client_socket, recving,
                   total, addrset, session, bi, wfd, bn, got, cut>>

DisconnectLock ==
    /\ bpc = "lock" /\ mutex = "free"
    /\ mutex' = "caster"
    /\ bpc' = "close"
    /\ UNCHANGED <<kernelVars, client_sockets, serverVars, bi, wfd, bn, got, cut>>

\* Mutant of DisconnectClose: the slot is zeroed before it is closed.
ZeroFirst ==
    /\ bpc = "close"
    /\ client_sockets' = [client_sockets EXCEPT ![bi] = 0]
    /\ Close(client_sockets'[bi])
    /\ bpc' = "zero"
    /\ UNCHANGED <<peer, backlog, inbox, stalled, mutex, serverVars, bi, wfd, bn, got, cut>>

DisconnectClose ==
    /\ bpc = "close"
    /\ Close(client_sockets[bi])
    /\ bpc' = "zero"
    /\ UNCHANGED <<peer, backlog, inbox, stalled, client_sockets, mutex, serverVars, bi,
                   wfd, bn, got, cut>>

\* The caster stores a value in the slot it has closed, and leaves the mutex so.
StoreDisconnected(value, holder) ==
    /\ bpc = "zero"
    /\ client_sockets' = [client_sockets EXCEPT ![bi] = value]
    /\ mutex' = holder
    /\ bi' = bi + 1 /\ wfd' = 0
    /\ bpc' = "check"
    /\ UNCHANGED <<kernelVars, serverVars, bn, got, cut>>

\* Mutant of DisconnectZero: empty slots are marked with -1.
MinusOne == StoreDisconnected(-1, "free")

\* Mutant of DisconnectZero: the mutex is not released.
KeepsMutex == StoreDisconnected(0, mutex)

DisconnectZero == StoreDisconnected(0, "free")

Caster ==
    \/ BroadcastCall \/ CheckSlot \/ FdSet \/ SelectCall \/ SelectReturn
    \/ SendAll \/ SendShort \/ SendFails \/ SigPipe
    \/ DisconnectLock \/ DisconnectClose \/ DisconnectZero

-----------------------------------------------------------------------------
\* ns_server_destroy, after ns_server_wait saw the server thread end and the
\* caster's thread was joined.
Destroy ==
    /\ spc = "done" /\ bpc = "idle"
    /\ fds' = [f \in Fd |-> IF f > 0 /\ \E i \in Slots : client_sockets[i] = f
                            THEN Closed ELSE fds[f]]
    /\ spc' = Dead /\ bpc' = Dead
    /\ UNCHANGED <<peer, backlog, inbox, stalled, client_sockets, mutex, si, fdset,
                   client_socket, recving, total, addrset, session, bi, wfd, bn, got, cut>>

\* ns_server_init and ns_server_start, when every call of theirs succeeded.
Init ==
    /\ fds = [f \in Fd |-> IF f = 0 THEN Stdin ELSE Closed]
    /\ peer = [c \in Conns |-> "new"]
    /\ backlog = <<>>
    /\ inbox = [c \in Conns |-> 0]
    /\ stalled = {}
    /\ client_sockets = [i \in Slots |-> 0]
    /\ mutex = "free"
    /\ spc = "top" /\ si = 1 /\ fdset = {} /\ client_socket = 0 /\ recving = Closed
    /\ total = FALSE /\ addrset = FALSE /\ session = FALSE
    /\ bpc = "idle" /\ bi = 1 /\ wfd = 0 /\ bn = 0
    /\ got = [c \in Conns |-> <<>>]
    /\ cut = {}

\* Threads that ended, in a process that has nothing left to do.
Stopped == spc \in {"done", Dead} /\ UNCHANGED vars

Next == ServerThread \/ Caster \/ Destroy \/ Stopped \/ \E c \in Conns : Client(c)

\* The scheduler runs both threads, a broadcast is not started by force, and a
\* client that stays connected reads what it is sent.
SafetySpec == Init /\ [][Next]_vars
Spec ==
    /\ SafetySpec
    /\ WF_vars(ServerThread)
    /\ WF_vars(Caster /\ bpc # "idle")
    /\ \A c \in Conns : WF_vars(Resume(c))

-----------------------------------------------------------------------------
(***************************************************************************)
(* Properties                                                              *)
(***************************************************************************)
\* The fields of ns_server_t and the threads' locals stay in their types.
KernelOK ==
    /\ fds \in [Fd -> Conns \cup {Stdin, Closed}]
    /\ peer \in [Conns -> {"new", "up", "gone"}]
    /\ backlog \in Seq(Conns) /\ Len(backlog) <= QueueSize
    /\ inbox \in [Conns -> 0..MaxInbox]
    /\ stalled \subseteq Conns
TableOK == client_sockets \in [Slots -> Fd] /\ mutex \in {"free", "caster"}
ServerOK ==
    /\ spc \in {"top", "pselect", "accept", "slot", "scan", "recv", "recving", "drop",
                "zero", "end", "done", Dead}
    /\ si \in 1 .. MaxClients + 1
    /\ fdset \subseteq Fd \cup {Listener}
    /\ client_socket \in Fd
    /\ recving \in Conns \cup {Closed}
FlagsOK == total \in BOOLEAN /\ addrset \in BOOLEAN /\ session \in BOOLEAN
CasterOK ==
    /\ bpc \in {"idle", "check", "fdset", "select", "selecting", "hung", "send", "lock",
                "close", "zero", Dead}
    /\ bi \in 1 .. MaxClients + 1
    /\ wfd \in Fd
    /\ bn \in 0..MaxBroadcasts
HistoryOK == got \in [Conns -> Seq(1..MaxBroadcasts)] /\ cut \subseteq Conns
TypeOK == KernelOK /\ TableOK /\ ServerOK /\ FlagsOK /\ CasterOK /\ HistoryOK

\* A thread has closed slot i's descriptor and is about to empty the slot.
Emptying(i) == (bpc = "zero" /\ bi = i) \/ (spc = "zero" /\ si = i)

\* client_sockets accounts for the process's descriptors at every step of
\* accept, rejection and disconnection, although one thread fills slots while
\* the other empties them: until the process ends or ns_server_destroy is
\* called, standard input stays open, an occupied slot holds an open connection
\* that no other slot holds, and no connection is open without a slot, except
\* the one just accepted.
StdinOpen == fds[0] = Stdin
SlotsOpen ==
    \A i \in Slots : client_sockets[i] > 0 /\ ~Emptying(i) => fds[client_sockets[i]] \in Conns
SlotsDistinct ==
    \A i, j \in Slots : i # j /\ client_sockets[i] = client_sockets[j] /\ client_sockets[i] > 0
                           => Emptying(i) \/ Emptying(j)
NoneForgotten ==
    \A f \in Fd : fds[f] \in Conns => \/ \E i \in Slots : client_sockets[i] = f /\ ~Emptying(i)
                                      \/ spc = "slot" /\ client_socket = f
SlotTable == spc # Dead => StdinOpen /\ SlotsOpen /\ SlotsDistinct /\ NoneForgotten

\* The same of a server that also receives and drops its clients itself, as long
\* as nothing has been broadcast: the table is right while one thread uses it.
SlotTableUncast == bn = 0 => SlotTable

\* server_thread_function never leaves its loop: neither accept() for want of
\* a descriptor nor pselect() on a closed one fails.
ServerRuns == spc # "done"

\* What a client receives is one unbroken run of whole broadcasts, whichever
\* slots and descriptors are recycled by the two threads meanwhile: none is
\* skipped, none repeated, none sent to the previous user of a descriptor.
\* That is so until both threads drop one client and close(0) is called for a
\* slot the other has emptied: the next client gets descriptor 0, which the
\* table takes for an empty slot, and is sent what races happen to address to 0.
Unbroken(c) == \A k \in 1 .. Len(got[c]) - 1 : got[c][k + 1] = got[c][k] + 1
GapFree == StdinOpen => \A c \in Conns : Unbroken(c)

\* A client that was sent a part of a broadcast ("send() sent less data than
\* expected") is never sent anything again, under the same condition: its stream
\* cannot resume out of step.
NothingAfterShort == [][StdinOpen => \A c \in cut : got'[c] = got[c]]_vars

\* The server thread is not polling or accepting between a start callback and
\* its end callback, also when the client disconnects half way: the mutex the
\* applications lock in one and unlock in the other is not left locked.
CallbacksBracketed == spc \in {"top", "pselect", "accept", "slot", "done"} => ~session

\* A broadcast comes to its end, provided that slow clients read.
BroadcastReturns == bpc # "idle" ~> bpc \in {"idle", Dead}

Queued(c) == \E k \in 1..Len(backlog) : backlog[k] = c

\* No client waits in the listening socket's queue for ever, however slow the
\* clients of a broadcast are.
ClientServed == \A c \in Conns : Queued(c) ~> ~Queued(c)

\* netserver.c:137: "Lock the client_sockets array so a closed socket is not
\* polled by the pselect() call in server_thread_function()".
ClosedNeverPolled == spc = "pselect" => fdset \cap Free = {}
=============================================================================
