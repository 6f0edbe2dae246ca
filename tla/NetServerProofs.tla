--------------------------- MODULE NetServerProofs --------------------------
(***************************************************************************)
(* Proofs about NetServer, for every number of clients, descriptors and    *)
(* broadcasts and every choice of faults: the types, the order of the      *)
(* callbacks, the table of client sockets as long as one thread drops      *)
(* clients, and what a client receives.                                    *)
(***************************************************************************)
EXTENDS NetServer, FiniteSetTheorems, Induction

LEMMA Constants ==
    /\ MaxClients \in Nat \ {0} /\ QueueSize \in Nat \ {0} /\ BufSize \in Nat \ {0}
    /\ MaxFd \in Nat /\ MaxInbox \in Nat /\ MaxBroadcasts \in Nat
    /\ Stdin \notin Conns /\ Closed \notin Conns /\ Stdin # Closed
BY NetServerAssumption

LEMMA ZeroIsFd == 0 \in Fd
BY Constants DEF Fd

\* accept() returns one of the free descriptors.
LEMMA LowestIsMember ==
    ASSUME NEW S \in SUBSET Nat, S # {}
    PROVE  Lowest(S) \in S
<1>1. PICK f \in S : \A g \in S : f <= g
  BY LeastNatural
<1>. QED  BY <1>1 DEF Lowest

LEMMA LowestFree == Free # {} => Lowest(Free) \in Free /\ Lowest(Free) \in Fd
BY LowestIsMember, Constants DEF Free, Fd

-----------------------------------------------------------------------------
(***************************************************************************)
(* Types                                                                   *)
(***************************************************************************)
\* The places where a thread works on one slot of the table.
AtSlot == {"recv", "recving", "drop", "zero", "end"}
CastingSlot == {"fdset", "select", "selecting", "hung", "send", "lock", "close", "zero"}

\* Where the threads are says what their locals hold: in the loops over the
\* table the index is a slot, recv() waits on a connection, and accept() is
\* called with a connection in the queue.
ServerPlaces ==
    /\ spc \in AtSlot => si \in Slots
    /\ spc = "recving" => recving \in Conns
    /\ spc = "accept" /\ Listener \in fdset => backlog # <<>>

\* Clients are received from only when there is a callback for their data.
DuplexPlaces == spc \in AtSlot => Duplex

\* A broadcast runs from the first slot to beyond the last.
CasterPlaces ==
    /\ bpc \in CastingSlot => bi \in Slots
    /\ bn = 0 => bpc \in {"idle", Dead}
    /\ bpc = "idle" => bn = 0 \/ bi = MaxClients + 1

TypeInv == TypeOK /\ ServerPlaces /\ DuplexPlaces /\ CasterPlaces

LEMMA TypeInit == Init => TypeInv
<1>. SUFFICES ASSUME Init PROVE TypeInv
  OBVIOUS
<1>1. KernelOK /\ TableOK
  BY Constants DEF Init, KernelOK, TableOK, Fd, Slots
<1>2. ServerOK /\ CasterOK
  BY Constants DEF Init, ServerOK, CasterOK, Fd, Listener
<1>3. FlagsOK
  BY DEF Init, FlagsOK
<1>4. HistoryOK
  BY DEF Init, HistoryOK
<1>5. ServerPlaces /\ DuplexPlaces /\ CasterPlaces
  BY DEF Init, ServerPlaces, DuplexPlaces, CasterPlaces, AtSlot, CastingSlot
<1>. QED  BY <1>1, <1>2, <1>3, <1>4, <1>5 DEF TypeInv, TypeOK

\* The kernel's tables.
LEMMA KernelType ==
    ASSUME TypeInv, Next
    PROVE  KernelOK'
<1>. USE Constants DEF KernelOK
<1>0. KernelOK /\ TableOK /\ ServerOK /\ ServerPlaces
  BY DEF TypeInv, TypeOK
<1>1. CASE UNCHANGED kernelVars
  BY <1>0, <1>1 DEF kernelVars
<1>2. ASSUME NEW c \in Conns, Connect(c)
      PROVE  KernelOK'
  BY <1>0, <1>2 DEF Connect
<1>3. ASSUME NEW c \in Conns, NEW n \in 1..MaxInbox, ClientSend(c, n)
      PROVE  KernelOK'
  BY <1>0, <1>3 DEF ClientSend
<1>4. ASSUME NEW c \in Conns, ClientClose(c) \/ Resume(c)
      PROVE  KernelOK'
  BY <1>0, <1>4 DEF ClientClose, Resume
<1>5. CASE Accept
  <2>1. Listener \in fdset => backlog # <<>>
    BY <1>0, <1>5 DEF Accept, ServerPlaces
  <2>2. UNCHANGED <<peer, inbox, stalled>>
    BY <1>5 DEF Accept
  <2>3. Listener \in fdset => Head(backlog) \in Conns /\ Tail(backlog) \in Seq(Conns)
                             /\ Len(Tail(backlog)) <= QueueSize
    BY <1>0, <2>1
  <2>4. backlog' \in Seq(Conns) /\ Len(backlog') <= QueueSize
    BY <1>0, <1>5, <2>3 DEF Accept
  <2>5. fds' \in [Fd -> Conns \cup {Stdin, Closed}]
    BY <1>0, <1>5, <2>3 DEF Accept
  <2>. QED  BY <1>0, <2>2, <2>4, <2>5
<1>6. CASE FindSlot \/ DropClose \/ DisconnectClose \/ Destroy
  BY <1>0, <1>6 DEF FindSlot, DropClose, DisconnectClose, Destroy, Close
<1>7. CASE RecvData
  <2>1. recving \in Conns
    BY <1>0, <1>7 DEF RecvData, ServerPlaces
  <2>. QED  BY <1>0, <1>7, <2>1 DEF RecvData
<1>8. CASE SendAll
  BY <1>0, <1>8 DEF SendAll
<1>. QED
  BY <1>1, <1>2, <1>3, <1>4, <1>5, <1>6, <1>7, <1>8 DEF Next, Client, ServerThread, Caster,
     Stopped, vars, kernelVars, BuildSet, PollFor, Pselect, Scan, RecvCall, RecvEof, DropZero,
     StoreDropped, EndData, EndIf, BroadcastCall, CheckSlot, FdSet, SelectCall, SelectReturn,
     SendShort, SendFails, SigPipe, DisconnectLock, DisconnectZero, StoreDisconnected

\* The table of client sockets.
LEMMA TableType ==
    ASSUME TypeInv, Next
    PROVE  TableOK'
<1>. USE Constants DEF TableOK
<1>0. TableOK /\ ServerOK /\ ServerPlaces /\ CasterPlaces
  BY DEF TypeInv, TypeOK
<1>1. CASE UNCHANGED <<client_sockets, mutex>>
  BY <1>0, <1>1
<1>2. CASE FindSlot
  BY <1>0, <1>2 DEF FindSlot, ServerOK
<1>3. CASE DropZero
  BY <1>0, <1>3, ZeroIsFd DEF DropZero, StoreDropped
<1>4. CASE DisconnectLock
  BY <1>0, <1>4 DEF DisconnectLock
<1>5. CASE DisconnectZero
  BY <1>0, <1>5, ZeroIsFd DEF DisconnectZero, StoreDisconnected
<1>. QED
  BY <1>1, <1>2, <1>3, <1>4, <1>5 DEF Next, Client, Connect, ClientSend, ClientClose, Resume,
     ServerThread, Caster, Stopped, vars, BuildSet, PollFor, Pselect, Accept, Scan, RecvCall,
     RecvData, RecvEof, DropClose, EndData, EndIf, BroadcastCall, CheckSlot, FdSet, SelectCall,
     SelectReturn, SendAll, SendShort, SendFails, SigPipe, DisconnectClose, Destroy

\* The server thread's locals.
LEMMA ServerType ==
    ASSUME TypeInv, Next
    PROVE  ServerOK'
<1>. USE Constants DEF ServerOK
<1>0. KernelOK /\ TableOK /\ ServerOK /\ ServerPlaces
  BY DEF TypeInv, TypeOK
<1>1. CASE UNCHANGED <<spc, si, fdset, client_socket, recving>>
  BY <1>0, <1>1
<1>2. CASE BuildSet \/ Pselect
  <2>1. spc' \in {"pselect", "done", "top", "accept"}
        /\ UNCHANGED <<si, client_socket, recving>>
    BY <1>2 DEF BuildSet, PollFor, Pselect
  <2>2. fdset' \subseteq Fd \cup {Listener}
    BY <1>0, <1>2 DEF BuildSet, PollFor, Pselect, ClientSockets, TableOK
  <2>. QED  BY <1>0, <2>1, <2>2
<1>3. CASE Accept
  <2>1. spc' \in {"scan", "slot", "done", "top"} /\ si' = 1 /\ UNCHANGED recving
    BY <1>3 DEF Accept
  <2>2. fdset' \subseteq Fd \cup {Listener}
    BY <1>0, <1>3 DEF Accept
  <2>3. client_socket' \in Fd
    BY <1>0, <1>3, LowestFree DEF Accept
  <2>. QED  BY <1>0, <2>1, <2>2, <2>3
<1>4. CASE FindSlot
  BY <1>0, <1>4, ZeroIsFd DEF FindSlot, Slots
<1>5. CASE Scan
  BY <1>0, <1>5 DEF Scan, Slots
<1>6. CASE RecvCall \/ RecvEof \/ RecvData
  BY <1>0, <1>6 DEF RecvCall, RecvEof, RecvData
<1>7. CASE DropClose \/ DropZero
  BY <1>0, <1>7 DEF DropClose, DropZero, StoreDropped
<1>8. CASE EndData
  BY <1>0, <1>8 DEF EndData, EndIf, ServerPlaces, AtSlot, Slots
<1>9. CASE SigPipe \/ Destroy
  BY <1>0, <1>9 DEF SigPipe, Destroy
<1>. QED
  BY <1>1, <1>2, <1>3, <1>4, <1>5, <1>6, <1>7, <1>8, <1>9 DEF Next, Client, Connect, ClientSend,
     ClientClose, Resume, ServerThread, Caster, Stopped, vars, serverVars, BroadcastCall,
     CheckSlot, FdSet, SelectCall, SelectReturn, SendAll, SendShort, SendFails, DisconnectLock,
     DisconnectClose, DisconnectZero, StoreDisconnected

LEMMA FlagsType ==
    ASSUME TypeInv, Next
    PROVE  FlagsOK'
<1>0. FlagsOK
  BY DEF TypeInv, TypeOK
<1>1. CASE UNCHANGED <<total, addrset, session>>
  BY <1>0, <1>1 DEF FlagsOK
<1>2. CASE Accept \/ RecvData \/ EndData
  BY <1>0, <1>2, Zenon DEF FlagsOK, Accept, RecvData, EndData, EndIf
<1>. QED
  BY <1>1, <1>2 DEF Next, Client, Connect, ClientSend, ClientClose, Resume, ServerThread, Caster,
     Stopped, Destroy, vars, serverVars, BuildSet, PollFor, Pselect, FindSlot, Scan, RecvCall,
     RecvEof, DropClose, DropZero, StoreDropped, BroadcastCall, CheckSlot, FdSet, SelectCall,
     SelectReturn, SendAll, SendShort, SendFails, SigPipe, DisconnectLock, DisconnectClose,
     DisconnectZero, StoreDisconnected

\* The caster's locals, and where they stand.
LEMMA CasterType ==
    ASSUME TypeInv, Next
    PROVE  CasterOK' /\ CasterPlaces'
<1>. USE Constants DEF CasterOK, CasterPlaces, CastingSlot, Dead
<1>0. TableOK /\ CasterOK /\ CasterPlaces
  BY DEF TypeInv, TypeOK
<1>1. CASE UNCHANGED <<bpc, bi, wfd, bn>>
  BY <1>0, <1>1
<1>2. CASE BroadcastCall
  BY <1>0, <1>2 DEF BroadcastCall
<1>3. CASE CheckSlot
  BY <1>0, <1>3 DEF CheckSlot, Slots
<1>4. CASE FdSet
  BY <1>0, <1>4 DEF FdSet, TableOK
<1>5. CASE SelectCall
  BY <1>0, <1>5 DEF SelectCall
<1>6. CASE SelectReturn \/ SendShort \/ SendFails \/ DisconnectLock \/ DisconnectClose
  BY <1>0, <1>6 DEF SelectReturn, SendShort, SendFails, DisconnectLock, DisconnectClose
<1>7. CASE SendAll \/ DisconnectZero
  BY <1>0, <1>7, ZeroIsFd DEF SendAll, DisconnectZero, StoreDisconnected, Slots
<1>8. CASE SigPipe \/ Destroy
  BY <1>0, <1>8 DEF SigPipe, Destroy
<1>. QED
  BY <1>1, <1>2, <1>3, <1>4, <1>5, <1>6, <1>7, <1>8 DEF Next, Client, Connect, ClientSend,
     ClientClose, Resume, ServerThread, Caster, Stopped, vars, casterVars, BuildSet, PollFor,
     Pselect, Accept, FindSlot, Scan, RecvCall, RecvData, RecvEof, DropClose, DropZero,
     StoreDropped, EndData, EndIf

LEMMA HistoryType ==
    ASSUME TypeInv, Next
    PROVE  HistoryOK'
<1>0. HistoryOK /\ CasterOK /\ CasterPlaces
  BY DEF TypeInv, TypeOK
<1>1. CASE UNCHANGED <<got, cut>>
  BY <1>0, <1>1 DEF HistoryOK
<1>2. CASE SendAll
  <2>1. bn \in 1..MaxBroadcasts
    BY <1>0, <1>2, Constants DEF SendAll, CasterOK, CasterPlaces, Dead
  <2>. QED  BY <1>0, <1>2, <2>1 DEF SendAll, HistoryOK
<1>3. CASE SendShort
  BY <1>0, <1>3 DEF SendShort, HistoryOK
<1>. QED
  BY <1>1, <1>2, <1>3 DEF Next, Client, Connect, ClientSend, ClientClose, Resume, ServerThread,
     Caster, Stopped, Destroy, vars, casterVars, BuildSet, PollFor, Pselect, Accept, FindSlot,
     Scan, RecvCall, RecvData, RecvEof, DropClose, DropZero, StoreDropped, EndData, EndIf,
     BroadcastCall, CheckSlot, FdSet, SelectCall, SelectReturn, SendFails, SigPipe,
     DisconnectLock, DisconnectClose, DisconnectZero, StoreDisconnected

LEMMA ServerPlacesStep ==
    ASSUME TypeInv, Next
    PROVE  ServerPlaces' /\ DuplexPlaces'
<1>. USE DEF ServerPlaces, DuplexPlaces, AtSlot, Dead
<1>0. KernelOK /\ ServerOK /\ ServerPlaces /\ DuplexPlaces
  BY DEF TypeInv, TypeOK
<1>1. CASE UNCHANGED <<spc, si, fdset, recving, backlog>>
  BY <1>0, <1>1
<1>2. ASSUME NEW c \in Conns, Connect(c)
      PROVE  ServerPlaces' /\ DuplexPlaces'
  <2>1. backlog' # <<>>
    BY <1>0, <1>2 DEF Connect, KernelOK
  <2>. QED  BY <1>0, <1>2, <2>1 DEF Connect, serverVars
<1>3. CASE Pselect
  <2>1. Listener \in fdset' /\ spc' = "accept" => backlog # <<>>
    BY <1>3 DEF Pselect, Readable
  <2>2. spc' \in {"top", "accept", "done"} /\ UNCHANGED backlog
    BY <1>3 DEF Pselect, kernelVars
  <2>. QED  BY <2>1, <2>2
<1>4. CASE BuildSet \/ Accept \/ FindSlot
  <2>1. spc' \in {"pselect", "scan", "slot", "done", "top"}
    BY <1>4 DEF BuildSet, PollFor, Accept, FindSlot
  <2>. QED  BY <2>1
<1>5. CASE Scan
  BY <1>0, <1>5 DEF Scan
<1>6. CASE RecvCall \/ RecvEof \/ RecvData
  <2>1. UNCHANGED si /\ spc \in {"recv", "recving"}
    BY <1>6 DEF RecvCall, RecvEof, RecvData
  <2>2. spc' \in {"recv", "recving", "drop", "end"} /\ (spc' = "recving" => recving' \in Conns)
    BY <1>6 DEF RecvCall, RecvEof, RecvData
  <2>. QED  BY <1>0, <2>1, <2>2
<1>7. CASE DropClose \/ DropZero \/ EndData
  BY <1>0, <1>7 DEF DropClose, DropZero, StoreDropped, EndData, EndIf
<1>8. CASE SigPipe \/ Destroy
  BY <1>8 DEF SigPipe, Destroy
<1>. QED
  BY <1>1, <1>2, <1>3, <1>4, <1>5, <1>6, <1>7, <1>8 DEF Next, Client, ClientSend, ClientClose,
     Resume, ServerThread, Caster, Stopped, vars, kernelVars, serverVars, BroadcastCall,
     CheckSlot, FdSet, SelectCall, SelectReturn, SendAll, SendShort, SendFails, DisconnectLock,
     DisconnectClose, DisconnectZero, StoreDisconnected

LEMMA TypeNext == TypeInv /\ [Next]_vars => TypeInv'
<1>1. ASSUME TypeInv, Next PROVE TypeInv'
  BY <1>1, KernelType, TableType, ServerType, FlagsType, CasterType, HistoryType, ServerPlacesStep
     DEF TypeInv, TypeOK
<1>2. ASSUME TypeInv, UNCHANGED vars PROVE TypeInv'
  BY <1>2 DEF TypeInv, TypeOK, KernelOK, TableOK, ServerOK, FlagsOK, CasterOK, HistoryOK,
     ServerPlaces, DuplexPlaces, CasterPlaces, vars, kernelVars, serverVars, casterVars
<1>. QED  BY <1>1, <1>2

LEMMA TypeInvariant == SafetySpec => []TypeInv
BY TypeInit, TypeNext, PTL DEF SafetySpec

\* The fields of ns_server_t and the locals of server_thread_function and
\* ns_server_broadcast stay in their types, for every size of the table.
THEOREM TypesKept == SafetySpec => []TypeOK
<1>1. TypeInv => TypeOK
  BY DEF TypeInv
<1>. QED  BY <1>1, TypeInvariant, PTL

-----------------------------------------------------------------------------
(***************************************************************************)
(* Callbacks                                                               *)
(***************************************************************************)
\* A session is open only within the loop over the slots, and data was received
\* in it: so the end callback is due when the slot's turn ends.
Bracket == session => total /\ spc \in AtSlot \cup {Dead}

LEMMA BracketStep == FlagsOK /\ Bracket /\ [Next]_vars => Bracket'
<1>. SUFFICES ASSUME FlagsOK, Bracket, [Next]_vars PROVE Bracket'
  OBVIOUS
<1>. USE DEF FlagsOK, Bracket, AtSlot, Dead
<1>1. CASE UNCHANGED <<session, total, spc>>
  BY <1>1
<1>2. CASE BuildSet \/ Pselect \/ Accept \/ FindSlot \/ Scan
  BY <1>2 DEF BuildSet, PollFor, Pselect, Accept, FindSlot, Scan
<1>3. CASE RecvCall \/ RecvEof \/ DropClose \/ DropZero
  BY <1>3 DEF RecvCall, RecvEof, DropClose, DropZero, StoreDropped
<1>4. CASE RecvData
  BY <1>4 DEF RecvData
<1>5. CASE EndData
  BY <1>5, Zenon DEF EndData, EndIf
<1>6. CASE SigPipe \/ Destroy
  BY <1>6 DEF SigPipe, Destroy
<1>. QED
  BY <1>1, <1>2, <1>3, <1>4, <1>5, <1>6 DEF Next, Client, Connect, ClientSend, ClientClose, Resume,
     ServerThread, Caster, Stopped, vars, serverVars, BroadcastCall, CheckSlot, FdSet, SelectCall,
     SelectReturn, SendAll, SendShort, SendFails, DisconnectLock, DisconnectClose, DisconnectZero,
     StoreDisconnected

\* server_thread_function calls client_data_end_callback for every
\* client_data_start_callback before it polls or accepts again, however recv()
\* and the other thread's disconnections interleave.
THEOREM EndFollowsStart == SafetySpec => []CallbacksBracketed
<1>1. Init => Bracket
  BY DEF Init, Bracket
<1>2. Bracket => CallbacksBracketed
  BY DEF Bracket, CallbacksBracketed, AtSlot, Dead
<1>3. TypeInv => FlagsOK
  BY DEF TypeInv, TypeOK
<1>. QED  BY <1>1, <1>2, <1>3, BracketStep, TypeInvariant, PTL DEF SafetySpec

-----------------------------------------------------------------------------
(***************************************************************************)
(* The table of client sockets, while one thread drops clients             *)
(***************************************************************************)
\* Only the caster drops clients when there is no data callback, and only the
\* server thread does before the first broadcast.
OneDropper == ~Duplex \/ bn = 0

\* The descriptor just accepted is in no slot, except one being emptied that
\* held its number before.
AcceptedIsNew ==
    spc = "slot" => /\ client_socket > 0 /\ fds[client_socket] \in Conns
                    /\ \A i \in Slots : client_sockets[i] = client_socket => Emptying(i)

\* A slot a thread works on stays occupied until that thread empties it.
AtWorkOccupied ==
    /\ spc \in {"recv", "recving", "drop", "zero"} => client_sockets[si] > 0
    /\ bpc \in CastingSlot => client_sockets[bi] > 0

OnlyZeroIsStdin == \A f \in Fd : fds[f] = Stdin => f = 0

Owner ==
    /\ StdinOpen /\ SlotsOpen /\ SlotsDistinct /\ NoneForgotten
    /\ AcceptedIsNew /\ AtWorkOccupied /\ OnlyZeroIsStdin

OwnerInv == spc # Dead /\ OneDropper => Owner

LEMMA OwnerInit == Init => Owner
<1>. SUFFICES ASSUME Init PROVE Owner
  OBVIOUS
<1>1. \A f \in Fd : fds[f] = (IF f = 0 THEN Stdin ELSE Closed)
  BY DEF Init
<1>2. \A i \in Slots : client_sockets[i] = 0
  BY DEF Init
<1>3. StdinOpen /\ OnlyZeroIsStdin /\ NoneForgotten
  BY <1>1, ZeroIsFd, Constants DEF StdinOpen, OnlyZeroIsStdin, NoneForgotten
<1>4. SlotsOpen /\ SlotsDistinct
  BY <1>2 DEF SlotsOpen, SlotsDistinct
<1>5. AcceptedIsNew /\ AtWorkOccupied
  BY DEF Init, AcceptedIsNew, AtWorkOccupied, CastingSlot
<1>. QED  BY <1>3, <1>4, <1>5 DEF Owner

\* With one dropper, a broadcast and the reception of data exclude each other.
LEMMA OneWorks ==
    ASSUME TypeInv, OneDropper, bpc \notin {"idle", Dead}
    PROVE  spc \notin AtSlot
BY DEF TypeInv, OneDropper, DuplexPlaces, CasterPlaces

\* A step that neither opens, closes, fills nor empties anything.
LEMMA OwnerQuiet ==
    ASSUME Owner, UNCHANGED <<fds, client_sockets, client_socket>>,
           spc' = "slot" <=> spc = "slot", AtWorkOccupied',
           \A i \in Slots : Emptying(i)' <=> Emptying(i)
    PROVE  Owner'
<1>1. StdinOpen' /\ OnlyZeroIsStdin'
  BY DEF Owner, StdinOpen, OnlyZeroIsStdin
<1>2. SlotsOpen' /\ SlotsDistinct' /\ NoneForgotten'
  BY DEF Owner, SlotsOpen, SlotsDistinct, NoneForgotten
<1>3. AcceptedIsNew'
  BY DEF Owner, AcceptedIsNew
<1>. QED  BY <1>1, <1>2, <1>3 DEF Owner

LEMMA OwnerServerQuiet ==
    ASSUME TypeInv, Owner, BuildSet \/ Pselect \/ Scan \/ RecvCall \/ RecvData \/ RecvEof \/ EndData
    PROVE  Owner'
<1>1. UNCHANGED <<fds, client_sockets, client_socket, bpc, bi>>
  BY DEF BuildSet, PollFor, Pselect, Scan, RecvCall, RecvData, RecvEof, EndData, EndIf, kernelVars,
         casterVars
<1>2. spc \notin {"slot", "zero"} /\ spc' \notin {"slot", "zero"}
  BY DEF BuildSet, PollFor, Pselect, Scan, RecvCall, RecvData, RecvEof, EndData, EndIf
<1>3. \A i \in Slots : Emptying(i)' <=> Emptying(i)
  BY <1>1, <1>2 DEF Emptying
<1>4. spc' \in {"recv", "recving", "drop"} => client_sockets[si'] > 0
  BY DEF BuildSet, PollFor, Pselect, Scan, RecvCall, RecvData, RecvEof, EndData, EndIf, Owner,
         AtWorkOccupied
<1>5. AtWorkOccupied'
  BY <1>1, <1>2, <1>4 DEF Owner, AtWorkOccupied
<1>. QED  BY <1>1, <1>2, <1>3, <1>5, OwnerQuiet

LEMMA OwnerCasterQuiet ==
    ASSUME TypeInv, Owner,
           \/ BroadcastCall \/ CheckSlot \/ FdSet \/ SelectCall \/ SelectReturn
           \/ SendAll \/ SendShort \/ SendFails \/ DisconnectLock
    PROVE  Owner'
<1>1. UNCHANGED <<fds, client_sockets, client_socket, spc, si>>
  BY DEF BroadcastCall, CheckSlot, FdSet, SelectCall, SelectReturn, SendAll, SendShort, SendFails,
         DisconnectLock, kernelVars, serverVars
<1>2. bpc # "zero" /\ bpc' # "zero"
  BY DEF BroadcastCall, CheckSlot, FdSet, SelectCall, SelectReturn, SendAll, SendShort, SendFails,
         DisconnectLock
<1>3. \A i \in Slots : Emptying(i)' <=> Emptying(i)
  BY <1>1, <1>2 DEF Emptying
<1>4. bpc' \in CastingSlot => client_sockets[bi'] > 0
  <2>1. bpc' = "fdset" => client_sockets[bi'] > 0
    BY DEF BroadcastCall, CheckSlot, FdSet, SelectCall, SelectReturn, SendAll, SendShort, SendFails,
           DisconnectLock
  <2>2. bpc' \in CastingSlot /\ bpc' # "fdset" => bpc \in CastingSlot /\ bi' = bi
    BY DEF BroadcastCall, CheckSlot, FdSet, SelectCall, SelectReturn, SendAll, SendShort, SendFails,
           DisconnectLock, CastingSlot
  <2>. QED  BY <2>1, <2>2 DEF Owner, AtWorkOccupied
<1>5. spc \in {"recv", "recving", "drop", "zero"} => client_sockets[si] > 0
  BY DEF Owner, AtWorkOccupied
<1>6. AtWorkOccupied'
  BY <1>1, <1>4, <1>5 DEF AtWorkOccupied
<1>. QED  BY <1>1, <1>3, <1>6, OwnerQuiet

\* accept(): the new descriptor was free, so no slot but one being emptied has it.
LEMMA OwnerAccept ==
    ASSUME TypeInv, Owner, OneDropper, Accept
    PROVE  Owner'
<1>0. KernelOK /\ TableOK /\ spc = "accept" /\ UNCHANGED <<client_sockets, bpc, bi>>
  BY DEF TypeInv, TypeOK, Accept, casterVars
<1>1. CASE UNCHANGED <<fds, client_socket>> /\ spc' \in {"scan", "done", "top"}
  <2>1. \A i \in Slots : Emptying(i)' <=> Emptying(i)
    BY <1>0, <1>1 DEF Emptying
  <2>2. AtWorkOccupied'
    BY <1>0, <1>1 DEF Owner, AtWorkOccupied
  <2>. QED  BY <1>0, <1>1, <2>1, <2>2, OwnerQuiet
<1>2. CASE ~(UNCHANGED <<fds, client_socket>> /\ spc' \in {"scan", "done", "top"})
  <2>1. /\ Listener \in fdset /\ Free # {} /\ spc' = "slot"
        /\ client_socket' = Lowest(Free)
        /\ fds' = [fds EXCEPT ![Lowest(Free)] = Head(backlog)]
    BY <1>2 DEF Accept
  <2>2. PICK g \in Fd : g = Lowest(Free) /\ fds[g] = Closed
    BY <2>1, LowestFree DEF Free
  <2>3. PICK c \in Conns : c = Head(backlog)
    BY <1>0, <2>1 DEF KernelOK, TypeInv, ServerPlaces
  <2>4. fds' = [fds EXCEPT ![g] = c] /\ client_socket' = g
    BY <2>1, <2>2, <2>3
  <2>5. g # 0 /\ g > 0
    BY <2>2, Constants DEF Owner, StdinOpen, Fd
  <2>6. \A f \in Fd : f # g => fds'[f] = fds[f]
    BY <1>0, <2>4 DEF KernelOK
  <2>7. fds'[g] = c
    BY <1>0, <2>4 DEF KernelOK
  <2>8. \A i \in Slots : Emptying(i)' <=> Emptying(i)
    BY <1>0, <2>1 DEF Emptying
  <2>9. \A i \in Slots : client_sockets[i] \in Fd
    BY <1>0 DEF TableOK
  <2>10. \A i \in Slots : client_sockets[i] = g => Emptying(i)
    BY <2>2, <2>5, Constants DEF Owner, SlotsOpen
  <2>11. StdinOpen'
    BY <2>5, <2>6, ZeroIsFd DEF Owner, StdinOpen
  <2>12. OnlyZeroIsStdin'
    BY <2>6, <2>7, Constants DEF Owner, OnlyZeroIsStdin
  <2>13. SlotsOpen'
    BY <1>0, <2>6, <2>8, <2>9, <2>10 DEF Owner, SlotsOpen
  <2>14. SlotsDistinct'
    BY <1>0, <2>8 DEF Owner, SlotsDistinct
  <2>15. NoneForgotten'
    BY <1>0, <2>1, <2>4, <2>6, <2>8 DEF Owner, NoneForgotten
  <2>16. AcceptedIsNew'
    BY <1>0, <2>4, <2>5, <2>7, <2>8, <2>10 DEF AcceptedIsNew
  <2>17. AtWorkOccupied'
    BY <1>0, <2>1 DEF Owner, AtWorkOccupied
  <2>. QED  BY <2>11, <2>12, <2>13, <2>14, <2>15, <2>16, <2>17 DEF Owner
<1>. QED  BY <1>1, <1>2

\* A thread closes slot i's descriptor, when no slot is being emptied.
LEMMA OwnerClose ==
    ASSUME TypeInv, Owner, NEW i \in Slots, client_sockets[i] > 0, Close(client_sockets[i]),
           \A j \in Slots : ~Emptying(j) /\ (Emptying(j)' <=> j = i),
           UNCHANGED <<client_sockets, client_socket>>,
           spc' = "slot" <=> spc = "slot", AtWorkOccupied'
    PROVE  Owner'
<1>0. KernelOK /\ TableOK
  BY DEF TypeInv, TypeOK
<1>1. PICK g \in Fd : g = client_sockets[i]
  BY <1>0 DEF TableOK
<1>2. fds' = [fds EXCEPT ![g] = Closed]
  BY <1>1 DEF Close
<1>3. \A f \in Fd : f # g => fds'[f] = fds[f]
  BY <1>0, <1>2 DEF KernelOK
<1>4. fds'[g] = Closed
  BY <1>0, <1>2 DEF KernelOK
<1>5. \A j \in Slots : client_sockets[j] \in Fd
  BY <1>0 DEF TableOK
<1>6. \A j \in Slots : client_sockets[j] = g => j = i
  BY <1>1 DEF Owner, SlotsDistinct
<1>7. g # 0
  BY <1>1, Constants DEF Fd
<1>8. StdinOpen'
  BY <1>3, <1>7, ZeroIsFd DEF Owner, StdinOpen
<1>9. OnlyZeroIsStdin'
  BY <1>3, <1>4, Constants DEF Owner, OnlyZeroIsStdin
<1>10. SlotsOpen'
  BY <1>3, <1>5, <1>6 DEF Owner, SlotsOpen
<1>11. SlotsDistinct'
  BY DEF Owner, SlotsDistinct
<1>12. NoneForgotten'
  BY <1>1, <1>3, <1>4, Constants DEF Owner, NoneForgotten
<1>13. AcceptedIsNew'
  <2>. SUFFICES ASSUME spc' = "slot" PROVE AcceptedIsNew'
    BY DEF AcceptedIsNew
  <2>1. spc = "slot"
    OBVIOUS
  <2>2. client_socket \in Fd /\ client_socket > 0 /\ fds[client_socket] \in Conns
    BY <2>1 DEF Owner, AcceptedIsNew, TypeInv, TypeOK, ServerOK
  <2>3. \A j \in Slots : client_sockets[j] # client_socket
    BY <2>1 DEF Owner, AcceptedIsNew
  <2>4. client_socket # g
    BY <1>1, <2>3
  <2>. QED  BY <1>3, <2>2, <2>3, <2>4 DEF AcceptedIsNew
<1>. QED  BY <1>8, <1>9, <1>10, <1>11, <1>12, <1>13 DEF Owner

\* A thread marks the slot it has closed as empty.
LEMMA OwnerEmpty ==
    ASSUME TypeInv, Owner, NEW i \in Slots,
           client_sockets' = [client_sockets EXCEPT ![i] = 0],
           \A j \in Slots : (Emptying(j) <=> j = i) /\ ~Emptying(j)',
           UNCHANGED <<fds, client_socket>>,
           spc' = "slot" <=> spc = "slot", AtWorkOccupied'
    PROVE  Owner'
<1>0. TableOK
  BY DEF TypeInv, TypeOK
<1>1. \A j \in Slots : client_sockets'[j] = IF j = i THEN 0 ELSE client_sockets[j]
  BY <1>0 DEF TableOK
<1>2. StdinOpen' /\ OnlyZeroIsStdin'
  BY DEF Owner, StdinOpen, OnlyZeroIsStdin
<1>3. SlotsOpen'
  BY <1>1 DEF Owner, SlotsOpen
<1>4. SlotsDistinct'
  BY <1>1 DEF Owner, SlotsDistinct
<1>5. NoneForgotten'
  BY <1>1 DEF Owner, NoneForgotten
<1>6. AcceptedIsNew'
  BY <1>1 DEF Owner, AcceptedIsNew
<1>. QED  BY <1>2, <1>3, <1>4, <1>5, <1>6 DEF Owner

LEMMA OwnerServerDrop ==
    ASSUME TypeInv, Owner, OneDropper, DropClose \/ DropZero
    PROVE  Owner'
<1>0. /\ spc \in {"drop", "zero"} /\ spc' \in {"zero", "end"} /\ si \in Slots
      /\ UNCHANGED <<si, client_socket, bpc, bi>>
  BY DEF DropClose, DropZero, StoreDropped, casterVars, TypeInv, ServerPlaces, AtSlot
<1>1. bpc \in {"idle", Dead}
  BY <1>0, OneWorks DEF AtSlot
<1>2. client_sockets[si] > 0
  BY <1>0 DEF Owner, AtWorkOccupied
<1>3. /\ \A j \in Slots : Emptying(j) <=> (spc = "zero" /\ j = si)
      /\ \A j \in Slots : Emptying(j)' <=> (spc' = "zero" /\ j = si)
  BY <1>0, <1>1 DEF Emptying, Dead
<1>4. bpc' \notin CastingSlot
  BY <1>0, <1>1 DEF CastingSlot, Dead
<1>5. CASE DropClose
  <2>1. UNCHANGED client_sockets /\ Close(client_sockets[si]) /\ spc = "drop" /\ spc' = "zero"
    BY <1>5 DEF DropClose
  <2>2. AtWorkOccupied'
    BY <1>0, <1>2, <1>4, <2>1 DEF AtWorkOccupied
  <2>3. \A j \in Slots : ~Emptying(j) /\ (Emptying(j)' <=> j = si)
    BY <1>3, <2>1
  <2>. QED  BY <1>0, <1>2, <2>1, <2>2, <2>3, OwnerClose
<1>6. CASE DropZero
  <2>1. /\ client_sockets' = [client_sockets EXCEPT ![si] = 0]
        /\ UNCHANGED fds /\ spc = "zero" /\ spc' = "end"
    BY <1>6 DEF DropZero, StoreDropped, kernelVars
  <2>2. AtWorkOccupied'
    BY <1>4, <2>1 DEF AtWorkOccupied
  <2>3. \A j \in Slots : (Emptying(j) <=> j = si) /\ ~Emptying(j)'
    BY <1>3, <2>1
  <2>. QED  BY <1>0, <2>1, <2>2, <2>3, OwnerEmpty
<1>. QED  BY <1>5, <1>6

LEMMA OwnerCasterDrop ==
    ASSUME TypeInv, Owner, OneDropper, DisconnectClose \/ DisconnectZero
    PROVE  Owner'
<1>0. /\ bpc \in {"close", "zero"} /\ bpc' \in {"zero", "check"} /\ bi \in Slots
      /\ UNCHANGED <<si, client_socket, spc>>
  BY DEF DisconnectClose, DisconnectZero, StoreDisconnected, serverVars, TypeInv, CasterPlaces,
         CastingSlot
<1>1. spc \notin AtSlot
  BY <1>0, OneWorks DEF Dead
<1>2. client_sockets[bi] > 0
  BY <1>0 DEF Owner, AtWorkOccupied, CastingSlot
<1>3. /\ \A j \in Slots : Emptying(j) <=> (bpc = "zero" /\ j = bi)
      /\ \A j \in Slots : Emptying(j)' <=> (bpc' = "zero" /\ j = bi')
  BY <1>0, <1>1 DEF Emptying, AtSlot
<1>4. spc' \notin {"recv", "recving", "drop", "zero"}
  BY <1>0, <1>1 DEF AtSlot
<1>5. CASE DisconnectClose
  <2>1. /\ UNCHANGED <<client_sockets, bi>> /\ Close(client_sockets[bi])
        /\ bpc = "close" /\ bpc' = "zero"
    BY <1>5 DEF DisconnectClose
  <2>2. AtWorkOccupied'
    BY <1>2, <1>4, <2>1 DEF AtWorkOccupied
  <2>3. \A j \in Slots : ~Emptying(j) /\ (Emptying(j)' <=> j = bi)
    BY <1>3, <2>1
  <2>. QED  BY <1>0, <1>2, <2>1, <2>2, <2>3, OwnerClose
<1>6. CASE DisconnectZero
  <2>1. /\ client_sockets' = [client_sockets EXCEPT ![bi] = 0]
        /\ UNCHANGED fds /\ bpc = "zero" /\ bpc' = "check"
    BY <1>6 DEF DisconnectZero, StoreDisconnected, kernelVars
  <2>2. AtWorkOccupied'
    BY <1>4, <2>1 DEF AtWorkOccupied, CastingSlot
  <2>3. \A j \in Slots : (Emptying(j) <=> j = bi) /\ ~Emptying(j)'
    BY <1>3, <2>1
  <2>. QED  BY <1>0, <2>1, <2>2, <2>3, OwnerEmpty
<1>. QED  BY <1>5, <1>6

\* The accepted descriptor goes to an empty slot, which nobody is emptying, or
\* is closed when there is none.
LEMMA OwnerFindSlot ==
    ASSUME TypeInv, Owner, FindSlot
    PROVE  Owner'
<1>0. /\ KernelOK /\ TableOK /\ spc = "slot" /\ UNCHANGED <<bpc, bi>>
      /\ \A j \in Slots : client_sockets[j] \in Fd
  BY DEF TypeInv, TypeOK, FindSlot, casterVars, TableOK
<1>1. PICK g \in Fd : g = client_socket /\ g > 0 /\ fds[g] \in Conns
  BY <1>0 DEF Owner, AcceptedIsNew, TypeInv, TypeOK, ServerOK
<1>2. \A j \in Slots : client_sockets[j] = g => Emptying(j)
  BY <1>0, <1>1 DEF Owner, AcceptedIsNew
<1>3. spc' \in {"scan", "slot"}
  BY <1>0 DEF FindSlot
<1>4. \A j \in Slots : Emptying(j)' <=> Emptying(j)
  BY <1>0, <1>3 DEF Emptying
<1>5. ASSUME Close(g), spc' = "scan", UNCHANGED client_sockets
      PROVE  Owner'
  <2>1. fds' = [fds EXCEPT ![g] = Closed]
    BY <1>5 DEF Close
  <2>2. \A f \in Fd : f # g => fds'[f] = fds[f]
    BY <1>0, <2>1 DEF KernelOK
  <2>3. fds'[g] = Closed
    BY <1>0, <2>1 DEF KernelOK
  <2>4. StdinOpen'
    BY <1>1, <2>2, ZeroIsFd DEF Owner, StdinOpen
  <2>5. OnlyZeroIsStdin'
    BY <2>2, <2>3, Constants DEF Owner, OnlyZeroIsStdin
  <2>6. SlotsOpen'
    BY <1>0, <1>2, <1>4, <1>5, <2>2 DEF Owner, SlotsOpen
  <2>7. SlotsDistinct'
    BY <1>4, <1>5 DEF Owner, SlotsDistinct
  <2>8. NoneForgotten'
    BY <1>1, <1>4, <1>5, <2>2, <2>3, Constants DEF Owner, NoneForgotten
  <2>9. AcceptedIsNew' /\ AtWorkOccupied'
    BY <1>0, <1>5 DEF Owner, AcceptedIsNew, AtWorkOccupied
  <2>. QED  BY <2>4, <2>5, <2>6, <2>7, <2>8, <2>9 DEF Owner
<1>6. ASSUME NEW k \in Slots, client_sockets[k] <= 0, UNCHANGED fds, spc' = "scan",
             client_sockets' = [client_sockets EXCEPT ![k] = g]
      PROVE  Owner'
  <2>1. \A j \in Slots : client_sockets'[j] = IF j = k THEN g ELSE client_sockets[j]
    BY <1>0, <1>6 DEF TableOK
  <2>2. client_sockets[k] = 0
    BY <1>0, <1>6, Constants DEF Fd
  <2>3. ~Emptying(k)
    BY <1>0, <2>2 DEF Emptying, Owner, AtWorkOccupied, CastingSlot
  <2>4. StdinOpen' /\ OnlyZeroIsStdin'
    BY <1>6 DEF Owner, StdinOpen, OnlyZeroIsStdin
  <2>5. SlotsOpen'
    BY <1>1, <1>4, <1>6, <2>1 DEF Owner, SlotsOpen
  <2>6. SlotsDistinct'
    BY <1>2, <1>4, <2>1 DEF Owner, SlotsDistinct
  <2>7. NoneForgotten'
    <3>1. ASSUME NEW f \in Fd, fds'[f] \in Conns
          PROVE  \E j \in Slots : client_sockets'[j] = f /\ ~Emptying(j)'
      <4>1. fds[f] \in Conns /\ f # 0
        BY <1>6, <3>1, Constants DEF Owner, StdinOpen
      <4>2. CASE f = g
        BY <1>4, <2>1, <2>3, <4>2
      <4>3. CASE f # g
        <5>1. PICK j \in Slots : client_sockets[j] = f /\ ~Emptying(j)
          BY <1>1, <4>1, <4>3 DEF Owner, NoneForgotten
        <5>. QED  BY <1>4, <2>1, <2>2, <4>1, <5>1
      <4>. QED  BY <4>2, <4>3
    <3>. QED  BY <3>1 DEF NoneForgotten
  <2>8. AcceptedIsNew'
    BY <1>6 DEF AcceptedIsNew
  <2>9. bpc \in CastingSlot => bi \in Slots /\ client_sockets[bi] > 0
    BY DEF Owner, AtWorkOccupied, TypeInv, CasterPlaces
  <2>10. AtWorkOccupied'
    BY <1>0, <1>1, <1>6, <2>1, <2>9 DEF AtWorkOccupied
  <2>. QED  BY <2>4, <2>5, <2>6, <2>7, <2>8, <2>10 DEF Owner
<1>7. CASE UNCHANGED <<fds, client_sockets, client_socket, spc>>
  <2>1. AtWorkOccupied'
    BY <1>0, <1>7 DEF Owner, AtWorkOccupied
  <2>. QED  BY <1>4, <1>7, <2>1, OwnerQuiet
<1>. QED  BY <1>1, <1>5, <1>6, <1>7 DEF FindSlot

LEMMA OwnerClient ==
    ASSUME Owner, NEW c \in Conns, Client(c)
    PROVE  Owner'
<1>1. UNCHANGED <<fds, client_sockets, client_socket, spc, si, bpc, bi>>
  BY DEF Client, Connect, ClientSend, ClientClose, Resume, serverVars, casterVars
<1>2. \A i \in Slots : Emptying(i)' <=> Emptying(i)
  BY <1>1 DEF Emptying
<1>3. AtWorkOccupied'
  BY <1>1 DEF Owner, AtWorkOccupied
<1>. QED  BY <1>1, <1>2, <1>3, OwnerQuiet

\* A process that has ended stays so.
LEMMA DeadStays == Next /\ spc = Dead => spc' = Dead
BY DEF Next, ServerThread, BuildSet, Pselect, Accept, FindSlot, Scan, RecvCall, RecvData, RecvEof,
       DropClose, DropZero, StoreDropped, EndData, EndIf, Caster, BroadcastCall, CheckSlot, FdSet,
       SelectCall, SelectReturn, SendAll, SendShort, SendFails, SigPipe, DisconnectLock,
       DisconnectClose, DisconnectZero, StoreDisconnected, Destroy, Stopped, Client, Connect,
       ClientSend, ClientClose, Resume, serverVars, vars, Dead

\* Broadcasts are only ever added.
LEMMA OneDropperBefore ==
    ASSUME TypeInv, Next, OneDropper'
    PROVE  OneDropper
<1>0. bn \in Nat
  BY Constants DEF TypeInv, TypeOK, CasterOK
<1>1. bn' = bn \/ bn' = bn + 1
  BY DEF Next, ServerThread, BuildSet, PollFor, Pselect, Accept, FindSlot,
         Scan, RecvCall, RecvData, RecvEof, DropClose, DropZero, StoreDropped, EndData, EndIf, Caster,
         BroadcastCall, CheckSlot, FdSet, SelectCall, SelectReturn, SendAll, SendShort, SendFails,
         SigPipe, DisconnectLock, DisconnectClose, DisconnectZero, StoreDisconnected, Destroy,
         Stopped, Client, Connect, ClientSend, ClientClose, Resume, casterVars, vars
<1>2. bn' = 0 => bn = 0
  BY <1>0, <1>1
<1>. QED  BY <1>2 DEF OneDropper

LEMMA OwnerNext == TypeInv /\ OwnerInv /\ [Next]_vars => OwnerInv'
<1>1. ASSUME TypeInv, OwnerInv, Next, spc' # Dead, OneDropper'
      PROVE  Owner'
  <2>1. Owner /\ OneDropper
    BY <1>1, DeadStays, OneDropperBefore DEF OwnerInv
  <2>2. ~SigPipe /\ ~Destroy
    BY <1>1 DEF SigPipe, Destroy
  <2>3. CASE Stopped
    BY <2>1, <2>3 DEF Stopped, vars, kernelVars, serverVars, casterVars, Owner, StdinOpen, SlotsOpen,
       SlotsDistinct, NoneForgotten, AcceptedIsNew, AtWorkOccupied, OnlyZeroIsStdin, Emptying
  <2>. QED
    BY <1>1, <2>1, <2>2, <2>3, OwnerServerQuiet, OwnerCasterQuiet, OwnerAccept, OwnerServerDrop,
       OwnerCasterDrop, OwnerFindSlot, OwnerClient DEF Next, ServerThread, Caster
<1>2. ASSUME OwnerInv, UNCHANGED vars
      PROVE  OwnerInv'
  BY <1>2 DEF vars, kernelVars, serverVars, casterVars, OwnerInv, OneDropper, Owner, StdinOpen,
     SlotsOpen, SlotsDistinct, NoneForgotten, AcceptedIsNew, AtWorkOccupied, OnlyZeroIsStdin, Emptying
<1>. QED  BY <1>1, <1>2 DEF OwnerInv

LEMMA OwnerInvariant == SafetySpec => []OwnerInv
<1>1. Init => OwnerInv
  BY OwnerInit DEF OwnerInv
<1>. QED  BY <1>1, OwnerNext, TypeInvariant, PTL DEF SafetySpec

\* client_sockets accounts for every open connection of a server without a data
\* callback, although ns_server_broadcast empties slots while
\* server_thread_function fills them without the mutex.
THEOREM SlotTableSimplex ==
    ASSUME ~Duplex
    PROVE  SafetySpec => []SlotTable
<1>1. OwnerInv => SlotTable
  BY DEF OwnerInv, Owner, OneDropper, SlotTable
<1>. QED  BY <1>1, OwnerInvariant, PTL

\* The same of any server before its first broadcast, when only
\* server_thread_function uses the table.
THEOREM SlotTableBeforeBroadcast == SafetySpec => []SlotTableUncast
<1>1. OwnerInv => SlotTableUncast
  BY DEF OwnerInv, Owner, OneDropper, SlotTableUncast, SlotTable
<1>. QED  BY <1>1, OwnerInvariant, PTL

-----------------------------------------------------------------------------
(***************************************************************************)
(* The server thread's loop, while one thread drops clients                *)
(***************************************************************************)
\* What is being polled is open.
PollInv ==
    spc = "pselect" /\ OneDropper
        => \A f \in fdset : f # Listener => Duplex /\ fds[f] # Closed

LEMMA PollNext == TypeInv /\ OwnerInv /\ PollInv /\ [Next]_vars => PollInv'
<1>1. ASSUME TypeInv, OwnerInv, PollInv, Next, spc' = "pselect", OneDropper'
      PROVE  \A f \in fdset' : f # Listener => Duplex /\ fds'[f] # Closed
  <2>1. OneDropper
    BY <1>1, OneDropperBefore
  <2>2. CASE BuildSet
    <3>1. spc = "top" /\ UNCHANGED fds /\ Owner
      BY <1>1, <2>1, <2>2 DEF BuildSet, PollFor, kernelVars, OwnerInv, Dead
    <3>2. ~Duplex => fdset' = {Listener}
      BY <2>2 DEF BuildSet, PollFor
    <3>3. Duplex => fdset' = {Listener} \cup ClientSockets
      BY <2>2 DEF BuildSet, PollFor
    <3>4. Duplex => \A i \in Slots : ~Emptying(i)
      BY <1>1, <2>1, <3>1 DEF OneDropper, TypeInv, CasterPlaces, Emptying, Dead
    <3>5. Duplex => \A i \in Slots : client_sockets[i] > 0 => fds[client_sockets[i]] # Closed
      BY <3>1, <3>4, Constants DEF Owner, SlotsOpen
    <3>6. \A f \in ClientSockets : \E i \in Slots : client_sockets[i] = f /\ f > 0
      BY <1>1, Constants DEF ClientSockets, TypeInv, TypeOK, TableOK, Fd
    <3>. QED  BY <3>1, <3>2, <3>3, <3>5, <3>6
  <2>3. CASE ~BuildSet
    <3>1. spc = "pselect" /\ UNCHANGED fdset
      BY <1>1, <2>3 DEF Next, ServerThread, Pselect, Accept, FindSlot, Scan, RecvCall, RecvData,
         RecvEof, DropClose, DropZero, StoreDropped, EndData, EndIf, Caster, BroadcastCall, CheckSlot,
         FdSet, SelectCall, SelectReturn, SendAll, SendShort, SendFails, SigPipe, DisconnectLock,
         DisconnectClose, DisconnectZero, StoreDisconnected, Destroy, Stopped, Client, Connect,
         ClientSend, ClientClose, Resume, serverVars, vars, Dead
    <3>2. UNCHANGED fds \/ DisconnectClose
      BY <1>1, <3>1 DEF Next, ServerThread, BuildSet, Pselect, Accept, FindSlot, Scan, RecvCall,
         RecvData, RecvEof, DropClose, DropZero, StoreDropped, EndData, EndIf, Caster, BroadcastCall,
         CheckSlot, FdSet, SelectCall, SelectReturn, SendAll, SendShort, SendFails, SigPipe,
         DisconnectLock, DisconnectZero, StoreDisconnected, Destroy, Stopped, Client,
         Connect, ClientSend, ClientClose, Resume, kernelVars, vars, Dead
    <3>3. DisconnectClose => ~Duplex
      BY <1>1, <2>1 DEF DisconnectClose, OneDropper, TypeInv, CasterPlaces, Dead
    <3>. QED  BY <1>1, <2>1, <3>1, <3>2, <3>3 DEF PollInv
  <2>. QED  BY <2>2, <2>3
<1>2. ASSUME PollInv, UNCHANGED vars PROVE PollInv'
  BY <1>2 DEF PollInv, OneDropper, vars, kernelVars, serverVars, casterVars
<1>. QED  BY <1>1, <1>2 DEF PollInv

LEMMA PollInvariant == SafetySpec => []PollInv
<1>1. Init => PollInv
  BY DEF Init, PollInv
<1>. QED  BY <1>1, PollNext, TypeInvariant, OwnerInvariant, PTL DEF SafetySpec

\* No closed socket is polled while one thread drops clients: what the comment
\* at netserver.c:137 promises of both then holds.
THEOREM OpenSocketsPolled == SafetySpec => [](OneDropper => ClosedNeverPolled)
<1>1. PollInv => (OneDropper => ClosedNeverPolled)
  <2>. SUFFICES ASSUME PollInv, OneDropper, spc = "pselect", NEW f \in fdset, f \in Free
                PROVE  FALSE
    BY DEF ClosedNeverPolled
  <2>1. f # Listener
    BY Constants DEF Free, Fd, Listener
  <2>. QED  BY <2>1 DEF PollInv, Free
<1>. QED  BY <1>1, PollInvariant, PTL

\* A descriptor is free for accept() when there are more than slots.
LEMMA FreeForAccept ==
    ASSUME TypeInv, Owner, MaxClients < MaxFd, spc # "slot"
    PROVE  Free # {}
<1>. SUFFICES ASSUME Free = {} PROVE FALSE
  OBVIOUS
<1>. DEFINE Used == 1..MaxFd
            SlotOf == [f \in Used |-> CHOOSE i \in Slots : client_sockets[i] = f]
<1>1. \A f \in Used : f \in Fd /\ f # 0
  BY Constants DEF Fd
<1>2. \A f \in Used : fds[f] \in Conns
  BY <1>1 DEF Free, TypeInv, TypeOK, KernelOK, Owner, OnlyZeroIsStdin
<1>3. \A f \in Used : \E i \in Slots : client_sockets[i] = f
  BY <1>1, <1>2 DEF Owner, NoneForgotten
<1>4. \A f \in Used : SlotOf[f] \in Slots /\ client_sockets[SlotOf[f]] = f
  BY <1>3
<1>5. IsFiniteSet(Used) /\ Cardinality(Used) = MaxFd
  BY FS_Interval, Constants
<1>6. IsFiniteSet(Slots) /\ Cardinality(Slots) = MaxClients
  BY FS_Interval, Constants DEF Slots
<1>7. SlotOf \in [Used -> Slots]
  BY <1>4
<1>. HIDE DEF SlotOf, Used
<1>8. \E f, g \in Used : f # g /\ SlotOf[f] = SlotOf[g]
  BY <1>5, <1>6, <1>7, FS_PigeonHole
<1>. QED  BY <1>4, <1>8

LEMMA RunsNext ==
    ASSUME MaxClients < MaxFd, "addrlen" \notin Faults
    PROVE  TypeInv /\ OwnerInv /\ (OneDropper => ClosedNeverPolled) /\ (OneDropper => ServerRuns)
             /\ [Next]_vars => (OneDropper => ServerRuns)'
<1>1. ASSUME TypeInv, OwnerInv, OneDropper => ClosedNeverPolled, OneDropper => ServerRuns,
             Next, OneDropper', spc' = "done"
      PROVE  FALSE
  <2>1. OneDropper /\ spc # "done"
    BY <1>1, OneDropperBefore DEF ServerRuns
  <2>2. Pselect \/ Accept
    BY <1>1, <2>1 DEF Next, ServerThread, BuildSet, PollFor, FindSlot, Scan, RecvCall, RecvData,
         RecvEof, DropClose, DropZero, StoreDropped, EndData, EndIf, Caster, BroadcastCall, CheckSlot,
         FdSet, SelectCall, SelectReturn, SendAll, SendShort, SendFails, SigPipe, DisconnectLock,
         DisconnectClose, DisconnectZero, StoreDisconnected, Destroy, Stopped, Client, Connect,
         ClientSend, ClientClose, Resume, serverVars, vars, Dead
  <2>3. CASE Pselect
    BY <1>1, <2>1, <2>3 DEF Pselect, ClosedNeverPolled
  <2>4. CASE Accept
    <3>1. spc = "accept" /\ Owner
      BY <1>1, <2>1, <2>4 DEF Accept, OwnerInv, Dead
    <3>2. Free = {}
      BY <1>1, <2>4 DEF Accept
    <3>. QED  BY <1>1, <3>1, <3>2, FreeForAccept
  <2>. QED  BY <2>2, <2>3, <2>4
<1>2. ASSUME OneDropper => ServerRuns, UNCHANGED vars
      PROVE  (OneDropper => ServerRuns)'
  BY <1>2 DEF OneDropper, ServerRuns, vars, serverVars, casterVars
<1>. QED  BY <1>1, <1>2 DEF ServerRuns

\* server_thread_function stays in its loop while one thread drops clients, when
\* the process may have more descriptors than MAX_CLIENTS and accept() takes the
\* length it is given: the slots cannot use up the descriptors, and no closed
\* one is polled.
THEOREM ServerRunsOneDropper ==
    ASSUME MaxClients < MaxFd, "addrlen" \notin Faults
    PROVE  SafetySpec => [](OneDropper => ServerRuns)
<1>1. Init => (OneDropper => ServerRuns)
  BY DEF Init, ServerRuns
<1>. QED  BY <1>1, RunsNext, TypeInvariant, OwnerInvariant, OpenSocketsPolled, PTL DEF SafetySpec

\* So a server without a data callback never leaves its loop.
THEOREM ServerRunsSimplex ==
    ASSUME ~Duplex, MaxClients < MaxFd, "addrlen" \notin Faults
    PROVE  SafetySpec => []ServerRuns
<1>1. (OneDropper => ServerRuns) => ServerRuns
  BY DEF OneDropper
<1>. QED  BY <1>1, ServerRunsOneDropper, PTL

-----------------------------------------------------------------------------
(***************************************************************************)
(* Connections                                                             *)
(***************************************************************************)
\* Nothing was sent to a connection that has not been accepted.
Fresh(c) == (\A f \in Fd : fds[f] # c) /\ got[c] = <<>> /\ c \notin cut

\* A connection is made, waits in the queue and is accepted once, and then has
\* one descriptor until it is closed.
ConnOnce ==
    /\ \A c \in Conns : peer[c] = "new" => Fresh(c) /\ ~Queued(c)
    /\ \A k \in 1..Len(backlog) : Fresh(backlog[k])
    /\ \A j, k \in 1..Len(backlog) : backlog[j] = backlog[k] => j = k
    /\ \A f, g \in Fd : fds[f] = fds[g] /\ fds[f] \in Conns => f = g
    /\ bn = 0 => \A c \in Conns : got[c] = <<>>

LEMMA ConnInit == Init => ConnOnce
<1>. SUFFICES ASSUME Init PROVE ConnOnce
  OBVIOUS
<1>1. \A f \in Fd : fds[f] \notin Conns
  BY Constants DEF Init
<1>2. backlog = <<>> /\ \A c \in Conns : Fresh(c)
  BY <1>1 DEF Init, Fresh
<1>3. \A c \in Conns : got[c] = <<>>
  BY DEF Init
<1>4. Len(backlog) = 0
  BY <1>2
<1>. QED  BY <1>1, <1>2, <1>3, <1>4 DEF ConnOnce, Queued

\* Steps that at most close descriptors.
LEMMA ConnClosing ==
    ASSUME TypeInv, ConnOnce, UNCHANGED <<peer, backlog, bn, got, cut>>,
           \A f \in Fd : fds'[f] = fds[f] \/ fds'[f] = Closed
    PROVE  ConnOnce'
<1>0. \A k \in 1..Len(backlog) : backlog[k] \in Conns
  BY DEF TypeInv, TypeOK, KernelOK
<1>1. \A c \in Conns : Fresh(c) => Fresh(c)'
  BY Constants DEF Fresh
<1>2. \A c \in Conns : Queued(c)' <=> Queued(c)
  BY DEF Queued
<1>3. \A f, g \in Fd : fds'[f] = fds'[g] /\ fds'[f] \in Conns => f = g
  BY Constants DEF ConnOnce
<1>. QED  BY <1>0, <1>1, <1>2, <1>3 DEF ConnOnce

LEMMA ConnAccept ==
    ASSUME TypeInv, ConnOnce, Accept
    PROVE  ConnOnce'
<1>0. KernelOK /\ UNCHANGED <<peer, bn, got, cut>>
  BY DEF TypeInv, TypeOK, Accept, casterVars
<1>1. CASE UNCHANGED <<fds, backlog>>
  BY <1>0, <1>1, ConnClosing
<1>2. CASE ~UNCHANGED <<fds, backlog>>
  <2>1. /\ Listener \in fdset /\ Free # {} /\ backlog' = Tail(backlog)
        /\ (fds' = fds \/ fds' = [fds EXCEPT ![Lowest(Free)] = Head(backlog)])
    BY <1>2 DEF Accept
  <2>2. backlog \in Seq(Conns) /\ backlog # <<>>
    BY <1>0, <2>1 DEF KernelOK, TypeInv, ServerPlaces, Accept
  <2>3. PICK g \in Fd : g = Lowest(Free) /\ fds[g] = Closed
    BY <2>1, LowestFree DEF Free
  <2>4. /\ Len(backlog') = Len(backlog) - 1 /\ Head(backlog) = backlog[1] /\ Len(backlog) \in Nat \ {0}
        /\ \A k \in 1..Len(backlog') : backlog'[k] = backlog[k + 1]
    BY <2>1, <2>2
  <2>5. PICK o \in Conns : o = Head(backlog)
    BY <2>2
  <2>6. Fresh(o)
    BY <2>4, <2>5 DEF ConnOnce
  <2>7. \A f \in Fd : fds'[f] = fds[f] \/ (f = g /\ fds'[f] = o)
    BY <1>0, <2>1, <2>3, <2>5 DEF KernelOK
  <2>8. \A k \in 1..Len(backlog') : backlog'[k] # o
    BY <2>4, <2>5 DEF ConnOnce
  <2>9. \A c \in Conns : Fresh(c) /\ c # o => Fresh(c)'
    BY <1>0, <2>7 DEF Fresh
  <2>10. \A c \in Conns : Queued(c)' => Queued(c)
    BY <2>4 DEF Queued
  <2>11. peer[o] # "new"
    BY <2>4, <2>5 DEF ConnOnce, Queued
  <2>12. \A f, h \in Fd : fds'[f] = fds'[h] /\ fds'[f] \in Conns => f = h
    BY <2>6, <2>7 DEF ConnOnce, Fresh
  <2>13. \A c \in Conns : peer'[c] = "new" => Fresh(c)' /\ ~Queued(c)'
    BY <1>0, <2>9, <2>10, <2>11 DEF ConnOnce
  <2>14. \A k \in 1..Len(backlog') : Fresh(backlog[k])'
    <3>1. ASSUME NEW k \in 1..Len(backlog') PROVE Fresh(backlog[k])'
      <4>1. PICK c \in Conns : c = backlog'[k] /\ c = backlog[k + 1] /\ k + 1 \in 1..Len(backlog)
        BY <2>2, <2>4
      <4>2. Fresh(c) /\ c # o
        BY <2>8, <4>1 DEF ConnOnce
      <4>3. Fresh(c)'
        BY <2>9, <4>2
      <4>. QED  BY <4>1, <4>3 DEF Fresh
    <3>. QED  BY <3>1
  <2>15. \A j, k \in 1..Len(backlog') : backlog'[j] = backlog'[k] => j = k
    BY <2>4 DEF ConnOnce
  <2>. QED  BY <1>0, <2>12, <2>13, <2>14, <2>15 DEF ConnOnce
<1>. QED  BY <1>1, <1>2

LEMMA ConnClient ==
    ASSUME TypeInv, ConnOnce, NEW c \in Conns, Client(c)
    PROVE  ConnOnce'
<1>0. UNCHANGED <<fds, bn, got, cut>> /\ KernelOK
  BY DEF Client, Connect, ClientSend, ClientClose, Resume, casterVars, TypeInv, TypeOK
<1>1. \A d : Fresh(d)' <=> Fresh(d)
  BY <1>0 DEF Fresh
<1>2. CASE Connect(c)
  <2>1. /\ peer[c] = "new" /\ peer' = [peer EXCEPT ![c] = "up"]
        /\ backlog' = Append(backlog, c) /\ backlog \in Seq(Conns)
    BY <1>0, <1>2 DEF Connect, KernelOK
  <2>2. /\ Len(backlog') = Len(backlog) + 1 /\ backlog'[Len(backlog) + 1] = c /\ Len(backlog) \in Nat
        /\ \A k \in 1..Len(backlog) : backlog'[k] = backlog[k] /\ backlog[k] \in Conns
    BY <2>1
  <2>3. Fresh(c) /\ \A k \in 1..Len(backlog) : backlog[k] # c
    BY <2>1 DEF ConnOnce, Queued
  <2>4. \A k \in 1..Len(backlog') : k \in 1..Len(backlog) \/ k = Len(backlog) + 1
    BY <2>2
  <2>5. \A k \in 1..Len(backlog') : Fresh(backlog[k])'
    BY <1>1, <2>2, <2>3, <2>4 DEF ConnOnce
  <2>6. \A j, k \in 1..Len(backlog') : backlog'[j] = backlog'[k] => j = k
    BY <2>2, <2>3, <2>4 DEF ConnOnce
  <2>7. \A d \in Conns : peer'[d] = "new" => d # c /\ peer[d] = "new"
    BY <1>0, <2>1 DEF KernelOK
  <2>8. \A d \in Conns : d # c /\ Queued(d)' => Queued(d)
    BY <2>2, <2>4 DEF Queued
  <2>. QED  BY <1>0, <1>1, <2>5, <2>6, <2>7, <2>8 DEF ConnOnce
<1>3. CASE UNCHANGED backlog /\ \A d \in Conns : peer'[d] = "new" => peer[d] = "new"
  <2>1. \A d \in Conns : Queued(d)' <=> Queued(d)
    BY <1>3 DEF Queued
  <2>. QED  BY <1>0, <1>1, <1>3, <2>1 DEF ConnOnce
<1>4. ClientClose(c) \/ Resume(c) \/ (\E n \in 1..MaxInbox : ClientSend(c, n))
         => UNCHANGED backlog /\ \A d \in Conns : peer'[d] = "new" => peer[d] = "new"
  BY <1>0 DEF ClientClose, Resume, ClientSend, KernelOK
<1>. QED  BY <1>2, <1>3, <1>4 DEF Client

LEMMA ConnCaster ==
    ASSUME TypeInv, ConnOnce, BroadcastCall \/ SendAll \/ SendShort
    PROVE  ConnOnce'
<1>0. /\ UNCHANGED <<fds, peer, backlog>> /\ bn \in Nat /\ HistoryOK /\ CasterPlaces
      /\ \A k \in 1..Len(backlog) : backlog[k] \in Conns
  BY Constants DEF BroadcastCall, SendAll, SendShort, kernelVars, TypeInv, TypeOK, CasterOK, KernelOK
<1>1. \A c \in Conns : Fresh(c) => Fresh(c)'
  <2>1. CASE BroadcastCall
    BY <1>0, <2>1 DEF BroadcastCall, Fresh
  <2>2. CASE SendAll \/ SendShort
    <3>1. PICK f \in Fd : f = client_sockets[bi]
      BY <2>2 DEF SendAll, SendShort, TypeInv, TypeOK, TableOK, CasterPlaces, CastingSlot
    <3>2. \A c \in Conns : c # fds[f] => got'[c] = got[c] /\ (c \in cut' => c \in cut)
      BY <1>0, <2>2, <3>1 DEF SendAll, SendShort, HistoryOK
    <3>. QED  BY <1>0, <3>1, <3>2 DEF Fresh
  <2>. QED  BY <2>1, <2>2
<1>2. \A c \in Conns : Queued(c)' <=> Queued(c)
  BY <1>0 DEF Queued
<1>3. bn' # 0
  BY <1>0 DEF BroadcastCall, SendAll, SendShort, CasterPlaces, Dead
<1>. QED  BY <1>0, <1>1, <1>2, <1>3 DEF ConnOnce

LEMMA ConnNext == TypeInv /\ ConnOnce /\ [Next]_vars => ConnOnce'
<1>. SUFFICES ASSUME TypeInv, ConnOnce, [Next]_vars PROVE ConnOnce'
  OBVIOUS
<1>0. fds \in [Fd -> Conns \cup {Stdin, Closed}]
  BY DEF TypeInv, TypeOK, KernelOK
<1>1. CASE UNCHANGED <<fds, peer, backlog, bn, got, cut>>
  BY <1>1, ConnClosing
<1>2. CASE FindSlot \/ DropClose \/ DisconnectClose \/ Destroy
  <2>1. UNCHANGED <<peer, backlog, bn, got, cut>>
    BY <1>2 DEF FindSlot, DropClose, DisconnectClose, Destroy, casterVars
  <2>2. \A f \in Fd : fds'[f] = fds[f] \/ fds'[f] = Closed
    BY <1>0, <1>2 DEF FindSlot, DropClose, DisconnectClose, Destroy, Close
  <2>. QED  BY <2>1, <2>2, ConnClosing
<1>3. CASE Accept
  BY <1>3, ConnAccept
<1>4. CASE BroadcastCall \/ SendAll \/ SendShort
  BY <1>4, ConnCaster
<1>5. CASE \E c \in Conns : Client(c)
  BY <1>5, ConnClient
<1>. QED
  BY <1>1, <1>2, <1>3, <1>4, <1>5 DEF Next, ServerThread, BuildSet, PollFor, Pselect, Scan, RecvCall,
     RecvData, RecvEof, DropZero, StoreDropped, EndData, EndIf, Caster, CheckSlot, FdSet, SelectCall,
     SelectReturn, SendFails, SigPipe, DisconnectLock, DisconnectZero, StoreDisconnected, Stopped,
     vars, kernelVars, casterVars

LEMMA ConnInvariant == SafetySpec => []ConnOnce
BY ConnInit, ConnNext, TypeInvariant, PTL DEF SafetySpec

-----------------------------------------------------------------------------
(***************************************************************************)
(* Broadcasts                                                              *)
(***************************************************************************)
\* ns_server_broadcast has closed slot i and is about to mark it.
Emptied(i) == bpc = "zero" /\ bi = i

\* Two slots have one descriptor only while the caster empties one of them.
OneSlot ==
    \A i, j \in Slots : client_sockets[i] = client_sockets[j] /\ client_sockets[i] > 0
                           => i = j \/ Emptied(i) \/ Emptied(j)

\* The connection just accepted has been sent nothing, and cannot be sent
\* anything by its descriptor's number in another slot.
AcceptedFresh ==
    spc = "slot" => /\ client_socket > 0 /\ fds[client_socket] \in Conns
                    /\ got[fds[client_socket]] = <<>> /\ fds[client_socket] \notin cut
                    /\ \A i \in Slots : client_sockets[i] = client_socket => Emptied(i)

\* pselect() is given every descriptor the table holds ...
PolledAll ==
    spc = "pselect" /\ Duplex
        => \A k \in Slots : client_sockets[k] > 0 => client_sockets[k] \in fdset

\* ... so that after it accept() cannot reuse the number of a slot that stays.
ClosedIsEmptied ==
    spc = "accept" \/ ~Duplex
        => \A k \in Slots : client_sockets[k] > 0 /\ fds[client_sockets[k]] = Closed => Emptied(k)

\* A connected client whose slot the broadcast has passed received it last; one
\* whose slot is still to come received the broadcast before last.
LastGot(c) == got[c][Len(got[c])]
InStep ==
    \A i \in Slots, c \in Conns :
        /\ client_sockets[i] > 0 /\ fds[client_sockets[i]] = c /\ peer[c] = "up"
        /\ ~Emptied(i) /\ got[c] # <<>>
        => LastGot(c) = IF i < bi THEN bn ELSE bn - 1

\* A client that was sent a part is in the slot that is about to be closed.
CutLeaves ==
    \A i \in Slots : client_sockets[i] > 0 /\ fds[client_sockets[i]] \in cut
                        => i = bi /\ bpc \in {"lock", "close"}

Cast == OneSlot /\ AcceptedFresh /\ PolledAll /\ ClosedIsEmptied /\ InStep /\ CutLeaves

CastInv == spc # Dead /\ StdinOpen => Cast

LEMMA CastInit == Init => Cast
<1>. SUFFICES ASSUME Init PROVE Cast
  OBVIOUS
<1>1. \A i \in Slots : client_sockets[i] = 0
  BY DEF Init
<1>2. OneSlot /\ ClosedIsEmptied /\ InStep /\ CutLeaves
  BY <1>1 DEF OneSlot, ClosedIsEmptied, InStep, CutLeaves
<1>3. AcceptedFresh /\ PolledAll
  BY DEF Init, AcceptedFresh, PolledAll
<1>. QED  BY <1>2, <1>3 DEF Cast

\* A step that opens, closes, fills, empties and sends nothing.
LEMMA CastQuiet ==
    ASSUME Cast, UNCHANGED <<fds, client_sockets, client_socket, got, cut, bn, bi>>,
           \A c \in Conns : peer'[c] = "up" => peer[c] = "up",
           \A i \in Slots : Emptied(i)' <=> Emptied(i),
           bpc \in {"lock", "close"} => bpc' \in {"lock", "close"},
           spc' = "slot" <=> spc = "slot", PolledAll', ClosedIsEmptied'
    PROVE  Cast'
<1>1. OneSlot'
  BY DEF Cast, OneSlot
<1>2. AcceptedFresh'
  BY DEF Cast, AcceptedFresh
<1>3. InStep'
  BY DEF Cast, InStep, LastGot
<1>4. CutLeaves'
  BY DEF Cast, CutLeaves
<1>. QED  BY <1>1, <1>2, <1>3, <1>4 DEF Cast

LEMMA CastServerQuiet ==
    ASSUME TypeInv, Cast,
           \/ BuildSet \/ Pselect \/ Scan \/ RecvCall \/ RecvData \/ RecvEof \/ EndData
    PROVE  Cast'
<1>0. KernelOK /\ TableOK
  BY DEF TypeInv, TypeOK
<1>1. UNCHANGED <<fds, peer, client_sockets, client_socket, got, cut, bn, bi, bpc>>
  BY DEF BuildSet, PollFor, Pselect, Scan, RecvCall, RecvData, RecvEof, EndData, EndIf, kernelVars,
         casterVars
<1>2. \A i \in Slots : Emptied(i)' <=> Emptied(i)
  BY <1>1 DEF Emptied
<1>3. spc # "slot" /\ spc' # "slot"
  BY DEF BuildSet, PollFor, Pselect, Scan, RecvCall, RecvData, RecvEof, EndData, EndIf
<1>4. PolledAll'
  <2>1. spc' = "pselect" /\ Duplex => ClientSockets \subseteq fdset'
    BY DEF BuildSet, PollFor, Pselect, Scan, RecvCall, RecvData, RecvEof, EndData, EndIf
  <2>2. \A k \in Slots : client_sockets[k] > 0 => client_sockets[k] \in ClientSockets
    BY DEF ClientSockets
  <2>. QED  BY <1>1, <2>1, <2>2 DEF PolledAll
<1>5. ClosedIsEmptied'
  <2>1. CASE spc' = "accept" /\ Duplex
    <3>1. spc = "pselect" /\ fdset \cap Free = {}
      BY <2>1 DEF BuildSet, PollFor, Pselect, Scan, RecvCall, RecvData, RecvEof, EndData, EndIf
    <3>2. \A k \in Slots : client_sockets[k] \in Fd
      BY <1>0 DEF TableOK
    <3>3. \A k \in Slots : client_sockets[k] > 0 => fds[client_sockets[k]] # Closed
      BY <2>1, <3>1, <3>2 DEF Cast, PolledAll, Free
    <3>. QED  BY <1>1, <3>3 DEF ClosedIsEmptied
  <2>2. CASE ~Duplex
    BY <1>1, <1>2, <2>2 DEF Cast, ClosedIsEmptied
  <2>. QED  BY <2>1, <2>2 DEF ClosedIsEmptied
<1>. QED  BY <1>1, <1>2, <1>3, <1>4, <1>5, CastQuiet

\* accept() reuses no number that stays in the table.
LEMMA CastAccept ==
    ASSUME TypeInv, ConnOnce, StdinOpen, Cast, Accept
    PROVE  Cast'
<1>0. /\ KernelOK /\ TableOK /\ spc = "accept"
      /\ UNCHANGED <<peer, client_sockets, got, cut, bn, bi, bpc>>
      /\ \A j \in Slots : client_sockets[j] \in Fd
  BY DEF TypeInv, TypeOK, TableOK, Accept, casterVars
<1>1. \A i \in Slots : Emptied(i)' <=> Emptied(i)
  BY <1>0 DEF Emptied
<1>2. spc' # "pselect" /\ spc' # "accept"
  BY DEF Accept
<1>3. CASE UNCHANGED <<fds, client_socket>> /\ spc' # "slot"
  <2>1. PolledAll' /\ ClosedIsEmptied'
    BY <1>0, <1>1, <1>2, <1>3 DEF Cast, PolledAll, ClosedIsEmptied
  <2>. QED  BY <1>0, <1>1, <1>3, <2>1, CastQuiet
<1>4. CASE ~(UNCHANGED <<fds, client_socket>> /\ spc' # "slot")
  <2>1. /\ Listener \in fdset /\ Free # {} /\ spc' = "slot"
        /\ client_socket' = Lowest(Free)
        /\ fds' = [fds EXCEPT ![Lowest(Free)] = Head(backlog)]
    BY <1>4 DEF Accept
  <2>2. PICK g \in Fd : g = Lowest(Free) /\ fds[g] = Closed
    BY <2>1, LowestFree DEF Free
  <2>3. backlog \in Seq(Conns) /\ backlog # <<>>
    BY <1>0, <2>1 DEF KernelOK, TypeInv, ServerPlaces
  <2>4. PICK o \in Conns : o = Head(backlog) /\ Fresh(o)
    <3>1. Head(backlog) = backlog[1] /\ 1 \in 1..Len(backlog) /\ Head(backlog) \in Conns
      BY <2>3
    <3>. QED  BY <3>1 DEF ConnOnce
  <2>5. fds'[g] = o /\ client_socket' = g /\ \A f \in Fd : f # g => fds'[f] = fds[f]
    BY <1>0, <2>1, <2>2, <2>4 DEF KernelOK
  <2>6. g > 0
    BY <2>2, Constants DEF StdinOpen, Fd
  <2>7. \A i \in Slots : client_sockets[i] = g => Emptied(i)
    BY <1>0, <2>2, <2>6 DEF Cast, ClosedIsEmptied
  <2>8. OneSlot'
    BY <1>0, <1>1 DEF Cast, OneSlot
  <2>9. AcceptedFresh'
    BY <1>0, <1>1, <2>4, <2>5, <2>6, <2>7 DEF AcceptedFresh, Fresh
  <2>10. PolledAll'
    BY <1>2 DEF PolledAll
  <2>11. ClosedIsEmptied'
    BY <1>0, <1>1, <1>2, <2>4, <2>5, Constants DEF Cast, ClosedIsEmptied
  <2>12. InStep'
    BY <1>0, <1>1, <2>5, <2>7 DEF Cast, InStep, LastGot
  <2>13. CutLeaves'
    BY <1>0, <2>4, <2>5 DEF Cast, CutLeaves, Fresh
  <2>. QED  BY <2>8, <2>9, <2>10, <2>11, <2>12, <2>13 DEF Cast
<1>. QED  BY <1>3, <1>4

LEMMA CastFindSlot ==
    ASSUME TypeInv, Cast, FindSlot
    PROVE  Cast'
<1>0. /\ KernelOK /\ TableOK /\ spc = "slot" /\ UNCHANGED <<peer, got, cut, bn, bi, bpc>>
      /\ \A j \in Slots : client_sockets[j] \in Fd
  BY DEF TypeInv, TypeOK, TableOK, FindSlot, casterVars
<1>1. PICK g \in Fd : g = client_socket /\ g > 0 /\ fds[g] \in Conns /\ got[fds[g]] = <<>>
                       /\ fds[g] \notin cut
  BY <1>0 DEF Cast, AcceptedFresh, TypeInv, TypeOK, ServerOK
<1>2. \A j \in Slots : client_sockets[j] = g => Emptied(j)
  BY <1>0, <1>1 DEF Cast, AcceptedFresh
<1>3. spc' \in {"scan", "slot"}
  BY <1>0 DEF FindSlot
<1>4. \A j \in Slots : Emptied(j)' <=> Emptied(j)
  BY <1>0 DEF Emptied
<1>5. PolledAll'
  BY <1>3 DEF PolledAll
<1>6. ASSUME Close(g), spc' = "scan", UNCHANGED client_sockets
      PROVE  Cast'
  <2>1. fds' = [fds EXCEPT ![g] = Closed]
    BY <1>6 DEF Close
  <2>2. fds'[g] = Closed /\ \A f \in Fd : f # g => fds'[f] = fds[f]
    BY <1>0, <2>1 DEF KernelOK
  <2>3. OneSlot'
    BY <1>4, <1>6 DEF Cast, OneSlot
  <2>4. AcceptedFresh'
    BY <1>6 DEF AcceptedFresh
  <2>5. ClosedIsEmptied'
    BY <1>0, <1>2, <1>4, <1>6, <2>2 DEF Cast, ClosedIsEmptied
  <2>6. InStep'
    BY <1>0, <1>2, <1>4, <1>6, <2>2 DEF Cast, InStep, LastGot
  <2>7. cut \subseteq Conns
    BY DEF TypeInv, TypeOK, HistoryOK
  <2>8. CutLeaves'
    BY <1>0, <1>6, <2>2, <2>7, Constants DEF Cast, CutLeaves
  <2>. QED  BY <1>5, <2>3, <2>4, <2>5, <2>6, <2>8 DEF Cast
<1>7. ASSUME NEW k \in Slots, client_sockets[k] <= 0, UNCHANGED fds, spc' = "scan",
             client_sockets' = [client_sockets EXCEPT ![k] = g]
      PROVE  Cast'
  <2>1. \A j \in Slots : client_sockets'[j] = IF j = k THEN g ELSE client_sockets[j]
    BY <1>0, <1>7 DEF TableOK
  <2>2. OneSlot'
    BY <1>2, <1>4, <2>1 DEF Cast, OneSlot
  <2>3. AcceptedFresh'
    BY <1>7 DEF AcceptedFresh
  <2>4. ClosedIsEmptied'
    BY <1>0, <1>1, <1>3, <1>4, <1>7, <2>1, Constants DEF Cast, ClosedIsEmptied
  <2>5. InStep'
    BY <1>0, <1>1, <1>4, <1>7, <2>1 DEF Cast, InStep, LastGot
  <2>6. CutLeaves'
    BY <1>0, <1>1, <1>7, <2>1 DEF Cast, CutLeaves
  <2>. QED  BY <1>5, <2>2, <2>3, <2>4, <2>5, <2>6 DEF Cast
<1>8. CASE UNCHANGED <<fds, client_sockets, client_socket, spc>>
  <2>1. ClosedIsEmptied'
    BY <1>0, <1>4, <1>8 DEF Cast, ClosedIsEmptied
  <2>. QED  BY <1>0, <1>4, <1>5, <1>8, <2>1, CastQuiet
<1>. QED  BY <1>1, <1>6, <1>7, <1>8 DEF FindSlot

LEMMA CastServerDrop ==
    ASSUME TypeInv, Cast, DropClose \/ DropZero
    PROVE  Cast'
<1>0. /\ KernelOK /\ TableOK /\ UNCHANGED <<peer, got, cut, bn, bi, bpc>>
      /\ \A j \in Slots : client_sockets[j] \in Fd
      /\ cut \subseteq Conns
  BY DEF TypeInv, TypeOK, TableOK, HistoryOK, DropClose, DropZero, StoreDropped, kernelVars, casterVars
<1>1. spc' \in {"zero", "end"} /\ Duplex
  BY DEF DropClose, DropZero, StoreDropped, TypeInv, DuplexPlaces, AtSlot
<1>2. \A j \in Slots : Emptied(j)' <=> Emptied(j)
  BY <1>0 DEF Emptied
<1>3. \A j \in Slots : client_sockets'[j] = client_sockets[j] \/ client_sockets'[j] = 0
  BY <1>0 DEF DropClose, DropZero, StoreDropped, TableOK
<1>4. \A f \in Fd : fds'[f] = fds[f] \/ fds'[f] = Closed
  BY <1>0 DEF DropClose, DropZero, StoreDropped, Close, kernelVars, KernelOK
<1>5. OneSlot'
  BY <1>2, <1>3 DEF Cast, OneSlot
<1>6. AcceptedFresh' /\ PolledAll' /\ ClosedIsEmptied'
  BY <1>1 DEF AcceptedFresh, PolledAll, ClosedIsEmptied
<1>7. InStep'
  BY <1>0, <1>2, <1>3, <1>4, Constants DEF Cast, InStep, LastGot
<1>8. CutLeaves'
  BY <1>0, <1>3, <1>4, Constants DEF Cast, CutLeaves
<1>. QED  BY <1>5, <1>6, <1>7, <1>8 DEF Cast

LEMMA CastCasterQuiet ==
    ASSUME TypeInv, Cast, FdSet \/ SelectCall \/ SelectReturn \/ SendFails \/ DisconnectLock
    PROVE  Cast'
<1>1. UNCHANGED <<fds, peer, client_sockets, client_socket, got, cut, bn, bi, spc, fdset>>
  BY DEF FdSet, SelectCall, SelectReturn, SendFails, DisconnectLock, kernelVars, serverVars
<1>2. bpc # "zero" /\ bpc' # "zero"
  BY DEF FdSet, SelectCall, SelectReturn, SendFails, DisconnectLock
<1>3. \A i \in Slots : Emptied(i)' <=> Emptied(i)
  BY <1>2 DEF Emptied
<1>4. bpc \in {"lock", "close"} => bpc' \in {"lock", "close"}
  BY DEF FdSet, SelectCall, SelectReturn, SendFails, DisconnectLock
<1>5. PolledAll' /\ ClosedIsEmptied'
  BY <1>1, <1>3 DEF Cast, PolledAll, ClosedIsEmptied
<1>. QED  BY <1>1, <1>3, <1>4, <1>5, CastQuiet

\* A broadcast starts when all slots are passed, and passes empty slots.
LEMMA CastLoop ==
    ASSUME TypeInv, ConnOnce, Cast, BroadcastCall \/ CheckSlot
    PROVE  Cast'
<1>0. /\ UNCHANGED <<fds, peer, client_sockets, client_socket, got, cut, spc, fdset>>
      /\ bn \in Nat /\ bi \in Nat /\ MaxClients \in Nat
  BY Constants DEF BroadcastCall, CheckSlot, kernelVars, serverVars, TypeInv, TypeOK, CasterOK
<1>1. bpc \in {"idle", "check"} /\ bpc' \in {"idle", "check", "fdset"}
  BY DEF BroadcastCall, CheckSlot
<1>2. \A i \in Slots : ~Emptied(i) /\ ~Emptied(i)'
  BY <1>1 DEF Emptied
<1>3. OneSlot'
  BY <1>0, <1>2 DEF Cast, OneSlot
<1>4. AcceptedFresh' /\ PolledAll' /\ ClosedIsEmptied'
  BY <1>0, <1>2 DEF Cast, AcceptedFresh, PolledAll, ClosedIsEmptied
<1>5. CutLeaves'
  BY <1>0, <1>1 DEF Cast, CutLeaves
<1>6. InStep'
  <2>. SUFFICES ASSUME NEW i \in Slots, NEW c \in Conns, client_sockets[i] > 0,
                       fds[client_sockets[i]] = c, peer[c] = "up", got[c] # <<>>
                PROVE  LastGot(c) = IF i < bi' THEN bn' ELSE bn' - 1
    BY <1>0 DEF InStep, LastGot
  <2>1. LastGot(c) = IF i < bi THEN bn ELSE bn - 1
    BY <1>2 DEF Cast, InStep
  <2>2. CASE BroadcastCall
    <3>1. bn # 0
      BY DEF ConnOnce
    <3>2. bi = MaxClients + 1 /\ bi' = 1 /\ bn' = bn + 1
      BY <2>2, <3>1 DEF BroadcastCall, TypeInv, CasterPlaces
    <3>3. i \in Nat /\ i <= MaxClients /\ ~(i < 1)
      BY <1>0 DEF Slots
    <3>. QED  BY <1>0, <2>1, <3>2, <3>3
  <2>3. CASE CheckSlot
    <3>1. bn' = bn /\ (bi' = bi \/ (bi' = bi + 1 /\ client_sockets[bi] <= 0))
      BY <2>3 DEF CheckSlot
    <3>2. i \in Nat /\ (client_sockets[bi] <= 0 => i # bi)
      BY <1>0, Constants DEF Slots, TypeInv, TypeOK, TableOK, Fd
    <3>. QED  BY <1>0, <2>1, <3>1, <3>2
  <2>. QED  BY <2>2, <2>3
<1>. QED  BY <1>3, <1>4, <1>5, <1>6 DEF Cast

\* send() reaches the connection of slot bi, which no other slot holds.
LEMMA SendTarget ==
    ASSUME TypeInv, ConnOnce, StdinOpen, Cast, bpc = "send", fds[client_sockets[bi]] \in Conns
    PROVE  /\ bi \in Slots /\ client_sockets[bi] > 0 /\ client_sockets[bi] \in Fd
           /\ \A i \in Slots : client_sockets[i] > 0 /\ fds[client_sockets[i]] = fds[client_sockets[bi]]
                                  => i = bi
<1>1. bi \in Slots
  BY DEF TypeInv, CasterPlaces, CastingSlot
<1>2. \A i \in Slots : client_sockets[i] \in Fd
  BY DEF TypeInv, TypeOK, TableOK
<1>3. client_sockets[bi] # 0
  BY Constants DEF StdinOpen
<1>4. client_sockets[bi] > 0
  BY <1>1, <1>2, <1>3, Constants DEF Fd
<1>5. \A i \in Slots : ~Emptied(i)
  BY DEF Emptied
<1>. QED  BY <1>1, <1>2, <1>4, <1>5 DEF ConnOnce, Cast, OneSlot

LEMMA CastSendAll ==
    ASSUME TypeInv, ConnOnce, StdinOpen, Cast, SendAll
    PROVE  Cast'
<1>0. /\ UNCHANGED <<fds, peer, client_sockets, client_socket, cut, spc, fdset, bn>>
      /\ bpc = "send" /\ bpc' = "check" /\ bi' = bi + 1
      /\ bn \in Nat /\ bi \in Nat /\ got \in [Conns -> Seq(1..MaxBroadcasts)]
  BY Constants DEF SendAll, serverVars, TypeInv, TypeOK, CasterOK, HistoryOK
<1>1. PICK o \in Conns : /\ o = fds[client_sockets[bi]]
                         /\ got' = IF peer[o] = "up" THEN [got EXCEPT ![o] = Append(@, bn)] ELSE got
  BY DEF SendAll
<1>2. /\ bi \in Slots /\ client_sockets[bi] > 0
      /\ \A i \in Slots : client_sockets[i] > 0 /\ fds[client_sockets[i]] = o => i = bi
  BY <1>0, <1>1, SendTarget
<1>3. \A i \in Slots : ~Emptied(i) /\ ~Emptied(i)'
  BY <1>0 DEF Emptied
<1>4. \A c \in Conns : c # o => got'[c] = got[c]
  BY <1>0, <1>1
<1>5. peer[o] = "up" => LastGot(o)' = bn
  BY <1>0, <1>1 DEF LastGot
<1>6. OneSlot' /\ PolledAll' /\ ClosedIsEmptied'
  BY <1>0, <1>3 DEF Cast, OneSlot, PolledAll, ClosedIsEmptied
<1>7. AcceptedFresh'
  <2>. SUFFICES ASSUME spc = "slot" PROVE AcceptedFresh'
    BY <1>0 DEF AcceptedFresh
  <2>1. /\ client_socket > 0 /\ fds[client_socket] \in Conns /\ client_socket \in Fd
        /\ got[fds[client_socket]] = <<>> /\ fds[client_socket] \notin cut
        /\ \A i \in Slots : client_sockets[i] # client_socket
    BY <1>3 DEF Cast, AcceptedFresh, TypeInv, TypeOK, ServerOK
  <2>2. client_sockets[bi] \in Fd
    BY <1>2 DEF TypeInv, TypeOK, TableOK
  <2>3. fds[client_socket] # o
    BY <1>1, <1>2, <2>1, <2>2 DEF ConnOnce
  <2>. QED  BY <1>0, <1>4, <2>1, <2>3 DEF AcceptedFresh
<1>8. CutLeaves'
  BY <1>0 DEF Cast, CutLeaves
<1>9. InStep'
  <2>. SUFFICES ASSUME NEW i \in Slots, NEW c \in Conns, client_sockets[i] > 0,
                       fds[client_sockets[i]] = c, peer[c] = "up", got'[c] # <<>>
                PROVE  LastGot(c)' = IF i < bi + 1 THEN bn ELSE bn - 1
    BY <1>0 DEF InStep
  <2>1. i \in Nat
    BY Constants DEF Slots
  <2>2. CASE c = o
    BY <1>0, <1>2, <1>5, <2>1, <2>2
  <2>3. CASE c # o
    <3>1. got'[c] = got[c] /\ LastGot(c)' = LastGot(c)
      BY <1>4, <2>3 DEF LastGot
    <3>2. i # bi
      BY <1>1, <2>3
    <3>3. LastGot(c) = IF i < bi THEN bn ELSE bn - 1
      BY <1>3, <3>1 DEF Cast, InStep
    <3>. QED  BY <1>0, <2>1, <3>1, <3>2, <3>3
  <2>. QED  BY <2>2, <2>3
<1>. QED  BY <1>6, <1>7, <1>8, <1>9 DEF Cast

LEMMA CastSendShort ==
    ASSUME TypeInv, ConnOnce, StdinOpen, Cast, SendShort
    PROVE  Cast'
<1>0. /\ UNCHANGED <<fds, peer, client_sockets, client_socket, got, spc, fdset, bn, bi>>
      /\ bpc = "send" /\ bpc' = "lock"
  BY DEF SendShort, kernelVars, serverVars
<1>1. PICK o \in Conns : o = fds[client_sockets[bi]] /\ cut' = cut \cup {o}
  BY DEF SendShort
<1>2. /\ bi \in Slots /\ client_sockets[bi] > 0 /\ client_sockets[bi] \in Fd
      /\ \A i \in Slots : client_sockets[i] > 0 /\ fds[client_sockets[i]] = o => i = bi
  BY <1>0, <1>1, SendTarget
<1>3. \A i \in Slots : ~Emptied(i) /\ ~Emptied(i)'
  BY <1>0 DEF Emptied
<1>4. OneSlot' /\ PolledAll' /\ ClosedIsEmptied'
  BY <1>0, <1>3 DEF Cast, OneSlot, PolledAll, ClosedIsEmptied
<1>5. InStep'
  BY <1>0, <1>3 DEF Cast, InStep, LastGot
<1>6. CutLeaves'
  BY <1>0, <1>1, <1>2 DEF Cast, CutLeaves
<1>7. AcceptedFresh'
  <2>. SUFFICES ASSUME spc = "slot" PROVE AcceptedFresh'
    BY <1>0 DEF AcceptedFresh
  <2>1. /\ client_socket > 0 /\ fds[client_socket] \in Conns /\ client_socket \in Fd
        /\ got[fds[client_socket]] = <<>> /\ fds[client_socket] \notin cut
        /\ \A i \in Slots : client_sockets[i] # client_socket
    BY <1>3 DEF Cast, AcceptedFresh, TypeInv, TypeOK, ServerOK
  <2>2. fds[client_socket] # o
    BY <1>1, <1>2, <2>1 DEF ConnOnce
  <2>. QED  BY <1>0, <1>1, <2>1, <2>2 DEF AcceptedFresh
<1>. QED  BY <1>4, <1>5, <1>6, <1>7 DEF Cast

\* The caster closes a descriptor that no other slot and no accept() in progress
\* has, unless it finds 0 in the slot.
LEMMA CastDisconnectClose ==
    ASSUME TypeInv, StdinOpen, Cast, DisconnectClose, StdinOpen'
    PROVE  Cast'
<1>0. /\ UNCHANGED <<peer, client_sockets, client_socket, got, cut, spc, fdset, bn, bi>>
      /\ bpc = "close" /\ bpc' = "zero" /\ bi \in Slots /\ KernelOK /\ cut \subseteq Conns
      /\ \A i \in Slots : client_sockets[i] \in Fd
  BY DEF DisconnectClose, serverVars, TypeInv, TypeOK, TableOK, HistoryOK, CasterPlaces, CastingSlot
<1>1. PICK g \in Fd : g = client_sockets[bi]
  BY <1>0
<1>2. fds' = [fds EXCEPT ![g] = Closed]
  BY <1>1 DEF DisconnectClose, Close
<1>3. fds'[g] = Closed /\ \A f \in Fd : f # g => fds'[f] = fds[f]
  BY <1>0, <1>2 DEF KernelOK
<1>4. g > 0
  BY <1>3, Constants DEF StdinOpen, Fd
<1>5. \A i \in Slots : ~Emptied(i) /\ (Emptied(i)' <=> i = bi)
  BY <1>0 DEF Emptied
<1>6. \A i \in Slots : client_sockets[i] = g => i = bi
  BY <1>0, <1>1, <1>4, <1>5 DEF Cast, OneSlot
<1>7. OneSlot' /\ PolledAll'
  BY <1>0, <1>5 DEF Cast, OneSlot, PolledAll
<1>8. ClosedIsEmptied'
  BY <1>0, <1>3, <1>5, <1>6 DEF Cast, ClosedIsEmptied
<1>9. InStep'
  BY <1>0, <1>3, <1>5, <1>6 DEF Cast, InStep, LastGot
<1>10. CutLeaves'
  BY <1>0, <1>1, <1>3, Constants DEF Cast, CutLeaves
<1>11. AcceptedFresh'
  <2>. SUFFICES ASSUME spc = "slot" PROVE AcceptedFresh'
    BY <1>0 DEF AcceptedFresh
  <2>1. /\ client_socket > 0 /\ fds[client_socket] \in Conns /\ client_socket \in Fd
        /\ got[fds[client_socket]] = <<>> /\ fds[client_socket] \notin cut
        /\ \A i \in Slots : client_sockets[i] # client_socket
    BY <1>5 DEF Cast, AcceptedFresh, TypeInv, TypeOK, ServerOK
  <2>2. client_socket # g
    BY <1>0, <1>1, <2>1
  <2>. QED  BY <1>0, <1>3, <2>1, <2>2 DEF AcceptedFresh
<1>. QED  BY <1>7, <1>8, <1>9, <1>10, <1>11 DEF Cast

LEMMA CastDisconnectZero ==
    ASSUME TypeInv, Cast, DisconnectZero
    PROVE  Cast'
<1>0. /\ UNCHANGED <<fds, peer, client_socket, got, cut, spc, fdset, bn>>
      /\ client_sockets' = [client_sockets EXCEPT ![bi] = 0]
      /\ bpc = "zero" /\ bpc' = "check" /\ bi' = bi + 1 /\ bi \in Slots /\ TableOK
  BY DEF DisconnectZero, StoreDisconnected, kernelVars, serverVars, TypeInv, TypeOK, CasterPlaces,
         CastingSlot
<1>1. \A i \in Slots : client_sockets'[i] = IF i = bi THEN 0 ELSE client_sockets[i]
  BY <1>0 DEF TableOK
<1>2. \A i \in Slots : (Emptied(i) <=> i = bi) /\ ~Emptied(i)'
  BY <1>0 DEF Emptied
<1>3. OneSlot'
  BY <1>1, <1>2 DEF Cast, OneSlot
<1>4. AcceptedFresh'
  BY <1>0, <1>1, <1>2 DEF Cast, AcceptedFresh
<1>5. PolledAll'
  BY <1>0, <1>1 DEF Cast, PolledAll
<1>6. ClosedIsEmptied'
  BY <1>0, <1>1, <1>2 DEF Cast, ClosedIsEmptied
<1>7. CutLeaves'
  BY <1>0, <1>1 DEF Cast, CutLeaves
<1>8. InStep'
  <2>1. \A i \in Slots : i # bi => (i < bi + 1 <=> i < bi)
    BY <1>0, Constants DEF Slots
  <2>. QED  BY <1>0, <1>1, <1>2, <2>1 DEF Cast, InStep, LastGot
<1>. QED  BY <1>3, <1>4, <1>5, <1>6, <1>7, <1>8 DEF Cast

LEMMA CastClient ==
    ASSUME TypeInv, ConnOnce, Cast, NEW c \in Conns, Client(c)
    PROVE  Cast'
<1>0. /\ UNCHANGED <<fds, client_sockets, client_socket, got, cut, bn, bi, bpc, spc, fdset>>
      /\ KernelOK /\ \A i \in Slots : client_sockets[i] \in Fd
  BY DEF Client, Connect, ClientSend, ClientClose, Resume, serverVars, casterVars, TypeInv, TypeOK,
         TableOK
<1>1. \A i \in Slots : Emptied(i)' <=> Emptied(i)
  BY <1>0 DEF Emptied
<1>2. OneSlot' /\ AcceptedFresh' /\ PolledAll' /\ ClosedIsEmptied' /\ CutLeaves'
  BY <1>0, <1>1 DEF Cast, OneSlot, AcceptedFresh, PolledAll, ClosedIsEmptied, CutLeaves
<1>3. \A d \in Conns : peer'[d] = "up" => peer[d] = "up" \/ peer[d] = "new"
  BY <1>0 DEF Client, Connect, ClientSend, ClientClose, Resume, KernelOK
<1>4. InStep'
  BY <1>0, <1>1, <1>3 DEF Cast, InStep, LastGot, ConnOnce, Fresh
<1>. QED  BY <1>2, <1>4 DEF Cast

\* Descriptor 0, once closed, never stands for standard input again.
LEMMA StdinBefore ==
    ASSUME TypeInv, Next, StdinOpen'
    PROVE  StdinOpen
<1>0. KernelOK /\ TableOK
  BY DEF TypeInv, TypeOK
<1>1. CASE UNCHANGED fds
  BY <1>1 DEF StdinOpen
<1>2. CASE FindSlot \/ DropClose \/ DisconnectClose \/ Destroy
  <2>1. fds'[0] = fds[0] \/ fds'[0] = Closed
    BY <1>0, <1>2, ZeroIsFd DEF FindSlot, DropClose, DisconnectClose, Destroy, Close, KernelOK
  <2>. QED  BY <2>1, Constants DEF StdinOpen
<1>3. CASE Accept
  <2>1. Listener \in fdset => Head(backlog) \in Conns
    BY <1>0, <1>3 DEF Accept, KernelOK, TypeInv, ServerPlaces
  <2>2. fds'[0] = fds[0] \/ fds'[0] \in Conns
    BY <1>0, <1>3, <2>1, ZeroIsFd DEF Accept, KernelOK
  <2>. QED  BY <2>2, Constants DEF StdinOpen
<1>. QED
  BY <1>1, <1>2, <1>3 DEF Next, ServerThread, BuildSet, PollFor, Pselect, Scan, RecvCall,
     RecvData, RecvEof, DropZero, StoreDropped, EndData, EndIf, Caster, BroadcastCall, CheckSlot, FdSet,
     SelectCall, SelectReturn, SendAll, SendShort, SendFails, SigPipe, DisconnectLock, DisconnectZero,
     StoreDisconnected, Stopped, Client, Connect, ClientSend, ClientClose, Resume, vars, kernelVars

LEMMA CastNext == TypeInv /\ ConnOnce /\ CastInv /\ [Next]_vars => CastInv'
<1>1. ASSUME TypeInv, ConnOnce, CastInv, Next, spc' # Dead, StdinOpen'
      PROVE  Cast'
  <2>1. Cast /\ StdinOpen
    BY <1>1, DeadStays, StdinBefore DEF CastInv
  <2>2. ~SigPipe /\ ~Destroy
    BY <1>1 DEF SigPipe, Destroy
  <2>3. CASE Stopped
    BY <2>1, <2>3 DEF Stopped, vars, kernelVars, serverVars, casterVars, Cast, OneSlot, AcceptedFresh,
       PolledAll, ClosedIsEmptied, InStep, CutLeaves, Emptied, LastGot
  <2>. QED
    BY <1>1, <2>1, <2>2, <2>3, CastServerQuiet, CastAccept, CastFindSlot, CastServerDrop,
       CastCasterQuiet, CastLoop, CastSendAll, CastSendShort, CastDisconnectClose, CastDisconnectZero,
       CastClient DEF Next, ServerThread, Caster
<1>2. ASSUME CastInv, UNCHANGED vars
      PROVE  CastInv'
  BY <1>2 DEF vars, kernelVars, serverVars, casterVars, CastInv, StdinOpen, Cast, OneSlot,
     AcceptedFresh, PolledAll, ClosedIsEmptied, InStep, CutLeaves, Emptied, LastGot
<1>. QED  BY <1>1, <1>2 DEF CastInv

LEMMA CastInvariant == SafetySpec => []CastInv
<1>1. Init => CastInv
  BY CastInit DEF CastInv
<1>. QED  BY <1>1, CastNext, TypeInvariant, ConnInvariant, PTL DEF SafetySpec

\* The two threads end together.
DeadTogether == spc = Dead => bpc = Dead

LEMMA DeadInvariant == SafetySpec => []DeadTogether
<1>1. Init => DeadTogether
  BY DEF Init, DeadTogether, Dead
<1>2. DeadTogether /\ [Next]_vars => DeadTogether'
  BY DEF DeadTogether, Dead, Next, ServerThread, BuildSet, PollFor, Pselect, Accept, FindSlot, Scan,
       RecvCall, RecvData, RecvEof, DropClose, DropZero, StoreDropped, EndData, EndIf, Caster,
       BroadcastCall, CheckSlot, FdSet, SelectCall, SelectReturn, SendAll, SendShort, SendFails,
       SigPipe, DisconnectLock, DisconnectClose, DisconnectZero, StoreDisconnected, Destroy, Stopped,
       Client, Connect, ClientSend, ClientClose, Resume, serverVars, casterVars, vars
<1>. QED  BY <1>1, <1>2, PTL DEF SafetySpec

LEMMA GapNext ==
    TypeInv /\ ConnOnce /\ CastInv /\ DeadTogether /\ GapFree /\ [Next]_vars => GapFree'
<1>. SUFFICES ASSUME TypeInv, ConnOnce, CastInv, DeadTogether, GapFree, [Next]_vars, StdinOpen'
              PROVE  \A c \in Conns : Unbroken(c)'
  BY DEF GapFree
<1>1. StdinOpen
  BY StdinBefore DEF StdinOpen, vars, kernelVars
<1>2. CASE SendAll
  <2>0. StdinOpen /\ Cast /\ bpc = "send" /\ bn \in Nat /\ got \in [Conns -> Seq(1..MaxBroadcasts)]
    BY <1>1, <1>2, Constants DEF SendAll, CastInv, DeadTogether, Dead, TypeInv, TypeOK, CasterOK,
       HistoryOK
  <2>1. PICK o \in Conns : /\ o = fds[client_sockets[bi]]
                           /\ got' = IF peer[o] = "up" THEN [got EXCEPT ![o] = Append(@, bn)] ELSE got
    BY <1>2 DEF SendAll
  <2>2. \A c \in Conns : Unbroken(c)
    BY <2>0 DEF GapFree
  <2>3. CASE peer[o] # "up"
    BY <2>1, <2>2, <2>3 DEF Unbroken
  <2>4. CASE peer[o] = "up"
    <3>1. PICK q \in Seq(1..MaxBroadcasts) : q = got[o]
      BY <2>0
    <3>2. /\ got'[o] = Append(q, bn) /\ Len(Append(q, bn)) = Len(q) + 1 /\ Len(q) \in Nat
          /\ \A c \in Conns : c # o => got'[c] = got[c]
      BY <2>0, <2>1, <2>4, <3>1
    <3>3. q # <<>> => q[Len(q)] = bn - 1
      <4>1. bi \in Slots /\ client_sockets[bi] > 0
        BY <2>0, <2>1, SendTarget
      <4>2. ~Emptied(bi) /\ ~(bi < bi)
        BY <2>0, <4>1, Constants DEF Emptied, Slots
      <4>. QED  BY <2>0, <2>1, <2>4, <3>1, <4>1, <4>2 DEF Cast, InStep, LastGot
    <3>4. ASSUME NEW k \in 1..Len(q)
          PROVE  Append(q, bn)[k + 1] = Append(q, bn)[k] + 1
      <4>1. CASE k = Len(q)
        <5>1. q # <<>> /\ Append(q, bn)[k + 1] = bn /\ Append(q, bn)[k] = q[k]
          BY <2>0, <3>4, <4>1
        <5>. QED  BY <2>0, <3>3, <4>1, <5>1
      <4>2. CASE k < Len(q)
        <5>1. Append(q, bn)[k + 1] = q[k + 1] /\ Append(q, bn)[k] = q[k] /\ k \in 1..Len(q) - 1
          BY <3>4, <4>2
        <5>2. q[k + 1] = q[k] + 1
          BY <2>2, <3>1, <5>1 DEF Unbroken
        <5>. QED  BY <5>1, <5>2
      <4>. QED  BY <3>4, <4>1, <4>2
    <3>5. Unbroken(o)'
      BY <3>2, <3>4 DEF Unbroken
    <3>. QED  BY <2>2, <3>2, <3>5 DEF Unbroken
  <2>. QED  BY <2>3, <2>4
<1>3. CASE ~SendAll
  <2>1. UNCHANGED got
    BY <1>3 DEF Next, ServerThread, BuildSet, PollFor, Pselect, Accept, FindSlot, Scan, RecvCall,
       RecvData, RecvEof, DropClose, DropZero, StoreDropped, EndData, EndIf, Caster, BroadcastCall,
       CheckSlot, FdSet, SelectCall, SelectReturn, SendShort, SendFails, SigPipe, DisconnectLock,
       DisconnectClose, DisconnectZero, StoreDisconnected, Destroy, Stopped, Client, Connect,
       ClientSend, ClientClose, Resume, casterVars, vars
  <2>. QED  BY <1>1, <2>1 DEF GapFree, Unbroken
<1>. QED  BY <1>2, <1>3

\* Every client of ns_server_broadcast receives an unbroken run of broadcasts,
\* with or without a data callback, however the drops of the two threads, the
\* reuse of slots and that of descriptor numbers interleave, as long as
\* descriptor 0 has not been closed.
THEOREM BroadcastsUnbroken == SafetySpec => []GapFree
<1>1. Init => GapFree
  <2>. SUFFICES ASSUME Init, NEW c \in Conns PROVE Unbroken(c)
    BY DEF GapFree
  <2>1. got[c] = <<>>
    BY DEF Init
  <2>. QED  BY <2>1 DEF Unbroken
<1>. QED  BY <1>1, GapNext, TypeInvariant, ConnInvariant, CastInvariant, DeadInvariant, PTL DEF SafetySpec

\* Without a data callback nothing ever closes descriptor 0, so that it holds of
\* every client for as long as the process runs.
THEOREM BroadcastsUnbrokenSimplex ==
    ASSUME ~Duplex
    PROVE  SafetySpec => [](spc # Dead => \A c \in Conns : Unbroken(c))
<1>1. SlotTable /\ GapFree => (spc # Dead => \A c \in Conns : Unbroken(c))
  BY DEF SlotTable, GapFree
<1>. QED  BY <1>1, SlotTableSimplex, BroadcastsUnbroken, PTL

\* After a short send() the client is sent nothing more: DISCONNECT closes its
\* descriptor, or the server thread has, before its slot comes up again.
THEOREM ShortIsLast == SafetySpec => NothingAfterShort
<1>1. TypeInv /\ ConnOnce /\ CastInv /\ DeadTogether /\ [Next]_vars
        => [StdinOpen => \A c \in cut : got'[c] = got[c]]_vars
  <2>. SUFFICES ASSUME TypeInv, ConnOnce, CastInv, DeadTogether, Next, StdinOpen, NEW c \in cut
                PROVE  got'[c] = got[c]
    OBVIOUS
  <2>1. CASE SendAll
    <3>0. Cast /\ bpc = "send" /\ got \in [Conns -> Seq(1..MaxBroadcasts)] /\ cut \subseteq Conns
      BY <2>1 DEF SendAll, CastInv, DeadTogether, Dead, TypeInv, TypeOK, HistoryOK
    <3>1. PICK o \in Conns : /\ o = fds[client_sockets[bi]]
                             /\ got' = IF peer[o] = "up" THEN [got EXCEPT ![o] = Append(@, bn)] ELSE got
      BY <2>1 DEF SendAll
    <3>2. bi \in Slots /\ client_sockets[bi] > 0
      BY <3>0, <3>1, SendTarget
    <3>3. o \notin cut
      BY <3>0, <3>1, <3>2 DEF Cast, CutLeaves
    <3>. QED  BY <3>0, <3>1, <3>3
  <2>2. CASE ~SendAll
    BY <2>2 DEF Next, ServerThread, BuildSet, PollFor, Pselect, Accept, FindSlot, Scan, RecvCall,
       RecvData, RecvEof, DropClose, DropZero, StoreDropped, EndData, EndIf, Caster, BroadcastCall,
       CheckSlot, FdSet, SelectCall, SelectReturn, SendShort, SendFails, SigPipe, DisconnectLock,
       DisconnectClose, DisconnectZero, StoreDisconnected, Destroy, Stopped, Client, Connect,
       ClientSend, ClientClose, Resume, casterVars, vars
  <2>. QED  BY <2>1, <2>2
<1>. QED  BY <1>1, TypeInvariant, ConnInvariant, CastInvariant, DeadInvariant, PTL
          DEF SafetySpec, NothingAfterShort
=============================================================================
