---------------------------- MODULE LinkedBuffer ----------------------------
(***************************************************************************)
(* src/datastuff/linkedbuffer.c: a byte FIFO kept in a singly linked list  *)
(* of fixed-capacity nodes.  A push fills the tail node and then appends   *)
(* nodes; a pop empties nodes from the head and frees them.                *)
(*                                                                         *)
(* A call is a sequence of steps: one for the straight-line part and one   *)
(* per loop iteration.  Callers serialise the calls (netaud holds          *)
(* client_data_mutex around each), so at most one is in progress.          *)
(*                                                                         *)
(* Node addresses are allocation numbers (never reused, so a stale pointer *)
(* cannot pass for a valid one); NULL is 0.  A byte is the position it has *)
(* in the stream of bytes pushed; 0 is memory never written.               *)
(***************************************************************************)
EXTENDS Integers, Sequences

CONSTANTS Capacity,        \* DS_LINKED_BUFFER_NODE_CAPACITY
          GarbageOffsets,  \* what node->offset may hold after malloc()
          MaxBytes,        \* bound: bytes pushed in one behaviour
          MaxRequest       \* bound: the size argument of one call

ASSUME LinkedBufferAssumption ==
    /\ Capacity \in Nat \ {0}
    /\ GarbageOffsets \subseteq Nat /\ GarbageOffsets # {}
    /\ MaxBytes \in Nat
    /\ MaxRequest \in Nat

VARIABLES heap,       \* the allocated nodes, by address
          head, tail, \* buffer->head, buffer->tail
          nodes,      \* buffer->nodes
          brk,        \* the last address malloc() returned
          pc,         \* where the call in progress is
          node,       \* its cursor
          remaining,  \* remaining_data_size
          out,        \* bytes the pop in progress has copied out
          stored,     \* bytes copied into nodes so far (history)
          delivered   \* bytes returned by all finished pops (history)

listVars == <<heap, head, tail, nodes, brk>>
vars == <<heap, head, tail, nodes, brk, pc, node, remaining, out, stored, delivered>>

NULL == 0
Cells == 0 .. Capacity - 1

Min2(a, b) == IF a < b THEN a ELSE b

\* The n stream positions that follow position a.
Run(a, n) == [j \in 1..n |-> a + j]

\* ds_linked_buffer_node_t
Node(data, size, offset, next) ==
    [data |-> data, size |-> size, offset |-> offset, next |-> next]

Unwritten == [k \in Cells |-> 0]

\* memcpy of the next n bytes of the stream to the cells from `at' on.
Copied(data, at, n) ==
    [k \in Cells |-> IF at <= k /\ k < at + n THEN stored + 1 + k - at ELSE data[k]]

\* Mutant of Room: the cells freed by pops are counted as room.
RoomIgnoresOffset(n) == Capacity - n.size

\* node->data has this many cells after the live bytes.
Room(n) == Capacity - (n.offset + n.size)

\* "Buffer is empty".
Empty == nodes = 1 /\ heap[head].size = 0

\* ds_linked_buffer_size: the sum of the sizes along the list.
ds_linked_buffer_size ==
    LET sizeFrom[a \in DOMAIN heap \cup {NULL}] ==
          IF a = NULL THEN 0 ELSE heap[a].size + sizeFrom[heap[a].next]
    IN  sizeFrom[head]

-----------------------------------------------------------------------------
\* ds_linked_buffer_init: one empty node.  Its offset is never assigned.
Init ==
    /\ \E o \in GarbageOffsets : heap = [a \in {1} |-> Node(Unwritten, 0, o, NULL)]
    /\ head = 1 /\ tail = 1 /\ nodes = 1 /\ brk = 1
    /\ pc = "idle" /\ node = NULL /\ remaining = 0 /\ out = <<>>
    /\ stored = 0 /\ delivered = <<>>

\* ds_linked_buffer_push(size), up to "Find the last node".  (size = 0 returns
\* at once and changes nothing.)
PushCall(size) ==
    /\ pc = "idle"
    /\ stored + size <= MaxBytes
    /\ pc' = "push_tail"
    /\ node' = tail
    /\ remaining' = size
    /\ UNCHANGED <<heap, head, tail, nodes, brk, out, stored, delivered>>

\* Mutant of PushTail: the tail node takes all the data.
PushTailOverfills ==
    /\ pc = "push_tail"
    /\ pc' = "push_loop"
    /\ heap' = [heap EXCEPT ![node].size = @ + remaining]
    /\ remaining' = 0
    /\ stored' = stored + remaining
    /\ UNCHANGED <<head, tail, nodes, brk, node, out, delivered>>

\* Mutant of PushTail: it is repeated until no data remains.
PushTailRepeats ==
    /\ pc = "push_tail"
    /\ LET n    == heap[node]
           size == Min2(remaining, Room(n))
       IN  IF Room(n) > 0
           THEN /\ heap' = [heap EXCEPT ![node] =
                              Node(Copied(n.data, n.offset + n.size, size),
                                   n.size + size, n.offset, n.next)]
                /\ remaining' = remaining - size
                /\ stored' = stored + size
           ELSE UNCHANGED <<heap, remaining, stored>>
    /\ pc' = IF remaining' = 0 THEN "push_loop" ELSE "push_tail"
    /\ UNCHANGED <<head, tail, nodes, brk, node, out, delivered>>

\* "If the last node is not full, copy data to it until it is".
PushTail ==
    /\ pc = "push_tail"
    /\ pc' = "push_loop"
    /\ LET n    == heap[node]
           size == Min2(remaining, Room(n))
       IN  IF Room(n) > 0
           THEN /\ heap' = [heap EXCEPT ![node] =
                              Node(Copied(n.data, n.offset + n.size, size),
                                   n.size + size, n.offset, n.next)]
                /\ remaining' = remaining - size
                /\ stored' = stored + size
           ELSE UNCHANGED <<heap, remaining, stored>>
    /\ UNCHANGED <<head, tail, nodes, brk, node, out, delivered>>

\* One iteration of "Create new nodes and copy data into them".
PushNode ==
    /\ pc = "push_loop"
    /\ remaining > 0
    /\ LET new  == brk + 1
           size == Min2(remaining, Capacity)
       IN  /\ heap' = [a \in DOMAIN heap \cup {new} |->
                         IF a = new THEN Node(Copied(Unwritten, 0, size), size, 0, NULL)
                         ELSE IF a = node
                              THEN Node(heap[a].data, heap[a].size, heap[a].offset, new)
                         ELSE heap[a]]
           /\ brk' = new
           /\ node' = new
           /\ tail' = new
           /\ nodes' = nodes + 1
           /\ remaining' = remaining - size
           /\ stored' = stored + size
    /\ UNCHANGED <<pc, head, out, delivered>>

PushReturn ==
    /\ pc = "push_loop"
    /\ remaining = 0
    /\ pc' = "idle"
    /\ UNCHANGED <<heap, head, tail, nodes, brk, node, remaining, out, stored, delivered>>

\* ds_linked_buffer_pop(size), past its early returns: size = 0 and the empty
\* buffer return 0 and change nothing.
PopCall(size) ==
    /\ pc = "idle"
    /\ ~Empty
    /\ pc' = "pop_loop"
    /\ node' = head
    /\ remaining' = size
    /\ out' = <<>>
    /\ UNCHANGED <<heap, head, tail, nodes, brk, stored, delivered>>

\* Mutant of Taken: the offset of a partly popped node is ignored.
TakenFromStart(n, size) == [j \in 1..size |-> n.data[j - 1]]

\* The bytes one iteration copies out of node n.
Taken(n, size) == [j \in 1..size |-> n.data[n.offset + j - 1]]

\* Mutant of PopNode: a node that keeps data is shrunk by its offset alone.
PopKeepsSize ==
    /\ pc = "pop_loop"
    /\ node # NULL /\ remaining > 0
    /\ LET n    == heap[node]
           size == Min2(n.size, remaining)
       IN  /\ out' = out \o Taken(n, size)
           /\ remaining' = remaining - size
           /\ IF size < n.size
              THEN /\ heap' = [heap EXCEPT ![node].offset = @ + size]
                   /\ UNCHANGED <<node, head, nodes>>
              ELSE /\ heap' = [a \in DOMAIN heap \ {node} |-> heap[a]]
                   /\ node' = n.next
                   /\ head' = n.next
                   /\ nodes' = nodes - 1
    /\ UNCHANGED <<pc, tail, brk, stored, delivered>>

\* Mutant of PopNode: the offset of a node that keeps data is not advanced.
PopKeepsOffset ==
    /\ pc = "pop_loop"
    /\ node # NULL /\ remaining > 0
    /\ LET n    == heap[node]
           size == Min2(n.size, remaining)
       IN  /\ out' = out \o Taken(n, size)
           /\ remaining' = remaining - size
           /\ IF size < n.size
              THEN /\ heap' = [heap EXCEPT ![node].size = @ - size]
                   /\ UNCHANGED <<node, head, nodes>>
              ELSE /\ heap' = [a \in DOMAIN heap \ {node} |-> heap[a]]
                   /\ node' = n.next
                   /\ head' = n.next
                   /\ nodes' = nodes - 1
    /\ UNCHANGED <<pc, tail, brk, stored, delivered>>

\* One iteration: take what is there, then shrink the node or free it.
PopNode ==
    /\ pc = "pop_loop"
    /\ node # NULL /\ remaining > 0
    /\ LET n    == heap[node]
           size == Min2(n.size, remaining)
       IN  /\ out' = out \o Taken(n, size)
           /\ remaining' = remaining - size
           /\ IF size < n.size
              THEN /\ heap' = [heap EXCEPT ![node] =
                                 Node(n.data, n.size - size, n.offset + size, n.next)]
                   /\ UNCHANGED <<node, head, nodes>>
              ELSE /\ heap' = [a \in DOMAIN heap \ {node} |-> heap[a]]
                   /\ node' = n.next
                   /\ head' = n.next
                   /\ nodes' = nodes - 1
    /\ UNCHANGED <<pc, tail, brk, stored, delivered>>

\* Mutant of PopReturn: an emptied buffer is left without a node.
PopLeavesNothing ==
    /\ pc = "pop_loop"
    /\ node = NULL \/ remaining = 0
    /\ pc' = "idle"
    /\ delivered' = delivered \o out
    /\ out' = <<>>
    /\ UNCHANGED <<heap, head, tail, nodes, brk, node, remaining, stored>>

\* After the loop: an emptied buffer is initialised anew.
PopReturn ==
    /\ pc = "pop_loop"
    /\ node = NULL \/ remaining = 0
    /\ pc' = "idle"
    /\ delivered' = delivered \o out
    /\ out' = <<>>
    /\ IF nodes = 0
       THEN /\ \E o \in GarbageOffsets :
                  heap' = [a \in DOMAIN heap \cup {brk + 1} |->
                             IF a = brk + 1 THEN Node(Unwritten, 0, o, NULL) ELSE heap[a]]
            /\ brk' = brk + 1
            /\ head' = brk + 1 /\ tail' = brk + 1
            /\ nodes' = 1
       ELSE UNCHANGED listVars
    /\ UNCHANGED <<node, remaining, stored>>

\* malloc() fails: exit(EXIT_FAILURE).
OutOfMemory ==
    /\ \/ pc = "push_loop" /\ remaining > 0
       \/ pc = "pop_loop" /\ (node = NULL \/ remaining = 0) /\ nodes = 0
    /\ pc' = "exit"
    /\ UNCHANGED <<heap, head, tail, nodes, brk, node, remaining, out, stored, delivered>>

\* The early returns of pop (nothing asked for, nothing there) change nothing.
PopNothing ==
    /\ pc = "idle"
    /\ Empty
    /\ UNCHANGED vars

\* The process is gone.
Exited ==
    /\ pc = "exit"
    /\ UNCHANGED vars

Call == \E size \in 1..MaxRequest : PushCall(size) \/ PopCall(size)
Step == PushTail \/ PushNode \/ PushReturn \/ PopNode \/ PopReturn

Next == Call \/ Step \/ OutOfMemory \/ PopNothing \/ Exited

\* A call that was entered runs to its end: it waits for nothing.
Spec == Init /\ [][Next]_vars /\ WF_vars(Step)

-----------------------------------------------------------------------------
(***************************************************************************)
(* Properties                                                              *)
(***************************************************************************)
NodeType == [data : [Cells -> 0..MaxBytes], size : 0..Capacity, offset : Nat, next : Nat]

\* The fields of ds_linked_buffer_t and of its nodes, and the call's locals,
\* stay in their types.
TypeOK ==
    /\ heap \in [DOMAIN heap -> NodeType]
    /\ DOMAIN heap \subseteq 1..brk
    /\ head \in Nat /\ tail \in Nat /\ nodes \in Nat /\ brk \in Nat /\ node \in Nat
    /\ pc \in {"idle", "push_tail", "push_loop", "pop_loop", "exit"}
    /\ remaining \in Nat
    /\ out \in Seq(Nat) /\ delivered \in Seq(Nat)
    /\ stored \in 0..MaxBytes

\* buffer->head, buffer->tail, buffer->nodes and the next pointers agree at
\* every step of push and pop: the allocated nodes are exactly the chain from
\* head to tail (none leaked, none used after free()), the tail is the node
\* allocated last, and a buffer without nodes exists only inside a pop.
ListWellFormed ==
    IF nodes = 0
    THEN DOMAIN heap = {} /\ head = NULL /\ pc \in {"pop_loop", "exit"}
    ELSE /\ DOMAIN heap = head..tail
         /\ nodes = 1 + tail - head
         /\ tail \in DOMAIN heap /\ tail = brk
         /\ \A a \in DOMAIN heap : heap[a].next = IF a = tail THEN NULL ELSE a + 1

\* No memcpy of push or pop runs past node->data, whatever value malloc() left
\* in the offset of the initial node.
LiveCellsInNode ==
    \A a \in DOMAIN heap : heap[a].size > 0 => heap[a].offset + heap[a].size <= Capacity

\* Byte j of the live bytes of node a.
Live(a, j) == heap[a].data[heap[a].offset + j]

\* The number of bytes taken off the list so far.
Popped == Len(delivered) + Len(out)

\* The list holds exactly the bytes stored and not yet taken off, in stream
\* order, at every step of push and pop and wherever a call splits a node: each
\* node's live bytes are consecutive, each node continues the one before it,
\* the first live byte follows the last one popped and the last one is the last
\* one stored.  Only the head may be empty.
ContentInOrder ==
    /\ \A a \in DOMAIN heap : \A j \in 0 .. heap[a].size - 1 :
          Live(a, j) = Live(a, 0) + j /\ Live(a, j) <= stored
    /\ \A a \in DOMAIN heap : a # head => heap[a].size > 0
    /\ \A a \in DOMAIN heap : heap[a].size > 0 /\ a # tail
                               => Live(a + 1, 0) = Live(a, 0) + heap[a].size
    /\ nodes = 0 => stored = Popped
    /\ nodes # 0 =>
         /\ heap[head].size > 0 => Live(head, 0) = Popped + 1
         /\ heap[head].size = 0 /\ head # tail => Live(head + 1, 0) = Popped + 1
         /\ IF heap[tail].size > 0 THEN Live(tail, 0) + heap[tail].size = stored + 1
            ELSE stored = Popped

\* What pops have returned, and what the pop in progress has copied, are the
\* next bytes of the stream: none lost, repeated or swapped.
PoppedInOrder ==
    /\ delivered = Run(0, Len(delivered))
    /\ out = Run(Len(delivered), Len(out))
    /\ Popped <= stored

\* The locals of the call in progress: a push works on the tail and fits in the
\* bound, a pop works on the head and has copied what it no longer asks for.
CallInProgress ==
    /\ pc \in {"push_tail", "push_loop"} =>
          nodes # 0 /\ node = tail /\ stored + remaining <= MaxBytes
    /\ pc = "pop_loop" => node = head /\ Len(out) + remaining \in 1..MaxRequest
    /\ pc \notin {"pop_loop", "exit"} => out = <<>>

\* The inductive invariant of push and pop: the list is well formed, holds the
\* right bytes in bounds, and the call in progress stands where it should.
ListInv ==
    /\ TypeOK /\ ListWellFormed /\ LiveCellsInNode
    /\ ContentInOrder /\ PoppedInOrder /\ CallInProgress

\* ds_linked_buffer_size() between calls: the bytes pushed and not yet popped.
SizeIsBacklog == pc = "idle" => ds_linked_buffer_size = stored - Len(delivered)

\* A push is still to store the bytes in `remaining'.
InPush == pc \in {"push_tail", "push_loop"} \/ (pc = "exit" /\ nodes # 0)

\* The list of nodes implements a FIFO of bytes: a push takes effect when it
\* is called, a pop when it returns.
Fifo == INSTANCE ByteFifo
            WITH accepted <- IF InPush THEN stored + remaining ELSE stored

ImplementsFifo == Fifo!FifoSpec

\* The loops of push and pop end.
CallsReturn == pc # "idle" ~> pc \in {"idle", "exit"}
=============================================================================
