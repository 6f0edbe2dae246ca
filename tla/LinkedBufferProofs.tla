------------------------- MODULE LinkedBufferProofs -------------------------
(***************************************************************************)
(* ListInv is an invariant of LinkedBuffer, for every node capacity, every *)
(* request size and every value malloc() may leave in a node's offset; and *)
(* the list implements ByteFifo.                                           *)
(***************************************************************************)
EXTENDS LinkedBuffer, SequenceTheorems, Induction, TLAPS

USE LinkedBufferAssumption

-----------------------------------------------------------------------------
\* Init establishes the invariant: ds_linked_buffer_init leaves one empty node.
LEMMA InitInv == Init => ListInv
<1> SUFFICES ASSUME Init PROVE ListInv
    OBVIOUS
<1> USE DEF Init
<1>1. PICK o \in GarbageOffsets : heap = [a \in {1} |-> Node(Unwritten, 0, o, NULL)]
      OBVIOUS
<1>2. DOMAIN heap = {1} /\ heap[1].size = 0 /\ heap[1].next = NULL
      BY <1>1 DEF Node
<1>3. TypeOK
  <2>1. Unwritten \in [Cells -> 0..MaxBytes]
        BY DEF Unwritten
  <2>2. heap[1] \in NodeType
        BY <1>1, <2>1 DEF Node, NodeType, NULL
  <2> QED BY <1>1, <1>2, <2>2 DEF TypeOK, NULL
<1>4. ListWellFormed
      BY <1>2 DEF ListWellFormed
<1>5. LiveCellsInNode
      BY <1>2 DEF LiveCellsInNode
<1>6. ContentInOrder
      BY <1>2 DEF ContentInOrder, Popped
<1>7. PoppedInOrder
      BY DEF PoppedInOrder, Run, Popped
<1>8. CallInProgress
      BY DEF CallInProgress
<1> QED BY <1>3, <1>4, <1>5, <1>6, <1>7, <1>8 DEF ListInv

-----------------------------------------------------------------------------
(***************************************************************************)
(* Steps that leave the list alone                                         *)
(***************************************************************************)
\* The list's own invariants do not mention the program counter, the cursor or
\* the size asked for.
LEMMA ListUntouched ==
    ASSUME ListInv, UNCHANGED <<heap, head, tail, nodes, brk, stored, delivered>>,
           Len(out') = Len(out)
    PROVE  LiveCellsInNode' /\ ContentInOrder'
<1>1. Popped' = Popped
      BY DEF Popped
<1>2. LiveCellsInNode'
      BY DEF ListInv, LiveCellsInNode
<1>3. ContentInOrder'
      BY <1>1 DEF ListInv, ContentInOrder, Live
<1> QED BY <1>2, <1>3

\* Entering a push.
LEMMA PushCallInv ==
    ASSUME ListInv, NEW size \in 1..MaxRequest, PushCall(size)
    PROVE  ListInv'
<1> USE DEF PushCall
<1>1. TypeOK'
      BY DEF ListInv, TypeOK
<1>2. ListWellFormed'
      BY DEF ListInv, ListWellFormed
<1>3. LiveCellsInNode' /\ ContentInOrder'
      BY ListUntouched
<1>4. PoppedInOrder'
      BY DEF ListInv, PoppedInOrder, Popped
<1>5. CallInProgress'
      BY DEF ListInv, CallInProgress, ListWellFormed
<1> QED BY <1>1, <1>2, <1>3, <1>4, <1>5 DEF ListInv

\* Leaving a push.
LEMMA PushReturnInv ==
    ASSUME ListInv, PushReturn
    PROVE  ListInv'
<1> USE DEF PushReturn
<1>1. TypeOK'
      BY DEF ListInv, TypeOK
<1>2. ListWellFormed'
      BY DEF ListInv, ListWellFormed
<1>3. LiveCellsInNode' /\ ContentInOrder'
      BY ListUntouched
<1>4. PoppedInOrder'
      BY DEF ListInv, PoppedInOrder, Popped
<1>5. CallInProgress'
      BY DEF ListInv, CallInProgress
<1> QED BY <1>1, <1>2, <1>3, <1>4, <1>5 DEF ListInv

\* Entering a pop.
LEMMA PopCallInv ==
    ASSUME ListInv, NEW size \in 1..MaxRequest, PopCall(size)
    PROVE  ListInv'
<1> USE DEF PopCall
<1>0. out = <<>> /\ nodes # 0
      BY DEF ListInv, CallInProgress, ListWellFormed
<1>1. TypeOK'
      BY DEF ListInv, TypeOK
<1>2. ListWellFormed'
      BY <1>0 DEF ListInv, ListWellFormed
<1>3. LiveCellsInNode' /\ ContentInOrder'
      BY <1>0, ListUntouched
<1>4. PoppedInOrder'
      BY <1>0 DEF ListInv, PoppedInOrder, Popped
<1>5. CallInProgress'
      BY <1>0 DEF ListInv, CallInProgress
<1> QED BY <1>1, <1>2, <1>3, <1>4, <1>5 DEF ListInv

\* malloc() failed in the middle of a call.
LEMMA OutOfMemoryInv ==
    ASSUME ListInv, OutOfMemory
    PROVE  ListInv'
<1> USE DEF OutOfMemory
<1>1. TypeOK'
      BY DEF ListInv, TypeOK
<1>2. ListWellFormed'
      BY DEF ListInv, ListWellFormed
<1>3. LiveCellsInNode' /\ ContentInOrder'
      BY ListUntouched
<1>4. PoppedInOrder'
      BY DEF ListInv, PoppedInOrder, Popped
<1>5. CallInProgress'
      BY DEF ListInv, CallInProgress
<1> QED BY <1>1, <1>2, <1>3, <1>4, <1>5 DEF ListInv

-----------------------------------------------------------------------------
(***************************************************************************)
(* Push                                                                    *)
(***************************************************************************)
\* memcpy writes exactly the n cells it is asked to, with the next n bytes.
LEMMA CopiedType ==
    ASSUME NEW data \in [Cells -> 0..MaxBytes], NEW at \in Nat, NEW n \in Nat,
           stored \in Nat, stored + n <= MaxBytes
    PROVE  /\ Copied(data, at, n) \in [Cells -> 0..MaxBytes]
           /\ \A k \in Cells : at <= k /\ k < at + n
                                 => Copied(data, at, n)[k] = stored + 1 + k - at
           /\ \A k \in Cells : ~(at <= k /\ k < at + n) => Copied(data, at, n)[k] = data[k]
BY DEF Copied, Cells

\* Live byte j of a node value.
Byte(n, j) == n.data[n.offset + j]

\* The live bytes of a node m that is node n with `size' more bytes at its end.
LEMMA FilledNode ==
    ASSUME NEW n \in NodeType, NEW size \in Nat, stored \in Nat,
           stored + size <= MaxBytes, n.offset + n.size + size <= Capacity,
           NEW m, m = Node(Copied(n.data, n.offset + n.size, size), n.size + size,
                           n.offset, n.next)
    PROVE  /\ m \in NodeType
           /\ m.size = n.size + size /\ m.offset = n.offset /\ m.next = n.next
           /\ \A j \in 0 .. n.size - 1 : Byte(m, j) = Byte(n, j)
           /\ \A j \in n.size .. n.size + size - 1 : Byte(m, j) = stored + 1 + j - n.size
<1> DEFINE at == n.offset + n.size
           d == Copied(n.data, at, size)
<1>0. n.offset \in Nat /\ n.size \in Nat /\ n.size <= Capacity
      BY DEF NodeType
<1>1. n.data \in [Cells -> 0..MaxBytes] /\ n.next \in Nat /\ at \in Nat
      BY <1>0 DEF NodeType
<1>2. /\ d \in [Cells -> 0..MaxBytes]
      /\ \A k \in Cells : at <= k /\ k < at + size => d[k] = stored + 1 + k - at
      /\ \A k \in Cells : ~(at <= k /\ k < at + size) => d[k] = n.data[k]
      BY <1>1, CopiedType
<1> HIDE DEF d
<1>3. m.data = d /\ m.size = n.size + size /\ m.offset = n.offset /\ m.next = n.next
      BY DEF Node, d
<1>4. m \in NodeType
  <2>1. n.size + size \in 0..Capacity
        BY <1>0
  <2> QED BY <1>0, <1>1, <1>2, <2>1 DEF NodeType, Node, d
<1>5. ASSUME NEW j \in 0 .. n.size - 1
      PROVE  Byte(m, j) = Byte(n, j)
  <2>1. n.offset + j \in Cells /\ ~(at <= n.offset + j)
        BY <1>0 DEF Cells
  <2>2. d[n.offset + j] = n.data[n.offset + j]
        BY <1>2, <2>1
  <2> QED BY <1>3, <2>2 DEF Byte
<1>6. ASSUME NEW j \in n.size .. n.size + size - 1
      PROVE  Byte(m, j) = stored + 1 + j - n.size
  <2>1. n.offset + j \in Cells /\ at <= n.offset + j /\ n.offset + j < at + size
        BY <1>0 DEF Cells
  <2>2. d[n.offset + j] = stored + 1 + (n.offset + j) - at
        BY <1>2, <2>1
  <2> QED BY <1>0, <1>3, <2>2 DEF Byte
<1> QED BY <1>3, <1>4, <1>5, <1>6

\* A live byte is a cell of its node.
LEMMA LiveByteNat ==
    ASSUME ListInv, NEW a \in DOMAIN heap, NEW j \in 0 .. heap[a].size - 1
    PROVE  Live(a, j) \in Nat
<1>0. PICK n : n = heap[a]
      OBVIOUS
<1>1. n \in NodeType
      BY <1>0 DEF ListInv, TypeOK
<1>2. /\ n.offset \in Nat /\ n.size \in Nat
      /\ n.data \in [Cells -> 0..MaxBytes]
      BY <1>1 DEF NodeType
<1>3. j \in Nat /\ j < n.size
      BY <1>0, <1>2
<1>4. n.offset + n.size <= Capacity
      BY <1>0, <1>2, <1>3 DEF ListInv, LiveCellsInNode
<1>5. n.offset + j \in Cells
      BY <1>2, <1>3, <1>4 DEF Cells
<1>6. n.data[n.offset + j] \in Nat
      BY <1>2, <1>5
<1> QED BY <1>0, <1>6 DEF Live

\* Filling up the tail node keeps the invariant.
LEMMA PushTailInv ==
    ASSUME ListInv, PushTail
    PROVE  ListInv'
<1> DEFINE n == heap[tail]
           size == Min2(remaining, Room(n))
<1>1. nodes # 0 /\ node = tail /\ stored + remaining <= MaxBytes
      BY DEF ListInv, CallInProgress, PushTail
<1>2. tail \in DOMAIN heap /\ n \in NodeType /\ DOMAIN heap = head..tail
      BY <1>1 DEF ListInv, ListWellFormed, TypeOK
<1>3. head \in Nat /\ tail \in Nat /\ remaining \in Nat /\ stored \in Nat
      BY DEF ListInv, TypeOK
<1>4. UNCHANGED <<head, tail, nodes, brk, node, out, delivered>> /\ pc' = "push_loop"
      BY DEF PushTail
<1>5. CASE ~(Room(n) > 0)
  <2>1. UNCHANGED <<heap, remaining, stored>>
        BY <1>1, <1>5 DEF PushTail
  <2>2. TypeOK'
        BY <1>4, <2>1 DEF ListInv, TypeOK
  <2>3. ListWellFormed'
        BY <1>1, <1>4, <2>1 DEF ListInv, ListWellFormed
  <2>4. LiveCellsInNode' /\ ContentInOrder'
        BY <1>4, <2>1, ListUntouched
  <2>5. PoppedInOrder'
        BY <1>4, <2>1 DEF ListInv, PoppedInOrder, Popped
  <2>6. CallInProgress'
        BY <1>1, <1>4, <2>1 DEF ListInv, CallInProgress, PushTail
  <2> QED BY <2>2, <2>3, <2>4, <2>5, <2>6 DEF ListInv
<1>6. CASE Room(n) > 0
  <2> DEFINE m == heap'[tail]
  <2>1. /\ heap' = [heap EXCEPT ![tail] = Node(Copied(n.data, n.offset + n.size, size),
                                               n.size + size, n.offset, n.next)]
        /\ remaining' = remaining - size
        /\ stored' = stored + size
        BY <1>1, <1>6 DEF PushTail
  <2>2. n.offset \in Nat /\ n.size \in 0..Capacity
        BY <1>2 DEF NodeType
  <2>3. size \in Nat /\ size <= remaining /\ n.offset + n.size + size <= Capacity
        BY <1>3, <1>6, <2>2 DEF Min2, Room
  <2>4. stored + size <= MaxBytes
        BY <1>1, <1>3, <2>3
  <2> HIDE DEF size
  <2>5. /\ m \in NodeType
        /\ m.size = n.size + size /\ m.offset = n.offset /\ m.next = n.next
        /\ \A j \in 0 .. n.size - 1 : Byte(m, j) = Byte(n, j)
        /\ \A j \in n.size .. n.size + size - 1 : Byte(m, j) = stored + 1 + j - n.size
    <3>1. m = Node(Copied(n.data, n.offset + n.size, size), n.size + size, n.offset, n.next)
          BY <1>2, <2>1
    <3> QED BY <1>2, <1>3, <2>3, <2>4, <3>1, FilledNode
  <2>6. DOMAIN heap' = DOMAIN heap /\ \A a \in DOMAIN heap : a # tail => heap'[a] = heap[a]
        BY <2>1
  <2>7. TypeOK'
    <3>1. heap' \in [DOMAIN heap' -> NodeType]
          BY <2>1, <2>5, <2>6 DEF ListInv, TypeOK
    <3>2. remaining' \in Nat /\ stored' \in 0..MaxBytes
          BY <1>3, <2>1, <2>3, <2>4
    <3> QED BY <1>4, <2>6, <3>1, <3>2 DEF ListInv, TypeOK
  <2>8. ListWellFormed'
        BY <1>1, <1>2, <1>4, <2>5, <2>6 DEF ListInv, ListWellFormed
  <2>9. LiveCellsInNode'
        BY <1>2, <2>2, <2>3, <2>5, <2>6 DEF ListInv, LiveCellsInNode
  <2>10. ContentInOrder'
    <3>1. \A a \in DOMAIN heap, j \in Nat : a # tail => Live(a, j)' = Live(a, j)
          BY <2>6 DEF Live
    <3>2. \A j \in Nat : Live(tail, j)' = Byte(m, j) /\ Live(tail, j) = Byte(n, j)
          BY <1>4 DEF Live, Byte
    <3>3. /\ \A j \in 0 .. n.size - 1 : Byte(n, j) = Byte(n, 0) + j /\ Byte(n, j) <= stored
          /\ n.size > 0 => Byte(n, 0) + n.size = stored + 1
          /\ n.size = 0 => stored = Popped /\ head = tail
          BY <1>1, <1>2, <2>2, <3>2 DEF ListInv, ContentInOrder
    <3>4. n.size > 0 => Byte(m, 0) = Byte(n, 0) /\ Byte(n, 0) \in Nat
      <4>1. n.size > 0 => n.offset \in Cells
            BY <1>2, <2>2, <2>3 DEF Cells
      <4>2. n.size > 0 => n.data[n.offset + 0] \in Nat
            BY <1>2, <2>2, <4>1 DEF NodeType
      <4> QED BY <2>2, <2>5, <4>2 DEF Byte
    <3>5. n.size = 0 /\ size > 0 => Byte(m, 0) = stored + 1
          BY <1>3, <2>2, <2>3, <2>5
    <3>6. \A j \in 0 .. m.size - 1 : Byte(m, j) = Byte(m, 0) + j /\ Byte(m, j) <= stored'
      <4> SUFFICES ASSUME NEW j \in 0 .. m.size - 1
                   PROVE  Byte(m, j) = Byte(m, 0) + j /\ Byte(m, j) <= stored'
          OBVIOUS
      <4>1. CASE j < n.size
            BY <1>3, <2>1, <2>2, <2>3, <2>5, <3>3, <3>4, <4>1
      <4>2. CASE ~(j < n.size)
            BY <1>3, <2>1, <2>2, <2>3, <2>5, <3>3, <3>4, <3>5, <4>2
      <4> QED BY <4>1, <4>2
    <3>7. m.size > 0 => Byte(m, 0) + m.size = stored' + 1
      <4>1. CASE n.size > 0
            BY <1>3, <2>1, <2>2, <2>3, <2>5, <3>3, <3>4, <4>1
      <4>2. CASE n.size = 0
            BY <1>3, <2>1, <2>3, <2>5, <3>5, <4>2
      <4> QED BY <2>2, <4>1, <4>2
    <3>8. Popped' = Popped /\ Popped \in Nat
          BY <1>4 DEF Popped, ListInv, TypeOK
    <3>9. \A a \in DOMAIN heap' : \A j \in 0 .. heap'[a].size - 1 :
             Live(a, j)' = Live(a, 0)' + j /\ Live(a, j)' <= stored'
      <4> SUFFICES ASSUME NEW a \in DOMAIN heap', NEW j \in 0 .. heap'[a].size - 1
                   PROVE  Live(a, j)' = Live(a, 0)' + j /\ Live(a, j)' <= stored'
          OBVIOUS
      <4>1. CASE a = tail
            BY <3>6, <4>1 DEF Live, Byte
      <4>2. CASE a # tail
        <5>1. a \in DOMAIN heap /\ heap'[a] = heap[a] /\ j \in Nat
              BY <2>6, <4>2
        <5>2. Live(a, j) = Live(a, 0) + j /\ Live(a, j) <= stored
              BY <5>1 DEF ListInv, ContentInOrder
        <5>3. Live(a, j)' = Live(a, j) /\ Live(a, 0)' = Live(a, 0)
              BY <3>1, <4>2, <5>1
        <5>4. Live(a, j) \in Nat
              BY <5>1, <5>2, LiveByteNat
        <5> QED BY <1>3, <2>1, <2>3, <5>2, <5>3, <5>4
      <4> QED BY <4>1, <4>2
    <3>10. \A a \in DOMAIN heap' : a # head' => heap'[a].size > 0
           BY <1>4, <2>2, <2>3, <2>5, <2>6, <3>3 DEF ListInv, ContentInOrder
    <3>11. \A a \in DOMAIN heap' : heap'[a].size > 0 /\ a # tail'
                                   => Live(a + 1, 0)' = Live(a, 0)' + heap'[a].size
      <4> SUFFICES ASSUME NEW a \in DOMAIN heap, heap[a].size > 0, a # tail
                   PROVE  Live(a + 1, 0)' = Live(a, 0)' + heap[a].size
          BY <1>4, <2>6
      <4>1. a + 1 \in DOMAIN heap /\ a + 1 # head
            BY <1>2, <1>3
      <4>2. Live(a + 1, 0) = Live(a, 0) + heap[a].size /\ heap[a + 1].size > 0
            BY <4>1 DEF ListInv, ContentInOrder
      <4>3. Live(a + 1, 0)' = Live(a + 1, 0)
        <5>1. CASE a + 1 = tail
              BY <3>4, <4>2, <5>1 DEF Live, Byte
        <5>2. CASE a + 1 # tail
              BY <3>1, <4>1, <5>2
        <5> QED BY <5>1, <5>2
      <4> QED BY <3>1, <4>2, <4>3
    <3>12. /\ heap'[head].size > 0 => Live(head, 0)' = Popped + 1
           /\ heap'[head].size = 0 /\ head # tail => Live(head + 1, 0)' = Popped + 1
      <4>1. CASE head = tail
        <5>1. n.size > 0 => Byte(n, 0) = Popped + 1
              BY <1>1, <3>2, <4>1 DEF ListInv, ContentInOrder
        <5>2. m.size > 0 => Byte(m, 0) = Popped + 1
              BY <2>2, <2>3, <2>5, <3>3, <3>4, <3>5, <5>1
        <5> QED BY <1>4, <3>2, <4>1, <5>2
      <4>2. CASE head # tail
        <5>1. head \in DOMAIN heap /\ heap'[head] = heap[head]
              BY <1>2, <1>3, <2>6, <4>2
        <5>2. head + 1 \in DOMAIN heap /\ head + 1 # head
              BY <1>2, <1>3, <4>2
        <5>3. heap[head + 1].size > 0
              BY <5>2 DEF ListInv, ContentInOrder
        <5>4. Live(head, 0)' = Live(head, 0) /\ Live(head + 1, 0)' = Live(head + 1, 0)
              BY <1>4, <2>6, <3>2, <3>4, <4>2, <5>1, <5>2, <5>3 DEF Live, Byte
        <5> QED BY <1>1, <4>2, <5>1, <5>4 DEF ListInv, ContentInOrder
      <4> QED BY <4>1, <4>2
    <3>13. IF m.size > 0 THEN Live(tail, 0)' + m.size = stored' + 1 ELSE stored' = Popped
      <4>1. m.size > 0 => Live(tail, 0)' + m.size = stored' + 1
            BY <3>2, <3>7
      <4>2. ~(m.size > 0) => n.size = 0 /\ size = 0
            BY <2>2, <2>3, <2>5
      <4>3. ~(m.size > 0) => stored' = Popped
            BY <1>3, <2>1, <3>3, <4>2
      <4> QED BY <4>1, <4>3
    <3> QED BY <1>1, <1>4, <3>8, <3>9, <3>10, <3>11, <3>12, <3>13 DEF ContentInOrder
  <2>11. PoppedInOrder'
        BY <1>3, <1>4, <2>1, <2>3 DEF ListInv, PoppedInOrder, Popped, TypeOK
  <2>12. CallInProgress'
        BY <1>1, <1>3, <1>4, <2>1, <2>3 DEF ListInv, CallInProgress, PushTail
  <2> QED BY <2>7, <2>8, <2>9, <2>10, <2>11, <2>12 DEF ListInv
<1> QED BY <1>5, <1>6

\* Appending a node keeps the invariant.
LEMMA PushNodeInv ==
    ASSUME ListInv, PushNode
    PROVE  ListInv'
<1>0. PICK new : new = brk + 1
      OBVIOUS
<1> DEFINE size == Min2(remaining, Capacity)
           fresh == Node(Unwritten, 0, 0, NULL)
           m == Node(Copied(Unwritten, 0, size), size, 0, NULL)
<1>1. nodes # 0 /\ node = tail /\ stored + remaining <= MaxBytes
      BY DEF ListInv, CallInProgress, PushNode
<1>2. tail \in DOMAIN heap /\ DOMAIN heap = head..tail /\ tail = brk
      BY <1>1 DEF ListInv, ListWellFormed
<1>3. /\ head \in Nat /\ tail \in Nat /\ remaining \in Nat /\ stored \in Nat /\ nodes \in Nat
      /\ brk \in Nat /\ heap \in [DOMAIN heap -> NodeType] /\ DOMAIN heap \subseteq 1..brk
      BY DEF ListInv, TypeOK
<1>4. UNCHANGED <<pc, head, out, delivered>> /\ pc = "push_loop" /\ remaining > 0
      BY DEF PushNode
<1>5. /\ heap' = [a \in DOMAIN heap \cup {new} |->
                    IF a = new THEN m
                    ELSE IF a = tail
                         THEN Node(heap[a].data, heap[a].size, heap[a].offset, new)
                    ELSE heap[a]]
      /\ brk' = new /\ node' = new /\ tail' = new /\ nodes' = nodes + 1
      /\ remaining' = remaining - size
      /\ stored' = stored + size
      BY <1>0, <1>1 DEF PushNode
<1>6. size \in Nat /\ size > 0 /\ size <= remaining /\ size <= Capacity
      BY <1>3, <1>4 DEF Min2
<1> HIDE DEF size
<1>7. stored + size <= MaxBytes
      BY <1>1, <1>3, <1>6
<1>8. m \in NodeType /\ m.size = size /\ m.offset = 0 /\ m.next = NULL
      /\ \A j \in 0 .. size - 1 : Byte(m, j) = stored + 1 + j
  <2>1. fresh \in NodeType /\ fresh.data = Unwritten /\ fresh.size = 0
        /\ fresh.offset = 0 /\ fresh.next = NULL
        BY DEF Node, NodeType, Unwritten, NULL
  <2>2. m = Node(Copied(fresh.data, fresh.offset + fresh.size, size),
                 fresh.size + size, fresh.offset, fresh.next)
        BY <1>6, <2>1
  <2> HIDE DEF fresh, m
  <2>3. /\ m \in NodeType
        /\ m.size = fresh.size + size /\ m.offset = fresh.offset /\ m.next = fresh.next
        /\ \A j \in fresh.size .. fresh.size + size - 1 :
              Byte(m, j) = stored + 1 + j - fresh.size
        BY <1>3, <1>6, <1>7, <2>1, <2>2, FilledNode
  <2> QED BY <1>3, <1>6, <2>1, <2>3
<1> HIDE DEF m
<1>9. /\ DOMAIN heap' = head'..tail' /\ DOMAIN heap' = DOMAIN heap \cup {new}
      /\ new \notin DOMAIN heap
      /\ heap'[new] = m
      BY <1>0, <1>2, <1>3, <1>4, <1>5
<1>10. \A a \in DOMAIN heap :
          /\ heap'[a] \in NodeType /\ heap'[a].data = heap[a].data
          /\ heap'[a].size = heap[a].size /\ heap'[a].offset = heap[a].offset
          /\ heap'[a].next = IF a = tail THEN new ELSE heap[a].next
  <2> SUFFICES ASSUME NEW a \in DOMAIN heap
               PROVE  /\ heap'[a] \in NodeType /\ heap'[a].data = heap[a].data
                      /\ heap'[a].size = heap[a].size /\ heap'[a].offset = heap[a].offset
                      /\ heap'[a].next = IF a = tail THEN new ELSE heap[a].next
      OBVIOUS
  <2>1. heap[a] \in NodeType /\ a # new
        BY <1>3, <1>9
  <2>2. heap'[a] = IF a = tail THEN Node(heap[a].data, heap[a].size, heap[a].offset, new)
                   ELSE heap[a]
        BY <1>5, <1>9, <2>1
  <2> QED BY <1>0, <1>3, <2>1, <2>2 DEF NodeType, Node
<1>11. TypeOK'
  <2>1. heap' \in [DOMAIN heap' -> NodeType]
    <3>1. \A a \in DOMAIN heap' : heap'[a] \in NodeType
          BY <1>8, <1>9, <1>10
    <3>2. heap' = [a \in DOMAIN heap' |-> heap'[a]]
          BY <1>5
    <3> QED BY <3>1, <3>2
  <2>2. DOMAIN heap' \subseteq 1..brk'
        BY <1>0, <1>3, <1>5, <1>9
  <2>3. remaining' \in Nat /\ stored' \in 0..MaxBytes
        BY <1>3, <1>5, <1>6, <1>7
  <2>4. brk' \in Nat /\ node' \in Nat /\ tail' \in Nat /\ nodes' \in Nat
        BY <1>0, <1>3, <1>5
  <2>5. head' \in Nat /\ pc' = "push_loop" /\ out' \in Seq(Nat) /\ delivered' \in Seq(Nat)
        BY <1>3, <1>4 DEF ListInv, TypeOK
  <2> QED BY <2>1, <2>2, <2>3, <2>4, <2>5 DEF TypeOK
<1>12. ListWellFormed'
  <2>1. nodes' # 0 /\ nodes' = 1 + tail' - head' /\ tail' \in DOMAIN heap' /\ tail' = brk'
    <3>1. nodes = 1 + tail - head
          BY <1>1 DEF ListInv, ListWellFormed
    <3> QED BY <1>0, <1>2, <1>3, <1>4, <1>5, <1>9, <3>1
  <2>2. \A a \in DOMAIN heap' : heap'[a].next = IF a = tail' THEN NULL ELSE a + 1
    <3> SUFFICES ASSUME NEW a \in DOMAIN heap'
                 PROVE  heap'[a].next = IF a = new THEN NULL ELSE a + 1
        BY <1>5
    <3>1. CASE a = new
          BY <1>8, <1>9, <3>1
    <3>2. CASE a # new
      <4>1. a \in DOMAIN heap
            BY <1>9, <3>2
      <4>2. heap[a].next = IF a = tail THEN NULL ELSE a + 1
            BY <1>1, <4>1 DEF ListInv, ListWellFormed
      <4> QED BY <1>0, <1>2, <1>10, <3>2, <4>1, <4>2
    <3> QED BY <3>1, <3>2
  <2> QED BY <1>9, <2>1, <2>2 DEF ListWellFormed
<1>13. LiveCellsInNode'
  <2> SUFFICES ASSUME NEW a \in DOMAIN heap', heap'[a].size > 0
               PROVE  heap'[a].offset + heap'[a].size <= Capacity
      BY DEF LiveCellsInNode
  <2>1. CASE a = new
        BY <1>6, <1>8, <1>9, <2>1
  <2>2. CASE a # new
        BY <1>9, <1>10, <2>2 DEF ListInv, LiveCellsInNode
  <2> QED BY <2>1, <2>2
<1>14. ContentInOrder'
  <2>1. \A a \in DOMAIN heap, j \in Nat : Live(a, j)' = Live(a, j)
        BY <1>10 DEF Live
  <2>2. \A j \in 0 .. size - 1 : Live(new, j)' = stored + 1 + j
        BY <1>8, <1>9 DEF Live, Byte
  <2>3. Live(new, 0)' = stored + 1
        BY <1>3, <1>6, <2>2
  <2>4. Popped' = Popped
        BY <1>4 DEF Popped
  <2>5. \A a \in DOMAIN heap' : \A j \in 0 .. heap'[a].size - 1 :
             Live(a, j)' = Live(a, 0)' + j /\ Live(a, j)' <= stored'
    <3> SUFFICES ASSUME NEW a \in DOMAIN heap', NEW j \in 0 .. heap'[a].size - 1
                 PROVE  Live(a, j)' = Live(a, 0)' + j /\ Live(a, j)' <= stored'
        OBVIOUS
    <3>1. CASE a = new
      <4>1. j \in 0 .. size - 1
            BY <1>8, <1>9, <3>1
      <4>2. Live(a, j)' = stored + 1 + j /\ Live(a, 0)' = stored + 1
            BY <2>2, <2>3, <3>1, <4>1
      <4> QED BY <1>3, <1>5, <1>6, <4>1, <4>2
    <3>2. CASE a # new
      <4>0. a \in DOMAIN heap /\ heap'[a].size = heap[a].size
            BY <1>9, <1>10, <3>2
      <4>1. j \in 0 .. heap[a].size - 1 /\ j \in Nat
            BY <4>0
      <4>2. Live(a, j) = Live(a, 0) + j /\ Live(a, j) <= stored
            BY <4>0, <4>1 DEF ListInv, ContentInOrder
      <4>3. Live(a, j) \in Nat
            BY <4>0, <4>1, LiveByteNat
      <4>4. Live(a, j)' = Live(a, j) /\ Live(a, 0)' = Live(a, 0)
            BY <2>1, <4>0, <4>1
      <4> QED BY <1>3, <1>5, <1>6, <4>2, <4>3, <4>4
    <3> QED BY <3>1, <3>2
  <2>6. \A a \in DOMAIN heap' : a # head' => heap'[a].size > 0
        BY <1>4, <1>6, <1>8, <1>9, <1>10 DEF ListInv, ContentInOrder
  <2>7. \A a \in DOMAIN heap' : heap'[a].size > 0 /\ a # tail'
                                => Live(a + 1, 0)' = Live(a, 0)' + heap'[a].size
    <3> SUFFICES ASSUME NEW a \in DOMAIN heap, heap[a].size > 0
                 PROVE  Live(a + 1, 0)' = Live(a, 0)' + heap[a].size
        BY <1>5, <1>9, <1>10
    <3>1. CASE a = tail
      <4>1. a + 1 = new /\ Live(a, 0) + heap[a].size = stored + 1
            BY <1>0, <1>1, <1>2, <3>1 DEF ListInv, ContentInOrder
      <4> QED BY <2>1, <2>3, <4>1
    <3>2. CASE a # tail
      <4>1. a + 1 \in DOMAIN heap
            BY <1>2, <1>3, <3>2
      <4> QED BY <2>1, <3>2, <4>1 DEF ListInv, ContentInOrder
    <3> QED BY <3>1, <3>2
  <2>8. /\ heap'[head].size > 0 => Live(head, 0)' = Popped + 1
        /\ heap'[head].size = 0 => Live(head + 1, 0)' = Popped + 1
    <3>1. head \in DOMAIN heap
          BY <1>2, <1>3
    <3>2. heap'[head].size = heap[head].size /\ Live(head, 0)' = Live(head, 0)
          BY <1>4, <1>10, <3>1 DEF Live
    <3>3. CASE head = tail
      <4>1. heap[head].size = 0 => stored = Popped
            BY <1>1, <3>3 DEF ListInv, ContentInOrder
      <4>2. Live(head + 1, 0)' = stored + 1
            BY <1>0, <1>2, <1>4, <2>3, <3>3 DEF Live
      <4> QED BY <1>1, <3>2, <4>1, <4>2 DEF ListInv, ContentInOrder
    <3>4. CASE head # tail
      <4>1. head + 1 \in DOMAIN heap
            BY <1>2, <1>3, <3>4
      <4>2. Live(head + 1, 0)' = Live(head + 1, 0)
            BY <1>4, <1>10, <4>1 DEF Live
      <4> QED BY <1>1, <3>2, <3>4, <4>2 DEF ListInv, ContentInOrder
    <3> QED BY <3>3, <3>4
  <2>9. heap'[new].size > 0 /\ Live(tail, 0)' + heap'[new].size = stored' + 1
    <3>1. Live(tail, 0)' = stored + 1
          BY <1>5, <2>3 DEF Live
    <3> QED BY <1>3, <1>5, <1>6, <1>8, <1>9, <3>1
  <2>10. nodes' # 0
         BY <1>3, <1>5
  <2> QED BY <1>4, <1>5, <2>4, <2>5, <2>6, <2>7, <2>8, <2>9, <2>10 DEF ContentInOrder
<1>15. PoppedInOrder'
  <2>1. Popped \in Nat /\ Popped' = Popped
        BY <1>4 DEF ListInv, TypeOK, Popped
  <2>2. Popped <= stored'
        BY <1>3, <1>5, <1>6, <2>1 DEF ListInv, PoppedInOrder
  <2> QED BY <1>4, <2>1, <2>2 DEF ListInv, PoppedInOrder
<1>16. CallInProgress'
       BY <1>1, <1>3, <1>4, <1>5, <1>6 DEF ListInv, CallInProgress
<1> QED BY <1>11, <1>12, <1>13, <1>14, <1>15, <1>16 DEF ListInv

-----------------------------------------------------------------------------
(***************************************************************************)
(* Pop                                                                     *)
(***************************************************************************)
\* A run is the sequence of the stream positions it names.
LEMMA RunProperties ==
    ASSUME NEW b \in Nat, NEW i \in Nat
    PROVE  /\ Run(b, i) \in Seq(Nat) /\ Len(Run(b, i)) = i
           /\ \A x \in 1..i : Run(b, i)[x] = b + x
BY DEF Run

\* Two adjacent runs of the stream make one.
LEMMA RunConcat ==
    ASSUME NEW a \in Nat, NEW k \in Nat, NEW l \in Nat
    PROVE  Run(a, k) \o Run(a + k, l) = Run(a, k + l)
<1> DEFINE r == Run(a, k)
           s == Run(a + k, l)
           t == Run(a, k + l)
<1>1. r \in Seq(Nat) /\ Len(r) = k /\ \A x \in 1..k : r[x] = a + x
      BY RunProperties
<1>2. s \in Seq(Nat) /\ Len(s) = l /\ \A x \in 1..l : s[x] = a + k + x
  <2>1. a + k \in Nat
        OBVIOUS
  <2> QED BY <2>1, RunProperties
<1>3. t \in Seq(Nat) /\ Len(t) = k + l /\ \A x \in 1 .. k + l : t[x] = a + x
  <2>1. k + l \in Nat
        OBVIOUS
  <2> QED BY <2>1, RunProperties
<1> HIDE DEF r, s, t
<1>4. /\ r \o s \in Seq(Nat) /\ Len(r \o s) = k + l
      /\ \A i \in 1 .. k + l : (r \o s)[i] = IF i <= k THEN r[i] ELSE s[i - k]
  <2>1. /\ r \o s \in Seq(Nat) /\ Len(r \o s) = Len(r) + Len(s)
        /\ \A i \in 1 .. Len(r) + Len(s) :
              (r \o s)[i] = IF i <= Len(r) THEN r[i] ELSE s[i - Len(r)]
        BY <1>1, <1>2, ConcatProperties
  <2> QED BY <1>1, <1>2, <2>1
<1>5. ASSUME NEW i \in 1 .. k + l
      PROVE  (r \o s)[i] = t[i]
  <2>1. CASE i <= k
        BY <1>1, <1>3, <1>4, <2>1
  <2>2. CASE ~(i <= k)
    <3>1. i - k \in 1..l
          BY <2>2
    <3>2. (r \o s)[i] = s[i - k]
          BY <1>4, <2>2
    <3>3. s[i - k] = a + k + (i - k) /\ t[i] = a + i
          BY <1>2, <1>3, <3>1
    <3> QED BY <3>2, <3>3
  <2> QED BY <2>1, <2>2
<1>6. r \o s = t
      BY <1>3, <1>4, <1>5, SeqEqual
<1> QED BY <1>6 DEF r, s, t

\* One iteration of the pop keeps the invariant.
LEMMA PopNodeInv ==
    ASSUME ListInv, PopNode
    PROVE  ListInv'
<1>0. PICK n, size : n = heap[head] /\ size = Min2(n.size, remaining)
      OBVIOUS
<1>1. node = head /\ nodes # 0 /\ pc = "pop_loop" /\ remaining > 0
      /\ Len(out) + remaining \in 1..MaxRequest
      BY DEF ListInv, CallInProgress, ListWellFormed, PopNode
<1>2. /\ head \in Nat /\ tail \in Nat /\ remaining \in Nat /\ stored \in Nat /\ nodes \in Nat
      /\ brk \in Nat /\ heap \in [DOMAIN heap -> NodeType] /\ DOMAIN heap \subseteq 1..brk
      /\ out \in Seq(Nat) /\ delivered \in Seq(Nat)
      BY DEF ListInv, TypeOK
<1>3. /\ DOMAIN heap = head..tail /\ head \in DOMAIN heap /\ tail \in DOMAIN heap
      /\ tail = brk /\ nodes = 1 + tail - head
      BY <1>1, <1>2 DEF ListInv, ListWellFormed
<1>4. n \in NodeType /\ n.size \in Nat /\ n.offset \in Nat
  <2>1. n \in NodeType
        BY <1>0, <1>2, <1>3
  <2> QED BY <2>1 DEF NodeType
<1>5. size \in Nat /\ size <= n.size /\ size <= remaining /\ (size < n.size => size = remaining)
  <2>1. PICK k : k = n.size
        OBVIOUS
  <2>2. k \in Nat /\ remaining \in Nat /\ size = Min2(k, remaining)
        BY <1>0, <1>2, <1>4, <2>1
  <2>3. size \in Nat /\ size <= k /\ size <= remaining /\ (size < k => size = remaining)
        BY <2>2 DEF Min2
  <2> QED BY <2>1, <2>3
<1>6. /\ out' = out \o Taken(n, size)
      /\ remaining' = remaining - size
      /\ UNCHANGED <<pc, tail, brk, stored, delivered>>
      BY <1>0, <1>1 DEF PopNode
<1>7. \A j \in 0 .. n.size - 1 : Live(head, j) = Popped + 1 + j /\ Popped + 1 + j <= stored
  <2> SUFFICES ASSUME NEW j \in 0 .. n.size - 1
               PROVE  Live(head, j) = Popped + 1 + j /\ Popped + 1 + j <= stored
      OBVIOUS
  <2>1. Live(head, j) = Live(head, 0) + j /\ Live(head, j) <= stored /\ n.size > 0
        BY <1>0, <1>3, <1>4 DEF ListInv, ContentInOrder
  <2>2. Live(head, 0) = Popped + 1
        BY <1>0, <1>1, <2>1 DEF ListInv, ContentInOrder
  <2> QED BY <2>1, <2>2
<1>8. Popped \in Nat /\ Len(out) \in Nat /\ Len(delivered) \in Nat
      BY <1>2 DEF Popped
<1>num. /\ head \in Nat /\ tail \in Nat /\ nodes \in Nat /\ stored \in Nat /\ Popped \in Nat
        /\ n.size \in Nat /\ size \in Nat
      BY <1>2, <1>4, <1>5, <1>8
<1>9. Taken(n, size) = Run(Popped, size)
  <2>1. ASSUME NEW j \in 1..size
        PROVE  n.data[n.offset + j - 1] = Popped + j
    <3>1. j - 1 \in 0 .. n.size - 1 /\ n.offset + j - 1 = n.offset + (j - 1)
          BY <1>4, <1>5
    <3>2. Live(head, j - 1) = Popped + 1 + (j - 1)
          BY <1>7, <3>1
    <3> QED BY <1>0, <1>8, <3>1, <3>2 DEF Live
  <2> QED BY <2>1 DEF Taken, Run
<1>10. out' = Run(Len(delivered), Len(out) + size)
  <2>1. out = Run(Len(delivered), Len(out))
        BY DEF ListInv, PoppedInOrder
  <2>2. Run(Len(delivered), Len(out)) \o Run(Len(delivered) + Len(out), size)
           = Run(Len(delivered), Len(out) + size)
        BY <1>5, <1>8, RunConcat
  <2> QED BY <1>6, <1>9, <2>1, <2>2 DEF Popped
<1>11. out' \in Seq(Nat) /\ Len(out') = Len(out) + size
  <2>1. Len(out) + size \in Nat
        BY <1>5, <1>8
  <2> QED BY <1>8, <1>10, <2>1, RunProperties
<1>12. Popped' = Popped + size
       BY <1>5, <1>6, <1>8, <1>11 DEF Popped
<1>13. Popped + size <= stored
  <2>1. CASE size = 0
        BY <1>8, <2>1 DEF ListInv, PoppedInOrder
  <2>2. CASE size # 0
    <3>1. size - 1 \in 0 .. n.size - 1
          BY <1>4, <1>5, <2>2
    <3> QED BY <1>5, <1>7, <1>8, <3>1
  <2> QED BY <2>1, <2>2
<1>14. PoppedInOrder'
       BY <1>6, <1>10, <1>11, <1>12, <1>13 DEF ListInv, PoppedInOrder
<1>15. remaining' \in Nat /\ Len(out') + remaining' \in 1..MaxRequest
  <2>1. Len(out) \in Nat /\ Len(out') = Len(out) + size
        BY <1>8, <1>11
  <2>2. remaining - size \in Nat
        BY <1>2, <1>5
  <2>3. Len(out') + (remaining - size) = Len(out) + remaining
        BY <1>2, <1>5, <2>1
  <2> QED BY <1>1, <1>6, <2>2, <2>3
<1>16. CASE size < n.size
  <2>0. n.size > 0
        BY <1>4, <1>5, <1>16
  <2>1. /\ heap' = [heap EXCEPT ![head] = Node(n.data, n.size - size, n.offset + size, n.next)]
        /\ UNCHANGED <<node, head, nodes>>
        BY <1>0, <1>1, <1>16 DEF PopNode
  <2>2. PICK m : m = Node(n.data, n.size - size, n.offset + size, n.next)
        OBVIOUS
  <2>3. m \in NodeType /\ m.data = n.data /\ m.size = n.size - size
        /\ m.offset = n.offset + size /\ m.next = n.next
        BY <1>4, <1>5, <2>2 DEF Node, NodeType
  <2>4. DOMAIN heap' = DOMAIN heap /\ heap'[head] = m
        /\ \A a \in DOMAIN heap : a # head => heap'[a] = heap[a]
        BY <1>3, <2>1, <2>2
  <2>5. TypeOK'
    <3>1. heap' \in [DOMAIN heap' -> NodeType]
          BY <1>2, <2>1, <2>2, <2>3, <2>4
    <3> QED BY <1>6, <1>11, <1>15, <2>1, <2>4, <3>1 DEF ListInv, TypeOK
  <2>6. ListWellFormed'
    <3>1. \A a \in DOMAIN heap' : heap'[a].next = heap[a].next
          BY <1>0, <2>3, <2>4
    <3> QED BY <1>1, <1>6, <2>1, <2>4, <3>1 DEF ListInv, ListWellFormed
  <2>7. LiveCellsInNode'
    <3>1. n.offset + n.size <= Capacity
          BY <1>0, <1>3, <2>0 DEF ListInv, LiveCellsInNode
    <3>2. m.offset + m.size <= Capacity
          BY <1>4, <1>5, <2>3, <3>1
    <3> QED BY <2>4, <3>2 DEF ListInv, LiveCellsInNode
  <2>8. ContentInOrder'
    <3>1. ASSUME NEW j \in 0 .. m.size - 1
          PROVE  Byte(m, j) = Popped + size + 1 + j /\ Byte(m, j) <= stored
      <4>1. size + j \in 0 .. n.size - 1 /\ m.offset + j = n.offset + (size + j)
            BY <1>4, <1>5, <2>3
      <4>2. Live(head, size + j) = Popped + 1 + (size + j) /\ Popped + 1 + (size + j) <= stored
            BY <1>7, <4>1
      <4> QED BY <1>0, <1>5, <1>8, <2>3, <4>1, <4>2 DEF Live, Byte
    <3>2. m.size > 0 /\ Byte(m, 0) = Popped + size + 1
          BY <1>4, <1>5, <1>8, <1>16, <2>3, <3>1
    <3>3. \A a \in DOMAIN heap' : \A j \in 0 .. heap'[a].size - 1 :
             Live(a, j)' = Live(a, 0)' + j /\ Live(a, j)' <= stored'
      <4> SUFFICES ASSUME NEW a \in DOMAIN heap', NEW j \in 0 .. heap'[a].size - 1
                   PROVE  Live(a, j)' = Live(a, 0)' + j /\ Live(a, j)' <= stored'
          OBVIOUS
      <4>1. CASE a = head
        <5>1. Byte(m, j) = Byte(m, 0) + j /\ Byte(m, j) <= stored
              BY <1>5, <1>8, <2>4, <3>1, <3>2, <4>1
        <5> QED BY <1>6, <2>4, <4>1, <5>1 DEF Live, Byte
      <4>2. CASE a # head
            BY <1>6, <2>4, <4>2 DEF ListInv, ContentInOrder, Live
      <4> QED BY <4>1, <4>2
    <3>4. \A a \in DOMAIN heap' : a # head' => heap'[a].size > 0
          BY <2>1, <2>4 DEF ListInv, ContentInOrder
    <3>5. \A a \in DOMAIN heap' : heap'[a].size > 0 /\ a # tail'
                                  => Live(a + 1, 0)' = Live(a, 0)' + heap'[a].size
      <4> SUFFICES ASSUME NEW a \in DOMAIN heap, heap'[a].size > 0, a # tail
                   PROVE  Live(a + 1, 0)' = Live(a, 0)' + heap'[a].size
          BY <1>6, <2>4
      <4>0. a \in head..tail /\ head \in Nat /\ tail \in Nat
            BY <1>2, <1>3
      <4>1. a + 1 \in head..tail /\ a + 1 # head
            BY <4>0
      <4>2. heap'[a + 1] = heap[a + 1]
            BY <1>3, <2>4, <4>1
      <4>3. CASE a = head
        <5>1. Live(head + 1, 0) = Live(head, 0) + n.size
              BY <1>0, <1>3, <2>0, <4>3 DEF ListInv, ContentInOrder
        <5>2. Live(head, 0) = Popped + 1
              BY <1>0, <1>1, <2>0 DEF ListInv, ContentInOrder
        <5>3. Live(a + 1, 0)' = Popped + 1 + n.size
              BY <4>2, <4>3, <5>1, <5>2 DEF Live
        <5>4. Live(a, 0)' = Popped + size + 1
              BY <2>4, <3>2, <4>3 DEF Live, Byte
        <5>5. heap'[a].size = n.size - size
              BY <2>3, <2>4, <4>3
        <5> QED BY <1>num, <5>3, <5>4, <5>5
      <4>4. CASE a # head
        <5>1. heap'[a] = heap[a]
              BY <2>4, <4>4
        <5> QED BY <4>2, <5>1 DEF ListInv, ContentInOrder, Live
      <4> QED BY <4>3, <4>4
    <3>6. heap'[head].size > 0 /\ Live(head, 0)' = Popped' + 1
      <4>1. Live(head, 0)' = Byte(m, 0)
            BY <2>1, <2>4 DEF Live, Byte
      <4> QED BY <1>5, <1>8, <1>12, <2>4, <3>2, <4>1
    <3>7. heap'[tail].size > 0 /\ Live(tail, 0)' + heap'[tail].size = stored' + 1
      <4>1. CASE tail = head
        <5>1. Live(tail, 0) + n.size = stored + 1 /\ Live(tail, 0) = Popped + 1
              BY <1>0, <1>1, <2>0, <4>1 DEF ListInv, ContentInOrder
        <5>2. Live(tail, 0)' = Popped + size + 1
              BY <1>6, <2>4, <3>2, <4>1 DEF Live, Byte
        <5>3. heap'[tail].size = n.size - size /\ heap'[tail].size > 0 /\ stored' = stored
              BY <1>6, <2>3, <2>4, <3>2, <4>1
        <5> QED BY <1>4, <1>5, <1>8, <5>1, <5>2, <5>3
      <4>2. CASE tail # head
        <5>1. heap'[tail] = heap[tail] /\ heap[tail].size > 0
              BY <1>3, <2>4, <4>2 DEF ListInv, ContentInOrder
        <5>2. Live(tail, 0)' = Live(tail, 0)
              BY <1>6, <5>1 DEF Live
        <5> QED BY <1>1, <1>6, <5>1, <5>2 DEF ListInv, ContentInOrder
      <4> QED BY <4>1, <4>2
    <3> QED BY <1>1, <1>6, <2>1, <3>3, <3>4, <3>5, <3>6, <3>7 DEF ContentInOrder
  <2>9. CallInProgress'
        BY <1>1, <1>6, <1>15, <2>1 DEF CallInProgress
  <2> QED BY <1>14, <2>5, <2>6, <2>7, <2>8, <2>9 DEF ListInv
<1>17. CASE ~(size < n.size)
  <2>1. /\ heap' = [a \in DOMAIN heap \ {head} |-> heap[a]]
        /\ node' = n.next /\ head' = n.next /\ nodes' = nodes - 1
        BY <1>0, <1>1, <1>17 DEF PopNode
  <2>2. size = n.size
        BY <1>4, <1>5, <1>17
  <2>3. DOMAIN heap' = DOMAIN heap \ {head} /\ \A a \in DOMAIN heap' : heap'[a] = heap[a]
        BY <2>1
  <2>4. n.next = IF head = tail THEN NULL ELSE head + 1
        BY <1>0, <1>1, <1>3 DEF ListInv, ListWellFormed
  <2>5. TypeOK'
    <3>1. heap' \in [DOMAIN heap' -> NodeType]
          BY <1>2, <2>1
    <3>2. n.next \in Nat
          BY <1>num, <2>4 DEF NULL
    <3>3. nodes' \in Nat
          BY <1>1, <1>num, <2>1
    <3>4. DOMAIN heap' \subseteq 1..brk'
          BY <1>2, <1>6, <2>3
    <3> QED BY <1>6, <1>11, <1>15, <2>1, <3>1, <3>2, <3>3, <3>4 DEF ListInv, TypeOK
  <2>6. LiveCellsInNode'
        BY <2>3 DEF ListInv, LiveCellsInNode
  <2>7. CallInProgress'
        BY <1>1, <1>6, <1>15, <2>1 DEF CallInProgress
  <2>8. \A a \in DOMAIN heap', j \in Nat : Live(a, j)' = Live(a, j)
        BY <2>3 DEF Live
  <2>9. CASE head = tail
    <3>1. DOMAIN heap' = {} /\ nodes' = 0 /\ head' = NULL
          BY <1>2, <1>3, <2>1, <2>3, <2>4, <2>9
    <3>2. ListWellFormed'
          BY <1>1, <1>6, <3>1 DEF ListWellFormed
    <3>3. stored = Popped + size
      <4>1. CASE n.size > 0
        <5>1. Live(head, 0) + n.size = stored + 1 /\ Live(head, 0) = Popped + 1
              BY <1>0, <1>1, <2>9, <4>1 DEF ListInv, ContentInOrder
        <5> QED BY <1>num, <2>2, <5>1
      <4>2. CASE ~(n.size > 0)
        <5>1. stored = Popped
              BY <1>0, <1>1, <2>9, <4>2 DEF ListInv, ContentInOrder
        <5> QED BY <1>num, <2>2, <4>2, <5>1
      <4> QED BY <4>1, <4>2
    <3>4. ContentInOrder'
          BY <1>6, <1>12, <3>1, <3>3 DEF ContentInOrder
    <3> QED BY <1>14, <2>5, <2>6, <2>7, <3>2, <3>4 DEF ListInv
  <2>10. CASE head # tail
    <3>1. head' = head + 1 /\ DOMAIN heap' = head'..tail' /\ tail \in DOMAIN heap'
          /\ head + 1 \in DOMAIN heap'
      <4>1. head < tail /\ head' = head + 1 /\ tail' = tail
            BY <1>2, <1>3, <1>6, <2>1, <2>4, <2>10
      <4>2. (head..tail) \ {head} = (head + 1)..tail
            BY <1>2
      <4> QED BY <1>2, <1>3, <2>3, <4>1, <4>2
    <3>2. ListWellFormed'
      <4>1. nodes' # 0 /\ nodes' = 1 + tail' - head'
        <5>1. head <= tail /\ nodes = 1 + tail - head
              BY <1>3, <1>num
        <5>2. nodes' = nodes - 1 /\ head' = head + 1 /\ tail' = tail
              BY <1>6, <2>1, <3>1
        <5> QED BY <1>num, <2>10, <5>1, <5>2
      <4>2. \A a \in DOMAIN heap' : heap'[a].next = IF a = tail' THEN NULL ELSE a + 1
            BY <1>1, <1>6, <2>3 DEF ListInv, ListWellFormed
      <4> QED BY <1>3, <1>6, <3>1, <4>1, <4>2 DEF ListWellFormed
    <3>3. Live(head + 1, 0) = Popped + size + 1
      <4>1. CASE n.size > 0
        <5>1. Live(head + 1, 0) = Live(head, 0) + n.size /\ Live(head, 0) = Popped + 1
              BY <1>0, <1>1, <1>3, <2>10, <4>1 DEF ListInv, ContentInOrder
        <5> QED BY <1>4, <1>8, <2>2, <5>1
      <4>2. CASE ~(n.size > 0)
        <5>1. Live(head + 1, 0) = Popped + 1 /\ size = 0
              BY <1>0, <1>1, <1>4, <2>2, <2>10, <4>2 DEF ListInv, ContentInOrder
        <5> QED BY <1>8, <5>1
      <4> QED BY <4>1, <4>2
    <3>4. ContentInOrder'
      <4>1. \A a \in DOMAIN heap' : \A j \in 0 .. heap'[a].size - 1 :
               Live(a, j)' = Live(a, 0)' + j /\ Live(a, j)' <= stored'
            BY <1>6, <2>3, <2>8 DEF ListInv, ContentInOrder
      <4>2. \A a \in DOMAIN heap' : heap'[a].size > 0
            BY <2>3 DEF ListInv, ContentInOrder
      <4>3. \A a \in DOMAIN heap' : heap'[a].size > 0 /\ a # tail'
                                    => Live(a + 1, 0)' = Live(a, 0)' + heap'[a].size
        <5> SUFFICES ASSUME NEW a \in DOMAIN heap', heap[a].size > 0, a # tail
                     PROVE  Live(a + 1, 0)' = Live(a, 0)' + heap[a].size
            BY <1>6, <2>3
        <5>0. a \in (head + 1)..tail /\ head \in Nat /\ tail \in Nat
              BY <1>2, <1>6, <3>1
        <5>1. a + 1 \in (head + 1)..tail
              BY <5>0
        <5>2. a + 1 \in DOMAIN heap' /\ a \in DOMAIN heap
              BY <1>6, <2>3, <3>1, <5>1
        <5> QED BY <2>8, <5>2 DEF ListInv, ContentInOrder
      <4>4. Live(head, 0)' = Popped' + 1
        <5>1. Live(head, 0)' = Live(head + 1, 0)
              BY <2>3, <3>1 DEF Live
        <5> QED BY <1>5, <1>8, <1>12, <3>3, <5>1
      <4>5. heap'[tail'].size > 0 /\ Live(tail, 0)' + heap'[tail'].size = stored' + 1
        <5>1. heap'[tail] = heap[tail] /\ heap[tail].size > 0
              BY <1>3, <2>3, <3>1, <4>2
        <5>2. Live(tail, 0)' = Live(tail, 0)
              BY <1>6, <5>1 DEF Live
        <5> QED BY <1>1, <1>6, <5>1, <5>2 DEF ListInv, ContentInOrder
      <4>6. nodes' # 0 /\ heap'[head'].size > 0
            BY <1>2, <1>3, <2>1, <2>10, <3>1, <4>2
      <4> QED BY <4>1, <4>2, <4>3, <4>4, <4>5, <4>6 DEF ContentInOrder
    <3> QED BY <1>14, <2>5, <2>6, <2>7, <3>2, <3>4 DEF ListInv
  <2> QED BY <2>9, <2>10
<1> QED BY <1>16, <1>17

\* Leaving a pop.
LEMMA PopReturnInv ==
    ASSUME ListInv, PopReturn
    PROVE  ListInv'
<1>1. /\ pc = "pop_loop" /\ pc' = "idle" /\ out' = <<>> /\ delivered' = delivered \o out
      /\ UNCHANGED <<node, remaining, stored>>
      BY DEF PopReturn
<1>2. /\ out \in Seq(Nat) /\ delivered \in Seq(Nat) /\ stored \in Nat /\ brk \in Nat
      /\ delivered = Run(0, Len(delivered)) /\ out = Run(Len(delivered), Len(out))
      BY DEF ListInv, TypeOK, PoppedInOrder
<1>3. delivered' \in Seq(Nat) /\ Len(delivered') = Popped /\ Len(out') = 0
      BY <1>1, <1>2 DEF Popped
<1>4. Popped' = Popped
      BY <1>2, <1>3 DEF Popped
<1>5. PoppedInOrder'
  <2>1. delivered' = Run(0, Len(delivered) + Len(out))
    <3>1. Len(delivered) \in Nat /\ Len(out) \in Nat
          BY <1>2
    <3>2. Run(0, Len(delivered)) \o Run(0 + Len(delivered), Len(out))
             = Run(0, Len(delivered) + Len(out))
          BY <3>1, RunConcat
    <3> QED BY <1>1, <1>2, <3>1, <3>2
  <2>2. out' = Run(Len(delivered'), Len(out'))
        BY <1>1, <1>3 DEF Run
  <2> QED BY <1>1, <1>3, <1>4, <2>1, <2>2 DEF ListInv, PoppedInOrder, Popped
<1>6. CallInProgress'
      BY <1>1 DEF CallInProgress
<1>7. CASE nodes # 0
  <2>1. UNCHANGED listVars
        BY <1>7 DEF PopReturn
  <2>2. TypeOK'
        BY <1>1, <1>3, <2>1 DEF ListInv, TypeOK, listVars
  <2>3. ListWellFormed'
        BY <1>7, <2>1 DEF ListInv, ListWellFormed, listVars
  <2>4. LiveCellsInNode'
        BY <2>1 DEF ListInv, LiveCellsInNode, listVars
  <2>5. ContentInOrder'
        BY <1>1, <1>4, <2>1 DEF ListInv, ContentInOrder, Live, listVars
  <2> QED BY <1>5, <1>6, <2>2, <2>3, <2>4, <2>5 DEF ListInv
<1>8. CASE nodes = 0
  <2>1. DOMAIN heap = {} /\ stored = Popped
        BY <1>8 DEF ListInv, ListWellFormed, ContentInOrder
  <2>2. PICK new : new = brk + 1
        OBVIOUS
  <2>3. PICK o \in GarbageOffsets :
           heap' = [a \in DOMAIN heap \cup {new} |->
                      IF a = new THEN Node(Unwritten, 0, o, NULL) ELSE heap[a]]
        BY <1>8, <2>2 DEF PopReturn
  <2>4. brk' = new /\ head' = new /\ tail' = new /\ nodes' = 1
        BY <1>8, <2>2 DEF PopReturn
  <2>5. DOMAIN heap' = {new} /\ heap'[new] = Node(Unwritten, 0, o, NULL)
        BY <2>1, <2>3
  <2>6. heap'[new] \in NodeType /\ heap'[new].size = 0 /\ heap'[new].next = NULL
        BY <2>5 DEF Node, NodeType, Unwritten, NULL
  <2>7. TypeOK'
    <3>1. heap' \in [DOMAIN heap' -> NodeType]
      <4>1. heap' = [a \in DOMAIN heap' |-> heap'[a]]
            BY <2>3
      <4> QED BY <2>5, <2>6, <4>1
    <3> QED BY <1>1, <1>2, <1>3, <2>2, <2>4, <2>5, <3>1 DEF ListInv, TypeOK
  <2>8. ListWellFormed'
        BY <1>2, <2>2, <2>4, <2>5, <2>6 DEF ListWellFormed
  <2>9. LiveCellsInNode'
        BY <2>5, <2>6 DEF LiveCellsInNode
  <2>10. ContentInOrder'
        BY <1>1, <1>4, <2>1, <2>4, <2>5, <2>6 DEF ContentInOrder
  <2> QED BY <1>5, <1>6, <2>7, <2>8, <2>9, <2>10 DEF ListInv
<1> QED BY <1>7, <1>8

-----------------------------------------------------------------------------
(***************************************************************************)
(* Theorems                                                                *)
(***************************************************************************)
\* Every step of every call of push and pop keeps the invariant.
LEMMA NextInv == ListInv /\ [Next]_vars => ListInv'
<1> SUFFICES ASSUME ListInv, [Next]_vars
             PROVE  ListInv'
    OBVIOUS
<1>1. CASE \E size \in 1..MaxRequest : PushCall(size)
      BY <1>1, PushCallInv
<1>2. CASE \E size \in 1..MaxRequest : PopCall(size)
      BY <1>2, PopCallInv
<1>3. CASE PushTail
      BY <1>3, PushTailInv
<1>4. CASE PushNode
      BY <1>4, PushNodeInv
<1>5. CASE PushReturn
      BY <1>5, PushReturnInv
<1>6. CASE PopNode
      BY <1>6, PopNodeInv
<1>7. CASE PopReturn
      BY <1>7, PopReturnInv
<1>8. CASE OutOfMemory
      BY <1>8, OutOfMemoryInv
<1>9. CASE UNCHANGED vars
  <2> USE <1>9 DEF vars
  <2>1. TypeOK'
        BY DEF ListInv, TypeOK
  <2>2. ListWellFormed'
        BY DEF ListInv, ListWellFormed
  <2>3. LiveCellsInNode' /\ ContentInOrder'
        BY ListUntouched
  <2>4. PoppedInOrder' /\ CallInProgress'
        BY DEF ListInv, PoppedInOrder, CallInProgress, Popped
  <2> QED BY <2>1, <2>2, <2>3, <2>4 DEF ListInv
<1>10. CASE PopNothing \/ Exited
       BY <1>9, <1>10 DEF PopNothing, Exited
<1> QED BY <1>1, <1>2, <1>3, <1>4, <1>5, <1>6, <1>7, <1>8, <1>9, <1>10 DEF Next, Call, Step

\* In every state of the linked buffer the invariant holds.
THEOREM ListInvariant == Spec => []ListInv
<1>1. Init => ListInv
      BY InitInv
<1>2. ListInv /\ [Next]_vars => ListInv'
      BY NextInv
<1> QED BY <1>1, <1>2, PTL DEF Spec

\* The fields of the buffer and of its nodes stay in their types.
THEOREM TypeCorrect == Spec => []TypeOK
<1>1. ListInv => TypeOK
      BY DEF ListInv
<1> QED BY <1>1, ListInvariant, PTL

\* Head, tail, node count and next pointers agree: nothing is leaked, lost or
\* used after free() by any interleaving of pushes and pops.
THEOREM ChainCorrect == Spec => []ListWellFormed
<1>1. ListInv => ListWellFormed
      BY DEF ListInv
<1> QED BY <1>1, ListInvariant, PTL

\* No push writes and no pop reads outside node->data, whatever the uninitialised
\* offset of the first node is.
THEOREM CopiesInBounds == Spec => []LiveCellsInNode
<1>1. ListInv => LiveCellsInNode
      BY DEF ListInv
<1> QED BY <1>1, ListInvariant, PTL

\* The list always holds exactly the bytes stored and not yet popped, in order,
\* wherever pushes and pops have split the nodes.
THEOREM ContentKept == Spec => []ContentInOrder
<1>1. ListInv => ContentInOrder
      BY DEF ListInv
<1> QED BY <1>1, ListInvariant, PTL

\* What the pops return is a prefix of what the pushes stored.
THEOREM PopsInOrder == Spec => []PoppedInOrder
<1>1. ListInv => PoppedInOrder
      BY DEF ListInv
<1> QED BY <1>1, ListInvariant, PTL

-----------------------------------------------------------------------------
(***************************************************************************)
(* The size of the list                                                    *)
(***************************************************************************)
\* The bytes from node a on, as the content of the list says: those from its
\* first live byte to the last one stored.
Backlog(a) ==
    IF a = NULL \/ (a = tail /\ heap[a].size = 0) THEN 0
    ELSE stored + 1 - (IF heap[a].size > 0 THEN Live(a, 0) ELSE Live(a + 1, 0))

\* The sum along the list: a node's own bytes and those from its next node on.
LEMMA BacklogOfNode ==
    ASSUME ListInv, NEW a \in DOMAIN heap
    PROVE  /\ heap[a].next \in DOMAIN heap \cup {NULL}
           /\ heap[a].size \in Nat
           /\ Backlog(a) \in Int
           /\ Backlog(a) = heap[a].size + Backlog(heap[a].next)
<1>1. /\ heap[a] \in NodeType /\ tail \in Nat /\ head \in Nat /\ stored \in Nat /\ brk \in Nat
      /\ \A b \in DOMAIN heap : heap[b] \in NodeType
      BY DEF ListInv, TypeOK
<1>2. nodes # 0
      BY DEF ListInv, ListWellFormed
<1>3. /\ DOMAIN heap = head..tail
      /\ \A b \in DOMAIN heap : heap[b].next = IF b = tail THEN NULL ELSE b + 1
      BY <1>2 DEF ListInv, ListWellFormed
<1>4. \A b \in DOMAIN heap : b \in Nat /\ b # NULL
      BY <1>1 DEF ListInv, TypeOK, NULL
<1>5. \A b \in DOMAIN heap : heap[b].size \in Nat
      BY <1>1 DEF NodeType
<1>6. \A b \in DOMAIN heap : heap[b].size > 0 => Live(b, 0) \in Int
  <2>. SUFFICES ASSUME NEW b \in DOMAIN heap, heap[b].size > 0 PROVE Live(b, 0) \in Int
       OBVIOUS
  <2>1. 0 \in 0 .. heap[b].size - 1
        BY <1>5
  <2> QED BY <2>1, LiveByteNat
<1>7. \A b \in DOMAIN heap : b # head => heap[b].size > 0
      BY DEF ListInv, ContentInOrder
<1>8. heap[a].size > 0 /\ a # tail => Live(a + 1, 0) = Live(a, 0) + heap[a].size
      BY DEF ListInv, ContentInOrder
<1>9. heap[tail].size > 0 => Live(tail, 0) + heap[tail].size = stored + 1
      BY <1>2 DEF ListInv, ContentInOrder
<1>10. CASE a = tail
  <2>1. heap[a].next = NULL
        BY <1>3, <1>10
  <2>2. Backlog(NULL) = 0
        BY DEF Backlog
  <2> QED BY <1>1, <1>4, <1>5, <1>6, <1>9, <1>10, <2>1, <2>2 DEF Backlog
<1>11. CASE a # tail
  <2>1. heap[a].next = a + 1 /\ a + 1 \in DOMAIN heap /\ a + 1 # head
        BY <1>1, <1>3, <1>4, <1>11
  <2>2. heap[a + 1].size > 0 /\ Live(a + 1, 0) \in Int /\ a + 1 # NULL
        BY <1>4, <1>6, <1>7, <2>1
  <2>3. Backlog(a + 1) = stored + 1 - Live(a + 1, 0)
        BY <2>2, <1>5, <2>1 DEF Backlog
  <2>4. CASE heap[a].size > 0
        BY <1>1, <1>4, <1>5, <1>6, <1>8, <1>11, <2>1, <2>2, <2>3, <2>4 DEF Backlog
  <2>5. CASE ~(heap[a].size > 0)
    <3>1. heap[a].size = 0
          BY <1>5, <2>5
    <3> QED BY <1>1, <1>4, <1>5, <1>11, <2>1, <2>2, <2>3, <3>1 DEF Backlog
  <2> QED BY <2>4, <2>5
<1> QED BY <1>10, <1>11

\* The recursion of ds_linked_buffer_size comes to an end, with that sum.
LEMMA SizeIsSum ==
    ASSUME ListInv, nodes # 0
    PROVE  ds_linked_buffer_size = Backlog(head)
<1>. DEFINE D == DOMAIN heap \cup {NULL}
            Sum(f) == f = [a \in D |-> IF a = NULL THEN 0 ELSE heap[a].size + f[heap[a].next]]
            F == [a \in D |-> Backlog(a)]
<1>1. Backlog(NULL) = 0 /\ NULL \notin DOMAIN heap
      BY DEF Backlog, NULL, ListInv, TypeOK
<1>2. \A a \in D : Backlog(a) = IF a = NULL THEN 0 ELSE heap[a].size + F[heap[a].next]
      BY <1>1, BacklogOfNode
<1>3. Sum(F)
      BY <1>2
<1>4. PICK f : Sum(f) /\ ds_linked_buffer_size = f[head]
  <2>1. Sum(CHOOSE f : Sum(f))
    <3>. HIDE DEF Sum, F
    <3> QED BY <1>3
  <2>2. ds_linked_buffer_size = (CHOOSE f : Sum(f))[head]
        BY DEF ds_linked_buffer_size
  <2>. HIDE DEF Sum
  <2> QED BY <2>1, <2>2
<1>5. /\ DOMAIN heap = head..tail /\ head \in Nat /\ tail \in Nat /\ head <= tail
      /\ \A a \in DOMAIN heap : heap[a].next = IF a = tail THEN NULL ELSE a + 1
      BY DEF ListInv, ListWellFormed, TypeOK
<1>. DEFINE Wrong == {k \in Nat : tail - k \in DOMAIN heap /\ f[tail - k] # Backlog(tail - k)}
<1>6. Wrong = {}
  <2>. SUFFICES ASSUME Wrong # {} PROVE FALSE
       OBVIOUS
  <2>1. PICK k \in Wrong : \A j \in Wrong : k <= j
        BY LeastNatural
  <2>. DEFINE a == tail - k
  <2>2. a \in DOMAIN heap /\ f[a] # Backlog(a) /\ k \in Nat
        BY <2>1
  <2>3. f[a] = heap[a].size + f[heap[a].next]
        BY <1>1, <1>4, <2>2
  <2>4. f[heap[a].next] = Backlog(heap[a].next)
    <3>1. CASE a = tail
          BY <1>1, <1>4, <1>5, <2>2, <3>1
    <3>2. CASE a # tail
      <4>1. heap[a].next = tail - (k - 1) /\ k - 1 \in Nat /\ tail - (k - 1) \in DOMAIN heap
            BY <1>5, <2>2, <3>2
      <4>2. k - 1 \notin Wrong
            BY <2>1, <4>1
      <4> QED BY <4>1, <4>2
    <3> QED BY <3>1, <3>2
  <2> QED BY <2>2, <2>3, <2>4, BacklogOfNode
<1>7. f[head] = Backlog(head)
  <2>1. tail - head \in Nat /\ tail - (tail - head) = head /\ head \in DOMAIN heap
        BY <1>5
  <2> QED BY <1>6, <2>1
<1> QED BY <1>4, <1>7

\* ds_linked_buffer_size returns the bytes pushed and not yet popped, however
\* they are spread over the nodes.
THEOREM SizeCorrect == Spec => []SizeIsBacklog
<1>1. ListInv => SizeIsBacklog
  <2>. SUFFICES ASSUME ListInv, pc = "idle"
                PROVE  ds_linked_buffer_size = stored - Len(delivered)
       BY DEF SizeIsBacklog
  <2>1. nodes # 0 /\ out = <<>>
        BY DEF ListInv, ListWellFormed, CallInProgress
  <2>2. Popped = Len(delivered) /\ Len(delivered) \in Nat /\ stored \in Nat
        BY <2>1 DEF Popped, ListInv, TypeOK
  <2>3. /\ head \in DOMAIN heap /\ head # NULL /\ heap[head].size \in Nat
    <3>1. DOMAIN heap = head..tail /\ tail \in DOMAIN heap /\ head \in Nat /\ tail \in Nat
          BY <2>1 DEF ListInv, ListWellFormed, TypeOK
    <3>2. head \in DOMAIN heap
          BY <3>1
    <3> QED BY <3>2 DEF ListInv, TypeOK, NodeType, NULL
  <2>4. Backlog(head) = stored - Popped
    <3>1. /\ heap[head].size > 0 => Live(head, 0) = Popped + 1
          /\ heap[head].size = 0 /\ head # tail => Live(head + 1, 0) = Popped + 1
          /\ heap[tail].size = 0 => stored = Popped
          BY <2>1, <2>3 DEF ListInv, ContentInOrder
    <3> QED BY <2>2, <2>3, <3>1 DEF Backlog
  <2> QED BY <2>1, <2>2, <2>4, SizeIsSum
<1> QED BY <1>1, ListInvariant, PTL

-----------------------------------------------------------------------------
(***************************************************************************)
(* Refinement                                                              *)
(***************************************************************************)
\* The number of bytes the FIFO has accepted, as the instance maps it.
accepted == IF InPush THEN stored + remaining ELSE stored

\* Every step of a call is a step of the FIFO or leaves it alone: the call of a
\* push accepts its bytes, the return of a pop delivers its bytes.
LEMMA FifoStep ==
    ASSUME ListInv, [Next]_vars
    PROVE  [Fifo!FifoNext]_(Fifo!fifoVars)
<1> SUFFICES \/ Fifo!FifoNext
             \/ accepted' = accepted /\ delivered' = delivered
    BY DEF Fifo!fifoVars, accepted
<1>0. /\ remaining \in Nat /\ stored \in Nat /\ delivered \in Seq(Nat) /\ out \in Seq(Nat)
      /\ Len(delivered) \in Nat /\ Len(out) \in Nat
      BY DEF ListInv, TypeOK
<1>1. ASSUME NEW size \in 1..MaxRequest, PushCall(size)
      PROVE  Fifo!FifoNext
  <2>1. accepted = stored /\ accepted' = stored + size /\ stored + size <= MaxBytes
        /\ delivered' = delivered
        BY <1>1 DEF PushCall, accepted, InPush
  <2>2. Fifo!FifoPush(size)
        BY <2>1 DEF Fifo!FifoPush, accepted
  <2> QED BY <2>2 DEF Fifo!FifoNext
<1>2. ASSUME NEW size \in 1..MaxRequest, PopCall(size)
      PROVE  accepted' = accepted /\ delivered' = delivered
      BY <1>2 DEF PopCall, accepted, InPush
<1>3. CASE PushTail
  <2>1. InPush /\ InPush' /\ delivered' = delivered
        BY <1>3 DEF PushTail, InPush
  <2>2. node = tail /\ nodes # 0
        BY <1>3 DEF PushTail, ListInv, CallInProgress
  <2>3. heap[node] \in NodeType
        BY <2>2 DEF ListInv, ListWellFormed, TypeOK
  <2>4. Room(heap[node]) \in Int
        BY <2>3 DEF Room, NodeType
  <2>5. stored' + remaining' = stored + remaining
        BY <1>0, <1>3, <2>4 DEF PushTail, Min2
  <2> QED BY <2>1, <2>5 DEF accepted
<1>4. CASE PushNode
  <2>1. InPush /\ InPush' /\ delivered' = delivered
        BY <1>4 DEF PushNode, InPush
  <2>2. stored' + remaining' = stored + remaining
        BY <1>0, <1>4 DEF PushNode, Min2
  <2> QED BY <2>1, <2>2 DEF accepted
<1>5. CASE PushReturn
      BY <1>0, <1>5 DEF PushReturn, accepted, InPush
<1>6. CASE PopNode
      BY <1>6 DEF PopNode, accepted, InPush
<1>7. CASE PopReturn
  <2>1. accepted = stored /\ accepted' = stored /\ delivered' = delivered \o out
        BY <1>7 DEF PopReturn, accepted, InPush
  <2>2. /\ out = Run(Len(delivered), Len(out))
        /\ Len(out) <= accepted - Len(delivered)
        BY <1>0, <2>1 DEF ListInv, PoppedInOrder, Popped
  <2>3. CASE Len(out) = 0
        BY <1>0, <2>1, <2>3
  <2>4. CASE Len(out) # 0
    <3>1. Len(out) \in 1..MaxRequest
          BY <1>0, <1>7, <2>4 DEF ListInv, CallInProgress, PopReturn
    <3>2. Fifo!FifoPop(Len(out))
      <4>1. Len(out) = IF Len(out) < accepted - Len(delivered) THEN Len(out)
                       ELSE accepted - Len(delivered)
            BY <1>0, <2>1, <2>2
      <4>2. delivered' = delivered \o Fifo!Run(Len(delivered), Len(out))
            BY <2>1, <2>2 DEF Fifo!Run, Run
      <4> QED BY <2>1, <4>1, <4>2 DEF Fifo!FifoPop, Fifo!Backlog, accepted
    <3> QED BY <3>1, <3>2 DEF Fifo!FifoNext
  <2> QED BY <2>3, <2>4
<1>8. CASE OutOfMemory
      BY <1>8 DEF OutOfMemory, accepted, InPush, ListInv, CallInProgress
<1>9. CASE UNCHANGED vars
      BY <1>9 DEF vars, accepted, InPush
<1>10. CASE PopNothing \/ Exited
       BY <1>9, <1>10 DEF PopNothing, Exited
<1> QED BY <1>1, <1>2, <1>3, <1>4, <1>5, <1>6, <1>7, <1>8, <1>9, <1>10 DEF Next, Call, Step

\* linkedbuffer.c implements the FIFO of bytes, for every node capacity and
\* every sequence of pushes and pops.
THEOREM LinkedBufferIsFifo == Spec => ImplementsFifo
<1>1. Init => Fifo!FifoInit
      BY DEF Init, Fifo!FifoInit, InPush
<1>2. ListInv /\ [Next]_vars => [Fifo!FifoNext]_(Fifo!fifoVars)
      BY FifoStep
<1> QED BY <1>1, <1>2, ListInvariant, PTL DEF Spec, ImplementsFifo, Fifo!FifoSpec
=============================================================================
