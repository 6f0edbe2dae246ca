------------------------------ MODULE ByteFifo ------------------------------
(***************************************************************************)
(* What datastuff promises its users (README: "dynamically allocated,      *)
(* linked-list based FIFO queue"), free of nodes, offsets and pointers.    *)
(*                                                                         *)
(* A byte is named by its position in the stream of bytes pushed, so any   *)
(* two bytes are told apart and the queue's content is the interval        *)
(* between what was delivered and what was accepted.                       *)
(***************************************************************************)
EXTENDS Naturals, Sequences

CONSTANTS MaxBytes,    \* bound: bytes pushed in one behaviour
          MaxRequest   \* bound: bytes asked for in one call

VARIABLES accepted,    \* number of bytes pushed so far
          delivered    \* the bytes handed out by all pops so far, in order

fifoVars == <<accepted, delivered>>

\* The n stream positions that follow position a.
Run(a, n) == [j \in 1..n |-> a + j]

Backlog == accepted - Len(delivered)

FifoInit ==
    /\ accepted = 0
    /\ delivered = <<>>

\* A push of n bytes appends all of them.
FifoPush(n) ==
    /\ accepted + n <= MaxBytes
    /\ accepted' = accepted + n
    /\ UNCHANGED delivered

\* A pop of up to n bytes takes the oldest bytes, as many as there are.
FifoPop(n) ==
    LET m == IF n < Backlog THEN n ELSE Backlog
    IN  /\ delivered' = delivered \o Run(Len(delivered), m)
        /\ UNCHANGED accepted

FifoNext == \E n \in 1..MaxRequest : FifoPush(n) \/ FifoPop(n)

FifoSpec == FifoInit /\ [][FifoNext]_fifoVars
=============================================================================
