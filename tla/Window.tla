------------------------------- MODULE Window -------------------------------
(***************************************************************************)
(* src/modemstuff/window.c: the last Size samples as one contiguous piece  *)
(* of a larger buffer, so that the Goertzel filter can read them in place. *)
(* The piece moves one cell per sample and back to the start when it has   *)
(* reached the end of the buffer.                                          *)
(***************************************************************************)
EXTENDS Integers

CONSTANTS Size,        \* window->size
          Oversizing,  \* buf_oversizing
          Samples,     \* the values a sample may have
          Zero,        \* the sample 0.0
          Junk         \* what malloc() leaves in a cell, and what lies behind buf

\* With an oversizing of 1 the copied piece would overlap its destination.
ASSUME WindowAssumption ==
    /\ Size \in Nat \ {0} /\ Oversizing \in Nat \ {0, 1}
    /\ Zero \in Samples /\ Junk \notin Samples

buf_size == Size * Oversizing + 1
Cells == 0 .. buf_size - 1

VARIABLES buf, head, tail,
          recent       \* history: the last Size samples pushed, oldest at 0

windowVars == <<buf, head, tail, recent>>

\* buf[i], for any i the code computes.
Cell(i) == IF i \in Cells THEN buf[i] ELSE Junk

\* ms_window_init
WindowInit ==
    /\ buf = [i \in Cells |-> IF i < Size THEN Zero ELSE Junk]
    /\ head = 0
    /\ tail = Size
    /\ recent = [i \in 0 .. Size - 1 |-> Zero]

\* Mutant of MovedBack: the oldest sample is kept.
MovedWhole == [i \in Cells |-> IF i < Size THEN Cell(head + i) ELSE buf[i]]

\* The cells after memcpy() has moved the piece to the start; the last of the
\* Size floats it reads lies behind the buffer.
MovedBack == [i \in Cells |-> IF i < Size THEN Cell(head + 1 + i) ELSE buf[i]]

Remember(sample) ==
    recent' = [i \in 0 .. Size - 1 |-> IF i = Size - 1 THEN sample ELSE recent[i + 1]]

\* Mutant of ms_window_push: the tail is left where it was.
PushKeepsTail(sample) ==
    /\ IF head = buf_size - Size
       THEN buf' = [MovedBack EXCEPT ![Size - 1] = sample] /\ head' = 0
       ELSE buf' = [buf EXCEPT ![tail] = sample] /\ head' = head + 1
    /\ tail' = IF tail = buf_size THEN tail ELSE tail + 1
    /\ Remember(sample)

ms_window_push(sample) ==
    /\ IF head = buf_size - Size
       THEN /\ buf' = [MovedBack EXCEPT ![Size - 1] = sample]
            /\ head' = 0
            /\ tail' = Size
       ELSE /\ buf' = [buf EXCEPT ![tail] = sample]
            /\ head' = head + 1
            /\ tail' = tail + 1
    /\ Remember(sample)

-----------------------------------------------------------------------------
WindowTypeOK ==
    /\ buf \in [Cells -> Samples \cup {Junk}]
    /\ head \in 0 .. buf_size - Size
    /\ tail = head + Size
    /\ recent \in [0 .. Size - 1 -> Samples]

\* What the Goertzel filter is given, buf + head, is exactly the last Size
\* samples in order, before and after the piece moved back over the buffer's
\* end; the float read behind the buffer never shows.
WindowIsRecent == \A i \in 0 .. Size - 1 : Cell(head + i) = recent[i]
=============================================================================
