------------------------------- MODULE MCKiss -------------------------------
(***************************************************************************)
(* Kiss for TLC: every message of at most MaxData data bytes from a set    *)
(* that holds each special byte and an ordinary one.                       *)
(***************************************************************************)
EXTENDS Kiss

CONSTANTS MaxData, DataBytes

MCDataFrames ==
    [port : {0}, command : {0}, data : UNION {[1..n -> DataBytes] : n \in 0..MaxData}]

MCMessages ==
    MCDataFrames \cup {[port |-> 15, command |-> 1, data |-> <<30>>],
                       [port |-> 0, command |-> KISS_RETURN, data |-> <<>>]}
=============================================================================
