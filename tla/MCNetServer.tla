---------------------------- MODULE MCNetServer -----------------------------
(***************************************************************************)
(* NetServer for TLC.  Connections differ only in the order in which they  *)
(* happen to be accepted, so safety is checked up to their renaming.       *)
(***************************************************************************)
EXTENDS NetServer, TLC

ConnSymmetry == Permutations(Conns)
=============================================================================
