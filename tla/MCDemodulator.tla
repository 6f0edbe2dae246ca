---------------------------- MODULE MCDemodulator ---------------------------
(***************************************************************************)
(* Demodulator for TLC: more sample numbers than the window's buffer has   *)
(* cells, so that an old sample is never taken for a new one.              *)
(***************************************************************************)
EXTENDS Demodulator

MCSamples == 0 .. Numbers - 1
=============================================================================
