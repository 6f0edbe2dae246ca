----------------------------- MODULE MCAx25Link -----------------------------
(***************************************************************************)
(* Ax25Link for TLC: packets that look like flags, that need stuffing at   *)
(* the end of a byte and of the packet, one that just fits the deframer    *)
(* and one too long for it.                                                *)
(***************************************************************************)
EXTENDS Ax25Link

MCPackets == {<<126, 126>>, <<255, 3, 248>>, <<126, 255, 0, 7>>}

\* A clear stack, or ones where the packet comes to lie after four flags.
MCGarbage == {Unwritten, [k \in Cells |-> IF k \in 32..47 THEN 1 ELSE 0]}
=============================================================================
