------------------------------ MODULE MCStation -----------------------------
(***************************************************************************)
(* Station for TLC: every configuration file of four lines with two of the *)
(* TNC's keys, for a table of three entries.                               *)
(***************************************************************************)
EXTENDS Station

Lines == {<<"#", "HOST", "a">>, <<"HOST">>, <<"HOST", "a">>, <<"HOST", "b">>, <<"RATE", "8">>}

MCConfigFiles == [1..4 -> Lines]
MCAtoi(word) == IF word = "8" THEN 8 ELSE 0
=============================================================================
