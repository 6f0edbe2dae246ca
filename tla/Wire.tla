-------------------------------- MODULE Wire --------------------------------
(***************************************************************************)
(* The TCP connection between netaud and ax25tnc (external): two streams   *)
(* of bytes in sockets of bounded size.  No property looks at the bytes,   *)
(* only at how many there are and whether samples stay whole.              *)
(***************************************************************************)
EXTENDS Integers

CONSTANTS SampleSize,    \* sizeof(float)
          UpCap,         \* room for bytes on the way to netaud
          DownCap        \* room for bytes on the way to ax25tnc

ASSUME WireAssumption ==
    /\ SampleSize \in Nat \ {0} /\ UpCap \in Nat /\ DownCap \in Nat

VARIABLES tnc_end,   \* ax25tnc's end: "none", "open" or "closed"
          aud_end,   \* netaud's end: "none", "queued" (not accepted), "open" or "closed"
          up,        \* bytes sent to netaud and not yet received
          down,      \* bytes sent to ax25tnc and not yet received
          cut        \* history: has a recv() ended within a sample?

wireVars == <<tnc_end, aud_end, up, down, cut>>

WireInit == tnc_end = "none" /\ aud_end = "none" /\ up = 0 /\ down = 0 /\ cut = FALSE

\* What recv() with a buffer of n bytes may return: any part of what is there.
Chunks(n, there) == 1 .. (IF n < there THEN n ELSE there)

Cuts(n) == cut' = (cut \/ n % SampleSize # 0)

WireTypeOK ==
    /\ tnc_end \in {"none", "open", "closed"}
    /\ aud_end \in {"none", "queued", "open", "closed"}
    /\ up \in 0 .. UpCap /\ down \in 0 .. DownCap /\ cut \in BOOLEAN
=============================================================================
