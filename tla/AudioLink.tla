------------------------------ MODULE AudioLink -----------------------------
(***************************************************************************)
(* What a station promises of its samples, free of threads, sockets and    *)
(* the mutex: a TNC's samples reach the loudspeaker and the microphone's   *)
(* reach the TNC, as long as the connection stands every byte of them.     *)
(*                                                                         *)
(* Samples for the loudspeaker are stored in sessions and played between   *)
(* sessions.  A buffer that is played has as many bytes of them as there   *)
(* are, so silence fills it up only when nothing is left.                  *)
(***************************************************************************)
EXTENDS Naturals

CONSTANTS Bit,       \* bytes of samples per bit
          Buffers    \* the sizes of the sound card's buffers, in bytes

VARIABLES link,      \* "none", "up" or "broken"
          session,   \* is a session open?
          toAudio,   \* bytes sent by the TNC and not yet stored
          speaker,   \* bytes stored and not yet played
          toTnc      \* bytes recorded and not yet received by the TNC

linkVars == <<link, session, toAudio, speaker, toTnc>>

LinkInit == link = "none" /\ session = FALSE /\ toAudio = 0 /\ speaker = 0 /\ toTnc = 0

Connect ==
    /\ link = "none" /\ link' = "up"
    /\ UNCHANGED <<session, toAudio, speaker, toTnc>>

\* The TNC sends the samples of one bit ...
Transmit ==
    /\ link = "up" /\ toAudio' = toAudio + Bit
    /\ UNCHANGED <<link, session, speaker, toTnc>>

\* ... which are stored, any number of bytes at once, in a session ...
OpenSession ==
    /\ ~session /\ session' = TRUE
    /\ toAudio > 0
    /\ UNCHANGED <<link, toAudio, speaker, toTnc>>

Store ==
    /\ session
    /\ toAudio' < toAudio /\ speaker' = speaker + (toAudio - toAudio')
    /\ UNCHANGED <<link, session, toTnc>>

CloseSession ==
    /\ session /\ session' = FALSE
    /\ UNCHANGED <<link, toAudio, speaker, toTnc>>

\* ... and played when none is open.
Play ==
    /\ ~session
    /\ \E size \in Buffers : speaker' = IF speaker < size THEN 0 ELSE speaker - size
    /\ UNCHANGED <<link, session, toAudio, toTnc>>

\* Whole buffers are recorded, any number of bytes received.
Record ==
    /\ link = "up"
    /\ \E size \in Buffers : toTnc' = toTnc + size
    /\ UNCHANGED <<link, session, toAudio, speaker>>

Receive ==
    /\ toTnc' < toTnc
    /\ UNCHANGED <<link, session, toAudio, speaker>>

\* Once the connection is broken, what was not received may be lost, but nothing
\* that was stored.
LoseSamples ==
    /\ link = "broken" /\ toAudio' = 0
    /\ UNCHANGED <<link, session, speaker, toTnc>>

\* Either program may end, and takes with it what it was to get.
AudioEnds ==
    /\ link' = "broken" /\ session' = FALSE /\ toAudio' = 0 /\ speaker' = 0
    /\ UNCHANGED toTnc

TncEnds ==
    /\ link # "none" /\ link' = "broken" /\ toTnc' = 0
    /\ UNCHANGED <<session, toAudio, speaker>>

LinkNext ==
    \/ Connect \/ Transmit \/ OpenSession \/ Store \/ CloseSession \/ Play
    \/ Record \/ Receive \/ LoseSamples \/ AudioEnds \/ TncEnds

LinkSpec == LinkInit /\ [][LinkNext]_linkVars
=============================================================================
