----------------------------- MODULE Demodulator ----------------------------
(***************************************************************************)
(* apps/ax25tnc/demodulator.c up to the bit detector, and the generator    *)
(* that feeds another station's: a transmission is a sequence of levels,   *)
(* each some samples long; the receiver handles one sample per turn of its *)
(* loop.  Between transmissions it hears anything.                         *)
(*                                                                         *)
(* The filters and the Goertzel algorithm are floating-point arithmetic    *)
(* and left out: a symbol has the sign of the level in the air.  (Their    *)
(* delay is the same for every sample and does not matter here.)  Samples  *)
(* are told apart by their number in the stream.                           *)
(***************************************************************************)
EXTENDS Window, BitDetector

CONSTANTS Numbers,         \* bound: samples are numbered modulo this
          MaxRun,          \* the most equal levels in a row that a frame can have
          MinLen, MaxLen   \* samples per level: the sender's clock may differ

Half == Period \div 2

\* Period + 1 - MinLen and MaxLen - Period - 1 are how far the clock slips in
\* one bit; it must not slip out of the bit before the next change of level.
ASSUME DemodulatorAssumption ==
    /\ Size = Period
    /\ Numbers \in Nat \ {0} /\ Samples = 0 .. Numbers - 1 /\ Zero = 0
    /\ MaxRun \in Nat \ {0} /\ MinLen \in Nat \ {0} /\ MaxLen \in Nat /\ MinLen <= MaxLen
    /\ Half + 2 + (MaxRun - 1) * (Period + 1 - MinLen) <= MinLen
    /\ MaxRun * (MaxLen - Period - 1) <= Half + 1

VARIABLES
    sample,    \* number of the next sample
    sending,   \* is there a transmission?
    level,     \* the level being sent
    pos, len,  \* how many of its samples have been sent, and how many it has
    run,       \* how many levels in a row had this value
    locked,    \* has the level changed during the transmission?
    heard      \* history: how many bits were returned during the level

vars == <<windowVars, detectorVars, sample, sending, level, pos, len, run, locked, heard>>

Init ==
    /\ WindowInit /\ DetectorInit
    /\ sample = 0
    /\ sending = FALSE /\ level = 0 /\ pos = 0 /\ len = 0 /\ run = 0
    /\ locked = FALSE /\ heard = 0

\* ms_fsk_detector_process
Detect ==
    /\ ms_window_push(sample)
    /\ sample' = (sample + 1) % Numbers

\* The sample that ms_fsk_detector_init processes itself.
Fresh == last_bit = None /\ head = 0

Prime ==
    /\ Fresh
    /\ Detect
    /\ UNCHANGED <<detectorVars, sending, level, pos, len, run, locked, heard>>

\* One turn of ax25tnc_demodulator_process for a sample of the given sign.
Process(bit) ==
    /\ ~Fresh
    /\ Detect
    /\ ms_bit_detector_process(bit)

\* Between transmissions, or after the last level of one.
Noise(bit) ==
    /\ sending => pos = len
    /\ Process(bit)
    /\ sending' = FALSE /\ level' = 0 /\ pos' = 0 /\ len' = 0 /\ run' = 0
    /\ locked' = FALSE /\ heard' = 0

\* ms_fsk_generator_process: the first sample of a level of n samples.  Bit
\* stuffing and flags bound the number of equal levels in a row.
SendLevel(bit, n) ==
    /\ sending => pos = len
    /\ sending /\ bit = level => run < MaxRun
    /\ Process(bit)
    /\ sending' = TRUE /\ level' = bit /\ pos' = 1 /\ len' = n
    /\ run' = IF sending /\ bit = level THEN run + 1 ELSE 1
    /\ locked' = (locked \/ bit # last_bit)
    /\ heard' = IF Returns(bit) THEN 1 ELSE 0

\* The next sample of the level.
SendSample ==
    /\ sending /\ pos < len
    /\ Process(level)
    /\ pos' = pos + 1
    /\ heard' = IF Returns(level) THEN heard + 1 ELSE heard
    /\ UNCHANGED <<sending, level, len, run, locked>>

Next ==
    \/ Prime \/ SendSample
    \/ \E bit \in Bits : Noise(bit) \/ \E n \in MinLen .. MaxLen : SendLevel(bit, n)

Spec == Init /\ [][Next]_vars

-----------------------------------------------------------------------------
\* The detector's fields and the window's indices stay in range.
TypeOK ==
    /\ WindowTypeOK
    /\ samples_to_return \in 0 .. Period
    /\ last_bit \in Bits \cup {None}
    /\ sample \in Samples
    /\ sending \in BOOLEAN /\ locked \in BOOLEAN
    /\ level \in Bits
    /\ pos \in 0 .. MaxLen /\ len \in 0 .. MaxLen /\ run \in 0 .. MaxRun
    /\ heard \in Nat

\* From the first change of level on, the bit detector returns every level
\* exactly once and within the level's own samples: however long runs of equal
\* levels are stuffed, whatever was heard before, and although its clock counts
\* one sample more than a bit, no bit slips into the next or is skipped.
OneBitPerLevel ==
    sending /\ locked =>
        /\ heard \in {0, 1}
        /\ pos = len => heard = 1
=============================================================================
