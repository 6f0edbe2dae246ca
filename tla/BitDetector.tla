----------------------------- MODULE BitDetector ----------------------------
(***************************************************************************)
(* src/modemstuff/bitdet.c: recovers bits from soft symbols, one per       *)
(* sample.  A change of sign restarts the clock in the middle of a bit;    *)
(* without one a bit is returned every bit_period + 1 samples.             *)
(***************************************************************************)
EXTENDS Integers

CONSTANTS Period       \* bit_period, sample_rate / baud_rate cut to an int

ASSUME PeriodAssumption == Period \in Nat \ {0}

Bits == {0, 1}
None == -1             \* MS_BIT_NONE

VARIABLES samples_to_return, last_bit

detectorVars == <<samples_to_return, last_bit>>

\* ms_bit_detector_init
DetectorInit == samples_to_return = 0 /\ last_bit = None

\* Does a call return bit, the sign of its symbol, rather than MS_BIT_NONE?
Returns(bit) == bit = last_bit /\ samples_to_return = 0

\* Mutant of Clock: a change restarts the clock at the end of a bit.
ClockWhole(bit) ==
    samples_to_return' = IF bit # last_bit \/ samples_to_return = 0 THEN Period
                         ELSE samples_to_return - 1

Clock(bit) ==
    samples_to_return' = IF bit # last_bit THEN Period \div 2
                         ELSE IF samples_to_return = 0 THEN Period
                         ELSE samples_to_return - 1

ms_bit_detector_process(bit) ==
    /\ Clock(bit)
    /\ last_bit' = bit
=============================================================================
