-------------------------- MODULE DemodulatorProofs -------------------------
(***************************************************************************)
(* Proofs about Demodulator: the window holds the last samples, and for    *)
(* every bit period and every clock of the sender that                     *)
(* DemodulatorAssumption allows the bit detector returns each level once.  *)
(***************************************************************************)
EXTENDS Demodulator, TLAPS

-----------------------------------------------------------------------------
(***************************************************************************)
(* Window                                                                  *)
(***************************************************************************)
\* The buffer is longer than the window.
LEMMA BufferLonger == buf_size \in Nat /\ Size \in Nat \ {0} /\ buf_size > Size
<1>1. Size \in Nat \ {0} /\ Oversizing \in Nat \ {0, 1}
  BY WindowAssumption
<1>2. Size * Oversizing \in Nat /\ Size * Oversizing >= Size
  BY <1>1
<1>. QED  BY <1>1, <1>2 DEF buf_size

\* What the window keeps true.
WindowInv == WindowTypeOK /\ WindowIsRecent

LEMMA WindowInitially == WindowInit => WindowInv
<1>. SUFFICES ASSUME WindowInit PROVE WindowInv
  OBVIOUS
<1>. USE BufferLonger, WindowAssumption DEF WindowInit, Cells
<1>1. WindowTypeOK
  BY DEF WindowTypeOK
<1>2. WindowIsRecent
  BY DEF WindowIsRecent, Cell
<1>. QED  BY <1>1, <1>2 DEF WindowInv

\* A push that finds the window at the buffer's end, and one that does not.
LEMMA WindowPush ==
    ASSUME WindowInv, NEW s \in Samples, ms_window_push(s)
    PROVE  WindowInv'
<1>. USE BufferLonger
<1>1. /\ buf \in [Cells -> Samples \cup {Junk}]
      /\ head \in 0 .. buf_size - Size /\ tail = head + Size
      /\ recent \in [0 .. Size - 1 -> Samples]
      /\ \A i \in 0 .. Size - 1 : Cell(head + i) = recent[i]
  BY DEF WindowInv, WindowTypeOK, WindowIsRecent
<1>2. /\ recent' \in [0 .. Size - 1 -> Samples]
      /\ recent'[Size - 1] = s
      /\ \A i \in 0 .. Size - 2 : recent'[i] = recent[i + 1]
  BY <1>1 DEF ms_window_push, Remember
<1>3. CASE head = buf_size - Size
  <2>1. buf' = [MovedBack EXCEPT ![Size - 1] = s] /\ head' = 0 /\ tail' = Size
    BY <1>3 DEF ms_window_push
  <2>2. \A i \in Int : Cell(i) \in Samples \cup {Junk}
    BY <1>1 DEF Cell
  <2>3. MovedBack \in [Cells -> Samples \cup {Junk}]
    BY <1>1, <2>2 DEF MovedBack, Cells
  <2>4. buf' \in [Cells -> Samples \cup {Junk}]
    BY <2>1, <2>3
  <2>5. WindowTypeOK'
    BY <1>2, <2>1, <2>4 DEF WindowTypeOK
  <2>6. ASSUME NEW i \in 0 .. Size - 1
        PROVE  Cell(head + i)' = recent'[i]
    <3>1. i \in Cells /\ Size - 1 \in Cells
      BY DEF Cells
    <3>2. Cell(head + i)' = buf'[i]
      BY <2>1, <3>1 DEF Cell
    <3>3. CASE i = Size - 1
      BY <1>2, <2>1, <2>3, <3>1, <3>2, <3>3
    <3>4. CASE i # Size - 1
      <4>1. buf'[i] = MovedBack[i]
        BY <2>1, <2>3, <3>1, <3>4
      <4>2. MovedBack[i] = Cell(head + 1 + i)
        BY <3>1 DEF MovedBack
      <4>3. i + 1 \in 0 .. Size - 1 /\ i \in 0 .. Size - 2 /\ head + 1 + i = head + (i + 1)
        BY <1>1, <3>4
      <4>. QED  BY <1>1, <1>2, <3>2, <4>1, <4>2, <4>3
    <3>. QED  BY <3>3, <3>4
  <2>. QED  BY <2>5, <2>6 DEF WindowInv, WindowIsRecent
<1>4. CASE head # buf_size - Size
  <2>1. buf' = [buf EXCEPT ![tail] = s] /\ head' = head + 1 /\ tail' = tail + 1
    BY <1>4 DEF ms_window_push
  <2>2. tail \in Cells /\ head + 1 \in 0 .. buf_size - Size
    BY <1>1, <1>4 DEF Cells
  <2>3. WindowTypeOK'
    BY <1>1, <1>2, <2>1, <2>2 DEF WindowTypeOK
  <2>4. ASSUME NEW i \in 0 .. Size - 1
        PROVE  Cell(head + i)' = recent'[i]
    <3>1. head + 1 + i \in Cells
      BY <1>1, <2>2 DEF Cells
    <3>2. Cell(head + i)' = buf'[head + 1 + i]
      BY <2>1, <3>1 DEF Cell
    <3>3. CASE i = Size - 1
      <4>1. head + 1 + i = tail
        BY <1>1, <3>3
      <4>. QED  BY <1>1, <1>2, <2>1, <2>2, <3>2, <3>3, <4>1
    <3>4. CASE i # Size - 1
      <4>1. /\ head + 1 + i # tail
            /\ i + 1 \in 0 .. Size - 1 /\ i \in 0 .. Size - 2
            /\ head + 1 + i = head + (i + 1)
        BY <1>1, <3>4
      <4>2. buf'[head + 1 + i] = buf[head + 1 + i]
        BY <1>1, <2>1, <3>1, <4>1
      <4>3. Cell(head + (i + 1)) = buf[head + 1 + i]
        BY <3>1, <4>1 DEF Cell
      <4>. QED  BY <1>1, <1>2, <3>2, <4>1, <4>2, <4>3
    <3>. QED  BY <3>3, <3>4
  <2>. QED  BY <2>3, <2>4 DEF WindowInv, WindowIsRecent
<1>. QED  BY <1>3, <1>4

-----------------------------------------------------------------------------
(***************************************************************************)
(* Bit detector                                                            *)
(***************************************************************************)
\* The first and the last of its own samples at which the r-th level of a run
\* may be returned.  The first level's is Half + 2; with each further level the
\* clock slips by Period + 1 less the length of the level before.
Earliest(r) == Half + 2 - (r - 1) * (MaxLen - Period - 1)
Latest(r) == Half + 2 + (r - 1) * (Period + 1 - MinLen)

LEMMA Lengths ==
    /\ Period \in Nat \ {0} /\ Half \in Nat /\ Half + 1 <= Period
    /\ MaxRun \in Nat \ {0} /\ MinLen \in Nat \ {0} /\ MaxLen \in Nat /\ MinLen <= MaxLen
BY DemodulatorAssumption, PeriodAssumption DEF Half

LEMMA Monotone ==
    ASSUME NEW a \in Int, NEW b \in Int, NEW n \in Nat, a <= b
    PROVE  a * n <= b * n
<1>1. a * n + (b - a) * n = b * n
  OBVIOUS
<1>2. (b - a) \in Nat
  OBVIOUS
<1>3. (b - a) * n >= 0
  BY <1>2
<1>. QED  BY <1>1, <1>3

\* A level is returned before it ends, and not again before the next.
LEMMA Windows ==
    ASSUME NEW r \in 1 .. MaxRun
    PROVE  /\ Earliest(r) \in Int /\ Latest(r) \in Int
           /\ Earliest(r) >= 1 /\ Latest(r) <= MinLen
           /\ Earliest(r) - (MaxLen - Period - 1) >= 1
<1>. USE Lengths
<1>1. PICK a \in Int : a = MaxLen - Period - 1
  OBVIOUS
<1>2. PICK b \in Int : b = Period + 1 - MinLen
  OBVIOUS
<1>3. Half + 2 + (MaxRun - 1) * b <= MinLen /\ MaxRun * a <= Half + 1
  BY <1>1, <1>2, DemodulatorAssumption
<1>4. Earliest(r) = Half + 2 - (r - 1) * a /\ Latest(r) = Half + 2 + (r - 1) * b
  BY <1>1, <1>2 DEF Earliest, Latest
<1>5. r - 1 \in Nat /\ r \in Nat /\ MaxRun - 1 \in Nat /\ (r - 1) * a \in Int
      /\ (r - 1) * b \in Int /\ (r - 1) * a + a = r * a
  OBVIOUS
<1>6. (r - 1) * a <= Half + 1 /\ r * a <= Half + 1
  <2>1. CASE a >= 0
    <3>1. a \in Nat
      BY <2>1
    <3>2. r * a <= MaxRun * a
      BY <1>5, <3>1, Monotone
    <3>. QED  BY <1>3, <1>5, <3>1, <3>2
  <2>2. CASE a < 0
    <3>1. -a \in Nat
      BY <2>2
    <3>2. (r - 1) * (-a) >= 0 /\ r * (-a) >= 0
      BY <1>5, <3>1
    <3>. QED  BY <1>5, <3>1, <3>2
  <2>. QED  BY <2>1, <2>2
<1>7. (r - 1) * b <= MinLen - Half - 2
  <2>1. CASE b >= 0
    <3>1. b \in Nat
      BY <2>1
    <3>2. (r - 1) * b <= (MaxRun - 1) * b
      BY <1>5, <3>1, Monotone
    <3>. QED  BY <1>3, <1>5, <3>1, <3>2
  <2>2. CASE b < 0
    <3>1. -b \in Nat
      BY <2>2
    <3>2. (r - 1) * (-b) >= 0
      BY <1>5, <3>1
    <3>3. MinLen - Half - 2 >= 0
      BY <1>2, <2>2
    <3>. QED  BY <1>5, <3>1, <3>2, <3>3
  <2>. QED  BY <2>1, <2>2
<1>. QED  BY <1>1, <1>4, <1>5, <1>6, <1>7

\* The next level of a run begins after one of some length n.
LEMMA NextWindow ==
    ASSUME NEW r \in 1 .. MaxRun, NEW n \in MinLen .. MaxLen,
           NEW p \in Earliest(r) .. Latest(r)
    PROVE  p + Period + 1 - n \in Earliest(r + 1) .. Latest(r + 1)
<1>. USE Lengths
<1>1. PICK a \in Int : a = MaxLen - Period - 1
  OBVIOUS
<1>2. PICK b \in Int : b = Period + 1 - MinLen
  OBVIOUS
<1>3. /\ Earliest(r) = Half + 2 - (r - 1) * a /\ Latest(r) = Half + 2 + (r - 1) * b
      /\ Earliest(r + 1) = Half + 2 - r * a /\ Latest(r + 1) = Half + 2 + r * b
  BY <1>1, <1>2 DEF Earliest, Latest
<1>4. (r - 1) * a + a = r * a /\ (r - 1) * b + b = r * b
  OBVIOUS
<1>5. Earliest(r + 1) = Earliest(r) - a /\ Latest(r + 1) = Latest(r) + b
      /\ Earliest(r) \in Int /\ Latest(r) \in Int
  BY <1>3, <1>4
<1>. QED  BY <1>1, <1>2, <1>5

LEMMA FirstWindow == Earliest(1) = Half + 2 /\ Latest(1) = Half + 2
BY Lengths DEF Earliest, Latest

\* The sample of its level at which the level's bit is or was returned.
ReturnedAt == pos + samples_to_return + (IF heard = 0 THEN 1 ELSE -Period)

\* The detector's clock against the sender's.
ClockInv ==
    /\ locked => sending
    /\ sending =>
        /\ last_bit = level
        /\ len \in MinLen .. MaxLen /\ pos \in 1 .. len /\ run \in 1 .. MaxRun
    /\ sending /\ locked =>
        /\ heard \in {0, 1}
        /\ ReturnedAt \in Earliest(run) .. Latest(run)

\* The window, the clock and their types together are inductive.
DemodulatorInv == TypeOK /\ WindowIsRecent /\ ClockInv

LEMMA ClockGivesOneBit == DemodulatorInv => OneBitPerLevel
<1>. SUFFICES ASSUME DemodulatorInv, sending, locked
              PROVE  heard \in {0, 1} /\ (pos = len => heard = 1)
  BY DEF OneBitPerLevel
<1>1. /\ heard \in {0, 1} /\ ReturnedAt \in Earliest(run) .. Latest(run)
      /\ run \in 1 .. MaxRun /\ len \in MinLen .. MaxLen /\ pos \in 1 .. len
      /\ samples_to_return \in 0 .. Period
  BY DEF DemodulatorInv, ClockInv, TypeOK
<1>2. Latest(run) \in Int /\ Earliest(run) \in Int /\ Latest(run) <= MinLen
  BY <1>1, Windows
<1>3. heard = 0 => pos + samples_to_return + 1 <= Latest(run)
  BY <1>1, <1>2, Lengths DEF ReturnedAt
<1>. QED  BY <1>1, <1>2, <1>3, Lengths

\* A turn of the demodulator's loop keeps the window and the detector's fields.
LEMMA ProcessType ==
    ASSUME DemodulatorInv, NEW bit \in Bits, Process(bit)
    PROVE  /\ WindowInv'
           /\ samples_to_return' \in 0 .. Period /\ last_bit' = bit
           /\ sample' \in Samples
<1>1. sample \in Samples /\ WindowInv /\ samples_to_return \in 0 .. Period
  BY DEF DemodulatorInv, TypeOK, WindowInv
<1>2. WindowInv'
  BY <1>1, WindowPush DEF Process, Detect
<1>3. sample' \in Samples
  BY <1>1, DemodulatorAssumption DEF Process, Detect
<1>4. samples_to_return' \in 0 .. Period /\ last_bit' = bit
  BY <1>1, Lengths DEF Process, ms_bit_detector_process, Clock, Half
<1>. QED  BY <1>2, <1>3, <1>4

LEMMA DemodulatorInitially == Init => DemodulatorInv
<1>. SUFFICES ASSUME Init PROVE DemodulatorInv
  OBVIOUS
<1>1. WindowTypeOK /\ WindowIsRecent
  BY WindowInitially DEF Init, WindowInv
<1>2. TypeOK
  <2>1. sending \in BOOLEAN /\ locked \in BOOLEAN
    BY DEF Init
  <2>2. /\ samples_to_return \in 0 .. Period /\ last_bit \in Bits \cup {None}
        /\ sample \in Samples /\ level \in Bits /\ heard \in Nat
    BY Lengths, DemodulatorAssumption DEF Init, DetectorInit, Bits, None
  <2>3. pos \in 0 .. MaxLen /\ len \in 0 .. MaxLen /\ run \in 0 .. MaxRun
    BY Lengths DEF Init
  <2>. QED  BY <1>1, <2>1, <2>2, <2>3 DEF TypeOK
<1>3. ClockInv
  BY DEF ClockInv, Init
<1>. QED  BY <1>1, <1>2, <1>3 DEF DemodulatorInv

\* Noise ends the sender's level; nothing is claimed of the detector's bits.
LEMMA NoiseKeeps ==
    ASSUME DemodulatorInv, NEW bit \in Bits, Noise(bit)
    PROVE  DemodulatorInv'
<1>1. /\ WindowInv' /\ samples_to_return' \in 0 .. Period /\ last_bit' = bit
      /\ sample' \in Samples
  BY ProcessType DEF Noise
<1>2. TypeOK'
  <2>1. sending' \in BOOLEAN /\ locked' \in BOOLEAN
    BY DEF Noise
  <2>2. /\ level' \in Bits /\ heard' \in Nat
        /\ pos' \in 0 .. MaxLen /\ len' \in 0 .. MaxLen /\ run' \in 0 .. MaxRun
    BY Lengths DEF Noise, Bits
  <2>. QED  BY <1>1, <2>1, <2>2 DEF TypeOK, WindowInv
<1>3. ClockInv'
  BY DEF ClockInv, Noise
<1>. QED  BY <1>1, <1>2, <1>3 DEF DemodulatorInv, WindowInv

LEMMA PrimeKeeps ==
    ASSUME DemodulatorInv, Prime
    PROVE  DemodulatorInv'
<1>1. sample \in Samples /\ WindowInv
  BY DEF DemodulatorInv, TypeOK, WindowInv
<1>2. WindowInv' /\ sample' \in Samples
  BY <1>1, WindowPush, DemodulatorAssumption DEF Prime, Detect
<1>3. TypeOK'
  BY <1>2 DEF TypeOK, WindowInv, Prime, detectorVars, DemodulatorInv
<1>4. ClockInv'
  BY DEF ClockInv, Prime, detectorVars, DemodulatorInv, ReturnedAt
<1>. QED  BY <1>2, <1>3, <1>4 DEF DemodulatorInv, WindowInv

\* A level's further samples bring its bit nearer, return it once, and end
\* before the next bit is due.
LEMMA SendSampleKeeps ==
    ASSUME DemodulatorInv, SendSample
    PROVE  DemodulatorInv'
<1>1. /\ sending /\ pos < len /\ pos' = pos + 1
      /\ heard' = IF Returns(level) THEN heard + 1 ELSE heard
      /\ sending' = sending /\ level' = level /\ len' = len /\ run' = run /\ locked' = locked
  BY DEF SendSample
<1>2. /\ level \in Bits /\ last_bit = level /\ heard \in Nat /\ samples_to_return \in 0 .. Period
      /\ len \in MinLen .. MaxLen /\ pos \in 1 .. len /\ run \in 1 .. MaxRun
      /\ sending \in BOOLEAN /\ locked \in BOOLEAN
  BY <1>1 DEF DemodulatorInv, TypeOK, ClockInv
<1>3. /\ WindowInv' /\ samples_to_return' \in 0 .. Period /\ last_bit' = level
      /\ sample' \in Samples
  BY <1>2, ProcessType DEF SendSample
<1>4. TypeOK'
  <2>1. pos' \in 0 .. MaxLen /\ len' \in 0 .. MaxLen /\ run' \in 0 .. MaxRun
    BY <1>1, <1>2, Lengths
  <2>2. heard' \in Nat
    BY <1>1, <1>2
  <2>. QED  BY <1>1, <1>2, <1>3, <2>1, <2>2 DEF TypeOK, WindowInv
<1>5. /\ samples_to_return' = IF samples_to_return = 0 THEN Period ELSE samples_to_return - 1
      /\ heard' = IF samples_to_return = 0 THEN heard + 1 ELSE heard
  BY <1>1, <1>2 DEF SendSample, Process, ms_bit_detector_process, Clock, Returns
<1>6. ASSUME locked
      PROVE  heard' \in {0, 1} /\ ReturnedAt' = ReturnedAt
  <2>1. heard \in {0, 1} /\ ReturnedAt \in Earliest(run) .. Latest(run)
    BY <1>1, <1>6 DEF DemodulatorInv, ClockInv
  <2>2. Earliest(run) \in Int /\ Earliest(run) - (MaxLen - Period - 1) >= 1
        /\ Latest(run) \in Int
    BY <1>2, Windows
  <2>3. CASE heard = 0
    BY <1>1, <1>2, <1>5, <2>3, Lengths DEF ReturnedAt
  <2>4. CASE heard = 1
    <3>1. pos + samples_to_return - Period >= Earliest(run)
      BY <1>2, <2>1, <2>2, <2>4, Lengths DEF ReturnedAt
    <3>2. samples_to_return # 0
      BY <1>1, <1>2, <2>2, <3>1, Lengths
    <3>. QED  BY <1>1, <1>2, <1>5, <2>4, <3>2, Lengths DEF ReturnedAt
  <2>. QED  BY <2>1, <2>3, <2>4
<1>7. ClockInv'
  <2>1. pos' \in 1 .. len'
    BY <1>1, <1>2
  <2>2. locked => ReturnedAt \in Earliest(run) .. Latest(run)
    BY <1>1 DEF DemodulatorInv, ClockInv
  <2>. QED  BY <1>1, <1>2, <1>3, <1>6, <2>1, <2>2 DEF ClockInv, Earliest, Latest
<1>. QED  BY <1>3, <1>4, <1>7 DEF DemodulatorInv, WindowInv

\* A change of level restarts the clock; an equal level is returned as much
\* earlier or later as the one before was short or long.
LEMMA SendLevelKeeps ==
    ASSUME DemodulatorInv, NEW bit \in Bits, NEW n \in MinLen .. MaxLen, SendLevel(bit, n)
    PROVE  DemodulatorInv'
<1>1. /\ sending => pos = len
      /\ sending /\ bit = level => run < MaxRun
      /\ sending' = TRUE /\ level' = bit /\ pos' = 1 /\ len' = n
      /\ run' = IF sending /\ bit = level THEN run + 1 ELSE 1
      /\ locked' = (locked \/ bit # last_bit)
      /\ heard' = IF Returns(bit) THEN 1 ELSE 0
  BY DEF SendLevel
<1>2. /\ last_bit \in Bits \cup {None} /\ samples_to_return \in 0 .. Period
      /\ run \in 0 .. MaxRun /\ sending \in BOOLEAN /\ locked \in BOOLEAN
      /\ locked => sending
      /\ sending => last_bit = level /\ len \in MinLen .. MaxLen /\ run \in 1 .. MaxRun
  BY DEF DemodulatorInv, TypeOK, ClockInv
<1>3. /\ WindowInv' /\ samples_to_return' \in 0 .. Period /\ last_bit' = bit
      /\ sample' \in Samples
  BY ProcessType DEF SendLevel
<1>4. run' \in 1 .. MaxRun
  BY <1>1, <1>2, Lengths
<1>5. TypeOK'
  <2>1. pos' \in 0 .. MaxLen /\ len' \in 0 .. MaxLen /\ run' \in 0 .. MaxRun
    BY <1>1, <1>4, Lengths
  <2>2. heard' \in Nat /\ locked' \in BOOLEAN
    BY <1>1, <1>2
  <2>. QED  BY <1>1, <1>3, <2>1, <2>2 DEF TypeOK, WindowInv
<1>6. samples_to_return' = IF bit # last_bit THEN Half
                           ELSE IF samples_to_return = 0 THEN Period
                           ELSE samples_to_return - 1
  BY DEF SendLevel, Process, ms_bit_detector_process, Clock, Half
<1>7. heard' \in {0, 1}
  BY <1>1
<1>8. ASSUME locked' PROVE ReturnedAt' \in Earliest(run') .. Latest(run')
  <2>1. CASE bit # last_bit
    <3>1. run' = 1 /\ heard' = 0 /\ samples_to_return' = Half /\ pos' = 1
      BY <1>1, <1>2, <1>6, <2>1 DEF Returns
    <3>2. ReturnedAt' = Half + 2
      BY <3>1, Lengths DEF ReturnedAt
    <3>. QED  BY <3>1, <3>2, FirstWindow, Lengths
  <2>2. CASE bit = last_bit
    <3>1. locked /\ sending /\ bit = level /\ pos = len /\ run' = run + 1
      BY <1>1, <1>2, <1>8, <2>2
    <3>2. heard = 1
      BY <3>1, ClockGivesOneBit DEF OneBitPerLevel
    <3>3. ReturnedAt \in Earliest(run) .. Latest(run) /\ len \in MinLen .. MaxLen
          /\ run \in 1 .. MaxRun
      BY <3>1 DEF DemodulatorInv, ClockInv
    <3>4. ReturnedAt + Period + 1 - len \in Earliest(run') .. Latest(run')
      BY <3>1, <3>3, NextWindow
    <3>5. ReturnedAt = len + samples_to_return - Period
      BY <1>2, <3>1, <3>2, <3>3, Lengths DEF ReturnedAt
    <3>6. heard' = (IF samples_to_return = 0 THEN 1 ELSE 0)
          /\ samples_to_return' = (IF samples_to_return = 0 THEN Period ELSE samples_to_return - 1)
      BY <1>1, <1>6, <2>2 DEF Returns
    <3>7. ReturnedAt' = samples_to_return + 1
      BY <1>1, <1>2, <3>6, Lengths DEF ReturnedAt
    <3>8. ReturnedAt + Period + 1 - len = samples_to_return + 1
      BY <1>2, <3>3, <3>5, Lengths
    <3>. QED  BY <3>4, <3>7, <3>8
  <2>. QED  BY <2>1, <2>2
<1>9. ClockInv'
  BY <1>1, <1>3, <1>4, <1>7, <1>8, Lengths DEF ClockInv, Earliest, Latest
<1>. QED  BY <1>3, <1>5, <1>9 DEF DemodulatorInv, WindowInv

LEMMA NextKeeps == DemodulatorInv /\ [Next]_vars => DemodulatorInv'
<1>. SUFFICES ASSUME DemodulatorInv, [Next]_vars PROVE DemodulatorInv'
  OBVIOUS
<1>1. CASE Prime
  BY <1>1, PrimeKeeps
<1>2. CASE SendSample
  BY <1>2, SendSampleKeeps
<1>3. ASSUME NEW bit \in Bits, Noise(bit) PROVE DemodulatorInv'
  BY <1>3, NoiseKeeps
<1>4. ASSUME NEW bit \in Bits, NEW n \in MinLen .. MaxLen, SendLevel(bit, n)
      PROVE  DemodulatorInv'
  BY <1>4, SendLevelKeeps
<1>5. CASE UNCHANGED vars
  BY <1>5 DEF vars, windowVars, detectorVars, DemodulatorInv, TypeOK, WindowTypeOK,
              WindowIsRecent, Cell, ClockInv, ReturnedAt
<1>. QED  BY <1>1, <1>2, <1>3, <1>4, <1>5 DEF Next

-----------------------------------------------------------------------------
\* The samples, the window and the clock stay as DemodulatorInv says, whatever
\* is heard between transmissions and however long levels are.
THEOREM DemodulatorInvariant == Spec => []DemodulatorInv
<1>1. Init => DemodulatorInv
  BY DemodulatorInitially
<1>2. DemodulatorInv /\ [Next]_vars => DemodulatorInv'
  BY NextKeeps
<1>. QED  BY <1>1, <1>2, PTL DEF Spec

\* ms_bit_detector_process and ms_window_push keep their fields in range.
THEOREM FieldsInRange == Spec => []TypeOK
<1>1. DemodulatorInv => TypeOK
  BY DEF DemodulatorInv
<1>. QED  BY <1>1, DemodulatorInvariant, PTL

\* ms_window_push: the Goertzel filter always reads the last Size samples, for
\* every window size and oversizing.
THEOREM WindowHoldsRecent == Spec => []WindowIsRecent
<1>1. DemodulatorInv => WindowIsRecent
  BY DEF DemodulatorInv
<1>. QED  BY <1>1, DemodulatorInvariant, PTL

\* ms_bit_detector_process: each level is returned exactly once, for every bit
\* period and every sender's clock within DemodulatorAssumption.
THEOREM EachLevelOnce == Spec => []OneBitPerLevel
<1>1. DemodulatorInv => OneBitPerLevel
  BY ClockGivesOneBit
<1>. QED  BY <1>1, DemodulatorInvariant, PTL
=============================================================================
