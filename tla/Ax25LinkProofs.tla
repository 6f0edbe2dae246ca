--------------------------- MODULE Ax25LinkProofs ---------------------------
(***************************************************************************)
(* A packet that is heard right is received, for every packet, every TX    *)
(* delay and tail, every size of the two buffers, every bit rate, and      *)
(* whatever the receiver heard before.                                     *)
(***************************************************************************)
EXTENDS Ax25Link, SequenceTheorems, Induction

-----------------------------------------------------------------------------
(***************************************************************************)
(* Where the deframer stands after each bit of a frame heard right         *)
(***************************************************************************)
\* The bits of the head flags, and of the packet with its stuffing.
HeadBits == 8 * FlagCount(tx_delay, MIN_HEAD_FLAGS)
TailBits == 8 * FlagCount(tx_tail, MIN_TAIL_FLAGS)
Body(packet) == Stuffed(BitsOf(packet))

\* Bit k of a run of flags.
FlagBit(k) == IF k % 8 \in {0, 7} THEN 0 ELSE 1

\* The last bits of raw are c ones after a zero.
EndsIn(raw, c) == raw % 2 ^ (c + 1) = 2 ^ c - 1

\* That is so of the bits heard, and ones_count says so.
Ones(c) == ones_count = c /\ EndsIn(raw_bits, c)

\* i bits of a flag have come after a flag or after the packet.
InFlag(i) == Ones(IF i = 0 THEN 0 ELSE i - 1) /\ unstuffed_bit_count = i

\* Nothing was received, or one packet was and less than a byte has come since.
AtMostOne(i) ==
    \/ heard = <<>>
    \/ Len(heard) = 1 /\ buffer = <<>> /\ unstuffed_bit_count <= i

\* The last i bits heard are the first i of a flag.
InSync(i) == EndsIn(raw_bits, i - 1) /\ AtMostOne(i)

\* The last i bits of raw are ones.
AllOnes(raw, i) == raw % 2 ^ i = 2 ^ i - 1

\* The first two flags.  The first bit may be misread, since the receiver's last
\* level is not the sender's; then the first flag is missed.
Syncing(j) ==
    \/ j \in 1..7 /\ InSync(j)
    \/ j \in 1..7 /\ AllOnes(raw_bits, j) /\ heard = <<>>
    \/ j = 8 /\ raw_bits = 0 /\ AtMostOne(0)
    \/ j = 8 /\ raw_bits = 254 /\ heard = <<>>
    \/ j \in 9..15 /\ InSync(j - 8)

\* n bits of the packet have been unstuffed: the whole bytes are in the buffer,
\* the bits of the next one at the top of unstuffed_bits.
Unstuffed(packet, n) ==
    /\ unstuffed_bit_count = n % 8
    /\ Len(buffer) = n \div 8 /\ \A k \in 1 .. n \div 8 : buffer[k] = packet[k]
    /\ n < 8 * Len(packet)
         => unstuffed_bits \div 2 ^ (8 - (n % 8)) = packet[n \div 8 + 1] % 2 ^ (n % 8)

\* j bits of the stuffed packet have come: n bits of the packet with their stuffing,
\* or the fifth one and not yet the zero after it.
InBody(packet, j) ==
    \E n \in 0 .. 8 * Len(packet) :
        LET after == Stuffing(BitsOf(packet))[n]
        IN  /\ Unstuffed(packet, n)
            /\ \/ j = Len(after.out) /\ Ones(after.ones)
               \/ /\ j = Len(after.out) - 1 /\ j < Len(Body(packet)) /\ Ones(5)
                  /\ after.ones = 0 /\ Body(packet)[j + 1] = 0

\* Where the deframer stands after j bits of a frame whose packet begins at bit
\* `head' and ends at bit `tail'.
Place(packet, head, tail, j) ==
    /\ j = 0 => heard = <<>>
    /\ j \in 1..15 => Syncing(j)
    /\ 16 <= j /\ j < head => InFlag(j % 8) /\ buffer = <<>> /\ Len(heard) <= 1
    /\ head <= j /\ j <= tail => InBody(packet, j - head) /\ Len(heard) <= 1
    /\ tail < j /\ j < tail + 8 =>
          InFlag(j - tail) /\ buffer = packet /\ Len(heard) <= 1
    /\ tail + 8 <= j =>
          /\ InFlag((j - tail) % 8) /\ buffer = <<>>
          /\ Len(heard) \in {1, 2} /\ heard[Len(heard)] = packet

\* A frame that is not spoilt and has been heard right so far.
Receiving ==
    sending # NoPacket /\ errors = 0 /\ HoldsFrame(sending) /\ Len(sending) <= RxLimit
        => Place(sending, HeadBits, HeadBits + Len(Body(sending)), reading_bit)

\* As many bits are in the buffer as the frame has, or as there is room for.
Sending ==
    sending # NoPacket =>
        /\ sent = NoPacket
        /\ total_bits = IF Len(Framed(sending)) < BufferBits THEN Len(Framed(sending))
                        ELSE BufferBits

\* Unless a level was misheard, the receiver's last level is the sender's.
SameLevel ==
    sending # NoPacket /\ errors = 0 /\ reading_bit > 0 => last_bit = nrzi_bit

LinkInv == Sending /\ SameLevel /\ Receiving /\ PacketsIntact

-----------------------------------------------------------------------------
(***************************************************************************)
(* Bit stuffing                                                            *)
(***************************************************************************)
\* The loop's variables after a number of bits.
StuffState == [out : Seq(Bits), ones : 0..4]

LEMMA StuffType ==
    ASSUME NEW before \in StuffState, NEW bit \in Bits
    PROVE  Stuff(before, bit) \in StuffState
<1>1. before.out \in Seq(Bits) /\ before.ones \in 0..4
  BY DEF StuffState
<1>2. before.out \o <<1, 0>> \in Seq(Bits) /\ Append(before.out, bit) \in Seq(Bits)
  BY <1>1 DEF Bits
<1>. QED  BY <1>1, <1>2 DEF Stuff, StuffState

\* The recursion that stands for the loop has a solution.
LEMMA StuffingDef ==
    ASSUME NEW bits \in Seq(Bits)
    PROVE  /\ Stuffing(bits)[0] = [out |-> <<>>, ones |-> 0]
           /\ \A n \in 1 .. Len(bits) : Stuffing(bits)[n] = Stuff(Stuffing(bits)[n - 1], bits[n])
<1>. DEFINE Turn(f, n) == IF n = 0 THEN [out |-> <<>>, ones |-> 0] ELSE Stuff(f[n - 1], bits[n])
            UpTo(f, m) == f = [n \in 0..m |-> Turn(f, n)]
            Missing == {m \in 0 .. Len(bits) : ~\E f : UpTo(f, m)}
<1>0. Len(bits) \in Nat
  OBVIOUS
<1>1. Missing = {}
  <2>. SUFFICES ASSUME Missing # {} PROVE FALSE
    OBVIOUS
  <2>0. Missing \in SUBSET Nat
    BY <1>0
  <2>1. PICK m \in Missing : \A k \in Missing : m <= k
    <3>. HIDE DEF Missing
    <3>. QED  BY <2>0, LeastNatural
  <2>2. m \in 0 .. Len(bits) /\ ~\E f : UpTo(f, m)
    BY <2>1
  <2>3. CASE m = 0
    <3>. DEFINE g == [n \in 0..m |-> [out |-> <<>>, ones |-> 0]]
    <3>1. UpTo(g, m)
      BY <2>3
    <3>. QED  BY <2>2, <3>1
  <2>4. CASE m # 0
    <3>1. m - 1 \in 0 .. Len(bits) /\ ~(m <= m - 1) /\ m \in Nat
      BY <2>2, <2>4, <1>0
    <3>2. PICK f : UpTo(f, m - 1)
      <4>. HIDE DEF UpTo
      <4>. QED  BY <2>1, <3>1
    <3>. DEFINE g == [n \in 0..m |-> IF n = m THEN Stuff(f[m - 1], bits[m]) ELSE f[n]]
    <3>3. \A n \in 0..m : n # m => n \in 0 .. m - 1 /\ f[n] = Turn(f, n)
      BY <3>1, <3>2
    <3>4. \A n \in 0..m : n # 0 => n - 1 \in 0..m /\ n - 1 # m /\ g[n - 1] = f[n - 1]
      BY <3>1
    <3>5. \A n \in 0..m : g[n] = Turn(g, n)
      <4>. SUFFICES ASSUME NEW n \in 0..m PROVE g[n] = Turn(g, n)
        OBVIOUS
      <4>1. CASE n = m
        BY <2>4, <3>4, <4>1
      <4>2. CASE n # m
        BY <3>3, <3>4, <4>2
      <4>. QED  BY <4>1, <4>2
    <3>6. UpTo(g, m)
      BY <3>5
    <3>. QED  BY <2>2, <3>6
  <2>. QED  BY <2>3, <2>4
<1>2. \E f : UpTo(f, Len(bits))
  <2>. HIDE DEF UpTo
  <2>. QED  BY <1>0, <1>1
<1>3. UpTo(Stuffing(bits), Len(bits))
  <2>1. Stuffing(bits) = CHOOSE f : UpTo(f, Len(bits))
    BY DEF Stuffing
  <2>. HIDE DEF UpTo
  <2>. QED  BY <1>2, <2>1
<1>4. PICK S : S = Stuffing(bits)
  OBVIOUS
<1>5. \A n \in 0 .. Len(bits) : S[n] = Turn(S, n)
  BY <1>3, <1>4
<1>. QED  BY <1>0, <1>4, <1>5

\* ones_count stays below five between the bits of the packet.
LEMMA StuffingType ==
    ASSUME NEW bits \in Seq(Bits), NEW n \in 0 .. Len(bits)
    PROVE  Stuffing(bits)[n] \in StuffState
<1>. DEFINE Wrong == {k \in 0 .. Len(bits) : Stuffing(bits)[k] \notin StuffState}
<1>1. ASSUME Wrong # {} PROVE FALSE
  <2>1. PICK k \in Wrong : \A m \in Wrong : k <= m
    <3>1. Wrong \in SUBSET Nat
      OBVIOUS
    <3>. HIDE DEF Wrong
    <3>. QED  BY <1>1, <3>1, LeastNatural
  <2>2. CASE k = 0
    <3>1. [out |-> <<>>, ones |-> 0] \in StuffState
      BY DEF StuffState
    <3>. QED  BY <2>1, <2>2, <3>1, StuffingDef
  <2>3. CASE k # 0
    <3>1. k \in 1 .. Len(bits) /\ k - 1 \in 0 .. Len(bits) /\ ~(k <= k - 1)
      BY <2>1, <2>3
    <3>2. Stuffing(bits)[k - 1] \in StuffState
      BY <2>1, <3>1
    <3>3. bits[k] \in Bits
      BY <3>1
    <3>. QED  BY <2>1, <3>1, <3>2, <3>3, StuffType, StuffingDef
  <2>. QED  BY <2>2, <2>3
<1>. QED  BY <1>1

LEMMA StuffedType ==
    ASSUME NEW bits \in Seq(Bits)
    PROVE  Stuffed(bits) \in Seq(Bits)
<1>1. Stuffing(bits)[Len(bits)] \in StuffState
  BY StuffingType
<1>. QED  BY <1>1 DEF Stuffed, StuffState

\* One turn appends to what was inserted.
LEMMA StuffAppends ==
    ASSUME NEW before \in StuffState, NEW bit \in Bits,
           NEW after, after = Stuff(before, bit)
    PROVE  /\ after.out \in Seq(Bits) /\ Len(before.out) < Len(after.out)
           /\ \A i \in 1 .. Len(before.out) : after.out[i] = before.out[i]
           /\ after.out[Len(before.out) + 1] = bit
           /\ IF bit = 1 /\ before.ones = 4
              THEN /\ Len(after.out) = Len(before.out) + 2 /\ after.ones = 0
                   /\ after.out[Len(before.out) + 2] = 0
              ELSE /\ Len(after.out) = Len(before.out) + 1
                   /\ after.ones = IF bit = 1 THEN before.ones + 1 ELSE 0
<1>1. PICK s, t, ones : s = before.out /\ t = after.out /\ ones = before.ones
  OBVIOUS
<1>2. s \in Seq(Bits) /\ ones \in 0..4 /\ Len(s) \in Nat
  BY <1>1 DEF StuffState
<1>3. CASE bit = 1 /\ ones = 4
  <2>1. t = s \o <<1, 0>> /\ after.ones = 0
    BY <1>1, <1>2, <1>3 DEF Stuff
  <2>2. /\ t \in Seq(Bits) /\ Len(t) = Len(s) + 2
        /\ \A i \in 1 .. Len(s) : t[i] = s[i]
        /\ t[Len(s) + 1] = 1 /\ t[Len(s) + 2] = 0
    BY <1>2, <2>1 DEF Bits
  <2>. QED  BY <1>1, <1>2, <1>3, <2>1, <2>2
<1>4. CASE ~(bit = 1 /\ ones = 4)
  <2>1. t = Append(s, bit) /\ after.ones = IF bit = 1 THEN ones + 1 ELSE 0
    BY <1>1, <1>2, <1>4 DEF Stuff
  <2>2. /\ t \in Seq(Bits) /\ Len(t) = Len(s) + 1
        /\ \A i \in 1 .. Len(s) : t[i] = s[i]
        /\ t[Len(s) + 1] = bit
    BY <1>2, <2>1 DEF Bits
  <2>. QED  BY <1>1, <1>2, <1>4, <2>1, <2>2
<1>. QED  BY <1>3, <1>4

LEMMA StuffLonger ==
    \A before \in StuffState, bit \in Bits :
       /\ Len(before.out) < Len(Stuff(before, bit).out)
       /\ \A i \in 1 .. Len(before.out) : Stuff(before, bit).out[i] = before.out[i]
BY StuffAppends

\* What has been inserted after n bits begins what has been inserted in the end.
LEMMA StuffingGrows ==
    ASSUME NEW bits \in Seq(Bits), NEW n \in 0 .. Len(bits), NEW m \in n .. Len(bits)
    PROVE  /\ Len(Stuffing(bits)[n].out) <= Len(Stuffing(bits)[m].out)
           /\ \A i \in 1 .. Len(Stuffing(bits)[n].out) :
                 Stuffing(bits)[m].out[i] = Stuffing(bits)[n].out[i]
<1>. DEFINE S == Stuffing(bits)
            Begins(k) == /\ Len(S[n].out) <= Len(S[k].out)
                         /\ \A i \in 1 .. Len(S[n].out) : S[k].out[i] = S[n].out[i]
            Wrong == {k \in n .. Len(bits) : ~Begins(k)}
<1>0. \A k \in 0 .. Len(bits) : S[k] \in StuffState /\ S[k].out \in Seq(Bits) /\ Len(S[k].out) \in Nat
  BY StuffingType DEF StuffState
<1>1. ASSUME Wrong # {} PROVE FALSE
  <2>1. PICK k \in Wrong : \A l \in Wrong : k <= l
    <3>1. Wrong \in SUBSET Nat
      OBVIOUS
    <3>. HIDE DEF Wrong
    <3>. QED  BY <1>1, <3>1, LeastNatural
  <2>2. k # n
    <3>1. Begins(n)
      BY <1>0
    <3>. QED  BY <2>1, <3>1
  <2>3. k \in 1 .. Len(bits) /\ k - 1 \in n .. Len(bits) /\ k - 1 \in 0 .. Len(bits) /\ ~(k <= k - 1)
    BY <2>1, <2>2
  <2>4. Begins(k - 1)
    BY <2>1, <2>3
  <2>5. S[k] = Stuff(S[k - 1], bits[k]) /\ bits[k] \in Bits
    BY <2>3, StuffingDef
  <2>6. /\ Len(S[k - 1].out) < Len(S[k].out)
        /\ \A i \in 1 .. Len(S[k - 1].out) : S[k].out[i] = S[k - 1].out[i]
    <3>0. S[k - 1] \in StuffState
      BY <1>0, <2>3
    <3>. HIDE DEF S
    <3>1. bits[k] \in Bits /\ S[k] = Stuff(S[k - 1], bits[k])
      BY <2>5
    <3>. QED  BY <3>0, <3>1, StuffLonger, Zenon
  <2>7. Begins(k)
    <3>. HIDE DEF S
    <3>1. /\ Len(S[n].out) \in Nat /\ Len(S[k].out) \in Nat /\ Len(S[k - 1].out) \in Nat
      BY <1>0, <2>3
    <3>2. PICK a, b, c : a = S[n].out /\ b = S[k - 1].out /\ c = S[k].out
      OBVIOUS
    <3>3. /\ Len(a) <= Len(b) /\ Len(b) < Len(c) /\ \A i \in 1 .. Len(a) : b[i] = a[i]
          /\ \A i \in 1 .. Len(b) : c[i] = b[i]
          /\ Len(a) \in Nat /\ Len(b) \in Nat /\ Len(c) \in Nat
      BY <2>4, <2>6, <3>1, <3>2
    <3>4. Len(a) <= Len(c) /\ \A i \in 1 .. Len(a) : c[i] = a[i]
      BY <3>3
    <3>. QED  BY <3>2, <3>4
  <2>. QED  BY <2>1, <2>7
<1>2. Begins(m)
  BY <1>1
<1>. QED  BY <1>2

\* The next bit of the packet is where the loop put it.
LEMMA NextStuffed ==
    ASSUME NEW bits \in Seq(Bits), NEW n \in 0 .. Len(bits) - 1
    PROVE  LET before == Stuffing(bits)[n]
               after  == Stuffing(bits)[n + 1]
           IN  /\ Len(before.out) < Len(Stuffed(bits))
               /\ Len(after.out) <= Len(Stuffed(bits))
               /\ Stuffed(bits)[Len(before.out) + 1] = bits[n + 1]
               /\ IF bits[n + 1] = 1 /\ before.ones = 4
                  THEN /\ Len(after.out) = Len(before.out) + 2 /\ after.ones = 0
                       /\ Stuffed(bits)[Len(before.out) + 2] = 0
                  ELSE /\ Len(after.out) = Len(before.out) + 1
                       /\ after.ones = IF bits[n + 1] = 1 THEN before.ones + 1 ELSE 0
<1>1. n \in 0 .. Len(bits) /\ n + 1 \in 1 .. Len(bits) /\ n + 1 \in 0 .. Len(bits)
      /\ Len(bits) \in (n + 1) .. Len(bits) /\ (n + 1) - 1 = n
  OBVIOUS
<1>2. PICK before, after : before = Stuffing(bits)[n] /\ after = Stuffing(bits)[n + 1]
  OBVIOUS
<1>3. before \in StuffState /\ after \in StuffState /\ bits[n + 1] \in Bits
  BY <1>1, <1>2, StuffingType
<1>4. after = Stuff(before, bits[n + 1])
  BY <1>1, <1>2, StuffingDef
<1>5. /\ Len(before.out) < Len(after.out)
      /\ after.out[Len(before.out) + 1] = bits[n + 1]
      /\ IF bits[n + 1] = 1 /\ before.ones = 4
         THEN /\ Len(after.out) = Len(before.out) + 2 /\ after.ones = 0
              /\ after.out[Len(before.out) + 2] = 0
         ELSE /\ Len(after.out) = Len(before.out) + 1
              /\ after.ones = IF bits[n + 1] = 1 THEN before.ones + 1 ELSE 0
  BY <1>3, <1>4, StuffAppends
<1>6. /\ Len(after.out) <= Len(Stuffed(bits))
      /\ \A i \in 1 .. Len(after.out) : Stuffed(bits)[i] = after.out[i]
  BY <1>1, <1>2, StuffingGrows DEF Stuffed
<1>7. Len(before.out) \in Nat /\ Len(after.out) \in Nat /\ Len(Stuffed(bits)) \in Nat
  BY <1>3, StuffedType DEF StuffState
<1>8. PICK l, L, out : l = Len(before.out) /\ L = Len(after.out) /\ out = Stuffed(bits)
  OBVIOUS
<1>9. /\ l + 1 \in 1..L
      /\ bits[n + 1] = 1 /\ before.ones = 4 => l + 2 \in 1..L
  BY <1>5, <1>7, <1>8
<1>10. /\ out[l + 1] = bits[n + 1]
       /\ bits[n + 1] = 1 /\ before.ones = 4 => out[l + 2] = 0
  <2>1. \A i \in 1..L : out[i] = after.out[i]
    BY <1>6, <1>8
  <2>2. after.out[l + 1] = bits[n + 1]
    BY <1>5, <1>8
  <2>3. bits[n + 1] = 1 /\ before.ones = 4 => after.out[l + 2] = 0
    BY <1>5, <1>8
  <2>4. out[l + 1] = after.out[l + 1]
    BY <1>9, <2>1, Zenon
  <2>5. bits[n + 1] = 1 /\ before.ones = 4 => out[l + 2] = after.out[l + 2]
    BY <1>9, <2>1, Zenon
  <2>6. out[l + 1] = bits[n + 1]
    BY <2>2, <2>4
  <2>7. bits[n + 1] = 1 /\ before.ones = 4 => out[l + 2] = 0
    BY <2>3, <2>5
  <2>. QED  BY <2>6, <2>7
<1>11. /\ l < Len(out) /\ L <= Len(out) /\ out[l + 1] = bits[n + 1]
       /\ IF bits[n + 1] = 1 /\ before.ones = 4
          THEN L = l + 2 /\ after.ones = 0 /\ out[l + 2] = 0
          ELSE L = l + 1 /\ after.ones = IF bits[n + 1] = 1 THEN before.ones + 1 ELSE 0
  BY <1>5, <1>6, <1>7, <1>8, <1>10
<1>. QED  BY <1>2, <1>8, <1>11, Zenon

-----------------------------------------------------------------------------
(***************************************************************************)
(* The bits of a frame                                                     *)
(***************************************************************************)
LEMMA Constants ==
    /\ Packets \subseteq Seq(Bytes) /\ NoPacket \notin Packets
    /\ \A p \in Packets : Len(p) >= MinPacketLen
    /\ BufferBits \in Nat \ {0} /\ RxLimit \in Nat \ {0} /\ MinPacketLen \in Nat \ {0}
    /\ BaudRate \in Nat /\ Delays \subseteq Bytes /\ GarbageOnes \subseteq Bytes
    /\ MaxNoise \in Nat /\ MaxErrors \in Nat
BY Ax25LinkAssumption

LEMMA BitType ==
    ASSUME NEW byte \in Bytes, NEW r \in 0..7
    PROVE  (byte \div 2 ^ r) % 2 \in Bits
<1>1. \/ r = 0 \/ r = 1 \/ r = 2 \/ r = 3 \/ r = 4 \/ r = 5 \/ r = 6 \/ r = 7
  OBVIOUS
<1>2. byte \in Int
  BY DEF Bytes
<1>3. /\ 2 ^ 0 = 1 /\ 2 ^ 1 = 2 /\ 2 ^ 2 = 4 /\ 2 ^ 3 = 8
      /\ 2 ^ 4 = 16 /\ 2 ^ 5 = 32 /\ 2 ^ 6 = 64 /\ 2 ^ 7 = 128
  OBVIOUS
<1>4. PICK q : q = byte \div 2 ^ r
  OBVIOUS
<1>5. q \in Int
  BY <1>1, <1>2, <1>3, <1>4
<1>6. q % 2 = 0 \/ q % 2 = 1
  BY <1>5
<1>. QED  BY <1>4, <1>6 DEF Bits

LEMMA BitsOfType ==
    ASSUME NEW bytes \in Seq(Bytes)
    PROVE  BitsOf(bytes) \in Seq(Bits) /\ Len(BitsOf(bytes)) = 8 * Len(bytes)
<1>. DEFINE bit(k) == (bytes[(k - 1) \div 8 + 1] \div 2 ^ ((k - 1) % 8)) % 2
<1>1. ASSUME NEW k \in 1 .. 8 * Len(bytes) PROVE bit(k) \in Bits
  <2>1. (k - 1) \div 8 + 1 \in 1 .. Len(bytes) /\ (k - 1) % 8 \in 0..7
    OBVIOUS
  <2>2. bytes[(k - 1) \div 8 + 1] \in Bytes
    BY <2>1
  <2>. QED  BY <2>1, <2>2, BitType
<1>2. BitsOf(bytes) = [k \in 1 .. 8 * Len(bytes) |-> bit(k)]
  BY DEF BitsOf
<1>3. 8 * Len(bytes) \in Nat
  OBVIOUS
<1>. HIDE DEF bit
<1>. QED  BY <1>1, <1>2, <1>3

LEMMA FlagsBits ==
    ASSUME NEW n \in Nat
    PROVE  /\ Flags(n) \in Seq(Bits) /\ Len(Flags(n)) = 8 * n
           /\ \A k \in 0 .. 8 * n - 1 : Flags(n)[k + 1] = FlagBit(k)
<1>. DEFINE bytes == [k \in 1..n |-> HS_AX25_FLAG]
<1>1. bytes \in Seq(Bytes) /\ Len(bytes) = n
  BY DEF HS_AX25_FLAG, Bytes
<1>2. Flags(n) \in Seq(Bits) /\ Len(Flags(n)) = 8 * n
  BY <1>1, BitsOfType DEF Flags
<1>3. ASSUME NEW k \in 0 .. 8 * n - 1 PROVE Flags(n)[k + 1] = FlagBit(k)
  <2>1. k + 1 \in 1 .. 8 * Len(bytes) /\ (k + 1) - 1 = k
    BY <1>1
  <2>2. Flags(n)[k + 1] = (bytes[k \div 8 + 1] \div 2 ^ (k % 8)) % 2
    <3>. HIDE DEF bytes
    <3>1. Flags(n) = BitsOf(bytes)
      BY DEF Flags, bytes
    <3>. QED  BY <2>1, <3>1 DEF BitsOf
  <2>3. bytes[k \div 8 + 1] = 126
    <3>1. k \div 8 + 1 \in 1..n
      OBVIOUS
    <3>. QED  BY <3>1 DEF HS_AX25_FLAG
  <2>4. PICK r : r = k % 8
    OBVIOUS
  <2>5. Flags(n)[k + 1] = (126 \div 2 ^ r) % 2 /\ FlagBit(k) = IF r \in {0, 7} THEN 0 ELSE 1
    BY <2>2, <2>3, <2>4 DEF FlagBit
  <2>6. \/ r = 0 \/ r = 1 \/ r = 2 \/ r = 3 \/ r = 4 \/ r = 5 \/ r = 6 \/ r = 7
    BY <2>4
  <2>7. PICK bit : bit = (126 \div 2 ^ r) % 2
    OBVIOUS
  <2>8. /\ (126 \div 2 ^ 0) % 2 = 0 /\ (126 \div 2 ^ 1) % 2 = 1 /\ (126 \div 2 ^ 2) % 2 = 1
        /\ (126 \div 2 ^ 3) % 2 = 1 /\ (126 \div 2 ^ 4) % 2 = 1 /\ (126 \div 2 ^ 5) % 2 = 1
        /\ (126 \div 2 ^ 6) % 2 = 1 /\ (126 \div 2 ^ 7) % 2 = 0
    OBVIOUS
  <2>9. /\ r = 0 => bit = 0
        /\ r = 1 => bit = 1
        /\ r = 2 => bit = 1
        /\ r = 3 => bit = 1
        /\ r = 4 => bit = 1
        /\ r = 5 => bit = 1
        /\ r = 6 => bit = 1
        /\ r = 7 => bit = 0
    BY <2>7, <2>8, Zenon
  <2>. QED  BY <2>5, <2>6, <2>7, <2>9
<1>. QED  BY <1>2, <1>3

LEMMA ConcatBits ==
    ASSUME NEW a \in Seq(Bits), NEW b \in Seq(Bits), NEW ab, ab = a \o b
    PROVE  /\ ab \in Seq(Bits) /\ Len(ab) = Len(a) + Len(b)
           /\ \A i \in 1 .. Len(a) : ab[i] = a[i]
           /\ \A i \in 1 .. Len(b) : ab[Len(a) + i] = b[i]
<1>1. ab \in Seq(Bits) /\ Len(ab) = Len(a) + Len(b) /\ Len(a) \in Nat /\ Len(b) \in Nat
  OBVIOUS
<1>2. \A i \in 1 .. Len(a) : ab[i] = a[i]
  BY <1>1
<1>3. \A i \in 1 .. Len(b) : ab[Len(a) + i] = b[i]
  BY <1>1
<1>. QED  BY <1>1, <1>2, <1>3

LEMMA FlagCountType ==
    ASSUME NEW tens \in Bytes, NEW least \in Nat
    PROVE  FlagCount(tens, least) \in Nat /\ FlagCount(tens, least) >= least
<1>1. PICK product : product = tens * BaudRate
  OBVIOUS
<1>2. product \in Int
  BY <1>1, Constants DEF Bytes
<1>. QED  BY <1>1, <1>2 DEF FlagCount

\* A frame: flags, the stuffed packet, flags.
LEMMA FrameBits ==
    ASSUME NEW p \in Packets, tx_delay \in Bytes, tx_tail \in Bytes
    PROVE  /\ Framed(p) \in Seq(Bits)
           /\ Body(p) \in Seq(Bits)
           /\ HeadBits \in Nat /\ TailBits \in Nat /\ Len(Body(p)) \in Nat
           /\ HeadBits >= 32 /\ TailBits >= 16
           /\ HeadBits % 8 = 0 /\ TailBits % 8 = 0
           /\ Len(Framed(p)) = HeadBits + Len(Body(p)) + TailBits
           /\ \A j \in 0 .. Len(Framed(p)) - 1 :
                 Framed(p)[j + 1] =
                    IF j < HeadBits THEN FlagBit(j)
                    ELSE IF j < HeadBits + Len(Body(p)) THEN Body(p)[j - HeadBits + 1]
                    ELSE FlagBit(j - HeadBits - Len(Body(p)))
<1>1. PICK h, t : h = FlagCount(tx_delay, MIN_HEAD_FLAGS) /\ t = FlagCount(tx_tail, MIN_TAIL_FLAGS)
  OBVIOUS
<1>2. h \in Nat /\ h >= 4 /\ t \in Nat /\ t >= 2
  BY <1>1, FlagCountType DEF MIN_HEAD_FLAGS, MIN_TAIL_FLAGS
<1>3. HeadBits = 8 * h /\ TailBits = 8 * t
  BY <1>1 DEF HeadBits, TailBits
<1>4. p \in Seq(Bytes)
  BY Constants
<1>5. Body(p) \in Seq(Bits)
  BY <1>4, BitsOfType, StuffedType DEF Body
<1>6. PICK a, b, c : a = Flags(h) /\ b = Body(p) /\ c = Flags(t)
  OBVIOUS
<1>7. Framed(p) = a \o b \o c
  BY <1>1, <1>6 DEF Framed, Body
<1>8. /\ a \in Seq(Bits) /\ b \in Seq(Bits) /\ c \in Seq(Bits)
      /\ Len(a) = 8 * h /\ Len(c) = 8 * t /\ Len(b) \in Nat
      /\ \A j \in 0 .. 8 * h - 1 : a[j + 1] = FlagBit(j)
      /\ \A j \in 0 .. 8 * t - 1 : c[j + 1] = FlagBit(j)
  <2>1. a \in Seq(Bits) /\ Len(a) = 8 * h /\ \A j \in 0 .. 8 * h - 1 : a[j + 1] = FlagBit(j)
    BY <1>2, <1>6, FlagsBits
  <2>2. c \in Seq(Bits) /\ Len(c) = 8 * t /\ \A j \in 0 .. 8 * t - 1 : c[j + 1] = FlagBit(j)
    BY <1>2, <1>6, FlagsBits
  <2>3. b \in Seq(Bits) /\ Len(b) \in Nat
    BY <1>5, <1>6
  <2>. QED  BY <2>1, <2>2, <2>3
<1>9. PICK ab : ab = a \o b
  OBVIOUS
<1>10. /\ ab \in Seq(Bits) /\ Len(ab) = Len(a) + Len(b)
       /\ \A i \in 1 .. Len(a) : ab[i] = a[i]
       /\ \A i \in 1 .. Len(b) : ab[Len(a) + i] = b[i]
  <2>1. a \in Seq(Bits) /\ b \in Seq(Bits)
    BY <1>8
  <2>. QED  BY <1>9, <2>1, ConcatBits
<1>11. PICK f : f = ab \o c
  OBVIOUS
<1>12. /\ f \in Seq(Bits) /\ Len(f) = Len(ab) + Len(c)
       /\ \A i \in 1 .. Len(ab) : f[i] = ab[i]
       /\ \A i \in 1 .. Len(c) : f[Len(ab) + i] = c[i]
  <2>1. ab \in Seq(Bits) /\ c \in Seq(Bits)
    BY <1>8, <1>10
  <2>. QED  BY <1>11, <2>1, ConcatBits
<1>13. Len(ab) = 8 * h + Len(b) /\ Len(f) = 8 * h + Len(b) + 8 * t
  BY <1>8, <1>10, <1>12
<1>14. ASSUME NEW j \in 0 .. Len(f) - 1
       PROVE  f[j + 1] = IF j < 8 * h THEN FlagBit(j)
                         ELSE IF j < 8 * h + Len(b) THEN b[j - 8 * h + 1]
                         ELSE FlagBit(j - 8 * h - Len(b))
  <2>1. j \in Nat /\ j < 8 * h + Len(b) + 8 * t
    BY <1>2, <1>8, <1>13
  <2>2. CASE j < 8 * h
    <3>1. j + 1 \in 1 .. Len(a) /\ j + 1 \in 1 .. Len(ab) /\ j \in 0 .. 8 * h - 1
      BY <1>2, <1>8, <1>13, <2>1, <2>2
    <3>2. f[j + 1] = a[j + 1]
      BY <1>10, <1>12, <3>1
    <3>. QED  BY <1>8, <2>2, <3>1, <3>2
  <2>3. CASE ~(j < 8 * h) /\ j < 8 * h + Len(b)
    <3>1. /\ j - 8 * h + 1 \in 1 .. Len(b) /\ j + 1 \in 1 .. Len(ab)
          /\ Len(a) + (j - 8 * h + 1) = j + 1
      BY <1>2, <1>8, <1>13, <2>1, <2>3
    <3>2. f[j + 1] = ab[Len(a) + (j - 8 * h + 1)]
      BY <1>12, <3>1
    <3>3. ab[Len(a) + (j - 8 * h + 1)] = b[j - 8 * h + 1]
      BY <1>10, <3>1
    <3>. QED  BY <2>3, <3>2, <3>3
  <2>4. CASE ~(j < 8 * h) /\ ~(j < 8 * h + Len(b))
    <3>. DEFINE i == j - 8 * h - Len(b)
    <3>1. /\ i \in 0 .. 8 * t - 1 /\ i + 1 \in 1 .. Len(c) /\ Len(ab) + (i + 1) = j + 1
      BY <1>2, <1>8, <1>13, <2>1, <2>4
    <3>2. f[j + 1] = c[i + 1]
      <4>. HIDE DEF i
      <4>1. f[Len(ab) + (i + 1)] = c[i + 1]
        BY <1>12, <3>1
      <4>. QED  BY <3>1, <4>1
    <3>. QED  BY <1>8, <2>4, <3>1, <3>2
  <2>. QED  BY <2>2, <2>3, <2>4
<1>15. Framed(p) = f /\ Body(p) = b
  BY <1>6, <1>7, <1>9, <1>11
<1>16. /\ 8 * h \in Nat /\ 8 * t \in Nat /\ 8 * h >= 32 /\ 8 * t >= 16
       /\ (8 * h) % 8 = 0 /\ (8 * t) % 8 = 0
  BY <1>2
<1>. QED  BY <1>3, <1>8, <1>12, <1>13, <1>14, <1>15, <1>16

-----------------------------------------------------------------------------
(***************************************************************************)
(* Types                                                                   *)
(***************************************************************************)
LEMMA HeardType ==
    ASSUME TypeOK, NEW bit \in Bits, hs_ax25_deframer_process(bit)
    PROVE  /\ raw_bits' \in Bytes /\ unstuffed_bits' \in Bytes /\ ones_count' \in Bytes
           /\ unstuffed_bit_count' \in 0..7
           /\ buffer' \in Seq(Bytes) /\ Len(buffer') <= RxLimit
           /\ heard' \in Seq(Packets)
<1>1. /\ raw_bits \in 0..255 /\ unstuffed_bits \in 0..255 /\ ones_count \in 0..255
      /\ unstuffed_bit_count \in 0..7 /\ buffer \in Seq(Bytes) /\ Len(buffer) \in Nat
      /\ Len(buffer) <= RxLimit /\ heard \in Seq(Packets) /\ bit \in {0, 1}
  BY DEF TypeOK, Bytes, Bits
<1>2. RxLimit \in Nat \ {0}
  BY Constants
<1>3. CASE Flag
  <2>1. heard' \in Seq(Packets)
    BY <1>1, <1>3 DEF Flag
  <2>2. buffer' \in Seq(Bytes) /\ Len(buffer') <= RxLimit
    BY <1>2, <1>3 DEF Flag
  <2>. QED  BY <1>3, <2>1, <2>2 DEF Flag, Bytes
<1>4. CASE /\ raw_bits' = (raw_bits * 2 + bit) % 256
           /\ DataBit(bit) /\ UNCHANGED heard
  <2>1. raw_bits' \in Bytes
    BY <1>1, <1>4 DEF Bytes
  <2>2. PICK byte : byte = unstuffed_bits \div 2 + bit * 128
    OBVIOUS
  <2>3. byte \in 0..255
    BY <1>1, <2>2
  <2>4. ones_count' \in Bytes /\ unstuffed_bits' \in Bytes
    BY <1>1, <1>4, <2>2, <2>3 DEF DataBit, Bytes
  <2>5. unstuffed_bit_count' \in 0..7
    <3>1. \/ unstuffed_bit_count' = 0
          \/ unstuffed_bit_count' = unstuffed_bit_count + 0
          \/ unstuffed_bit_count # 7 /\ unstuffed_bit_count' = unstuffed_bit_count + 1
      BY <1>4, Zenon DEF DataBit
    <3>. QED  BY <1>1, <3>1
  <2>6. Stored(byte) \in Seq(Bytes) /\ Len(Stored(byte)) <= RxLimit
    <3>1. byte \in Bytes
      BY <2>3 DEF Bytes
    <3>2. CASE Len(buffer) >= RxLimit
      BY <1>1, <1>2, <3>1, <3>2 DEF Stored
    <3>3. CASE ~(Len(buffer) >= RxLimit)
      <4>1. Append(buffer, byte) \in Seq(Bytes) /\ Len(Append(buffer, byte)) = Len(buffer) + 1
        BY <1>1, <3>1
      <4>. QED  BY <1>1, <1>2, <3>3, <4>1 DEF Stored
    <3>. QED  BY <3>2, <3>3
  <2>7. buffer' = buffer \/ buffer' = Stored(byte)
    BY <1>4, <2>2 DEF DataBit
  <2>. QED  BY <1>1, <1>4, <2>1, <2>4, <2>5, <2>6, <2>7
<1>. QED  BY <1>3, <1>4 DEF hs_ax25_deframer_process

LEMMA TypeInit == Init => TypeOK
<1>. SUFFICES ASSUME Init PROVE TypeOK
  OBVIOUS
<1>1. Unwritten \in [Cells -> Bits]
  BY DEF Unwritten, Bits
<1>2. ones_count \in Bytes
  BY Constants DEF Init
<1>. QED  BY <1>1, <1>2, Constants DEF Init, TypeOK, Bytes, Bits, DEFAULT_TX_DELAY, DEFAULT_TX_TAIL

LEMMA TypeNext == TypeOK /\ [Next]_vars => TypeOK'
<1>. SUFFICES ASSUME TypeOK, [Next]_vars PROVE TypeOK'
  OBVIOUS
<1>1. ASSUME NEW d \in Delays, SetTxDelay(d) \/ SetTxTail(d) PROVE TypeOK'
  <2>1. d \in Bytes
    BY Constants
  <2>. QED  BY <1>1, <2>1 DEF TypeOK, SetTxDelay, SetTxTail, framerVars, deframerVars
<1>2. ASSUME NEW p \in Packets, Transmit(p) PROVE TypeOK'
  <2>1. Len(Framed(p)) \in Nat
    <3>1. Framed(p) \in Seq(Bits)
      BY FrameBits DEF TypeOK
    <3>. QED  BY <3>1
  <2>2. total_bits' \in 0..BufferBits /\ reading_bit' \in 0..total_bits'
    BY <1>2, <2>1, Constants DEF Transmit
  <2>3. bit_buffer' \in [Cells -> Bits]
    <3>1. PICK old \in Garbage \cup {bit_buffer} : bit_buffer' = Inserted(Framed(p), old)
      BY <1>2 DEF Transmit
    <3>2. old \in [Cells -> Bits]
      BY Ax25LinkAssumption DEF TypeOK
    <3>. QED  BY <3>1, <3>2 DEF Inserted, Bits
  <2>4. nrzi_bit' \in Bits /\ errors' \in 0..MaxErrors /\ noise' \in 0..MaxNoise
    BY <1>2, Constants DEF Transmit, Bits
  <2>5. heard' \in Seq(Packets)
    BY <1>2 DEF Transmit
  <2>. QED  BY <1>2, <2>2, <2>3, <2>4, <2>5 DEF TypeOK, Transmit, settings, deframerVars
<1>3. ASSUME SendBit PROVE TypeOK'
  <2>1. nrzi_bit' \in Bits /\ 1 - nrzi_bit' \in Bits
    BY <1>3 DEF SendBit, TypeOK, Bits
  <2>2. PICK level \in Bits : Hear(level)
    BY <1>3, <2>1 DEF SendBit
  <2>3. PICK bit \in Bits : hs_ax25_deframer_process(bit)
    BY <2>2 DEF Hear, Bits
  <2>4. /\ raw_bits' \in Bytes /\ unstuffed_bits' \in Bytes /\ ones_count' \in Bytes
        /\ unstuffed_bit_count' \in 0..7
        /\ buffer' \in Seq(Bytes) /\ Len(buffer') <= RxLimit
        /\ heard' \in Seq(Packets)
    BY <2>3, HeardType
  <2>5. last_bit' \in Bits
    BY <2>2 DEF Hear
  <2>6. errors' \in 0..MaxErrors
    BY <1>3, Constants DEF SendBit, TypeOK
  <2>7. reading_bit' \in 0..total_bits' /\ total_bits' \in 0..BufferBits
    BY <1>3, Constants DEF SendBit, TypeOK
  <2>. QED  BY <1>3, <2>1, <2>4, <2>5, <2>6, <2>7 DEF SendBit, TypeOK, settings
<1>4. ASSUME EndTransmission PROVE TypeOK'
  <2>1. bit_buffer' \in [Cells -> Bits]
    BY <1>4 DEF EndTransmission, TypeOK
  <2>2. total_bits' \in 0..BufferBits /\ reading_bit' \in 0..total_bits' /\ nrzi_bit' \in Bits
    BY <1>4, Constants DEF EndTransmission, Bits
  <2>. QED  BY <1>4, <2>1, <2>2 DEF EndTransmission, TypeOK, settings, deframerVars
<1>5. ASSUME NEW level \in Bits, HearNoise(level) PROVE TypeOK'
  <2>1. PICK bit \in Bits : hs_ax25_deframer_process(bit)
    BY <1>5 DEF HearNoise, Hear, Bits
  <2>2. /\ raw_bits' \in Bytes /\ unstuffed_bits' \in Bytes /\ ones_count' \in Bytes
        /\ unstuffed_bit_count' \in 0..7
        /\ buffer' \in Seq(Bytes) /\ Len(buffer') <= RxLimit
        /\ heard' \in Seq(Packets)
    BY <2>1, HeardType
  <2>3. last_bit' \in Bits
    BY <1>5 DEF HearNoise, Hear
  <2>4. noise' \in 0..MaxNoise
    BY <1>5, Constants DEF HearNoise, TypeOK
  <2>. QED  BY <1>5, <2>2, <2>3, <2>4 DEF HearNoise, TypeOK, settings, framerVars
<1>6. CASE UNCHANGED vars
  BY <1>6 DEF vars, TypeOK, settings, framerVars, deframerVars
<1>. QED  BY <1>1, <1>2, <1>3, <1>4, <1>5, <1>6 DEF Next

\* The fields of framer and deframer stay in their types: no bit is inserted past
\* the framer's bit buffer and no byte stored past the deframer's limit, whatever
\* is sent and heard.
THEOREM TypesKept == Spec => []TypeOK
BY TypeInit, TypeNext, PTL DEF Spec

-----------------------------------------------------------------------------
(***************************************************************************)
(* One bit in the deframer                                                 *)
(***************************************************************************)
LEMMA Powers ==
    /\ 2 ^ 0 = 1 /\ 2 ^ 1 = 2 /\ 2 ^ 2 = 4 /\ 2 ^ 3 = 8 /\ 2 ^ 4 = 16
    /\ 2 ^ 5 = 32 /\ 2 ^ 6 = 64 /\ 2 ^ 7 = 128 /\ 2 ^ 8 = 256
OBVIOUS

LEMMA DeframerTypes ==
    TypeOK => /\ raw_bits \in 0..255 /\ unstuffed_bits \in 0..255 /\ ones_count \in 0..255
              /\ unstuffed_bit_count \in 0..7
              /\ buffer \in Seq(Bytes) /\ Len(buffer) \in Nat /\ Len(buffer) <= RxLimit
              /\ heard \in Seq(Packets) /\ Len(heard) \in Nat
BY DEF TypeOK, Bytes

LEMMA Endings ==
    ASSUME NEW raw \in Int
    PROVE  /\ EndsIn(raw, 0) <=> raw % 2 = 0
           /\ EndsIn(raw, 1) <=> raw % 4 = 1
           /\ EndsIn(raw, 2) <=> raw % 8 = 3
           /\ EndsIn(raw, 3) <=> raw % 16 = 7
           /\ EndsIn(raw, 4) <=> raw % 32 = 15
           /\ EndsIn(raw, 5) <=> raw % 64 = 31
           /\ EndsIn(raw, 6) <=> raw % 128 = 63
BY Powers DEF EndsIn

\* Six ones in a row do not come about: after up to five ones, no flag.
LEMMA ShiftedOnes ==
    ASSUME NEW raw \in 0..255, NEW c \in 0..5, EndsIn(raw, c)
    PROVE  /\ (raw * 2 + 0) % 256 # 126 /\ EndsIn((raw * 2 + 0) % 256, 0)
           /\ (raw * 2 + 1) % 256 # 126 /\ EndsIn((raw * 2 + 1) % 256, c + 1)
<1>1. \/ c = 0 \/ c = 1 \/ c = 2 \/ c = 3 \/ c = 4 \/ c = 5
  OBVIOUS
<1>2. /\ c = 0 => raw % 2 = 0
      /\ c = 1 => raw % 4 = 1
      /\ c = 2 => raw % 8 = 3
      /\ c = 3 => raw % 16 = 7
      /\ c = 4 => raw % 32 = 15
      /\ c = 5 => raw % 64 = 31
  BY Endings
<1>3. PICK zero, one : zero = (raw * 2 + 0) % 256 /\ one = (raw * 2 + 1) % 256
  OBVIOUS
<1>4. zero \in Int /\ zero % 2 = 0 /\ one \in Int /\ one # 126
  BY <1>3
<1>5. zero # 126
  BY <1>1, <1>2, <1>3
<1>6. EndsIn(zero, 0)
  BY <1>4, Endings
<1>7. /\ raw % 2 = 0 => one % 4 = 1
      /\ raw % 4 = 1 => one % 8 = 3
      /\ raw % 8 = 3 => one % 16 = 7
      /\ raw % 16 = 7 => one % 32 = 15
      /\ raw % 32 = 15 => one % 64 = 31
      /\ raw % 64 = 31 => one % 128 = 63
  BY <1>3
<1>8. PICK d : d = c + 1
  OBVIOUS
<1>9. /\ c = 0 => d = 1
      /\ c = 1 => d = 2
      /\ c = 2 => d = 3
      /\ c = 3 => d = 4
      /\ c = 4 => d = 5
      /\ c = 5 => d = 6
  BY <1>8
<1>10. EndsIn(one, d)
  BY <1>1, <1>2, <1>4, <1>7, <1>9, Endings
<1>. QED  BY <1>3, <1>4, <1>5, <1>6, <1>8, <1>10

\* A bit that completes no flag goes through DataBit.
LEMMA NotAFlag ==
    ASSUME NEW bit \in Bits, hs_ax25_deframer_process(bit),
           (raw_bits * 2 + bit) % 256 # 126
    PROVE  raw_bits' = (raw_bits * 2 + bit) % 256 /\ DataBit(bit) /\ heard' = heard
BY DEF hs_ax25_deframer_process, HS_AX25_FLAG

\* A bit of the packet, or of a flag before its last.
LEMMA PlainBit ==
    ASSUME TypeOK, NEW c \in 0..5, Ones(c), NEW bit \in Bits, bit = 0 => c # 5,
           hs_ax25_deframer_process(bit),
           NEW byte, byte = unstuffed_bits \div 2 + bit * 128
    PROVE  /\ heard' = heard /\ Ones(IF bit = 1 THEN c + 1 ELSE 0)'
           /\ unstuffed_bits' = byte
           /\ IF unstuffed_bit_count = 7
              THEN unstuffed_bit_count' = 0 /\ buffer' = Stored(byte)
              ELSE unstuffed_bit_count' = unstuffed_bit_count + 1 /\ buffer' = buffer
<1>1. PICK d, new : /\ d = (IF bit = 1 THEN c + 1 ELSE 0)
                    /\ new = (raw_bits * 2 + bit) % 256
  OBVIOUS
<1>2. raw_bits \in 0..255 /\ (bit = 0 \/ bit = 1) /\ EndsIn(raw_bits, c) /\ ones_count = c
  BY DeframerTypes DEF Bits, Ones
<1>3. new # 126 /\ EndsIn(new, d)
  <2>1. /\ (raw_bits * 2 + 0) % 256 # 126 /\ EndsIn((raw_bits * 2 + 0) % 256, 0)
        /\ (raw_bits * 2 + 1) % 256 # 126 /\ EndsIn((raw_bits * 2 + 1) % 256, c + 1)
    BY <1>2, ShiftedOnes
  <2>2. CASE bit = 0
    BY <1>1, <2>1, <2>2
  <2>3. CASE bit = 1
    BY <1>1, <2>1, <2>3
  <2>. QED  BY <1>2, <2>2, <2>3
<1>4. raw_bits' = new /\ DataBit(bit) /\ heard' = heard
  BY <1>1, <1>3, NotAFlag
<1>5. ones_count' = d
  <2>1. bit = 0 => ones_count' = 0
    BY <1>4 DEF DataBit
  <2>2. bit = 1 => ones_count' = (ones_count + 1) % 256
    BY <1>4 DEF DataBit
  <2>. QED  BY <1>1, <1>2, <2>1, <2>2
<1>6. Ones(d)'
  BY <1>3, <1>4, <1>5 DEF Ones
<1>7. ~(bit = 0 /\ ones_count >= 5)
  BY <1>2
<1>8. /\ unstuffed_bits' = byte
      /\ IF unstuffed_bit_count = 7
         THEN unstuffed_bit_count' = 0 /\ buffer' = Stored(byte)
         ELSE unstuffed_bit_count' = unstuffed_bit_count + 1 /\ buffer' = buffer
  BY <1>4, <1>7, Zenon DEF DataBit
<1>. QED  BY <1>1, <1>4, <1>6, <1>8

\* The zero after five ones is dropped.
LEMMA StuffedZero ==
    ASSUME TypeOK, Ones(5), hs_ax25_deframer_process(0)
    PROVE  /\ Ones(0)' /\ UNCHANGED <<unstuffed_bits, unstuffed_bit_count, buffer, heard>>
<1>1. raw_bits % 64 = 31 /\ ones_count = 5 /\ raw_bits \in 0..255 /\ unstuffed_bit_count \in 0..7
  BY DeframerTypes, Powers DEF Ones, EndsIn
<1>2. (raw_bits * 2 + 0) % 256 # 126 /\ ((raw_bits * 2 + 0) % 256) % 2 = 0
  BY <1>1
<1>3. raw_bits' = (raw_bits * 2 + 0) % 256 /\ DataBit(0) /\ heard' = heard
  BY <1>2, NotAFlag DEF Bits
<1>4. ones_count' = 0
  BY <1>3 DEF DataBit
<1>5. Ones(0)'
  BY <1>2, <1>3, <1>4, Powers DEF Ones, EndsIn
<1>6. ones_count >= 5
  BY <1>1
<1>7. /\ unstuffed_bits' = unstuffed_bits /\ buffer' = buffer
      /\ unstuffed_bit_count' = unstuffed_bit_count + 0
  BY <1>3, <1>6, Zenon DEF DataBit
<1>. QED  BY <1>1, <1>3, <1>5, <1>7

\* The last bit of a flag.
LEMMA FlagEnds ==
    ASSUME TypeOK, raw_bits % 128 = 63, hs_ax25_deframer_process(0)
    PROVE  /\ Flag /\ InFlag(0)' /\ buffer' = <<>> /\ raw_bits' = 0 /\ unstuffed_bits' = 0
           /\ unstuffed_bit_count' = 0
<1>1. (raw_bits * 2 + 0) % 256 = 126
  <2>1. raw_bits \in 0..255
    BY DeframerTypes
  <2>2. raw_bits = 63 \/ raw_bits = 191
    BY <2>1
  <2>. QED  BY <2>2
<1>2. Flag
  BY <1>1 DEF hs_ax25_deframer_process, HS_AX25_FLAG
<1>3. raw_bits' = 0 /\ ones_count' = 0 /\ unstuffed_bit_count' = 0
  BY <1>2 DEF Flag
<1>4. raw_bits' % 2 ^ 1 = 2 ^ 0 - 1
  BY <1>3, Powers
<1>5. Ones(0)'
  BY <1>3, <1>4 DEF Ones, EndsIn
<1>. QED  BY <1>2, <1>3, <1>5 DEF Flag, InFlag

\* A flag after a flag or after the packet: bit by bit.
LEMMA FlagBegins ==
    ASSUME TypeOK, NEW c \in 0..4, Ones(c), unstuffed_bit_count = 0,
           hs_ax25_deframer_process(0)
    PROVE  InFlag(1)' /\ buffer' = buffer /\ heard' = heard
<1>1. c \in 0..5 /\ c # 5 /\ 0 \in Bits /\ 0 # 1
  BY DEF Bits
<1>2. Ones(0)' /\ unstuffed_bit_count' = 0 + 1 /\ buffer' = buffer /\ heard' = heard
  BY <1>1, PlainBit
<1>. QED  BY <1>2 DEF InFlag

LEMMA FlagGoesOn ==
    ASSUME TypeOK, NEW i \in 1..6, InFlag(i), hs_ax25_deframer_process(1)
    PROVE  InFlag(i + 1)' /\ buffer' = buffer /\ heard' = heard
<1>1. Ones(i - 1) /\ i - 1 \in 0..5 /\ unstuffed_bit_count = i /\ i # 7 /\ i + 1 # 0
      /\ (i - 1) + 1 = (i + 1) - 1
  BY DEF InFlag
<1>2. 1 \in Bits /\ (1 = 0 => i - 1 # 5)
  BY DEF Bits
<1>3. /\ Ones((i - 1) + 1)' /\ unstuffed_bit_count' = i + 1
      /\ buffer' = buffer /\ heard' = heard
  BY <1>1, <1>2, PlainBit
<1>. QED  BY <1>1, <1>3 DEF InFlag

LEMMA FlagDone ==
    ASSUME InFlag(7)
    PROVE  raw_bits % 128 = 63
BY Powers DEF InFlag, Ones, EndsIn

\* Any bit of the flags between and after packets: nothing is received, and the
\* deframer is ready again after the last.
LEMMA QuietFlag ==
    ASSUME TypeOK, NEW i \in 0..7, InFlag(i), buffer = <<>>,
           hs_ax25_deframer_process(FlagBit(i))
    PROVE  /\ InFlag(IF i = 7 THEN 0 ELSE i + 1)' /\ buffer' = <<>> /\ heard' = heard
           /\ i = 7 => unstuffed_bits' = 0
<1>1. CASE i = 0
  <2>1. Ones(0) /\ unstuffed_bit_count = 0 /\ FlagBit(i) = 0
    BY <1>1 DEF InFlag, FlagBit
  <2>2. hs_ax25_deframer_process(0)
    BY <2>1
  <2>3. InFlag(1)' /\ buffer' = buffer /\ heard' = heard
    BY <2>1, <2>2, FlagBegins
  <2>. QED  BY <1>1, <2>3
<1>2. CASE i \in 1..6
  <2>1. FlagBit(i) = 1 /\ i # 7
    BY <1>2 DEF FlagBit
  <2>2. hs_ax25_deframer_process(1)
    BY <2>1
  <2>. QED  BY <1>2, <2>1, <2>2, FlagGoesOn
<1>3. CASE i = 7
  <2>1. FlagBit(i) = 0
    BY <1>3 DEF FlagBit
  <2>2. hs_ax25_deframer_process(0) /\ raw_bits % 128 = 63
    BY <1>3, <2>1, FlagDone
  <2>3. Flag /\ InFlag(0)' /\ buffer' = <<>> /\ unstuffed_bits' = 0
    BY <2>2, FlagEnds
  <2>4. ~(Len(buffer) >= MinPacketLen)
    BY Constants
  <2>5. heard' = heard
    BY <2>3, <2>4 DEF Flag
  <2>. QED  BY <1>3, <2>3, <2>5
<1>. QED  BY <1>1, <1>2, <1>3

-----------------------------------------------------------------------------
(***************************************************************************)
(* The first two flags                                                     *)
(***************************************************************************)
LEMMA MoreOnes ==
    ASSUME NEW raw \in 0..255, NEW i \in 1..6, AllOnes(raw, i)
    PROVE  AllOnes((raw * 2 + 1) % 256, i + 1)
<1>1. \/ i = 1 \/ i = 2 \/ i = 3 \/ i = 4 \/ i = 5 \/ i = 6
  OBVIOUS
<1>2. PICK one : one = (raw * 2 + 1) % 256
  OBVIOUS
<1>3. \A x \in Int : /\ AllOnes(x, 1) <=> x % 2 = 1
                     /\ AllOnes(x, 2) <=> x % 4 = 3
                     /\ AllOnes(x, 3) <=> x % 8 = 7
                     /\ AllOnes(x, 4) <=> x % 16 = 15
                     /\ AllOnes(x, 5) <=> x % 32 = 31
                     /\ AllOnes(x, 6) <=> x % 64 = 63
                     /\ AllOnes(x, 7) <=> x % 128 = 127
  BY Powers DEF AllOnes
<1>4. /\ raw % 2 = 1 => one % 4 = 3
      /\ raw % 4 = 3 => one % 8 = 7
      /\ raw % 8 = 7 => one % 16 = 15
      /\ raw % 16 = 15 => one % 32 = 31
      /\ raw % 32 = 31 => one % 64 = 63
      /\ raw % 64 = 63 => one % 128 = 127
  BY <1>2
<1>5. raw \in Int /\ one \in Int
  BY <1>2
<1>6. PICK d : d = i + 1
  OBVIOUS
<1>7. /\ i = 1 => d = 2
      /\ i = 2 => d = 3
      /\ i = 3 => d = 4
      /\ i = 4 => d = 5
      /\ i = 5 => d = 6
      /\ i = 6 => d = 7
  BY <1>6
<1>8. AllOnes(one, d)
  BY <1>1, <1>3, <1>4, <1>5, <1>7
<1>. QED  BY <1>2, <1>6, <1>8

\* A data bit completes no byte yet.
LEMMA LessThanAByte ==
    ASSUME TypeOK, NEW i \in 0..6, AtMostOne(i), NEW bit, DataBit(bit), heard' = heard
    PROVE  AtMostOne(i + 1)'
<1>1. CASE heard = <<>>
  BY <1>1 DEF AtMostOne
<1>2. CASE Len(heard) = 1 /\ buffer = <<>> /\ unstuffed_bit_count <= i
  <2>1. unstuffed_bit_count \in 0..7 /\ unstuffed_bit_count # 7
    BY <1>2, DeframerTypes
  <2>2. /\ \/ unstuffed_bit_count' = unstuffed_bit_count + 0
           \/ unstuffed_bit_count' = unstuffed_bit_count + 1
        /\ buffer' = buffer
    BY <2>1, Zenon DEF DataBit
  <2>3. unstuffed_bit_count' <= i + 1
    BY <1>2, <2>1, <2>2
  <2>. QED  BY <1>2, <2>2, <2>3 DEF AtMostOne
<1>. QED  BY <1>1, <1>2 DEF AtMostOne

\* A flag hands over what came before it, once.
LEMMA FlagAtMostOne ==
    ASSUME TypeOK, NEW i, AtMostOne(i), Flag
    PROVE  AtMostOne(0)' /\ Len(heard') <= 1
<1>1. buffer' = <<>> /\ unstuffed_bit_count' = 0
  BY DEF Flag
<1>2. \/ heard' = heard
      \/ heard' = Append(heard, buffer) /\ Len(buffer) >= MinPacketLen
  BY DEF Flag
<1>3. CASE heard = <<>>
  <2>1. Len(heard) = 0 /\ Len(Append(heard, buffer)) = 1
    BY <1>3
  <2>2. heard' = <<>> \/ Len(heard') = 1
    BY <1>2, <1>3, <2>1
  <2>3. Len(heard') <= 1
    BY <1>2, <2>1
  <2>. QED  BY <1>1, <2>2, <2>3 DEF AtMostOne
<1>4. CASE Len(heard) = 1 /\ buffer = <<>>
  <2>1. ~(Len(buffer) >= MinPacketLen)
    <3>1. Len(buffer) = 0
      BY <1>4
    <3>. QED  BY <3>1, Constants
  <2>2. heard' = heard
    BY <1>2, <2>1
  <2>3. Len(heard') = 1
    BY <1>4, <2>2
  <2>. QED  BY <1>1, <2>3 DEF AtMostOne
<1>. QED  BY <1>3, <1>4 DEF AtMostOne

\* The first bit, read right or wrong, after anything.
LEMMA FirstBit ==
    ASSUME TypeOK, heard = <<>>, NEW bit \in Bits, hs_ax25_deframer_process(bit)
    PROVE  Syncing(1)'
<1>0. raw_bits \in 0..255 /\ AtMostOne(0)
  BY DeframerTypes DEF AtMostOne
<1>1. CASE bit = 1
  <2>1. (raw_bits * 2 + 1) % 256 # 126 /\ ((raw_bits * 2 + 1) % 256) % 2 = 1
    BY <1>0
  <2>2. raw_bits' = (raw_bits * 2 + 1) % 256 /\ heard' = heard
    BY <1>1, <2>1, NotAFlag
  <2>3. AllOnes(raw_bits', 1)
    BY <2>1, <2>2, Powers DEF AllOnes
  <2>. QED  BY <2>2, <2>3 DEF Syncing
<1>2. CASE bit = 0 /\ (raw_bits * 2 + bit) % 256 # 126
  <2>1. raw_bits' = (raw_bits * 2 + 0) % 256 /\ DataBit(bit) /\ heard' = heard
    BY <1>2, NotAFlag
  <2>2. raw_bits' \in Int /\ raw_bits' % 2 = 0
    BY <1>0, <2>1
  <2>3. EndsIn(raw_bits', 0)
    BY <2>2, Endings
  <2>4. AtMostOne(1)'
    BY <2>1 DEF AtMostOne
  <2>. QED  BY <2>3, <2>4 DEF Syncing, InSync
<1>3. CASE bit = 0 /\ (raw_bits * 2 + bit) % 256 = 126
  <2>1. Flag
    BY <1>3 DEF hs_ax25_deframer_process, HS_AX25_FLAG
  <2>2. AtMostOne(0)' /\ raw_bits' = 0
    BY <1>0, <2>1, FlagAtMostOne DEF Flag
  <2>3. EndsIn(raw_bits', 0)
    BY <2>2, Endings
  <2>4. AtMostOne(1)'
    BY <2>1, <2>2 DEF AtMostOne, Flag
  <2>. QED  BY <2>3, <2>4 DEF Syncing, InSync
<1>. QED  BY <1>1, <1>2, <1>3 DEF Bits

\* A one of a flag.
LEMMA SyncOne ==
    ASSUME TypeOK, NEW i \in 1..6, InSync(i), hs_ax25_deframer_process(1)
    PROVE  InSync(i + 1)'
<1>1. EndsIn(raw_bits, i - 1) /\ i - 1 \in 0..5 /\ raw_bits \in 0..255 /\ AtMostOne(i)
  BY DeframerTypes DEF InSync
<1>2. /\ (raw_bits * 2 + 1) % 256 # 126
      /\ EndsIn((raw_bits * 2 + 1) % 256, (i - 1) + 1)
  BY <1>1, ShiftedOnes
<1>3. raw_bits' = (raw_bits * 2 + 1) % 256 /\ DataBit(1) /\ heard' = heard
  BY <1>2, NotAFlag DEF Bits
<1>4. (i - 1) + 1 = (i + 1) - 1 /\ i \in 0..6
  OBVIOUS
<1>5. AtMostOne(i + 1)'
  BY <1>1, <1>3, <1>4, LessThanAByte
<1>6. EndsIn(raw_bits', (i + 1) - 1)
  BY <1>2, <1>3, <1>4
<1>. QED  BY <1>5, <1>6 DEF InSync

LEMMA SyncStep ==
    ASSUME TypeOK, NEW j \in 1..14, Syncing(j), hs_ax25_deframer_process(FlagBit(j))
    PROVE  Syncing(j + 1)'
<1>0. raw_bits \in 0..255 /\ 0 \in Bits /\ 1 \in Bits
  BY DeframerTypes DEF Bits
<1>1. CASE j \in 1..6
  <2>1. hs_ax25_deframer_process(1)
    <3>1. FlagBit(j) = 1
      BY <1>1 DEF FlagBit
    <3>. QED  BY <3>1
  <2>2. j + 1 \in 1..7 /\ j # 8 /\ j \notin 9..15
    BY <1>1
  <2>3. CASE InSync(j)
    BY <1>1, <2>1, <2>2, <2>3, SyncOne DEF Syncing
  <2>4. CASE AllOnes(raw_bits, j) /\ heard = <<>>
    <3>1. (raw_bits * 2 + 1) % 256 # 126
      BY <1>0
    <3>2. raw_bits' = (raw_bits * 2 + 1) % 256 /\ heard' = heard
      BY <1>0, <2>1, <3>1, NotAFlag
    <3>3. AllOnes((raw_bits * 2 + 1) % 256, j + 1)
      BY <1>0, <1>1, <2>4, MoreOnes
    <3>4. AllOnes(raw_bits, j + 1)'
      BY <3>2, <3>3
    <3>. QED  BY <2>2, <2>4, <3>2, <3>4 DEF Syncing
  <2>. QED  BY <2>2, <2>3, <2>4 DEF Syncing
<1>2. CASE j = 7
  <2>1. hs_ax25_deframer_process(0)
    <3>1. FlagBit(j) = 0
      BY <1>2 DEF FlagBit
    <3>. QED  BY <3>1
  <2>2. CASE InSync(7)
    <3>1. EndsIn(raw_bits, 6) /\ AtMostOne(7)
      BY <2>2 DEF InSync
    <3>2. raw_bits % 128 = 63
      BY <1>0, <3>1, Endings
    <3>3. Flag /\ raw_bits' = 0
      BY <2>1, <3>2, FlagEnds
    <3>4. AtMostOne(0)'
      BY <3>1, <3>3, FlagAtMostOne
    <3>. QED  BY <1>2, <3>3, <3>4 DEF Syncing
  <2>3. CASE AllOnes(raw_bits, 7) /\ heard = <<>>
    <3>1. raw_bits % 128 = 127
      BY <2>3, Powers DEF AllOnes
    <3>2. (raw_bits * 2 + 0) % 256 = 254
      <4>1. raw_bits = 127 \/ raw_bits = 255
        BY <1>0, <3>1
      <4>. QED  BY <4>1
    <3>3. raw_bits' = 254 /\ heard' = heard
      BY <1>0, <2>1, <3>2, NotAFlag
    <3>. QED  BY <1>2, <2>3, <3>3 DEF Syncing
  <2>. QED  BY <1>2, <2>2, <2>3 DEF Syncing
<1>3. CASE j = 8
  <2>1. hs_ax25_deframer_process(0)
    <3>1. FlagBit(j) = 0
      BY <1>3 DEF FlagBit
    <3>. QED  BY <3>1
  <2>2. (raw_bits = 0 \/ raw_bits = 254) /\ AtMostOne(0)
    BY <1>3 DEF Syncing, AtMostOne
  <2>3. (raw_bits * 2 + 0) % 256 # 126 /\ ((raw_bits * 2 + 0) % 256) % 2 = 0
        /\ (raw_bits * 2 + 0) % 256 \in Int
    BY <2>2
  <2>4. raw_bits' = (raw_bits * 2 + 0) % 256 /\ DataBit(0) /\ heard' = heard
    BY <1>0, <2>1, <2>3, NotAFlag
  <2>5. AtMostOne(0 + 1)'
    BY <2>2, <2>4, LessThanAByte
  <2>6. EndsIn(raw_bits', 0)
    BY <2>3, <2>4, Endings
  <2>7. InSync(1)'
    BY <2>5, <2>6 DEF InSync
  <2>8. (j + 1) - 8 = 1 /\ j + 1 \in 9..15
    BY <1>3
  <2>. QED  BY <2>7, <2>8 DEF Syncing
<1>4. CASE j \in 9..14
  <2>1. hs_ax25_deframer_process(1)
    <3>1. FlagBit(j) = 1
      BY <1>4 DEF FlagBit
    <3>. QED  BY <3>1
  <2>2. /\ j - 8 \in 1..6 /\ (j - 8) + 1 = (j + 1) - 8 /\ j + 1 \in 9..15
        /\ j # 8 /\ j \notin 1..7
    BY <1>4
  <2>3. InSync(j - 8)
    BY <2>2 DEF Syncing
  <2>4. InSync((j - 8) + 1)'
    BY <2>1, <2>2, <2>3, SyncOne
  <2>. QED  BY <2>2, <2>4 DEF Syncing
<1>. QED  BY <1>1, <1>2, <1>3, <1>4

\* The second flag is not missed.
LEMMA SecondFlag ==
    ASSUME TypeOK, Syncing(15), hs_ax25_deframer_process(0)
    PROVE  InFlag(0)' /\ buffer' = <<>> /\ Len(heard') <= 1
<1>1. InSync(7)
  <2>1. 15 - 8 = 7 /\ 15 \notin 1..7 /\ 15 # 8
    OBVIOUS
  <2>. QED  BY <2>1 DEF Syncing
<1>2. EndsIn(raw_bits, 6) /\ AtMostOne(7)
  BY <1>1 DEF InSync
<1>3. raw_bits % 128 = 63
  <2>1. raw_bits \in 0..255
    BY DeframerTypes
  <2>. QED  BY <1>2, <2>1, Endings
<1>4. Flag /\ InFlag(0)' /\ buffer' = <<>>
  BY <1>3, FlagEnds
<1>. QED  BY <1>2, <1>4, FlagAtMostOne

-----------------------------------------------------------------------------
(***************************************************************************)
(* The packet                                                              *)
(***************************************************************************)
\* The top r bits of the shift register u are the low r bits of byte b.
TopBits(u, b, r) == u \div 2 ^ (8 - r) = b % 2 ^ r
BitAt(b, r) == (b \div 2 ^ r) % 2
Shifted(u, bit) == u \div 2 + bit * 128

\* v holds bit r of byte b too, and with the last bit it is b.
BitTaken(v, b, r) ==
    v \in 0..255 /\ (r # 7 => TopBits(v, b, r + 1)) /\ (r = 7 => v = b)

LEMMA TopBitsAre ==
    ASSUME NEW u, NEW b
    PROVE  /\ TopBits(u, b, 0) <=> u \div 256 = b % 1
           /\ TopBits(u, b, 1) <=> u \div 128 = b % 2
           /\ TopBits(u, b, 2) <=> u \div 64 = b % 4
           /\ TopBits(u, b, 3) <=> u \div 32 = b % 8
           /\ TopBits(u, b, 4) <=> u \div 16 = b % 16
           /\ TopBits(u, b, 5) <=> u \div 8 = b % 32
           /\ TopBits(u, b, 6) <=> u \div 4 = b % 64
           /\ TopBits(u, b, 7) <=> u \div 2 = b % 128
BY Powers DEF TopBits

\* One more bit of the byte is shifted in.
LEMMA ShiftedBit ==
    \A b, u \in Bytes, r \in 0..7 :
       TopBits(u, b, r) => BitTaken(Shifted(u, BitAt(b, r)), b, r)
<1>. SUFFICES ASSUME NEW b \in Bytes, NEW u \in Bytes, NEW r \in 0..7, TopBits(u, b, r),
                     NEW v, v = Shifted(u, BitAt(b, r))
     PROVE  BitTaken(v, b, r)
  BY Zenon
<1>. USE DEF Bytes
<1>0. /\ r = 0 => u \div 256 = b % 1
      /\ r = 1 => u \div 128 = b % 2
      /\ r = 2 => u \div 64 = b % 4
      /\ r = 3 => u \div 32 = b % 8
      /\ r = 4 => u \div 16 = b % 16
      /\ r = 5 => u \div 8 = b % 32
      /\ r = 6 => u \div 4 = b % 64
      /\ r = 7 => u \div 2 = b % 128
  <2>1. /\ TopBits(u, b, 0) <=> u \div 256 = b % 1
        /\ TopBits(u, b, 1) <=> u \div 128 = b % 2
        /\ TopBits(u, b, 2) <=> u \div 64 = b % 4
        /\ TopBits(u, b, 3) <=> u \div 32 = b % 8
        /\ TopBits(u, b, 4) <=> u \div 16 = b % 16
        /\ TopBits(u, b, 5) <=> u \div 8 = b % 32
        /\ TopBits(u, b, 6) <=> u \div 4 = b % 64
        /\ TopBits(u, b, 7) <=> u \div 2 = b % 128
    BY Powers DEF TopBits
  <2>2. TopBits(u, b, r)
    OBVIOUS
  <2>. QED  BY <2>1, <2>2
<1>1. PICK bit : bit = BitAt(b, r)
  OBVIOUS
<1>2. v = u \div 2 + bit * 128
  BY <1>1 DEF Shifted
<1>3. CASE r = 0
  <2>1. bit = (b \div 1) % 2 /\ (bit = 0 \/ bit = 1)
    BY <1>1, <1>3, Powers DEF BitAt
  <2>2. u \div 256 = b % 1
    BY <1>3, <1>0
  <2>3. b % 2 = (b % 1) + 1 * bit
    BY <2>1
  <2>4. v \in 0..255 /\ v \div 128 = u \div 256 + 1 * bit
    <3>1. CASE bit = 0
      BY <1>2, <3>1
    <3>2. CASE bit = 1
      BY <1>2, <3>2
    <3>. QED  BY <2>1, <3>1, <3>2
  <2>5. v \div 128 = b % 2
    BY <2>1, <2>2, <2>3, <2>4
  <2>6. TopBits(v, b, 1)
    BY <2>4, <2>5, TopBitsAre
  <2>. QED  BY <1>3, <2>4, <2>6 DEF BitTaken
<1>4. CASE r = 1
  <2>1. bit = (b \div 2) % 2 /\ (bit = 0 \/ bit = 1)
    BY <1>1, <1>4, Powers DEF BitAt
  <2>2. u \div 128 = b % 2
    BY <1>4, <1>0
  <2>3. b % 4 = (b % 2) + 2 * bit
    BY <2>1
  <2>4. v \in 0..255 /\ v \div 64 = u \div 128 + 2 * bit
    <3>1. CASE bit = 0
      BY <1>2, <3>1
    <3>2. CASE bit = 1
      BY <1>2, <3>2
    <3>. QED  BY <2>1, <3>1, <3>2
  <2>5. v \div 64 = b % 4
    BY <2>1, <2>2, <2>3, <2>4
  <2>6. TopBits(v, b, 2)
    BY <2>4, <2>5, TopBitsAre
  <2>. QED  BY <1>4, <2>4, <2>6 DEF BitTaken
<1>5. CASE r = 2
  <2>1. bit = (b \div 4) % 2 /\ (bit = 0 \/ bit = 1)
    BY <1>1, <1>5, Powers DEF BitAt
  <2>2. u \div 64 = b % 4
    BY <1>5, <1>0
  <2>3. b % 8 = (b % 4) + 4 * bit
    BY <2>1
  <2>4. v \in 0..255 /\ v \div 32 = u \div 64 + 4 * bit
    <3>1. CASE bit = 0
      BY <1>2, <3>1
    <3>2. CASE bit = 1
      BY <1>2, <3>2
    <3>. QED  BY <2>1, <3>1, <3>2
  <2>5. v \div 32 = b % 8
    BY <2>1, <2>2, <2>3, <2>4
  <2>6. TopBits(v, b, 3)
    BY <2>4, <2>5, TopBitsAre
  <2>. QED  BY <1>5, <2>4, <2>6 DEF BitTaken
<1>6. CASE r = 3
  <2>1. bit = (b \div 8) % 2 /\ (bit = 0 \/ bit = 1)
    BY <1>1, <1>6, Powers DEF BitAt
  <2>2. u \div 32 = b % 8
    BY <1>6, <1>0
  <2>3. b % 16 = (b % 8) + 8 * bit
    BY <2>1
  <2>4. v \in 0..255 /\ v \div 16 = u \div 32 + 8 * bit
    <3>1. CASE bit = 0
      BY <1>2, <3>1
    <3>2. CASE bit = 1
      BY <1>2, <3>2
    <3>. QED  BY <2>1, <3>1, <3>2
  <2>5. v \div 16 = b % 16
    BY <2>1, <2>2, <2>3, <2>4
  <2>6. TopBits(v, b, 4)
    BY <2>4, <2>5, TopBitsAre
  <2>. QED  BY <1>6, <2>4, <2>6 DEF BitTaken
<1>7. CASE r = 4
  <2>1. bit = (b \div 16) % 2 /\ (bit = 0 \/ bit = 1)
    BY <1>1, <1>7, Powers DEF BitAt
  <2>2. u \div 16 = b % 16
    BY <1>7, <1>0
  <2>3. b % 32 = (b % 16) + 16 * bit
    BY <2>1
  <2>4. v \in 0..255 /\ v \div 8 = u \div 16 + 16 * bit
    <3>1. CASE bit = 0
      BY <1>2, <3>1
    <3>2. CASE bit = 1
      BY <1>2, <3>2
    <3>. QED  BY <2>1, <3>1, <3>2
  <2>5. v \div 8 = b % 32
    BY <2>1, <2>2, <2>3, <2>4
  <2>6. TopBits(v, b, 5)
    BY <2>4, <2>5, TopBitsAre
  <2>. QED  BY <1>7, <2>4, <2>6 DEF BitTaken
<1>8. CASE r = 5
  <2>1. bit = (b \div 32) % 2 /\ (bit = 0 \/ bit = 1)
    BY <1>1, <1>8, Powers DEF BitAt
  <2>2. u \div 8 = b % 32
    BY <1>8, <1>0
  <2>3. b % 64 = (b % 32) + 32 * bit
    BY <2>1
  <2>4. v \in 0..255 /\ v \div 4 = u \div 8 + 32 * bit
    <3>1. CASE bit = 0
      BY <1>2, <3>1
    <3>2. CASE bit = 1
      BY <1>2, <3>2
    <3>. QED  BY <2>1, <3>1, <3>2
  <2>5. v \div 4 = b % 64
    BY <2>1, <2>2, <2>3, <2>4
  <2>6. TopBits(v, b, 6)
    BY <2>4, <2>5, TopBitsAre
  <2>. QED  BY <1>8, <2>4, <2>6 DEF BitTaken
<1>9. CASE r = 6
  <2>1. bit = (b \div 64) % 2 /\ (bit = 0 \/ bit = 1)
    BY <1>1, <1>9, Powers DEF BitAt
  <2>2. u \div 4 = b % 64
    BY <1>9, <1>0
  <2>3. b % 128 = (b % 64) + 64 * bit
    BY <2>1
  <2>4. v \in 0..255 /\ v \div 2 = u \div 4 + 64 * bit
    <3>1. CASE bit = 0
      BY <1>2, <3>1
    <3>2. CASE bit = 1
      BY <1>2, <3>2
    <3>. QED  BY <2>1, <3>1, <3>2
  <2>5. v \div 2 = b % 128
    BY <2>1, <2>2, <2>3, <2>4
  <2>6. TopBits(v, b, 7)
    BY <2>4, <2>5, TopBitsAre
  <2>. QED  BY <1>9, <2>4, <2>6 DEF BitTaken
<1>10. CASE r = 7
  <2>1. bit = (b \div 128) % 2 /\ (bit = 0 \/ bit = 1)
    BY <1>1, <1>10, Powers DEF BitAt
  <2>2. u \div 2 = b % 128
    BY <1>10, <1>0
  <2>3. b % 256 = (b % 128) + 128 * bit
    BY <2>1
  <2>4. v \in 0..255 /\ v \div 1 = u \div 2 + 128 * bit
    <3>1. CASE bit = 0
      BY <1>2, <3>1
    <3>2. CASE bit = 1
      BY <1>2, <3>2
    <3>. QED  BY <2>1, <3>1, <3>2
  <2>5. v \div 1 = b % 256
    BY <2>1, <2>2, <2>3, <2>4
  <2>6. v = b
    BY <2>4, <2>5
  <2>. QED  BY <1>10, <2>4, <2>6 DEF BitTaken
<1>11. r = 0 \/ r = 1 \/ r = 2 \/ r = 3 \/ r = 4 \/ r = 5 \/ r = 6 \/ r = 7
  OBVIOUS
<1>. QED  BY <1>3, <1>4, <1>5, <1>6, <1>7, <1>8, <1>9, <1>10, <1>11, Zenon

\* One more bit of the packet is unstuffed.
LEMMA BitUnstuffed ==
    ASSUME TypeOK, NEW p \in Packets, Len(p) <= RxLimit, NEW n \in 0 .. 8 * Len(p) - 1,
           Unstuffed(p, n),
           NEW byte, byte = unstuffed_bits \div 2 + BitsOf(p)[n + 1] * 128,
           unstuffed_bits' = byte,
           IF unstuffed_bit_count = 7
           THEN unstuffed_bit_count' = 0 /\ buffer' = Stored(byte)
           ELSE unstuffed_bit_count' = unstuffed_bit_count + 1 /\ buffer' = buffer
    PROVE  Unstuffed(p, n + 1)'
<1>1. PICK q, r, L : q = n \div 8 /\ r = n % 8 /\ L = Len(p)
  OBVIOUS
<1>2. p \in Seq(Bytes) /\ Len(p) \in Nat
  BY Constants
<1>3. q \in 0 .. L - 1 /\ r \in 0..7 /\ n = 8 * q + r /\ q + 1 \in 1 .. L /\ n < 8 * L /\ L \in Nat
  BY <1>1, <1>2
<1>4. PICK b, bit : b = p[q + 1] /\ bit = BitsOf(p)[n + 1]
  OBVIOUS
<1>5. b \in 0..255
  BY <1>1, <1>2, <1>3, <1>4 DEF Bytes
<1>6. bit = BitAt(b, r)
  <2>1. n + 1 \in 1 .. 8 * Len(p) /\ (n + 1) - 1 = n
    BY <1>1, <1>3
  <2>2. BitsOf(p)[n + 1] = (p[n \div 8 + 1] \div 2 ^ (n % 8)) % 2
    BY <2>1 DEF BitsOf
  <2>. QED  BY <1>1, <1>4, <2>2 DEF BitAt
<1>7. unstuffed_bits \in 0..255 /\ buffer \in Seq(Bytes) /\ Len(buffer) \in Nat
  BY DeframerTypes
<1>8. /\ TopBits(unstuffed_bits, b, r) /\ unstuffed_bit_count = r
      /\ Len(buffer) = q /\ \A k \in 1..q : buffer[k] = p[k]
  BY <1>1, <1>3, <1>4 DEF Unstuffed, TopBits
<1>9. byte = Shifted(unstuffed_bits, BitAt(b, r))
  BY <1>4, <1>6 DEF Shifted
<1>10. byte \in 0..255 /\ (r # 7 => TopBits(byte, b, r + 1)) /\ (r = 7 => byte = b)
  <2>1. PICK u : u = unstuffed_bits
    OBVIOUS
  <2>2. b \in Bytes /\ u \in Bytes
    BY <1>5, <1>7, <2>1 DEF Bytes
  <2>3. r \in 0..7 /\ TopBits(u, b, r) /\ byte = Shifted(u, BitAt(b, r))
    BY <1>3, <1>8, <1>9, <2>1
  <2>4. BitTaken(byte, b, r)
    BY <2>2, <2>3, ShiftedBit, Zenon
  <2>. QED  BY <2>4, Zenon DEF BitTaken
<1>11. CASE r # 7
  <2>1. (n + 1) % 8 = r + 1 /\ (n + 1) \div 8 = q
    BY <1>3, <1>11
  <2>2. unstuffed_bit_count' = r + 1 /\ buffer' = buffer
    BY <1>8, <1>11
  <2>3. unstuffed_bits' \div 2 ^ (8 - (r + 1)) = b % 2 ^ (r + 1)
    BY <1>10, <1>11 DEF TopBits
  <2>. QED  BY <1>4, <1>8, <2>1, <2>2, <2>3 DEF Unstuffed
<1>12. CASE r = 7
  <2>1. (n + 1) % 8 = 0 /\ (n + 1) \div 8 = q + 1
    BY <1>3, <1>12
  <2>2. unstuffed_bit_count' = 0 /\ buffer' = Stored(b) /\ unstuffed_bits' \in 0..255
    BY <1>8, <1>10, <1>12
  <2>3. buffer' = Append(buffer, b)
    <3>1. ~(Len(buffer) >= RxLimit)
      <4>1. RxLimit \in Nat
        BY Constants
      <4>2. Len(buffer) = q
        BY <1>8
      <4>. QED  BY <1>1, <1>3, <4>1, <4>2
    <3>. QED  BY <2>2, <3>1 DEF Stored
  <2>4. Len(buffer') = q + 1 /\ \A k \in 1 .. q + 1 : buffer'[k] = p[k]
    <3>1. b \in Bytes
      BY <1>5 DEF Bytes
    <3>2. /\ Len(buffer') = q + 1 /\ buffer'[q + 1] = b
          /\ \A k \in 1..q : buffer'[k] = buffer[k]
      BY <1>3, <1>7, <1>8, <2>3, <3>1
    <3>3. ASSUME NEW k \in 1 .. q + 1 PROVE buffer'[k] = p[k]
      <4>1. k \in 1..q \/ k = q + 1
        BY <1>3
      <4>. QED  BY <1>4, <1>8, <3>2, <4>1
    <3>. QED  BY <3>2, <3>3
  <2>5. n + 1 < 8 * Len(p) => unstuffed_bits' \div 2 ^ 8 = p[q + 2] % 2 ^ 0
    <3>. SUFFICES ASSUME n + 1 < 8 * Len(p) PROVE unstuffed_bits' \div 2 ^ 8 = p[q + 2] % 2 ^ 0
      OBVIOUS
    <3>1. q + 2 \in 1 .. Len(p)
      BY <1>1, <1>3, <1>12
    <3>2. p[q + 2] \in Bytes
      BY <1>2, <3>1
    <3>3. \A x \in 0..255 : x % 1 = 0 /\ x \div 256 = 0
      OBVIOUS
    <3>4. p[q + 2] % 1 = 0 /\ unstuffed_bits' \div 256 = 0
      BY <2>2, <3>2, <3>3 DEF Bytes
    <3>. QED  BY <3>4, Powers
  <2>6. (q + 1) + 1 = q + 2 /\ 8 - 0 = 8
    BY <1>3
  <2>. QED  BY <2>1, <2>2, <2>4, <2>5, <2>6 DEF Unstuffed
<1>. QED  BY <1>11, <1>12

\* The next bit of the stuffed packet, a bit of the packet or a stuffed zero.
LEMMA BodyStep ==
    ASSUME TypeOK, NEW p \in Packets, Len(p) <= RxLimit, NEW j \in 0 .. Len(Body(p)) - 1,
           InBody(p, j), hs_ax25_deframer_process(Body(p)[j + 1])
    PROVE  InBody(p, j + 1)' /\ heard' = heard
<1>1. PICK bits, N : bits = BitsOf(p) /\ N = 8 * Len(p)
  OBVIOUS
<1>2. p \in Seq(Bytes) /\ bits \in Seq(Bits) /\ Len(bits) = N /\ N \in Nat /\ Len(p) \in Nat
  BY <1>1, Constants, BitsOfType
<1>3. Body(p) = Stuffed(bits) /\ Len(Body(p)) \in Nat
  BY <1>1, <1>2, StuffedType DEF Body
<1>4. PICK n \in 0..N :
         /\ Unstuffed(p, n)
         /\ \/ j = Len(Stuffing(bits)[n].out) /\ Ones(Stuffing(bits)[n].ones)
            \/ /\ j = Len(Stuffing(bits)[n].out) - 1 /\ j < Len(Body(p)) /\ Ones(5)
               /\ Stuffing(bits)[n].ones = 0 /\ Body(p)[j + 1] = 0
  BY <1>1 DEF InBody
<1>5. PICK before : before = Stuffing(bits)[n]
  OBVIOUS
<1>6. before \in StuffState /\ Len(before.out) \in Nat /\ before.ones \in 0..4
  BY <1>2, <1>4, <1>5, StuffingType DEF StuffState
<1>7. CASE j = Len(before.out) - 1 /\ Ones(5) /\ before.ones = 0 /\ Body(p)[j + 1] = 0
  <2>1. hs_ax25_deframer_process(0)
    BY <1>7
  <2>2. Ones(0)' /\ UNCHANGED <<unstuffed_bits, unstuffed_bit_count, buffer, heard>>
    BY <1>7, <2>1, StuffedZero
  <2>3. Unstuffed(p, n)'
    BY <1>4, <2>2 DEF Unstuffed
  <2>4. j + 1 = Len(before.out) /\ Ones(before.ones)'
    BY <1>6, <1>7, <2>2
  <2>. QED  BY <1>1, <1>4, <1>5, <2>2, <2>3, <2>4 DEF InBody
<1>8. CASE j = Len(before.out) /\ Ones(before.ones)
  <2>1. n < N
    <3>1. ASSUME n = N PROVE FALSE
      <4>1. j = Len(Body(p))
        BY <1>2, <1>3, <1>5, <1>8, <3>1 DEF Stuffed
      <4>. QED  BY <1>3, <4>1
    <3>. QED  BY <1>2, <1>4, <3>1
  <2>2. n \in 0 .. Len(bits) - 1 /\ n + 1 \in 0..N /\ n \in 0 .. 8 * Len(p) - 1
    BY <1>1, <1>2, <1>4, <2>1
  <2>3. PICK after, bit : after = Stuffing(bits)[n + 1] /\ bit = bits[n + 1]
    OBVIOUS
  <2>4. /\ Len(after.out) <= Len(Body(p))
        /\ Body(p)[j + 1] = bit
        /\ IF bit = 1 /\ before.ones = 4
           THEN /\ Len(after.out) = j + 2 /\ after.ones = 0 /\ Body(p)[j + 2] = 0
           ELSE /\ Len(after.out) = j + 1
                /\ after.ones = IF bit = 1 THEN before.ones + 1 ELSE 0
    BY <1>2, <1>3, <1>5, <1>8, <2>2, <2>3, NextStuffed
  <2>5. bit \in Bits /\ hs_ax25_deframer_process(bit)
    BY <1>2, <2>2, <2>3, <2>4
  <2>6. PICK byte : byte = unstuffed_bits \div 2 + bit * 128
    OBVIOUS
  <2>7. PICK c \in 0..5 : c = before.ones /\ Ones(c) /\ (bit = 0 => c # 5)
    BY <1>6, <1>8
  <2>8. /\ heard' = heard /\ Ones(IF bit = 1 THEN before.ones + 1 ELSE 0)'
        /\ unstuffed_bits' = byte
        /\ IF unstuffed_bit_count = 7
           THEN unstuffed_bit_count' = 0 /\ buffer' = Stored(byte)
           ELSE unstuffed_bit_count' = unstuffed_bit_count + 1 /\ buffer' = buffer
    <3>1. /\ heard' = heard /\ Ones(IF bit = 1 THEN c + 1 ELSE 0)'
          /\ unstuffed_bits' = byte
          /\ IF unstuffed_bit_count = 7
             THEN unstuffed_bit_count' = 0 /\ buffer' = Stored(byte)
             ELSE unstuffed_bit_count' = unstuffed_bit_count + 1 /\ buffer' = buffer
      <4>1. /\ c \in 0..5 /\ Ones(c) /\ bit \in Bits /\ (bit = 0 => c # 5)
            /\ hs_ax25_deframer_process(bit) /\ byte = unstuffed_bits \div 2 + bit * 128
        BY <2>5, <2>6, <2>7, Zenon
      <4>. QED  BY <4>1, PlainBit, SMTT(20)
    <3>. QED  BY <2>7, <3>1
  <2>9. Unstuffed(p, n + 1)'
    <3>1. byte = unstuffed_bits \div 2 + BitsOf(p)[n + 1] * 128
      BY <1>1, <2>3, <2>6
    <3>. QED  BY <1>4, <2>2, <2>8, <3>1, BitUnstuffed
  <2>10. CASE bit = 1 /\ before.ones = 4
    <3>1. Ones(5)'
      BY <2>8, <2>10
    <3>2. /\ j + 1 = Len(after.out) - 1 /\ j + 1 < Len(Body(p)) /\ after.ones = 0
          /\ Body(p)[(j + 1) + 1] = 0
      <4>1. (j + 1) + 1 = j + 2 /\ Len(after.out) = j + 2
        BY <2>4, <2>10
      <4>. QED  BY <1>3, <2>4, <2>10, <4>1
    <3>. QED  BY <1>1, <2>2, <2>3, <2>8, <2>9, <3>1, <3>2 DEF InBody
  <2>11. CASE ~(bit = 1 /\ before.ones = 4)
    <3>1. j + 1 = Len(after.out) /\ after.ones = IF bit = 1 THEN before.ones + 1 ELSE 0
      BY <2>4, <2>11
    <3>2. Ones(after.ones)'
      BY <2>8, <3>1
    <3>. QED  BY <1>1, <2>2, <2>3, <2>8, <2>9, <3>1, <3>2 DEF InBody
  <2>. QED  BY <2>10, <2>11
<1>. QED  BY <1>4, <1>5, <1>7, <1>8

-----------------------------------------------------------------------------
(***************************************************************************)
(* The whole frame                                                         *)
(***************************************************************************)
LEMMA FlagBitPlace ==
    ASSUME NEW k \in Nat
    PROVE  FlagBit(k) = FlagBit(k % 8) /\ k % 8 \in 0..7
BY DEF FlagBit

\* After a flag the deframer is ready for the first bit of a packet.
LEMMA BodyBegins ==
    ASSUME NEW p \in Packets, InFlag(0)', buffer' = <<>>, unstuffed_bits' = 0
    PROVE  InBody(p, 0)'
<1>1. p \in Seq(Bytes) /\ Len(p) \in Nat /\ BitsOf(p) \in Seq(Bits)
  BY Constants, BitsOfType
<1>2. Stuffing(BitsOf(p))[0] = [out |-> <<>>, ones |-> 0]
  BY <1>1, StuffingDef
<1>3. Ones(0)' /\ unstuffed_bit_count' = 0
  BY DEF InFlag
<1>4. 0 % 8 = 0 /\ 0 \div 8 = 0 /\ 0 + 1 = 1 /\ 8 - 0 = 8
  OBVIOUS
<1>5. 0 < 8 * Len(p) => unstuffed_bits' \div 2 ^ 8 = p[1] % 2 ^ 0
  <2>1. 0 < 8 * Len(p) => p[1] \in Bytes
    BY <1>1
  <2>2. \A x \in 0..255 : x % 1 = 0
    OBVIOUS
  <2>3. 0 \div 256 = 0
    OBVIOUS
  <2>. QED  BY <2>1, <2>2, <2>3, Powers DEF Bytes
<1>6. Unstuffed(p, 0)'
  BY <1>3, <1>4, <1>5 DEF Unstuffed
<1>7. 0 \in 0 .. 8 * Len(p) /\ Len(<<>>) = 0
  BY <1>1
<1>. QED  BY <1>2, <1>3, <1>6, <1>7 DEF InBody

\* After its last bit the packet is in the buffer.
LEMMA BodyEnds ==
    ASSUME TypeOK, NEW p \in Packets, InBody(p, Len(Body(p)))
    PROVE  /\ buffer = p /\ unstuffed_bit_count = 0
           /\ \E c \in 0..4 : Ones(c)
<1>1. PICK bits, N : bits = BitsOf(p) /\ N = 8 * Len(p)
  OBVIOUS
<1>2. p \in Seq(Bytes) /\ bits \in Seq(Bits) /\ Len(bits) = N /\ N \in Nat /\ Len(p) \in Nat
  BY <1>1, Constants, BitsOfType
<1>3. Body(p) = Stuffed(bits) /\ Len(Body(p)) \in Nat
  BY <1>1, <1>2, StuffedType DEF Body
<1>4. PICK n \in 0..N : /\ Unstuffed(p, n)
                        /\ Len(Body(p)) = Len(Stuffing(bits)[n].out) /\ Ones(Stuffing(bits)[n].ones)
  BY <1>1, <1>3 DEF InBody
<1>5. n = N
  <2>1. ASSUME n # N PROVE FALSE
    <3>1. n \in 0 .. Len(bits) - 1
      BY <1>2, <1>4, <2>1
    <3>2. Len(Stuffing(bits)[n].out) < Len(Stuffed(bits))
      BY <1>2, <3>1, NextStuffed
    <3>. QED  BY <1>3, <1>4, <3>2
  <2>. QED  BY <2>1
<1>6. Stuffing(bits)[n].ones \in 0..4
  BY <1>2, <1>4, StuffingType DEF StuffState
<1>7. n % 8 = 0 /\ n \div 8 = Len(p)
  BY <1>1, <1>2, <1>5
<1>8. unstuffed_bit_count = 0 /\ Len(buffer) = Len(p) /\ \A k \in 1 .. Len(p) : buffer[k] = p[k]
  BY <1>4, <1>7 DEF Unstuffed
<1>9. buffer \in Seq(Bytes)
  BY DeframerTypes
<1>10. buffer = p
  BY <1>2, <1>8, <1>9, SeqEqual
<1>. QED  BY <1>4, <1>6, <1>8, <1>10

\* One bit of the frame takes the deframer from its place to the next.
LEMMA PlaceStep ==
    ASSUME TypeOK, NEW p \in Packets, Len(p) <= RxLimit,
           NEW head \in Nat, head >= 32, head % 8 = 0,
           NEW tail \in Nat, tail = head + Len(Body(p)), Len(Body(p)) \in Nat,
           NEW j \in Nat, Place(p, head, tail, j),
           NEW bit \in Bits, hs_ax25_deframer_process(bit),
           j > 0 => bit = IF j < head THEN FlagBit(j)
                          ELSE IF j < tail THEN Body(p)[j - head + 1]
                          ELSE FlagBit(j - tail)
    PROVE  Place(p, head, tail, j + 1)'
<1>0. Len(heard) \in Nat /\ heard \in Seq(Packets)
  BY DeframerTypes
<1>1. CASE j = 0
  <2>1. Syncing(1)'
    BY <1>1, FirstBit DEF Place
  <2>2. j + 1 = 1 /\ ~(16 <= 1) /\ ~(head <= 1) /\ ~(tail < 1) /\ ~(tail + 8 <= 1)
    BY <1>1
  <2>. QED  BY <2>1, <2>2 DEF Place
<1>2. CASE j \in 1..14
  <2>1. bit = FlagBit(j) /\ Syncing(j)
    BY <1>2 DEF Place
  <2>2. Syncing(j + 1)'
    BY <1>2, <2>1, SyncStep
  <2>3. j + 1 # 0 /\ ~(16 <= j + 1) /\ ~(head <= j + 1) /\ ~(tail < j + 1) /\ ~(tail + 8 <= j + 1)
    BY <1>2
  <2>. QED  BY <2>2, <2>3 DEF Place
<1>3. CASE j = 15
  <2>1. bit = 0 /\ Syncing(15)
    BY <1>3 DEF Place, FlagBit
  <2>2. InFlag(0)' /\ buffer' = <<>> /\ Len(heard') <= 1
    BY <2>1, SecondFlag
  <2>3. /\ j + 1 = 16 /\ 16 % 8 = 0 /\ 16 # 0 /\ 16 \notin 1..15
        /\ ~(head <= 16) /\ ~(tail < 16) /\ ~(tail + 8 <= 16)
    BY <1>3
  <2>. QED  BY <2>2, <2>3 DEF Place
<1>4. CASE 16 <= j /\ j < head
  <2>1. PICK i : i = j % 8
    OBVIOUS
  <2>2. /\ i \in 0..7 /\ bit = FlagBit(i) /\ InFlag(i) /\ buffer = <<>> /\ Len(heard) <= 1
    BY <1>4, <2>1, FlagBitPlace DEF Place
  <2>3. /\ InFlag(IF i = 7 THEN 0 ELSE i + 1)' /\ buffer' = <<>> /\ heard' = heard
        /\ i = 7 => unstuffed_bits' = 0
    BY <2>2, QuietFlag
  <2>4. (j + 1) % 8 = IF i = 7 THEN 0 ELSE i + 1
    BY <2>1
  <2>5. InFlag((j + 1) % 8)'
    BY <2>3, <2>4
  <2>6. j + 1 # 0 /\ j + 1 \notin 1..15 /\ ~(tail < j + 1) /\ ~(tail + 8 <= j + 1)
    BY <1>4
  <2>7. CASE j + 1 < head
    <3>1. ~(head <= j + 1)
      BY <2>7
    <3>. QED  BY <2>2, <2>3, <2>5, <2>6, <2>7, <3>1 DEF Place
  <2>8. CASE ~(j + 1 < head)
    <3>1. j + 1 = head /\ (j + 1) - head = 0
      BY <1>4, <2>8
    <3>2. i = 7
      BY <2>1, <3>1
    <3>3. InFlag(0)' /\ unstuffed_bits' = 0
      BY <2>3, <3>2
    <3>4. InBody(p, 0)'
      BY <2>3, <3>3, BodyBegins
    <3>. QED  BY <2>2, <2>3, <2>6, <2>8, <3>1, <3>4 DEF Place
  <2>. QED  BY <2>7, <2>8
<1>5. CASE head <= j /\ j < tail
  <2>1. PICK k : k = j - head
    OBVIOUS
  <2>2. /\ k \in 0 .. Len(Body(p)) - 1 /\ k + 1 = (j + 1) - head /\ k + 1 = j - head + 1
    BY <1>5, <2>1
  <2>3. InBody(p, k) /\ Len(heard) <= 1 /\ bit = Body(p)[k + 1]
    BY <1>5, <2>1, <2>2 DEF Place
  <2>4. InBody(p, k + 1)' /\ heard' = heard
    BY <2>2, <2>3, BodyStep
  <2>5. /\ j + 1 # 0 /\ j + 1 \notin 1..15 /\ ~(j + 1 < head)
        /\ ~(tail < j + 1) /\ ~(tail + 8 <= j + 1)
    BY <1>5
  <2>. QED  BY <2>2, <2>3, <2>4, <2>5 DEF Place
<1>6. CASE j = tail
  <2>1. j - head = Len(Body(p)) /\ head <= j /\ j <= tail /\ j > 0 /\ ~(j < head) /\ ~(j < tail)
        /\ j - tail = 0
    BY <1>6
  <2>2. InBody(p, Len(Body(p))) /\ Len(heard) <= 1 /\ bit = 0
    BY <2>1 DEF Place, FlagBit
  <2>3. buffer = p /\ unstuffed_bit_count = 0
    BY <2>2, BodyEnds
  <2>4. PICK c \in 0..4 : Ones(c)
    BY <2>2, BodyEnds
  <2>5. InFlag(1)' /\ buffer' = buffer /\ heard' = heard
    BY <2>2, <2>3, <2>4, FlagBegins
  <2>6. /\ j + 1 # 0 /\ j + 1 \notin 1..15 /\ ~(j + 1 < head) /\ ~(j + 1 <= tail)
        /\ ~(tail + 8 <= j + 1) /\ (j + 1) - tail = 1
    <3>1. \A h, t \in Nat : h >= 32 /\ h <= t =>
             /\ t + 1 # 0 /\ t + 1 \notin 1..15 /\ ~(t + 1 < h) /\ ~(t + 1 <= t)
             /\ ~(t + 8 <= t + 1) /\ (t + 1) - t = 1
      OBVIOUS
    <3>2. /\ j + 1 # 0 /\ j + 1 \notin 1..15 /\ ~(j + 1 < head) /\ ~(j + 1 <= j)
          /\ ~(j + 8 <= j + 1) /\ (j + 1) - j = 1
      BY <2>1, <3>1, Zenon
    <3>. QED  BY <1>6, <3>2, Zenon
  <2>. QED  BY <2>2, <2>3, <2>5, <2>6 DEF Place
<1>7. CASE tail < j /\ j < tail + 7
  <2>1. PICK i : i = j - tail
    OBVIOUS
  <2>2. i \in 1..6 /\ i + 1 = (j + 1) - tail /\ ~(j < head) /\ ~(j < tail) /\ j < tail + 8 /\ j > 0
    BY <1>7, <2>1
  <2>3. InFlag(i) /\ buffer = p /\ Len(heard) <= 1 /\ bit = 1
    BY <1>7, <2>1, <2>2 DEF Place, FlagBit
  <2>4. InFlag(i + 1)' /\ buffer' = buffer /\ heard' = heard
    BY <2>2, <2>3, FlagGoesOn
  <2>5. /\ j + 1 # 0 /\ j + 1 \notin 1..15 /\ ~(j + 1 < head) /\ ~(j + 1 <= tail)
        /\ ~(tail + 8 <= j + 1)
    BY <1>7
  <2>. QED  BY <2>2, <2>3, <2>4, <2>5 DEF Place
<1>8. CASE j = tail + 7
  <2>1. j - tail = 7 /\ ~(j < head) /\ ~(j < tail) /\ tail < j /\ j < tail + 8 /\ j > 0
    BY <1>8
  <2>2. InFlag(7) /\ buffer = p /\ Len(heard) <= 1 /\ bit = 0
    BY <2>1 DEF Place, FlagBit
  <2>3. raw_bits % 128 = 63
    BY <2>2, FlagDone
  <2>4. Flag /\ InFlag(0)' /\ buffer' = <<>>
    BY <2>2, <2>3, FlagEnds
  <2>5. heard' = Append(heard, p)
    <3>1. Len(p) >= MinPacketLen
      BY Constants
    <3>. QED  BY <2>2, <2>4, <3>1 DEF Flag
  <2>6. Len(heard') \in {1, 2} /\ heard'[Len(heard')] = p
    <3>1. Len(heard') = Len(heard) + 1 /\ heard'[Len(heard) + 1] = p
      BY <1>0, <2>5
    <3>. QED  BY <1>0, <2>2, <3>1
  <2>7. /\ j + 1 # 0 /\ j + 1 \notin 1..15 /\ ~(j + 1 < head) /\ ~(j + 1 <= tail)
        /\ ~(j + 1 < tail + 8) /\ (j + 1) - tail = 8
    <3>1. tail >= 32 /\ tail >= head
      OBVIOUS
    <3>2. j + 1 = tail + 8
      BY <1>8
    <3>. QED  BY <3>1, <3>2
  <2>8. 8 % 8 = 0
    OBVIOUS
  <2>9. InFlag(((j + 1) - tail) % 8)'
    BY <2>4, <2>7, <2>8
  <2>. QED  BY <2>4, <2>6, <2>7, <2>9 DEF Place
<1>9. CASE tail + 8 <= j
  <2>1. PICK i : i = (j - tail) % 8
    OBVIOUS
  <2>2. j - tail \in Nat /\ ~(j < head) /\ ~(j < tail) /\ j > 0
    BY <1>9
  <2>3. /\ i \in 0..7 /\ bit = FlagBit(i) /\ InFlag(i) /\ buffer = <<>>
        /\ Len(heard) \in {1, 2} /\ heard[Len(heard)] = p
    BY <1>9, <2>1, <2>2, FlagBitPlace DEF Place
  <2>4. InFlag(IF i = 7 THEN 0 ELSE i + 1)' /\ buffer' = <<>> /\ heard' = heard
    BY <2>3, QuietFlag
  <2>5. ((j + 1) - tail) % 8 = IF i = 7 THEN 0 ELSE i + 1
    BY <2>1, <2>2
  <2>6. InFlag(((j + 1) - tail) % 8)'
    BY <2>4, <2>5
  <2>7. /\ j + 1 # 0 /\ j + 1 \notin 1..15 /\ ~(j + 1 < head) /\ ~(j + 1 <= tail)
        /\ ~(j + 1 < tail + 8)
    BY <1>9
  <2>. QED  BY <2>3, <2>4, <2>6, <2>7 DEF Place
<1>10. j = 0 \/ j \in 1..14 \/ j = 15 \/ 16 <= j
  OBVIOUS
<1>11. 16 <= j => \/ j < head \/ (head <= j /\ j < tail) \/ j = tail
                  \/ (tail < j /\ j < tail + 7) \/ j = tail + 7 \/ tail + 8 <= j
  OBVIOUS
<1>. QED  BY <1>1, <1>2, <1>3, <1>4, <1>5, <1>6, <1>7, <1>8, <1>9, <1>10, <1>11

-----------------------------------------------------------------------------
(***************************************************************************)
(* From bit to bit, and from packet to packet                              *)
(***************************************************************************)
\* The frame of a packet does not change while it is sent, nor does the buffer.
LEMMA SameFrame ==
    ASSUME UNCHANGED settings, NEW p
    PROVE  HeadBits' = HeadBits /\ Framed(p)' = Framed(p)
BY DEF settings, HeadBits, Framed, FlagCount

LEMMA SameBits ==
    ASSUME UNCHANGED <<settings, bit_buffer>>, NEW p
    PROVE  HoldsFrame(p)' <=> HoldsFrame(p)
<1>1. Framed(p)' = Framed(p) /\ bit_buffer' = bit_buffer
  BY SameFrame
<1>. QED  BY <1>1 DEF HoldsFrame

\* The bit that is sent next is that of the frame.
LEMMA NextBit ==
    ASSUME TypeOK, Sending, NEW p \in Packets, sending = p, HoldsFrame(p),
           reading_bit < total_bits
    PROVE  /\ bit_buffer[reading_bit] = Framed(p)[reading_bit + 1]
           /\ reading_bit \in 0 .. Len(Framed(p)) - 1
<1>1. sending # NoPacket
  BY Constants
<1>2. total_bits = IF Len(Framed(p)) < BufferBits THEN Len(Framed(p)) ELSE BufferBits
  BY <1>1 DEF Sending
<1>3. PICK L : L = Len(Framed(p))
  OBVIOUS
<1>4. L \in Nat
  <2>1. tx_delay \in Bytes /\ tx_tail \in Bytes
    BY DEF TypeOK
  <2>. QED  BY <1>3, <2>1, FrameBits
<1>5. reading_bit \in Nat /\ total_bits \in Nat /\ BufferBits \in Nat
  BY Constants DEF TypeOK
<1>6. reading_bit \in Cells /\ reading_bit < L /\ reading_bit \in 0 .. L - 1
  BY <1>2, <1>3, <1>4, <1>5 DEF Cells
<1>7. bit_buffer[reading_bit] = Framed(p)[reading_bit + 1]
  BY <1>3, <1>6 DEF HoldsFrame
<1>. QED  BY <1>3, <1>6, <1>7

\* A bit of the frame that is heard right takes the deframer to its next place: the
\* NRZI decoder gives it the bit the encoder was given, except perhaps the first.
LEMMA ReceiveStep ==
    ASSUME TypeOK, Sending, SameLevel, Receiving, SendBit
    PROVE  SameLevel' /\ Receiving'
<1>1. /\ sending # NoPacket /\ reading_bit < total_bits /\ reading_bit' = reading_bit + 1
      /\ sending' = sending /\ UNCHANGED <<settings, bit_buffer>>
      /\ nrzi_bit' = IF bit_buffer[reading_bit] = 0 THEN 1 - nrzi_bit ELSE nrzi_bit
  BY DEF SendBit
<1>2. PICK p \in Packets : p = sending
  BY <1>1 DEF TypeOK
<1>3. errors \in Nat
  BY Constants DEF TypeOK
<1>. SUFFICES ASSUME errors' = 0 PROVE SameLevel' /\ Receiving'
  BY DEF SameLevel, Receiving
<1>4. errors = 0 /\ Hear(nrzi_bit')
  BY <1>3 DEF SendBit
<1>5. last_bit' = nrzi_bit'
  BY <1>4 DEF Hear
<1>6. SameLevel'
  BY <1>5 DEF SameLevel
<1>7. ASSUME HoldsFrame(p)', Len(p) <= RxLimit
      PROVE  Place(p, HeadBits, HeadBits + Len(Body(p)), reading_bit)'
  <2>0. tx_delay \in Bytes /\ tx_tail \in Bytes
    BY DEF TypeOK
  <2>held. HoldsFrame(p)
    BY <1>1, <1>7, SameBits
  <2>1. PICK head, body, tail, j : /\ head = HeadBits /\ body = Len(Body(p))
                                   /\ tail = HeadBits + Len(Body(p)) /\ j = reading_bit
    OBVIOUS
  <2>2. /\ HeadBits \in Nat /\ Len(Body(p)) \in Nat /\ HeadBits >= 32 /\ HeadBits % 8 = 0
        /\ \A i \in 0 .. Len(Framed(p)) - 1 :
             Framed(p)[i + 1] =
                IF i < HeadBits THEN FlagBit(i)
                ELSE IF i < HeadBits + Len(Body(p)) THEN Body(p)[i - HeadBits + 1]
                ELSE FlagBit(i - HeadBits - Len(Body(p)))
    BY <2>0, FrameBits
  <2>3. /\ head \in Nat /\ body \in Nat /\ head >= 32 /\ head % 8 = 0
        /\ tail = head + body /\ tail \in Nat
    BY <2>1, <2>2
  <2>4. bit_buffer[j] = Framed(p)[j + 1] /\ j \in 0 .. Len(Framed(p)) - 1
    BY <1>1, <1>2, <2>held, <2>1, NextBit
  <2>5. Framed(p)[j + 1] = IF j < head THEN FlagBit(j)
                           ELSE IF j < tail THEN Body(p)[j - head + 1]
                           ELSE FlagBit(j - head - body)
    BY <2>1, <2>2, <2>4
  <2>6. j \in Nat /\ j - head - body = j - tail
    <3>1. j \in Nat
      BY <2>1 DEF TypeOK
    <3>. QED  BY <2>3, <3>1
  <2>7. PICK bit : bit = IF nrzi_bit' = last_bit THEN 1 ELSE 0
    OBVIOUS
  <2>8. bit \in Bits /\ hs_ax25_deframer_process(bit)
    BY <1>4, <2>7 DEF Hear, Bits
  <2>9. bit_buffer[j] \in {0, 1} /\ nrzi_bit \in {0, 1}
    <3>1. bit_buffer \in [Cells -> Bits] /\ nrzi_bit \in Bits /\ reading_bit \in 0..total_bits
          /\ total_bits \in 0..BufferBits
      BY DEF TypeOK
    <3>2. reading_bit \in Cells
      BY <1>1, <3>1, Constants DEF Cells
    <3>. QED  BY <2>1, <3>1, <3>2 DEF Bits
  <2>10. ASSUME j > 0 PROVE bit = bit_buffer[j]
    <3>1. last_bit = nrzi_bit
      BY <1>1, <1>4, <2>1, <2>10 DEF SameLevel
    <3>. QED  BY <1>1, <2>1, <2>7, <2>9, <3>1
  <2>11. j > 0 => bit = IF j < head THEN FlagBit(j)
                        ELSE IF j < tail THEN Body(p)[j - head + 1]
                        ELSE FlagBit(j - tail)
    BY <2>4, <2>5, <2>6, <2>10
  <2>12. Place(p, head, tail, j)
    BY <1>1, <1>2, <1>4, <1>7, <2>held, <2>1 DEF Receiving
  <2>13. tail = head + Len(Body(p)) /\ Len(Body(p)) \in Nat
    BY <2>1, <2>3
  <2>14. Place(p, head, tail, j + 1)'
    BY <1>7, <2>3, <2>6, <2>8, <2>11, <2>12, <2>13, PlaceStep
  <2>15. head = HeadBits' /\ tail = (HeadBits + Len(Body(p)))' /\ j + 1 = reading_bit'
    BY <1>1, <2>1, SameFrame
  <2>. QED  BY <2>14, <2>15
<1>. QED  BY <1>1, <1>2, <1>6, <1>7 DEF Receiving

LEMMA LinkInit == Init => LinkInv
BY DEF Init, LinkInv, Sending, SameLevel, Receiving, PacketsIntact

\* The framer after hs_ax25_framer_process.
LEMMA TransmitSends ==
    ASSUME TypeOK, NEW p \in Packets, Transmit(p)
    PROVE  Sending'
<1>1. sending' = p /\ sent' = NoPacket
  BY DEF Transmit
<1>2. Framed(p)' = Framed(p)
  BY SameFrame DEF Transmit
<1>3. total_bits' = IF Len(Framed(p)) < BufferBits THEN Len(Framed(p)) ELSE BufferBits
  BY DEF Transmit
<1>. QED  BY <1>1, <1>2, <1>3 DEF Sending

\* When the last bit has been sent, the packet was handed over at a tail flag.
LEMMA EndReceives ==
    ASSUME TypeOK, Sending, Receiving, EndTransmission
    PROVE  PacketsIntact'
<1>. SUFFICES ASSUME sent' # NoPacket, errors' = 0, HoldsFrame(sent)', FitsFramer(sent)',
                     Len(sent') <= RxLimit
              PROVE  Len(heard') \in {1, 2} /\ heard'[Len(heard')] = sent'
  BY DEF PacketsIntact
<1>1. /\ sending # NoPacket /\ reading_bit = total_bits /\ sent' = sending
      /\ errors' = errors /\ heard' = heard /\ UNCHANGED <<settings, bit_buffer>>
  BY DEF EndTransmission
<1>2. PICK p \in Packets : p = sending
  BY <1>1 DEF TypeOK
<1>3. PICK head, body, tail, L : /\ head = HeadBits /\ body = Len(Body(p)) /\ tail = head + body
                                 /\ L = Len(Framed(p))
  OBVIOUS
<1>4. /\ head \in Nat /\ body \in Nat /\ L \in Nat /\ L >= head + body + 16
  <2>1. tx_delay \in Bytes /\ tx_tail \in Bytes
    BY DEF TypeOK
  <2>2. /\ HeadBits \in Nat /\ TailBits \in Nat /\ Len(Body(p)) \in Nat /\ TailBits >= 16
        /\ Len(Framed(p)) = HeadBits + Len(Body(p)) + TailBits
    BY <2>1, FrameBits
  <2>. QED  BY <1>3, <2>2
<1>5. tail + 8 <= BufferBits
  <2>1. FitsFramer(p)'
    BY <1>1, <1>2
  <2>2. HeadBits' + Len(Body(p)) + 8 <= BufferBits
    BY <2>1 DEF FitsFramer, HeadBits, Body
  <2>3. HeadBits' = HeadBits
    BY <1>1, SameFrame
  <2>. QED  BY <1>3, <2>2, <2>3
<1>6. total_bits = IF L < BufferBits THEN L ELSE BufferBits
  BY <1>1, <1>2, <1>3 DEF Sending
<1>7. tail + 8 <= reading_bit
  BY <1>1, <1>3, <1>4, <1>5, <1>6, Constants
<1>8. Place(p, head, tail, reading_bit)
  <2>1. HoldsFrame(p)'
    BY <1>1, <1>2
  <2>2. HoldsFrame(p)
    BY <1>1, <2>1, SameBits
  <2>. QED  BY <1>1, <1>2, <1>3, <2>2 DEF Receiving
<1>. QED  BY <1>1, <1>2, <1>7, <1>8 DEF Place

LEMMA LinkNext == TypeOK /\ LinkInv /\ [Next]_vars => LinkInv'
<1>. SUFFICES ASSUME TypeOK, LinkInv, [Next]_vars PROVE LinkInv'
  OBVIOUS
<1>. USE DEF LinkInv
<1>1. ASSUME NEW d \in Delays, SetTxDelay(d) \/ SetTxTail(d) PROVE LinkInv'
  <2>1. sending' = NoPacket /\ sent' = NoPacket
    BY <1>1 DEF SetTxDelay, SetTxTail
  <2>. QED  BY <2>1 DEF Sending, SameLevel, Receiving, PacketsIntact
<1>2. ASSUME NEW p \in Packets, Transmit(p) PROVE LinkInv'
  <2>1. Sending'
    BY <1>2, TransmitSends
  <2>2. reading_bit' = 0 /\ sent' = NoPacket /\ heard' = <<>> /\ sending' = p
    BY <1>2 DEF Transmit
  <2>3. SameLevel' /\ PacketsIntact'
    BY <2>2 DEF SameLevel, PacketsIntact
  <2>4. Place(p, HeadBits, HeadBits + Len(Body(p)), 0)'
    <3>1. /\ HeadBits' \in Nat /\ HeadBits' >= 32 /\ Len(Body(p)) \in Nat
      <4>1. tx_delay \in Bytes /\ tx_tail \in Bytes
        BY DEF TypeOK
      <4>2. HeadBits \in Nat /\ HeadBits >= 32 /\ Len(Body(p)) \in Nat
        BY <4>1, FrameBits
      <4>3. HeadBits' = HeadBits
        BY <1>2, SameFrame DEF Transmit
      <4>. QED  BY <4>2, <4>3
    <3>2. PICK head, tail : head = HeadBits' /\ tail = HeadBits' + Len(Body(p))
      OBVIOUS
    <3>3. ~(head <= 0) /\ ~(tail < 0) /\ ~(tail + 8 <= 0) /\ ~(16 <= 0) /\ 0 \notin 1..15
      BY <3>1, <3>2
    <3>4. Place(p, head, tail, 0)'
      BY <2>2, <3>3 DEF Place
    <3>. QED  BY <3>2, <3>4
  <2>5. Receiving'
    BY <2>2, <2>4 DEF Receiving
  <2>. QED  BY <2>1, <2>3, <2>5
<1>3. ASSUME SendBit PROVE LinkInv'
  <2>1. /\ sending # NoPacket /\ UNCHANGED <<settings, bit_buffer, total_bits, sending, sent>>
    BY <1>3 DEF SendBit
  <2>2. SameLevel' /\ Receiving'
    BY <1>3, ReceiveStep
  <2>3. sent' = NoPacket
    BY <2>1 DEF Sending
  <2>4. Framed(sending)' = Framed(sending)
    BY <2>1 DEF Framed, FlagCount, settings
  <2>5. Sending'
    BY <2>1, <2>3, <2>4 DEF Sending
  <2>. QED  BY <2>2, <2>3, <2>5 DEF PacketsIntact
<1>4. ASSUME EndTransmission PROVE LinkInv'
  <2>1. PacketsIntact'
    BY <1>4, EndReceives
  <2>2. sending' = NoPacket
    BY <1>4 DEF EndTransmission
  <2>. QED  BY <2>1, <2>2 DEF Sending, SameLevel, Receiving
<1>5. ASSUME NEW level \in Bits, HearNoise(level) PROVE LinkInv'
  <2>1. sending' = NoPacket /\ sent' = NoPacket
    BY <1>5 DEF HearNoise
  <2>. QED  BY <2>1 DEF Sending, SameLevel, Receiving, PacketsIntact
<1>6. ASSUME UNCHANGED vars PROVE LinkInv'
  <2>0. UNCHANGED <<settings, framerVars, last_bit, deframerVars, sending, sent, heard, errors>>
    BY <1>6 DEF vars
  <2>. USE <2>0 DEF settings, framerVars, deframerVars
  <2>1. /\ HeadBits' = HeadBits
        /\ \A p : Framed(p)' = Framed(p) /\ FitsFramer(p)' = FitsFramer(p)
        /\ \A p : HoldsFrame(p)' = HoldsFrame(p)
    BY DEF HeadBits, Framed, FitsFramer, FlagCount, HoldsFrame
  <2>2. Sending' /\ SameLevel' /\ PacketsIntact'
    BY <2>1 DEF Sending, SameLevel, PacketsIntact
  <2>3. \A p, head, tail, j : Place(p, head, tail, j) => Place(p, head, tail, j)'
    <3>1. \A c : Ones(c) => Ones(c)'
      BY DEF Ones
    <3>2. \A k : InFlag(k) => InFlag(k)'
      BY <3>1 DEF InFlag
    <3>3. \A k : Syncing(k) => Syncing(k)'
      BY DEF Syncing, InSync, AtMostOne
    <3>4. \A p, n : Unstuffed(p, n) => Unstuffed(p, n)'
      BY DEF Unstuffed
    <3>5. \A p, k : InBody(p, k) => InBody(p, k)'
      BY <3>1, <3>4, Zenon DEF InBody
    <3>. QED  BY <3>2, <3>3, <3>5 DEF Place
  <2>4. Receiving'
    BY <2>1, <2>3 DEF Receiving
  <2>. QED  BY <2>2, <2>4
<1>. QED  BY <1>1, <1>2, <1>3, <1>4, <1>5, <1>6 DEF Next

LEMMA LinkAlways == Spec => [](TypeOK /\ LinkInv)
<1>1. TypeOK /\ LinkInv /\ [Next]_vars => (TypeOK /\ LinkInv)'
  BY TypeNext, LinkNext
<1>2. Init => TypeOK /\ LinkInv
  BY TypeInit, LinkInit
<1>. QED  BY <1>1, <1>2, PTL DEF Spec

\* Every packet whose frame is unspoilt and whose levels are heard right is received,
\* unchanged and last, whatever hs_ax25_deframer_process and ms_linecode_nrzi_decode
\* made of what came before, frames spoilt by the framer's leftover bits included: the
\* deframer finds the frame within its first two flags, keeps pace with the stuffing,
\* and hands the packet over at the first tail flag.
THEOREM PacketsReceived == Spec => []PacketsIntact
<1>1. LinkInv => PacketsIntact
  BY DEF LinkInv
<1>. QED  BY <1>1, LinkAlways, PTL
=============================================================================
