------------------------------ MODULE Ax25Link ------------------------------
(***************************************************************************)
(* One station's modulator and another's demodulator (apps/ax25tnc), from  *)
(* packed packet to packed packet: the framer (flags and bit stuffing,     *)
(* hamstuff/ax25_framer.c), the NRZI line code (modemstuff/linecode.c) and *)
(* the deframer (hamstuff/ax25_deframer.c).                                *)
(*                                                                         *)
(* Between them is the air (external): one level per bit.  While nobody    *)
(* transmits the receiver hears anything; during a transmission levels may *)
(* be misheard.  The FCS is ideal: it is right exactly for packed packets. *)
(***************************************************************************)
EXTENDS Integers, Sequences

CONSTANTS Packets,        \* packed packets (sequences of bytes, FCS included)
          BufferBits,     \* HS_AX25_FRAMER_BIT_BUFFER_SIZE * _UNIT
          RxLimit,        \* 255 in the deframer's overflow check
          MinPacketLen,   \* HS_AX25_MIN_PACKET_LEN
          BaudRate,       \* mod->baud_rate
          Delays,         \* values clients set with KISS_TX_DELAY, KISS_TX_TAIL
          GarbageOnes,    \* what deframer->ones_count may hold at first
          Garbage,        \* what the stack may hold where framer.bit_buffer comes
                          \* to lie, besides what the last call left there
          MaxNoise,       \* bound: levels heard between two transmissions
          MaxErrors,      \* bound: levels misheard in one transmission
          NoPacket

MIN_HEAD_FLAGS == 4
MIN_TAIL_FLAGS == 2
DEFAULT_TX_DELAY == 32  \* in units of ten milliseconds
DEFAULT_TX_TAIL == 8
HS_AX25_FLAG == 126

Bytes == 0..255
Bits == {0, 1}
Cells == 0 .. BufferBits - 1
Unwritten == [k \in Cells |-> 0]

ASSUME Ax25LinkAssumption ==
    /\ Packets \subseteq Seq(Bytes) /\ NoPacket \notin Packets
    /\ \A p \in Packets : Len(p) >= MinPacketLen
    /\ BufferBits \in Nat \ {0} /\ RxLimit \in Nat \ {0}
    /\ MinPacketLen \in Nat \ {0}
    /\ BaudRate \in Nat /\ Delays \subseteq Bytes /\ GarbageOnes \subseteq Bytes
    /\ Garbage \subseteq [Cells -> Bits]
    /\ MaxNoise \in Nat /\ MaxErrors \in Nat

VARIABLES tx_delay, tx_tail,        \* mod->tx_delay, mod->tx_tail
          bit_buffer,               \* framer.bit_buffer
          total_bits, reading_bit,  \* framer._bit_buffer_total_bits, ._reading_bit
          nrzi_bit,                 \* encoder: the level sent last
          last_bit,                 \* decoder: the level heard last
          raw_bits, unstuffed_bits, unstuffed_bit_count, ones_count,
          buffer,                   \* deframer->buffer[0 .. buffer_pos - 1]
          sending,                  \* the packet being transmitted
          sent,                     \* the packet whose transmission just ended (history)
          heard,                    \* packets received since that one began (history)
          noise, errors             \* counters for the bounds

settings == <<tx_delay, tx_tail>>
framerVars == <<bit_buffer, total_bits, reading_bit, nrzi_bit>>
deframerVars == <<raw_bits, unstuffed_bits, unstuffed_bit_count, ones_count, buffer>>
vars == <<settings, framerVars, last_bit, deframerVars, sending, sent, heard, noise, errors>>

-----------------------------------------------------------------------------
(***************************************************************************)
(* Framer                                                                  *)
(***************************************************************************)
\* The bits of a sequence of bytes, the low bit of each byte first.
BitsOf(bytes) ==
    [k \in 1 .. 8 * Len(bytes) |-> (bytes[(k - 1) \div 8 + 1] \div 2 ^ ((k - 1) % 8)) % 2]

Flags(n) == BitsOf([k \in 1..n |-> HS_AX25_FLAG])

\* One turn of "Insert packed packet with bit stuffing": a bit, and a zero after
\* every five ones.
Stuff(before, bit) ==
    LET ones == IF bit = 1 THEN before.ones + 1 ELSE 0
    IN  IF ones = 5 THEN [out |-> before.out \o <<1, 0>>, ones |-> 0]
        ELSE [out |-> Append(before.out, bit), ones |-> ones]

\* The loop: what has been inserted, and ones_count, after each of the bits.
Stuffing(bits) ==
    LET upTo[n \in 0 .. Len(bits)] ==
          IF n = 0 THEN [out |-> <<>>, ones |-> 0] ELSE Stuff(upTo[n - 1], bits[n])
    IN  upTo

Stuffed(bits) == Stuffing(bits)[Len(bits)].out

\* MAX(ms * baud_rate / 8000, least)
FlagCount(tens, least) ==
    LET flags == (tens * BaudRate) \div 800 IN IF flags > least THEN flags ELSE least

\* What hs_ax25_framer_process sets out to insert.
Framed(packet) ==
    Flags(FlagCount(tx_delay, MIN_HEAD_FLAGS)) \o Stuffed(BitsOf(packet))
      \o Flags(FlagCount(tx_tail, MIN_TAIL_FLAGS))

\* _hs_ax25_insert_bit, for all the bits: each is or-ed into its cell, and those
\* past the end of the buffer are dropped.
Inserted(bits, old) ==
    [k \in Cells |-> IF k < Len(bits) /\ bits[k + 1] = 1 THEN 1 ELSE old[k]]

-----------------------------------------------------------------------------
(***************************************************************************)
(* Deframer                                                                *)
(***************************************************************************)
\* Mutant of Flag: the count of ones survives the flag.
FlagKeepsOnes ==
    /\ heard' = IF Len(buffer) >= MinPacketLen /\ buffer \in Packets
                THEN Append(heard, buffer) ELSE heard
    /\ buffer' = <<>> /\ raw_bits' = 0
    /\ unstuffed_bits' = 0 /\ unstuffed_bit_count' = 0
    /\ UNCHANGED ones_count

\* A flag: hand over a packet if its FCS is right, and begin anew.
Flag ==
    /\ heard' = IF Len(buffer) >= MinPacketLen /\ buffer \in Packets
                THEN Append(heard, buffer) ELSE heard
    /\ buffer' = <<>> /\ raw_bits' = 0
    /\ unstuffed_bits' = 0 /\ unstuffed_bit_count' = 0 /\ ones_count' = 0

\* Mutant of Stored: the overflow check comes one byte late.
StoredLate(byte) == IF Len(buffer) > RxLimit THEN <<byte>> ELSE Append(buffer, byte)

\* The buffer with one more byte; a full one starts again from its beginning.
Stored(byte) == IF Len(buffer) >= RxLimit THEN <<byte>> ELSE Append(buffer, byte)

\* Any other bit: unstuff it, and store the byte it completes.
DataBit(bit) ==
    LET stuffing == bit = 0 /\ ones_count >= 5
        byte     == unstuffed_bits \div 2 + bit * 128
    IN  /\ ones_count' = IF bit = 0 THEN 0 ELSE (ones_count + 1) % 256
        /\ unstuffed_bits' = IF stuffing THEN unstuffed_bits ELSE byte
        /\ IF ~stuffing /\ unstuffed_bit_count = 7
           THEN unstuffed_bit_count' = 0 /\ buffer' = Stored(byte)
           ELSE /\ unstuffed_bit_count' = unstuffed_bit_count + (IF stuffing THEN 0 ELSE 1)
                /\ UNCHANGED buffer

\* hs_ax25_deframer_process
hs_ax25_deframer_process(bit) ==
    LET raw == (raw_bits * 2 + bit) % 256
    IN  \/ raw = HS_AX25_FLAG /\ Flag
        \/ raw # HS_AX25_FLAG /\ raw_bits' = raw /\ DataBit(bit) /\ UNCHANGED heard

\* A level is heard: ms_linecode_nrzi_decode, then the deframer.
Hear(level) ==
    /\ hs_ax25_deframer_process(IF level = last_bit THEN 1 ELSE 0)
    /\ last_bit' = level

-----------------------------------------------------------------------------
(***************************************************************************)
(* Transmitter and air                                                     *)
(***************************************************************************)
\* KISS_TX_DELAY and KISS_TX_TAIL in incoming_kiss_message_callback.  (tx_delay
\* and tx_tail are kept in the units of the message, tens of milliseconds.)
SetTxDelay(d) ==
    /\ sending = NoPacket
    /\ tx_delay' = d
    /\ sent' = NoPacket
    /\ UNCHANGED <<tx_tail, framerVars, last_bit, deframerVars, sending, heard, noise, errors>>

SetTxTail(d) ==
    /\ sending = NoPacket
    /\ tx_tail' = d
    /\ sent' = NoPacket
    /\ UNCHANGED <<tx_delay, framerVars, last_bit, deframerVars, sending, heard, noise, errors>>

\* ax25tnc_modulator_process: hs_ax25_framer_process into a framer on the stack,
\* whose bit_buffer neither it nor hs_ax25_framer_init clears.
Transmit(packet) ==
    /\ sending = NoPacket
    /\ \E old \in Garbage \cup {bit_buffer} : bit_buffer' = Inserted(Framed(packet), old)
    /\ total_bits' = IF Len(Framed(packet)) < BufferBits THEN Len(Framed(packet)) ELSE BufferBits
    /\ reading_bit' = 0
    /\ nrzi_bit' = 0
    /\ sending' = packet
    /\ sent' = NoPacket /\ heard' = <<>> /\ noise' = 0 /\ errors' = 0
    /\ UNCHANGED <<settings, last_bit, deframerVars>>

\* hs_ax25_framer_next_bit, ms_linecode_nrzi_encode, and the level on the air.
SendBit ==
    /\ sending # NoPacket /\ reading_bit < total_bits
    /\ nrzi_bit' = IF bit_buffer[reading_bit] = 0 THEN 1 - nrzi_bit ELSE nrzi_bit
    /\ reading_bit' = reading_bit + 1
    /\ \/ Hear(nrzi_bit') /\ UNCHANGED errors
       \/ errors < MaxErrors /\ Hear(1 - nrzi_bit') /\ errors' = errors + 1
    /\ UNCHANGED <<settings, bit_buffer, total_bits, sending, sent, noise>>

\* hs_ax25_framer_next_bit returns -1.  The framer goes out of scope; its bits stay
\* on the stack until something else is written there.
EndTransmission ==
    /\ sending # NoPacket /\ reading_bit = total_bits
    /\ sending' = NoPacket
    /\ sent' = sending
    /\ total_bits' = 0 /\ reading_bit' = 0 /\ nrzi_bit' = 0
    /\ UNCHANGED <<settings, bit_buffer, last_bit, deframerVars, heard, noise, errors>>

\* Nobody transmits; the detector finds some level in what it hears.
HearNoise(level) ==
    /\ sending = NoPacket /\ noise < MaxNoise
    /\ Hear(level)
    /\ noise' = noise + 1
    /\ sent' = NoPacket
    /\ UNCHANGED <<settings, framerVars, sending, errors>>

\* hs_ax25_deframer_init does not set ones_count.
Init ==
    /\ tx_delay = DEFAULT_TX_DELAY /\ tx_tail = DEFAULT_TX_TAIL
    /\ bit_buffer = Unwritten /\ total_bits = 0 /\ reading_bit = 0 /\ nrzi_bit = 0
    /\ last_bit = 0
    /\ raw_bits = 0 /\ unstuffed_bits = 0 /\ unstuffed_bit_count = 0
    /\ ones_count \in GarbageOnes
    /\ buffer = <<>>
    /\ sending = NoPacket /\ sent = NoPacket /\ heard = <<>> /\ noise = 0 /\ errors = 0

Next ==
    \/ \E d \in Delays : SetTxDelay(d) \/ SetTxTail(d)
    \/ \E p \in Packets : Transmit(p)
    \/ SendBit \/ EndTransmission
    \/ \E level \in Bits : HearNoise(level)

Spec == Init /\ [][Next]_vars

-----------------------------------------------------------------------------
(***************************************************************************)
(* Properties                                                              *)
(***************************************************************************)
\* The fields of the framer and of the deframer stay in their types, and the
\* deframer never stores past the 255 bytes it allows itself.
TypeOK ==
    /\ tx_delay \in Bytes /\ tx_tail \in Bytes
    /\ bit_buffer \in [Cells -> Bits] /\ nrzi_bit \in Bits /\ last_bit \in Bits
    /\ total_bits \in 0..BufferBits /\ reading_bit \in 0..total_bits
    /\ raw_bits \in Bytes /\ unstuffed_bits \in Bytes /\ ones_count \in Bytes
    /\ unstuffed_bit_count \in 0..7
    /\ buffer \in Seq(Bytes) /\ Len(buffer) <= RxLimit
    /\ sending \in Packets \cup {NoPacket} /\ sent \in Packets \cup {NoPacket}
    /\ heard \in Seq(Packets)
    /\ noise \in 0..MaxNoise /\ errors \in 0..MaxErrors

\* The framer's bit buffer has room for the frame up to its first tail flag.
FitsFramer(packet) ==
    8 * FlagCount(tx_delay, MIN_HEAD_FLAGS) + Len(Stuffed(BitsOf(packet))) + 8 <= BufferBits

\* The framer's bit buffer holds the frame of a packet, as much of it as there is
\* room for: nothing it held before has set a bit that the frame leaves zero.
HoldsFrame(packet) ==
    \A k \in Cells : k < Len(Framed(packet)) => bit_buffer[k] = Framed(packet)[k + 1]

\* A packet whose frame left the framer unspoilt and whose levels are all heard right
\* is received, unchanged and last, whatever the receiver heard before (noise, a
\* damaged or truncated frame, a frame the sender's own leftover bits had spoilt, an
\* uninitialised count of ones), whatever level the line was left at, and whatever
\* bytes the packet is made of.  At most one other packet is received meanwhile: at
\* the first flag, when what was heard before ends in a right FCS.  (That a frame
\* does get spoilt, since nothing clears bit_buffer, is what BitBufferReset shows; a
\* packet longer than the deframer's 255 bytes is never received.)
PacketsIntact ==
    sent # NoPacket /\ errors = 0 /\ HoldsFrame(sent) /\ FitsFramer(sent) /\ Len(sent) <= RxLimit
        => Len(heard) \in {1, 2} /\ heard[Len(heard)] = sent

\* ax25_framer.c:47: "Reset bit buffer": the bits that are sent are the bits of the
\* frame, not of what the buffer held before.
BitBufferReset ==
    sending # NoPacket =>
        \A k \in 0 .. total_bits - 1 : bit_buffer[k] = Framed(sending)[k + 1]
=============================================================================
