----------------------------- MODULE Ax25Packet -----------------------------
(***************************************************************************)
(* AX.25 packets and addresses on their way through stations: packed by    *)
(* ax25_packet.c and ax25_call.c, sent over the air or as KISS data,       *)
(* checked by the deframer, unpacked into a structure that still holds     *)
(* something else, and passed on.                                          *)
(***************************************************************************)
EXTENDS Ax25Crc, FiniteSets, FiniteSetsExt

CONSTANTS HS_AX25_MAX_CALLSIGN_LEN,
          HS_AX25_MAX_REPEATER_COUNT,
          HS_AX25_MAX_INFO_LEN,
          RxLimit,    \* 255 in the deframer's overflow check
          Packets,    \* packets that applications send
          Stales,     \* what an uninitialised hs_ax25_packet_t may hold
          Fragile,    \* members of Packets that the air may damage
          MaxFlips,   \* bound: bits damaged in one packet
          MaxHops     \* bound: times a packet is passed on

VARIABLES packet,     \* the hs_ax25_packet_t at hand
          buf,        \* the packed packet
          phase,      \* "made", "packed", "unpacked", "rejected", "mangled"
          hops,
          sent,       \* the packet as it was first sent
          flips,      \* bits of buf that were damaged
          typed       \* the source address, printed and read back

vars == <<packet, buf, phase, hops, sent, flips, typed>>

NUL == 0
Space == 32
HS_AX25_SSID_SEPARATOR == 45
HS_AX25_REPEATED_MARKER == 42
Zero == 48
HS_AX25_MAX_SSID_STRING_LEN == 2
HS_AX25_MAX_CALLSIGN_STRING_LEN == HS_AX25_MAX_CALLSIGN_LEN + 4

AddressLen == HS_AX25_MAX_CALLSIGN_LEN + 1
HS_AX25_MIN_PACKET_LEN == 2 * AddressLen + 4

\* The char base[] of a hs_ax25_call_t.
Base == 1 .. HS_AX25_MAX_CALLSIGN_LEN + 1

Bytes == 0..255

CallType == [base : [Base -> 0..127], ssid : Bytes, is_repeated : {0, 1}]

PacketType ==
    [dest : CallType, src : CallType,
     repeaters : [1..HS_AX25_MAX_REPEATER_COUNT -> CallType],
     repeater_count : 0..HS_AX25_MAX_REPEATER_COUNT,
     control : Bytes, protocol : Bytes,
     info : [1..HS_AX25_MAX_INFO_LEN -> Bytes], info_len : 0..HS_AX25_MAX_INFO_LEN]

ASSUME SizeAssumption ==
    /\ HS_AX25_MAX_CALLSIGN_LEN \in Nat \ {0}
    /\ HS_AX25_MAX_REPEATER_COUNT \in Nat
    /\ HS_AX25_MAX_INFO_LEN \in 0..255
    /\ RxLimit \in Nat \ {0}

\* The string in a base: its characters before the first NUL.
Name(base) ==
    LET end == CHOOSE i \in Base : base[i] = NUL /\ \A j \in 1 .. i - 1 : base[j] # NUL
    IN  [i \in 1 .. end - 1 |-> base[i]]

\* A base after a string and its NUL have been written over it.
Written(base, name) ==
    [i \in Base |-> IF i <= Len(name) THEN name[i]
                    ELSE IF i = Len(name) + 1 THEN NUL ELSE base[i]]

\* What packing takes for granted of an address: a terminated name without the
\* characters that end one, and an SSID of four bits.
WellFormed(call) ==
    /\ \E i \in Base : call.base[i] = NUL
    /\ \A i \in DOMAIN Name(call.base) :
          Name(call.base)[i] \notin {Space, HS_AX25_SSID_SEPARATOR}
    /\ call.ssid \in 0..15

WellFormedPacket(pkt) ==
    /\ pkt \in PacketType
    /\ WellFormed(pkt.dest) /\ WellFormed(pkt.src)
    /\ \A i \in 1 .. pkt.repeater_count : WellFormed(pkt.repeaters[i])

ASSUME PacketAssumption ==
    /\ \A p \in Packets : WellFormedPacket(p)
    /\ Stales \subseteq PacketType
    /\ Fragile \subseteq Packets
    /\ MaxFlips \in Nat /\ MaxHops \in Nat \ {0}

-----------------------------------------------------------------------------
(***************************************************************************)
(* Addresses                                                               *)
(***************************************************************************)
hs_ax25_call_init(call) ==
    [base |-> Written(call.base, <<>>), ssid |-> 0, is_repeated |-> 0]

\* The last byte of an address: bits 5 and 6 are set and what the SSID has there is
\* lost, bit 7 is the mark, bit 0 says whether another address follows.
Metadata(call, is_last) ==
    is_last + 2 * (call.ssid % 16) + 96
      + (IF call.is_repeated = 1 \/ (call.ssid \div 64) % 2 = 1 THEN 128 ELSE 0)

\* The bytes of an address: the shifted name, padded, and the metadata.
hs_ax25_call_pack(call, is_last) ==
    LET name == Name(call.base)
    IN  [i \in 1 .. HS_AX25_MAX_CALLSIGN_LEN |->
            (IF i <= Len(name) THEN name[i] * 2 ELSE Space * 2) % 256]
        \o <<Metadata(call, is_last)>>

\* The name in the first bytes of a packed address, up to a space.
Unshifted(inp) ==
    LET chars == [i \in 1 .. HS_AX25_MAX_CALLSIGN_LEN |-> inp[i] \div 2]
        stop  == {i \in DOMAIN chars : chars[i] = Space}
    IN  IF stop = {} THEN chars ELSE SubSeq(chars, 1, Min(stop) - 1)

IsLast(inp) == inp[AddressLen] % 2

\* Mutant of hs_ax25_call_unpack: a name is terminated only at the array's end.
UnpackUnterminated(call, inp) ==
    LET name == Unshifted(inp)
        meta == inp[AddressLen]
    IN  [base        |-> [i \in Base |-> IF i <= Len(name) THEN name[i]
                                         ELSE IF i = AddressLen THEN NUL ELSE call.base[i]],
         ssid        |-> (meta \div 2) % 16,
         is_repeated |-> meta \div 128]

\* Mutant of hs_ax25_call_unpack: the repeated bit is masked but not shifted.
UnpackUnshifted(call, inp) ==
    LET meta == inp[AddressLen]
    IN  [base        |-> Written(call.base, Unshifted(inp)),
         ssid        |-> (meta \div 2) % 16,
         is_repeated |-> 128 * (meta \div 128)]

hs_ax25_call_unpack(call, inp) ==
    LET meta == inp[AddressLen]
    IN  [base        |-> Written(call.base, Unshifted(inp)),
         ssid        |-> (meta \div 2) % 16,
         is_repeated |-> meta \div 128]

\* A nonzero SSID is printed after a separator, with one digit or two.
SsidText(ssid) ==
    IF ssid = 0 THEN <<>>
    ELSE <<HS_AX25_SSID_SEPARATOR>>
         \o (IF ssid >= 10 THEN <<Zero + (ssid \div 10)>> ELSE <<>>)
         \o <<Zero + (ssid % 10)>>

hs_ax25_call_to_str(call) ==
    Name(call.base) \o SsidText(call.ssid)
    \o (IF call.is_repeated = 1 THEN <<HS_AX25_REPEATED_MARKER>> ELSE <<>>)

\* Character i of a string, its NUL included.
Char(str, i) == IF i <= Len(str) THEN str[i] ELSE NUL

Digit(c) == c \in Zero .. Zero + 9

\* Mutant of SsidAt: a number of one digit is not recognised.
SsidNeedsTwo(str, i) ==
    IF Digit(Char(str, i)) /\ Digit(Char(str, i + 1))
    THEN [ssid |-> 10 * (Char(str, i) - Zero) + Char(str, i + 1) - Zero, len |-> 2]
    ELSE [ssid |-> 0, len |-> 0]

\* The number at character i, of at most HS_AX25_MAX_SSID_STRING_LEN digits, and
\* how many digits it has.
SsidAt(str, i) ==
    LET digits == CHOOSE n \in 0..HS_AX25_MAX_SSID_STRING_LEN :
                     /\ \A k \in 0 .. n - 1 : Digit(Char(str, i + k))
                     /\ n < HS_AX25_MAX_SSID_STRING_LEN => ~Digit(Char(str, i + n))
        value[n \in 0..digits] ==
           IF n = 0 THEN 0 ELSE (10 * value[n - 1] + Char(str, i + n - 1) - Zero) % 256
    IN  [ssid |-> value[digits], len |-> digits]

\* The name ends at the separator or when base is full, but not at the marker.
hs_ax25_call_from_str(call, str) ==
    LET stop == {i \in 1..HS_AX25_MAX_CALLSIGN_LEN :
                    Char(str, i) \in {NUL, HS_AX25_SSID_SEPARATOR}}
        name == SubSeq(str, 1, IF stop = {} THEN HS_AX25_MAX_CALLSIGN_LEN ELSE Min(stop) - 1)
        sep  == Char(str, Len(name) + 1) = HS_AX25_SSID_SEPARATOR
        num  == IF sep THEN SsidAt(str, Len(name) + 2) ELSE [ssid |-> 0, len |-> 0]
        end  == Len(name) + num.len + (IF sep THEN 1 ELSE 0)
    IN  [base        |-> Written(call.base, name),
         ssid        |-> num.ssid,
         is_repeated |-> IF /\ end < HS_AX25_MAX_CALLSIGN_STRING_LEN
                            /\ Char(str, end + 1) = HS_AX25_REPEATED_MARKER
                         THEN 1 ELSE 0]

-----------------------------------------------------------------------------
(***************************************************************************)
(* Packets                                                                 *)
(***************************************************************************)
Repeaters(pkt) == SubSeq(pkt.repeaters, 1, pkt.repeater_count)
Info(pkt) == SubSeq(pkt.info, 1, pkt.info_len)

\* The rest of the repeaters and of the info stays uninitialised.
hs_ax25_packet_init(pkt) ==
    [pkt EXCEPT !.dest = hs_ax25_call_init(@), !.src = hs_ax25_call_init(@),
                !.repeater_count = 0, !.control = 0, !.protocol = 0, !.info_len = 0]

Calls(pkt) == <<pkt.dest, pkt.src>> \o Repeaters(pkt)

\* What has been packed after each of the addresses, the last of them marked.
Addresses(calls) ==
    LET packed[n \in 0 .. Len(calls)] ==
          IF n = 0 THEN <<>>
          ELSE packed[n - 1] \o hs_ax25_call_pack(calls[n], IF n = Len(calls) THEN 1 ELSE 0)
    IN  packed

\* Addresses, control, protocol and info; then the FCS.
PackedBody(pkt) ==
    Addresses(Calls(pkt))[Len(Calls(pkt))] \o <<pkt.control, pkt.protocol>> \o Info(pkt)

hs_ax25_packet_pack(pkt) == PackedBody(pkt) \o FcsBytes(Fcs(PackedBody(pkt)))

\* The i-th address of a packed packet.
Address(inp, i) == SubSeq(inp, (i - 1) * AddressLen + 1, i * AddressLen)

\* Addresses after the source are read until one is marked or there is no room.
RepeaterCount(inp) ==
    CHOOSE n \in 0..HS_AX25_MAX_REPEATER_COUNT :
       /\ n = HS_AX25_MAX_REPEATER_COUNT \/ IsLast(Address(inp, n + 2)) = 1
       /\ \A k \in 0 .. n - 1 : IsLast(Address(inp, k + 2)) = 0

\* pkt after inp has been unpacked into it; the last two bytes are not info.
hs_ax25_packet_unpack(pkt, inp) ==
    LET n    == RepeaterCount(inp)
        at   == (n + 2) * AddressLen
        info == SubSeq(inp, at + 3, Min({Len(inp) - 2, at + 2 + HS_AX25_MAX_INFO_LEN}))
    IN  [dest           |-> hs_ax25_call_unpack(pkt.dest, Address(inp, 1)),
         src            |-> hs_ax25_call_unpack(pkt.src, Address(inp, 2)),
         repeaters      |-> [i \in 1..HS_AX25_MAX_REPEATER_COUNT |->
                               IF i <= n
                               THEN hs_ax25_call_unpack(pkt.repeaters[i], Address(inp, i + 2))
                               ELSE pkt.repeaters[i]],
         repeater_count |-> n,
         control        |-> inp[at + 1],
         protocol       |-> inp[at + 2],
         info           |-> [i \in 1..HS_AX25_MAX_INFO_LEN |->
                               IF i <= Len(info) THEN info[i] ELSE pkt.info[i]],
         info_len       |-> Len(info)]

\* Mutant of FcsValid: only the low byte of the FCS is compared.
FcsValidLow(inp) ==
    /\ Len(inp) >= HS_AX25_MIN_PACKET_LEN
    /\ Fcs(SubSeq(inp, 1, Len(inp) - 2)) % 256 = inp[Len(inp) - 1]

\* What the deframer asks of its buffer before it unpacks it.
FcsValid(inp) ==
    /\ Len(inp) >= HS_AX25_MIN_PACKET_LEN
    /\ FcsBytes(Fcs(SubSeq(inp, 1, Len(inp) - 2))) = SubSeq(inp, Len(inp) - 1, Len(inp))

\* What is in the deframer's buffer after some bytes: it starts over when it is full,
\* so of a long packet only the end is left.
Kept(bytes) ==
    IF Len(bytes) <= RxLimit THEN bytes
    ELSE SubSeq(bytes, RxLimit * ((Len(bytes) - 1) \div RxLimit) + 1, Len(bytes))

-----------------------------------------------------------------------------
Init ==
    /\ packet \in Packets /\ sent = packet
    /\ buf = <<>> /\ phase = "made" /\ hops = 0 /\ flips = {} /\ typed = <<>>

\* The packet at hand is packed for the air or for KISS clients.
Pack ==
    /\ phase = "made" \/ (phase = "unpacked" /\ hops < MaxHops)
    /\ buf' = hs_ax25_packet_pack(packet)
    /\ phase' = "packed"
    /\ UNCHANGED <<packet, hops, sent, flips, typed>>

\* A bit of the packet is damaged on the air (each set of bits in one order).
Damage(k) ==
    /\ phase = "packed" /\ hops = 0 /\ sent \in Fragile
    /\ Cardinality(flips) < MaxFlips /\ \A j \in flips : j < k
    /\ buf' = [buf EXCEPT ![1 + (k \div 8)] = Xor16(@, 2^(k % 8))]
    /\ flips' = flips \cup {k}
    /\ UNCHANGED <<packet, phase, hops, sent, typed>>

\* The packet has come byte by byte after a flag, and the deframer sees the next
\* one.  "mangled": the end of a packet that did not fit happens to have a right FCS
\* and is taken for a packet; what becomes of that one is not followed.
Deframe(stale) ==
    /\ phase = "packed"
    /\ \/ /\ FcsValid(Kept(buf))
          /\ packet' = hs_ax25_packet_unpack(stale, Kept(buf))
          /\ phase' = IF Len(buf) <= RxLimit THEN "unpacked" ELSE "mangled"
          /\ hops' = hops + 1
       \/ /\ ~FcsValid(Kept(buf))
          /\ phase' = "rejected"
          /\ UNCHANGED <<packet, hops>>
    /\ UNCHANGED <<buf, sent, flips, typed>>

\* The packet arrives as a KISS data frame, which is unpacked unchecked.
FromKiss(stale) ==
    /\ phase = "packed" /\ flips = {}
    /\ packet' = hs_ax25_packet_unpack(stale, buf)
    /\ phase' = "unpacked" /\ hops' = hops + 1
    /\ UNCHANGED <<buf, sent, flips, typed>>

\* The source address is printed, and what was printed is read.
Retype(stale) ==
    /\ phase = "unpacked" /\ typed = <<>>
    /\ typed' = <<hs_ax25_call_from_str(stale.src, hs_ax25_call_to_str(packet.src))>>
    /\ UNCHANGED <<packet, buf, phase, hops, sent, flips>>

Next ==
    \/ Pack
    \/ \E k \in 0 .. 8 * Len(buf) - 1 : Damage(k)
    \/ \E stale \in Stales : Deframe(stale) \/ FromKiss(stale) \/ Retype(stale)

Spec == Init /\ [][Next]_vars

-----------------------------------------------------------------------------
(***************************************************************************)
(* Properties                                                              *)
(***************************************************************************)
\* The fields of hs_ax25_packet_t and the packed bytes stay in their types, and
\* every name is terminated within its array.
TypeOK ==
    /\ packet \in PacketType
    /\ \A call \in {packet.dest, packet.src} : \E i \in Base : call.base[i] = NUL
    /\ buf \in Seq(Bytes)
    /\ phase \in {"made", "packed", "unpacked", "rejected", "mangled"}
    /\ hops \in 0..MaxHops
    /\ \A k \in DOMAIN typed : typed[k] \in CallType

\* What a call or a packet means to its users, whatever else its arrays hold.
CallValue(call) == <<Name(call.base), call.ssid, call.is_repeated>>
Value(pkt) ==
    <<CallValue(pkt.dest), CallValue(pkt.src),
      [i \in 1..pkt.repeater_count |-> CallValue(pkt.repeaters[i])],
      pkt.control, pkt.protocol, Info(pkt)>>

\* However often an undamaged packet is packed, checked and unpacked, and
\* whatever the structures it is unpacked into held before, it stays the packet
\* that was sent: names of every length, SSIDs, marks, repeaters and info.  The
\* deframer refuses none but those too long for it (255 bytes, while a packet may have
\* 329): these only KISS clients get.
PacketSurvives ==
    flips = {} =>
       /\ phase \in {"rejected", "mangled"} => Len(buf) > RxLimit
       /\ phase # "mangled" => Value(packet) = Value(sent)

\* The FCS that hs_ax25_packet_pack appends lets the deframer reject every
\* packet in which up to MaxFlips bits were damaged, wherever they are.
DamageDetected == flips # {} => phase # "unpacked"

\* The FCS that the table-driven loop of hs_ax25_packet_pack appends is the one
\* the polynomial defines ("http://www.ietf.org/rfc/rfc1549.txt").
FcsIsRemainder ==
    phase = "packed" /\ flips = {} =>
       LET body == SubSeq(buf, 1, Len(buf) - 2)
       IN  buf = body \o FcsBytes(ReferenceFcs(body))

\* The marker is looked for by hs_ax25_call_from_str after an SSID and after a name
\* that fills base; elsewhere it is one more character of the name.
MarkerReadable(call) ==
    \/ call.is_repeated = 0 \/ call.ssid # 0
    \/ Len(Name(call.base)) = HS_AX25_MAX_CALLSIGN_LEN

\* What is read back for an address that was printed.
ReadAs(call) ==
    IF MarkerReadable(call) THEN CallValue(call)
    ELSE <<Append(Name(call.base), HS_AX25_REPEATED_MARKER), 0, 0>>

\* An address that hs_ax25_call_to_str prints is read back unchanged by
\* hs_ax25_call_from_str, wherever the name ends and with one digit or two, except
\* that the mark of a short name without an SSID moves into the name: the address
\* read back is then another one, unmarked.
AddressReadBack ==
    typed # <<>> /\ phase # "mangled" => CallValue(typed[1]) = ReadAs(packet.src)
=============================================================================
