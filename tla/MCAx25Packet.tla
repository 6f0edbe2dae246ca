---------------------------- MODULE MCAx25Packet ----------------------------
(***************************************************************************)
(* Ax25Packet for TLC: names of every length, SSIDs at the digit and field *)
(* boundaries, any number of repeaters; packets up to the deframer's limit *)
(* and beyond; one packet for every value of an info byte, which looks up  *)
(* every entry of the CRC table.                                           *)
(***************************************************************************)
EXTENDS Ax25Packet

Garbage(c) == [i \in Base |-> c]

MCCall(name, ssid, rep) ==
    [base |-> Written(Garbage(88), name), ssid |-> ssid, is_repeated |-> rep]

MCPacket(dest, src, repeaters, info) ==
    [dest |-> dest, src |-> src,
     repeaters |-> [i \in 1..HS_AX25_MAX_REPEATER_COUNT |->
                      IF i <= Len(repeaters) THEN repeaters[i] ELSE MCCall(<<89>>, 9, 1)],
     repeater_count |-> Len(repeaters), control |-> 3, protocol |-> 240,
     info |-> [i \in 1..HS_AX25_MAX_INFO_LEN |-> IF i <= Len(info) THEN info[i] ELSE 192],
     info_len |-> Len(info)]

A == MCCall(<<65>>, 0, 0)
B == MCCall(<<66, 127>>, 15, 1)
NoName == MCCall(<<>>, 1, 0)

MCFragile == {MCPacket(A, B, <<>>, <<>>)}

\* A packet too long for the deframer, whose last ten bytes have a right FCS: 138 and
\* 80 take the register back to where it starts, just when the buffer starts over.
MCTail == MCPacket(A, A, <<>>, <<0, 0, 0, 0, 0, 138, 80, 130, 64, 96, 132, 64, 97, 3, 240>>)

MCPackets ==
    MCFragile \cup {MCTail}
    \cup {MCPacket(A, NoName, <<>>, <<b>>) : b \in Bytes}
    \cup {MCPacket(B, MCCall(name, ssid, rep), reps, info) :
            name \in {<<>>, <<65>>, <<66, 57>>}, ssid \in {0, 1, 9, 10, 15}, rep \in {0, 1},
            reps \in {<<>>, <<A>>, <<NoName, B>>}, info \in {<<>>, <<0>>, <<255, 32>>}}

\* The structure unpacked into was just initialised, or not even that.
Uninitialised ==
    MCPacket([A EXCEPT !.base = Garbage(90)], [B EXCEPT !.base = Garbage(32)],
             <<B, [B EXCEPT !.base = Garbage(45)]>>, <<7, 7>>)
MCStales == {Uninitialised, hs_ax25_packet_init(Uninitialised)}
=============================================================================
