-------------------------------- MODULE Kiss --------------------------------
(***************************************************************************)
(* src/hamstuff/kiss.c and its use in apps/ax25tnc/ax25tnc.c: KISS frames  *)
(* travel as a stream of bytes, each client of the TNC writes a stream of  *)
(* its own, and one decoder reads all of them.                             *)
(*                                                                         *)
(* The server thread hands the bytes of one client at a time to the        *)
(* decoder, between kiss_data_start_callback and kiss_data_end_callback;   *)
(* where a client's stream is cut is up to TCP.  A client encodes as       *)
(* hs_kiss_encode does, one byte per step; it may also send bytes that are *)
(* no frame.                                                               *)
(***************************************************************************)
EXTENDS Integers, Sequences

CONSTANTS BufferSize,  \* HS_KISS_DECODER_BUFFER_SIZE
          Clients,
          Messages,    \* what clients may send
          Noise,       \* bytes clients may send outside frames
          Split,       \* may a session end in the middle of a frame?
          Nobody,      \* no client
          NoFrame      \* no message

KISS_END     == 192
KISS_ESC     == 219
KISS_ESC_END == 220
KISS_ESC_ESC == 221
KISS_RETURN  == 255
Bytes == 0..255

\* hs_kiss_command_t
Commands == 0..6 \cup {KISS_RETURN}

\* (message->port << 4) | message->command, as a byte.
Header(m) == IF m.command = KISS_RETURN THEN KISS_RETURN ELSE m.port * 16 + m.command

\* The header is not escaped, so port 12 cannot carry data frames.
ASSUME KissAssumption ==
    /\ BufferSize \in Nat \ {0}
    /\ Noise \subseteq Bytes
    /\ Split \in BOOLEAN
    /\ Nobody \notin Clients /\ NoFrame \notin Messages
    /\ \A m \in Messages :
          /\ m \in [port : 0..15, command : Commands, data : Seq(Bytes)]
          /\ m.command = KISS_RETURN => m.port = 0 /\ m.data = <<>>
          /\ Header(m) # KISS_END

VARIABLES state, buffer,  \* decoder->state; buffer[0 .. buffer_pos - 1]
          turn,           \* the client whose session it is
          pc, msg, i,     \* each client's encoder: place, message and loop index
          fresh,          \* messages decoded since the last frame began (history)
          clean,          \* did that frame begin outside an escape? (history)
          last            \* the frame that ended last, nothing sent since (history)

decoderVars == <<state, buffer>>
clientVars == <<pc, msg, i>>
historyVars == <<fresh, clean, last>>
vars == <<decoderVars, turn, clientVars, historyVars>>

-----------------------------------------------------------------------------
(***************************************************************************)
(* Decoder                                                                 *)
(***************************************************************************)
\* _hs_kiss_decoder_process_frame: the message in a buffer.
Frame(buf) ==
    IF buf[1] = KISS_RETURN
    THEN [port |-> 0, command |-> KISS_RETURN, data |-> <<>>]
    ELSE [port |-> buf[1] \div 16, command |-> buf[1] % 16, data |-> Tail(buf)]

\* The messages handed to frame_callback on byte b.
Decoded(b) ==
    IF state = "READING" /\ b = KISS_END /\ Len(buffer) >= 1 THEN <<Frame(buffer)>> ELSE <<>>

\* Mutant of Store: the buffer is taken to have one more byte.
StoreOneMore(b) ==
    IF Len(buffer) <= BufferSize
    THEN buffer' = Append(buffer, b) /\ state' = "READING"
    ELSE buffer' = <<>> /\ state' = "UNDEFINED"

\* Mutant of Store: a full buffer drops the byte instead of the frame.
StoreTruncates(b) ==
    /\ buffer' = IF Len(buffer) < BufferSize THEN Append(buffer, b) ELSE buffer
    /\ state' = "READING"

\* "Copy byte to buffer", or "Buffer would overflow, reset".
Store(b) ==
    IF Len(buffer) < BufferSize
    THEN buffer' = Append(buffer, b) /\ state' = "READING"
    ELSE buffer' = <<>> /\ state' = "UNDEFINED"

\* Mutant of Unescape: a byte that is no escape code does not end the escape.
UnescapeStays(b) ==
    \/ b = KISS_ESC_END /\ Store(KISS_END)
    \/ b = KISS_ESC_ESC /\ Store(KISS_ESC)
    \/ b \notin {KISS_ESC_END, KISS_ESC_ESC} /\ UNCHANGED decoderVars

\* An escaped byte; one that is no escape code is dropped.
Unescape(b) ==
    \/ b = KISS_ESC_END /\ Store(KISS_END)
    \/ b = KISS_ESC_ESC /\ Store(KISS_ESC)
    \/ /\ b \notin {KISS_ESC_END, KISS_ESC_ESC}
       /\ IF Len(buffer) < BufferSize
          THEN state' = "READING" /\ UNCHANGED buffer
          ELSE state' = "UNDEFINED" /\ buffer' = <<>>

\* hs_kiss_decoder_process
hs_kiss_decoder_process(b) ==
    \/ /\ state = "UNDEFINED"
       /\ IF b = KISS_END THEN state' = "READING" /\ buffer' = <<>> ELSE UNCHANGED decoderVars
    \/ state = "READING" /\ b = KISS_ESC /\ state' = "ESCAPED" /\ UNCHANGED buffer
    \/ state = "READING" /\ b = KISS_END /\ buffer' = <<>> /\ UNCHANGED state
    \/ state = "READING" /\ b \notin {KISS_ESC, KISS_END} /\ Store(b)
    \/ state = "ESCAPED" /\ Unescape(b)

-----------------------------------------------------------------------------
(***************************************************************************)
(* Clients                                                                 *)
(***************************************************************************)
\* One byte of client c reaches the decoder.
Byte(c, b) ==
    /\ turn = c
    /\ hs_kiss_decoder_process(b)
    /\ UNCHANGED turn

\* One byte of the frame that client c is sending.
FrameByte(c, b) ==
    /\ Byte(c, b)
    /\ fresh' = fresh \o Decoded(b)

\* kiss_data_start_callback
Start(c) ==
    /\ turn = Nobody
    /\ turn' = c
    /\ UNCHANGED <<decoderVars, clientVars, historyVars>>

\* kiss_data_end_callback
End(c) ==
    /\ turn = c
    /\ Split \/ pc[c] = "idle"
    /\ turn' = Nobody
    /\ UNCHANGED <<decoderVars, clientVars, historyVars>>

SendNoise(c, b) ==
    /\ pc[c] = "idle"
    /\ Byte(c, b)
    /\ fresh' = <<>> /\ last' = NoFrame
    /\ UNCHANGED <<clientVars, clean>>

\* hs_kiss_encode: the opening END ...
SendStart(c, m) ==
    /\ pc[c] = "idle"
    /\ Byte(c, KISS_END)
    /\ pc' = [pc EXCEPT ![c] = "header"]
    /\ msg' = [msg EXCEPT ![c] = m]
    /\ i' = [i EXCEPT ![c] = 1]
    /\ fresh' = <<>> /\ last' = NoFrame
    /\ clean' = (state # "ESCAPED")

\* ... the port and command ...
SendHeader(c) ==
    /\ pc[c] = "header"
    /\ FrameByte(c, Header(msg[c]))
    /\ pc' = [pc EXCEPT ![c] = "data"]
    /\ UNCHANGED <<msg, i, clean, last>>

\* Mutant of SendData: an ESC in the data is not escaped.
SendDataRaw(c) ==
    /\ pc[c] = "data" /\ i[c] <= Len(msg[c].data)
    /\ LET b == msg[c].data[i[c]]
       IN  IF b = KISS_END
           THEN /\ FrameByte(c, KISS_ESC)
                /\ pc' = [pc EXCEPT ![c] = "escaped"]
                /\ UNCHANGED i
           ELSE /\ FrameByte(c, b)
                /\ i' = [i EXCEPT ![c] = @ + 1]
                /\ UNCHANGED pc
    /\ UNCHANGED <<msg, clean, last>>

\* ... the data, a byte at a time ...
SendData(c) ==
    /\ pc[c] = "data" /\ i[c] <= Len(msg[c].data)
    /\ LET b == msg[c].data[i[c]]
       IN  IF b \in {KISS_END, KISS_ESC}
           THEN /\ FrameByte(c, KISS_ESC)
                /\ pc' = [pc EXCEPT ![c] = "escaped"]
                /\ UNCHANGED i
           ELSE /\ FrameByte(c, b)
                /\ i' = [i EXCEPT ![c] = @ + 1]
                /\ UNCHANGED pc
    /\ UNCHANGED <<msg, clean, last>>

\* ... with the second byte of an escape ...
SendEscaped(c) ==
    /\ pc[c] = "escaped"
    /\ FrameByte(c, IF msg[c].data[i[c]] = KISS_END THEN KISS_ESC_END ELSE KISS_ESC_ESC)
    /\ pc' = [pc EXCEPT ![c] = "data"]
    /\ i' = [i EXCEPT ![c] = @ + 1]
    /\ UNCHANGED <<msg, clean, last>>

\* ... and the closing END.
SendEnd(c) ==
    /\ pc[c] = "data" /\ i[c] > Len(msg[c].data)
    /\ FrameByte(c, KISS_END)
    /\ pc' = [pc EXCEPT ![c] = "idle"]
    /\ last' = msg[c]
    /\ UNCHANGED <<msg, i, clean>>

Client(c) ==
    \/ Start(c) \/ End(c)
    \/ \E b \in Noise : SendNoise(c, b)
    \/ \E m \in Messages : SendStart(c, m)
    \/ SendHeader(c) \/ SendData(c) \/ SendEscaped(c) \/ SendEnd(c)

\* hs_kiss_decoder_init
Init ==
    /\ state = "UNDEFINED" /\ buffer = <<>>
    /\ turn = Nobody
    /\ pc = [c \in Clients |-> "idle"]
    /\ msg = [c \in Clients |-> NoFrame]
    /\ i = [c \in Clients |-> 1]
    /\ fresh = <<>> /\ clean = FALSE /\ last = NoFrame

Next == \E c \in Clients : Client(c)

Spec == Init /\ [][Next]_vars

-----------------------------------------------------------------------------
(***************************************************************************)
(* Properties                                                              *)
(***************************************************************************)
\* The decoder stays in its states and never stores past its buffer.
TypeOK ==
    /\ state \in {"UNDEFINED", "READING", "ESCAPED"}
    /\ buffer \in Seq(Bytes) /\ Len(buffer) <= BufferSize
    /\ turn \in Clients \cup {Nobody}
    /\ pc \in [Clients -> {"idle", "header", "data", "escaped"}]
    /\ msg \in [Clients -> Messages \cup {NoFrame}]
    /\ i \in [Clients -> Nat]
    /\ clean \in BOOLEAN
    /\ last \in Messages \cup {NoFrame}

Fits(m) == 1 + Len(m.data) <= BufferSize

\* Nobody's bytes come between the bytes of a frame: either a session carries
\* whole frames, or there is one client.
Undisturbed == Split => \A c, d \in Clients : c = d

\* A frame whose bytes reach the decoder undisturbed is decoded to the message
\* that was encoded, whatever bytes came before it; one too long for the decoder's buffer
\* is dropped whole.  In neither case is anything else handed to the callback.
\* (A frame after a lone ESC loses its opening END to the escape.)
FrameIntact ==
    last # NoFrame /\ clean => fresh = IF Fits(last) THEN <<last>> ELSE <<>>

\* After a frame the decoder is ready for the next one, also when the frame was
\* dropped or had begun inside an escape: no frame damages its successor.
Resynchronised == last # NoFrame => state = "READING" /\ buffer = <<>>

\* The decoder's buffer holds the header and the data bytes sent so far.
Holds(m, n) ==
    /\ Len(buffer) = n
    /\ buffer[1] = Header(m)
    /\ \A k \in 1 .. n - 1 : buffer[k + 1] = m.data[k]

\* Where the decoder stands while client c is sending a frame.
InFrame(c) ==
    LET open == IF pc[c] = "escaped" THEN "ESCAPED" ELSE "READING"
    IN  /\ turn = c \/ (Split /\ turn = Nobody)
        /\ msg[c] \in Messages
        /\ last = NoFrame
        /\ i[c] \in 1 .. Len(msg[c].data) + 1
        /\ pc[c] = "escaped" => i[c] <= Len(msg[c].data) /\ msg[c].data[i[c]] \in {KISS_END, KISS_ESC}
        /\ state \in {open, "UNDEFINED"}
        /\ clean =>
             /\ fresh = <<>>
             /\ pc[c] = "header" => state = "READING" /\ buffer = <<>> /\ i[c] = 1
             /\ pc[c] # "header" /\ i[c] <= BufferSize => state = open /\ Holds(msg[c], i[c])
             /\ pc[c] # "header" /\ i[c] > BufferSize => state = "UNDEFINED"

\* The inductive invariant behind FrameIntact: the decoder follows the encoder of
\* the one client that is in the middle of a frame.
KissInv ==
    /\ TypeOK /\ FrameIntact /\ Resynchronised
    /\ \A c \in Clients : pc[c] # "idle" => InFrame(c)

\* ax25tnc.c:159: "Lock the KISS decoder so that messages from other KISS clients
\* do not mix": what is decoded is a message that some client sent.
MessagesDoNotMix == \A k \in 1..Len(fresh) : fresh[k] \in Messages
=============================================================================
