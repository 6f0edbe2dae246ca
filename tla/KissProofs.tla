----------------------------- MODULE KissProofs -----------------------------
(***************************************************************************)
(* Proofs about Kiss: while nobody's bytes come between the bytes of a     *)
(* frame, the decoder follows the encoder (KissInv), and so it hands over  *)
(* exactly the messages that fit its buffer.                               *)
(***************************************************************************)
EXTENDS Kiss, SequenceTheorems, TLAPS

-----------------------------------------------------------------------------
\* The first byte of a frame is neither END nor ESC, so it needs no escaping.
LEMMA HeaderByte ==
    ASSUME NEW m \in Messages
    PROVE  /\ m \in [port : 0..15, command : Commands, data : Seq(Bytes)]
           /\ Header(m) \in Bytes \ {KISS_END, KISS_ESC}
           /\ Header(m) = KISS_RETURN <=> m.command = KISS_RETURN
<1>1. /\ m \in [port : 0..15, command : Commands, data : Seq(Bytes)]
      /\ Header(m) # KISS_END
  BY KissAssumption
<1>2. m.port \in 0..15 /\ m.command \in Commands
  BY <1>1
<1>3. CASE m.command = KISS_RETURN
  <2>1. Header(m) = 255
    BY <1>3 DEF Header, KISS_RETURN
  <2>. QED  BY <1>1, <1>3, <2>1 DEF Bytes, KISS_RETURN, KISS_ESC, KISS_END
<1>4. CASE m.command # KISS_RETURN
  <2>1. m.command \in 0..6
    BY <1>2, <1>4 DEF Commands
  <2>2. Header(m) = m.port * 16 + m.command
    BY <1>4 DEF Header
  <2>3. m.port * 16 + m.command \in 0..246 /\ m.port * 16 + m.command # 219
    BY <1>2, <2>1, SMT
  <2>4. Header(m) \in 0..246 /\ Header(m) # 219
    BY <2>2, <2>3
  <2>5. Header(m) \in Bytes /\ Header(m) # KISS_ESC /\ Header(m) # KISS_RETURN
    BY <2>4 DEF Bytes, KISS_RETURN, KISS_ESC
  <2>. QED  BY <1>1, <1>4, <2>5
<1>. QED  BY <1>3, <1>4

\* Port and command can be told apart in the header.
LEMMA Nibbles ==
    ASSUME NEW p \in 0..15, NEW k \in 0..6
    PROVE  (p * 16 + k) \div 16 = p /\ (p * 16 + k) % 16 = k
OBVIOUS

\* A byte other than END delivers nothing.
LEMMA DecodesNothing ==
    ASSUME NEW b, b # KISS_END
    PROVE  Decoded(b) = <<>>
BY DEF Decoded

\* The decoder never stores past its buffer.
LEMMA DecoderType ==
    ASSUME TypeOK, NEW b \in Bytes, hs_kiss_decoder_process(b)
    PROVE  /\ state' \in {"UNDEFINED", "READING", "ESCAPED"}
           /\ buffer' \in Seq(Bytes) /\ Len(buffer') <= BufferSize
<1>. /\ state \in {"UNDEFINED", "READING", "ESCAPED"}
     /\ buffer \in Seq(Bytes) /\ Len(buffer) <= BufferSize /\ BufferSize \in Nat
     /\ <<>> \in Seq(Bytes) /\ Len(<<>>) <= BufferSize
  BY KissAssumption DEF TypeOK
<1>. /\ KISS_END \in Bytes /\ KISS_ESC \in Bytes
  BY DEF Bytes, KISS_END, KISS_ESC
<1>1. ASSUME NEW x \in Bytes, Store(x)
      PROVE  /\ state' \in {"UNDEFINED", "READING", "ESCAPED"}
             /\ buffer' \in Seq(Bytes) /\ Len(buffer') <= BufferSize
  <2>1. Append(buffer, x) \in Seq(Bytes) /\ Len(Append(buffer, x)) = Len(buffer) + 1
    BY <1>1, AppendProperties
  <2>2. Len(buffer) \in Nat
    OBVIOUS
  <2>3. CASE Len(buffer) < BufferSize
    BY <1>1, <2>1, <2>2, <2>3 DEF Store
  <2>4. CASE ~(Len(buffer) < BufferSize)
    BY <1>1, <2>4 DEF Store
  <2>. QED  BY <2>3, <2>4
<1>2. CASE state = "UNDEFINED"
  BY <1>2 DEF hs_kiss_decoder_process, decoderVars
<1>3. CASE state = "READING"
  BY <1>1, <1>3 DEF hs_kiss_decoder_process
<1>4. CASE state = "ESCAPED" /\ Unescape(b)
  BY <1>1, <1>4 DEF Unescape
<1>. QED  BY <1>2, <1>3, <1>4 DEF hs_kiss_decoder_process

\* Only the client whose session it is can be in the middle of a frame.
LEMMA OthersIdle ==
    ASSUME KissInv, NEW c \in Clients, turn = c
    PROVE  \A d \in Clients : d # c => pc[d] = "idle"
BY KissAssumption DEF KissInv, InFrame

\* What is left to show of a step of client c in its session.
LEMMA OneClient ==
    ASSUME KissInv, NEW c \in Clients, turn = c, NEW x, pc' = [pc EXCEPT ![c] = x],
           TypeOK', FrameIntact', Resynchronised',
           x # "idle" => InFrame(c)'
    PROVE  KissInv'
<1>1. pc \in [Clients -> {"idle", "header", "data", "escaped"}]
  BY DEF KissInv, TypeOK
<1>2. ASSUME NEW d \in Clients, pc'[d] # "idle"
      PROVE  InFrame(d)'
  BY <1>1, <1>2, OthersIdle
<1>. QED  BY <1>2 DEF KissInv

\* A decoder that has the whole frame in its buffer makes the message of it.
LEMMA FrameOfHolds ==
    ASSUME NEW m \in Messages, buffer \in Seq(Bytes), Holds(m, Len(m.data) + 1)
    PROVE  Len(buffer) >= 1 /\ Frame(buffer) = m
<1>1. /\ m \in [port : 0..15, command : Commands, data : Seq(Bytes)]
      /\ Header(m) = KISS_RETURN <=> m.command = KISS_RETURN
      /\ m.command = KISS_RETURN => m.port = 0 /\ m.data = <<>>
  BY HeaderByte, KissAssumption
<1>2. /\ m.data \in Seq(Bytes) /\ Len(m.data) \in Nat
      /\ m.port \in 0..15 /\ m.command \in Commands
  BY <1>1
<1>3. /\ Len(buffer) = Len(m.data) + 1 /\ buffer[1] = Header(m)
      /\ \A k \in 1 .. Len(m.data) : buffer[k + 1] = m.data[k]
  BY <1>2 DEF Holds
<1>4. CASE m.command = KISS_RETURN
  <2>1. m = [port |-> 0, command |-> KISS_RETURN, data |-> <<>>]
    BY <1>1, <1>4
  <2>. QED  BY <1>1, <1>2, <1>3, <1>4, <2>1 DEF Frame
<1>5. CASE m.command # KISS_RETURN
  <2>1. m.command \in 0..6 /\ Header(m) = m.port * 16 + m.command
    BY <1>2, <1>5 DEF Commands, Header
  <2>2. (m.port * 16 + m.command) \div 16 = m.port /\ (m.port * 16 + m.command) % 16 = m.command
    BY <1>2, <2>1, Nibbles
  <2>3. Tail(buffer) = m.data
    <3>1. buffer # <<>>
      BY <1>2, <1>3
    <3>2. /\ Tail(buffer) \in Seq(Bytes)
          /\ Len(Tail(buffer)) = Len(buffer) - 1
          /\ \A k \in 1 .. Len(Tail(buffer)) : Tail(buffer)[k] = buffer[k + 1]
      BY <3>1, HeadTailProperties
    <3>. QED  BY <1>2, <1>3, <3>2, SeqEqual
  <2>4. Frame(buffer) = [port |-> m.port, command |-> m.command, data |-> m.data]
    BY <1>1, <1>3, <1>5, <2>1, <2>2, <2>3 DEF Frame
  <2>5. m = [port |-> m.port, command |-> m.command, data |-> m.data]
    BY <1>1
  <2>. QED  BY <1>2, <1>3, <2>4, <2>5
<1>. QED  BY <1>4, <1>5

-----------------------------------------------------------------------------
(***************************************************************************)
(* Steps                                                                   *)
(***************************************************************************)
\* hs_kiss_decoder_init establishes the invariant.
LEMMA KissInit == Init => KissInv
<1>. SUFFICES ASSUME Init PROVE KissInv
  OBVIOUS
<1>1. BufferSize \in Nat /\ <<>> \in Seq(Bytes) /\ Len(<<>>) = 0
  BY KissAssumption
<1>2. TypeOK
  <2>1. /\ pc \in [Clients -> {"idle", "header", "data", "escaped"}]
        /\ msg \in [Clients -> Messages \cup {NoFrame}]
        /\ i \in [Clients -> Nat]
    BY DEF Init
  <2>2. buffer \in Seq(Bytes) /\ Len(buffer) <= BufferSize
    BY <1>1 DEF Init
  <2>. QED  BY <2>1, <2>2, Zenon DEF Init, TypeOK
<1>. QED  BY <1>2 DEF Init, KissInv, FrameIntact, Resynchronised

\* A session may begin or end: no frame is broken into by another client.
LEMMA SessionInv ==
    ASSUME Undisturbed, KissInv, NEW c \in Clients, Start(c) \/ End(c)
    PROVE  KissInv'
<1>1. /\ TypeOK' /\ FrameIntact' /\ Resynchronised'
  BY DEF KissInv, TypeOK, FrameIntact, Resynchronised, Start, End, decoderVars, clientVars,
         historyVars
<1>2. ASSUME NEW d \in Clients, pc'[d] # "idle"
      PROVE  InFrame(d)'
  <2>1. InFrame(d) /\ pc' = pc
    BY <1>2 DEF KissInv, Start, End, clientVars
  <2>2. turn' = d \/ (Split /\ turn' = Nobody)
    BY <1>2, <2>1, KissAssumption DEF InFrame, Undisturbed, Start, End
  <2>. QED  BY <2>1, <2>2 DEF InFrame, Holds, Start, End, decoderVars, clientVars, historyVars
<1>. QED  BY <1>1, <1>2 DEF KissInv

\* Bytes outside frames leave no frame open.
LEMMA SendNoiseInv ==
    ASSUME KissInv, NEW c \in Clients, NEW b \in Noise, SendNoise(c, b)
    PROVE  KissInv'
<1>1. b \in Bytes /\ hs_kiss_decoder_process(b) /\ turn = c
  BY KissAssumption DEF SendNoise, Byte
<1>2. TypeOK'
  BY <1>1, DecoderType DEF KissInv, TypeOK, SendNoise, Byte, clientVars
<1>3. FrameIntact' /\ Resynchronised'
  BY DEF SendNoise, FrameIntact, Resynchronised
<1>4. pc[c] = "idle" /\ pc' = [pc EXCEPT ![c] = "idle"]
  BY DEF KissInv, TypeOK, SendNoise, clientVars
<1>. QED  BY <1>1, <1>2, <1>3, <1>4, OneClient

\* The opening END empties the decoder's buffer, unless it falls into an escape.
LEMMA SendStartInv ==
    ASSUME KissInv, NEW c \in Clients, NEW m \in Messages, SendStart(c, m)
    PROVE  KissInv'
<1>1. KISS_END \in Bytes /\ hs_kiss_decoder_process(KISS_END) /\ turn = c /\ turn' = c
  BY DEF SendStart, Byte, Bytes, KISS_END
<1>2. TypeOK
  BY DEF KissInv
<1>3. TypeOK'
  <2>1. /\ state' \in {"UNDEFINED", "READING", "ESCAPED"}
        /\ buffer' \in Seq(Bytes) /\ Len(buffer') <= BufferSize
    BY <1>1, <1>2, DecoderType
  <2>2. /\ pc' \in [Clients -> {"idle", "header", "data", "escaped"}]
        /\ msg' \in [Clients -> Messages \cup {NoFrame}]
        /\ i' \in [Clients -> Nat]
    BY <1>2 DEF TypeOK, SendStart
  <2>3. clean' \in BOOLEAN /\ last' \in Messages \cup {NoFrame}
    BY Zenon DEF SendStart
  <2>. QED  BY <1>1, <2>1, <2>2, <2>3 DEF TypeOK
<1>4. FrameIntact' /\ Resynchronised'
  BY DEF SendStart, FrameIntact, Resynchronised
<1>5. /\ pc' = [pc EXCEPT ![c] = "header"]
      /\ pc'[c] = "header" /\ msg'[c] = m /\ i'[c] = 1
      /\ last' = NoFrame /\ fresh' = <<>> /\ clean' = (state # "ESCAPED")
  BY <1>2 DEF TypeOK, SendStart
<1>6. /\ state' \in {"READING", "UNDEFINED"}
      /\ state # "ESCAPED" => state' = "READING" /\ buffer' = <<>>
  <2>1. CASE state = "ESCAPED"
    BY <1>1, <2>1 DEF hs_kiss_decoder_process, Unescape, KISS_END, KISS_ESC_END, KISS_ESC_ESC
  <2>2. CASE state # "ESCAPED"
    BY <1>1, <1>2, <2>2 DEF hs_kiss_decoder_process, TypeOK, KISS_END, KISS_ESC
  <2>. QED  BY <2>1, <2>2
<1>7. Len(m.data) \in Nat
  BY HeaderByte
<1>8. i'[c] \in 1 .. Len(msg'[c].data) + 1
  BY <1>5, <1>7
<1>9. InFrame(c)'
  BY <1>1, <1>5, <1>6, <1>8 DEF InFrame
<1>. QED  BY <1>1, <1>3, <1>4, <1>5, <1>9, OneClient

\* The port and command are the first byte in the decoder's buffer.
LEMMA SendHeaderInv ==
    ASSUME KissInv, NEW c \in Clients, SendHeader(c)
    PROVE  KissInv'
<1>1. InFrame(c) /\ TypeOK /\ pc[c] = "header" /\ turn = c /\ turn' = c
  BY DEF KissInv, SendHeader, FrameByte, Byte
<1>2. PICK m \in Messages : m = msg[c]
  BY <1>1 DEF InFrame
<1>3. /\ Header(m) \in Bytes \ {KISS_END, KISS_ESC}
      /\ hs_kiss_decoder_process(Header(m))
      /\ fresh' = fresh \o Decoded(Header(m))
  BY <1>2, HeaderByte DEF SendHeader, FrameByte, Byte
<1>4. TypeOK'
  <2>1. /\ state' \in {"UNDEFINED", "READING", "ESCAPED"}
        /\ buffer' \in Seq(Bytes) /\ Len(buffer') <= BufferSize
    BY <1>1, <1>3, DecoderType
  <2>2. pc' \in [Clients -> {"idle", "header", "data", "escaped"}]
    BY <1>1 DEF TypeOK, SendHeader
  <2>. QED  BY <1>1, <2>1, <2>2 DEF TypeOK, SendHeader
<1>5. /\ pc' = [pc EXCEPT ![c] = "data"] /\ pc'[c] = "data"
      /\ last = NoFrame /\ last' = NoFrame /\ msg' = msg /\ i' = i /\ clean' = clean
  BY <1>1 DEF TypeOK, InFrame, SendHeader
<1>6. FrameIntact' /\ Resynchronised'
  BY <1>5 DEF FrameIntact, Resynchronised
<1>7. fresh = <<>> => fresh' = <<>>
  BY <1>3, DecodesNothing
<1>8. state \in {"READING", "UNDEFINED"} /\ i[c] \in 1 .. Len(m.data) + 1
  BY <1>1, <1>2 DEF InFrame
<1>9. /\ state = "UNDEFINED" => state' = "UNDEFINED"
      /\ state = "READING" => Store(Header(m))
  BY <1>3 DEF hs_kiss_decoder_process, decoderVars
<1>10. state' \in {"READING", "UNDEFINED"}
  BY <1>8, <1>9 DEF Store
<1>11. ASSUME clean
       PROVE  /\ fresh' = <<>> /\ i[c] = 1 /\ i[c] <= BufferSize
              /\ state' = "READING" /\ buffer' = <<Header(m)>>
  <2>1. state = "READING" /\ buffer = <<>> /\ i[c] = 1 /\ fresh = <<>>
    BY <1>1, <1>11 DEF InFrame
  <2>2. BufferSize \in Nat /\ BufferSize > 0 /\ Len(<<>>) = 0
    BY KissAssumption
  <2>3. state' = "READING" /\ buffer' = Append(<<>>, Header(m))
    BY <1>9, <2>1, <2>2 DEF Store
  <2>. QED  BY <1>7, <2>1, <2>2, <2>3
<1>12. ASSUME clean
       PROVE  Len(buffer') = 1 /\ buffer'[1] = Header(m)
  BY <1>11, <1>12
<1>13. clean => Holds(msg[c], i[c])'
  BY <1>2, <1>5, <1>11, <1>12 DEF Holds
<1>14. msg'[c] \in Messages /\ i'[c] \in 1 .. Len(msg'[c].data) + 1
  BY <1>2, <1>5, <1>8
<1>15. clean' => fresh' = <<>> /\ i'[c] <= BufferSize /\ ~(i'[c] > BufferSize) /\ state' = "READING"
  BY <1>5, <1>11, KissAssumption
<1>16. InFrame(c)'
  BY <1>1, <1>5, <1>10, <1>13, <1>14, <1>15 DEF InFrame
<1>. QED  BY <1>1, <1>4, <1>5, <1>6, <1>16, OneClient

\* A data byte that reaches the buffer, plain or out of an escape, is the next
\* one the decoder has to hold; one byte too many drops the frame.
LEMMA DataByteInv ==
    ASSUME KissInv, TypeOK', NEW c \in Clients, turn = c, turn' = c,
           pc[c] \in {"data", "escaped"}, i[c] <= Len(msg[c].data),
           pc' = [pc EXCEPT ![c] = "data"], i' = [i EXCEPT ![c] = i[c] + 1],
           msg' = msg, clean' = clean, last' = last, fresh' = fresh \o <<>>,
           state = "UNDEFINED" => state' = "UNDEFINED",
           state # "UNDEFINED" => Store(msg[c].data[i[c]])
    PROVE  KissInv'
<1>1. InFrame(c) /\ TypeOK
  BY DEF KissInv
<1>2. PICK m \in Messages : m = msg[c]
  BY <1>1 DEF InFrame
<1>3. PICK n \in Nat : n = i[c]
  BY <1>1 DEF TypeOK
<1>4. m.data \in Seq(Bytes) /\ Len(m.data) \in Nat /\ BufferSize \in Nat /\ buffer \in Seq(Bytes)
  BY <1>1, HeaderByte, KissAssumption DEF TypeOK
<1>5. /\ pc'[c] = "data" /\ i'[c] = n + 1 /\ msg'[c] = m /\ last = NoFrame /\ last' = NoFrame
      /\ n >= 1 /\ n <= Len(m.data)
  BY <1>1, <1>2, <1>3, <1>4 DEF TypeOK, InFrame
<1>6. FrameIntact' /\ Resynchronised'
  BY <1>5 DEF FrameIntact, Resynchronised
<1>7. i'[c] \in 1 .. Len(msg'[c].data) + 1
  BY <1>4, <1>5
<1>8. state' \in {"READING", "UNDEFINED"}
  BY DEF Store
<1>9. ASSUME clean
      PROVE  fresh' = <<>>
  BY <1>1, <1>9 DEF InFrame
<1>10. ASSUME clean, n + 1 <= BufferSize
       PROVE  state' = "READING" /\ Holds(m, n + 1)'
  <2>1. state # "UNDEFINED" /\ Holds(m, n)
    BY <1>1, <1>2, <1>3, <1>4, <1>10 DEF InFrame
  <2>2. Len(buffer) = n
    BY <2>1 DEF Holds
  <2>3. Store(m.data[n])
    BY <1>2, <1>3, <2>1
  <2>4. state' = "READING" /\ buffer' = Append(buffer, m.data[n])
    BY <1>4, <1>10, <2>2, <2>3 DEF Store
  <2>5. m.data[n] \in Bytes
    BY <1>4, <1>5
  <2>6. /\ Len(buffer') = n + 1
        /\ \A k \in 1..n : buffer'[k] = buffer[k]
        /\ buffer'[n + 1] = m.data[n]
    BY <1>4, <2>2, <2>4, <2>5, AppendProperties
  <2>7. buffer'[1] = Header(m)
    BY <1>5, <2>1, <2>6 DEF Holds
  <2>8. \A k \in 1..n : buffer'[k + 1] = m.data[k]
    <3>1. ASSUME NEW k \in 1..n, k < n
          PROVE  buffer'[k + 1] = m.data[k]
      BY <2>1, <2>6, <3>1 DEF Holds
    <3>. QED  BY <2>6, <3>1
  <2>. QED  BY <2>4, <2>6, <2>7, <2>8 DEF Holds
<1>11. ASSUME clean, n + 1 > BufferSize
       PROVE  state' = "UNDEFINED"
  <2>1. CASE n <= BufferSize
    <3>1. state # "UNDEFINED" /\ Holds(m, n)
      BY <1>1, <1>2, <1>3, <1>11, <2>1 DEF InFrame
    <3>2. ~(Len(buffer) < BufferSize)
      BY <1>4, <1>11, <3>1 DEF Holds
    <3>. QED  BY <3>1, <3>2 DEF Store
  <2>2. CASE n > BufferSize
    BY <1>1, <1>3, <1>11, <2>2 DEF InFrame
  <2>. QED  BY <1>4, <2>1, <2>2
<1>12. n + 1 \in Nat
  OBVIOUS
<1>13. InFrame(c)'
  BY <1>5, <1>7, <1>8, <1>9, <1>10, <1>11, <1>12 DEF InFrame, Holds
<1>. QED  BY <1>6, <1>13, OneClient

\* A data byte is stored, or announced with an ESC.
LEMMA SendDataInv ==
    ASSUME KissInv, NEW c \in Clients, SendData(c)
    PROVE  KissInv'
<1>1. InFrame(c) /\ TypeOK /\ pc[c] = "data" /\ turn = c /\ i[c] <= Len(msg[c].data)
  BY DEF KissInv, SendData, FrameByte, Byte
<1>2. PICK m \in Messages : m = msg[c]
  BY <1>1 DEF InFrame
<1>3. PICK n \in Nat : n = i[c]
  BY <1>1 DEF TypeOK
<1>4. m.data \in Seq(Bytes) /\ n \in 1..Len(m.data)
  BY <1>1, <1>2, <1>3, HeaderByte DEF InFrame
<1>5. m.data[n] \in Bytes
  BY <1>4
<1>6. /\ msg' = msg /\ clean' = clean /\ last' = last /\ turn' = c
      /\ state \in {"READING", "UNDEFINED"} /\ last = NoFrame
  BY <1>1 DEF SendData, FrameByte, Byte, InFrame
<1>7. CASE m.data[n] \in {KISS_END, KISS_ESC}
  <2>1. /\ hs_kiss_decoder_process(KISS_ESC) /\ KISS_ESC \in Bytes
        /\ fresh' = fresh \o Decoded(KISS_ESC)
        /\ pc' = [pc EXCEPT ![c] = "escaped"] /\ i' = i
    BY <1>2, <1>3, <1>7 DEF SendData, FrameByte, Byte, Bytes, KISS_ESC
  <2>2. fresh' = fresh \o <<>>
    <3>1. KISS_ESC # KISS_END
      BY DEF KISS_ESC, KISS_END
    <3>. QED  BY <2>1, <3>1, DecodesNothing
  <2>3. /\ state = "READING" => state' = "ESCAPED" /\ buffer' = buffer
        /\ state = "UNDEFINED" => state' = "UNDEFINED"
    BY <2>1 DEF hs_kiss_decoder_process, decoderVars, KISS_ESC, KISS_END
  <2>4. TypeOK'
    <3>1. /\ state' \in {"UNDEFINED", "READING", "ESCAPED"}
          /\ buffer' \in Seq(Bytes) /\ Len(buffer') <= BufferSize
      BY <1>1, <2>1, DecoderType
    <3>2. pc' \in [Clients -> {"idle", "header", "data", "escaped"}]
      BY <1>1, <2>1 DEF TypeOK
    <3>. QED  BY <1>1, <1>6, <2>1, <3>1, <3>2 DEF TypeOK
  <2>5. FrameIntact' /\ Resynchronised'
    BY <1>6 DEF FrameIntact, Resynchronised
  <2>6. pc'[c] = "escaped"
    BY <1>1, <2>1 DEF TypeOK
  <2>7. clean => fresh' = <<>>
    BY <1>1, <2>2 DEF InFrame
  <2>8. ASSUME clean
        PROVE  /\ i[c] <= BufferSize => state = "READING" /\ Holds(msg[c], i[c])
               /\ i[c] > BufferSize => state = "UNDEFINED"
    BY <1>1, <2>8 DEF InFrame
  <2>9. InFrame(c)'
    BY <1>1, <1>2, <1>3, <1>6, <1>7, <2>1, <2>3, <2>6, <2>7, <2>8 DEF InFrame, Holds
  <2>. QED  BY <1>1, <2>1, <2>4, <2>5, <2>9, OneClient
<1>8. CASE m.data[n] \notin {KISS_END, KISS_ESC}
  <2>1. /\ hs_kiss_decoder_process(m.data[n]) /\ fresh' = fresh \o Decoded(m.data[n])
        /\ pc' = pc /\ i' = [i EXCEPT ![c] = i[c] + 1]
    BY <1>2, <1>3, <1>8 DEF SendData, FrameByte, Byte
  <2>2. fresh' = fresh \o <<>>
    BY <1>8, <2>1, DecodesNothing
  <2>3. /\ state = "READING" => Store(m.data[n])
        /\ state = "UNDEFINED" => state' = "UNDEFINED"
    BY <1>8, <2>1 DEF hs_kiss_decoder_process, decoderVars
  <2>4. TypeOK'
    <3>1. /\ state' \in {"UNDEFINED", "READING", "ESCAPED"}
          /\ buffer' \in Seq(Bytes) /\ Len(buffer') <= BufferSize
      BY <1>1, <1>5, <2>1, DecoderType
    <3>2. i' \in [Clients -> Nat]
      BY <1>1, <2>1 DEF TypeOK
    <3>. QED  BY <1>1, <1>6, <2>1, <3>1, <3>2 DEF TypeOK
  <2>5. pc' = [pc EXCEPT ![c] = "data"]
    BY <1>1, <2>1 DEF TypeOK
  <2>6. state # "UNDEFINED" => Store(msg[c].data[i[c]])
    BY <1>2, <1>3, <1>6, <2>3
  <2>. QED  BY <1>1, <1>6, <2>1, <2>2, <2>3, <2>4, <2>5, <2>6, DataByteInv
<1>. QED  BY <1>7, <1>8

\* The second byte of an escape stands for the END or ESC in the data.
LEMMA SendEscapedInv ==
    ASSUME KissInv, NEW c \in Clients, SendEscaped(c)
    PROVE  KissInv'
<1>1. /\ InFrame(c) /\ TypeOK /\ pc[c] = "escaped" /\ turn = c /\ turn' = c
      /\ i[c] <= Len(msg[c].data)
  BY DEF KissInv, SendEscaped, FrameByte, Byte, InFrame
<1>2. PICK x : x = msg[c].data[i[c]]
  OBVIOUS
<1>3. PICK b : b = IF x = KISS_END THEN KISS_ESC_END ELSE KISS_ESC_ESC
  OBVIOUS
<1>4. /\ hs_kiss_decoder_process(b) /\ fresh' = fresh \o Decoded(b)
      /\ pc' = [pc EXCEPT ![c] = "data"] /\ i' = [i EXCEPT ![c] = i[c] + 1]
      /\ msg' = msg /\ clean' = clean /\ last' = last
  BY <1>2, <1>3 DEF SendEscaped, FrameByte, Byte
<1>5. x \in {KISS_END, KISS_ESC} /\ state \in {"ESCAPED", "UNDEFINED"}
  BY <1>1, <1>2 DEF InFrame
<1>6. b \in Bytes /\ b # KISS_END /\ b \in {KISS_ESC_END, KISS_ESC_ESC}
  BY <1>3 DEF Bytes, KISS_END, KISS_ESC_END, KISS_ESC_ESC
<1>7. fresh' = fresh \o <<>>
  BY <1>4, <1>6, DecodesNothing
<1>8. state = "UNDEFINED" => state' = "UNDEFINED"
  BY <1>4, <1>6 DEF hs_kiss_decoder_process, decoderVars
<1>9. ASSUME state = "ESCAPED" PROVE Store(x)
  <2>1. Unescape(b)
    BY <1>4, <1>9 DEF hs_kiss_decoder_process
  <2>2. KISS_END # KISS_ESC /\ KISS_ESC_END # KISS_ESC_ESC
    BY DEF KISS_END, KISS_ESC, KISS_ESC_END, KISS_ESC_ESC
  <2>. QED  BY <1>3, <1>5, <2>1, <2>2 DEF Unescape
<1>10. TypeOK'
  <2>1. /\ state' \in {"UNDEFINED", "READING", "ESCAPED"}
        /\ buffer' \in Seq(Bytes) /\ Len(buffer') <= BufferSize
    BY <1>1, <1>4, <1>6, DecoderType
  <2>2. /\ pc' \in [Clients -> {"idle", "header", "data", "escaped"}]
        /\ i' \in [Clients -> Nat]
    BY <1>1, <1>4 DEF TypeOK
  <2>. QED  BY <1>1, <1>4, <2>1, <2>2 DEF TypeOK
<1>. QED  BY <1>1, <1>2, <1>4, <1>5, <1>7, <1>8, <1>9, <1>10, DataByteInv

\* The closing END delivers the message, or finds the frame already dropped.
LEMMA SendEndInv ==
    ASSUME KissInv, NEW c \in Clients, SendEnd(c)
    PROVE  KissInv'
<1>1. /\ InFrame(c) /\ TypeOK /\ pc[c] = "data" /\ turn = c /\ turn' = c
      /\ i[c] > Len(msg[c].data)
  BY DEF KissInv, SendEnd, FrameByte, Byte
<1>2. PICK m \in Messages : m = msg[c]
  BY <1>1 DEF InFrame
<1>3. /\ hs_kiss_decoder_process(KISS_END) /\ fresh' = fresh \o Decoded(KISS_END)
      /\ pc' = [pc EXCEPT ![c] = "idle"] /\ last' = m
      /\ msg' = msg /\ i' = i /\ clean' = clean
  BY <1>2 DEF SendEnd, FrameByte, Byte
<1>4. /\ m.data \in Seq(Bytes) /\ Len(m.data) \in Nat /\ BufferSize \in Nat
      /\ buffer \in Seq(Bytes)
  BY <1>1, HeaderByte, KissAssumption DEF TypeOK
<1>5. i[c] = Len(m.data) + 1 /\ state \in {"READING", "UNDEFINED"}
  BY <1>1, <1>2, <1>4 DEF InFrame
<1>6. state' = "READING" /\ buffer' = <<>>
  BY <1>3, <1>5 DEF hs_kiss_decoder_process, KISS_END, KISS_ESC
<1>7. TypeOK'
  <2>1. buffer' \in Seq(Bytes) /\ Len(buffer') <= BufferSize
    BY <1>4, <1>6
  <2>2. pc' \in [Clients -> {"idle", "header", "data", "escaped"}]
    BY <1>1, <1>3 DEF TypeOK
  <2>. QED  BY <1>1, <1>3, <1>6, <2>1, <2>2 DEF TypeOK
<1>8. ASSUME clean
      PROVE  fresh' = IF Fits(m) THEN <<m>> ELSE <<>>
  <2>1. fresh' = Decoded(KISS_END)
    <3>1. fresh = <<>>
      BY <1>1, <1>8 DEF InFrame
    <3>2. Decoded(KISS_END) = <<Frame(buffer)>> \/ Decoded(KISS_END) = <<>>
      BY DEF Decoded
    <3>. QED  BY <1>3, <3>1, <3>2
  <2>2. CASE Fits(m)
    <3>1. state = "READING" /\ Holds(m, Len(m.data) + 1)
      BY <1>1, <1>2, <1>4, <1>5, <1>8, <2>2 DEF InFrame, Fits
    <3>. QED  BY <1>4, <2>1, <2>2, <3>1, FrameOfHolds DEF Decoded
  <2>3. CASE ~Fits(m)
    <3>1. state = "UNDEFINED"
      BY <1>1, <1>2, <1>4, <1>5, <1>8, <2>3 DEF InFrame, Fits
    <3>. QED  BY <2>1, <2>3, <3>1 DEF Decoded
  <2>. QED  BY <2>2, <2>3
<1>9. FrameIntact' /\ Resynchronised'
  BY <1>3, <1>6, <1>8 DEF FrameIntact, Resynchronised, Fits
<1>. QED  BY <1>1, <1>3, <1>7, <1>9, OneClient

-----------------------------------------------------------------------------
(***************************************************************************)
(* Theorems                                                                *)
(***************************************************************************)
\* While nobody's bytes come between the bytes of a frame, the decoder follows
\* the encoder of the client in session: KissInv is inductive.
THEOREM DecoderFollowsEncoder ==
    ASSUME Undisturbed
    PROVE  Spec => []KissInv
<1>1. KissInv /\ [Next]_vars => KissInv'
  <2>. SUFFICES ASSUME KissInv, [Next]_vars PROVE KissInv'
    OBVIOUS
  <2>1. CASE Next
    <3>1. PICK c \in Clients : Client(c)
      BY <2>1 DEF Next
    <3>. QED  BY <3>1, SessionInv, SendNoiseInv, SendStartInv, SendHeaderInv, SendDataInv,
                 SendEscapedInv, SendEndInv DEF Client
  <2>2. CASE UNCHANGED vars
    BY <2>2 DEF vars, decoderVars, clientVars, historyVars, KissInv, TypeOK, FrameIntact,
                Resynchronised, Fits, InFrame, Holds
  <2>. QED  BY <2>1, <2>2
<1>. QED  BY <1>1, KissInit, PTL DEF Spec

\* hs_kiss_decoder_process undoes hs_kiss_encode for every message and every
\* buffer size: a frame that fits is delivered unchanged and alone, one that does
\* not is dropped whole, and neither depends on what the decoder read before.
THEOREM FramesIntact ==
    ASSUME Undisturbed
    PROVE  Spec => []FrameIntact
<1>1. KissInv => FrameIntact
  BY DEF KissInv
<1>. QED  BY <1>1, DecoderFollowsEncoder, PTL

\* After every frame, dropped or damaged ones included, the decoder is ready for
\* the next one.
THEOREM AlwaysResynchronised ==
    ASSUME Undisturbed
    PROVE  Spec => []Resynchronised
<1>1. KissInv => Resynchronised
  BY DEF KissInv
<1>. QED  BY <1>1, DecoderFollowsEncoder, PTL

-----------------------------------------------------------------------------
(***************************************************************************)
(* However the sessions of any number of clients cut and mix their frames  *)
(***************************************************************************)
\* A client in the middle of a frame has a message and an index into it.
Encoding == \A c \in Clients : pc[c] # "idle" => msg[c] \in Messages /\ i[c] >= 1

\* A byte that leaves the encoder's variables in their types leaves all of the
\* state in its types.
LEMMA ByteType ==
    ASSUME TypeOK, NEW c \in Clients, NEW b \in Bytes, Byte(c, b),
           pc' \in [Clients -> {"idle", "header", "data", "escaped"}],
           msg' \in [Clients -> Messages \cup {NoFrame}], i' \in [Clients -> Nat],
           clean' \in BOOLEAN, last' \in Messages \cup {NoFrame}
    PROVE  TypeOK'
<1>1. turn' \in Clients \cup {Nobody} /\ hs_kiss_decoder_process(b)
  BY DEF TypeOK, Byte
<1>2. /\ state' \in {"UNDEFINED", "READING", "ESCAPED"}
      /\ buffer' \in Seq(Bytes) /\ Len(buffer') <= BufferSize
  BY <1>1, DecoderType
<1>. QED  BY <1>1, <1>2 DEF TypeOK

\* Whatever the clients send and however their bytes mix, the decoder never
\* stores past decoder->buffer and stays in its three states.
THEOREM BufferInBounds == Spec => []TypeOK
<1>1. Init => TypeOK /\ Encoding
  BY KissInit DEF KissInv, Init, Encoding
<1>2. TypeOK /\ Encoding /\ [Next]_vars => TypeOK' /\ Encoding'
  <2>. SUFFICES ASSUME TypeOK, Encoding, [Next]_vars PROVE TypeOK' /\ Encoding'
    OBVIOUS
  <2>1. CASE UNCHANGED vars
    BY <2>1 DEF vars, decoderVars, clientVars, historyVars, TypeOK, Encoding
  <2>2. ASSUME NEW c \in Clients, Start(c) \/ End(c)
        PROVE  TypeOK' /\ Encoding'
    BY <2>2 DEF Start, End, decoderVars, clientVars, historyVars, TypeOK, Encoding
  <2>3. ASSUME NEW c \in Clients, NEW b \in Noise, SendNoise(c, b)
        PROVE  TypeOK' /\ Encoding'
    <3>1. b \in Bytes /\ Byte(c, b) /\ UNCHANGED <<pc, msg, i, clean>> /\ last' = NoFrame
      BY <2>3, KissAssumption DEF SendNoise, clientVars
    <3>2. Encoding'
      BY <3>1 DEF Encoding
    <3>. QED  BY <3>1, <3>2, ByteType DEF TypeOK
  <2>4. ASSUME NEW c \in Clients, NEW m \in Messages, SendStart(c, m)
        PROVE  TypeOK' /\ Encoding'
    <3>1. KISS_END \in Bytes /\ Byte(c, KISS_END)
      BY <2>4 DEF SendStart, Bytes, KISS_END
    <3>2. /\ pc' \in [Clients -> {"idle", "header", "data", "escaped"}]
          /\ msg' \in [Clients -> Messages \cup {NoFrame}] /\ i' \in [Clients -> Nat]
      BY <2>4 DEF TypeOK, SendStart
    <3>3. clean' \in BOOLEAN /\ last' \in Messages \cup {NoFrame}
      BY <2>4, Zenon DEF SendStart
    <3>4. Encoding'
      BY <2>4 DEF TypeOK, Encoding, SendStart
    <3>. QED  BY <3>1, <3>2, <3>3, <3>4, ByteType
  <2>5. ASSUME NEW c \in Clients, SendHeader(c)
        PROVE  TypeOK' /\ Encoding'
    <3>1. Header(msg[c]) \in Bytes /\ Byte(c, Header(msg[c]))
      BY <2>5, HeaderByte DEF Encoding, SendHeader, FrameByte
    <3>2. pc' \in [Clients -> {"idle", "header", "data", "escaped"}]
      BY <2>5 DEF TypeOK, SendHeader
    <3>3. Encoding'
      BY <2>5 DEF TypeOK, Encoding, SendHeader
    <3>. QED  BY <2>5, <3>1, <3>2, <3>3, ByteType DEF TypeOK, SendHeader
  <2>6. ASSUME NEW c \in Clients, SendData(c)
        PROVE  TypeOK' /\ Encoding'
    <3>1. PICK m \in Messages : m = msg[c]
      BY <2>6 DEF Encoding, SendData
    <3>2. PICK n \in Nat : n = i[c] /\ n >= 1
      BY <2>6 DEF TypeOK, Encoding, SendData
    <3>3. m.data \in Seq(Bytes) /\ n <= Len(m.data)
      BY <2>6, <3>1, <3>2, HeaderByte DEF SendData
    <3>4. m.data[n] \in Bytes /\ KISS_ESC \in Bytes
      <4>1. KISS_ESC \in Bytes
        BY DEF Bytes, KISS_ESC
      <4>. QED  BY <3>2, <3>3, <4>1
    <3>5. PICK b \in Bytes : Byte(c, b)
      BY <2>6, <3>1, <3>2, <3>4 DEF SendData, FrameByte
    <3>6. /\ pc' = pc \/ pc' = [pc EXCEPT ![c] = "escaped"]
          /\ i' = i \/ i' = [i EXCEPT ![c] = i[c] + 1]
          /\ pc[c] = "data" /\ UNCHANGED <<msg, clean, last>>
      BY <2>6 DEF SendData
    <3>7. /\ pc' \in [Clients -> {"idle", "header", "data", "escaped"}]
          /\ i' \in [Clients -> Nat]
      <4>1. pc' \in [Clients -> {"idle", "header", "data", "escaped"}]
        BY <3>6 DEF TypeOK
      <4>2. [i EXCEPT ![c] = i[c] + 1] \in [Clients -> Nat] /\ i \in [Clients -> Nat]
        BY DEF TypeOK
      <4>. QED  BY <3>6, <4>1, <4>2
    <3>8. Encoding'
      BY <3>2, <3>6 DEF TypeOK, Encoding
    <3>. QED  BY <3>5, <3>6, <3>7, <3>8, ByteType DEF TypeOK
  <2>7. ASSUME NEW c \in Clients, SendEscaped(c)
        PROVE  TypeOK' /\ Encoding'
    <3>1. KISS_ESC_END \in Bytes /\ KISS_ESC_ESC \in Bytes
      BY DEF Bytes, KISS_ESC_END, KISS_ESC_ESC
    <3>2. PICK b \in Bytes : Byte(c, b)
      BY <2>7, <3>1 DEF SendEscaped, FrameByte
    <3>3. /\ pc' = [pc EXCEPT ![c] = "data"] /\ i' = [i EXCEPT ![c] = i[c] + 1]
          /\ pc[c] = "escaped" /\ UNCHANGED <<msg, clean, last>>
      BY <2>7 DEF SendEscaped
    <3>4. /\ pc' \in [Clients -> {"idle", "header", "data", "escaped"}]
          /\ i' \in [Clients -> Nat]
      BY <3>3 DEF TypeOK
    <3>5. Encoding'
      BY <3>3 DEF TypeOK, Encoding
    <3>. QED  BY <3>2, <3>3, <3>4, <3>5, ByteType DEF TypeOK
  <2>8. ASSUME NEW c \in Clients, SendEnd(c)
        PROVE  TypeOK' /\ Encoding'
    <3>1. KISS_END \in Bytes /\ Byte(c, KISS_END)
      BY <2>8 DEF SendEnd, FrameByte, Bytes, KISS_END
    <3>2. /\ pc' = [pc EXCEPT ![c] = "idle"] /\ last' = msg[c]
          /\ UNCHANGED <<msg, i, clean>>
      BY <2>8 DEF SendEnd
    <3>3. /\ pc' \in [Clients -> {"idle", "header", "data", "escaped"}]
          /\ last' \in Messages \cup {NoFrame}
      BY <3>2 DEF TypeOK
    <3>4. Encoding'
      BY <3>2 DEF TypeOK, Encoding
    <3>. QED  BY <3>1, <3>2, <3>3, <3>4, ByteType DEF TypeOK
  <2>. QED  BY <2>1, <2>2, <2>3, <2>4, <2>5, <2>6, <2>7, <2>8 DEF Next, Client
<1>. QED  BY <1>1, <1>2, PTL DEF Spec
=============================================================================
