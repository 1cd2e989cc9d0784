------------------------------ MODULE WireProofs ------------------------------
(***************************************************************************)
(* Proofs about the wire format (WireFormat): what encode writes, decode   *)
(* reads back, for every message, every value of its fields and any end of *)
(* the frame that is lost or added. Numbers and the bytes they are made of *)
(* come first, then each payload by itself - those of a fixed size, those  *)
(* that end in a list or in data, those with a text that may have to be    *)
(* cut - then the header and the frame.                                    *)
(***************************************************************************)
EXTENDS WireFormat, SequenceFacts

-----------------------------------------------------------------------------
(* Numbers                                                                 *)

\* A number of two bytes, a number of four, and a signed one are what their bytes say.
LEMMA WordOf ==
    ASSUME NEW v \in Word
    PROVE  High(v) \in Octet /\ Low(v) \in Octet /\ 256 * High(v) + Low(v) = v
<1>1. v \in Nat /\ v <= 65535
  BY DEF Word
<1>2. \A c \in Nat : c % 256 \in 0..255 /\ c = (c \div 256) * 256 + (c % 256) /\ c \div 256 \in Int
  OBVIOUS
<1> DEFINE q == v \div 256
           d == v % 256
<1>3. q \in Int /\ d \in 0..255 /\ v = q * 256 + d
  BY <1>1, <1>2
<1> HIDE DEF q, d
<1>4. q \in 0..255 /\ 256 * q + d = v
  BY <1>1, <1>3
<1> QED BY <1>3, <1>4 DEF High, Low, Octet, q, d

\* A number of four bytes is made of two of two bytes.
LEMMA LongOf ==
    ASSUME NEW v \in Long
    PROVE  /\ v \div 65536 \in Word /\ v % 65536 \in Word
           /\ 65536 * (v \div 65536) + (v % 65536) = v
<1>1. v \in Nat /\ v \div 65536 \in Word
  BY DEF Long
<1>2. v \in Nat
  BY <1>1
<1>3. v % 65536 \in Word
  BY <1>2 DEF Word
<1>4. 65536 * (v \div 65536) + (v % 65536) = v
  BY <1>2
<1> QED BY <1>1, <1>3, <1>4

\* The remainder of a negative number.
LEMMA NegativeOf ==
    ASSUME NEW S \in Nat, S > 0, NEW v \in Int, v < 0, v + S >= 0
    PROVE  v % S = v + S
  OBVIOUS

\* A signed number of two bytes is the remainder it is sent as, read as signed.
LEMMA SignedOf ==
    ASSUME NEW v \in SignedWord
    PROVE  /\ v % 65536 \in Word
           /\ v = IF v % 65536 < 32768 THEN v % 65536 ELSE (v % 65536) - 65536
<1>1. v \in Int /\ v >= -32768 /\ v < 32768
  BY DEF SignedWord
<1>2. ASSUME v >= 0 PROVE v % 65536 = v
  BY <1>1, <1>2
<1>3. ASSUME v < 0 PROVE v % 65536 = v + 65536
  <2>1. 65536 \in Nat /\ 65536 > 0 /\ v + 65536 >= 0
    BY <1>1
  <2> QED BY <1>1, <1>3, <2>1, NegativeOf
<1> QED BY <1>1, <1>2, <1>3 DEF Word

-----------------------------------------------------------------------------
(* Reading                                                                 *)

\* b is e, as far as the shorter of them goes.
Agree(b, e) == Len(b) \in Nat /\ \A k \in 1..Len(e) : k <= Len(b) => b[k] = e[k]

\* The bytes of a number are at a place.
Has16(b, at, v) == b[at + 1] = High(v) /\ b[at + 2] = Low(v)
Has32(b, at, v) == Has16(b, at, v \div 65536) /\ Has16(b, at + 2, v % 65536)

\* Reader::u16 reads the number whose bytes are there.
LEMMA Reads16 ==
    ASSUME NEW b, NEW at, NEW v \in Word, Has16(b, at, v)
    PROVE  Read16(b, at) = v
  BY WordOf DEF Has16, Read16

\* Reader::u32, likewise.
LEMMA Reads32 ==
    ASSUME NEW b, NEW at, NEW v \in Long, Has32(b, at, v)
    PROVE  Read32(b, at) = v
  BY LongOf, Reads16 DEF Has32, Read32

\* Reader::i16, likewise.
LEMMA ReadsI16 ==
    ASSUME NEW b, NEW at, NEW v \in SignedWord, Has16(b, at, v % 65536)
    PROVE  ReadI16(b, at) = v
<1>1. Read16(b, at) = v % 65536
  BY SignedOf, Reads16
<1> QED BY <1>1, SignedOf DEF ReadI16

\* What decode_payload makes of bytes that are encode_payload's, or the start of them:
\* what fits of the payload, or nothing exactly if a byte it reads is missing.
Reads(p, b) ==
    /\ EncodePayload(p) \in Seq(Octet) /\ Len(EncodePayload(p)) \in Nat
    /\ DecodePayload(CodeOf(p), b) =
            IF Len(b) >= Len(EncodePayload(p)) - Unread(p) THEN Fitting(p) ELSE Refused

\* Both halves of v are bytes.
Octets(v) == High(v) \in Octet /\ Low(v) \in Octet

\* A flag is read from the bit it was written to.
LEMMA BitOf == \A c \in BOOLEAN : BitSet(Bit(c), 1) = c
  BY DEF Bit, BitSet

\* MessageType::from_u8 knows every type by its code.
LEMMA CodesOf ==
    /\ \A t \in DOMAIN TypeCode : FromU8(TypeCode[t]) = t /\ TypeCode[t] \in Octet
  BY DEF FromU8, TypeCode, Octet

-----------------------------------------------------------------------------
(* Payloads of a fixed size                                                *)

\* Payload::Ping is read back as it was written.
LEMMA PingReads ==
    ASSUME NEW p \in [type : {"Ping"}, token : Long],
           NEW b, Agree(b, EncodePayload(p))
    PROVE  Reads(p, b)
<1> DEFINE e == EncodePayload(p)
           read == [type |-> "Ping", token |-> Read32(b, 0)]
<1>1. /\ p.type = "Ping"
      /\ p = [type |-> "Ping", token |-> p.token]
      /\ p.token \in Long
  OBVIOUS
<1>2. e = U32(p.token)
  <2>1. e = EncodeSession(p)
    BY <1>1 DEF EncodePayload, SessionTypes, InputTypes, VideoTypes
  <2> QED BY <1>1, <2>1 DEF EncodeSession
<1>3. /\ Len(e) = 4
      /\ Has32(e, 0, p.token)
  BY <1>2 DEF U16, U32, Has32, Has16
<1>4. e \in Seq(Octet)
  <2>1. Octets(p.token \div 65536) /\ Octets(p.token % 65536)
    BY <1>1, WordOf, LongOf DEF Octets, Octet
  <2> QED BY <1>2, <2>1 DEF Octets, U16, U32
<1>5. FromU8(CodeOf(p)) = "Ping"
  BY <1>1, CodesOf DEF CodeOf, TypeCode
<1>6. DecodePayload(CodeOf(p), b) = Checked(b, 4, TRUE, read)
  <2>1. DecodePayload(CodeOf(p), b) = DecodeSession("Ping", b)
    BY <1>5 DEF DecodePayload, SessionTypes
  <2> QED BY <2>1 DEF DecodeSession
<1>7. ASSUME Len(b) >= 4 PROVE read = p
  <2>1. Has32(b, 0, p.token)
    BY <1>3, <1>7 DEF Agree, Has16, Has32
  <2>2. Read32(b, 0) = p.token
    BY <1>1, <2>1, Reads32
  <2> QED BY <1>1, <2>2
<1>8. Fitting(p) = p
  BY <1>1 DEF Fitting, Opaque, SessionTypes, InputTypes, VideoTypes
<1> HIDE DEF read
<1>u. Unread(p) = 0
  BY <1>1 DEF Unread
<1> QED BY <1>3, <1>6, <1>7, <1>8, <1>4, <1>u DEF Reads, Checked, Agree

\* Payload::Pong is read back as it was written.
LEMMA PongReads ==
    ASSUME NEW p \in [type : {"Pong"}, token : Long, host_delay_us : Word],
           NEW b, Agree(b, EncodePayload(p))
    PROVE  Reads(p, b)
<1> DEFINE e == EncodePayload(p)
           read == [type |-> "Pong", token |-> Read32(b, 0), host_delay_us |-> Read16(b, 4)]
<1>1. /\ p.type = "Pong"
      /\ p = [type |-> "Pong", token |-> p.token, host_delay_us |-> p.host_delay_us]
      /\ p.token \in Long /\ p.host_delay_us \in Word
  OBVIOUS
<1>2. e = U32(p.token) \o U16(p.host_delay_us) \o <<0, 0>>
  <2>1. e = EncodeSession(p)
    BY <1>1 DEF EncodePayload, SessionTypes, InputTypes, VideoTypes
  <2> QED BY <1>1, <2>1 DEF EncodeSession
<1>3. /\ Len(e) = 8
      /\ Has32(e, 0, p.token) /\ Has16(e, 4, p.host_delay_us)
  BY <1>2 DEF U16, U32, Has32, Has16
<1>4. e \in Seq(Octet)
  <2>1. /\ Octets(p.token \div 65536) /\ Octets(p.token % 65536) /\ Octets(p.host_delay_us)
        /\ 0 \in Octet
    BY <1>1, WordOf, LongOf DEF Octets, Octet
  <2> QED BY <1>2, <2>1 DEF Octets, U16, U32
<1>5. FromU8(CodeOf(p)) = "Pong"
  BY <1>1, CodesOf DEF CodeOf, TypeCode
<1>6. DecodePayload(CodeOf(p), b) = Checked(b, 6, TRUE, read)
  <2>1. DecodePayload(CodeOf(p), b) = DecodeSession("Pong", b)
    BY <1>5 DEF DecodePayload, SessionTypes
  <2> QED BY <2>1 DEF DecodeSession
<1>7. ASSUME Len(b) >= 6 PROVE read = p
  <2>1. Has32(b, 0, p.token) /\ Has16(b, 4, p.host_delay_us)
    BY <1>3, <1>7 DEF Agree, Has16, Has32
  <2>2. Read32(b, 0) = p.token /\ Read16(b, 4) = p.host_delay_us
    BY <1>1, <2>1, Reads16, Reads32
  <2> QED BY <1>1, <2>2
<1>8. Fitting(p) = p
  BY <1>1 DEF Fitting, Opaque, SessionTypes, InputTypes, VideoTypes
<1> HIDE DEF read
<1>u. Unread(p) = 2
  BY <1>1 DEF Unread
<1> QED BY <1>3, <1>6, <1>7, <1>8, <1>4, <1>u DEF Reads, Checked, Agree

\* Payload::EndSession is read back as it was written.
LEMMA EndSessionReads ==
    ASSUME NEW p \in [type : {"EndSession"}, code : Word],
           NEW b, Agree(b, EncodePayload(p))
    PROVE  Reads(p, b)
<1> DEFINE e == EncodePayload(p)
           read == [type |-> "EndSession", code |-> Read16(b, 0)]
<1>1. /\ p.type = "EndSession"
      /\ p = [type |-> "EndSession", code |-> p.code]
      /\ p.code \in Word
  OBVIOUS
<1>2. e = U16(p.code)
  <2>1. e = EncodeSession(p)
    BY <1>1 DEF EncodePayload, SessionTypes, InputTypes, VideoTypes
  <2> QED BY <1>1, <2>1 DEF EncodeSession
<1>3. /\ Len(e) = 2
      /\ Has16(e, 0, p.code)
  BY <1>2 DEF U16, Has16
<1>4. e \in Seq(Octet)
  <2>1. Octets(p.code)
    BY <1>1, WordOf DEF Octets, Octet
  <2> QED BY <1>2, <2>1 DEF Octets, U16
<1>5. FromU8(CodeOf(p)) = "EndSession"
  BY <1>1, CodesOf DEF CodeOf, TypeCode
<1>6. DecodePayload(CodeOf(p), b) = Checked(b, 2, TRUE, read)
  <2>1. DecodePayload(CodeOf(p), b) = DecodeSession("EndSession", b)
    BY <1>5 DEF DecodePayload, SessionTypes
  <2> QED BY <2>1 DEF DecodeSession
<1>7. ASSUME Len(b) >= 2 PROVE read = p
  <2>1. Has16(b, 0, p.code)
    BY <1>3, <1>7 DEF Agree, Has16
  <2>2. Read16(b, 0) = p.code
    BY <1>1, <2>1, Reads16
  <2> QED BY <1>1, <2>2
<1>8. Fitting(p) = p
  BY <1>1 DEF Fitting, Opaque, SessionTypes, InputTypes, VideoTypes
<1> HIDE DEF read
<1>u. Unread(p) = 0
  BY <1>1 DEF Unread
<1> QED BY <1>3, <1>6, <1>7, <1>8, <1>4, <1>u DEF Reads, Checked, Agree

\* Payload::QosReport is read back as it was written.
LEMMA QosReportReads ==
    ASSUME NEW p \in [type : {"QosReport"}, rtt_ms : Word, jitter_ms : Word, loss_permille : Word,
                      frames_decoded : Word, frames_dropped : Word, render_fps_q8 : Word,
                      playout_delay_ms : Word, decode_time_us : Word],
           NEW b, Agree(b, EncodePayload(p))
    PROVE  Reads(p, b)
<1> DEFINE e == EncodePayload(p)
           read == [type |-> "QosReport", rtt_ms |-> Read16(b, 0), jitter_ms |-> Read16(b, 2),
                    loss_permille |-> Read16(b, 4), frames_decoded |-> Read16(b, 6),
                    frames_dropped |-> Read16(b, 8), render_fps_q8 |-> Read16(b, 10),
                    playout_delay_ms |-> Read16(b, 12), decode_time_us |-> Read16(b, 14)]
<1>1. /\ p.type = "QosReport"
      /\ p = [type |-> "QosReport", rtt_ms |-> p.rtt_ms, jitter_ms |-> p.jitter_ms,
              loss_permille |-> p.loss_permille, frames_decoded |-> p.frames_decoded,
              frames_dropped |-> p.frames_dropped, render_fps_q8 |-> p.render_fps_q8,
              playout_delay_ms |-> p.playout_delay_ms, decode_time_us |-> p.decode_time_us]
      /\ p.rtt_ms \in Word /\ p.jitter_ms \in Word /\ p.loss_permille \in Word
      /\ p.frames_decoded \in Word /\ p.frames_dropped \in Word /\ p.render_fps_q8 \in Word
      /\ p.playout_delay_ms \in Word /\ p.decode_time_us \in Word
  OBVIOUS
<1>2. e = U16(p.rtt_ms) \o U16(p.jitter_ms) \o U16(p.loss_permille) \o U16(p.frames_decoded)
         \o U16(p.frames_dropped) \o U16(p.render_fps_q8) \o U16(p.playout_delay_ms) \o U16(p.decode_time_us)
  <2>1. e = EncodeSession(p)
    BY <1>1 DEF EncodePayload, SessionTypes, InputTypes, VideoTypes
  <2> QED BY <1>1, <2>1 DEF EncodeSession
<1>3. /\ Len(e) = 16
      /\ Has16(e, 0, p.rtt_ms) /\ Has16(e, 2, p.jitter_ms) /\ Has16(e, 4, p.loss_permille)
      /\ Has16(e, 6, p.frames_decoded) /\ Has16(e, 8, p.frames_dropped)
      /\ Has16(e, 10, p.render_fps_q8) /\ Has16(e, 12, p.playout_delay_ms)
      /\ Has16(e, 14, p.decode_time_us)
  BY <1>2 DEF U16, Has16
<1>4. e \in Seq(Octet)
  <2>1. /\ Octets(p.rtt_ms) /\ Octets(p.jitter_ms) /\ Octets(p.loss_permille)
        /\ Octets(p.frames_decoded) /\ Octets(p.frames_dropped) /\ Octets(p.render_fps_q8)
        /\ Octets(p.playout_delay_ms) /\ Octets(p.decode_time_us)
    BY <1>1, WordOf DEF Octets, Octet
  <2> QED BY <1>2, <2>1 DEF Octets, U16
<1>5. FromU8(CodeOf(p)) = "QosReport"
  BY <1>1, CodesOf DEF CodeOf, TypeCode
<1>6. DecodePayload(CodeOf(p), b) = Checked(b, 16, TRUE, read)
  <2>1. DecodePayload(CodeOf(p), b) = DecodeSession("QosReport", b)
    BY <1>5 DEF DecodePayload, SessionTypes
  <2> QED BY <2>1 DEF DecodeSession
<1>7. ASSUME Len(b) >= 16 PROVE read = p
  <2>1. /\ Has16(b, 0, p.rtt_ms) /\ Has16(b, 2, p.jitter_ms) /\ Has16(b, 4, p.loss_permille)
        /\ Has16(b, 6, p.frames_decoded) /\ Has16(b, 8, p.frames_dropped)
        /\ Has16(b, 10, p.render_fps_q8) /\ Has16(b, 12, p.playout_delay_ms)
        /\ Has16(b, 14, p.decode_time_us)
    BY <1>3, <1>7 DEF Agree, Has16
  <2>2. /\ Read16(b, 0) = p.rtt_ms /\ Read16(b, 2) = p.jitter_ms /\ Read16(b, 4) = p.loss_permille
        /\ Read16(b, 6) = p.frames_decoded /\ Read16(b, 8) = p.frames_dropped
        /\ Read16(b, 10) = p.render_fps_q8 /\ Read16(b, 12) = p.playout_delay_ms
        /\ Read16(b, 14) = p.decode_time_us
    BY <1>1, <2>1, Reads16
  <2> QED BY <1>1, <2>2
<1>8. Fitting(p) = p
  BY <1>1 DEF Fitting, Opaque, SessionTypes, InputTypes, VideoTypes
<1> HIDE DEF read
<1>u. Unread(p) = 0
  BY <1>1 DEF Unread
<1> QED BY <1>3, <1>6, <1>7, <1>8, <1>4, <1>u DEF Reads, Checked, Agree

\* Payload::MouseMove is read back as it was written.
LEMMA MouseMoveReads ==
    ASSUME NEW p \in [type : {"MouseMove"}, display_id : Octet, flags : Octet, x_norm : Word,
                      y_norm : Word, modifiers : Word],
           NEW b, Agree(b, EncodePayload(p))
    PROVE  Reads(p, b)
<1> DEFINE e == EncodePayload(p)
           read == [type |-> "MouseMove", display_id |-> Read8(b, 0), flags |-> Read8(b, 1),
                    x_norm |-> Read16(b, 2), y_norm |-> Read16(b, 4), modifiers |-> Read16(b, 6)]
<1>1. /\ p.type = "MouseMove"
      /\ p = [type |-> "MouseMove", display_id |-> p.display_id, flags |-> p.flags,
              x_norm |-> p.x_norm, y_norm |-> p.y_norm, modifiers |-> p.modifiers]
      /\ p.display_id \in Octet /\ p.flags \in Octet /\ p.x_norm \in Word /\ p.y_norm \in Word
      /\ p.modifiers \in Word
  OBVIOUS
<1>2. e = <<p.display_id, p.flags>> \o U16(p.x_norm) \o U16(p.y_norm) \o U16(p.modifiers)
  <2>1. e = EncodeInput(p)
    BY <1>1 DEF EncodePayload, SessionTypes, InputTypes, VideoTypes
  <2> QED BY <1>1, <2>1 DEF EncodeInput
<1>3. /\ Len(e) = 8
      /\ e[1] = p.display_id /\ e[2] = p.flags /\ Has16(e, 2, p.x_norm) /\ Has16(e, 4, p.y_norm)
      /\ Has16(e, 6, p.modifiers)
  BY <1>2 DEF U16, Has16
<1>4. e \in Seq(Octet)
  <2>1. /\ p.display_id \in Octet /\ p.flags \in Octet /\ Octets(p.x_norm) /\ Octets(p.y_norm)
        /\ Octets(p.modifiers)
    BY <1>1, WordOf DEF Octets, Octet
  <2> QED BY <1>2, <2>1 DEF Octets, U16
<1>5. FromU8(CodeOf(p)) = "MouseMove"
  BY <1>1, CodesOf DEF CodeOf, TypeCode
<1>6. DecodePayload(CodeOf(p), b) = Checked(b, 8, TRUE, read)
  <2>1. DecodePayload(CodeOf(p), b) = DecodePointer("MouseMove", b)
    BY <1>5 DEF DecodePayload, SessionTypes
  <2> QED BY <2>1 DEF DecodePointer
<1>7. ASSUME Len(b) >= 8 PROVE read = p
  <2>1. /\ b[1] = p.display_id /\ b[2] = p.flags /\ Has16(b, 2, p.x_norm) /\ Has16(b, 4, p.y_norm)
        /\ Has16(b, 6, p.modifiers)
    BY <1>3, <1>7 DEF Agree, Has16
  <2>2. /\ Read8(b, 0) = p.display_id /\ Read8(b, 1) = p.flags /\ Read16(b, 2) = p.x_norm
        /\ Read16(b, 4) = p.y_norm /\ Read16(b, 6) = p.modifiers
    BY <1>1, <2>1, Reads16 DEF Read8
  <2> QED BY <1>1, <2>2
<1>8. Fitting(p) = p
  BY <1>1 DEF Fitting, Opaque, SessionTypes, InputTypes, VideoTypes
<1> HIDE DEF read
<1>u. Unread(p) = 0
  BY <1>1 DEF Unread
<1> QED BY <1>3, <1>6, <1>7, <1>8, <1>4, <1>u DEF Reads, Checked, Agree

\* Payload::MouseMoveRelative is read back as it was written.
LEMMA MouseMoveRelativeReads ==
    ASSUME NEW p \in [type : {"MouseMoveRelative"}, dx : SignedWord, dy : SignedWord,
                      modifiers : Word, display_id : Octet],
           NEW b, Agree(b, EncodePayload(p))
    PROVE  Reads(p, b)
<1> DEFINE e == EncodePayload(p)
           read == [type |-> "MouseMoveRelative", dx |-> ReadI16(b, 0), dy |-> ReadI16(b, 2),
                    modifiers |-> Read16(b, 4), display_id |-> Read8(b, 6)]
<1>1. /\ p.type = "MouseMoveRelative"
      /\ p = [type |-> "MouseMoveRelative", dx |-> p.dx, dy |-> p.dy, modifiers |-> p.modifiers,
              display_id |-> p.display_id]
      /\ p.dx \in SignedWord /\ p.dy \in SignedWord /\ p.modifiers \in Word
      /\ p.display_id \in Octet
  OBVIOUS
<1>2. e = I16(p.dx) \o I16(p.dy) \o U16(p.modifiers) \o <<p.display_id, 0>>
  <2>1. e = EncodeInput(p)
    BY <1>1 DEF EncodePayload, SessionTypes, InputTypes, VideoTypes
  <2> QED BY <1>1, <2>1 DEF EncodeInput
<1>3. /\ Len(e) = 8
      /\ Has16(e, 0, p.dx % 65536) /\ Has16(e, 2, p.dy % 65536) /\ Has16(e, 4, p.modifiers)
      /\ e[7] = p.display_id
  BY <1>2 DEF U16, I16, Has16
<1>4. e \in Seq(Octet)
  <2>1. /\ Octets(p.dx % 65536) /\ Octets(p.dy % 65536) /\ Octets(p.modifiers)
        /\ p.display_id \in Octet /\ 0 \in Octet
    BY <1>1, WordOf, SignedOf DEF Octets, Octet
  <2> QED BY <1>2, <2>1 DEF Octets, U16, I16
<1>5. FromU8(CodeOf(p)) = "MouseMoveRelative"
  BY <1>1, CodesOf DEF CodeOf, TypeCode
<1>6. DecodePayload(CodeOf(p), b) = Checked(b, 8, TRUE, read)
  <2>1. DecodePayload(CodeOf(p), b) = DecodePointer("MouseMoveRelative", b)
    BY <1>5 DEF DecodePayload, SessionTypes
  <2> QED BY <2>1 DEF DecodePointer
<1>7. ASSUME Len(b) >= 8 PROVE read = p
  <2>1. /\ Has16(b, 0, p.dx % 65536) /\ Has16(b, 2, p.dy % 65536) /\ Has16(b, 4, p.modifiers)
        /\ b[7] = p.display_id
    BY <1>3, <1>7 DEF Agree, Has16
  <2>2. /\ ReadI16(b, 0) = p.dx /\ ReadI16(b, 2) = p.dy /\ Read16(b, 4) = p.modifiers
        /\ Read8(b, 6) = p.display_id
    BY <1>1, <2>1, Reads16, ReadsI16 DEF Read8
  <2> QED BY <1>1, <2>2
<1>8. Fitting(p) = p
  BY <1>1 DEF Fitting, Opaque, SessionTypes, InputTypes, VideoTypes
<1> HIDE DEF read
<1>u. Unread(p) = 0
  BY <1>1 DEF Unread
<1> QED BY <1>3, <1>6, <1>7, <1>8, <1>4, <1>u DEF Reads, Checked, Agree

\* Payload::MouseButton is read back as it was written.
LEMMA MouseButtonReads ==
    ASSUME NEW p \in [type : {"MouseButton"}, button : 1..5, action : 0..1, x_norm : Word,
                      y_norm : Word, modifiers : Word, display_id : Octet, click_count : 1..3],
           NEW b, Agree(b, EncodePayload(p))
    PROVE  Reads(p, b)
<1> DEFINE e == EncodePayload(p)
           read == [type |-> "MouseButton", button |-> Read8(b, 0), action |-> Read8(b, 1),
                    x_norm |-> Read16(b, 2), y_norm |-> Read16(b, 4), modifiers |-> Read16(b, 6),
                    display_id |-> Read8(b, 8), click_count |-> Read8(b, 9)]
<1>1. /\ p.type = "MouseButton"
      /\ p = [type |-> "MouseButton", button |-> p.button, action |-> p.action, x_norm |-> p.x_norm,
              y_norm |-> p.y_norm, modifiers |-> p.modifiers, display_id |-> p.display_id,
              click_count |-> p.click_count]
      /\ p.button \in 1..5 /\ p.action \in 0..1 /\ p.x_norm \in Word /\ p.y_norm \in Word
      /\ p.modifiers \in Word /\ p.display_id \in Octet /\ p.click_count \in 1..3
  OBVIOUS
<1>2. e = <<p.button, p.action>> \o U16(p.x_norm) \o U16(p.y_norm) \o U16(p.modifiers)
         \o <<p.display_id, p.click_count>>
  <2>1. e = EncodeInput(p)
    BY <1>1 DEF EncodePayload, SessionTypes, InputTypes, VideoTypes
  <2> QED BY <1>1, <2>1 DEF EncodeInput
<1>3. /\ Len(e) = 10
      /\ e[1] = p.button /\ e[2] = p.action /\ Has16(e, 2, p.x_norm) /\ Has16(e, 4, p.y_norm)
      /\ Has16(e, 6, p.modifiers) /\ e[9] = p.display_id /\ e[10] = p.click_count
  BY <1>2 DEF U16, Has16
<1>4. e \in Seq(Octet)
  <2>1. /\ p.button \in Octet /\ p.action \in Octet /\ Octets(p.x_norm) /\ Octets(p.y_norm)
        /\ Octets(p.modifiers) /\ p.display_id \in Octet /\ p.click_count \in Octet
    BY <1>1, WordOf DEF Octets, Octet
  <2> QED BY <1>2, <2>1 DEF Octets, U16
<1>5. FromU8(CodeOf(p)) = "MouseButton"
  BY <1>1, CodesOf DEF CodeOf, TypeCode
<1>6. DecodePayload(CodeOf(p), b) = 
        Checked(b, 10, Read8(b, 0) \in 1..5 /\ Read8(b, 1) \in 0..1 /\ Read8(b, 9) \in 1..3, read)
  <2>1. DecodePayload(CodeOf(p), b) = DecodePointer("MouseButton", b)
    BY <1>5 DEF DecodePayload, SessionTypes
  <2> QED BY <2>1 DEF DecodePointer
<1>7. ASSUME Len(b) >= 10 PROVE Read8(b, 0) \in 1..5 /\ Read8(b, 1) \in 0..1 /\ Read8(b, 9) \in 1..3 /\ read = p
  <2>1. /\ b[1] = p.button /\ b[2] = p.action /\ Has16(b, 2, p.x_norm) /\ Has16(b, 4, p.y_norm)
        /\ Has16(b, 6, p.modifiers) /\ b[9] = p.display_id /\ b[10] = p.click_count
    BY <1>3, <1>7 DEF Agree, Has16
  <2>2. /\ Read8(b, 0) = p.button /\ Read8(b, 1) = p.action /\ Read16(b, 2) = p.x_norm
        /\ Read16(b, 4) = p.y_norm /\ Read16(b, 6) = p.modifiers /\ Read8(b, 8) = p.display_id
        /\ Read8(b, 9) = p.click_count
    BY <1>1, <2>1, Reads16 DEF Read8
  <2> QED BY <1>1, <2>2
<1>8. Fitting(p) = p
  BY <1>1 DEF Fitting, Opaque, SessionTypes, InputTypes, VideoTypes
<1> HIDE DEF read
<1>u. Unread(p) = 0
  BY <1>1 DEF Unread
<1> QED BY <1>3, <1>6, <1>7, <1>8, <1>4, <1>u DEF Reads, Checked, Agree

\* Payload::MouseWheel is read back as it was written.
LEMMA MouseWheelReads ==
    ASSUME NEW p \in [type : {"MouseWheel"}, delta_v : SignedWord, delta_h : SignedWord,
                      modifiers : Word, display_id : Octet, flags : Octet],
           NEW b, Agree(b, EncodePayload(p))
    PROVE  Reads(p, b)
<1> DEFINE e == EncodePayload(p)
           read == [type |-> "MouseWheel", delta_v |-> ReadI16(b, 0), delta_h |-> ReadI16(b, 2),
                    modifiers |-> Read16(b, 4), display_id |-> Read8(b, 6), flags |-> Read8(b, 7)]
<1>1. /\ p.type = "MouseWheel"
      /\ p = [type |-> "MouseWheel", delta_v |-> p.delta_v, delta_h |-> p.delta_h,
              modifiers |-> p.modifiers, display_id |-> p.display_id, flags |-> p.flags]
      /\ p.delta_v \in SignedWord /\ p.delta_h \in SignedWord /\ p.modifiers \in Word
      /\ p.display_id \in Octet /\ p.flags \in Octet
  OBVIOUS
<1>2. e = I16(p.delta_v) \o I16(p.delta_h) \o U16(p.modifiers) \o <<p.display_id, p.flags>>
  <2>1. e = EncodeInput(p)
    BY <1>1 DEF EncodePayload, SessionTypes, InputTypes, VideoTypes
  <2> QED BY <1>1, <2>1 DEF EncodeInput
<1>3. /\ Len(e) = 8
      /\ Has16(e, 0, p.delta_v % 65536) /\ Has16(e, 2, p.delta_h % 65536)
      /\ Has16(e, 4, p.modifiers) /\ e[7] = p.display_id /\ e[8] = p.flags
  BY <1>2 DEF U16, I16, Has16
<1>4. e \in Seq(Octet)
  <2>1. /\ Octets(p.delta_v % 65536) /\ Octets(p.delta_h % 65536) /\ Octets(p.modifiers)
        /\ p.display_id \in Octet /\ p.flags \in Octet
    BY <1>1, WordOf, SignedOf DEF Octets, Octet
  <2> QED BY <1>2, <2>1 DEF Octets, U16, I16
<1>5. FromU8(CodeOf(p)) = "MouseWheel"
  BY <1>1, CodesOf DEF CodeOf, TypeCode
<1>6. DecodePayload(CodeOf(p), b) = Checked(b, 8, TRUE, read)
  <2>1. DecodePayload(CodeOf(p), b) = DecodePointer("MouseWheel", b)
    BY <1>5 DEF DecodePayload, SessionTypes
  <2> QED BY <2>1 DEF DecodePointer
<1>7. ASSUME Len(b) >= 8 PROVE read = p
  <2>1. /\ Has16(b, 0, p.delta_v % 65536) /\ Has16(b, 2, p.delta_h % 65536)
        /\ Has16(b, 4, p.modifiers) /\ b[7] = p.display_id /\ b[8] = p.flags
    BY <1>3, <1>7 DEF Agree, Has16
  <2>2. /\ ReadI16(b, 0) = p.delta_v /\ ReadI16(b, 2) = p.delta_h /\ Read16(b, 4) = p.modifiers
        /\ Read8(b, 6) = p.display_id /\ Read8(b, 7) = p.flags
    BY <1>1, <2>1, Reads16, ReadsI16 DEF Read8
  <2> QED BY <1>1, <2>2
<1>8. Fitting(p) = p
  BY <1>1 DEF Fitting, Opaque, SessionTypes, InputTypes, VideoTypes
<1> HIDE DEF read
<1>u. Unread(p) = 0
  BY <1>1 DEF Unread
<1> QED BY <1>3, <1>6, <1>7, <1>8, <1>4, <1>u DEF Reads, Checked, Agree

\* Payload::KeyEvent is read back as it was written.
LEMMA KeyEventReads ==
    ASSUME NEW p \in [type : {"KeyEvent"}, usage_page : Word, usage_id : Word, action : 0..2,
                      flags : Octet, modifiers : Word],
           NEW b, Agree(b, EncodePayload(p)), ValidUsage(p.usage_page, p.usage_id)
    PROVE  Reads(p, b)
<1> DEFINE e == EncodePayload(p)
           read == [type |-> "KeyEvent", usage_page |-> Read16(b, 0), usage_id |-> Read16(b, 2),
                    action |-> Read8(b, 4), flags |-> Read8(b, 5), modifiers |-> Read16(b, 6)]
<1>1. /\ p.type = "KeyEvent"
      /\ p = [type |-> "KeyEvent", usage_page |-> p.usage_page, usage_id |-> p.usage_id,
              action |-> p.action, flags |-> p.flags, modifiers |-> p.modifiers]
      /\ p.usage_page \in Word /\ p.usage_id \in Word /\ p.action \in 0..2 /\ p.flags \in Octet
      /\ p.modifiers \in Word
  OBVIOUS
<1>2. e = U16(p.usage_page) \o U16(p.usage_id) \o <<p.action, p.flags>> \o U16(p.modifiers)
  <2>1. e = EncodeInput(p)
    BY <1>1 DEF EncodePayload, SessionTypes, InputTypes, VideoTypes
  <2> QED BY <1>1, <2>1 DEF EncodeInput
<1>3. /\ Len(e) = 8
      /\ Has16(e, 0, p.usage_page) /\ Has16(e, 2, p.usage_id) /\ e[5] = p.action /\ e[6] = p.flags
      /\ Has16(e, 6, p.modifiers)
  BY <1>2 DEF U16, Has16
<1>4. e \in Seq(Octet)
  <2>1. /\ Octets(p.usage_page) /\ Octets(p.usage_id) /\ p.action \in Octet /\ p.flags \in Octet
        /\ Octets(p.modifiers)
    BY <1>1, WordOf DEF Octets, Octet
  <2> QED BY <1>2, <2>1 DEF Octets, U16
<1>5. FromU8(CodeOf(p)) = "KeyEvent"
  BY <1>1, CodesOf DEF CodeOf, TypeCode
<1>6. DecodePayload(CodeOf(p), b) = 
        Checked(b, 8, Read8(b, 4) \in 0..2 /\ ValidUsage(Read16(b, 0), Read16(b, 2)), read)
  <2>1. DecodePayload(CodeOf(p), b) = DecodeKeys("KeyEvent", b)
    BY <1>5 DEF DecodePayload, SessionTypes
  <2> QED BY <2>1 DEF DecodeKeys
<1>7. ASSUME Len(b) >= 8 PROVE Read8(b, 4) \in 0..2 /\ ValidUsage(Read16(b, 0), Read16(b, 2)) /\ read = p
  <2>1. /\ Has16(b, 0, p.usage_page) /\ Has16(b, 2, p.usage_id) /\ b[5] = p.action /\ b[6] = p.flags
        /\ Has16(b, 6, p.modifiers)
    BY <1>3, <1>7 DEF Agree, Has16
  <2>2. /\ Read16(b, 0) = p.usage_page /\ Read16(b, 2) = p.usage_id /\ Read8(b, 4) = p.action
        /\ Read8(b, 5) = p.flags /\ Read16(b, 6) = p.modifiers
    BY <1>1, <2>1, Reads16 DEF Read8
  <2> QED BY <1>1, <2>2
<1>8. Fitting(p) = p
  BY <1>1 DEF Fitting, Opaque, SessionTypes, InputTypes, VideoTypes
<1> HIDE DEF read
<1>u. Unread(p) = 0
  BY <1>1 DEF Unread
<1> QED BY <1>3, <1>6, <1>7, <1>8, <1>4, <1>u DEF Reads, Checked, Agree

\* Payload::RequestKeyframe is read back as it was written.
LEMMA RequestKeyframeReads ==
    ASSUME NEW p \in [type : {"RequestKeyframe"}, mode : 0..1, ltr_index : Octet, reason : Word],
           NEW b, Agree(b, EncodePayload(p))
    PROVE  Reads(p, b)
<1> DEFINE e == EncodePayload(p)
           read == [type |-> "RequestKeyframe", mode |-> Read8(b, 0), ltr_index |-> Read8(b, 1),
                    reason |-> Read16(b, 2)]
<1>1. /\ p.type = "RequestKeyframe"
      /\ p = [type |-> "RequestKeyframe", mode |-> p.mode, ltr_index |-> p.ltr_index,
              reason |-> p.reason]
      /\ p.mode \in 0..1 /\ p.ltr_index \in Octet /\ p.reason \in Word
  OBVIOUS
<1>2. e = <<p.mode, p.ltr_index>> \o U16(p.reason)
  <2>1. e = EncodeVideo(p)
    BY <1>1 DEF EncodePayload, SessionTypes, InputTypes, VideoTypes
  <2> QED BY <1>1, <2>1 DEF EncodeVideo
<1>3. /\ Len(e) = 4
      /\ e[1] = p.mode /\ e[2] = p.ltr_index /\ Has16(e, 2, p.reason)
  BY <1>2 DEF U16, Has16
<1>4. e \in Seq(Octet)
  <2>1. p.mode \in Octet /\ p.ltr_index \in Octet /\ Octets(p.reason)
    BY <1>1, WordOf DEF Octets, Octet
  <2> QED BY <1>2, <2>1 DEF Octets, U16
<1>5. FromU8(CodeOf(p)) = "RequestKeyframe"
  BY <1>1, CodesOf DEF CodeOf, TypeCode
<1>6. DecodePayload(CodeOf(p), b) = Checked(b, 4, Read8(b, 0) \in 0..1, read)
  <2>1. DecodePayload(CodeOf(p), b) = DecodeRequests("RequestKeyframe", b)
    BY <1>5 DEF DecodePayload, SessionTypes
  <2> QED BY <2>1 DEF DecodeRequests
<1>7. ASSUME Len(b) >= 4 PROVE Read8(b, 0) \in 0..1 /\ read = p
  <2>1. b[1] = p.mode /\ b[2] = p.ltr_index /\ Has16(b, 2, p.reason)
    BY <1>3, <1>7 DEF Agree, Has16
  <2>2. Read8(b, 0) = p.mode /\ Read8(b, 1) = p.ltr_index /\ Read16(b, 2) = p.reason
    BY <1>1, <2>1, Reads16 DEF Read8
  <2> QED BY <1>1, <2>2
<1>8. Fitting(p) = p
  BY <1>1 DEF Fitting, Opaque, SessionTypes, InputTypes, VideoTypes
<1> HIDE DEF read
<1>u. Unread(p) = 0
  BY <1>1 DEF Unread
<1> QED BY <1>3, <1>6, <1>7, <1>8, <1>4, <1>u DEF Reads, Checked, Agree

\* Payload::LtrAck is read back as it was written.
LEMMA LtrAckReads ==
    ASSUME NEW p \in [type : {"LtrAck"}, ltr_index : Octet, frame_id : Word],
           NEW b, Agree(b, EncodePayload(p))
    PROVE  Reads(p, b)
<1> DEFINE e == EncodePayload(p)
           read == [type |-> "LtrAck", ltr_index |-> Read8(b, 0), frame_id |-> Read16(b, 2)]
<1>1. /\ p.type = "LtrAck"
      /\ p = [type |-> "LtrAck", ltr_index |-> p.ltr_index, frame_id |-> p.frame_id]
      /\ p.ltr_index \in Octet /\ p.frame_id \in Word
  OBVIOUS
<1>2. e = <<p.ltr_index, 0>> \o U16(p.frame_id)
  <2>1. e = EncodeVideo(p)
    BY <1>1 DEF EncodePayload, SessionTypes, InputTypes, VideoTypes
  <2> QED BY <1>1, <2>1 DEF EncodeVideo
<1>3. /\ Len(e) = 4
      /\ e[1] = p.ltr_index /\ Has16(e, 2, p.frame_id)
  BY <1>2 DEF U16, Has16
<1>4. e \in Seq(Octet)
  <2>1. p.ltr_index \in Octet /\ Octets(p.frame_id) /\ 0 \in Octet
    BY <1>1, WordOf DEF Octets, Octet
  <2> QED BY <1>2, <2>1 DEF Octets, U16
<1>5. FromU8(CodeOf(p)) = "LtrAck"
  BY <1>1, CodesOf DEF CodeOf, TypeCode
<1>6. DecodePayload(CodeOf(p), b) = Checked(b, 4, TRUE, read)
  <2>1. DecodePayload(CodeOf(p), b) = DecodeRequests("LtrAck", b)
    BY <1>5 DEF DecodePayload, SessionTypes
  <2> QED BY <2>1 DEF DecodeRequests
<1>7. ASSUME Len(b) >= 4 PROVE read = p
  <2>1. b[1] = p.ltr_index /\ Has16(b, 2, p.frame_id)
    BY <1>3, <1>7 DEF Agree, Has16
  <2>2. Read8(b, 0) = p.ltr_index /\ Read16(b, 2) = p.frame_id
    BY <1>1, <2>1, Reads16 DEF Read8
  <2> QED BY <1>1, <2>2
<1>8. Fitting(p) = p
  BY <1>1 DEF Fitting, Opaque, SessionTypes, InputTypes, VideoTypes
<1> HIDE DEF read
<1>u. Unread(p) = 0
  BY <1>1 DEF Unread
<1> QED BY <1>3, <1>6, <1>7, <1>8, <1>4, <1>u DEF Reads, Checked, Agree

\* Payload::CursorUpdate is read back as it was written.
LEMMA CursorUpdateReads ==
    ASSUME NEW p \in [type : {"CursorUpdate"}, shape_id : Long, x_norm : Word, y_norm : Word,
                      display_id : Octet, visible : BOOLEAN],
           NEW b, Agree(b, EncodePayload(p))
    PROVE  Reads(p, b)
<1> DEFINE e == EncodePayload(p)
           read == [type |-> "CursorUpdate", shape_id |-> Read32(b, 0), x_norm |-> Read16(b, 4),
                    y_norm |-> Read16(b, 6), display_id |-> Read8(b, 8),
                    visible |-> BitSet(Read8(b, 9), 1)]
<1>1. /\ p.type = "CursorUpdate"
      /\ p = [type |-> "CursorUpdate", shape_id |-> p.shape_id, x_norm |-> p.x_norm,
              y_norm |-> p.y_norm, display_id |-> p.display_id, visible |-> p.visible]
      /\ p.shape_id \in Long /\ p.x_norm \in Word /\ p.y_norm \in Word /\ p.display_id \in Octet
      /\ p.visible \in BOOLEAN
  OBVIOUS
<1>2. e = U32(p.shape_id) \o U16(p.x_norm) \o U16(p.y_norm) \o <<p.display_id, Bit(p.visible)>>
  <2>1. e = EncodeVideo(p)
    BY <1>1 DEF EncodePayload, SessionTypes, InputTypes, VideoTypes
  <2> QED BY <1>1, <2>1 DEF EncodeVideo
<1>3. /\ Len(e) = 10
      /\ Has32(e, 0, p.shape_id) /\ Has16(e, 4, p.x_norm) /\ Has16(e, 6, p.y_norm)
      /\ e[9] = p.display_id /\ e[10] = Bit(p.visible)
  BY <1>2 DEF U16, U32, Has32, Has16
<1>4. e \in Seq(Octet)
  <2>1. /\ Octets(p.shape_id \div 65536) /\ Octets(p.shape_id % 65536) /\ Octets(p.x_norm)
        /\ Octets(p.y_norm) /\ p.display_id \in Octet /\ Bit(p.visible) \in Octet
    BY <1>1, WordOf, LongOf DEF Octets, Octet, Bit
  <2> QED BY <1>2, <2>1 DEF Octets, U16, U32
<1>5. FromU8(CodeOf(p)) = "CursorUpdate"
  BY <1>1, CodesOf DEF CodeOf, TypeCode
<1>6. DecodePayload(CodeOf(p), b) = Checked(b, 10, TRUE, read)
  <2>1. DecodePayload(CodeOf(p), b) = DecodeCursor("CursorUpdate", b)
    BY <1>5 DEF DecodePayload, SessionTypes
  <2> QED BY <2>1 DEF DecodeCursor
<1>7. ASSUME Len(b) >= 10 PROVE read = p
  <2>1. /\ Has32(b, 0, p.shape_id) /\ Has16(b, 4, p.x_norm) /\ Has16(b, 6, p.y_norm)
        /\ b[9] = p.display_id /\ b[10] = Bit(p.visible)
    BY <1>3, <1>7 DEF Agree, Has16, Has32
  <2>2. /\ Read32(b, 0) = p.shape_id /\ Read16(b, 4) = p.x_norm /\ Read16(b, 6) = p.y_norm
        /\ Read8(b, 8) = p.display_id /\ BitSet(Read8(b, 9), 1) = p.visible
    BY <1>1, <2>1, Reads16, Reads32, BitOf DEF Read8
  <2> QED BY <1>1, <2>2
<1>8. Fitting(p) = p
  BY <1>1 DEF Fitting, Opaque, SessionTypes, InputTypes, VideoTypes
<1> HIDE DEF read
<1>u. Unread(p) = 0
  BY <1>1 DEF Unread
<1> QED BY <1>3, <1>6, <1>7, <1>8, <1>4, <1>u DEF Reads, Checked, Agree

-----------------------------------------------------------------------------
(* Payloads that carry a sequence                                          *)

\* A head and what follows it, at the other end.
LEMMA HeadAndRest ==
    ASSUME NEW h \in Seq(Octet), NEW d \in Seq(Octet), NEW b \in Seq(Octet), Agree(b, h \o d)
    PROVE  /\ h \o d \in Seq(Octet) /\ Len(h \o d) = Len(h) + Len(d) /\ Len(h) \in Nat /\ Len(d) \in Nat
           /\ Agree(b, h)
           /\ Len(b) >= Len(h) + Len(d) => SubSeq(b, Len(h) + 1, Len(h) + Len(d)) = d
<1> DEFINE n == Len(h)
           m == Len(d)
           e == h \o d
<1>1. /\ e \in Seq(Octet) /\ Len(e) = n + m /\ n \in Nat /\ m \in Nat /\ Len(b) \in Nat
      /\ \A k \in 1..n : e[k] = h[k]
      /\ \A k \in 1..m : e[n + k] = d[k]
  BY JoinOf, LenProperties
<1>2. \A k \in 1..Len(e) : k <= Len(b) => b[k] = e[k]
  BY DEF Agree
<1> HIDE DEF n, m, e
<1>3. \A k \in 1..n : k <= Len(b) => b[k] = h[k]
  BY <1>1, <1>2
<1>4. ASSUME Len(b) >= n + m PROVE SubSeq(b, n + 1, n + m) = d
  <2> DEFINE s == SubSeq(b, n + 1, n + m)
  <2>1. n + 1 \in Int /\ n + m \in Int
    BY <1>1
  <2>2. \A k \in (n + 1)..(n + m) : b[k] \in Octet
    BY <1>1, <1>4, ElementOfSeq
  <2>3. /\ s \in Seq(Octet) /\ Len(s) = m
        /\ \A k \in 1..m : s[k] = b[(n + 1) + k - 1]
    <3>1. /\ s \in Seq(Octet)
          /\ Len(s) = (IF n + 1 <= n + m THEN (n + m) - (n + 1) + 1 ELSE 0)
          /\ \A k \in 1..((n + m) - (n + 1) + 1) : s[k] = b[(n + 1) + k - 1]
      BY <2>1, <2>2, SubSeqProperties
    <3>2. (n + m) - (n + 1) + 1 = m /\ (IF n + 1 <= n + m THEN (n + m) - (n + 1) + 1 ELSE 0) = m
      BY <1>1
    <3> QED BY <3>1, <3>2
  <2> HIDE DEF s
  <2>4. \A k \in 1..m : s[k] = d[k]
    <3> TAKE k \in 1..m
    <3>1. s[k] = b[n + k] /\ n + k \in 1..Len(e) /\ n + k <= Len(b)
      BY <2>3, <1>1, <1>4
    <3> QED BY <3>1, <1>1, <1>2
  <2>5. Len(s) = Len(d)
    BY <2>3 DEF m
  <2>6. s = d
    BY <2>3, <2>4, <2>5, SeqEqual DEF m
  <2> QED BY <2>6 DEF s
<1> QED BY <1>1, <1>3, <1>4 DEF Agree, n, m, e

\* What is not greater than a number of four bytes is one.
LEMMA QuotientBelow ==
    ASSUME NEW c \in Nat, c \in Long, NEW a \in Nat, a <= c
    PROVE  a \in Long
<1>1. c \div 65536 \in Word
  BY DEF Long
<1>2. c \div 65536 <= 65535
  BY <1>1 DEF Word
<1>3. a \div 65536 \in Word
  BY <1>2 DEF Word
<1> QED BY <1>3 DEF Long

\* The same, of a number of four bytes.
LEMMA LongBelow ==
    ASSUME NEW c \in Long, NEW a \in Nat, a <= c
    PROVE  a \in Long
<1>1. c \in Nat
  BY DEF Long
<1> QED BY <1>1, QuotientBelow

\* What the limits are.
LEMMA LimitsOf ==
    /\ MAX_PRESSED_KEYS \in Octet /\ MAX_TEXT_INPUT \in Word /\ MAX_ERROR_TEXT \in Word
    /\ MAX_TEXT_INPUT >= 4 /\ MAX_CURSOR_DIM \in Word /\ MAX_VIDEO_FRAGMENTS \in Word
  BY WireAssumption

\* Two limits are numbers of four bytes.
LEMMA LongLimits == MAX_CURSOR_DATA \in Long /\ MAX_VIDEO_FRAGMENT \in Long
  BY WireAssumption

\* A number of four bytes is a natural number.
LEMMA LongIsNat == \A v \in Long : v \in Nat
  BY DEF Long

\* The first n bytes are the same.
Same(b, h, n) == \A k \in 1..n : b[k] = h[k]

\* Bytes that are all there are the same.
LEMMA AgreeSame ==
    ASSUME NEW b, NEW h, Agree(b, h), NEW n \in Nat, Len(h) = n, Len(b) >= n
    PROVE  Same(b, h, n)
  BY DEF Agree, Same

\* Where the bytes are the same, so are the numbers.
LEMMA SameHas ==
    ASSUME NEW b, NEW h, NEW n \in Nat, Same(b, h, n), NEW at \in Nat, NEW v
    PROVE  /\ at + 2 <= n /\ Has16(h, at, v) => Has16(b, at, v)
           /\ at + 4 <= n /\ Has32(h, at, v) => Has32(b, at, v)
<1>1. \A u : \A i \in Nat : i + 2 <= n /\ Has16(h, i, u) => Has16(b, i, u)
  BY DEF Same, Has16
<1>2. at + 4 <= n => at + 2 <= n /\ at + 2 + 2 <= n /\ at + 2 \in Nat
  OBVIOUS
<1> QED BY <1>1, <1>2 DEF Has32

\* Payload::VideoFrame is read back as it was written.
LEMMA VideoFrameReads ==
    ASSUME NEW p \in [type : {"VideoFrame"}, frame_id : Long, fragment_index : Word,
                      fragment_count : 1..MAX_VIDEO_FRAGMENTS, kind : 0..2, temporal_layer : Octet,
                      pts_high : Long, pts_low : Long, data : Seq(Octet)],
           p.fragment_index < p.fragment_count, Len(p.data) <= MAX_VIDEO_FRAGMENT,
           NEW b \in Seq(Octet), Agree(b, EncodePayload(p))
    PROVE  Reads(p, b)
<1> DEFINE e == EncodePayload(p)
           h == U32(p.frame_id) \o U16(p.fragment_index) \o U16(p.fragment_count)
                \o <<p.kind, p.temporal_layer>> \o U32(p.pts_high) \o U32(p.pts_low)
                \o U32(Len(p.data))
           good == /\ Read8(b, 8) <= 2
                   /\ Read16(b, 6) \in 1..MAX_VIDEO_FRAGMENTS /\ Read16(b, 4) < Read16(b, 6)
                   /\ Read32(b, 18) <= MAX_VIDEO_FRAGMENT
                   /\ Len(b) >= 22 + Read32(b, 18)
           read == Fragment(b, SubSeq(b, 23, 22 + Read32(b, 18)))
<1>1. /\ p.type = "VideoFrame"
      /\ p = [type |-> "VideoFrame", frame_id |-> p.frame_id, fragment_index |-> p.fragment_index,
              fragment_count |-> p.fragment_count, kind |-> p.kind, temporal_layer |-> p.temporal_layer,
              pts_high |-> p.pts_high, pts_low |-> p.pts_low, data |-> p.data]
      /\ p.frame_id \in Long /\ p.fragment_index \in Word /\ p.fragment_count \in 1..MAX_VIDEO_FRAGMENTS
      /\ p.kind \in 0..2 /\ p.temporal_layer \in Octet /\ p.pts_high \in Long /\ p.pts_low \in Long
      /\ p.data \in Seq(Octet)
  OBVIOUS
<1>2. /\ Len(p.data) \in Nat /\ Len(b) \in Nat /\ Len(p.data) \in Long /\ p.fragment_count \in Word
      /\ p.kind \in Octet
  <2>1. Len(p.data) \in Nat /\ Len(b) \in Nat
    BY <1>1, LenProperties
  <2>2. Len(p.data) \in Long
    BY <2>1, LongLimits, LongBelow
  <2>3. p.fragment_count \in Word
    BY <1>1, LimitsOf DEF Word
  <2>4. p.kind \in Octet
    BY <1>1 DEF Octet
  <2> QED BY <2>1, <2>2, <2>3, <2>4
<1>3. e = h \o p.data
  <2>1. e = EncodeVideo(p)
    BY <1>1 DEF EncodePayload, SessionTypes, InputTypes, VideoTypes
  <2> QED BY <1>1, <2>1 DEF EncodeVideo
<1>4. /\ Len(h) = 22
      /\ Has32(h, 0, p.frame_id) /\ Has16(h, 4, p.fragment_index) /\ Has16(h, 6, p.fragment_count)
      /\ h[9] = p.kind /\ h[10] = p.temporal_layer
      /\ Has32(h, 10, p.pts_high) /\ Has32(h, 14, p.pts_low) /\ Has32(h, 18, Len(p.data))
  BY DEF U16, U32, Has32, Has16
<1>5. h \in Seq(Octet)
  <2>1. /\ Octets(p.frame_id \div 65536) /\ Octets(p.frame_id % 65536)
        /\ Octets(p.fragment_index) /\ Octets(p.fragment_count)
        /\ Octets(p.pts_high \div 65536) /\ Octets(p.pts_high % 65536)
        /\ Octets(p.pts_low \div 65536) /\ Octets(p.pts_low % 65536)
        /\ Octets(Len(p.data) \div 65536) /\ Octets(Len(p.data) % 65536)
    BY <1>1, <1>2, WordOf, LongOf DEF Octets
  <2> QED BY <1>1, <1>2, <2>1 DEF Octets, U16, U32
<1> HIDE DEF h
<1>6. /\ e \in Seq(Octet) /\ Len(e) = 22 + Len(p.data) /\ Agree(b, h)
      /\ Len(b) >= 22 + Len(p.data) => SubSeq(b, 23, 22 + Len(p.data)) = p.data
  <2>1. /\ h \o p.data \in Seq(Octet) /\ Len(h \o p.data) = Len(h) + Len(p.data) /\ Agree(b, h)
        /\ Len(b) >= Len(h) + Len(p.data) => SubSeq(b, Len(h) + 1, Len(h) + Len(p.data)) = p.data
    BY <1>1, <1>3, <1>5, HeadAndRest
  <2> QED BY <1>3, <1>4, <2>1
<1>7. FromU8(CodeOf(p)) = "VideoFrame"
  BY <1>1, CodesOf DEF CodeOf, TypeCode
<1>8. DecodePayload(CodeOf(p), b) = Checked(b, 22, good, read)
  <2>1. DecodePayload(CodeOf(p), b) = DecodeFragment(b)
    BY <1>7 DEF DecodePayload, SessionTypes
  <2> QED BY <2>1 DEF DecodeFragment
<1>9. ASSUME Len(b) >= 22
      PROVE  /\ Len(b) >= 22 + Len(p.data) => good /\ read = p
             /\ good => Len(b) >= 22 + Len(p.data)
  <2>1. /\ Has32(b, 0, p.frame_id) /\ Has16(b, 4, p.fragment_index) /\ Has16(b, 6, p.fragment_count)
        /\ b[9] = p.kind /\ b[10] = p.temporal_layer
        /\ Has32(b, 10, p.pts_high) /\ Has32(b, 14, p.pts_low) /\ Has32(b, 18, Len(p.data))
    <3>1. Agree(b, h) /\ Len(h) = 22
      BY <1>4, <1>6
    <3>2. Same(b, h, 22)
      BY <3>1, <1>9, AgreeSame
    <3>3. /\ Has32(h, 0, p.frame_id) /\ Has16(h, 4, p.fragment_index) /\ Has16(h, 6, p.fragment_count)
          /\ Has32(h, 10, p.pts_high) /\ Has32(h, 14, p.pts_low) /\ Has32(h, 18, Len(p.data))
      BY <1>4
    <3>4. h[9] = p.kind /\ h[10] = p.temporal_layer
      BY <1>4
    <3>5. b[9] = h[9] /\ b[10] = h[10]
      BY <3>2 DEF Same
    <3> QED BY <3>2, <3>3, <3>4, <3>5, SameHas
  <2>2. /\ Read32(b, 0) = p.frame_id /\ Read16(b, 4) = p.fragment_index /\ Read16(b, 6) = p.fragment_count
        /\ Read32(b, 10) = p.pts_high /\ Read32(b, 14) = p.pts_low /\ Read32(b, 18) = Len(p.data)
    <3>1. Read16(b, 4) = p.fragment_index /\ Read16(b, 6) = p.fragment_count
      BY <1>1, <1>2, <2>1, Reads16
    <3>2. Read32(b, 0) = p.frame_id /\ Read32(b, 10) = p.pts_high /\ Read32(b, 14) = p.pts_low
      BY <1>1, <2>1, Reads32
    <3>3. Read32(b, 18) = Len(p.data)
      BY <1>2, <2>1, Reads32
    <3> QED BY <3>1, <3>2, <3>3
  <2>3. Read8(b, 8) = p.kind /\ Read8(b, 9) = p.temporal_layer
    BY <2>1 DEF Read8
  <2>4. good <=> Len(b) >= 22 + Len(p.data)
    <3>1. p.fragment_count \in 1..MAX_VIDEO_FRAGMENTS /\ p.kind <= 2
      BY <1>1
    <3>2. MAX_VIDEO_FRAGMENT \in Nat /\ p.fragment_index \in Nat /\ MAX_VIDEO_FRAGMENTS \in Nat
      BY <1>1, LongLimits, LongIsNat, LimitsOf DEF Word
    <3> QED BY <1>2, <3>1, <3>2, <2>2, <2>3
  <2>5. ASSUME Len(b) >= 22 + Len(p.data) PROVE read = p
    BY <1>1, <1>6, <2>2, <2>3, <2>5 DEF Fragment
  <2> QED BY <2>4, <2>5
<1>10. Fitting(p) = p
  BY <1>1 DEF Fitting, Opaque, SessionTypes, InputTypes, VideoTypes
<1> HIDE DEF read, good
<1>u. Unread(p) = 0
  BY <1>1 DEF Unread
<1> QED BY <1>2, <1>6, <1>8, <1>9, <1>10, <1>u DEF Reads, Checked

\* Payload::CursorShape is read back as it was written.
LEMMA CursorShapeReads ==
    ASSUME NEW p \in [type : {"CursorShape"}, shape_id : Long, width : 1..MAX_CURSOR_DIM,
                      height : 1..MAX_CURSOR_DIM, hotspot_x : Word, hotspot_y : Word, format : Octet,
                      data : Seq(Octet)],
           p.hotspot_x < p.width, p.hotspot_y < p.height, Len(p.data) <= MAX_CURSOR_DATA,
           p.format = 0 => Len(p.data) = p.width * p.height * 4,
           NEW b \in Seq(Octet), Agree(b, EncodePayload(p))
    PROVE  Reads(p, b)
<1> DEFINE e == EncodePayload(p)
           h == U32(p.shape_id) \o U16(p.width) \o U16(p.height) \o U16(p.hotspot_x)
                \o U16(p.hotspot_y) \o <<p.format, 0>> \o U32(Len(p.data))
           good == /\ Read16(b, 4) \in 1..MAX_CURSOR_DIM /\ Read16(b, 6) \in 1..MAX_CURSOR_DIM
                   /\ Read16(b, 8) < Read16(b, 4) /\ Read16(b, 10) < Read16(b, 6)
                   /\ Read32(b, 14) <= MAX_CURSOR_DATA
                   /\ Read8(b, 12) = 0 => Read32(b, 14) = Read16(b, 4) * Read16(b, 6) * 4
                   /\ Len(b) >= 18 + Read32(b, 14)
           read == [type |-> "CursorShape", shape_id |-> Read32(b, 0), width |-> Read16(b, 4),
                    height |-> Read16(b, 6), hotspot_x |-> Read16(b, 8), hotspot_y |-> Read16(b, 10),
                    format |-> Read8(b, 12), data |-> SubSeq(b, 19, 18 + Read32(b, 14))]
<1>1. /\ p.type = "CursorShape"
      /\ p = [type |-> "CursorShape", shape_id |-> p.shape_id, width |-> p.width, height |-> p.height,
              hotspot_x |-> p.hotspot_x, hotspot_y |-> p.hotspot_y, format |-> p.format, data |-> p.data]
      /\ p.shape_id \in Long /\ p.width \in 1..MAX_CURSOR_DIM /\ p.height \in 1..MAX_CURSOR_DIM
      /\ p.hotspot_x \in Word /\ p.hotspot_y \in Word /\ p.format \in Octet /\ p.data \in Seq(Octet)
  OBVIOUS
<1>2. /\ Len(p.data) \in Nat /\ Len(b) \in Nat /\ Len(p.data) \in Long
      /\ p.width \in Word /\ p.height \in Word
  <2>1. Len(p.data) \in Nat /\ Len(b) \in Nat
    BY <1>1, LenProperties
  <2>2. Len(p.data) \in Long
    BY <2>1, LongLimits, LongBelow
  <2>3. p.width \in Word /\ p.height \in Word
    BY <1>1, LimitsOf DEF Word
  <2> QED BY <2>1, <2>2, <2>3
<1>3. e = h \o p.data
  <2>1. e = EncodeVideo(p)
    BY <1>1 DEF EncodePayload, SessionTypes, InputTypes, VideoTypes
  <2> QED BY <1>1, <2>1 DEF EncodeVideo
<1>4. /\ Len(h) = 18
      /\ Has32(h, 0, p.shape_id) /\ Has16(h, 4, p.width) /\ Has16(h, 6, p.height)
      /\ Has16(h, 8, p.hotspot_x) /\ Has16(h, 10, p.hotspot_y) /\ h[13] = p.format
      /\ Has32(h, 14, Len(p.data))
  BY DEF U16, U32, Has32, Has16
<1>5. h \in Seq(Octet)
  <2>1. /\ Octets(p.shape_id \div 65536) /\ Octets(p.shape_id % 65536)
        /\ Octets(p.width) /\ Octets(p.height) /\ Octets(p.hotspot_x) /\ Octets(p.hotspot_y)
        /\ Octets(Len(p.data) \div 65536) /\ Octets(Len(p.data) % 65536)
    BY <1>1, <1>2, WordOf, LongOf DEF Octets
  <2>2. 0 \in Octet
    BY DEF Octet
  <2> QED BY <1>1, <1>2, <2>1, <2>2 DEF Octets, U16, U32
<1> HIDE DEF h
<1>6. /\ e \in Seq(Octet) /\ Len(e) = 18 + Len(p.data) /\ Agree(b, h)
      /\ Len(b) >= 18 + Len(p.data) => SubSeq(b, 19, 18 + Len(p.data)) = p.data
  <2>1. /\ h \o p.data \in Seq(Octet) /\ Len(h \o p.data) = Len(h) + Len(p.data) /\ Agree(b, h)
        /\ Len(b) >= Len(h) + Len(p.data) => SubSeq(b, Len(h) + 1, Len(h) + Len(p.data)) = p.data
    BY <1>1, <1>3, <1>5, HeadAndRest
  <2> QED BY <1>3, <1>4, <2>1
<1>7. FromU8(CodeOf(p)) = "CursorShape"
  BY <1>1, CodesOf DEF CodeOf, TypeCode
<1>8. DecodePayload(CodeOf(p), b) = Checked(b, 18, good, read)
  <2>1. DecodePayload(CodeOf(p), b) = DecodeCursor("CursorShape", b)
    BY <1>7 DEF DecodePayload, SessionTypes
  <2> QED BY <2>1 DEF DecodeCursor
<1>9. ASSUME Len(b) >= 18
      PROVE  /\ Len(b) >= 18 + Len(p.data) => good /\ read = p
             /\ good => Len(b) >= 18 + Len(p.data)
  <2>1. /\ Has32(b, 0, p.shape_id) /\ Has16(b, 4, p.width) /\ Has16(b, 6, p.height)
        /\ Has16(b, 8, p.hotspot_x) /\ Has16(b, 10, p.hotspot_y) /\ b[13] = p.format
        /\ Has32(b, 14, Len(p.data))
    <3>1. Agree(b, h) /\ Len(h) = 18
      BY <1>4, <1>6
    <3>2. Same(b, h, 18)
      BY <3>1, <1>9, AgreeSame
    <3>3. /\ Has32(h, 0, p.shape_id) /\ Has16(h, 4, p.width) /\ Has16(h, 6, p.height)
          /\ Has16(h, 8, p.hotspot_x) /\ Has16(h, 10, p.hotspot_y) /\ Has32(h, 14, Len(p.data))
      BY <1>4
    <3>4. h[13] = p.format
      BY <1>4
    <3>5. b[13] = h[13]
      BY <3>2 DEF Same
    <3> QED BY <3>2, <3>3, <3>4, <3>5, SameHas
  <2>2. /\ Read32(b, 0) = p.shape_id /\ Read16(b, 4) = p.width /\ Read16(b, 6) = p.height
        /\ Read16(b, 8) = p.hotspot_x /\ Read16(b, 10) = p.hotspot_y /\ Read32(b, 14) = Len(p.data)
    <3>1. /\ Read16(b, 4) = p.width /\ Read16(b, 6) = p.height
          /\ Read16(b, 8) = p.hotspot_x /\ Read16(b, 10) = p.hotspot_y
      BY <1>1, <1>2, <2>1, Reads16
    <3>2. Read32(b, 0) = p.shape_id
      BY <1>1, <2>1, Reads32
    <3>3. Read32(b, 14) = Len(p.data)
      BY <1>2, <2>1, Reads32
    <3> QED BY <3>1, <3>2, <3>3
  <2>3. Read8(b, 12) = p.format
    BY <2>1 DEF Read8
  <2>4. good <=> Len(b) >= 18 + Len(p.data)
    <3>1. p.width \in 1..MAX_CURSOR_DIM /\ p.height \in 1..MAX_CURSOR_DIM
      BY <1>1
    <3>2. MAX_CURSOR_DATA \in Nat
      BY LongLimits, LongIsNat
    <3> QED BY <1>2, <3>1, <3>2, <2>2, <2>3
  <2>5. ASSUME Len(b) >= 18 + Len(p.data) PROVE read = p
    BY <1>1, <1>6, <2>2, <2>3, <2>5
  <2> QED BY <2>4, <2>5
<1>10. Fitting(p) = p
  BY <1>1 DEF Fitting, Opaque, SessionTypes, InputTypes, VideoTypes
<1> HIDE DEF read, good
<1>u. Unread(p) = 0
  BY <1>1 DEF Unread
<1> QED BY <1>2, <1>6, <1>8, <1>9, <1>10, <1>u DEF Reads, Checked

\* The start of a sequence.
LEMMA StartOf ==
    ASSUME NEW S, NEW s \in Seq(S), NEW n \in Nat, n <= Len(s)
    PROVE  /\ SubSeq(s, 1, n) \in Seq(S) /\ Len(SubSeq(s, 1, n)) = n
           /\ \A k \in 1..n : SubSeq(s, 1, n)[k] = s[k]
<1>1. Len(s) \in Nat /\ n \in Int /\ 1 \in Int
  BY LenProperties
<1>2. \A k \in 1..n : s[k] \in S
  BY <1>1, ElementOfSeq
<1>3. /\ SubSeq(s, 1, n) \in Seq(S)
      /\ Len(SubSeq(s, 1, n)) = (IF 1 <= n THEN n - 1 + 1 ELSE 0)
      /\ \A k \in 1..(n - 1 + 1) : SubSeq(s, 1, n)[k] = s[1 + k - 1]
  BY <1>1, <1>2, SubSeqProperties
<1> QED BY <1>1, <1>3

\* What there is, or as many as there may be.
LEMMA SmallerOf ==
    ASSUME NEW a \in Nat, NEW m \in Octet
    PROVE  /\ (IF a < m THEN a ELSE m) \in Nat /\ (IF a < m THEN a ELSE m) <= a
           /\ (IF a < m THEN a ELSE m) <= m /\ (IF a < m THEN a ELSE m) \in Octet
<1>1. m \in 0..255
  BY DEF Octet
<1> QED BY <1>1 DEF Octet

\* A list of numbers and its bytes, two for each.
BytePairs(s, n) == [i \in 1..(2 * n) |-> IF i % 2 = 1 THEN High(s[(i + 1) \div 2]) ELSE Low(s[i \div 2])]

\* The bytes of a list, at their places.
LEMMA PairsOf ==
    ASSUME NEW n \in Nat, NEW s, \A k \in 1..n : s[k] \in Word
    PROVE  /\ BytePairs(s, n) \in Seq(Octet) /\ Len(BytePairs(s, n)) = 2 * n
           /\ \A k \in 1..n : BytePairs(s, n)[2 * k - 1] = High(s[k]) /\ BytePairs(s, n)[2 * k] = Low(s[k])
<1> DEFINE d == BytePairs(s, n)
<1>1. ASSUME NEW i \in 1..(2 * n) PROVE d[i] \in Octet
  <2>1. d[i] = IF i % 2 = 1 THEN High(s[(i + 1) \div 2]) ELSE Low(s[i \div 2])
    BY DEF BytePairs
  <2>2. CASE i % 2 = 1
    <3>1. (i + 1) \div 2 \in 1..n
      BY <2>2
    <3> QED BY <2>1, <2>2, <3>1, WordOf
  <2>3. CASE ~(i % 2 = 1)
    <3>1. i \div 2 \in 1..n
      BY <2>3
    <3> QED BY <2>1, <2>3, <3>1, WordOf
  <2> QED BY <2>2, <2>3
<1>2. d \in [1..(2 * n) -> Octet] /\ 2 * n \in Nat
  BY <1>1 DEF BytePairs
<1>3. d \in Seq(Octet) /\ Len(d) = 2 * n
  BY <1>2
<1>4. ASSUME NEW k \in 1..n PROVE d[2 * k - 1] = High(s[k]) /\ d[2 * k] = Low(s[k])
  <2>1. /\ 2 * k - 1 \in 1..(2 * n) /\ 2 * k \in 1..(2 * n)
        /\ (2 * k - 1) % 2 = 1 /\ ((2 * k - 1) + 1) \div 2 = k
        /\ ~((2 * k) % 2 = 1) /\ (2 * k) \div 2 = k
    OBVIOUS
  <2> QED BY <2>1 DEF BytePairs
<1> QED BY <1>3, <1>4

\* Payload::KeyStateSync is read back as it was written.
LEMMA KeyStateSyncReads ==
    ASSUME NEW p \in [type : {"KeyStateSync"}, modifiers : Word, authoritative : BOOLEAN,
                      pressed : Seq({usage \in Word : ValidUsage(7, usage)})],
           NEW b \in Seq(Octet), Agree(b, EncodePayload(p))
    PROVE  Reads(p, b)
<1> DEFINE e == EncodePayload(p)
           n == IF Len(p.pressed) < MAX_PRESSED_KEYS THEN Len(p.pressed) ELSE MAX_PRESSED_KEYS
           h == U16(p.modifiers) \o <<n, Bit(p.authoritative)>>
           d == BytePairs(p.pressed, n)
           list == [i \in 1..Read8(b, 2) |-> Read16(b, 2 + 2 * i)]
           good == /\ Read8(b, 2) <= MAX_PRESSED_KEYS /\ Len(b) >= 4 + 2 * Read8(b, 2)
                   /\ \A i \in 1..Read8(b, 2) : ValidUsage(7, list[i])
           read == [type |-> "KeyStateSync", modifiers |-> Read16(b, 0),
                    authoritative |-> BitSet(Read8(b, 3), 1), pressed |-> list]
           fit == [type |-> "KeyStateSync", modifiers |-> p.modifiers,
                   authoritative |-> p.authoritative, pressed |-> SubSeq(p.pressed, 1, n)]
<1>1. /\ p.type = "KeyStateSync"
      /\ p = [type |-> "KeyStateSync", modifiers |-> p.modifiers, authoritative |-> p.authoritative,
              pressed |-> p.pressed]
      /\ p.modifiers \in Word /\ p.authoritative \in BOOLEAN
      /\ p.pressed \in Seq({usage \in Word : ValidUsage(7, usage)})
  OBVIOUS
<1>2. Len(p.pressed) \in Nat /\ Len(b) \in Nat
  BY <1>1, LenProperties
<1>3. n \in Nat /\ n <= Len(p.pressed) /\ n <= MAX_PRESSED_KEYS /\ n \in Octet
  <2>1. MAX_PRESSED_KEYS \in Octet
    BY LimitsOf
  <2> QED BY <1>2, <2>1, SmallerOf
<1>4. \A k \in 1..n : p.pressed[k] \in Word /\ ValidUsage(7, p.pressed[k])
  <2>1. \A k \in 1..n : k \in 1..Len(p.pressed)
    BY <1>2, <1>3
  <2>2. \A k \in 1..Len(p.pressed) : p.pressed[k] \in {usage \in Word : ValidUsage(7, usage)}
    BY <1>1, ElementOfSeq
  <2> QED BY <2>1, <2>2
<1>5. e = h \o d
  <2>1. e = EncodeInput(p)
    BY <1>1 DEF EncodePayload, SessionTypes, InputTypes, VideoTypes
  <2>2. EncodeInput(p) = h \o d
    BY <1>1 DEF EncodeInput, BytePairs
  <2> QED BY <2>1, <2>2
<1>6. FromU8(CodeOf(p)) = "KeyStateSync"
  BY <1>1, CodesOf DEF CodeOf, TypeCode
<1>7. DecodePayload(CodeOf(p), b) = Checked(b, 4, good, read)
  <2>1. DecodePayload(CodeOf(p), b) = DecodeKeys("KeyStateSync", b)
    BY <1>6 DEF DecodePayload, SessionTypes
  <2> QED BY <2>1 DEF DecodeKeys
<1>8. Fitting(p) = fit
  BY <1>1 DEF Fitting
<1>9. Bit(p.authoritative) \in Octet
  BY <1>1 DEF Bit, Octet
<1> HIDE DEF n
<1>10. Len(h) = 4 /\ Has16(h, 0, p.modifiers) /\ h[3] = n /\ h[4] = Bit(p.authoritative)
  BY DEF U16, Has16
<1>11. h \in Seq(Octet)
  <2>1. Octets(p.modifiers)
    BY <1>1, WordOf DEF Octets
  <2> QED BY <1>3, <1>9, <2>1 DEF Octets, U16
<1>12. /\ d \in Seq(Octet) /\ Len(d) = 2 * n
       /\ \A k \in 1..n : d[2 * k - 1] = High(p.pressed[k]) /\ d[2 * k] = Low(p.pressed[k])
  BY <1>3, <1>4, PairsOf
<1> HIDE DEF h, d
<1>13. /\ e \in Seq(Octet) /\ Len(e) = 4 + 2 * n /\ Agree(b, h)
       /\ Len(b) >= 4 + 2 * n => SubSeq(b, 5, 4 + 2 * n) = d
  <2>1. /\ h \o d \in Seq(Octet) /\ Len(h \o d) = Len(h) + Len(d) /\ Agree(b, h)
        /\ Len(b) >= Len(h) + Len(d) => SubSeq(b, Len(h) + 1, Len(h) + Len(d)) = d
    <3>1. d \in Seq(Octet) /\ Agree(b, h \o d)
      BY <1>5, <1>12
    <3> QED BY <1>11, <3>1, HeadAndRest
  <2> QED BY <1>5, <1>10, <1>12, <2>1
<1>14. ASSUME Len(b) >= 4
       PROVE  /\ Read16(b, 0) = p.modifiers /\ Read8(b, 2) = n
              /\ BitSet(Read8(b, 3), 1) = p.authoritative
  <2>1. Agree(b, h) /\ Len(h) = 4
    BY <1>10, <1>13
  <2>2. Same(b, h, 4)
    BY <2>1, <1>14, AgreeSame
  <2>3. Has16(h, 0, p.modifiers) /\ h[3] = n /\ h[4] = Bit(p.authoritative)
    BY <1>10
  <2>4. b[3] = h[3] /\ b[4] = h[4]
    BY <2>2 DEF Same
  <2>5. Has16(b, 0, p.modifiers)
    BY <2>2, <2>3, SameHas
  <2>6. Read16(b, 0) = p.modifiers
    BY <1>1, <2>5, Reads16
  <2>7. BitSet(Bit(p.authoritative), 1) = p.authoritative
    BY <1>1, BitOf
  <2> QED BY <2>3, <2>4, <2>6, <2>7 DEF Read8
<1>15. ASSUME Len(b) >= 4 + 2 * n
       PROVE  \A k \in 1..n : Read16(b, 2 + 2 * k) = p.pressed[k]
  <2> DEFINE s == SubSeq(b, 5, 4 + 2 * n)
  <2>1. s = d
    BY <1>13, <1>15
  <2>2. \A j \in 1..(2 * n) : s[j] = b[4 + j]
    <3>1. 5 \in Int /\ 4 + 2 * n \in Int
      BY <1>3
    <3>2. \A k \in 5..(4 + 2 * n) : b[k] \in Octet
      BY <1>2, <1>3, <1>15, ElementOfSeq
    <3>3. \A j \in 1..((4 + 2 * n) - 5 + 1) : s[j] = b[5 + j - 1]
      BY <3>1, <3>2, SubSeqProperties
    <3> QED BY <1>3, <3>3
  <2> HIDE DEF s
  <2> TAKE k \in 1..n
  <2>3. /\ 2 * k - 1 \in 1..(2 * n) /\ 2 * k \in 1..(2 * n)
        /\ 4 + (2 * k - 1) = (2 + 2 * k) + 1 /\ 4 + 2 * k = (2 + 2 * k) + 2
    BY <1>3
  <2>4. b[(2 + 2 * k) + 1] = High(p.pressed[k]) /\ b[(2 + 2 * k) + 2] = Low(p.pressed[k])
    BY <1>12, <2>1, <2>2, <2>3
  <2>5. p.pressed[k] \in Word
    BY <1>4
  <2> QED BY <2>4, <2>5, Reads16 DEF Has16
<1>16. ASSUME Len(b) >= 4 + 2 * n
       PROVE  good /\ read = fit
  <2>1. Len(b) >= 4
    BY <1>2, <1>3, <1>16
  <2>2. Read16(b, 0) = p.modifiers /\ Read8(b, 2) = n /\ BitSet(Read8(b, 3), 1) = p.authoritative
    BY <2>1, <1>14
  <2>3. list = [i \in 1..n |-> p.pressed[i]]
    BY <1>15, <1>16, <2>2
  <2>4. SubSeq(p.pressed, 1, n) = [i \in 1..n |-> p.pressed[i]]
    <3>1. /\ SubSeq(p.pressed, 1, n) \in Seq({usage \in Word : ValidUsage(7, usage)})
          /\ Len(SubSeq(p.pressed, 1, n)) = n
          /\ \A k \in 1..n : SubSeq(p.pressed, 1, n)[k] = p.pressed[k]
      BY <1>1, <1>3, StartOf
    <3> QED BY <3>1, LenProperties
  <2>5. \A i \in 1..n : list[i] = p.pressed[i]
    BY <2>3
  <2>6. good
    BY <1>3, <1>4, <1>16, <2>2, <2>5
  <2> QED BY <2>2, <2>3, <2>4, <2>6
<1>17. ASSUME Len(b) >= 4, good PROVE Len(b) >= 4 + 2 * n
  BY <1>14, <1>17
<1> HIDE DEF read, good, fit
<1>u. Unread(p) = 0
  BY <1>1 DEF Unread
<1> QED BY <1>2, <1>3, <1>7, <1>8, <1>13, <1>16, <1>17, <1>u DEF Reads, Checked

-----------------------------------------------------------------------------
(* Texts                                                                   *)

\* What IsUtf8 asks of one byte.
GoodAt(raw, i) ==
    \/ /\ Starts(raw[i])
       /\ \A k \in 1..(SizeOf(raw[i]) - 1) : i + k <= Len(raw) /\ Continues(raw[i + k])
       /\ SizeOf(raw[i]) > 1 => SecondIsGood(raw[i], raw[i + 1])
    \/ /\ Continues(raw[i])
       /\ \E k \in 1..3 : k < i /\ Starts(raw[i - k]) /\ SizeOf(raw[i - k]) > k

ControlAt(raw, i) ==
    \/ raw[i] \in (0..31 \cup {127}) \ {9, 10}
    \/ i < Len(raw) /\ raw[i] = 194 /\ raw[i + 1] < 160

\* from_utf8 and is_control, byte by byte.
LEMMA Utf8Of ==
    ASSUME NEW t \in Seq(Octet)
    PROVE  /\ IsUtf8(t) <=> \A i \in 1..Len(t) : GoodAt(t, i)
           /\ HasControl(t) <=> \E i \in 1..Len(t) : ControlAt(t, i)
<1>1. DOMAIN t = 1..Len(t)
  BY LenProperties
<1>2. IsUtf8(t) <=> \A i \in 1..Len(t) : GoodAt(t, i)
  BY <1>1 DEF IsUtf8, GoodAt
<1>3. HasControl(t) <=> \E i \in 1..Len(t) : ControlAt(t, i)
  <2>1. HasControl(t) <=> \E i \in DOMAIN t : ControlAt(t, i)
    BY DEF HasControl, ControlAt
  <2> QED BY <1>1, <2>1
<1> QED BY <1>2, <1>3

\* A character has one to four bytes, and none both starts and continues one.
LEMMA SizesOf == \A c : SizeOf(c) \in 1..4 /\ ~(Starts(c) /\ Continues(c))
  BY DEF SizeOf, Starts, Continues

\* A text that ends where a character does is a text.
LEMMA CutAtBoundary ==
    ASSUME NEW t \in Seq(Octet), IsUtf8(t), NEW n \in Nat, n < Len(t), IsBoundary(t, n)
    PROVE  /\ SubSeq(t, 1, n) \in Seq(Octet) /\ Len(SubSeq(t, 1, n)) = n /\ IsUtf8(SubSeq(t, 1, n))
           /\ HasControl(SubSeq(t, 1, n)) => HasControl(t)
<1> DEFINE raw == SubSeq(t, 1, n)
<1>1. Len(t) \in Nat /\ DOMAIN t = 1..Len(t)
  BY LenProperties
<1>2. raw \in Seq(Octet) /\ Len(raw) = n /\ \A k \in 1..n : raw[k] = t[k]
  BY <1>1, StartOf
<1> HIDE DEF raw
<1>3. n = 0 \/ ~Continues(t[n + 1])
  <2>1. Len(t) \in Nat
    BY <1>1
  <2>2. n # Len(t)
    BY <2>1
  <2> QED BY <2>2 DEF IsBoundary
<1>4. ASSUME NEW i \in 1..n PROVE GoodAt(raw, i)
  <2>1. GoodAt(t, i) /\ raw[i] = t[i] /\ i \in Nat
    BY <1>1, <1>2, Utf8Of
  <2>2. CASE /\ Starts(t[i])
             /\ \A k \in 1..(SizeOf(t[i]) - 1) : i + k <= Len(t) /\ Continues(t[i + k])
             /\ SizeOf(t[i]) > 1 => SecondIsGood(t[i], t[i + 1])
    <3>1. SizeOf(t[i]) \in 1..4
      BY SizesOf
    <3> DEFINE s == SizeOf(t[i])
    <3> HIDE DEF s
    <3>2. s \in 1..4 /\ \A k \in 1..(s - 1) : Continues(t[i + k])
      BY <2>2, <3>1 DEF s
    <3>3. ASSUME NEW k \in 1..(s - 1) PROVE i + k <= n
      <4> SUFFICES ASSUME i + k > n PROVE FALSE
        BY <3>2, <2>1
      <4>1. (n + 1) - i \in 1..(s - 1) /\ i + ((n + 1) - i) = n + 1
        BY <3>2, <2>1
      <4>2. Continues(t[i + ((n + 1) - i)])
        BY <4>1, <3>2
      <4> QED BY <4>1, <4>2, <1>3
    <3>4. \A k \in 1..(s - 1) : i + k <= Len(raw) /\ Continues(raw[i + k])
      <4> TAKE k \in 1..(s - 1)
      <4>1. i + k <= n /\ i + k \in 1..n
        BY <3>2, <3>3, <2>1
      <4> QED BY <4>1, <3>2, <1>2
    <3>5. ASSUME s > 1 PROVE raw[i + 1] = t[i + 1]
      <4>1. 1 \in 1..(s - 1)
        BY <3>2, <3>5
      <4>2. i + 1 <= n
        BY <4>1, <3>3
      <4> QED BY <4>2, <1>2
    <3>6. s > 1 => SecondIsGood(raw[i], raw[i + 1])
      BY <3>5, <2>1, <2>2 DEF s
    <3> QED BY <2>1, <2>2, <3>4, <3>6 DEF GoodAt, s
  <2>3. CASE /\ Continues(t[i])
             /\ \E k \in 1..3 : k < i /\ Starts(t[i - k]) /\ SizeOf(t[i - k]) > k
    <3>1. PICK k \in 1..3 : k < i /\ Starts(t[i - k]) /\ SizeOf(t[i - k]) > k
      BY <2>3
    <3>2. raw[i - k] = t[i - k]
      BY <3>1, <2>1, <1>2
    <3> QED BY <2>1, <2>3, <3>1, <3>2 DEF GoodAt
  <2> QED BY <2>1, <2>2, <2>3 DEF GoodAt
<1>5. IsUtf8(raw)
  BY <1>2, <1>4, Utf8Of
<1>6. ASSUME HasControl(raw) PROVE HasControl(t)
  <2>1. PICK i \in 1..Len(raw) : ControlAt(raw, i)
    BY <1>2, <1>6, Utf8Of
  <2>2. i \in 1..n
    BY <1>2
  <2>3. raw[i] = t[i] /\ i \in 1..Len(t)
    BY <1>1, <1>2, <2>2
  <2>4. i < Len(raw) => i < Len(t) /\ raw[i + 1] = t[i + 1]
    BY <1>1, <1>2, <2>2
  <2>5. ControlAt(t, i)
    BY <2>1, <2>3, <2>4 DEF ControlAt
  <2> QED BY <2>3, <2>5, Utf8Of
<1> QED BY <1>2, <1>5, <1>6 DEF raw

\* The first character ends within four bytes.
LEMMA FirstEnds ==
    ASSUME NEW t \in Seq(Octet), IsUtf8(t), Len(t) > 4
    PROVE  \E s \in 1..4 : IsBoundary(t, s)
<1>1. Len(t) \in Nat
  BY LenProperties
<1> DEFINE s == SizeOf(t[1])
<1>2. s \in 1..4 /\ s + 1 \in 1..Len(t) /\ 1 \in 1..Len(t)
  BY <1>1, SizesOf
<1>3. Starts(t[1]) /\ \A k \in 1..(s - 1) : Continues(t[1 + k])
  <2>1. GoodAt(t, 1)
    BY <1>2, Utf8Of
  <2>2. ~\E k \in 1..3 : k < 1 /\ Starts(t[1 - k]) /\ SizeOf(t[1 - k]) > k
    OBVIOUS
  <2> QED BY <2>1, <2>2 DEF GoodAt
<1>4. s = SizeOf(t[1])
  OBVIOUS
<1> HIDE DEF s
<1>5. ASSUME Continues(t[s + 1]) PROVE FALSE
  <2>1. GoodAt(t, s + 1)
    BY <1>2, Utf8Of
  <2>2. PICK k \in 1..3 : k < s + 1 /\ Starts(t[s + 1 - k]) /\ SizeOf(t[s + 1 - k]) > k
    <3> DEFINE j == s + 1
    <3>1. ~Starts(t[j]) /\ GoodAt(t, j)
      BY <1>5, <2>1, SizesOf
    <3> HIDE DEF j
    <3>2. \E k \in 1..3 : k < j /\ Starts(t[j - k]) /\ SizeOf(t[j - k]) > k
      BY <3>1 DEF GoodAt
    <3> QED BY <1>2, <3>2 DEF j
  <2>3. CASE k = s
    <3>1. s + 1 - k = 1
      BY <1>2, <2>3
    <3>2. SizeOf(t[1]) > s
      BY <2>2, <2>3, <3>1
    <3> QED BY <1>2, <1>4, <3>2
  <2>4. CASE k # s
    <3>1. s - k \in 1..(s - 1) /\ 1 + (s - k) = s + 1 - k
      BY <1>2, <2>2, <2>4
    <3>2. Continues(t[1 + (s - k)])
      BY <1>3, <3>1
    <3> QED BY <2>2, <3>1, <3>2, SizesOf
  <2> QED BY <2>3, <2>4
<1> QED BY <1>2, <1>5 DEF IsBoundary

\* truncate_utf8: as much of a text as fits, and all of it a text; of a text that is not
\* empty, something; and no control character that was not there.
LEMMA TruncatedOf ==
    ASSUME NEW t \in Text, NEW max \in Nat
    PROVE  /\ TruncateUtf8(t, max) \in Seq(Octet) /\ IsUtf8(TruncateUtf8(t, max))
           /\ Len(TruncateUtf8(t, max)) \in 0..max
           /\ HasControl(TruncateUtf8(t, max)) => HasControl(t)
           /\ t # <<>> /\ max >= 4 => Len(TruncateUtf8(t, max)) > 0
<1>1. t \in Seq(Octet) /\ IsUtf8(t) /\ Len(t) \in Nat
  BY LenProperties DEF Text
<1>2. CASE Len(t) <= max
  <2>1. TruncateUtf8(t, max) = t
    BY <1>2 DEF TruncateUtf8
  <2>2. t # <<>> => Len(t) > 0
    BY <1>1, EmptySeq
  <2> QED BY <1>1, <1>2, <2>1, <2>2
<1>3. CASE Len(t) > max
  <2> DEFINE B == {n \in 0..max : IsBoundary(t, n)}
             Best(n) == IsBoundary(t, n) /\ \A m \in 0..max : IsBoundary(t, m) => m <= n
             n == CHOOSE k \in 0..max : Best(k)
  <2>1. 0 \in B
    BY DEF IsBoundary
  <2>2. B \in SUBSET Int /\ IsFiniteSet(B)
    <3>1. IsFiniteSet(0..max)
      BY FS_Interval
    <3> QED BY <3>1, FS_Subset
  <2>3. Max(B) \in B /\ \A y \in B : y <= Max(B)
    BY <2>1, <2>2, LeastAndGreatest
  <2>4. Max(B) \in 0..max /\ Best(Max(B))
    BY <2>3
  <2> HIDE DEF B
  <2>5. n \in 0..max /\ Best(n)
    BY <2>4
  <2>6. TruncateUtf8(t, max) = SubSeq(t, 1, n)
    <3>1. ~(Len(t) <= max)
      BY <1>1, <1>3
    <3> QED BY <3>1, Zenon DEF TruncateUtf8
  <2> HIDE DEF n
  <2>7. n \in Nat /\ n < Len(t) /\ IsBoundary(t, n)
    BY <1>1, <1>3, <2>5
  <2>8. /\ SubSeq(t, 1, n) \in Seq(Octet) /\ Len(SubSeq(t, 1, n)) = n /\ IsUtf8(SubSeq(t, 1, n))
        /\ HasControl(SubSeq(t, 1, n)) => HasControl(t)
    BY <1>1, <2>7, CutAtBoundary
  <2>9. ASSUME max >= 4 PROVE n > 0
    <3>1. Len(t) > 4
      BY <1>1, <1>3, <2>9
    <3>2. PICK s \in 1..4 : IsBoundary(t, s)
      BY <1>1, <3>1, FirstEnds
    <3>3. s \in 0..max
      BY <2>9
    <3>4. s <= n
      BY <2>5, <3>2, <3>3
    <3> QED BY <3>4, <2>7
  <2> QED BY <2>5, <2>6, <2>8, <2>9
<1> QED BY <1>1, <1>2, <1>3

\* Payload::Error is read back as it was written.
LEMMA ErrorReads ==
    ASSUME NEW p \in [type : {"Error"}, code : Word, message : Text],
           NEW b \in Seq(Octet), Agree(b, EncodePayload(p))
    PROVE  Reads(p, b)
<1> DEFINE e == EncodePayload(p)
           raw == TruncateUtf8(p.message, MAX_ERROR_TEXT)
           h == U16(p.code) \o U16(Len(raw))
           got == SubSeq(b, 5, 4 + Read16(b, 2))
           good == Read16(b, 2) <= MAX_ERROR_TEXT /\ Len(b) >= 4 + Read16(b, 2) /\ IsUtf8(got)
           read == [type |-> "Error", code |-> Read16(b, 0), message |-> got]
           fit == [type |-> "Error", code |-> p.code, message |-> raw]
<1>1. /\ p.type = "Error" /\ p = [type |-> "Error", code |-> p.code, message |-> p.message]
      /\ p.code \in Word /\ p.message \in Text
  OBVIOUS
<1>2. Len(b) \in Nat /\ MAX_ERROR_TEXT \in Nat /\ MAX_ERROR_TEXT <= 65535
  <2>1. MAX_ERROR_TEXT \in Word
    BY LimitsOf
  <2> QED BY <2>1, LenProperties DEF Word
<1>3. raw \in Seq(Octet) /\ IsUtf8(raw) /\ Len(raw) \in 0..MAX_ERROR_TEXT
  BY <1>1, <1>2, TruncatedOf
<1>4. e = h \o raw
  <2>1. e = EncodeSession(p)
    BY <1>1 DEF EncodePayload, SessionTypes, InputTypes, VideoTypes
  <2> QED BY <1>1, <2>1 DEF EncodeSession
<1>5. FromU8(CodeOf(p)) = "Error"
  BY <1>1, CodesOf DEF CodeOf, TypeCode
<1>6. DecodePayload(CodeOf(p), b) = Checked(b, 4, good, read)
  <2>1. DecodePayload(CodeOf(p), b) = DecodeSession("Error", b)
    BY <1>5 DEF DecodePayload, SessionTypes
  <2> QED BY <2>1 DEF DecodeSession
<1>7. Fitting(p) = fit
  BY <1>1 DEF Fitting
<1> HIDE DEF raw
<1>8. Len(h) = 4 /\ Has16(h, 0, p.code) /\ Has16(h, 2, Len(raw))
  BY DEF U16, Has16
<1>9. Len(raw) \in Word /\ Len(raw) \in Nat
  BY <1>2, <1>3 DEF Word
<1>10. h \in Seq(Octet)
  <2>1. Octets(p.code) /\ Octets(Len(raw))
    BY <1>1, <1>9, WordOf DEF Octets
  <2> QED BY <2>1 DEF Octets, U16
<1> HIDE DEF h
<1>11. /\ e \in Seq(Octet) /\ Len(e) = 4 + Len(raw) /\ Agree(b, h)
       /\ Len(b) >= 4 + Len(raw) => SubSeq(b, 5, 4 + Len(raw)) = raw
  <2>1. /\ h \o raw \in Seq(Octet) /\ Len(h \o raw) = Len(h) + Len(raw) /\ Agree(b, h)
        /\ Len(b) >= Len(h) + Len(raw) => SubSeq(b, Len(h) + 1, Len(h) + Len(raw)) = raw
    <3>1. raw \in Seq(Octet) /\ Agree(b, h \o raw)
      BY <1>3, <1>4
    <3> QED BY <1>10, <3>1, HeadAndRest
  <2> QED BY <1>4, <1>8, <2>1
<1>12. ASSUME Len(b) >= 4 PROVE Read16(b, 0) = p.code /\ Read16(b, 2) = Len(raw)
  <2>1. Agree(b, h) /\ Len(h) = 4
    BY <1>8, <1>11
  <2>2. Same(b, h, 4)
    BY <2>1, <1>12, AgreeSame
  <2>3. Has16(b, 0, p.code) /\ Has16(b, 2, Len(raw))
    BY <2>2, <1>8, SameHas
  <2> QED BY <1>1, <1>9, <2>3, Reads16
<1>13. ASSUME Len(b) >= 4 + Len(raw) PROVE good /\ read = fit
  <2>1. Len(b) >= 4
    BY <1>2, <1>9, <1>13
  <2>2. Read16(b, 0) = p.code /\ Read16(b, 2) = Len(raw)
    BY <2>1, <1>12
  <2>3. got = raw
    BY <2>2, <1>11, <1>13
  <2>4. Len(raw) <= MAX_ERROR_TEXT
    BY <1>2, <1>3
  <2> QED BY <1>3, <1>13, <2>2, <2>3, <2>4
<1>14. ASSUME Len(b) >= 4, good PROVE Len(b) >= 4 + Len(raw)
  BY <1>12, <1>14
<1> HIDE DEF read, good, fit
<1>u. Unread(p) = 0
  BY <1>1 DEF Unread
<1> QED BY <1>2, <1>9, <1>6, <1>7, <1>11, <1>13, <1>14, <1>u DEF Reads, Checked

\* Two flags share a byte.
LEMMA TwoBitsOf ==
    \A c, d \in BOOLEAN : /\ BitSet(Bit(c) + 2 * Bit(d), 1) = c /\ BitSet(Bit(c) + 2 * Bit(d), 2) = d
                          /\ Bit(c) + 2 * Bit(d) \in Octet
  BY DEF Bit, BitSet, Octet

\* Payload::TextInput is read back as it was written.
LEMMA TextInputReads ==
    ASSUME NEW p \in [type : {"TextInput"}, commit : BOOLEAN, preedit : BOOLEAN,
                      text : {t \in Text : t # <<>> /\ ~HasControl(t)}],
           NEW b \in Seq(Octet), Agree(b, EncodePayload(p))
    PROVE  Reads(p, b)
<1> DEFINE e == EncodePayload(p)
           raw == TruncateUtf8(p.text, MAX_TEXT_INPUT)
           bits == Bit(p.commit) + 2 * Bit(p.preedit)
           h == U16(Len(raw)) \o <<bits, 0>>
           got == SubSeq(b, 5, 4 + Read16(b, 0))
           good == /\ Read16(b, 0) \in 1..MAX_TEXT_INPUT /\ Len(b) >= 4 + Read16(b, 0)
                   /\ IsUtf8(got) /\ ~HasControl(got)
           read == [type |-> "TextInput", commit |-> BitSet(Read8(b, 2), 1),
                    preedit |-> BitSet(Read8(b, 2), 2), text |-> got]
           fit == [type |-> "TextInput", commit |-> p.commit, preedit |-> p.preedit, text |-> raw]
<1>1. /\ p.type = "TextInput"
      /\ p = [type |-> "TextInput", commit |-> p.commit, preedit |-> p.preedit, text |-> p.text]
      /\ p.commit \in BOOLEAN /\ p.preedit \in BOOLEAN
      /\ p.text \in Text /\ p.text # <<>> /\ ~HasControl(p.text)
  OBVIOUS
<1>2. Len(b) \in Nat /\ MAX_TEXT_INPUT \in Nat /\ MAX_TEXT_INPUT <= 65535 /\ MAX_TEXT_INPUT >= 4
  <2>1. MAX_TEXT_INPUT \in Word /\ MAX_TEXT_INPUT >= 4
    BY LimitsOf
  <2> QED BY <2>1, LenProperties DEF Word
<1>3. raw \in Seq(Octet) /\ IsUtf8(raw) /\ Len(raw) \in 0..MAX_TEXT_INPUT /\ Len(raw) > 0 /\ ~HasControl(raw)
  BY <1>1, <1>2, TruncatedOf
<1>4. e = h \o raw
  <2>1. e = EncodeInput(p)
    BY <1>1 DEF EncodePayload, SessionTypes, InputTypes, VideoTypes
  <2> QED BY <1>1, <2>1 DEF EncodeInput
<1>5. FromU8(CodeOf(p)) = "TextInput"
  BY <1>1, CodesOf DEF CodeOf, TypeCode
<1>6. DecodePayload(CodeOf(p), b) = Checked(b, 4, good, read)
  <2>1. DecodePayload(CodeOf(p), b) = DecodeKeys("TextInput", b)
    BY <1>5 DEF DecodePayload, SessionTypes
  <2> QED BY <2>1 DEF DecodeKeys
<1>7. Fitting(p) = fit
  BY <1>1 DEF Fitting
<1>8. bits \in Octet /\ BitSet(bits, 1) = p.commit /\ BitSet(bits, 2) = p.preedit
  BY <1>1, TwoBitsOf
<1> HIDE DEF raw, bits
<1>9. Len(h) = 4 /\ Has16(h, 0, Len(raw)) /\ h[3] = bits
  BY DEF U16, Has16
<1>10. Len(raw) \in Word /\ Len(raw) \in Nat
  BY <1>2, <1>3 DEF Word
<1>11. h \in Seq(Octet)
  <2>1. Octets(Len(raw)) /\ 0 \in Octet
    BY <1>10, WordOf DEF Octets, Octet
  <2> QED BY <1>8, <2>1 DEF Octets, U16
<1> HIDE DEF h
<1>12. /\ e \in Seq(Octet) /\ Len(e) = 4 + Len(raw) /\ Agree(b, h)
       /\ Len(b) >= 4 + Len(raw) => SubSeq(b, 5, 4 + Len(raw)) = raw
  <2>1. /\ h \o raw \in Seq(Octet) /\ Len(h \o raw) = Len(h) + Len(raw) /\ Agree(b, h)
        /\ Len(b) >= Len(h) + Len(raw) => SubSeq(b, Len(h) + 1, Len(h) + Len(raw)) = raw
    <3>1. raw \in Seq(Octet) /\ Agree(b, h \o raw)
      BY <1>3, <1>4
    <3> QED BY <1>11, <3>1, HeadAndRest
  <2> QED BY <1>4, <1>9, <2>1
<1>13. ASSUME Len(b) >= 4
       PROVE  /\ Read16(b, 0) = Len(raw)
              /\ BitSet(Read8(b, 2), 1) = p.commit /\ BitSet(Read8(b, 2), 2) = p.preedit
  <2>1. Agree(b, h) /\ Len(h) = 4
    BY <1>9, <1>12
  <2>2. Same(b, h, 4)
    BY <2>1, <1>13, AgreeSame
  <2>3. b[3] = h[3]
    BY <2>2 DEF Same
  <2>4. h[3] = bits /\ Has16(h, 0, Len(raw))
    BY <1>9
  <2>5. Has16(b, 0, Len(raw))
    BY <2>2, <2>4, SameHas
  <2>6. Read16(b, 0) = Len(raw)
    BY <1>10, <2>5, Reads16
  <2>7. Read8(b, 2) = bits
    BY <2>3, <2>4 DEF Read8
  <2> QED BY <1>8, <2>6, <2>7
<1>14. ASSUME Len(b) >= 4 + Len(raw) PROVE good /\ read = fit
  <2>1. Len(b) >= 4
    BY <1>2, <1>10, <1>14
  <2>2. /\ Read16(b, 0) = Len(raw)
        /\ BitSet(Read8(b, 2), 1) = p.commit /\ BitSet(Read8(b, 2), 2) = p.preedit
    BY <2>1, <1>13
  <2>3. got = raw
    BY <2>2, <1>12, <1>14
  <2>4. Len(raw) \in 1..MAX_TEXT_INPUT
    BY <1>2, <1>3
  <2> QED BY <1>3, <1>14, <2>2, <2>3, <2>4
<1>15. ASSUME Len(b) >= 4, good PROVE Len(b) >= 4 + Len(raw)
  BY <1>13, <1>15
<1> HIDE DEF read, good, fit
<1>u. Unread(p) = 0
  BY <1>1 DEF Unread
<1> QED BY <1>2, <1>10, <1>6, <1>7, <1>12, <1>14, <1>15, <1>u DEF Reads, Checked

-----------------------------------------------------------------------------
(* Any payload                                                             *)

Readable == SessionPayload \cup InputPayload \cup VideoPayload

\* Every message about the session is read back.
LEMMA SessionReads ==
    ASSUME NEW p \in SessionPayload, NEW b \in Seq(Octet), Agree(b, EncodePayload(p))
    PROVE  Reads(p, b) /\ p.type \in SessionTypes
<1>1. CASE p \in [type : {"Ping"}, token : Long]
  BY <1>1, PingReads DEF SessionTypes
<1>2. CASE p \in [type : {"Pong"}, token : Long, host_delay_us : Word]
  BY <1>2, PongReads DEF SessionTypes
<1>3. CASE p \in [type : {"EndSession"}, code : Word]
  BY <1>3, EndSessionReads DEF SessionTypes
<1>4. CASE p \in [type : {"Error"}, code : Word, message : Text]
  BY <1>4, ErrorReads DEF SessionTypes
<1>5. CASE p \in [type : {"QosReport"}, rtt_ms : Word, jitter_ms : Word, loss_permille : Word,
                  frames_decoded : Word, frames_dropped : Word, render_fps_q8 : Word,
                  playout_delay_ms : Word, decode_time_us : Word]
  BY <1>5, QosReportReads DEF SessionTypes
<1> QED BY <1>1, <1>2, <1>3, <1>4, <1>5 DEF SessionPayload

\* Every input event is read back.
LEMMA InputReads ==
    ASSUME NEW p \in InputPayload, NEW b \in Seq(Octet), Agree(b, EncodePayload(p))
    PROVE  Reads(p, b) /\ p.type \in InputTypes
<1>1. CASE p \in [type : {"MouseMove"}, display_id : Octet, flags : Octet, x_norm : Word, y_norm : Word,
                  modifiers : Word]
  BY <1>1, MouseMoveReads DEF InputTypes
<1>2. CASE p \in [type : {"MouseMoveRelative"}, dx : SignedWord, dy : SignedWord, modifiers : Word,
                  display_id : Octet]
  BY <1>2, MouseMoveRelativeReads DEF InputTypes
<1>3. CASE p \in [type : {"MouseButton"}, button : 1..5, action : 0..1, x_norm : Word, y_norm : Word,
                  modifiers : Word, display_id : Octet, click_count : 1..3]
  BY <1>3, MouseButtonReads DEF InputTypes
<1>4. CASE p \in [type : {"MouseWheel"}, delta_v : SignedWord, delta_h : SignedWord, modifiers : Word,
                  display_id : Octet, flags : Octet]
  BY <1>4, MouseWheelReads DEF InputTypes
<1>5. CASE p \in {q \in [type : {"KeyEvent"}, usage_page : Word, usage_id : Word, action : 0..2,
                         flags : Octet, modifiers : Word] : ValidUsage(q.usage_page, q.usage_id)}
  <2>1. /\ p \in [type : {"KeyEvent"}, usage_page : Word, usage_id : Word, action : 0..2,
                  flags : Octet, modifiers : Word]
        /\ ValidUsage(p.usage_page, p.usage_id)
    BY <1>5
  <2> QED BY <2>1, KeyEventReads DEF InputTypes
<1>6. CASE p \in [type : {"KeyStateSync"}, modifiers : Word, authoritative : BOOLEAN,
                  pressed : Seq({usage \in Word : ValidUsage(7, usage)})]
  BY <1>6, KeyStateSyncReads DEF InputTypes
<1>7. CASE p \in [type : {"TextInput"}, commit : BOOLEAN, preedit : BOOLEAN,
                  text : {t \in Text : t # <<>> /\ ~HasControl(t)}]
  BY <1>7, TextInputReads DEF InputTypes
<1> QED BY <1>1, <1>2, <1>3, <1>4, <1>5, <1>6, <1>7 DEF InputPayload

\* Every message about the picture is read back.
LEMMA VideoReads ==
    ASSUME NEW p \in VideoPayload, NEW b \in Seq(Octet), Agree(b, EncodePayload(p))
    PROVE  Reads(p, b) /\ p.type \in VideoTypes
<1>1. CASE p \in [type : {"RequestKeyframe"}, mode : 0..1, ltr_index : Octet, reason : Word]
  BY <1>1, RequestKeyframeReads DEF VideoTypes
<1>2. CASE p \in [type : {"LtrAck"}, ltr_index : Octet, frame_id : Word]
  BY <1>2, LtrAckReads DEF VideoTypes
<1>3. CASE p \in [type : {"CursorUpdate"}, shape_id : Long, x_norm : Word, y_norm : Word,
                  display_id : Octet, visible : BOOLEAN]
  BY <1>3, CursorUpdateReads DEF VideoTypes
<1> DEFINE Shapes == [type : {"CursorShape"}, shape_id : Long, width : 1..MAX_CURSOR_DIM,
                      height : 1..MAX_CURSOR_DIM, hotspot_x : Word, hotspot_y : Word, format : Octet,
                      data : Seq(Octet)]
           Fragments == [type : {"VideoFrame"}, frame_id : Long, fragment_index : Word,
                         fragment_count : 1..MAX_VIDEO_FRAGMENTS, kind : 0..2, temporal_layer : Octet,
                         pts_high : Long, pts_low : Long, data : Seq(Octet)]
<1>4. CASE p \in {q \in Shapes : /\ q.hotspot_x < q.width /\ q.hotspot_y < q.height
                                 /\ Len(q.data) <= MAX_CURSOR_DATA
                                 /\ q.format = 0 => Len(q.data) = q.width * q.height * 4}
  <2>1. /\ p \in Shapes /\ p.hotspot_x < p.width /\ p.hotspot_y < p.height
        /\ Len(p.data) <= MAX_CURSOR_DATA
        /\ p.format = 0 => Len(p.data) = p.width * p.height * 4
    BY <1>4
  <2>2. p.type \in VideoTypes
    BY <2>1 DEF VideoTypes
  <2> QED BY <2>1, <2>2, CursorShapeReads
<1>5. CASE p \in {q \in Fragments : q.fragment_index < q.fragment_count /\ Len(q.data) <= MAX_VIDEO_FRAGMENT}
  <2>1. p \in Fragments /\ p.fragment_index < p.fragment_count /\ Len(p.data) <= MAX_VIDEO_FRAGMENT
    BY <1>5
  <2>2. p.type \in VideoTypes
    BY <2>1 DEF VideoTypes
  <2> QED BY <2>1, <2>2, VideoFrameReads
<1> QED BY <1>1, <1>2, <1>3, <1>4, <1>5 DEF VideoPayload

\* What fits of a payload is one.
LEMMA FittingOf ==
    ASSUME NEW p \in Readable
    PROVE  Fitting(p) \in Readable
<1>1. CASE p \in [type : {"Error"}, code : Word, message : Text]
  <2> DEFINE raw == TruncateUtf8(p.message, MAX_ERROR_TEXT)
  <2>1. p.type = "Error" /\ p.code \in Word /\ p.message \in Text
        /\ p = [type |-> "Error", code |-> p.code, message |-> p.message]
    BY <1>1
  <2>2. Fitting(p) = [type |-> "Error", code |-> p.code, message |-> raw]
    BY <2>1 DEF Fitting
  <2>3. MAX_ERROR_TEXT \in Nat
    BY LimitsOf DEF Word
  <2>4. raw \in Text
    BY <2>1, <2>3, TruncatedOf DEF Text
  <2> HIDE DEF raw
  <2> QED BY <2>1, <2>2, <2>4 DEF Readable, SessionPayload
<1>2. CASE p \in [type : {"TextInput"}, commit : BOOLEAN, preedit : BOOLEAN,
                  text : {t \in Text : t # <<>> /\ ~HasControl(t)}]
  <2> DEFINE raw == TruncateUtf8(p.text, MAX_TEXT_INPUT)
  <2>1. /\ p.type = "TextInput"
        /\ p = [type |-> "TextInput", commit |-> p.commit, preedit |-> p.preedit, text |-> p.text]
        /\ p.commit \in BOOLEAN /\ p.preedit \in BOOLEAN
        /\ p.text \in Text /\ p.text # <<>> /\ ~HasControl(p.text)
    BY <1>2
  <2>2. Fitting(p) = [type |-> "TextInput", commit |-> p.commit, preedit |-> p.preedit, text |-> raw]
    BY <2>1 DEF Fitting
  <2>3. MAX_TEXT_INPUT \in Nat /\ MAX_TEXT_INPUT >= 4
    BY LimitsOf DEF Word
  <2>4. raw \in Seq(Octet) /\ IsUtf8(raw) /\ Len(raw) > 0 /\ ~HasControl(raw)
    BY <2>1, <2>3, TruncatedOf
  <2> HIDE DEF raw
  <2>5. raw # <<>>
    BY <2>4
  <2>6. raw \in {t \in Text : t # <<>> /\ ~HasControl(t)}
    BY <2>4, <2>5 DEF Text
  <2> QED BY <2>1, <2>2, <2>6 DEF Readable, InputPayload
<1>3. CASE p \in [type : {"KeyStateSync"}, modifiers : Word, authoritative : BOOLEAN,
                  pressed : Seq({usage \in Word : ValidUsage(7, usage)})]
  <2> DEFINE n == IF Len(p.pressed) < MAX_PRESSED_KEYS THEN Len(p.pressed) ELSE MAX_PRESSED_KEYS
             list == SubSeq(p.pressed, 1, n)
  <2>1. /\ p.type = "KeyStateSync"
        /\ p = [type |-> "KeyStateSync", modifiers |-> p.modifiers, authoritative |-> p.authoritative,
                pressed |-> p.pressed]
        /\ p.modifiers \in Word /\ p.authoritative \in BOOLEAN
        /\ p.pressed \in Seq({usage \in Word : ValidUsage(7, usage)})
    BY <1>3
  <2>2. Fitting(p) = [type |-> "KeyStateSync", modifiers |-> p.modifiers,
                      authoritative |-> p.authoritative, pressed |-> list]
    BY <2>1 DEF Fitting
  <2>3. Len(p.pressed) \in Nat /\ MAX_PRESSED_KEYS \in Octet
    BY <2>1, LimitsOf, LenProperties
  <2>4. n \in Nat /\ n <= Len(p.pressed)
    BY <2>3, SmallerOf
  <2> HIDE DEF n
  <2>5. list \in Seq({usage \in Word : ValidUsage(7, usage)})
    BY <2>1, <2>4, StartOf
  <2> HIDE DEF list
  <2> QED BY <2>1, <2>2, <2>5 DEF Readable, InputPayload
<1>4. p \in Readable => \/ p.type \notin {"Error", "TextInput", "KeyStateSync"}
                        \/ p \in [type : {"Error"}, code : Word, message : Text]
                        \/ p \in [type : {"TextInput"}, commit : BOOLEAN, preedit : BOOLEAN,
                                  text : {t \in Text : t # <<>> /\ ~HasControl(t)}]
                        \/ p \in [type : {"KeyStateSync"}, modifiers : Word, authoritative : BOOLEAN,
                                  pressed : Seq({usage \in Word : ValidUsage(7, usage)})]
  BY DEF Readable, SessionPayload, InputPayload, VideoPayload
<1>5. CASE p.type \notin {"Error", "TextInput", "KeyStateSync"}
  <2>1. Agree(<<>>, EncodePayload(p)) /\ <<>> \in Seq(Octet)
    BY DEF Agree
  <2>2. p.type \in SessionTypes \cup InputTypes \cup VideoTypes
    BY <2>1, SessionReads, InputReads, VideoReads DEF Readable
  <2>3. Fitting(p) = p
    BY <1>5, <2>2 DEF Fitting, Opaque
  <2> QED BY <2>3
<1> QED BY <1>1, <1>2, <1>3, <1>4, <1>5

Payload == Readable \cup OpaquePayload

\* What is common to all payloads.
LEMMA PayloadOf ==
    ASSUME NEW p \in Payload
    PROVE  /\ EncodePayload(p) \in Seq(Octet) /\ CodeOf(p) \in Octet
           /\ p \in Readable <=> ~Opaque(p)
<1>1. "Unknown" \notin SessionTypes \cup InputTypes \cup VideoTypes
  BY DEF SessionTypes, InputTypes, VideoTypes
<1>2. CASE p \in Readable
  <2>1. Agree(<<>>, EncodePayload(p)) /\ <<>> \in Seq(Octet)
    BY DEF Agree
  <2>2. Reads(p, <<>>) /\ p.type \in SessionTypes \cup InputTypes \cup VideoTypes
    BY <1>2, <2>1, SessionReads, InputReads, VideoReads DEF Readable
  <2>3. p.type \in DOMAIN TypeCode
    BY <2>2 DEF TypeCode, SessionTypes, InputTypes, VideoTypes
  <2>4. CodeOf(p) \in Octet
    <3>1. p.type # "Unknown"
      BY <1>1, <2>2
    <3> QED BY <2>3, <3>1, CodesOf DEF CodeOf
  <2> QED BY <1>2, <2>2, <2>4 DEF Reads, Opaque
<1>3. CASE p \in [type : OpaqueTypes, body : Seq(Octet)]
  <2>1. p.type \in OpaqueTypes /\ p.body \in Seq(Octet)
    BY <1>3
  <2>2. p.type \in DOMAIN TypeCode /\ p.type \notin SessionTypes \cup InputTypes \cup VideoTypes
    BY <2>1 DEF OpaqueTypes
  <2>3. p.type # "Unknown"
    BY <2>2 DEF TypeCode
  <2>4. CodeOf(p) \in Octet
    BY <2>2, <2>3, CodesOf DEF CodeOf
  <2>5. EncodePayload(p) = p.body
    BY <2>2 DEF EncodePayload
  <2>6. p \notin Readable
    <3>1. Agree(<<>>, EncodePayload(p)) /\ <<>> \in Seq(Octet)
      BY DEF Agree
    <3> QED BY <2>2, <3>1, SessionReads, InputReads, VideoReads DEF Readable
  <2> QED BY <2>1, <2>2, <2>4, <2>5, <2>6 DEF Opaque
<1>4. CASE p \in [type : {"Unknown"}, msg_type : Octet, body : Seq(Octet)]
  <2>1. p.type = "Unknown" /\ p.msg_type \in Octet /\ p.body \in Seq(Octet)
    BY <1>4
  <2>2. p.type \notin SessionTypes \cup InputTypes \cup VideoTypes
    BY <1>1, <2>1
  <2>3. CodeOf(p) \in Octet
    BY <2>1 DEF CodeOf
  <2>4. EncodePayload(p) = p.body
    BY <2>2 DEF EncodePayload
  <2>5. p \notin Readable
    <3>1. Agree(<<>>, EncodePayload(p)) /\ <<>> \in Seq(Octet)
      BY DEF Agree
    <3> QED BY <2>2, <3>1, SessionReads, InputReads, VideoReads DEF Readable
  <2> QED BY <2>1, <2>2, <2>3, <2>4, <2>5 DEF Opaque
<1>5. p \in OpaquePayload => \/ p \in [type : OpaqueTypes, body : Seq(Octet)]
                             \/ p \in [type : {"Unknown"}, msg_type : Octet, body : Seq(Octet)]
  BY DEF OpaquePayload
<1> QED BY <1>2, <1>3, <1>4, <1>5 DEF Payload

\* A body that is not read is handed on as it is.
LEMMA OpaqueReads ==
    ASSUME NEW p \in OpaquePayload
    PROVE  DecodePayload(CodeOf(p), EncodePayload(p)) = Fitting(p) /\ Fitting(p) # Refused
<1> DEFINE fit == [type |-> "Unknown", msg_type |-> CodeOf(p), body |-> p.body]
<1>1. "Unknown" \notin SessionTypes \cup InputTypes \cup VideoTypes
  BY DEF SessionTypes, InputTypes, VideoTypes
<1>2. /\ p.type \notin SessionTypes \cup InputTypes \cup VideoTypes /\ p.body \in Seq(Octet)
      /\ FromU8(CodeOf(p)) = p.type
  <2>1. CASE p \in [type : OpaqueTypes, body : Seq(Octet)]
    <3>1. p.type \in DOMAIN TypeCode /\ p.type \notin SessionTypes \cup InputTypes \cup VideoTypes
      BY <2>1 DEF OpaqueTypes
    <3>2. p.type # "Unknown"
      BY <3>1 DEF TypeCode
    <3>3. CodeOf(p) = TypeCode[p.type]
      BY <3>2 DEF CodeOf
    <3> QED BY <2>1, <3>1, <3>3, CodesOf
  <2>2. CASE p \in {q \in [type : {"Unknown"}, msg_type : Octet, body : Seq(Octet)] :
                       FromU8(q.msg_type) = "Unknown"}
    <3>1. p.type = "Unknown" /\ FromU8(p.msg_type) = "Unknown" /\ p.body \in Seq(Octet)
      BY <2>2
    <3> QED BY <1>1, <3>1 DEF CodeOf
  <2> QED BY <2>1, <2>2 DEF OpaquePayload
<1>3. EncodePayload(p) = p.body
  BY <1>2 DEF EncodePayload
<1>4. Fitting(p) = fit
  BY <1>2 DEF Fitting, Opaque, SessionTypes, InputTypes
<1>5. DecodePayload(CodeOf(p), p.body) = fit
  BY <1>2 DEF DecodePayload, SessionTypes, InputTypes, VideoTypes
<1>6. CodeOf(p) \in Octet
  BY PayloadOf DEF Payload
<1>7. fit \in [type : {"Unknown"}, msg_type : Octet, body : Seq(Octet)]
  BY <1>2, <1>6
<1>8. fit # Refused
  BY <1>7, WireAssumption
<1> QED BY <1>3, <1>4, <1>5, <1>8

\* The bytes nobody reads are among those that are written.
LEMMA UnreadOf ==
    ASSUME NEW p \in Readable
    PROVE  Unread(p) \in Nat /\ Unread(p) <= Len(EncodePayload(p))
<1>1. CASE p.type = "Pong"
  <2>1. EncodePayload(p) = EncodeSession(p)
    BY <1>1 DEF EncodePayload, SessionTypes, InputTypes, VideoTypes
  <2>2. Len(EncodePayload(p)) = 8
    BY <1>1, <2>1 DEF EncodeSession, U16, U32
  <2> QED BY <1>1, <2>2 DEF Unread
<1>2. CASE p.type # "Pong"
  <2>1. EncodePayload(p) \in Seq(Octet)
    BY PayloadOf DEF Payload
  <2> QED BY <1>2, <2>1, LenProperties DEF Unread
<1> QED BY <1>1, <1>2

\* Every payload that is not opaque is read back.
LEMMA ReadableReads ==
    ASSUME NEW p \in Readable, NEW b \in Seq(Octet), Agree(b, EncodePayload(p))
    PROVE  Reads(p, b) /\ Fitting(p) # Refused
<1>1. Reads(p, b)
  BY SessionReads, InputReads, VideoReads DEF Readable
<1>2. Refused \notin Readable
  BY WireAssumption DEF Readable
<1>3. Fitting(p) \in Readable
  BY FittingOf
<1> QED BY <1>1, <1>2, <1>3

-----------------------------------------------------------------------------
(* Frames                                                                  *)

Message == [payload : Payload, flags : 0..15, sequence : Word, timestamp_ms : Long]

\* ControlFrame::encode: eight bytes of header, then the payload's.
HeaderOf(m) ==
    <<16 * PROTO_VERSION + m.flags, CodeOf(m.payload)>> \o U16(m.sequence) \o U32(m.timestamp_ms)

\* The header, field by field.
LEMMA HeaderBytes ==
    ASSUME NEW m \in Message
    PROVE  /\ HeaderOf(m) \in Seq(Octet) /\ Len(HeaderOf(m)) = 8
           /\ HeaderOf(m)[1] = 16 + m.flags /\ HeaderOf(m)[2] = CodeOf(m.payload)
           /\ Has16(HeaderOf(m), 2, m.sequence) /\ Has32(HeaderOf(m), 4, m.timestamp_ms)
<1>1. m.payload \in Payload /\ m.flags \in 0..15 /\ m.sequence \in Word /\ m.timestamp_ms \in Long
  BY DEF Message
<1> DEFINE first == 16 * PROTO_VERSION + m.flags
           code == CodeOf(m.payload)
<1>2. first \in Octet /\ first = 16 + m.flags
  BY <1>1 DEF Octet, PROTO_VERSION
<1>3. code \in Octet
  BY <1>1, PayloadOf
<1>4. Octets(m.sequence) /\ Octets(m.timestamp_ms \div 65536) /\ Octets(m.timestamp_ms % 65536)
  BY <1>1, WordOf, LongOf DEF Octets
<1>5. HeaderOf(m) = <<first, code>> \o U16(m.sequence) \o U32(m.timestamp_ms)
  BY DEF HeaderOf
<1> HIDE DEF first, code
<1>6. HeaderOf(m) \in Seq(Octet)
  BY <1>2, <1>3, <1>4, <1>5 DEF Octets, U16, U32
<1>7. /\ Len(HeaderOf(m)) = 8 /\ HeaderOf(m)[1] = first /\ HeaderOf(m)[2] = code
      /\ Has16(HeaderOf(m), 2, m.sequence) /\ Has32(HeaderOf(m), 4, m.timestamp_ms)
  BY <1>5 DEF U16, U32, Has16, Has32
<1> QED BY <1>2, <1>6, <1>7 DEF code

\* A frame is its header and its body.
LEMMA EncodeOf ==
    ASSUME NEW m \in Message
    PROVE  /\ Encode(m) = HeaderOf(m) \o EncodePayload(m.payload)
           /\ Encode(m) \in Seq(Octet) /\ Len(Encode(m)) = 8 + Len(EncodePayload(m.payload))
           /\ Len(EncodePayload(m.payload)) \in Nat /\ Len(Encode(m)) \in Nat
           /\ \A k \in 1..Len(EncodePayload(m.payload)) : Encode(m)[8 + k] = EncodePayload(m.payload)[k]
<1> DEFINE h == HeaderOf(m)
           e == EncodePayload(m.payload)
<1>1. Encode(m) = h \o e
  BY DEF Encode, HeaderOf
<1>2. h \in Seq(Octet) /\ e \in Seq(Octet)
  <2>1. m.payload \in Payload
    BY DEF Message
  <2> QED BY <2>1, HeaderBytes, PayloadOf
<1>3. Len(h) = 8
  BY HeaderBytes
<1> HIDE DEF h, e
<1>4. /\ h \o e \in Seq(Octet) /\ Len(h \o e) = Len(h) + Len(e) /\ Len(e) \in Nat
      /\ \A k \in 1..Len(e) : (h \o e)[Len(h) + k] = e[k]
  BY <1>2, JoinOf
<1>5. Len(h \o e) \in Nat
  BY <1>3, <1>4
<1> QED BY <1>1, <1>3, <1>4, <1>5 DEF h, e

\* ControlFrame::decode, of what encode wrote, more, or less.
LEMMA FrameReads ==
    ASSUME NEW m \in Message, NEW f \in Seq(Octet), Agree(f, Encode(m))
    PROVE  /\ ~Opaque(m.payload) =>
                Decode(f) = IF Len(f) >= Len(Encode(m)) - Unread(m.payload) THEN Carried(m) ELSE Refused
           /\ Len(f) = Len(Encode(m)) => Decode(f) = Carried(m)
<1> DEFINE p == m.payload
           h == HeaderOf(m)
           e == EncodePayload(p)
           body == SubSeq(f, HEADER_LEN + 1, Len(f))
           payload == DecodePayload(f[2], body)
<1>1. /\ m = [payload |-> p, flags |-> m.flags, sequence |-> m.sequence, timestamp_ms |-> m.timestamp_ms]
      /\ p \in Payload /\ m.flags \in 0..15 /\ m.sequence \in Word /\ m.timestamp_ms \in Long
  BY DEF Message
<1>2. /\ Encode(m) = h \o e /\ Len(Encode(m)) = 8 + Len(e) /\ Len(e) \in Nat
      /\ \A k \in 1..Len(e) : Encode(m)[8 + k] = e[k]
  BY EncodeOf
<1>3. Len(f) \in Nat /\ h \in Seq(Octet) /\ e \in Seq(Octet) /\ Len(h) = 8
  BY <1>1, HeaderBytes, PayloadOf, LenProperties
<1>4. Carried(m) = [payload |-> Fitting(p), flags |-> m.flags, sequence |-> m.sequence,
                    timestamp_ms |-> m.timestamp_ms]
  BY <1>1 DEF Carried
<1>5. ASSUME Len(f) < 8 PROVE Decode(f) = Refused
  BY <1>5 DEF Decode, HEADER_LEN
<1>6. ASSUME Len(f) >= 8
      PROVE  /\ f[1] \div 16 = 1 /\ f[1] % 16 = m.flags /\ f[2] = CodeOf(p)
             /\ Read16(f, 2) = m.sequence /\ Read32(f, 4) = m.timestamp_ms
  <2>1. Agree(f, h)
    <3>1. Agree(f, h \o e)
      BY <1>2
    <3> QED BY <1>3, <3>1, HeadAndRest
  <2>2. Same(f, h, 8)
    BY <2>1, <1>3, <1>6, AgreeSame
  <2>3. h[1] = 16 + m.flags /\ h[2] = CodeOf(p) /\ Has16(h, 2, m.sequence) /\ Has32(h, 4, m.timestamp_ms)
    BY HeaderBytes
  <2>4. f[1] = h[1] /\ f[2] = h[2]
    BY <2>2 DEF Same
  <2>5. Has16(f, 2, m.sequence) /\ Has32(f, 4, m.timestamp_ms)
    BY <2>2, <2>3, SameHas
  <2>6. Read16(f, 2) = m.sequence /\ Read32(f, 4) = m.timestamp_ms
    BY <1>1, <2>5, Reads16, Reads32
  <2>7. (16 + m.flags) \div 16 = 1 /\ (16 + m.flags) % 16 = m.flags
    BY <1>1
  <2> QED BY <2>3, <2>4, <2>6, <2>7
<1>7. ASSUME Len(f) >= 8
      PROVE  /\ body \in Seq(Octet) /\ Len(body) = Len(f) - 8
             /\ \A k \in 1..(Len(f) - 8) : body[k] = f[8 + k]
  <2>1. body = SubSeq(f, 9, Len(f))
    BY DEF HEADER_LEN
  <2>2. \A k \in 9..Len(f) : f[k] \in Octet
    BY <1>3, ElementOfSeq
  <2>3. 9 \in Int /\ Len(f) \in Int
    BY <1>3
  <2>4. /\ SubSeq(f, 9, Len(f)) \in Seq(Octet)
        /\ Len(SubSeq(f, 9, Len(f))) = (IF 9 <= Len(f) THEN Len(f) - 9 + 1 ELSE 0)
        /\ \A k \in 1..(Len(f) - 9 + 1) : SubSeq(f, 9, Len(f))[k] = f[9 + k - 1]
    BY <2>2, <2>3, SubSeqProperties
  <2>5. /\ Len(f) - 9 + 1 = Len(f) - 8 /\ (IF 9 <= Len(f) THEN Len(f) - 9 + 1 ELSE 0) = Len(f) - 8
        /\ \A k \in 1..(Len(f) - 8) : 9 + k - 1 = 8 + k
    BY <1>3, <1>7
  <2> HIDE DEF body
  <2>6. /\ body \in Seq(Octet) /\ Len(body) = Len(f) - 8
        /\ \A k \in 1..(Len(f) - 8) : body[k] = f[9 + k - 1]
    BY <2>1, <2>4, <2>5
  <2> QED BY <2>5, <2>6
<1> HIDE DEF body
<1>8. ASSUME Len(f) >= 8 PROVE Agree(body, e)
  <2>1. \A k \in 1..Len(Encode(m)) : k <= Len(f) => f[k] = Encode(m)[k]
    BY DEF Agree
  <2>2. ASSUME NEW k \in 1..Len(e), k <= Len(body) PROVE body[k] = e[k]
    <3>1. Len(body) = Len(f) - 8
      BY <1>7, <1>8
    <3>2. k \in 1..(Len(f) - 8) /\ 8 + k \in 1..Len(Encode(m)) /\ 8 + k <= Len(f)
      BY <1>2, <1>3, <2>2, <3>1
    <3>3. body[k] = f[8 + k]
      BY <1>7, <1>8, <3>2
    <3>4. f[8 + k] = Encode(m)[8 + k]
      BY <2>1, <3>2
    <3>5. Encode(m)[8 + k] = e[k]
      BY <1>2
    <3> QED BY <3>3, <3>4, <3>5
  <2>3. Len(body) \in Nat
    BY <1>3, <1>7, <1>8
  <2> QED BY <2>2, <2>3 DEF Agree
<1>9. ASSUME Len(f) >= 8
      PROVE  /\ payload = Refused => Decode(f) = Refused
             /\ payload = Fitting(p) /\ Fitting(p) # Refused => Decode(f) = Carried(m)
  <2>1. Decode(f) = IF payload = Refused
                    THEN Refused
                    ELSE [payload |-> payload, flags |-> f[1] % 16,
                          sequence |-> Read16(f, 2), timestamp_ms |-> Read32(f, 4)]
    <3>1. ~(Len(f) < HEADER_LEN \/ f[1] \div 16 # PROTO_VERSION)
      BY <1>3, <1>6, <1>9 DEF HEADER_LEN, PROTO_VERSION
    <3> QED BY <3>1 DEF Decode, body
  <2>2. f[1] % 16 = m.flags /\ Read16(f, 2) = m.sequence /\ Read32(f, 4) = m.timestamp_ms
    BY <1>6, <1>9
  <2> HIDE DEF payload
  <2> QED BY <1>4, <2>1, <2>2
<1>10. ASSUME ~Opaque(p)
       PROVE  Decode(f) = IF Len(f) >= (8 + Len(e)) - Unread(p) THEN Carried(m) ELSE Refused
  <2>1. p \in Readable
    BY <1>1, <1>10, PayloadOf
  <2>u. Unread(p) \in Nat /\ Unread(p) <= Len(e)
    BY <1>2, <2>1, UnreadOf
  <2>2. CASE Len(f) >= 8
    <3>1. Reads(p, body) /\ Fitting(p) # Refused
      BY <2>1, <2>2, <1>7, <1>8, ReadableReads
    <3>2. payload = DecodePayload(CodeOf(p), body)
      BY <1>6, <2>2
    <3>3. payload = IF Len(body) >= Len(e) - Unread(p) THEN Fitting(p) ELSE Refused
      BY <3>1, <3>2 DEF Reads
    <3> HIDE DEF payload
    <3>4. Len(f) >= (8 + Len(e)) - Unread(p) <=> Len(body) >= Len(e) - Unread(p)
      BY <1>2, <1>3, <1>7, <2>2, <2>u
    <3> QED BY <1>9, <2>2, <3>1, <3>3, <3>4
  <2>3. CASE Len(f) < 8
    <3>1. ~(Len(f) >= (8 + Len(e)) - Unread(p))
      BY <1>2, <1>3, <2>3, <2>u
    <3> QED BY <1>5, <2>3, <3>1
  <2> QED BY <1>3, <2>2, <2>3
<1>11. ASSUME Opaque(p), Len(f) = 8 + Len(e) PROVE Decode(f) = Carried(m)
  <2>1. p \in OpaquePayload
    BY <1>1, <1>11, PayloadOf DEF Payload
  <2>2. Len(f) >= 8
    BY <1>2, <1>3, <1>11
  <2>3. body = e
    <3>1. body \in Seq(Octet) /\ Len(body) = Len(e)
      BY <1>2, <1>3, <1>7, <1>11, <2>2
    <3>2. \A k \in 1..Len(body) : body[k] = e[k]
      BY <1>8, <2>2, <3>1 DEF Agree
    <3> QED BY <1>3, <3>1, <3>2, SeqEqual
  <2>4. payload = DecodePayload(CodeOf(p), e)
    BY <1>6, <2>2, <2>3
  <2>5. payload = Fitting(p) /\ Fitting(p) # Refused
    BY <2>1, <2>4, OpaqueReads
  <2> QED BY <1>9, <2>2, <2>5
<1>12. Len(Encode(m)) = 8 + Len(e)
  BY <1>2
<1>13. Len(f) = 8 + Len(e) /\ ~Opaque(p) => Len(f) >= (8 + Len(e)) - Unread(p)
  BY <1>2, <1>3 DEF Unread
<1> QED BY <1>10, <1>11, <1>12, <1>13

-----------------------------------------------------------------------------
(* The wire                                                                *)

\* The frame that arrives is the one that was sent, but for its end.
WireInv ==
    /\ message \in Message
    /\ bytes \in Seq(Octet) /\ off \in Int
    /\ Len(bytes) = Len(Encode(message)) + off
    /\ Agree(bytes, Encode(message))

\* A frame starts whole.
LEMMA InitWireInv == WireInit => WireInv
<1> SUFFICES ASSUME NEW m \in Messages, message = m, bytes = Encode(m), off = 0 PROVE WireInv
  BY DEF WireInit
<1>1. m \in Message
  BY WireAssumption DEF Message, Payload, Readable
<1>2. Encode(m) \in Seq(Octet) /\ Len(Encode(m)) \in Nat
  BY <1>1, EncodeOf
<1> QED BY <1>1, <1>2 DEF WireInv, Agree

\* It loses its last byte, or gains one after its end.
LEMMA NextWireInv == WireInv /\ [WireNext]_wireVars => WireInv'
<1> SUFFICES ASSUME WireInv, [WireNext]_wireVars PROVE WireInv'
  OBVIOUS
<1> DEFINE e == Encode(message)
<1>1. /\ message \in Message /\ bytes \in Seq(Octet) /\ off \in Int
      /\ Len(bytes) = Len(e) + off /\ Len(bytes) \in Nat
      /\ \A k \in 1..Len(e) : k <= Len(bytes) => bytes[k] = e[k]
  BY DEF WireInv, Agree
<1>2. Len(e) \in Nat
  BY <1>1, EncodeOf
<1>3. CASE EndsSooner
  <2>1. bytes # <<>> /\ bytes' = Front(bytes) /\ off' = off - 1 /\ message' = message
    BY <1>3 DEF EndsSooner
  <2>2. Len(bytes) > 0
    BY <1>1, <2>1, EmptySeq
  <2> DEFINE n == Len(bytes) - 1
  <2>3. n \in Nat /\ n <= Len(bytes)
    BY <1>1, <2>2
  <2>4. bytes' = SubSeq(bytes, 1, n)
    BY <2>1 DEF Front
  <2> HIDE DEF n
  <2>5. bytes' \in Seq(Octet) /\ Len(bytes') = n /\ \A k \in 1..n : bytes'[k] = bytes[k]
    BY <1>1, <2>3, <2>4, StartOf
  <2>6. Encode(message') = e
    BY <2>1
  <2> HIDE DEF e
  <2>7. \A k \in 1..Len(e) : k <= Len(bytes') => bytes'[k] = e[k]
    BY <1>1, <1>2, <2>3, <2>5
  <2>8. off' \in Int /\ Len(bytes') = Len(e) + off' /\ Len(bytes') \in Nat
    BY <1>1, <1>2, <2>1, <2>3, <2>5 DEF n
  <2> QED BY <1>1, <2>1, <2>5, <2>6, <2>7, <2>8 DEF WireInv, Agree
<1>4. CASE HasMore
  <2>1. off >= 0 /\ bytes' = Append(bytes, 255) /\ off' = off + 1 /\ message' = message
    BY <1>4 DEF HasMore
  <2>2. 255 \in Octet
    BY DEF Octet
  <2>3. /\ bytes' \in Seq(Octet) /\ Len(bytes') = Len(bytes) + 1
        /\ \A k \in DOMAIN bytes : bytes'[k] = bytes[k]
    BY <1>1, <2>1, <2>2, AppendOf
  <2>4. DOMAIN bytes = 1..Len(bytes)
    BY <1>1, LenProperties
  <2>5. Encode(message') = e
    BY <2>1
  <2> HIDE DEF e
  <2>6. \A k \in 1..Len(e) : k <= Len(bytes') => bytes'[k] = e[k]
    <3> TAKE k \in 1..Len(e)
    <3>1. k \in 1..Len(bytes)
      BY <1>1, <1>2, <2>1
    <3> QED BY <1>1, <2>3, <2>4, <3>1
  <2>7. off' \in Int /\ Len(bytes') = Len(e) + off' /\ Len(bytes') \in Nat
    BY <1>1, <1>2, <2>1, <2>3
  <2> QED BY <1>1, <2>1, <2>3, <2>5, <2>6, <2>7 DEF WireInv, Agree
<1>5. CASE UNCHANGED wireVars
  BY <1>5 DEF WireInv, wireVars
<1> QED BY <1>3, <1>4, <1>5 DEF WireNext

\* What arrives is read as what was sent, or not at all.
LEMMA WireInvIsFaithful == WireInv => WireIsFaithful
<1> SUFFICES ASSUME WireInv PROVE WireIsFaithful
  OBVIOUS
<1>1. /\ message \in Message /\ bytes \in Seq(Octet) /\ off \in Int
      /\ Len(bytes) = Len(Encode(message)) + off /\ Agree(bytes, Encode(message))
  BY DEF WireInv
<1>2. Len(Encode(message)) \in Nat
  BY <1>1, EncodeOf
<1>3. /\ ~Opaque(message.payload) =>
            Decode(bytes) = IF Len(bytes) >= Len(Encode(message)) - Unread(message.payload)
                            THEN Carried(message) ELSE Refused
      /\ Len(bytes) = Len(Encode(message)) => Decode(bytes) = Carried(message)
  BY <1>1, FrameReads
<1>4. /\ off = 0 => Len(bytes) = Len(Encode(message))
      /\ Len(bytes) >= Len(Encode(message)) - Unread(message.payload) <=> off >= -Unread(message.payload)
      /\ off > 0 => off >= -Unread(message.payload)
  BY <1>1, <1>2 DEF Unread
<1>5. ReadsWhatWasWritten
  BY <1>3, <1>4 DEF ReadsWhatWasWritten
<1>6. StubsAreRefused
  BY <1>3, <1>4 DEF StubsAreRefused
<1> QED BY <1>5, <1>6 DEF WireIsFaithful

\* A frame that is whole or extended means what was written, and one that is cut nothing (but
\* for the two reserved bytes of a Pong), whatever the fields of the message.
THEOREM WireStaysFaithful == WireSpec => []WireIsFaithful
<1>1. WireSpec => []WireInv
  BY InitWireInv, NextWireInv, PTL DEF WireSpec
<1> QED BY <1>1, WireInvIsFaithful, PTL
===============================================================================
