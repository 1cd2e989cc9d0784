----------------------------- MODULE WireFormat -----------------------------
(***************************************************************************)
(* The binary control frames of rda-proto (control.rs): an eight byte      *)
(* header and a body whose layout the message type decides, all of it      *)
(* big-endian. What a sender encodes and what a receiver reads are two     *)
(* pieces of code that agree by hand, field by field.                      *)
(*                                                                         *)
(* A byte is a number below 256, a text its UTF-8 bytes, and a frame a     *)
(* sequence of bytes. The reader's errors are all Refused. Between the two *)
(* ends a frame may have lost its end or gained one: the peer is of        *)
(* another version.                                                        *)
(***************************************************************************)
EXTENDS Integers, Sequences, SequencesExt

CONSTANTS
    Refused,                                \* DecodeError
    MAX_PRESSED_KEYS, MAX_TEXT_INPUT,
    MAX_ERROR_TEXT,                         \* 256 in the code, without a name
    MAX_CURSOR_DIM, MAX_CURSOR_DATA,
    MAX_VIDEO_FRAGMENT, MAX_VIDEO_FRAGMENTS,
    Messages,                               \* the payloads that are sent
    MaxOff                                  \* bound: bytes cut off or added

VARIABLES
    message,   \* the payload and the sequence number that went into the frame
    bytes,     \* the frame as it arrives
    off        \* how many bytes it has lost (negative) or gained

wireVars == <<message, bytes, off>>

PROTO_VERSION == 1
HEADER_LEN == 8

-----------------------------------------------------------------------------
(* Message types and channels                                              *)

\* MessageType, and its values on the wire
TypeCode ==
    [Hello |-> 1, HelloAck |-> 2, AuthRequest |-> 3, AuthResponse |-> 4, SessionReady |-> 5,
     Ping |-> 6, Pong |-> 7, Pause |-> 8, Resume |-> 9, EndSession |-> 10, Error |-> 11,
     AuthConfirm |-> 12,
     MouseMove |-> 16, MouseMoveRelative |-> 17, MouseButton |-> 18, MouseWheel |-> 19,
     KeyEvent |-> 20, KeyStateSync |-> 21, TextInput |-> 22,
     DisplayList |-> 48, DisplaySelect |-> 49, QualityHint |-> 50, RequestKeyframe |-> 51,
     LtrAck |-> 52, CursorUpdate |-> 53, CursorShape |-> 54, VideoFrame |-> 55,
     ClipboardOffer |-> 64, ClipboardRequest |-> 65, ClipboardData |-> 66,
     QosReport |-> 80]

\* MessageType::from_u8
FromU8(code) ==
    IF \E t \in DOMAIN TypeCode : TypeCode[t] = code
    THEN CHOOSE t \in DOMAIN TypeCode : TypeCode[t] = code
    ELSE "Unknown"

\* MessageType::channel
ChannelOf(type) ==
    CASE type \in {"MouseMove", "MouseMoveRelative"} -> "input-p"
      [] type \in {"MouseButton", "MouseWheel", "KeyEvent", "KeyStateSync", "TextInput"} -> "input-k"
      [] type \in {"CursorUpdate", "CursorShape"} -> "cursor"
      [] type = "VideoFrame" -> "video"
      [] type \in {"ClipboardOffer", "ClipboardRequest", "ClipboardData"} -> "clip"
      [] type = "QosReport" -> "stats"
      [] OTHER -> "ctl"

-----------------------------------------------------------------------------
(* Numbers and texts                                                       *)

High(v) == v \div 256
Low(v) == v % 256
U16(v) == <<High(v), Low(v)>>
I16(v) == U16(v % 65536)
U32(v) == U16(v \div 65536) \o U16(v % 65536)
Bit(b) == IF b THEN 1 ELSE 0

\* Reader::u8, u16, i16, u32 at an offset into the body
Read8(b, at) == b[at + 1]

Read16(b, at) == 256 * b[at + 1] + b[at + 2]

ReadI16(b, at) == LET v == Read16(b, at) IN IF v < 32768 THEN v ELSE v - 65536
Read32(b, at) == 65536 * Read16(b, at) + Read16(b, at + 2)
BitSet(v, bit) == (v \div bit) % 2 = 1

\* Reader::take: a body of at least n bytes that passes the checks of its type
Checked(b, n, good, payload) == IF Len(b) >= n /\ good THEN payload ELSE Refused

\* The bytes of UTF-8: those that continue a character, and how many bytes a character
\* has that starts with b.
Continues(b) == b \in 128..191
SizeOf(b) == IF b < 128 THEN 1 ELSE IF b < 224 THEN 2 ELSE IF b < 240 THEN 3 ELSE 4
Starts(b) == b \in 0..127 \cup 194..244
\* Neither longer than it need be, nor half of a pair, nor beyond the last character.
SecondIsGood(b, second) ==
    /\ b = 224 => second >= 160
    /\ b = 237 => second < 160
    /\ b = 240 => second >= 144
    /\ b = 244 => second < 144

\* std::str::from_utf8: every byte belongs to a character that is there to its end.
IsUtf8(raw) ==
    \A i \in DOMAIN raw :
        \/ /\ Starts(raw[i])
           /\ \A k \in 1..(SizeOf(raw[i]) - 1) : i + k <= Len(raw) /\ Continues(raw[i + k])
           /\ SizeOf(raw[i]) > 1 => SecondIsGood(raw[i], raw[i + 1])
        \/ /\ Continues(raw[i])
           /\ \E k \in 1..3 : k < i /\ Starts(raw[i - k]) /\ SizeOf(raw[i - k]) > k

\* char::is_control, but for tab and newline
HasControl(raw) ==
    \E i \in DOMAIN raw :
        \/ raw[i] \in (0..31 \cup {127}) \ {9, 10}
        \/ i < Len(raw) /\ raw[i] = 194 /\ raw[i + 1] < 160

\* str::is_char_boundary
IsBoundary(text, n) == n = 0 \/ n = Len(text) \/ ~Continues(text[n + 1])

\* truncate_utf8: the characters that fit
TruncateUtf8(text, max) ==
    IF Len(text) <= max THEN text
    ELSE SubSeq(text, 1, CHOOSE n \in 0..max :
            /\ IsBoundary(text, n)
            /\ \A m \in 0..max : IsBoundary(text, m) => m <= n)

\* validate_usage
ValidUsage(page, usage) ==
    \/ page = 7 /\ usage \in 1..231
    \/ page = 12 /\ usage \in 1..668

-----------------------------------------------------------------------------
(* Payload: what the fields of a message may be                            *)

SessionTypes == {"Ping", "Pong", "EndSession", "Error", "QosReport"}
InputTypes == {"MouseMove", "MouseMoveRelative", "MouseButton", "MouseWheel", "KeyEvent",
               "KeyStateSync", "TextInput"}
VideoTypes == {"RequestKeyframe", "LtrAck", "CursorUpdate", "CursorShape", "VideoFrame"}

Octet == 0..255
Word == {v \in Nat : v <= 65535}
SignedWord == {v \in Int : -32768 <= v /\ v <= 32767}
\* A u32: TLC's own numbers do not reach its end.
Long == {v \in Nat : v \div 65536 \in Word}
Text == {t \in Seq(Octet) : IsUtf8(t)}

SessionPayload ==
    [type : {"Ping"}, token : Long]
    \cup [type : {"Pong"}, token : Long, host_delay_us : Word]
    \cup [type : {"EndSession"}, code : Word]
    \cup [type : {"Error"}, code : Word, message : Text]
    \cup [type : {"QosReport"}, rtt_ms : Word, jitter_ms : Word, loss_permille : Word,
          frames_decoded : Word, frames_dropped : Word, render_fps_q8 : Word,
          playout_delay_ms : Word, decode_time_us : Word]

InputPayload ==
    [type : {"MouseMove"}, display_id : Octet, flags : Octet, x_norm : Word, y_norm : Word, modifiers : Word]
    \cup [type : {"MouseMoveRelative"}, dx : SignedWord, dy : SignedWord, modifiers : Word, display_id : Octet]
    \cup [type : {"MouseButton"}, button : 1..5, action : 0..1, x_norm : Word, y_norm : Word,
          modifiers : Word, display_id : Octet, click_count : 1..3]
    \cup [type : {"MouseWheel"}, delta_v : SignedWord, delta_h : SignedWord, modifiers : Word,
          display_id : Octet, flags : Octet]
    \cup {p \in [type : {"KeyEvent"}, usage_page : Word, usage_id : Word, action : 0..2, flags : Octet,
                 modifiers : Word] : ValidUsage(p.usage_page, p.usage_id)}
    \cup [type : {"KeyStateSync"}, modifiers : Word, authoritative : BOOLEAN,
          pressed : Seq({usage \in Word : ValidUsage(7, usage)})]
    \cup [type : {"TextInput"}, commit : BOOLEAN, preedit : BOOLEAN,
          text : {t \in Text : t # <<>> /\ ~HasControl(t)}]

VideoPayload ==
    [type : {"RequestKeyframe"}, mode : 0..1, ltr_index : Octet, reason : Word]
    \cup [type : {"LtrAck"}, ltr_index : Octet, frame_id : Word]
    \cup [type : {"CursorUpdate"}, shape_id : Long, x_norm : Word, y_norm : Word, display_id : Octet,
          visible : BOOLEAN]
    \cup {p \in [type : {"CursorShape"}, shape_id : Long, width : 1..MAX_CURSOR_DIM,
                 height : 1..MAX_CURSOR_DIM, hotspot_x : Word, hotspot_y : Word, format : Octet,
                 data : Seq(Octet)] :
            /\ p.hotspot_x < p.width /\ p.hotspot_y < p.height
            /\ Len(p.data) <= MAX_CURSOR_DATA
            /\ p.format = 0 => Len(p.data) = p.width * p.height * 4}
    \cup {p \in [type : {"VideoFrame"}, frame_id : Long, fragment_index : Word,
                 fragment_count : 1..MAX_VIDEO_FRAGMENTS, kind : 0..2, temporal_layer : Octet,
                 pts_high : Long, pts_low : Long, data : Seq(Octet)] :
            p.fragment_index < p.fragment_count /\ Len(p.data) <= MAX_VIDEO_FRAGMENT}

OpaqueTypes == DOMAIN TypeCode \ (SessionTypes \cup InputTypes \cup VideoTypes)

OpaquePayload ==
    [type : OpaqueTypes, body : Seq(Octet)]
    \cup {p \in [type : {"Unknown"}, msg_type : Octet, body : Seq(Octet)] : FromU8(p.msg_type) = "Unknown"}

ASSUME WireAssumption ==
    /\ MAX_PRESSED_KEYS \in Octet /\ MAX_TEXT_INPUT \in Word /\ MAX_ERROR_TEXT \in Word
    /\ MAX_TEXT_INPUT >= 4                        \* room for any one character
    /\ MAX_CURSOR_DIM \in Word /\ MAX_CURSOR_DATA \in Long
    /\ MAX_VIDEO_FRAGMENT \in Long /\ MAX_VIDEO_FRAGMENTS \in Word
    /\ Messages \subseteq [payload : SessionPayload \cup InputPayload \cup VideoPayload \cup OpaquePayload,
                           flags : 0..15, sequence : Word, timestamp_ms : Long]
    /\ MaxOff \in Nat
    /\ Refused \notin SessionPayload \cup InputPayload \cup VideoPayload
    /\ Refused \notin [type : {"Unknown"}, msg_type : Octet, body : Seq(Octet)]

-----------------------------------------------------------------------------
(* encode_payload                                                          *)

EncodeSession(p) ==
    CASE p.type = "Ping" -> U32(p.token)
      [] p.type = "Pong" -> U32(p.token) \o U16(p.host_delay_us) \o <<0, 0>>
      [] p.type = "EndSession" -> U16(p.code)
      [] p.type = "Error" ->
            LET raw == TruncateUtf8(p.message, MAX_ERROR_TEXT)
            IN  U16(p.code) \o U16(Len(raw)) \o raw
      [] p.type = "QosReport" ->
            U16(p.rtt_ms) \o U16(p.jitter_ms) \o U16(p.loss_permille) \o U16(p.frames_decoded)
            \o U16(p.frames_dropped) \o U16(p.render_fps_q8) \o U16(p.playout_delay_ms)
            \o U16(p.decode_time_us)

EncodeInput(p) ==
    CASE p.type = "MouseMove" ->
            <<p.display_id, p.flags>> \o U16(p.x_norm) \o U16(p.y_norm) \o U16(p.modifiers)
      [] p.type = "MouseMoveRelative" ->
            I16(p.dx) \o I16(p.dy) \o U16(p.modifiers) \o <<p.display_id, 0>>
      [] p.type = "MouseButton" ->
            <<p.button, p.action>> \o U16(p.x_norm) \o U16(p.y_norm) \o U16(p.modifiers)
            \o <<p.display_id, p.click_count>>
      [] p.type = "MouseWheel" ->
            I16(p.delta_v) \o I16(p.delta_h) \o U16(p.modifiers) \o <<p.display_id, p.flags>>
      [] p.type = "KeyEvent" ->
            U16(p.usage_page) \o U16(p.usage_id) \o <<p.action, p.flags>> \o U16(p.modifiers)
      [] p.type = "KeyStateSync" ->
            LET n == IF Len(p.pressed) < MAX_PRESSED_KEYS THEN Len(p.pressed) ELSE MAX_PRESSED_KEYS
            IN  U16(p.modifiers) \o <<n, Bit(p.authoritative)>>
                \o [i \in 1..(2 * n) |-> IF i % 2 = 1 THEN High(p.pressed[(i + 1) \div 2])
                                                     ELSE Low(p.pressed[i \div 2])]
      [] p.type = "TextInput" ->
            LET raw == TruncateUtf8(p.text, MAX_TEXT_INPUT)
            IN  U16(Len(raw)) \o <<Bit(p.commit) + 2 * Bit(p.preedit), 0>> \o raw

EncodeVideo(p) ==
    CASE p.type = "RequestKeyframe" -> <<p.mode, p.ltr_index>> \o U16(p.reason)
      [] p.type = "LtrAck" -> <<p.ltr_index, 0>> \o U16(p.frame_id)
      [] p.type = "CursorUpdate" ->
            U32(p.shape_id) \o U16(p.x_norm) \o U16(p.y_norm) \o <<p.display_id, Bit(p.visible)>>
      [] p.type = "CursorShape" ->
            U32(p.shape_id) \o U16(p.width) \o U16(p.height) \o U16(p.hotspot_x)
            \o U16(p.hotspot_y) \o <<p.format, 0>> \o U32(Len(p.data)) \o p.data
      [] p.type = "VideoFrame" ->
            U32(p.frame_id) \o U16(p.fragment_index) \o U16(p.fragment_count)
            \o <<p.kind, p.temporal_layer>> \o U32(p.pts_high) \o U32(p.pts_low)
            \o U32(Len(p.data)) \o p.data

\* A handshake or clipboard body is opaque here: its bytes are the payload.
EncodePayload(p) ==
    CASE p.type \in SessionTypes -> EncodeSession(p)
      [] p.type \in InputTypes -> EncodeInput(p)
      [] p.type \in VideoTypes -> EncodeVideo(p)
      [] OTHER -> p.body

\* payload_type, or the code an unknown payload brings along
CodeOf(p) == IF p.type = "Unknown" THEN p.msg_type ELSE TypeCode[p.type]

\* ControlFrame::encode with the header of ControlFrame::new and synthetic
Encode(m) ==
    <<16 * PROTO_VERSION + m.flags, CodeOf(m.payload)>>
    \o U16(m.sequence) \o U32(m.timestamp_ms) \o EncodePayload(m.payload)

-----------------------------------------------------------------------------
(* decode_payload                                                          *)

DecodeSession(type, b) ==
    CASE type = "Ping" -> Checked(b, 4, TRUE, [type |-> type, token |-> Read32(b, 0)])
      [] type = "Pong" ->
            Checked(b, 6, TRUE, [type |-> type, token |-> Read32(b, 0), host_delay_us |-> Read16(b, 4)])
      [] type = "EndSession" -> Checked(b, 2, TRUE, [type |-> type, code |-> Read16(b, 0)])
      [] type = "Error" ->
            LET len == Read16(b, 2)
                raw == SubSeq(b, 5, 4 + len)
            IN  Checked(b, 4, len <= MAX_ERROR_TEXT /\ Len(b) >= 4 + len /\ IsUtf8(raw),
                        [type |-> type, code |-> Read16(b, 0), message |-> raw])
      [] type = "QosReport" ->
            Checked(b, 16, TRUE,
                [type |-> type, rtt_ms |-> Read16(b, 0), jitter_ms |-> Read16(b, 2),
                 loss_permille |-> Read16(b, 4), frames_decoded |-> Read16(b, 6),
                 frames_dropped |-> Read16(b, 8), render_fps_q8 |-> Read16(b, 10),
                 playout_delay_ms |-> Read16(b, 12), decode_time_us |-> Read16(b, 14)])

DecodePointer(type, b) ==
    CASE type = "MouseMove" ->
            Checked(b, 8, TRUE,
                [type |-> type, display_id |-> Read8(b, 0), flags |-> Read8(b, 1),
                 x_norm |-> Read16(b, 2), y_norm |-> Read16(b, 4), modifiers |-> Read16(b, 6)])
      [] type = "MouseMoveRelative" ->
            Checked(b, 8, TRUE,
                [type |-> type, dx |-> ReadI16(b, 0), dy |-> ReadI16(b, 2),
                 modifiers |-> Read16(b, 4), display_id |-> Read8(b, 6)])
      [] type = "MouseButton" ->
            Checked(b, 10, /\ Read8(b, 0) \in 1..5 /\ Read8(b, 1) \in 0..1
                           /\ Read8(b, 9) \in 1..3,
                [type |-> type, button |-> Read8(b, 0), action |-> Read8(b, 1),
                 x_norm |-> Read16(b, 2), y_norm |-> Read16(b, 4), modifiers |-> Read16(b, 6),
                 display_id |-> Read8(b, 8), click_count |-> Read8(b, 9)])
      [] type = "MouseWheel" ->
            Checked(b, 8, TRUE,
                [type |-> type, delta_v |-> ReadI16(b, 0), delta_h |-> ReadI16(b, 2),
                 modifiers |-> Read16(b, 4), display_id |-> Read8(b, 6), flags |-> Read8(b, 7)])

DecodeKeys(type, b) ==
    CASE type = "KeyEvent" ->
            Checked(b, 8, Read8(b, 4) \in 0..2 /\ ValidUsage(Read16(b, 0), Read16(b, 2)),
                [type |-> type, usage_page |-> Read16(b, 0), usage_id |-> Read16(b, 2),
                 action |-> Read8(b, 4), flags |-> Read8(b, 5), modifiers |-> Read16(b, 6)])
      [] type = "KeyStateSync" ->
            LET count == Read8(b, 2)
                pressed == [i \in 1..count |-> Read16(b, 2 + 2 * i)]
            IN  Checked(b, 4, /\ count <= MAX_PRESSED_KEYS /\ Len(b) >= 4 + 2 * count
                              /\ \A i \in 1..count : ValidUsage(7, pressed[i]),
                    [type |-> type, modifiers |-> Read16(b, 0),
                     authoritative |-> BitSet(Read8(b, 3), 1), pressed |-> pressed])
      [] type = "TextInput" ->
            LET len == Read16(b, 0)
                raw == SubSeq(b, 5, 4 + len)
            IN  Checked(b, 4, /\ len \in 1..MAX_TEXT_INPUT /\ Len(b) >= 4 + len
                              /\ IsUtf8(raw) /\ ~HasControl(raw),
                    [type |-> type, commit |-> BitSet(Read8(b, 2), 1),
                     preedit |-> BitSet(Read8(b, 2), 2), text |-> raw])

DecodeCursor(type, b) ==
    CASE type = "CursorUpdate" ->
            Checked(b, 10, TRUE,
                [type |-> type, shape_id |-> Read32(b, 0), x_norm |-> Read16(b, 4),
                 y_norm |-> Read16(b, 6), display_id |-> Read8(b, 8),
                 visible |-> BitSet(Read8(b, 9), 1)])
      [] type = "CursorShape" ->
            LET width == Read16(b, 4)
                height == Read16(b, 6)
                len == Read32(b, 14)
            IN  Checked(b, 18, /\ width \in 1..MAX_CURSOR_DIM /\ height \in 1..MAX_CURSOR_DIM
                               /\ Read16(b, 8) < width /\ Read16(b, 10) < height
                               /\ len <= MAX_CURSOR_DATA
                               /\ Read8(b, 12) = 0 => len = width * height * 4
                               /\ Len(b) >= 18 + len,
                    [type |-> type, shape_id |-> Read32(b, 0), width |-> width, height |-> height,
                     hotspot_x |-> Read16(b, 8), hotspot_y |-> Read16(b, 10),
                     format |-> Read8(b, 12), data |-> SubSeq(b, 19, 18 + len)])

DecodeRequests(type, b) ==
    CASE type = "RequestKeyframe" ->
            Checked(b, 4, Read8(b, 0) \in 0..1,
                [type |-> type, mode |-> Read8(b, 0), ltr_index |-> Read8(b, 1), reason |-> Read16(b, 2)])
      [] type = "LtrAck" ->
            Checked(b, 4, TRUE, [type |-> type, ltr_index |-> Read8(b, 0), frame_id |-> Read16(b, 2)])

Fragment(b, data) ==
    [type |-> "VideoFrame", frame_id |-> Read32(b, 0), fragment_index |-> Read16(b, 4),
     fragment_count |-> Read16(b, 6), kind |-> Read8(b, 8), temporal_layer |-> Read8(b, 9),
     pts_high |-> Read32(b, 10), pts_low |-> Read32(b, 14), data |-> data]

\* Mutant: the data is what is left of the frame, whatever its length field says.
DecodeTheRest(b) == Checked(b, 22, TRUE, Fragment(b, SubSeq(b, 23, Len(b))))

\* The VideoFrame arm: the checks the reassembler relies on
DecodeFragment(b) ==
    LET count == Read16(b, 6)
        len == Read32(b, 18)
    IN  Checked(b, 22, /\ Read8(b, 8) <= 2
                       /\ count \in 1..MAX_VIDEO_FRAGMENTS /\ Read16(b, 4) < count
                       /\ len <= MAX_VIDEO_FRAGMENT
                       /\ Len(b) >= 22 + len,
                Fragment(b, SubSeq(b, 23, 22 + len)))

DecodePayload(code, b) ==
    LET type == FromU8(code)
    IN  CASE type \in SessionTypes -> DecodeSession(type, b)
          [] type \in {"MouseMove", "MouseMoveRelative", "MouseButton", "MouseWheel"} ->
                DecodePointer(type, b)
          [] type \in {"KeyEvent", "KeyStateSync", "TextInput"} -> DecodeKeys(type, b)
          [] type \in {"CursorUpdate", "CursorShape"} -> DecodeCursor(type, b)
          [] type \in {"RequestKeyframe", "LtrAck"} -> DecodeRequests(type, b)
          [] type = "VideoFrame" -> DecodeFragment(b)
          [] OTHER -> [type |-> "Unknown", msg_type |-> code, body |-> b]

\* ControlFrame::decode and Header::decode
Decode(frame) ==
    IF Len(frame) < HEADER_LEN \/ frame[1] \div 16 # PROTO_VERSION
    THEN Refused
    ELSE LET body == SubSeq(frame, HEADER_LEN + 1, Len(frame))
             payload == DecodePayload(frame[2], body)
         IN  IF payload = Refused
             THEN Refused
             ELSE [payload |-> payload, flags |-> frame[1] % 16,
                   sequence |-> Read16(frame, 2), timestamp_ms |-> Read32(frame, 4)]

-----------------------------------------------------------------------------
(* One frame at a time crosses the wire                                    *)

WireInit ==
    \E m \in Messages : message = m /\ bytes = Encode(m) /\ off = 0

\* The peer is of an older version and its frame ends sooner.
EndsSooner ==
    /\ off <= 0 /\ off > -MaxOff /\ bytes # <<>>
    /\ bytes' = Front(bytes)
    /\ off' = off - 1
    /\ UNCHANGED message

\* The peer is of a newer version, and has appended a field.
HasMore ==
    /\ off >= 0 /\ off < MaxOff
    /\ bytes' = Append(bytes, 255)
    /\ off' = off + 1
    /\ UNCHANGED message

WireNext == EndsSooner \/ HasMore

WireSpec == WireInit /\ [][WireNext]_wireVars

-----------------------------------------------------------------------------

\* A body this layer does not read is everything that follows the header.
Opaque(p) == p.type \notin SessionTypes \cup InputTypes \cup VideoTypes

\* What of a payload its frame has room for: encode_payload cuts the list of keys and
\* the texts to their limits, and says so to nobody.
Fitting(p) ==
    CASE p.type = "KeyStateSync" ->
            [p EXCEPT !.pressed = SubSeq(p.pressed, 1, IF Len(p.pressed) < MAX_PRESSED_KEYS
                                                       THEN Len(p.pressed) ELSE MAX_PRESSED_KEYS)]
      [] p.type = "TextInput" -> [p EXCEPT !.text = TruncateUtf8(p.text, MAX_TEXT_INPUT)]
      [] p.type = "Error" -> [p EXCEPT !.message = TruncateUtf8(p.message, MAX_ERROR_TEXT)]
      [] OTHER -> IF Opaque(p)
                  THEN [type |-> "Unknown", msg_type |-> CodeOf(p), body |-> p.body]
                  ELSE p

Carried(m) == [m EXCEPT !.payload = Fitting(m.payload)]

\* Whatever a peer sends, and whatever a newer peer appends to it, is read back field by
\* field as it was written (encode_payload against decode_payload).
ReadsWhatWasWritten ==
    off = 0 \/ (off > 0 /\ ~Opaque(message.payload)) => Decode(bytes) = Carried(message)

\* The reserved bytes at its end that decode_payload does not ask for: those of a Pong.
Unread(p) == IF p.type = "Pong" THEN 2 ELSE 0

\* A frame that lacks a byte is refused, whatever the byte would have been, and so is every
\* frame that lacks more: no field is made up of bytes that are not there (the
\* bounds-checked Reader). A Pong alone is read without its reserved bytes, although it is
\* then shorter than the minimum of docs/PROTOCOL.md:599, which line 63 wants rejected.
StubsAreRefused ==
    off < 0 /\ ~Opaque(message.payload) =>
        Decode(bytes) = IF off >= -Unread(message.payload) THEN Carried(message) ELSE Refused

\* Frames mean what was written, and stubs of them nothing.
WireIsFaithful == ReadsWhatWasWritten /\ StubsAreRefused
=============================================================================
