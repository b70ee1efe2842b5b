---------------------------- MODULE SessionFrame ----------------------------
(***************************************************************************)
(* The binary form of a session frame's body, src/src/runtime/session.rs:  *)
(* 153-464.  A frame is [tag, fields]; encode writes its fields with the   *)
(* put functions, decode reads them with a Reader, and each side has the   *)
(* order of the fields from its own code.  An Option is a sequence of at   *)
(* most one element.                                                       *)
(***************************************************************************)
EXTENDS BigEndian, Sequences

CONSTANTS
  Width16, Width32, Width64,  \* 2, 4, 8: bytes of an integer
  NotUtf8,   \* a byte that no text contains
  Frames,    \* frames to send
  Bytes,     \* bytes a peer of another build may write instead
  MaxSlips   \* bound on these

VARIABLES
  frame,     \* the frame a peer sent, or NoFrame
  body,      \* its body on arrival
  slips      \* bytes that peer wrote, left out or added on its own

NoFrame == [tag |-> 0, fields |-> <<>>]
framing == <<frame, body, slips>>
FramingInit == frame = NoFrame /\ body = <<>> /\ slips = 0

Codes == 1 .. 9

Written ==     \* encode
  <<<<"u16", "opt_str">>, <<"str", "bool", "u32">>, <<"u64">>, <<"u64">>, <<"str", "u64", "u32">>,
    <<"str">>, <<"str", "u32">>, <<"str", "u64", "bytes">>, <<"str", "u64">>,
    <<"u64", "str", "bytes">>, <<"u64", "bytes">>, <<"opt_u64", "code", "str">>, <<"code", "str">>>>
Expected ==    \* decode
  <<<<"u16", "opt_str">>, <<"str", "bool", "u32">>, <<"u64">>, <<"u64">>, <<"str", "u64", "u32">>,
    <<"str">>, <<"str", "u32">>, <<"str", "u64", "bytes">>, <<"str", "u64">>,
    <<"u64", "str", "bytes">>, <<"u64", "bytes">>, <<"opt_u64", "code", "str">>, <<"code", "str">>>>

BytesOf(type) == CASE type = "u16" -> Width16 [] type = "u32" -> Width32 [] type = "u64" -> Width64
IntegerTypes == {"u16", "u32", "u64"}
Optional == {"opt_str", "opt_u64"}
Inner(type) == IF type = "opt_str" THEN "str" ELSE "u64"

---------------------------------------------------------------------------
(* What a field may hold: a String is UTF-8, and no length is cut to its   *)
(* u32 (which only a frame far beyond MAX_FRAME_BYTES would be).           *)
ByteVectors == {v \in Seq(Octets) : Fits(Len(v), Width32)}
Utf8(text) == \A i \in 1 .. Len(text) : text[i] # NotUtf8
Plain(type) ==
  CASE type \in IntegerTypes -> {n \in Nat : Fits(n, BytesOf(type))}
    [] type = "bytes" -> ByteVectors
    [] type = "str" -> {text \in ByteVectors : Utf8(text)}
    [] type = "bool" -> BOOLEAN
    [] type = "code" -> Codes
Holds(type, value) ==
  IF type \notin Optional THEN value \in Plain(type)
  ELSE value = <<>> \/ (value = <<value[1]>> /\ value[1] \in Plain(Inner(type)))

IsFrame(f) ==
  /\ f.tag \in 1 .. Len(Written)
  /\ f = [tag |-> f.tag, fields |-> [i \in 1 .. Len(Written[f.tag]) |-> f.fields[i]]]
  /\ \A i \in 1 .. Len(Written[f.tag]) : Holds(Written[f.tag][i], f.fields[i])

ASSUME FrameAssumption ==
  /\ {Width16, Width32, Width64} \subseteq Nat
  /\ Base > Len(Written)   \* a tag is a byte
  /\ Bytes \subseteq Octets
  /\ \A f \in Frames : IsFrame(f)

---------------------------------------------------------------------------
put_bytes(value) == to_be_bytes(Len(value), Width32) \o value
put_plain(type, value) ==
  CASE type \in IntegerTypes -> to_be_bytes(value, BytesOf(type))
    [] type \in {"str", "bytes"} -> put_bytes(value)
    [] type = "bool" -> <<IF value THEN 1 ELSE 0>>
    [] type = "code" -> <<value>>
put(type, value) ==
  IF type \notin Optional THEN put_plain(type, value)
  ELSE IF value = <<>> THEN <<0>> ELSE <<1>> \o put_plain(Inner(type), value[1])

encode(f) ==
  LET types == Written[f.tag]
      out[i \in 0 .. Len(types)] ==
        IF i = 0 THEN <<f.tag>> ELSE out[i - 1] \o put(types[i], f.fields[i])
  IN out[Len(types)]

---------------------------------------------------------------------------
(* The Reader: the value just read and what is left to read, or an error,  *)
(* which ends decode as `?` does.                                          *)
Malformed == [ok |-> FALSE]
Got(value, rest) == [ok |-> TRUE, value |-> value, rest |-> rest]

take(bytes, n) ==
  IF n > Len(bytes) THEN Malformed ELSE Got(SubSeq(bytes, 1, n), SubSeq(bytes, n + 1, Len(bytes)))

read_int(bytes, width) ==
  LET r == take(bytes, width)
  IN IF r.ok THEN Got(from_be_bytes(r.value, width), r.rest) ELSE Malformed

read_bytes(bytes) ==
  LET length == read_int(bytes, Width32)
  IN IF length.ok THEN take(length.rest, length.value) ELSE Malformed

read_str(bytes) ==
  LET r == read_bytes(bytes)
  IN IF r.ok /\ ~Utf8(r.value) THEN Malformed ELSE r

read_bool(bytes) ==
  LET r == take(bytes, 1)
  IN IF r.ok /\ r.value[1] \in {0, 1} THEN Got(r.value[1] = 1, r.rest) ELSE Malformed

read_code(bytes) ==
  LET r == take(bytes, 1)
  IN IF r.ok /\ r.value[1] \in Codes THEN Got(r.value[1], r.rest) ELSE Malformed

read_plain(type, bytes) ==
  CASE type \in IntegerTypes -> read_int(bytes, BytesOf(type))
    [] type = "bytes" -> read_bytes(bytes)
    [] type = "str" -> read_str(bytes)
    [] type = "bool" -> read_bool(bytes)
    [] type = "code" -> read_code(bytes)

read_some(type, bytes) ==
  LET r == read_plain(type, bytes)
  IN IF r.ok THEN Got(<<r.value>>, r.rest) ELSE Malformed

read(type, bytes) ==
  LET flag == take(bytes, 1)
  IN IF type \notin Optional THEN read_plain(type, bytes)
     ELSE IF ~flag.ok THEN Malformed
     ELSE CASE flag.value[1] = 0 -> Got(<<>>, flag.rest)
            [] flag.value[1] = 1 -> read_some(Inner(type), flag.rest)
            [] OTHER -> Malformed

LeftOver(rest) == FALSE      \* mutant: `done` is not asked
NotDone(rest) == rest # <<>>

NextField(r, type) ==
  LET next == read(type, r.rest)
  IN IF r.ok /\ next.ok THEN Got(Append(r.value, next.value), next.rest) ELSE Malformed

decode(bytes) ==
  LET types == Expected[bytes[1]]
      after[i \in 0 .. Len(types)] ==
        IF i = 0 THEN Got(<<>>, Tail(bytes)) ELSE NextField(after[i - 1], types[i])
      r == after[Len(types)]
  IN IF bytes = <<>> \/ bytes[1] \notin DOMAIN Expected \/ ~r.ok \/ NotDone(r.rest)
     THEN Malformed
     ELSE Got([tag |-> bytes[1], fields |-> r.value], <<>>)
---------------------------------------------------------------------------
SendFrame(f) ==
  /\ frame = NoFrame
  /\ frame' = f /\ body' = encode(f)
  /\ UNCHANGED slips

(* The peer is of another build, whose layout differs by a byte or more. *)
Slip ==
  /\ frame # NoFrame /\ slips < MaxSlips
  /\ slips' = slips + 1
  /\ \/ \E i \in DOMAIN body, b \in Bytes : body' = [body EXCEPT ![i] = b]
     \/ \E b \in Bytes : body' = Append(body, b)
     \/ body # <<>> /\ body' = SubSeq(body, 1, Len(body) - 1)
  /\ UNCHANGED frame

FramingNext == Slip \/ \E f \in Frames : SendFrame(f)

FramingSpec == FramingInit /\ [][FramingNext]_framing

(* A frame comes back as it was sent; and "a frame that decodes but leaves *)
(* bytes over means the two ends disagree" (lines 391-392): bytes that are *)
(* accepted are exactly what this build would have sent for the frame read.*)
FramesAgree ==
  frame # NoFrame =>
    \A answer \in {decode(body)} :
    /\ slips = 0 => answer.ok /\ answer.value = frame
    /\ answer.ok => encode(answer.value) = body
===========================================================================
