----------------------------- MODULE FrameCodec -----------------------------
(***************************************************************************)
(* The two length-prefixed codecs over a byte stream: encode_with_limit    *)
(* and Decoder of src/src/protocol/tcp.rs ("tcp"), and encode_framed,      *)
(* decode_framed and FrameDecoder of src/src/runtime/session.rs            *)
(* ("session").  A sender encodes payloads, the transport delivers the     *)
(* bytes in arbitrary chunks, a receiver feeds its decoder and pulls.      *)
(* Bytes are digits in Base, the header is the real big-endian one; the    *)
(* payload is opaque but for whether the receiver can read it (UTF-8 for   *)
(* "tcp", a known frame for "session").                                    *)
(***************************************************************************)
EXTENDS BigEndian, Sequences

CONSTANTS
  Codecs,      \* the codecs to look at: "tcp", "session"
  HeaderBytes, \* 4
  Limit,       \* the receiver's MAX_FRAME_BYTES
  SendLimit,   \* the limit a "tcp" sender encodes with
  Payloads,    \* sequences of bytes
  Bad,         \* a byte that makes a payload unreadable
  MaxFrames    \* bound on frames sent

ASSUME CodecAssumption ==
  /\ Codecs \subseteq {"tcp", "session"}
  /\ HeaderBytes \in Nat \ {0}
  /\ Limit \in Nat /\ SendLimit \in Nat /\ MaxFrames \in Nat
  /\ Payloads \subseteq Seq(Octets)
  /\ \A p \in Payloads : Fits(Len(p), HeaderBytes)   \* none of 4 GiB, which encode_framed would cut

VARIABLES
  codec,     \* the codec of both ends
  sent,      \* history: payloads encoded, in order
  wire,      \* bytes under way
  buffer, poisoned,  \* the decoder; FrameDecoder has no flag, its buffer stays as it was
  drained,   \* history: the receiver pulled until it saw None
  got,       \* history: payloads pulled
  failed     \* history: a pull returned an error

vars == <<codec, sent, wire, buffer, poisoned, drained, got, failed>>

Header(n) == to_be_bytes(n, HeaderBytes)
Declared(b) == from_be_bytes(b, HeaderBytes)

(* Empty, it lacks the tag that a session frame starts with.               *)
Readable(p) == (codec = "session" => Len(p) > 0) /\ \A i \in 1 .. Len(p) : p[i] # Bad

Init ==
  /\ codec \in Codecs
  /\ sent = <<>> /\ wire = <<>> /\ buffer = <<>>
  /\ poisoned = FALSE /\ drained = TRUE
  /\ got = <<>> /\ failed = FALSE

---------------------------------------------------------------------------
(* encode_with_limit refuses; encode_framed checks nothing (a session      *)
(* frame is never empty: it has a tag).                                    *)
Encodes(p) == Len(p) > 0 /\ (codec = "tcp" => Len(p) <= SendLimit)

Framed(p) ==
  /\ Len(sent) < MaxFrames
  /\ wire' = wire \o Header(Len(p)) \o p
  /\ sent' = Append(sent, p)
  /\ UNCHANGED <<codec, buffer, poisoned, drained, got, failed>>

Send(p) == Encodes(p) /\ Framed(p)

(* "The protocol has no empty frame" (protocol/mod.rs:28), but a peer with *)
(* an encoder of its own may send one.                                     *)
SendEmpty == <<>> \in Payloads /\ Framed(<<>>)

(* The transport delivers a chunk of n bytes and the receiver feeds it. *)
Feed(n) ==
  /\ buffer' = IF poisoned THEN buffer ELSE buffer \o SubSeq(wire, 1, n)
  /\ wire' = SubSeq(wire, n + 1, Len(wire))
  /\ drained' = FALSE
  /\ UNCHANGED <<codec, sent, poisoned, got, failed>>

HasHeader == Len(buffer) >= HeaderBytes
TooLarge == Declared(buffer) > Limit
(* The empty-frame check is the tcp decoder's only. *)
Refused == HasHeader /\ (TooLarge \/ (codec = "tcp" /\ Declared(buffer) = 0))

Complete == HasHeader /\ Len(buffer) >= HeaderBytes + Declared(buffer)

FrontPayload == SubSeq(buffer, HeaderBytes + 1, HeaderBytes + Declared(buffer))
KeepHeader == SubSeq(buffer, Declared(buffer) + 1, Len(buffer)) \* mutant: drain(..declared)
Rest == SubSeq(buffer, HeaderBytes + Declared(buffer) + 1, Len(buffer))

PullNothing ==
  /\ poisoned \/ ~(Refused \/ Complete)
  /\ drained' = TRUE
  /\ UNCHANGED <<codec, sent, wire, buffer, poisoned, got, failed>>

PullRefused ==
  /\ ~poisoned /\ Refused
  /\ poisoned' = (codec = "tcp")
  /\ failed' = TRUE
  /\ UNCHANGED <<codec, sent, wire, buffer, drained, got>>

PullFrame ==
  /\ ~poisoned /\ ~Refused /\ Complete
  /\ Readable(FrontPayload)
  /\ buffer' = Rest
  /\ got' = Append(got, FrontPayload)
  /\ UNCHANGED <<codec, sent, wire, poisoned, drained, failed>>

(* next_text drains the payload before it finds it is not UTF-8 and then   *)
(* poisons; decode_framed fails before anything is drained.                *)
DrainedFirst == Rest         \* mutant: decode_framed drains before it decodes
AfterUnreadable == IF codec = "tcp" THEN Rest ELSE buffer

PullUnreadable ==
  /\ ~poisoned /\ ~Refused /\ Complete
  /\ ~Readable(FrontPayload)
  /\ buffer' = AfterUnreadable
  /\ poisoned' = (codec = "tcp")
  /\ failed' = TRUE
  /\ UNCHANGED <<codec, sent, wire, drained, got>>

Next ==
  \/ \E p \in Payloads : Send(p)
  \/ SendEmpty
  \/ \E n \in 1 .. Len(wire) : Feed(n)
  \/ PullNothing \/ PullRefused \/ PullFrame \/ PullUnreadable

Spec == Init /\ [][Next]_vars

---------------------------------------------------------------------------
TypeOK ==
  /\ codec \in Codecs
  /\ sent \in Seq(Payloads) /\ got \in Seq(Payloads)
  /\ wire \in Seq(Octets) /\ buffer \in Seq(Octets)
  /\ {poisoned, drained, failed} \subseteq BOOLEAN
  /\ Len(got) <= Len(sent)

(* However the bytes are cut into chunks, what comes out is what went in,  *)
(* in order, with nothing skipped, and nothing gets stuck: once every byte *)
(* was fed and the receiver pulled until None without an error, it has     *)
(* every payload.                                                          *)
FramesArrive ==
  /\ got = SubSeq(sent, 1, Len(got))
  /\ wire = <<>> /\ drained /\ ~failed => got = sent

(* "A poisoned decoder never yields another frame" (tcp.rs:96-97), and     *)
(* both errors of FrameDecoder "are fatal for the connection"              *)
(* (session.rs:506), although it has no flag and can be fed on.            *)
ErrorIsFinal == [][failed => got' = got]_vars
===========================================================================
