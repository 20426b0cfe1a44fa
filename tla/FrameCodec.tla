------------------------------ MODULE FrameCodec ------------------------------
(***************************************************************************)
(* The binary frame, protocol/encoder.go and protocol/decoder.go:          *)
(*   [type][nspLen][nsp][eventLen][event][ackId: 4 bytes][payload ...]     *)
(* A frame and its parts are sequences of bytes; a byte has Base values.   *)
(***************************************************************************)
EXTENDS Integers, Sequences

CONSTANTS
    Base,       \* 256
    Slash       \* the byte of "/"

ASSUME FrameAssumption == Base \in Nat \ {0, 1} /\ Slash \in 0..(Base - 1)

(* How many numbers there are of so many bytes, up to the eight of the     *)
(* widest type.                                                            *)
Power[w \in 0..8] == IF w = 0 THEN 1 ELSE Base * Power[w - 1]

(* The number n in w bytes, the most significant one first, as             *)
(* binary.BigEndian writes it: what does not fit is cut off, and a         *)
(* negative number is its two's complement.                                *)
Digits(n, w) == [i \in 1..w |-> (n \div Power[w - i]) % Base]
NumberIn(s) ==
    LET upTo[i \in 0..Len(s)] == IF i = 0 THEN 0 ELSE upTo[i - 1] * Base + s[i]
    IN  upTo[Len(s)]

(* One byte for the length of a name.                                      *)
LenByte(s) == Len(s) % Base

NspOf(o) == IF o.nsp = <<>> THEN <<Slash>> ELSE o.nsp
EncodeFrame(o) ==
    <<o.type, LenByte(NspOf(o))>> \o NspOf(o) \o <<LenByte(o.event)>> \o o.event
        \o Digits(o.ackID, 4) \o o.payload

(* DecodeFrameHeader, with the raw payload. Its checks, in their order:    *)
(* each part must fit in what is left of the frame.                        *)
TooShort == [ok |-> FALSE]
AckAt_OffByOne(raw, eventAt) == eventAt + raw[eventAt]
AckAt(raw, eventAt) == eventAt + 1 + raw[eventAt]
DecodeFrameHeader(raw) ==
    LET eventAt == 3 + raw[2]
        ackAt   == AckAt(raw, eventAt)
    IN  IF \/ Len(raw) < 2
           \/ Len(raw) < eventAt
           \/ Len(raw) < ackAt + 3
        THEN TooShort
        ELSE [ok |-> TRUE,
              type    |-> raw[1],
              nsp     |-> SubSeq(raw, 3, eventAt - 1),
              event   |-> SubSeq(raw, eventAt + 1, ackAt - 1),
              ackID   |-> NumberIn(SubSeq(raw, ackAt, ackAt + 3)),
              payload |-> SubSeq(raw, ackAt + 4, Len(raw))]

(* What a codec of payloads reports beside its result: a payload that is   *)
(* nil, a value it cannot encode, a buffer it cannot read, and a value     *)
(* read with the place where reading it ended.                             *)
Nil == [k |-> "nil"]
Unsupported == [ok |-> FALSE]
Panic == [ok |-> FALSE]
At(v, off) == [ok |-> TRUE, v |-> v, off |-> off]

(* The names are shorter than a byte can say (encoder.go:46-56).           *)
Short(o) == Len(NspOf(o)) < Base /\ Len(o.event) < Base
=============================================================================
