---------------------------- MODULE PrimitiveCodec ----------------------------
(***************************************************************************)
(* Values of the primitive types of a schema, protocol/schema.go and       *)
(* protocol/coerce.go: their size, what encoding writes of them, and what  *)
(* decoding reads.                                                         *)
(*                                                                         *)
(* A value carries the Go type it has as its kind: nil, int, float, bool,  *)
(* string, bytes, slice, map, other. A float is a whole number and the     *)
(* rest that cutting it off drops (a fraction, the sign of a zero); NaN    *)
(* and the infinities have a whole number that no integer type holds, and  *)
(* a rest that tells them apart. The eight bytes of a float, and what      *)
(* MessagePack makes of a value, are external: an injection stands for     *)
(* each.                                                                   *)
(*                                                                         *)
(* A definition whose name ends in _<Suffix> is a seeded bug in the        *)
(* definition it stands before; nothing uses it.                           *)
(***************************************************************************)
EXTENDS FrameCodec

CONSTANTS
    Exact,          \* 2^53: a float64 holds every whole number up to it
    Overflow(_, _)  \* what the platform makes of a float that the integer
                    \* type "uint64" or "int64" cannot hold: Go leaves it open

(* A float's exponent makes up for what an integer has more bits than it.  *)
Units == {1, 2, 4, 8, 16, 32, 64, 128, 256, 512, 1024, 2048}
ASSUME PrimitiveAssumption == Exact \in Nat \ {0} /\ Power[8] <= 2048 * Exact

NumberTypes  == {"uint8", "uint16", "uint32", "int32", "float64"}
FixedTypes   == NumberTypes \cup {"boolean"}
DynamicTypes == {"object", "array", "any"}
PartTypes    == DynamicTypes \cup {"string", "bytes"}
Width(t) == CASE t \in {"uint8", "boolean"}   -> 1
              [] t = "uint16"                 -> 2
              [] t \in {"uint32", "int32"}    -> 4
              [] t = "float64"                -> 8

(* The signed number with these w bytes.                                   *)
Signed_Unsigned(n, w) == n
Signed(n, w) == IF 2 * n >= Power[w] THEN n - Power[w] ELSE n

(* The float64 nearest to an integer, the even one of two: a multiple of   *)
(* the smallest unit with which a float gets that far.                     *)
Abs(n) == IF n < 0 THEN -n ELSE n
Unit(n) == CHOOSE u \in Units : /\ n <= Exact * u
                                /\ \A w \in Units : n <= Exact * w => u <= w
RoundUp(n) == LET u == Unit(n)
                  q == n \div u
              IN  2 * (n % u) > u \/ (2 * (n % u) = u /\ q % 2 = 1)
Rounded(n) == ((n \div Unit(n)) + (IF RoundUp(n) THEN 1 ELSE 0)) * Unit(n)
Nearest(n) == IF n < 0 THEN -Rounded(-n) ELSE Rounded(n)
FloatOf(n) == [k |-> "float", whole |-> n, rest |-> "none"]

(* coerce.go: what is missing or of another type counts as zero. An        *)
(* integer becomes another integer type modulo its width, and the nearest  *)
(* float; a float becomes an integer by cutting it off.                    *)
IsUnsigned(n, w) == 0 <= n /\ n < Power[w]
IsSigned(n, w)   == -Power[w] <= 2 * n /\ 2 * n < Power[w]
ToUint64(v) ==
    CASE v.k = "int"   -> v.v % Power[8]
      [] v.k = "float" -> IF IsUnsigned(v.whole, 8) THEN v.whole ELSE Overflow("uint64", v)
      [] OTHER         -> 0
ToInt64(v) ==
    CASE v.k = "int"   -> Signed(v.v % Power[8], 8)
      [] v.k = "float" -> IF IsSigned(v.whole, 8) THEN v.whole ELSE Overflow("int64", v)
      [] OTHER         -> 0
ToFloat64(v) ==
    CASE v.k = "float" -> v
      [] v.k = "int"   -> FloatOf(Nearest(v.v))
      [] OTHER         -> FloatOf(0)
ToBool(v)   == v.k = "bool" /\ v.v
ToStringVal(v) == IF v.k = "string" THEN v.v ELSE <<>>
ToBytesVal(v)  == IF v.k = "bytes" THEN v.v ELSE <<>>

(* MessagePack: some bytes from which the value comes back.                *)
Marshal(v) == <<v>>
Unmarshal(s) == s[1]

(* math.Float64bits: eight bytes from which the float comes back.          *)
Float64bits(f) == [i \in 1..8 |-> f]
Float64frombits(s) == s[1]
-----------------------------------------------------------------------------
(* Encoding: computeSize measures the value and queues its variable part,  *)
(* if it has one, and encodeValue then writes it into a buffer of that     *)
(* size. The bytes of a "bytes" are taken from the value again.            *)

Sized(n, parts) == [ok |-> TRUE, size |-> n, queue |-> parts]

PartOf(t, v) == CASE t = "string"       -> ToStringVal(v)
                  [] t = "bytes"        -> ToBytesVal(v)
                  [] t \in DynamicTypes -> Marshal(v)
Queued_All(t, v) == <<PartOf(t, v)>>
Queued(t, v) == IF t = "bytes" THEN <<>> ELSE <<PartOf(t, v)>>

SizeOf(t, v) ==
    CASE t \in FixedTypes -> Sized(Width(t), <<>>)
      [] t \in PartTypes  -> Sized(4 + Len(PartOf(t, v)), Queued(t, v))
      [] OTHER            -> Unsupported

(* What was written so far, and the parts still queued.                    *)
Write(st, bytes) == [st EXCEPT !.buf = @ \o bytes]
WithLength(part) == Digits(Len(part), 4) \o part
WritePart(st) == [Write(st, WithLength(Head(st.queue))) EXCEPT !.queue = Tail(@)]

FixedBytes(t, v) ==
    CASE t \in {"uint8", "uint16", "uint32"} -> Digits(ToUint64(v), Width(t))
      [] t = "int32"   -> Digits(ToInt64(v), 4)
      [] t = "float64" -> Float64bits(ToFloat64(v))
      [] t = "boolean" -> <<IF ToBool(v) THEN 1 ELSE 0>>

WritePrimitive(t, v, st) ==
    CASE t \in FixedTypes -> Write(st, FixedBytes(t, v))
      [] t = "bytes"       -> Write(st, WithLength(ToBytesVal(v)))
      [] t \in PartTypes \ {"bytes"} -> WritePart(st)
-----------------------------------------------------------------------------
(* Decoding: positional, from a place in the buffer. Reading past its end  *)
(* is a panic, an unsupported type an error; nothing after it repairs it.  *)

(* w bytes of the buffer after the place off.                              *)
Bytes(buf, off, w) == SubSeq(buf, off + 1, off + w)

IntVal(n) == [k |-> "int", v |-> n]
FixedVal(t, s) ==
    CASE t \in {"uint8", "uint16", "uint32"} -> IntVal(NumberIn(s))
      [] t = "int32"   -> IntVal(Signed(NumberIn(s), 4))
      [] t = "float64" -> Float64frombits(s)
      [] t = "boolean" -> [k |-> "bool", v |-> s[1] # 0]
PartVal(t, s) == IF t \in DynamicTypes THEN Unmarshal(s) ELSE [k |-> t, v |-> s]

ReadFixed(t, buf, off) ==
    LET end == off + Width(t)
    IN  IF end > Len(buf) THEN Panic
        ELSE At(FixedVal(t, Bytes(buf, off, Width(t))), end)
ReadPart(t, buf, off) ==
    LET n   == NumberIn(Bytes(buf, off, 4))
        end == off + 4 + n
    IN  IF off + 4 > Len(buf) \/ end > Len(buf) THEN Panic
        ELSE At(PartVal(t, Bytes(buf, off + 4, n)), end)

ReadPrimitive(t, buf, off) ==
    CASE t \in FixedTypes -> ReadFixed(t, buf, off)
      [] t \in PartTypes  -> ReadPart(t, buf, off)
      [] OTHER            -> Panic
-----------------------------------------------------------------------------
(* What a receiver may expect of a value that was sent with a type, stated *)
(* without bytes. Integers arrive modulo their width; a float in an        *)
(* integer field does, cut off, if the 64 bits it goes through can hold    *)
(* it, and otherwise as any number of that width; a float arrives as it    *)
(* was, and an integer in a float field exactly up to Exact and within one *)
(* part in Exact above; what is missing or of another type is zero.        *)

Whole(v) == CASE v.k = "int"   -> v.v
              [] v.k = "float" -> v.whole
              [] OTHER         -> 0
SignedMod(n, w)  == ((n + (Power[w] \div 2)) % Power[w]) - (Power[w] \div 2)
IsClose(x, n)    == x = n \/ Exact * Abs(x - n) < Abs(n)

(* r, read as a value of type t, says what v, sent as one, said.           *)
ConveysPrimitive(t, v, r) ==
    /\ t \in {"uint8", "uint16", "uint32"} =>
          /\ r = IntVal(r.v) /\ IsUnsigned(r.v, Width(t))
          /\ (v.k = "float" => IsUnsigned(v.whole, 8)) => r.v = Whole(v) % Power[Width(t)]
    /\ t = "int32" =>
          /\ r = IntVal(r.v) /\ IsSigned(r.v, 4)
          /\ (v.k = "float" => IsSigned(v.whole, 8)) => r.v = SignedMod(Whole(v), 4)
    /\ t = "float64" =>
          IF v.k = "float" THEN r = v
          ELSE r = FloatOf(r.whole) /\ IsClose(r.whole, Whole(v))
    /\ t = "boolean" => r = [k |-> "bool", v |-> v = [k |-> "bool", v |-> TRUE]]
    /\ t \in {"string", "bytes"} => r = IF v.k = t THEN v ELSE [k |-> t, v |-> <<>>]
    /\ t \in DynamicTypes => r = v
=============================================================================
