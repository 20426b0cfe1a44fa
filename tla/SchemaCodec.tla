----------------------------- MODULE SchemaCodec -----------------------------
(***************************************************************************)
(* Schemas and what they do to payloads, protocol/schema.go,               *)
(* protocol/coerce.go, protocol/schema_wire.go.                            *)
(*                                                                         *)
(* A definition is [t |-> a primitive type], an array of definitions, an   *)
(* object with ordered fields, or Invalid, anything else a SchemaDef can   *)
(* be in Go. A primitive's value is PrimitiveCodec's matter.               *)
(***************************************************************************)
EXTENDS PrimitiveCodec, SequencesExt

Invalid == [t |-> "invalid"]

(* coerce.go: what is missing or of another type has no items or fields.   *)
ToSlice(v)  == IF v.k = "slice" THEN v.v ELSE <<>>
Field(v, key) == IF v.k = "map" /\ key \in DOMAIN v.v THEN v.v[key] ELSE Nil
-----------------------------------------------------------------------------
(* Encoding: computeSize measures the value and queues its variable parts, *)
(* encodeValue then writes them into a buffer of that size.                *)

Plus(a, b) == IF a.ok /\ b.ok THEN Sized(a.size + b.size, a.queue \o b.queue) ELSE Unsupported

RECURSIVE ComputeSize(_, _)
ComputeSize(def, v) ==
    CASE def.t = "array of" ->
            FoldLeft(LAMBDA sum, item : Plus(sum, ComputeSize(def.of, item)),
                     Sized(4, <<>>), ToSlice(v))
      [] def.t = "fields"   ->
            FoldLeft(LAMBDA sum, f : Plus(sum, ComputeSize(f.type, Field(v, f.key))),
                     Sized(0, <<>>), def.fields)
      [] OTHER              -> SizeOf(def.t, v)

RECURSIVE EncodeValue(_, _, _)
EncodeValue(def, v, st) ==
    CASE def.t = "array of" ->
            FoldLeft(LAMBDA s, item : EncodeValue(def.of, item, s),
                     Write(st, Digits(Len(ToSlice(v)), 4)), ToSlice(v))
      [] def.t = "fields"   ->
            FoldLeft(LAMBDA s, f : EncodeValue(f.type, Field(v, f.key), s), st, def.fields)
      [] OTHER              -> WritePrimitive(def.t, v, st)

EncodePayload(def, v) ==
    LET sized == ComputeSize(def, v)
    IN  IF sized.ok THEN EncodeValue(def, v, [buf |-> <<>>, queue |-> sized.queue])
        ELSE Unsupported
-----------------------------------------------------------------------------
(* Decoding: positional, from a place in the buffer. Reading past its end  *)
(* is a panic, an unsupported type an error; nothing after it repairs it.  *)

RECURSIVE DecodeValue(_, _, _)
DecodeValue(def, buf, off) ==
    CASE def.t = "array of" ->
            LET n == NumberIn(Bytes(buf, off, 4))
                Item(r, i) == IF ~r.ok THEN r ELSE
                    LET x == DecodeValue(def.of, buf, r.off)
                    IN  IF x.ok THEN At([r.v EXCEPT !.v = Append(@, x.v)], x.off) ELSE Panic
            IN  IF off + 4 > Len(buf) THEN Panic
                ELSE FoldLeft(Item, At([k |-> "slice", v |-> <<>>], off + 4), [i \in 1..n |-> i])
      [] def.t = "fields"       ->
            LET FieldOf(r, f) == IF ~r.ok THEN r ELSE
                    LET x == DecodeValue(f.type, buf, r.off)
                    IN  IF x.ok THEN At([r.v EXCEPT !.v = (f.key :> x.v) @@ @], x.off) ELSE Panic
            IN  FoldLeft(FieldOf, At([k |-> "map", v |-> <<>>], off), def.fields)
      [] OTHER              -> ReadPrimitive(def.t, buf, off)

DecodePayload(def, buf) == DecodeValue(def, buf, 0)
-----------------------------------------------------------------------------
(* The wire form of a definition, MessagePack written by hand so that the  *)
(* order of an object's fields survives: a string, an array of length one, *)
(* or a map whose entries are written one by one.                          *)

WireFields_Reversed(fields) == Reverse(fields)
WireFields(fields) == fields

Wired(codes) == [ok |-> TRUE, codes |-> codes]
Then(a, b) == IF a.ok /\ b.ok THEN Wired(a.codes \o b.codes) ELSE Unsupported

RECURSIVE WriteSchemaDef(_)
WriteSchemaDef(def) ==
    CASE def = Invalid      -> Unsupported
      [] def.t = "array of" -> Then(Wired(<<[array |-> 1]>>), WriteSchemaDef(def.of))
      [] def.t = "fields"   ->
            FoldLeft(LAMBDA s, f : Then(Then(s, Wired(<<[string |-> f.key]>>)), WriteSchemaDef(f.type)),
                     Wired(<<[map |-> Len(def.fields)]>>), WireFields(def.fields))
      [] OTHER              -> Wired(<<[string |-> def.t]>>)

(* Reading one definition from the place at, by what the next code is; an  *)
(* array of another length than one, and what is none of the three, is an  *)
(* error, as is the end of the codes.                                      *)
Unreadable == [ok |-> FALSE]
Read(def, at) == [ok |-> TRUE, def |-> def, at |-> at]
NextIs(codes, at, kind) == at <= Len(codes) /\ DOMAIN codes[at] = {kind}

RECURSIVE ReadSchemaDef(_, _)
ReadSchemaDef(codes, at) ==
    CASE NextIs(codes, at, "string") -> Read([t |-> codes[at].string], at + 1)
      [] NextIs(codes, at, "array") /\ codes[at].array = 1 ->
            LET x == ReadSchemaDef(codes, at + 1)
            IN  IF x.ok THEN Read([t |-> "array of", of |-> x.def], x.at) ELSE Unreadable
      [] NextIs(codes, at, "map") ->
            LET Entry(r, i) ==
                    IF ~r.ok \/ ~NextIs(codes, r.at, "string") THEN Unreadable ELSE
                    LET x == ReadSchemaDef(codes, r.at + 1)
                    IN  IF ~x.ok THEN Unreadable ELSE
                        Read([r.def EXCEPT !.fields =
                                 Append(@, [key |-> codes[r.at].string, type |-> x.def])], x.at)
            IN  FoldLeft(Entry, Read([t |-> "fields", fields |-> <<>>], at + 1),
                         [i \in 1..codes[at].map |-> i])
      [] OTHER -> Unreadable
-----------------------------------------------------------------------------
(* r, read with a definition, says what v, sent with it, said: every item  *)
(* and every field the definition names, and nothing else.                 *)

RECURSIVE Conveys(_, _, _)
Conveys(def, v, r) ==
    CASE def.t = "array of" ->
            /\ r.k = "slice" /\ Len(r.v) = Len(ToSlice(v))
            /\ \A i \in DOMAIN r.v : Conveys(def.of, ToSlice(v)[i], r.v[i])
      [] def.t = "fields"   ->
            /\ r.k = "map" /\ DOMAIN r.v = {f.key : f \in ToSet(def.fields)}
            /\ \A f \in ToSet(def.fields) : Conveys(f.type, Field(v, f.key), r.v[f.key])
      [] OTHER              -> ConveysPrimitive(def.t, v, r)

(* A definition that has a wire form.                                      *)
RECURSIVE IsValid(_)
IsValid(def) ==
    CASE def.t = "array of" -> IsValid(def.of)
      [] def.t = "fields"   -> \A f \in ToSet(def.fields) : IsValid(f.type)
      [] OTHER              -> def # Invalid
=============================================================================
