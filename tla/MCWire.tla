-------------------------------- MODULE MCWire --------------------------------
(* Values of the constants of Wire for TLC: every type of a schema, alone, *)
(* in an array, and beside others in an object, and some that are none;    *)
(* values that fit, overflow, are rounded or cut off, miss a field or are  *)
(* of another type; names up to and past a byte of four values.            *)
EXTENDS SchemaWire

Of(def) == [t |-> "array of", of |-> def]
Object(fields) == [t |-> "fields", fields |-> fields]
F(key, def) == [key |-> key, type |-> def]
T(t) == [t |-> t]

Primitive == {T(t) : t \in NumberTypes \cup {"boolean", "float64", "string", "bytes", "any"}}

MCDefs ==
    Primitive \cup {Of(d) : d \in Primitive}
    \cup {Object(<<>>),
          Object(<<F("b", T("bytes")), F("a", T("string")), F("c", T("any"))>>),
          Object(<<F("a", T("string")), F("b", T("bytes")), F("d", T("string"))>>),
          Object(<<F("a", Of(T("string"))), F("c", T("int32")), F("d", T("string"))>>),
          Of(Object(<<F("c", T("uint8")), F("b", T("bytes")), F("a", T("string"))>>)),
          Of(Of(T("string"))), T("date"), Of(T("date")), Invalid, Object(<<F("a", Of(Invalid))>>)}

V(k, v) == [k |-> k, v |-> v]

(* Floats that no 64 bit integer holds, or not both types do. The rest of  *)
(* such a float does not matter to a conversion and names the platform.    *)
Float(n, rest) == [k |-> "float", whole |-> n, rest |-> rest]
Half == Power[8] \div 2
FarFloats == {Float(n, rest) : n \in {-Half - 3, -5, Half + 2, Power[8] + 9},
                               rest \in {"amd64", "arm64"}}

(* What they become: on amd64 a negative number in two's complement if 64  *)
(* bits hold it, or else the highest bit alone; on arm64 the type's number *)
(* nearest to it.                                                          *)
MCOverflow(type, f) ==
    CASE f.rest # "arm64" -> IF IsSigned(f.whole, 8) THEN f.whole ELSE Half
      [] f.whole < 0      -> IF type = "int64" THEN -Half ELSE 0
      [] OTHER            -> IF type = "int64" THEN Half - 1 ELSE Power[8] - 1

Scalars ==
    {Nil, V("bool", TRUE), FloatOf(2), Float(300, "half"), Float(0, "negative zero")} \cup FarFloats
    \cup {V("int", n) : n \in {-Half, -35, -1, 0, 3, 4, 17, 33, 67, 127, 128, 260, Power[8] - 1}}
    \cup {V(k, s) : k \in {"string", "bytes"}, s \in {<<>>, <<1, 0>>}}
Maps == {V("map", [key \in {"a", "b", "c", "d"} |-> V("string", <<2>>)]),
         V("map", [a |-> V("string", <<3, 1>>), b |-> V("bytes", <<1>>), c |-> V("int", -2)]),
         V("map", [a |-> V("slice", <<V("string", <<1>>), Nil>>), d |-> V("string", <<2, 2>>)])}
MCValues ==
    Scalars \cup Maps
    \cup {V("slice", <<>>), V("slice", <<V("int", 5), V("string", <<0, 1, 2>>)>>),
          V("slice", <<V("slice", <<V("string", <<3>>)>>), V("slice", <<>>)>>),
          V("slice", <<V("map", [a |-> V("string", <<1>>), c |-> V("int", 7)]), Nil>>)}

MCNames == {<<>>, <<2>>, <<1, 2, 3>>, <<0, 0, 0, 0>>, <<1, 0, 3, 2, 1>>}
=============================================================================
