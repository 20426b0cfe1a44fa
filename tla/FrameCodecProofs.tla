--------------------------- MODULE FrameCodecProofs ---------------------------
(***************************************************************************)
(* What DecodeFrameHeader (protocol/decoder.go) makes of a frame that      *)
(* EncodeFrame (protocol/encoder.go) wrote, for names and payloads of any  *)
(* length and a byte of any number of values.                              *)
(***************************************************************************)
EXTENDS FrameCodec, SequenceTheorems, TLAPS

Byte == 0..(Base - 1)
FrameOptions(S) == [type : Byte, nsp : Seq(Byte), event : Seq(Byte),
                    ackID : Int, payload : Seq(S)]

(* A length that a byte can say is said as it is; no other is.             *)
LEMMA LengthBytes ==
  ASSUME NEW n \in Nat
  PROVE  /\ n % Base \in Byte
         /\ n < Base => n % Base = n
  BY FrameAssumption DEF Byte

-----------------------------------------------------------------------------
(* Numbers.                                                                *)

(* The powers of the base, as the recursion describes them.                *)
IsPower(f) == f = [w \in 0..8 |-> IF w = 0 THEN 1 ELSE Base * f[w - 1]]

(* There is such a function: here are its nine values.                     *)
LEMMA PowerExists == \E f : IsPower(f)
<1> DEFINE p1 == Base
           p2 == Base * p1
           p3 == Base * p2
           p4 == Base * p3
           p5 == Base * p4
           p6 == Base * p5
           p7 == Base * p6
           p8 == Base * p7
           f  == [w \in 0..8 |-> IF w = 0 THEN 1  ELSE IF w = 1 THEN p1 ELSE
                                 IF w = 2 THEN p2 ELSE IF w = 3 THEN p3 ELSE
                                 IF w = 4 THEN p4 ELSE IF w = 5 THEN p5 ELSE
                                 IF w = 6 THEN p6 ELSE IF w = 7 THEN p7 ELSE p8]
<1>1. /\ p1 = Base * 1 /\ p2 = Base * p1 /\ p3 = Base * p2 /\ p4 = Base * p3
      /\ p5 = Base * p4 /\ p6 = Base * p5 /\ p7 = Base * p6 /\ p8 = Base * p7
  BY FrameAssumption
<1> HIDE DEF p1, p2, p3, p4, p5, p6, p7, p8
<1>2. \A w \in 0..8 : f[w] = IF w = 0 THEN 1 ELSE Base * f[w - 1]
  BY <1>1
<1>3. f = [w \in 0..8 |-> f[w]]
  OBVIOUS
<1> HIDE DEF f
<1>4. IsPower(f)
  BY <1>2, <1>3 DEF IsPower
<1> QED
  BY <1>4, Zenon

(* Power is that function.                                                 *)
LEMMA PowerDef ==
  /\ Power[0] = 1
  /\ \A w \in 1..8 : Power[w] = Base * Power[w - 1]
<1>1. IsPower(Power)
  BY PowerExists, Zenon DEF Power, IsPower
<1> QED
  BY <1>1 DEF IsPower

LEMMA PowersArePositive == \A w \in 0..8 : Power[w] \in Nat \ {0}
<1>1. \A p \in Nat \ {0} : Base * p \in Nat \ {0}
  <2>1. \A b, p \in Nat \ {0} : b * p \in Nat \ {0}
    OBVIOUS
  <2> QED
    BY <2>1, FrameAssumption
<1>2. Power[0] \in Nat \ {0}
  BY PowerDef
<1>3. \A w \in 1..8 : Power[w - 1] \in Nat \ {0} => Power[w] \in Nat \ {0}
  BY <1>1, PowerDef
<1>4. Power[1] \in Nat \ {0} /\ Power[2] \in Nat \ {0}
  BY <1>2, <1>3
<1>5. Power[3] \in Nat \ {0} /\ Power[4] \in Nat \ {0}
  BY <1>3, <1>4
<1>6. Power[5] \in Nat \ {0} /\ Power[6] \in Nat \ {0}
  BY <1>3, <1>5
<1>7. Power[7] \in Nat \ {0} /\ Power[8] \in Nat \ {0}
  BY <1>3, <1>6
<1> TAKE w \in 0..8
<1>8. w = 0 \/ w = 1 \/ w = 2 \/ w = 3 \/ w = 4 \/ w = 5 \/ w = 6 \/ w = 7 \/ w = 8
  OBVIOUS
<1> QED
  BY <1>2, <1>4, <1>5, <1>6, <1>7, <1>8

(* Quotient and remainder, and that there is one of each only.             *)
LEMMA Split ==
  ASSUME NEW m \in Nat \ {0}, NEW n \in Int
  PROVE  n \div m \in Int /\ n % m \in 0..(m - 1) /\ n = (n \div m) * m + (n % m)
  OBVIOUS

LEMMA Unique ==
  ASSUME NEW m \in Nat \ {0}, NEW d \in Int, NEW r \in 0..(m - 1)
  PROVE  (d * m + r) \div m = d /\ (d * m + r) % m = r
  OBVIOUS

(* Cutting off a digit after others, and a remainder digit by digit.       *)
LEMMA Carry ==
  ASSUME NEW b \in Nat \ {0}, NEW p \in Nat \ {0}, NEW n \in Int
  PROVE  /\ (n \div p) \div b = n \div (b * p)
         /\ n % (b * p) = ((n \div p) % b) * p + (n % p)
<1> DEFINE q == n \div p
           v == n % p
           d == q \div b
           r == q % b
<1>1. q \in Int /\ v \in 0..(p - 1) /\ n = q * p + v
  BY Split
<1>2. d \in Int /\ r \in 0..(b - 1) /\ q = d * b + r
  BY <1>1, Split
<1> HIDE DEF q, v, d, r
<1>3. n = d * (b * p) + (r * p + v)
  <2>1. n = (d * b + r) * p + v
    BY <1>1, <1>2
  <2>2. (d * b + r) * p + v = d * (b * p) + (r * p + v)
    BY <1>1, <1>2
  <2> QED
    BY <2>1, <2>2
<1>4. b * p \in Nat \ {0}
  OBVIOUS
<1>5. r * p + v \in 0..(b * p - 1)
  <2>1. r * p <= (b - 1) * p /\ r * p \in Nat
    BY <1>2
  <2>2. (b - 1) * p = b * p - p
    OBVIOUS
  <2> QED
    BY <1>1, <1>4, <2>1, <2>2
<1>6. n \div (b * p) = d /\ n % (b * p) = r * p + v
  BY <1>2, <1>3, <1>4, <1>5, Unique
<1> QED
  BY <1>6 DEF q, v, d, r

(* The bytes of any number, a negative one too.                            *)
LEMMA DigitsAreBytes ==
  ASSUME NEW n \in Int, NEW w \in 0..8
  PROVE  /\ Digits(n, w) \in Seq(Byte) /\ Len(Digits(n, w)) = w
         /\ \A i \in 1..w : /\ Digits(n, w)[i] = (n \div Power[w - i]) % Base
                            /\ Digits(n, w)[i] \in Byte
<1> DEFINE num == Digits(n, w)
<1>1. \A i \in 1..w : (n \div Power[w - i]) % Base \in Byte
  <2> TAKE i \in 1..w
  <2>1. Power[w - i] \in Nat \ {0}
    BY PowersArePositive
  <2>2. n \div Power[w - i] \in Int
    BY <2>1, Split
  <2> QED
    BY <2>2, Split, FrameAssumption DEF Byte
<1>2. num = [i \in 1..w |-> (n \div Power[w - i]) % Base]
  BY DEF Digits
<1>3. num \in Seq(Byte)
  <2>1. num = [i \in 1..w |-> num[i]] /\ \A i \in 1..w : num[i] \in Byte
    BY <1>1, <1>2
  <2> HIDE DEF num
  <2> QED
    BY <2>1
<1>4. Len(num) \in Nat /\ DOMAIN num = 1..Len(num) /\ DOMAIN num = 1..w
  BY <1>2, <1>3, LenProperties
<1> HIDE DEF num
<1>5. /\ w \in 1..w <=> w \in 1..Len(num)
      /\ w + 1 \in 1..w <=> w + 1 \in 1..Len(num)
  BY <1>4, Zenon
<1>6. Len(num) = w
  <2>1. Len(num) \in Nat /\ w \in Nat
    BY <1>4
  <2> QED
    BY <1>5, <2>1
<1> QED
  BY <1>1, <1>2, <1>3, <1>6 DEF num

(* Reading digits is a sum that has one value after each of them.          *)
IsSum(f, s) == f = [i \in 0..Len(s) |-> IF i = 0 THEN 0 ELSE f[i - 1] * Base + s[i]]

LEMMA SumsAreUnique ==
  ASSUME NEW s, NEW w \in 0..8, Len(s) = w, NEW f, NEW g, IsSum(f, s), IsSum(g, s)
  PROVE  f[w] = g[w]
<1>1. f[0] = g[0]
  BY DEF IsSum
<1>2. \A i \in 1..w : f[i] = f[i - 1] * Base + s[i] /\ g[i] = g[i - 1] * Base + s[i]
  BY DEF IsSum
<1>3. \A i \in 1..w : f[i - 1] = g[i - 1] => f[i] = g[i]
  BY <1>2
<1>4. 1 <= w => f[1] = g[1]
  BY <1>1, <1>3
<1>5. 2 <= w => f[2] = g[2]
  BY <1>3, <1>4
<1>6. 3 <= w => f[3] = g[3]
  BY <1>3, <1>5
<1>7. 4 <= w => f[4] = g[4]
  BY <1>3, <1>6
<1>8. 5 <= w => f[5] = g[5]
  BY <1>3, <1>7
<1>9. 6 <= w => f[6] = g[6]
  BY <1>3, <1>8
<1>10. 7 <= w => f[7] = g[7]
  BY <1>3, <1>9
<1>11. 8 <= w => f[8] = g[8]
  BY <1>3, <1>10
<1>12. w = 0 \/ w = 1 \/ w = 2 \/ w = 3 \/ w = 4 \/ w = 5 \/ w = 6 \/ w = 7 \/ w = 8
  OBVIOUS
<1> QED
  BY <1>1, <1>4, <1>5, <1>6, <1>7, <1>8, <1>9, <1>10, <1>11, <1>12

(* The bytes of a number say the number modulo what so many bytes can say  *)
(* (binary.BigEndian's PutUint and Uint, as encoder.go, decoder.go and     *)
(* schema.go use them), whatever the number is, up to eight bytes.         *)
THEOREM NumbersArrive ==
  ASSUME NEW n \in Int, NEW w \in 0..8
  PROVE  NumberIn(Digits(n, w)) = n % Power[w]
<1> DEFINE s    == Digits(n, w)
           m(i) == n \div Power[w - i]
           f    == [i \in 0..w |-> m(i) % Power[i]]
           g    == CHOOSE h : IsSum(h, s)
<1>1. Len(s) = w
  BY DigitsAreBytes
<1>2. f[0] = 0
  <2>1. m(0) \in Int
    <3>1. w - 0 = w /\ Power[w] \in Nat \ {0}
      BY PowersArePositive
    <3> QED
      BY <3>1, Split
  <2> QED
    BY <2>1, PowerDef
<1>3. ASSUME NEW i \in 1..w PROVE f[i] = f[i - 1] * Base + s[i]
  <2>1. /\ i - 1 \in 0..w /\ i \in 1..8 /\ w - i \in 0..8 /\ w - (i - 1) \in 1..8
        /\ (w - (i - 1)) - 1 = w - i
    OBVIOUS
  <2>2. /\ Power[w - i] \in Nat \ {0} /\ Power[i - 1] \in Nat \ {0}
        /\ Power[w - (i - 1)] = Base * Power[w - i] /\ Power[i] = Base * Power[i - 1]
    BY <2>1, PowersArePositive, PowerDef
  <2>3. m(i) \in Int /\ m(i) \div Base = m(i - 1)
    <3>1. Base \in Nat \ {0}
      BY FrameAssumption
    <3>2. m(i) \in Int
      BY <2>2, Split
    <3>3. (n \div Power[w - i]) \div Base = n \div (Base * Power[w - i])
      BY <2>2, <3>1, Carry
    <3> QED
      BY <2>2, <3>2, <3>3
  <2>4. m(i) % (Power[i - 1] * Base) = ((m(i) \div Base) % Power[i - 1]) * Base + (m(i) % Base)
    BY <2>2, <2>3, Carry, FrameAssumption
  <2>5. Power[i - 1] * Base = Power[i]
    BY <2>2, FrameAssumption
  <2>6. s[i] = m(i) % Base
    BY DigitsAreBytes
  <2>7. f[i] = m(i) % Power[i] /\ f[i - 1] = m(i - 1) % Power[i - 1]
    BY <2>1
  <2> QED
    BY <2>3, <2>4, <2>5, <2>6, <2>7
<1>4. f = [i \in 0..w |-> f[i]] /\ f[w] = n % Power[w]
  <2>1. m(w) = n
    <3>1. w - w = 0 /\ Power[0] = 1 /\ n \div 1 = n
      BY PowerDef
    <3> QED
      BY <3>1
  <2> QED
    BY <2>1
<1> HIDE DEF f, s
<1>5. IsSum(f, s)
  <2>1. \A i \in 0..w : f[i] = IF i = 0 THEN 0 ELSE f[i - 1] * Base + s[i]
    BY <1>2, <1>3
  <2> QED
    BY <1>1, <1>4, <2>1 DEF IsSum
<1>6. IsSum(g, s)
  BY <1>5, Zenon
<1>7. NumberIn(s) = g[w]
  BY <1>1, Zenon DEF NumberIn, IsSum
<1> HIDE DEF g
<1> QED
  BY <1>1, <1>4, <1>5, <1>6, <1>7, SumsAreUnique DEF s
-----------------------------------------------------------------------------
(* Frames.                                                                 *)

(* A part that is found somewhere in a frame, byte after byte, is what the *)
(* slice at that place returns.                                            *)
LEMMA Slices ==
  ASSUME NEW S, NEW raw \in Seq(S), NEW part \in Seq(S), NEW at \in Nat,
         at + Len(part) <= Len(raw),
         \A i \in 1..Len(part) : raw[at + i] = part[i]
  PROVE  SubSeq(raw, at + 1, at + Len(part)) = part
<1>1. Len(part) \in Nat /\ Len(raw) \in Nat
  BY LenProperties
<1>2. \A i \in (at + 1)..(at + Len(part)) : raw[i] \in S
  BY <1>1, ElementOfSeq
<1>3. /\ SubSeq(raw, at + 1, at + Len(part)) \in Seq(S)
      /\ Len(SubSeq(raw, at + 1, at + Len(part))) = Len(part)
      /\ \A i \in 1..Len(part) : SubSeq(raw, at + 1, at + Len(part))[i] = raw[at + i]
  BY <1>1, <1>2, SubSeqProperties
<1> QED
  BY <1>3, SeqEqual

(* The length of a slice within the bounds.                                *)
LEMMA SliceLength ==
  ASSUME NEW S, NEW raw \in Seq(S), NEW k \in Nat, NEW from \in Nat \ {0},
         from + k - 1 <= Len(raw)
  PROVE  Len(SubSeq(raw, from, from + k - 1)) = k
<1>1. \A i \in from..(from + k - 1) : raw[i] \in S
  BY LenProperties, ElementOfSeq
<1> QED
  BY <1>1, SubSeqProperties

(* What the parts of a frame are made of, when its payload is made of      *)
(* members of S.                                                           *)
Letter(S) == Byte \cup S

LEMMA PartsAreSequences ==
  ASSUME NEW S, NEW o \in FrameOptions(S)
  PROVE  /\ NspOf(o) \in Seq(Byte) /\ o.event \in Seq(Byte)
         /\ NspOf(o) \in Seq(Letter(S)) /\ o.event \in Seq(Letter(S))
         /\ o.payload \in Seq(Letter(S))
         /\ Digits(o.ackID, 4) \in Seq(Letter(S)) /\ Len(Digits(o.ackID, 4)) = 4
         /\ LenByte(NspOf(o)) \in Byte /\ LenByte(o.event) \in Byte
         /\ Len(NspOf(o)) \in Nat /\ Len(o.event) \in Nat /\ Len(o.payload) \in Nat
         /\ Byte \subseteq Letter(S)
<1>1. NspOf(o) \in Seq(Byte) /\ o.event \in Seq(Byte) /\ o.payload \in Seq(S)
  <2>1. o.nsp \in Seq(Byte) /\ o.event \in Seq(Byte) /\ o.payload \in Seq(S)
    BY DEF FrameOptions
  <2>2. Slash \in Byte
    BY FrameAssumption DEF Byte
  <2>3. <<Slash>> \in Seq(Byte)
    BY <2>2
  <2> QED
    BY <2>1, <2>3 DEF NspOf
<1>2. Byte \subseteq Letter(S) /\ S \subseteq Letter(S)
  BY DEF Letter
<1>3. Digits(o.ackID, 4) \in Seq(Byte) /\ Len(Digits(o.ackID, 4)) = 4
  BY DigitsAreBytes DEF FrameOptions
<1>4. Len(NspOf(o)) \in Nat /\ Len(o.event) \in Nat /\ Len(o.payload) \in Nat
  BY <1>1, LenProperties
<1>5. LenByte(NspOf(o)) \in Byte /\ LenByte(o.event) \in Byte
  BY <1>4, LengthBytes DEF LenByte
<1> QED
  BY <1>1, <1>2, <1>3, <1>4, <1>5, SeqMonotonic

(* Two sequences one after the other.                                      *)
LEMMA Joined ==
  ASSUME NEW S, NEW s \in Seq(S), NEW t \in Seq(S)
  PROVE  /\ s \o t \in Seq(S) /\ Len(s \o t) = Len(s) + Len(t)
         /\ \A i \in 1..Len(s) : (s \o t)[i] = s[i]
         /\ \A i \in 1..Len(t) : (s \o t)[Len(s) + i] = t[i]
<1>1. Len(s) \in Nat /\ Len(t) \in Nat
  BY LenProperties
<1>2. /\ s \o t \in Seq(S) /\ Len(s \o t) = Len(s) + Len(t)
      /\ \A i \in 1..(Len(s) + Len(t)) :
             (s \o t)[i] = IF i <= Len(s) THEN s[i] ELSE t[i - Len(s)]
  BY ConcatProperties
<1>3. ASSUME NEW i \in 1..Len(s) PROVE (s \o t)[i] = s[i]
  BY <1>1, <1>2
<1>4. ASSUME NEW i \in 1..Len(t) PROVE (s \o t)[Len(s) + i] = t[i]
  <2>1. /\ Len(s) + i \in 1..(Len(s) + Len(t))
        /\ ~(Len(s) + i <= Len(s)) /\ (Len(s) + i) - Len(s) = i
    BY <1>1
  <2> QED
    BY <1>2, <2>1
<1> QED
  BY <1>2, <1>3, <1>4

(* Where EncodeFrame puts what.                                            *)
LEMMA FrameLayout ==
  ASSUME NEW S, NEW o \in FrameOptions(S)
  PROVE  LET raw == EncodeFrame(o)
             nsp == NspOf(o)
             n   == Len(nsp)
             e   == Len(o.event)
         IN  /\ raw \in Seq(Letter(S))
             /\ Len(raw) = n + e + 7 + Len(o.payload)
             /\ raw[1] = o.type /\ raw[2] = LenByte(nsp)
             /\ \A i \in 1..n : raw[2 + i] = nsp[i]
             /\ raw[n + 3] = LenByte(o.event)
             /\ \A i \in 1..e : raw[n + 3 + i] = o.event[i]
             /\ \A i \in 1..4 : raw[n + e + 3 + i] = Digits(o.ackID, 4)[i]
             /\ \A i \in 1..Len(o.payload) : raw[n + e + 7 + i] = o.payload[i]
<1> DEFINE L       == Letter(S)
           a       == o.type
           b       == LenByte(NspOf(o))
           c       == LenByte(o.event)
           nsp     == NspOf(o)
           event   == o.event
           num     == Digits(o.ackID, 4)
           payload == o.payload
           n       == Len(nsp)
           e       == Len(event)
<1>1. a \in L /\ b \in L /\ c \in L
  BY PartsAreSequences DEF FrameOptions
<1>2. /\ nsp \in Seq(L) /\ event \in Seq(L) /\ num \in Seq(L) /\ payload \in Seq(L)
      /\ n = Len(nsp) /\ e = Len(event) /\ Len(num) = 4
      /\ n \in Nat /\ e \in Nat /\ Len(payload) \in Nat
  BY PartsAreSequences
<1> HIDE DEF L, a, b, c, nsp, event, num, payload, n, e
<1> DEFINE p1  == <<a, b>> \o nsp
           p2  == p1 \o <<c>>
           p3  == p2 \o event
           p4  == p3 \o num
           raw == p4 \o payload
<1>3. /\ <<a, b>> \in Seq(L) /\ Len(<<a, b>>) = 2 /\ <<a, b>>[1] = a /\ <<a, b>>[2] = b
      /\ <<c>> \in Seq(L) /\ Len(<<c>>) = 1 /\ <<c>>[1] = c
  BY <1>1
<1>4. /\ p1 \in Seq(L) /\ Len(p1) = n + 2
      /\ \A i \in 1..2 : p1[i] = <<a, b>>[i]
      /\ \A i \in 1..n : p1[2 + i] = nsp[i]
  <2>1. <<a, b>> \in Seq(L) /\ nsp \in Seq(L)
    BY <1>2, <1>3
  <2>2. /\ p1 \in Seq(L) /\ Len(p1) = Len(<<a, b>>) + Len(nsp)
        /\ \A i \in 1..Len(<<a, b>>) : p1[i] = <<a, b>>[i]
        /\ \A i \in 1..Len(nsp) : p1[Len(<<a, b>>) + i] = nsp[i]
    BY <2>1, Joined
  <2> HIDE DEF p1
  <2> QED
    BY <1>2, <1>3, <2>2
<1> HIDE DEF p1
<1>5. /\ p2 \in Seq(L) /\ Len(p2) = n + 3
      /\ \A i \in 1..(n + 2) : p2[i] = p1[i]
      /\ \A i \in 1..1 : p2[n + 2 + i] = <<c>>[i]
  <2>1. p1 \in Seq(L) /\ <<c>> \in Seq(L)
    BY <1>3, <1>4
  <2>2. /\ p2 \in Seq(L) /\ Len(p2) = Len(p1) + Len(<<c>>)
        /\ \A i \in 1..Len(p1) : p2[i] = p1[i]
        /\ \A i \in 1..Len(<<c>>) : p2[Len(p1) + i] = <<c>>[i]
    BY <2>1, Joined
  <2> HIDE DEF p2
  <2> QED
    BY <1>2, <1>3, <1>4, <2>2
<1> HIDE DEF p2
<1>6. /\ p3 \in Seq(L) /\ Len(p3) = n + e + 3
      /\ \A i \in 1..(n + 3) : p3[i] = p2[i]
      /\ \A i \in 1..e : p3[n + 3 + i] = event[i]
  <2>1. p2 \in Seq(L) /\ event \in Seq(L)
    BY <1>2, <1>5
  <2>2. /\ p3 \in Seq(L) /\ Len(p3) = Len(p2) + Len(event)
        /\ \A i \in 1..Len(p2) : p3[i] = p2[i]
        /\ \A i \in 1..Len(event) : p3[Len(p2) + i] = event[i]
    BY <2>1, Joined
  <2> HIDE DEF p3
  <2> QED
    BY <1>2, <1>5, <2>2
<1> HIDE DEF p3
<1>7. /\ p4 \in Seq(L) /\ Len(p4) = n + e + 7
      /\ \A i \in 1..(n + e + 3) : p4[i] = p3[i]
      /\ \A i \in 1..4 : p4[n + e + 3 + i] = num[i]
  <2>1. p3 \in Seq(L) /\ num \in Seq(L)
    BY <1>2, <1>6
  <2>2. /\ p4 \in Seq(L) /\ Len(p4) = Len(p3) + Len(num)
        /\ \A i \in 1..Len(p3) : p4[i] = p3[i]
        /\ \A i \in 1..Len(num) : p4[Len(p3) + i] = num[i]
    BY <2>1, Joined
  <2> HIDE DEF p4
  <2> QED
    BY <1>2, <1>6, <2>2
<1> HIDE DEF p4
<1>8. /\ raw \in Seq(L) /\ Len(raw) = n + e + 7 + Len(payload)
      /\ \A i \in 1..(n + e + 7) : raw[i] = p4[i]
      /\ \A i \in 1..Len(payload) : raw[n + e + 7 + i] = payload[i]
  <2>1. p4 \in Seq(L) /\ payload \in Seq(L)
    BY <1>2, <1>7
  <2>2. /\ raw \in Seq(L) /\ Len(raw) = Len(p4) + Len(payload)
        /\ \A i \in 1..Len(p4) : raw[i] = p4[i]
        /\ \A i \in 1..Len(payload) : raw[Len(p4) + i] = payload[i]
    BY <2>1, Joined
  <2> HIDE DEF raw
  <2> QED
    BY <1>2, <1>7, <2>2
<1> HIDE DEF raw
<1>9. /\ raw[1] = a /\ raw[2] = b
      /\ \A i \in 1..n : raw[2 + i] = nsp[i]
      /\ raw[n + 3] = c
      /\ \A i \in 1..e : raw[n + 3 + i] = event[i]
      /\ \A i \in 1..4 : raw[n + e + 3 + i] = num[i]
  <2>1. \A i \in 1..(n + e + 3) : i \in 1..(n + e + 7) /\ raw[i] = p3[i]
    BY <1>2, <1>7, <1>8
  <2>2. \A i \in 1..(n + 3) : i \in 1..(n + e + 3) /\ raw[i] = p2[i]
    BY <1>2, <1>6, <2>1
  <2>3. \A i \in 1..(n + 2) : i \in 1..(n + 3) /\ raw[i] = p1[i]
    BY <1>2, <1>5, <2>2
  <2>4. \A i \in 1..2 : raw[i] = <<a, b>>[i]
    BY <1>2, <1>4, <2>3
  <2>5. \A i \in 1..n : raw[2 + i] = nsp[i]
    <3>1. \A i \in 1..n : 2 + i \in 1..(n + 2)
      BY <1>2
    <3> QED
      BY <1>4, <2>3, <3>1
  <2>6. raw[n + 3] = c
    <3>1. n + 3 \in 1..(n + 3) /\ n + 2 + 1 = n + 3 /\ 1 \in 1..1
      BY <1>2
    <3> QED
      BY <1>3, <1>5, <2>2, <3>1
  <2>7. \A i \in 1..e : raw[n + 3 + i] = event[i]
    <3>1. \A i \in 1..e : n + 3 + i \in 1..(n + e + 3)
      BY <1>2
    <3> QED
      BY <1>6, <2>1, <3>1
  <2>8. \A i \in 1..4 : raw[n + e + 3 + i] = num[i]
    <3>1. \A i \in 1..4 : n + e + 3 + i \in 1..(n + e + 7)
      BY <1>2
    <3> QED
      BY <1>7, <1>8, <3>1
  <2> QED
    BY <1>3, <2>4, <2>5, <2>6, <2>7, <2>8
<1>10. raw = EncodeFrame(o)
  BY DEF raw, p4, p3, p2, p1, a, b, c, nsp, event, num, payload, EncodeFrame
<1> QED
  BY <1>8, <1>9, <1>10 DEF L, a, b, c, nsp, event, num, payload, n, e

-----------------------------------------------------------------------------
(* A frame whose names are shorter than a byte can say is read back as it  *)
(* was written, whatever bytes its names and whatever its payload is made  *)
(* of: type, namespace ("" as "/"), event, the number up to the width of   *)
(* four bytes, and the whole payload (encoder.go, decoder.go).             *)
THEOREM ShortFramesArrive ==
  ASSUME NEW S, NEW o \in FrameOptions(S), Short(o)
  PROVE  DecodeFrameHeader(EncodeFrame(o)) =
           [ok |-> TRUE, type |-> o.type, nsp |-> NspOf(o), event |-> o.event,
            ackID |-> o.ackID % Power[4], payload |-> o.payload]
<1> DEFINE raw == EncodeFrame(o)
           nsp == NspOf(o)
           n   == Len(nsp)
           e   == Len(o.event)
           num == Digits(o.ackID, 4)
           l   == Len(o.payload)
<1>1. /\ n \in Nat /\ e \in Nat /\ l \in Nat /\ Len(num) = 4
      /\ Len(nsp) = n /\ Len(o.event) = e /\ Len(o.payload) = l
      /\ nsp \in Seq(Letter(S)) /\ o.event \in Seq(Letter(S))
      /\ num \in Seq(Letter(S)) /\ o.payload \in Seq(Letter(S))
  BY PartsAreSequences
<1>2. LenByte(nsp) = n /\ LenByte(o.event) = e
  BY <1>1, LengthBytes DEF Short, LenByte
<1>3. /\ raw \in Seq(Letter(S)) /\ Len(raw) = n + e + 7 + l
      /\ raw[1] = o.type /\ raw[2] = n /\ raw[n + 3] = e
      /\ \A i \in 1..n : raw[2 + i] = nsp[i]
      /\ \A i \in 1..e : raw[n + 3 + i] = o.event[i]
      /\ \A i \in 1..4 : raw[n + e + 3 + i] = num[i]
      /\ \A i \in 1..l : raw[n + e + 7 + i] = o.payload[i]
  BY <1>2, FrameLayout
<1> HIDE DEF raw, nsp, n, e, num, l
<1>4. SubSeq(raw, 3, n + 2) = nsp
  <2>1. /\ 2 \in Nat /\ 2 + Len(nsp) <= Len(raw)
        /\ 2 + 1 = 3 /\ 2 + Len(nsp) = n + 2
    BY <1>1, <1>3
  <2>2. raw \in Seq(Letter(S)) /\ nsp \in Seq(Letter(S))
    BY <1>1, <1>3
  <2>3. \A i \in 1..Len(nsp) : raw[2 + i] = nsp[i]
    BY <1>1, <1>3
  <2>4. SubSeq(raw, 2 + 1, 2 + Len(nsp)) = nsp
    BY <2>1, <2>2, <2>3, Slices
  <2> QED
    BY <2>1, <2>4
<1>5. SubSeq(raw, n + 4, n + e + 3) = o.event
  <2>1. /\ n + 3 \in Nat /\ n + 3 + Len(o.event) <= Len(raw)
        /\ n + 3 + 1 = n + 4 /\ n + 3 + Len(o.event) = n + e + 3
    BY <1>1, <1>3
  <2>2. raw \in Seq(Letter(S)) /\ o.event \in Seq(Letter(S))
    BY <1>1, <1>3
  <2>3. \A i \in 1..Len(o.event) : raw[n + 3 + i] = o.event[i]
    BY <1>1, <1>3
  <2>4. SubSeq(raw, n + 3 + 1, n + 3 + Len(o.event)) = o.event
    BY <2>1, <2>2, <2>3, Slices
  <2> QED
    BY <2>1, <2>4
<1>6. SubSeq(raw, n + e + 4, n + e + 7) = num
  <2>1. /\ n + e + 3 \in Nat /\ n + e + 3 + Len(num) <= Len(raw)
        /\ n + e + 3 + 1 = n + e + 4 /\ n + e + 3 + Len(num) = n + e + 7
    BY <1>1, <1>3
  <2>2. raw \in Seq(Letter(S)) /\ num \in Seq(Letter(S))
    BY <1>1, <1>3
  <2>3. \A i \in 1..Len(num) : raw[n + e + 3 + i] = num[i]
    BY <1>1, <1>3
  <2>4. SubSeq(raw, n + e + 3 + 1, n + e + 3 + Len(num)) = num
    BY <2>1, <2>2, <2>3, Slices
  <2> QED
    BY <2>1, <2>4
<1>7. SubSeq(raw, n + e + 8, Len(raw)) = o.payload
  <2>1. /\ n + e + 7 \in Nat /\ n + e + 7 + Len(o.payload) <= Len(raw)
        /\ n + e + 7 + 1 = n + e + 8 /\ n + e + 7 + Len(o.payload) = Len(raw)
    BY <1>1, <1>3
  <2>2. raw \in Seq(Letter(S)) /\ o.payload \in Seq(Letter(S))
    BY <1>1, <1>3
  <2>3. \A i \in 1..Len(o.payload) : raw[n + e + 7 + i] = o.payload[i]
    BY <1>1, <1>3
  <2>4. SubSeq(raw, n + e + 7 + 1, n + e + 7 + Len(o.payload)) = o.payload
    BY <2>1, <2>2, <2>3, Slices
  <2> QED
    BY <2>1, <2>4
<1>8. AckAt(raw, n + 3) = n + e + 4
  BY <1>1, <1>3 DEF AckAt
<1>9. /\ 3 + raw[2] = n + 3 /\ (n + 3) - 1 = n + 2 /\ (n + 3) + 1 = n + 4
      /\ (n + e + 4) - 1 = n + e + 3 /\ (n + e + 4) + 3 = n + e + 7
      /\ (n + e + 4) + 4 = n + e + 8
      /\ ~(Len(raw) < 2) /\ ~(Len(raw) < n + 3) /\ ~(Len(raw) < n + e + 7)
  BY <1>1, <1>3
<1>10. DecodeFrameHeader(raw) =
         [ok |-> TRUE, type |-> raw[1],
          nsp |-> SubSeq(raw, 3, n + 2), event |-> SubSeq(raw, n + 4, n + e + 3),
          ackID |-> NumberIn(SubSeq(raw, n + e + 4, n + e + 7)),
          payload |-> SubSeq(raw, n + e + 8, Len(raw))]
  BY <1>8, <1>9, Zenon DEF DecodeFrameHeader
<1>11. NumberIn(num) = o.ackID % Power[4]
  BY NumbersArrive DEF num, FrameOptions
<1> QED
  BY <1>3, <1>4, <1>5, <1>6, <1>7, <1>10, <1>11, Zenon DEF raw, nsp

(* A longer name is never read back as it was written: the frame is taken  *)
(* for too short, or one of its names comes out as another, so a name of   *)
(* 256 bytes or more, which EncodeFrame does not refuse, is never delivered*)
(* (encoder.go:46-56).                                                     *)
THEOREM LongNamesNeverArrive ==
  ASSUME NEW S, NEW o \in FrameOptions(S), ~Short(o)
  PROVE  LET h == DecodeFrameHeader(EncodeFrame(o))
         IN  h.ok => h.nsp # NspOf(o) \/ h.event # o.event
<1> DEFINE raw == EncodeFrame(o)
           h   == DecodeFrameHeader(raw)
           n   == Len(NspOf(o))
           e   == Len(o.event)
<1>1. /\ n \in Nat /\ e \in Nat
      /\ LenByte(NspOf(o)) \in Byte /\ LenByte(o.event) \in Byte
  BY PartsAreSequences
<1>2. /\ raw \in Seq(Letter(S)) /\ Len(raw) \in Nat
      /\ raw[2] = LenByte(NspOf(o)) /\ raw[n + 3] = LenByte(o.event)
  BY FrameLayout, LenProperties
<1> SUFFICES ASSUME h.ok PROVE h.nsp # NspOf(o) \/ h.event # o.event
  OBVIOUS
<1> HIDE DEF raw
<1> DEFINE eventAt == 3 + raw[2]
           ackAt   == eventAt + 1 + raw[eventAt]
<1>3. /\ ~(Len(raw) < eventAt) /\ ~(Len(raw) < ackAt + 3)
      /\ h.nsp = SubSeq(raw, 3, eventAt - 1)
      /\ h.event = SubSeq(raw, eventAt + 1, ackAt - 1)
  BY DEF DecodeFrameHeader, TooShort, AckAt
<1> HIDE DEF h, n, e
<1>4. CASE n >= Base
  <2>1. raw[2] \in Nat /\ raw[2] < n
    BY <1>1, <1>2, <1>4, FrameAssumption DEF Byte
  <2>2. Len(SubSeq(raw, 3, 3 + raw[2] - 1)) = raw[2]
    BY <1>2, <1>3, <2>1, SliceLength
  <2>3. Len(h.nsp) # n
    BY <1>1, <1>3, <2>1, <2>2
  <2> QED
    BY <2>3 DEF n
<1>5. CASE n < Base /\ e >= Base
  <2>1. LenByte(NspOf(o)) = n
    BY <1>1, <1>5, LengthBytes DEF LenByte, n
  <2>2. eventAt = n + 3
    BY <1>1, <1>2, <2>1
  <2>3. raw[eventAt] \in Nat /\ raw[eventAt] < e
    BY <1>1, <1>2, <1>5, <2>2, FrameAssumption DEF Byte
  <2>4. ackAt - 1 = eventAt + 1 + raw[eventAt] - 1 /\ eventAt + 1 \in Nat \ {0}
    BY <1>1, <2>2, <2>3
  <2> HIDE DEF eventAt
  <2>5. Len(SubSeq(raw, eventAt + 1, eventAt + 1 + raw[eventAt] - 1)) = raw[eventAt]
    <3>1. eventAt + 1 + raw[eventAt] - 1 <= Len(raw)
      BY <1>1, <1>2, <1>3, <2>2, <2>3
    <3> QED
      BY <1>2, <2>3, <2>4, <3>1, SliceLength
  <2>6. Len(h.event) # e
    BY <1>1, <1>3, <2>3, <2>4, <2>5
  <2> QED
    BY <2>6 DEF e
<1> QED
  BY <1>1, <1>4, <1>5, FrameAssumption DEF Short, n, e
=============================================================================
