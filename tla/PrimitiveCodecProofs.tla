------------------------- MODULE PrimitiveCodecProofs -------------------------
(***************************************************************************)
(* What decodeValue (protocol/schema.go) makes of a primitive value that   *)
(* encodeValue wrote, wherever in a payload it stands, for numbers of any  *)
(* size, strings and bytes of any length a part can say, and a byte of any *)
(* number of values.                                                       *)
(***************************************************************************)
EXTENDS PrimitiveCodec, FrameCodecProofs

(* The values among the members of S: integers of 64 bits, with a sign or  *)
(* without, floats of any size, NaN and the infinities among them; those   *)
(* of a kind that no primitive type reads stand for themselves.            *)
Payloads(S) ==
    {v \in S : \/ v \in [k : {"int"}, v : Int] /\ -Power[8] <= 2 * v.v /\ v.v < Power[8]
               \/ v.k = "float" /\ v.whole \in Int
               \/ v \in [k : {"bool"}, v : BOOLEAN]
               \/ v \in [k : {"string", "bytes"}, v : Seq(Byte)]
               \/ v.k \in {"nil", "slice", "map", "other"}}

(* Bytes, and what stands for a float's, are among the members of S; and   *)
(* whatever the platform makes of a float is an integer.                   *)
Elements(S) ==
    /\ Byte \subseteq S
    /\ \A n \in Int : FloatOf(n) \in S
    /\ \A type \in {"uint64", "int64"}, f \in S : Overflow(type, f) \in Int

(* A part's length is said in four bytes.                                  *)
Fits(t, v) == t \in PartTypes => Len(PartOf(t, v)) < Power[4]
-----------------------------------------------------------------------------
(* Reading.                                                                *)

(* A number below the limit is its own remainder.                          *)
LEMMA NumbersThatFit ==
  ASSUME NEW n \in Nat, NEW p \in Nat \ {0}, n < p
  PROVE  n % p = n
  OBVIOUS

(* The bytes at the place where they were written.                         *)
LEMMA BytesAtTheirPlace ==
  ASSUME NEW S, NEW before \in Seq(S), NEW part \in Seq(S), NEW after \in Seq(S)
  PROVE  Bytes((before \o part) \o after, Len(before), Len(part)) = part
<1> DEFINE front == before \o part
           buf   == front \o after
<1>1. Len(before) \in Nat /\ Len(part) \in Nat /\ Len(after) \in Nat
  BY LenProperties
<1>2. /\ front \in Seq(S) /\ Len(front) = Len(before) + Len(part)
      /\ \A i \in 1..Len(part) : front[Len(before) + i] = part[i]
  BY Joined
<1> HIDE DEF front
<1>3. /\ buf \in Seq(S) /\ Len(buf) = Len(front) + Len(after)
      /\ \A i \in 1..Len(front) : buf[i] = front[i]
  <2>1. front \in Seq(S)
    BY <1>2
  <2> QED
    BY <2>1, Joined
<1> HIDE DEF buf
<1>4. \A i \in 1..Len(part) : buf[Len(before) + i] = part[i]
  <2> TAKE i \in 1..Len(part)
  <2>1. Len(before) + i \in 1..Len(front)
    BY <1>1, <1>2
  <2> QED
    BY <1>2, <1>3, <2>1
<1>5. Len(before) + Len(part) <= Len(buf)
  BY <1>1, <1>2, <1>3
<1>6. SubSeq(buf, Len(before) + 1, Len(before) + Len(part)) = part
  BY <1>1, <1>3, <1>4, <1>5, Slices
<1> QED
  BY <1>6 DEF Bytes, buf, front

(* ... and how much there is.                                              *)
LEMMA LengthsAddUp ==
  ASSUME NEW S, NEW before \in Seq(S), NEW part \in Seq(S), NEW after \in Seq(S)
  PROVE  /\ before \o part \in Seq(S)
         /\ Len(before \o part) = Len(before) + Len(part)
         /\ Len((before \o part) \o after) = Len(before) + Len(part) + Len(after)
         /\ Len(before) \in Nat /\ Len(part) \in Nat /\ Len(after) \in Nat
<1>1. before \o part \in Seq(S) /\ Len(before \o part) = Len(before) + Len(part)
  BY Joined
<1>2. before \o part \in Seq(S)
  BY <1>1
<1>3. Len((before \o part) \o after) = Len(before \o part) + Len(after)
  BY <1>2, Joined
<1> QED
  BY <1>1, <1>3, LenProperties

(* As many bytes as the type has are read as its value.                    *)
LEMMA FixedBytesAreRead ==
  ASSUME NEW S, NEW before \in Seq(S), NEW after \in Seq(S),
         NEW t \in FixedTypes, NEW part \in Seq(S), Len(part) = Width(t)
  PROVE  LET buf == before \o part
         IN  /\ buf \in Seq(S) /\ Len(buf) = Len(before) + Width(t)
             /\ ReadFixed(t, buf \o after, Len(before)) = At(FixedVal(t, part), Len(buf))
<1> DEFINE w    == Width(t)
           all  == (before \o part) \o after
<1>1. w \in Nat
  BY DEF FixedTypes, NumberTypes, Width
<1>2. Bytes(all, Len(before), w) = part
  BY BytesAtTheirPlace
<1>3. /\ before \o part \in Seq(S) /\ Len(before \o part) = Len(before) + w
      /\ Len(all) = Len(before) + w + Len(after)
      /\ Len(before) \in Nat /\ Len(after) \in Nat
  BY LengthsAddUp
<1> HIDE DEF all, w
<1>4. ~(Len(before) + w > Len(all))
  BY <1>1, <1>3
<1>5. ReadFixed(t, all, Len(before)) = At(FixedVal(t, part), Len(before) + w)
  BY <1>2, <1>4 DEF ReadFixed, w
<1> QED
  BY <1>3, <1>5 DEF w, all

(* A part is read as far as its length says.                               *)
LEMMA PartsAreRead ==
  ASSUME NEW S, Byte \subseteq S, NEW before \in Seq(S), NEW after \in Seq(S),
         NEW t \in PartTypes, NEW part \in Seq(S), Len(part) < Power[4]
  PROVE  LET buf == before \o WithLength(part)
         IN  /\ buf \in Seq(S) /\ Len(buf) = Len(before) + 4 + Len(part)
             /\ ReadPart(t, buf \o after, Len(before)) = At(PartVal(t, part), Len(buf))
<1> DEFINE n    == Len(part)
           num  == Digits(n, 4)
           code == num \o part
           all  == (before \o code) \o after
<1>1. n \in Nat /\ Len(before) \in Nat /\ Len(after) \in Nat
  BY LenProperties
<1>2. num \in Seq(S) /\ Len(num) = 4 /\ NumberIn(num) = n
  <2>1. num \in Seq(Byte) /\ Len(num) = 4 /\ NumberIn(num) = n % Power[4]
    BY <1>1, DigitsAreBytes, NumbersArrive
  <2>2. num \in Seq(S)
    BY <2>1, SeqMonotonic
  <2>3. n % Power[4] = n
    <3>1. Power[4] \in Nat \ {0}
      BY PowersArePositive
    <3> QED
      BY <1>1, <3>1, NumbersThatFit
  <2> QED
    BY <2>1, <2>2, <2>3
<1>3. num \in Seq(S)
  BY <1>2
<1> HIDE DEF n, num
<1>4. code \in Seq(S) /\ Len(code) = 4 + n
  <2>1. code \in Seq(S) /\ Len(code) = Len(num) + Len(part)
    BY <1>3, Joined
  <2> QED
    BY <1>2, <2>1 DEF n
<1>5. code \in Seq(S)
  BY <1>4
<1> HIDE DEF code
<1>6. /\ before \o code \in Seq(S) /\ Len(before \o code) = Len(before) + (4 + n)
      /\ Len(all) = Len(before) + (4 + n) + Len(after)
  <2>1. /\ before \o code \in Seq(S)
        /\ Len(before \o code) = Len(before) + Len(code)
        /\ Len(all) = Len(before) + Len(code) + Len(after)
    BY <1>5, LengthsAddUp
  <2> QED
    BY <1>4, <2>1
<1>7. all = ((before \o num) \o part) \o after
  <2>1. before \o (num \o part) = (before \o num) \o part
    BY <1>3
  <2> QED
    BY <2>1 DEF code
<1>8. before \o num \in Seq(S) /\ Len(before \o num) = Len(before) + 4
  <2>1. before \o num \in Seq(S) /\ Len(before \o num) = Len(before) + Len(num)
    BY <1>3, Joined
  <2> QED
    BY <1>2, <2>1
<1>9. before \o num \in Seq(S)
  BY <1>8
<1> HIDE DEF all
<1>10. Bytes(all, Len(before), 4) = num
  <2>1. ((before \o num) \o part) \o after = (before \o num) \o (part \o after)
    BY <1>9
  <2>2. part \o after \in Seq(S)
    BY Joined
  <2>3. Bytes((before \o num) \o (part \o after), Len(before), Len(num)) = num
    BY <1>3, <2>2, BytesAtTheirPlace
  <2> QED
    BY <1>2, <1>7, <2>1, <2>3
<1>11. Bytes(all, Len(before) + 4, n) = part
  <2>1. Bytes(((before \o num) \o part) \o after, Len(before \o num), Len(part)) = part
    BY <1>9, BytesAtTheirPlace
  <2> QED
    BY <1>7, <1>8, <2>1 DEF n
<1>12. ~(Len(before) + 4 > Len(all)) /\ ~(Len(before) + 4 + n > Len(all))
  BY <1>1, <1>6 DEF n
<1>13. ReadPart(t, all, Len(before)) = At(PartVal(t, part), Len(before) + 4 + n)
  BY <1>2, <1>10, <1>11, <1>12 DEF ReadPart
<1>14. Len(before) + (4 + n) = Len(before) + 4 + n
  BY <1>1 DEF n
<1> QED
  BY <1>6, <1>13, <1>14 DEF all, code, num, n, WithLength
-----------------------------------------------------------------------------
(* Signs.                                                                  *)

(* A signed number comes back within the range of its width.               *)
LEMMA SignedNumbers ==
  ASSUME NEW w \in 0..8, NEW x \in Int
  PROVE  Signed(x % Power[w], w) = SignedMod(x, w) /\ IsSigned(SignedMod(x, w), w)
<1> DEFINE p    == Power[w]
           half == p \div 2
           d    == x \div p
           r    == x % p
<1>1. p \in Nat \ {0}
  BY PowersArePositive
<1> HIDE DEF p
<1>2. d \in Int /\ r \in 0..(p - 1) /\ x = d * p + r
  BY <1>1, Split
<1>3. half \in Nat /\ (p = 2 * half \/ p = 2 * half + 1)
  BY <1>1
<1> HIDE DEF d, r, half
<1>4. CASE 2 * r >= p
  <2>1. x + half = (d + 1) * p + (r + half - p)
    <3>1. (d + 1) * p = d * p + p
      BY <1>1, <1>2
    <3>2. d * p \in Int
      BY <1>1, <1>2
    <3> QED
      BY <1>1, <1>2, <1>3, <3>1, <3>2
  <2>2. r + half - p \in 0..(p - 1) /\ d + 1 \in Int
    BY <1>1, <1>2, <1>3, <1>4
  <2>3. (x + half) % p = r + half - p
    BY <1>1, <2>1, <2>2, Unique
  <2> QED
    <3>1. SignedMod(x, w) = r - p
      BY <1>1, <1>2, <1>3, <2>3 DEF SignedMod, p, half, r
    <3>2. Signed(x % Power[w], w) = r - p
      BY <1>4 DEF Signed, p, r
    <3>3. -p <= 2 * (r - p) /\ 2 * (r - p) < p
      BY <1>1, <1>2, <1>4
    <3> QED
      BY <3>1, <3>2, <3>3 DEF IsSigned, p
<1>5. CASE ~(2 * r >= p)
  <2>1. x + half = d * p + (r + half)
    <3>1. d * p \in Int
      BY <1>1, <1>2
    <3> QED
      BY <1>2, <1>3, <3>1
  <2>2. r + half \in 0..(p - 1)
    BY <1>1, <1>2, <1>3, <1>5
  <2>3. (x + half) % p = r + half
    BY <1>1, <1>2, <1>3, <2>1, <2>2, Unique
  <2> QED
    <3>1. SignedMod(x, w) = r
      BY <1>1, <1>2, <1>3, <2>3 DEF SignedMod, p, half, r
    <3>2. Signed(x % Power[w], w) = r
      BY <1>5 DEF Signed, p, r
    <3>3. -p <= 2 * r /\ 2 * r < p
      BY <1>1, <1>2, <1>5
    <3> QED
      BY <3>1, <3>2, <3>3 DEF IsSigned, p
<1> QED
  BY <1>4, <1>5

(* Going through 64 bits first changes nothing.                            *)
LEMMA WidestPower == \A w \in 0..8 : \E m \in Nat \ {0} : Power[8] = m * Power[w]
<1> DEFINE Q(w) == \E m \in Nat \ {0} : Power[8] = m * Power[w]
<1>1. Q(8)
  <2>1. Power[8] \in Nat /\ Power[8] = 1 * Power[8]
    BY PowersArePositive
  <2> QED
    BY <2>1
<1>2. ASSUME NEW w \in 0..7, Q(w + 1) PROVE Q(w)
  <2>1. PICK m \in Nat \ {0} : Power[8] = m * Power[w + 1]
    BY <1>2
  <2>2. Power[w + 1] = Base * Power[w] /\ Power[w] \in Nat /\ Base \in Nat \ {0}
    <3>1. w + 1 \in 1..8 /\ (w + 1) - 1 = w /\ w \in 0..8
      OBVIOUS
    <3> QED
      BY <3>1, PowerDef, PowersArePositive, FrameAssumption
  <2>3. \A a, b, c \in Nat : a * (b * c) = (a * b) * c
    OBVIOUS
  <2>4. \A a, b \in Nat \ {0} : a * b \in Nat \ {0}
    OBVIOUS
  <2>5. Power[8] = (m * Base) * Power[w] /\ m * Base \in Nat \ {0}
    BY <2>1, <2>2, <2>3, <2>4
  <2> QED
    BY <2>5
<1> HIDE DEF Q
<1>3. Q(7) /\ Q(6) /\ Q(5) /\ Q(4)
  <2>1. Q(7)
    <3>1. 7 \in 0..7 /\ 7 + 1 = 8
      OBVIOUS
    <3>2. Q(7 + 1)
      BY <1>1, <3>1, Zenon
    <3> QED
      BY <1>2, <3>1, <3>2, Zenon
  <2>2. Q(6)
    <3>1. 6 \in 0..7 /\ 6 + 1 = 7
      OBVIOUS
    <3>2. Q(6 + 1)
      BY <2>1, <3>1, Zenon
    <3> QED
      BY <1>2, <3>1, <3>2, Zenon
  <2>3. Q(5)
    <3>1. 5 \in 0..7 /\ 5 + 1 = 6
      OBVIOUS
    <3>2. Q(5 + 1)
      BY <2>2, <3>1, Zenon
    <3> QED
      BY <1>2, <3>1, <3>2, Zenon
  <2>4. Q(4)
    <3>1. 4 \in 0..7 /\ 4 + 1 = 5
      OBVIOUS
    <3>2. Q(4 + 1)
      BY <2>3, <3>1, Zenon
    <3> QED
      BY <1>2, <3>1, <3>2, Zenon
  <2> QED
    BY <2>1, <2>2, <2>3, <2>4
<1>4. Q(3) /\ Q(2) /\ Q(1) /\ Q(0)
  <2>1. Q(3)
    <3>1. 3 \in 0..7 /\ 3 + 1 = 4
      OBVIOUS
    <3>2. Q(3 + 1)
      BY <1>3, <3>1, Zenon
    <3> QED
      BY <1>2, <3>1, <3>2, Zenon
  <2>2. Q(2)
    <3>1. 2 \in 0..7 /\ 2 + 1 = 3
      OBVIOUS
    <3>2. Q(2 + 1)
      BY <2>1, <3>1, Zenon
    <3> QED
      BY <1>2, <3>1, <3>2, Zenon
  <2>3. Q(1)
    <3>1. 1 \in 0..7 /\ 1 + 1 = 2
      OBVIOUS
    <3>2. Q(1 + 1)
      BY <2>2, <3>1, Zenon
    <3> QED
      BY <1>2, <3>1, <3>2, Zenon
  <2>4. Q(0)
    <3>1. 0 \in 0..7 /\ 0 + 1 = 1
      OBVIOUS
    <3>2. Q(0 + 1)
      BY <2>3, <3>1, Zenon
    <3> QED
      BY <1>2, <3>1, <3>2, Zenon
  <2> QED
    BY <2>1, <2>2, <2>3, <2>4
<1>5. \A w \in 0..8 : Q(w)
  BY <1>1, <1>3, <1>4
<1> QED
  BY <1>5 DEF Q

LEMMA SixtyFourBitsSuffice ==
  ASSUME NEW w \in 0..8, NEW n \in Int
  PROVE  /\ n % Power[8] \in Int /\ Signed(n % Power[8], 8) \in Int
         /\ (n % Power[8]) % Power[w] = n % Power[w]
         /\ Signed(n % Power[8], 8) % Power[w] = n % Power[w]
<1> DEFINE p   == Power[w]
           big == Power[8]
           y   == n % big
           r   == n % p
<1>1. p \in Nat \ {0} /\ big \in Nat \ {0}
  BY PowersArePositive
<1>2. PICK m \in Nat \ {0} : big = m * p
  BY WidestPower
<1> HIDE DEF p, big
<1>3. r \in 0..(p - 1) /\ n \div p \in Int
  BY <1>1, Split
<1>4. PICK d \in Int : y = d * p + r
  <2>1. n % (m * p) = ((n \div p) % m) * p + (n % p)
    BY <1>1, Carry
  <2>2. (n \div p) % m \in Int
    BY <1>3, Split
  <2> QED
    BY <1>2, <2>1, <2>2
<1> HIDE DEF r
<1>5. y \in Int /\ y % p = r
  <2>1. y \in Int
    BY <1>1, Split
  <2>2. (d * p + r) % p = r
    BY <1>1, <1>3, <1>4, Unique
  <2> QED
    BY <1>4, <2>1, <2>2
<1>6. y - big \in Int /\ (y - big) % p = r
  <2>1. y - big = (d - m) * p + r
    <3>1. (d - m) * p = d * p - m * p
      BY <1>1, <1>2, <1>4
    <3>2. d * p \in Int /\ m * p \in Int
      BY <1>1, <1>2, <1>4
    <3> QED
      BY <1>2, <1>3, <1>4, <3>1, <3>2
  <2>2. d - m \in Int
    BY <1>2, <1>4
  <2>3. ((d - m) * p + r) % p = r
    BY <1>1, <1>3, <2>2, Unique
  <2> QED
    BY <1>1, <1>5, <2>1, <2>3
<1> HIDE DEF y
<1>7. Signed(y, 8) = y \/ Signed(y, 8) = y - big
  BY DEF Signed, big
<1> QED
  BY <1>5, <1>6, <1>7 DEF y, r, p, big
-----------------------------------------------------------------------------
(* Rounding.                                                               *)

(* The smallest unit that gets as far as n: with half of it one would not. *)
LEMMA UnitOfNumber ==
  ASSUME NEW n \in Nat, n <= 2048 * Exact
  PROVE  /\ Unit(n) \in Nat \ {0}
         /\ Unit(n) = 1 \/ Exact * Unit(n) < 2 * n
<1> DEFINE Far(u) == n <= Exact * u
           Least(u) == Far(u) /\ \A w \in Units : Far(w) => u <= w
<1>1. Exact \in Nat \ {0}
  BY PrimitiveAssumption
<1>2. \E u \in Units : Least(u)
  <2>1. Far(2048)
    BY <1>1
  <2> HIDE DEF Far
  <2> QED
    BY <2>1 DEF Units
<1>3. Unit(n) \in Units /\ Least(Unit(n))
  <2>1. \E u \in Units : n <= Exact * u /\ \A w \in Units : n <= Exact * w => u <= w
    BY <1>2
  <2>2. /\ Unit(n) \in Units /\ n <= Exact * Unit(n)
        /\ \A w \in Units : n <= Exact * w => Unit(n) <= w
    BY ONLY <2>1, Zenon DEF Unit
  <2> QED
    BY <2>2
<1>4. ASSUME Unit(n) # 1 PROVE Exact * Unit(n) < 2 * n
  <2>1. PICK w \in Units : Unit(n) = 2 * w
    BY <1>3, <1>4 DEF Units
  <2>2. w \in Nat /\ ~(Unit(n) <= w)
    BY <1>3, <2>1 DEF Units
  <2>3. ~(n <= Exact * w)
    BY <1>3, <2>2
  <2>4. Exact * (2 * w) = 2 * (Exact * w) /\ Exact * w \in Nat
    BY <1>1, <2>2
  <2> QED
    BY <2>1, <2>3, <2>4
<1> QED
  BY <1>3, <1>4 DEF Units

LEMMA RoundingIsClose ==
  ASSUME NEW n \in Nat, n <= 2048 * Exact
  PROVE  /\ Rounded(n) \in Int
         /\ Rounded(n) = n \/ Exact * Abs(Rounded(n) - n) < n
<1> DEFINE u == Unit(n)
           q == n \div u
           r == n % u
           x == Rounded(n)
           d == Abs(x - n)
<1>1. u \in Nat \ {0} /\ (u = 1 \/ Exact * u < 2 * n) /\ Exact \in Nat \ {0}
  BY UnitOfNumber, PrimitiveAssumption
<1>2. x = (q + (IF RoundUp(n) THEN 1 ELSE 0)) * u
  BY DEF Rounded
<1>3. RoundUp(n) <=> 2 * r > u \/ (2 * r = u /\ q % 2 = 1)
  BY DEF RoundUp
<1> HIDE DEF u
<1>4. q \in Int /\ r \in 0..(u - 1) /\ n = q * u + r
  BY <1>1, Split
<1> HIDE DEF q, r, x
<1>5. q * u \in Int /\ (q + 1) * u = q * u + u /\ (q + 0) * u = q * u
  BY <1>1, <1>4
<1>6. x \in Int /\ ((x - n = -r /\ 2 * r <= u) \/ (x - n = u - r /\ 2 * r >= u))
  <2>1. CASE RoundUp(n)
    <3>1. x = q * u + u /\ 2 * r >= u
      BY <1>1, <1>2, <1>3, <1>4, <1>5, <2>1
    <3> QED
      BY <1>1, <1>4, <1>5, <3>1
  <2>2. CASE ~RoundUp(n)
    <3>1. x = q * u /\ 2 * r <= u
      BY <1>1, <1>2, <1>3, <1>4, <1>5, <2>2
    <3> QED
      BY <1>1, <1>4, <1>5, <3>1
  <2> QED
    BY <2>1, <2>2
<1>7. d \in Nat /\ 2 * d <= u /\ (d = 0 => x = n)
  BY <1>1, <1>4, <1>6 DEF Abs
<1> HIDE DEF d
<1>8. CASE u = 1
  BY <1>7, <1>6, <1>8 DEF x
<1>9. CASE Exact * u < 2 * n
  <2>1. \A e, a, b \in Nat : a <= b => e * a <= e * b
    OBVIOUS
  <2>2. Exact * (2 * d) <= Exact * u
    BY <1>1, <1>7, <2>1
  <2>3. Exact * (2 * d) = 2 * (Exact * d) /\ Exact * d \in Nat /\ Exact * u \in Nat
    BY <1>1, <1>7
  <2>4. Exact * d < n
    BY <1>9, <2>2, <2>3
  <2> QED
    BY <1>6, <2>4 DEF d, x
<1> QED
  BY <1>1, <1>8, <1>9

(* An integer of 64 bits becomes a float close to it, and the same if a    *)
(* float64 can hold it.                                                    *)
LEMMA FloatsAreClose ==
  ASSUME NEW n \in Int, -Power[8] <= 2 * n, n < Power[8]
  PROVE  Nearest(n) \in Int /\ IsClose(Nearest(n), n)
<1>1. Power[8] \in Nat /\ Power[8] <= 2048 * Exact /\ Exact \in Nat
  BY PowersArePositive, PrimitiveAssumption
<1>2. CASE n >= 0
  <2>1. n \in Nat /\ n <= 2048 * Exact
    BY <1>1, <1>2
  <2>2. Nearest(n) = Rounded(n) /\ Abs(n) = n
    BY <1>2 DEF Nearest, Abs
  <2> QED
    BY <2>1, <2>2, RoundingIsClose DEF IsClose
<1>3. CASE n < 0
  <2>1. -n \in Nat /\ -n <= 2048 * Exact
    BY <1>1, <1>3
  <2>2. /\ Rounded(-n) \in Int
        /\ Rounded(-n) = -n \/ Exact * Abs(Rounded(-n) - (-n)) < -n
    BY <2>1, RoundingIsClose
  <2>3. Nearest(n) = -Rounded(-n) /\ Abs(n) = -n
    BY <1>3 DEF Nearest, Abs
  <2>4. Abs(-Rounded(-n) - n) = Abs(Rounded(-n) - (-n))
    BY <2>2 DEF Abs
  <2> QED
    BY <2>2, <2>3, <2>4 DEF IsClose
<1> QED
  BY <1>2, <1>3
-----------------------------------------------------------------------------
(* Values.                                                                 *)

(* The kinds of values, and what each coercion returns for them.           *)
LEMMA ValuesAreTyped ==
  ASSUME NEW S, Byte \subseteq S, NEW v \in Payloads(S)
  PROVE  /\ ToBool(v) <=> v = [k |-> "bool", v |-> TRUE]
         /\ \A t \in PartTypes : PartOf(t, v) \in Seq(S)
         /\ \A t \in {"string", "bytes"} : v.k = t => v = [k |-> t, v |-> v.v]
<1>1. v \in S /\ \/ v \in [k : {"int"}, v : Int]
                 \/ v.k = "float"
                 \/ v \in [k : {"bool"}, v : BOOLEAN]
                 \/ v \in [k : {"string", "bytes"}, v : Seq(Byte)]
                 \/ v.k \in {"nil", "slice", "map", "other"}
  BY DEF Payloads
<1>2. ToBool(v) <=> v = [k |-> "bool", v |-> TRUE]
  BY <1>1 DEF ToBool
<1>3. ToStringVal(v) \in Seq(S) /\ ToBytesVal(v) \in Seq(S)
  <2>1. <<>> \in Seq(Byte)
    OBVIOUS
  <2>2. ToStringVal(v) \in Seq(Byte) /\ ToBytesVal(v) \in Seq(Byte)
    BY <1>1, <2>1 DEF ToStringVal, ToBytesVal
  <2> QED
    BY <2>2, SeqMonotonic
<1>4. Marshal(v) \in Seq(S)
  BY <1>1 DEF Marshal
<1>5. \A t \in PartTypes : PartOf(t, v) \in Seq(S)
  BY <1>3, <1>4 DEF PartTypes, DynamicTypes, PartOf
<1>6. \A t \in {"string", "bytes"} : v.k = t => v = [k |-> t, v |-> v.v]
  BY <1>1
<1> QED
  BY <1>2, <1>5, <1>6

(* An integer goes through 64 bits as it is, up to their width, and so     *)
(* does a float that they hold, cut off.                                   *)
LEMMA Conversions ==
  ASSUME NEW S, Elements(S), NEW v \in Payloads(S), NEW w \in 0..8
  PROVE  /\ Whole(v) \in Int /\ ToUint64(v) \in Int /\ ToInt64(v) \in Int
         /\ (v.k = "float" => IsUnsigned(v.whole, 8))
               => ToUint64(v) % Power[w] = Whole(v) % Power[w]
         /\ (v.k = "float" => IsSigned(v.whole, 8))
               => ToInt64(v) % Power[w] = Whole(v) % Power[w]
<1>1. CASE v.k = "int"
  <2>1. v.v \in Int
    BY <1>1 DEF Payloads
  <2>2. /\ Whole(v) = v.v /\ ToUint64(v) = v.v % Power[8]
        /\ ToInt64(v) = Signed(v.v % Power[8], 8)
    BY <1>1 DEF Whole, ToUint64, ToInt64
  <2> QED
    BY <2>1, <2>2, SixtyFourBitsSuffice
<1>2. CASE v.k = "float"
  <2>1. v.whole \in Int /\ Overflow("uint64", v) \in Int /\ Overflow("int64", v) \in Int
    BY <1>2 DEF Payloads, Elements
  <2>2. /\ Whole(v) = v.whole
        /\ ToUint64(v) = IF IsUnsigned(v.whole, 8) THEN v.whole ELSE Overflow("uint64", v)
        /\ ToInt64(v) = IF IsSigned(v.whole, 8) THEN v.whole ELSE Overflow("int64", v)
    BY <1>2 DEF Whole, ToUint64, ToInt64
  <2> QED
    BY <1>2, <2>1, <2>2
<1>3. CASE v.k \notin {"int", "float"}
  BY <1>3 DEF Whole, ToUint64, ToInt64
<1> QED
  BY <1>1, <1>2, <1>3

(* The bytes written for a number or a boolean say what the value said.    *)
LEMMA UnsignedComeBack ==
  ASSUME NEW S, Elements(S), NEW v \in Payloads(S), NEW t \in {"uint8", "uint16", "uint32"}
  PROVE  LET part == FixedBytes(t, v)
         IN  /\ part \in Seq(S) /\ Len(part) = Width(t)
             /\ ConveysPrimitive(t, v, FixedVal(t, part))
<1> DEFINE w == Width(t)
           x == ToUint64(v)
           part == FixedBytes(t, v)
<1>1. w \in 0..8
  BY DEF Width
<1>2. part = Digits(x, w)
  BY DEF FixedBytes
<1>3. x \in Int /\ ((v.k = "float" => IsUnsigned(v.whole, 8)) => x % Power[w] = Whole(v) % Power[w])
  BY <1>1, Conversions
<1> HIDE DEF w, x, part
<1>4. part \in Seq(S) /\ Len(part) = w
  <2>1. part \in Seq(Byte) /\ Len(part) = w
    BY <1>1, <1>2, <1>3, DigitsAreBytes
  <2> QED
    BY <2>1, SeqMonotonic DEF Elements
<1>5. FixedVal(t, part) = IntVal(x % Power[w])
  <2>1. NumberIn(part) = x % Power[w]
    BY <1>1, <1>2, <1>3, NumbersArrive
  <2> QED
    BY <2>1, Zenon DEF FixedVal
<1>6. IsUnsigned(x % Power[w], w)
  <2> DEFINE p == Power[w]
  <2>1. p \in Nat \ {0}
    BY <1>1, PowersArePositive
  <2> HIDE DEF p
  <2>2. x % p \in 0..(p - 1)
    BY <1>3, <2>1, Split
  <2> QED
    BY <2>1, <2>2 DEF IsUnsigned, p
<1> DEFINE r == FixedVal(t, part)
<1>7. r = IntVal(r.v) /\ r.v = x % Power[w]
  BY <1>5 DEF IntVal
<1> HIDE DEF r
<1>8. ConveysPrimitive(t, v, r)
  <2>1. /\ r = IntVal(r.v) /\ IsUnsigned(r.v, w)
        /\ (v.k = "float" => IsUnsigned(v.whole, 8)) => r.v = Whole(v) % Power[w]
    BY <1>3, <1>6, <1>7
  <2> QED
    BY <2>1 DEF ConveysPrimitive, DynamicTypes, w
<1> QED
  BY <1>4, <1>8 DEF r, w, part

LEMMA SignedComeBack ==
  ASSUME NEW S, Elements(S), NEW v \in Payloads(S)
  PROVE  LET part == FixedBytes("int32", v)
         IN  /\ part \in Seq(S) /\ Len(part) = Width("int32")
             /\ ConveysPrimitive("int32", v, FixedVal("int32", part))
<1> DEFINE x == ToInt64(v)
           n == Whole(v)
           part == FixedBytes("int32", v)
           r == FixedVal("int32", part)
<1>1. part = Digits(x, 4) /\ Width("int32") = 4
  BY DEF FixedBytes, Width
<1>2. x \in Int /\ n \in Int /\ ((v.k = "float" => IsSigned(v.whole, 8)) => x % Power[4] = n % Power[4])
  BY Conversions
<1> HIDE DEF x, n, part
<1>3. part \in Seq(S) /\ Len(part) = 4
  <2>1. part \in Seq(Byte) /\ Len(part) = 4
    BY <1>1, <1>2, DigitsAreBytes
  <2> QED
    BY <2>1, SeqMonotonic DEF Elements
<1>4. r = IntVal(Signed(x % Power[4], 4))
  <2>1. NumberIn(part) = x % Power[4]
    BY <1>1, <1>2, NumbersArrive
  <2> QED
    BY <2>1 DEF FixedVal
<1>5. IsSigned(Signed(x % Power[4], 4), 4)
  BY <1>2, SignedNumbers
<1>6. Signed(n % Power[4], 4) = SignedMod(n, 4)
  BY <1>2, SignedNumbers
<1>7. r = IntVal(r.v) /\ r.v = Signed(x % Power[4], 4)
  BY <1>4 DEF IntVal
<1> HIDE DEF r
<1>8. /\ r = IntVal(r.v) /\ IsSigned(r.v, 4)
      /\ (v.k = "float" => IsSigned(v.whole, 8)) => r.v = SignedMod(n, 4)
  BY <1>2, <1>5, <1>6, <1>7
<1>9. ConveysPrimitive("int32", v, r)
  BY <1>8 DEF ConveysPrimitive, DynamicTypes, n
<1> QED
  BY <1>1, <1>3, <1>9 DEF r, part

LEMMA FloatsComeBack ==
  ASSUME NEW S, Elements(S), NEW v \in Payloads(S)
  PROVE  LET part == FixedBytes("float64", v)
         IN  /\ part \in Seq(S) /\ Len(part) = Width("float64")
             /\ ConveysPrimitive("float64", v, FixedVal("float64", part))
<1> DEFINE x == ToFloat64(v)
           part == FixedBytes("float64", v)
           r == FixedVal("float64", part)
<1>1. part = [i \in 1..8 |-> x] /\ Width("float64") = 8
  BY DEF FixedBytes, Float64bits, Width
<1>2. v \in S /\ (v.k = "int" => v.v \in Int /\ -Power[8] <= 2 * v.v /\ v.v < Power[8])
  BY DEF Payloads
<1>3. /\ x \in S
      /\ v.k = "float" => x = v
      /\ v.k # "float" => x = FloatOf(x.whole) /\ IsClose(x.whole, Whole(v))
  <2>1. CASE v.k = "float"
    BY <1>2, <2>1 DEF ToFloat64
  <2>2. CASE v.k = "int"
    <3>1. x = FloatOf(Nearest(v.v)) /\ Whole(v) = v.v
      BY <2>2 DEF ToFloat64, Whole
    <3>2. Nearest(v.v) \in Int /\ IsClose(Nearest(v.v), v.v)
      BY <1>2, <2>2, FloatsAreClose
    <3> HIDE DEF x
    <3>3. x.whole = Nearest(v.v) /\ x \in S
      BY <3>1, <3>2 DEF FloatOf, Elements
    <3> QED
      BY <2>2, <3>1, <3>2, <3>3
  <2>3. CASE v.k \notin {"int", "float"}
    <3>1. x = FloatOf(0) /\ Whole(v) = 0
      BY <2>3 DEF ToFloat64, Whole
    <3> HIDE DEF x
    <3>2. x.whole = 0 /\ x \in S
      BY <3>1 DEF FloatOf, Elements
    <3> QED
      BY <2>3, <3>1, <3>2 DEF IsClose
  <2> QED
    BY <2>1, <2>2, <2>3
<1> HIDE DEF x, part
<1>4. part \in Seq(S) /\ Len(part) = 8
  BY <1>1, <1>3
<1>5. r = x
  BY <1>1 DEF FixedVal, Float64frombits
<1> HIDE DEF r
<1>6. IF v.k = "float" THEN r = v ELSE r = FloatOf(r.whole) /\ IsClose(r.whole, Whole(v))
  BY <1>3, <1>5
<1>7. ConveysPrimitive("float64", v, r)
  BY <1>6 DEF ConveysPrimitive, DynamicTypes
<1> QED
  BY <1>1, <1>4, <1>7 DEF r, part

LEMMA BooleansComeBack ==
  ASSUME NEW S, Elements(S), NEW v \in Payloads(S)
  PROVE  LET part == FixedBytes("boolean", v)
         IN  /\ part \in Seq(S) /\ Len(part) = Width("boolean")
             /\ ConveysPrimitive("boolean", v, FixedVal("boolean", part))
<1> DEFINE n == IF ToBool(v) THEN 1 ELSE 0
           part == FixedBytes("boolean", v)
           r == FixedVal("boolean", part)
<1>1. part = <<n>> /\ Width("boolean") = 1
  BY DEF FixedBytes, Width
<1>2. n \in S /\ (n # 0 <=> v = [k |-> "bool", v |-> TRUE])
  <2>1. n \in Byte /\ (n # 0 <=> ToBool(v))
    BY FrameAssumption DEF Byte
  <2>2. ToBool(v) <=> v = [k |-> "bool", v |-> TRUE]
    BY ValuesAreTyped DEF Elements
  <2> HIDE DEF n
  <2> QED
    BY <2>1, <2>2 DEF Elements
<1> HIDE DEF n, part
<1>3. part \in Seq(S) /\ Len(part) = 1
  BY <1>1, <1>2
<1>4. r = [k |-> "bool", v |-> n # 0]
  BY <1>1 DEF FixedVal
<1> HIDE DEF r
<1>5. r = [k |-> "bool", v |-> v = [k |-> "bool", v |-> TRUE]]
  BY <1>2, <1>4
<1>6. ConveysPrimitive("boolean", v, r)
  BY <1>5 DEF ConveysPrimitive, DynamicTypes
<1> QED
  BY <1>1, <1>3, <1>6 DEF r, part

LEMMA FixedComeBack ==
  ASSUME NEW S, Elements(S), NEW v \in Payloads(S), NEW t \in FixedTypes
  PROVE  LET part == FixedBytes(t, v)
         IN  /\ part \in Seq(S) /\ Len(part) = Width(t)
             /\ ConveysPrimitive(t, v, FixedVal(t, part))
<1>1. t \in {"uint8", "uint16", "uint32"} \/ t = "int32" \/ t = "float64" \/ t = "boolean"
  BY DEF FixedTypes, NumberTypes
<1> QED
  BY <1>1, UnsignedComeBack, SignedComeBack, FloatsComeBack, BooleansComeBack, Zenon

LEMMA PartsComeBack ==
  ASSUME NEW S, Byte \subseteq S, NEW v \in Payloads(S), NEW t \in PartTypes
  PROVE  ConveysPrimitive(t, v, PartVal(t, PartOf(t, v)))
<1>1. CASE t \in DynamicTypes
  BY <1>1 DEF PartVal, PartOf, ConveysPrimitive, DynamicTypes, Marshal, Unmarshal
<1>2. CASE t = "string"
  BY <1>2, ValuesAreTyped DEF PartVal, PartOf, ConveysPrimitive, DynamicTypes, ToStringVal, PartTypes
<1>3. CASE t = "bytes"
  BY <1>3, ValuesAreTyped DEF PartVal, PartOf, ConveysPrimitive, DynamicTypes, ToBytesVal, PartTypes
<1> QED
  BY <1>1, <1>2, <1>3 DEF PartTypes
-----------------------------------------------------------------------------
(* The theorem.                                                            *)

(* A value's part, behind its length.                                      *)
LEMMA PartsArrive ==
  ASSUME NEW S, Byte \subseteq S, NEW t \in PartTypes, NEW v \in Payloads(S), Fits(t, v),
         NEW before \in Seq(S), NEW after \in Seq(S)
  PROVE  LET part == PartOf(t, v)
             buf  == before \o WithLength(part)
         IN  /\ buf \in Seq(S) /\ Len(buf) = Len(before) + 4 + Len(part)
             /\ ReadPrimitive(t, buf \o after, Len(before)) = At(PartVal(t, part), Len(buf))
<1> DEFINE part == PartOf(t, v)
           buf  == before \o WithLength(part)
<1>1. part \in Seq(S) /\ Len(part) < Power[4]
  BY ValuesAreTyped DEF Fits
<1>2. ReadPrimitive(t, buf \o after, Len(before)) = ReadPart(t, buf \o after, Len(before))
  BY Zenon DEF ReadPrimitive, FixedTypes, NumberTypes, PartTypes, DynamicTypes
<1> HIDE DEF part
<1>3. buf \in Seq(S) /\ Len(buf) = Len(before) + 4 + Len(part)
  BY <1>1, PartsAreRead
<1>4. ReadPart(t, buf \o after, Len(before)) = At(PartVal(t, part), Len(buf))
  BY <1>1, PartsAreRead
<1> HIDE DEF buf
<1> QED
  BY <1>2, <1>3, <1>4 DEF buf, part

(* A primitive value, written anywhere in a payload: computeSize measured  *)
(* exactly the bytes that encodeValue writes and queued exactly the parts  *)
(* that it uses, leaving the rest of the queue alone; decodeValue, started *)
(* where the value was written, returns what says the same, as far as its  *)
(* type can, and stops where it ends, whatever follows and whatever the    *)
(* platform makes of floats that no integer holds (schema.go:80-108,       *)
(* 141-184, 208-263, coerce.go:8-126).                                     *)
THEOREM PrimitivesArrive ==
  ASSUME NEW S, Elements(S),
         NEW t \in FixedTypes \cup PartTypes, NEW v \in Payloads(S), Fits(t, v),
         NEW before \in Seq(S), NEW after \in Seq(S), NEW rest \in Seq(Seq(S))
  PROVE  LET sized == SizeOf(t, v)
             st    == WritePrimitive(t, v, [buf |-> before, queue |-> sized.queue \o rest])
             r     == ReadPrimitive(t, st.buf \o after, Len(before))
         IN  /\ sized.ok
             /\ st.buf \in Seq(S) /\ Len(st.buf) = Len(before) + sized.size
             /\ st.queue = rest
             /\ r.ok /\ r.off = Len(st.buf) /\ ConveysPrimitive(t, v, r.v)
<1> DEFINE sized == SizeOf(t, v)
           st0   == [buf |-> before, queue |-> sized.queue \o rest]
           st    == WritePrimitive(t, v, st0)
           r     == ReadPrimitive(t, st.buf \o after, Len(before))
           Goal  == /\ sized.ok
                    /\ st.buf \in Seq(S) /\ Len(st.buf) = Len(before) + sized.size
                    /\ st.queue = rest
                    /\ r.ok /\ r.off = Len(st.buf) /\ ConveysPrimitive(t, v, r.v)
<1>1. Byte \subseteq S
  BY DEF Elements
<1>2. ASSUME NEW buf, NEW x, NEW n \in Nat,
             sized.ok, sized.size = n, st = [buf |-> buf, queue |-> rest],
             buf \in Seq(S), Len(buf) = Len(before) + n,
             ReadPrimitive(t, buf \o after, Len(before)) = At(x, Len(buf)),
             ConveysPrimitive(t, v, x)
      PROVE  Goal
  <2> HIDE DEF st, sized
  <2>1. st.buf = buf /\ st.queue = rest
    BY <1>2
  <2>2. r = At(x, Len(buf))
    BY <1>2, <2>1
  <2> HIDE DEF r
  <2>3. r.ok /\ r.off = Len(buf) /\ r.v = x
    BY <2>2 DEF At
  <2> QED
    BY <1>2, <2>1, <2>3
<1>3. CASE t \in FixedTypes
  <2> DEFINE part == FixedBytes(t, v)
             buf  == before \o part
             x    == FixedVal(t, part)
  <2>1. sized = [ok |-> TRUE, size |-> Width(t), queue |-> <<>>]
    BY <1>3, Zenon DEF SizeOf, Sized, FixedTypes, NumberTypes, PartTypes, DynamicTypes
  <2>2. st0 = [buf |-> before, queue |-> rest]
    <3>1. <<>> \o rest = rest
      OBVIOUS
    <3> QED
      BY <2>1, <3>1
  <2>3. st = [buf |-> buf, queue |-> rest]
    <3> HIDE DEF st0
    <3>1. st = Write(st0, part)
      BY <1>3, Zenon DEF WritePrimitive, FixedTypes, NumberTypes, PartTypes, DynamicTypes
    <3> HIDE DEF st, part
    <3> QED
      BY <2>2, <3>1 DEF Write
  <2>4. part \in Seq(S) /\ Len(part) = Width(t) /\ ConveysPrimitive(t, v, x)
    BY <1>3, FixedComeBack
  <2>5. /\ buf \in Seq(S) /\ Len(buf) = Len(before) + Width(t)
        /\ ReadFixed(t, buf \o after, Len(before)) = At(x, Len(buf))
    <3> HIDE DEF part
    <3> QED
      BY <1>3, <2>4, FixedBytesAreRead
  <2>6. ReadPrimitive(t, buf \o after, Len(before)) = ReadFixed(t, buf \o after, Len(before))
    BY <1>3, Zenon DEF ReadPrimitive, FixedTypes, NumberTypes, PartTypes, DynamicTypes
  <2>7. Width(t) \in Nat
    BY <1>3 DEF FixedTypes, NumberTypes, Width
  <2>8. sized.ok /\ sized.size = Width(t)
    BY <2>1
  <2>9. ReadPrimitive(t, buf \o after, Len(before)) = At(x, Len(buf))
    BY <2>5, <2>6, Zenon
  <2> HIDE DEF buf, x, part, st, sized, Goal
  <2>10. Goal
    BY <1>2, <2>3, <2>4, <2>5, <2>7, <2>8, <2>9
  <2> QED
    BY <2>10 DEF Goal, st, sized
<1>4. CASE t \in PartTypes
  <2> DEFINE part == PartOf(t, v)
             buf  == before \o WithLength(part)
             x    == PartVal(t, part)
  <2>1. part \in Seq(S) /\ Len(part) \in Nat
    BY <1>1, <1>4, ValuesAreTyped, LenProperties
  <2>2. sized = [ok |-> TRUE, size |-> 4 + Len(part), queue |-> Queued(t, v)]
    BY <1>4, Zenon DEF SizeOf, Sized, FixedTypes, NumberTypes, PartTypes, DynamicTypes
  <2>3. st = [buf |-> buf, queue |-> rest]
    <3>1. CASE t = "bytes"
      <4>1. st = Write(st0, WithLength(part))
        BY <3>1, Zenon DEF WritePrimitive, PartOf, FixedTypes, NumberTypes, PartTypes, DynamicTypes
      <4>2. st0 = [buf |-> before, queue |-> rest]
        <5>1. <<>> \o rest = rest
          OBVIOUS
        <5> QED
          BY <2>2, <3>1, <5>1 DEF Queued
      <4> HIDE DEF st0, part
      <4> QED
        BY <4>1, <4>2 DEF Write
    <3>2. CASE t # "bytes"
      <4>1. st = WritePart(st0)
        BY <1>4, <3>2, Zenon DEF WritePrimitive, FixedTypes, NumberTypes, PartTypes, DynamicTypes
      <4>2. st0 = [buf |-> before, queue |-> <<part>> \o rest]
        BY <2>2, <3>2 DEF Queued
      <4>3. Head(<<part>> \o rest) = part /\ Tail(<<part>> \o rest) = rest
        <5>1. part \in Seq(S)
          BY <2>1
        <5> HIDE DEF part
        <5> QED
          BY <5>1
      <4> HIDE DEF st0, part
      <4> QED
        BY <4>1, <4>2, <4>3 DEF WritePart, Write
    <3> QED
      BY <3>1, <3>2
  <2>4. /\ buf \in Seq(S) /\ Len(buf) = Len(before) + 4 + Len(part)
        /\ ReadPrimitive(t, buf \o after, Len(before)) = At(x, Len(buf))
    BY <1>1, <1>4, PartsArrive, Zenon
  <2>5. ConveysPrimitive(t, v, x)
    BY <1>1, <1>4, PartsComeBack
  <2>6. sized.ok /\ sized.size = 4 + Len(part)
    BY <2>2
  <2> HIDE DEF buf, x, part, st, sized, Goal
  <2>7. Len(buf) = Len(before) + (4 + Len(part)) /\ 4 + Len(part) \in Nat
    BY <2>1, <2>4, LenProperties
  <2>8. Goal
    BY <1>2, <2>3, <2>4, <2>5, <2>6, <2>7
  <2> QED
    BY <2>8 DEF Goal, st, sized
<1> QED
  BY <1>3, <1>4
=============================================================================
