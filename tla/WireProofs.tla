------------------------------ MODULE WireProofs ------------------------------
(***************************************************************************)
(* Theorems about Wire, for every width of a byte, every length of the     *)
(* buffer and every conversation.                                          *)
(***************************************************************************)
EXTENDS Wire, SequenceTheorems, WellFoundedInduction, TLAPS

-----------------------------------------------------------------------------
(* Facts about sequences.                                                  *)

\* A set of natural numbers has a least element.
LEMMA LeastElement ==
    ASSUME NEW T \in SUBSET Nat, T # {}
    PROVE  \E x \in T : \A y \in T : x <= y
<1>1. PICK x \in T : \A y \in T : <<y, x>> \notin OpToRel(<, Nat)
  BY WFMin, NatLessThanWellFounded, Zenon
<1>2. \A y \in T : ~(y < x)
  <2>. TAKE y \in T
  <2>. SUFFICES ASSUME y < x PROVE FALSE
    OBVIOUS
  <2>. x \in Nat /\ y \in Nat
    OBVIOUS
  <2>. QED BY <1>1, Zenon DEF OpToRel
<1>. QED
  BY <1>2

\* A set of natural numbers that has 0 and with each number the next is all.
LEMMA AllNumbers ==
    ASSUME NEW T \in SUBSET Nat, 0 \in T, \A n \in T : n + 1 \in T
    PROVE  T = Nat
<1>1. SUFFICES ASSUME Nat \ T # {} PROVE FALSE
  OBVIOUS
<1>2. PICK n \in Nat \ T : \A m \in Nat \ T : n <= m
  BY <1>1, LeastElement
<1>3. n - 1 \in Nat /\ n - 1 \notin T
  BY <1>2
<1>. QED
  BY <1>2, <1>3

\* It does not matter which two of three sequences are concatenated first.
Associates(s, t, u) == (s \o t) \o u = s \o (t \o u)

\* That holds of all sequences.
LEMMA Associative ==
    \A S, s, t, u : s \in Seq(S) /\ t \in Seq(S) /\ u \in Seq(S) => Associates(s, t, u)
<1>1. \A S : \A s, t, u \in Seq(S) : (s \o t) \o u = s \o (t \o u)
  BY ConcatAssociative
<1>. QED
  BY <1>1 DEF Associates

\* The recursive function f concatenates the first members of s.
Flattens(f, s, n) == f[1] = s[1] /\ \A i \in 2 .. n : f[i] = f[i - 1] \o s[i]

\* There is such a function, and its values are sequences.
LEMMA FlattensExists ==
    ASSUME NEW S, NEW s \in Seq(Seq(S)), s # <<>>
    PROVE  \E f \in [1 .. Len(s) -> Seq(S)] : Flattens(f, s, Len(s))
<1>. DEFINE T == {n \in Nat : n + 1 <= Len(s) =>
                    \E f \in [1 .. n + 1 -> Seq(S)] : Flattens(f, s, n + 1)}
<1>1. Len(s) \in Nat /\ Len(s) > 0 /\ \A i \in 1 .. Len(s) : s[i] \in Seq(S)
  BY EmptySeq, LenProperties, ElementOfSeq
<1>2. 0 \in T
  <2>1. PICK f : f = [i \in 1 .. 1 |-> s[1]]
    OBVIOUS
  <2>2. f \in [1 .. 1 -> Seq(S)] /\ Flattens(f, s, 1)
    BY <1>1, <2>1 DEF Flattens
  <2>. QED
    BY <2>2
<1>3. ASSUME NEW n \in T PROVE n + 1 \in T
  <2>1. SUFFICES ASSUME (n + 1) + 1 <= Len(s)
                 PROVE  \E f \in [1 .. (n + 1) + 1 -> Seq(S)] : Flattens(f, s, (n + 1) + 1)
    OBVIOUS
  <2>2. PICK f \in [1 .. n + 1 -> Seq(S)] : Flattens(f, s, n + 1)
    BY <1>1, <2>1
  <2>3. PICK g : g = [i \in 1 .. (n + 1) + 1 |-> IF i = n + 2 THEN f[n + 1] \o s[n + 2] ELSE f[i]]
    OBVIOUS
  <2>4. s[n + 2] \in Seq(S) /\ f[n + 1] \in Seq(S)
    BY <1>1, <2>1, <2>2
  <2>5. f[n + 1] \o s[n + 2] \in Seq(S)
    BY <2>4, ConcatProperties
  <2>6. g \in [1 .. (n + 1) + 1 -> Seq(S)]
    BY <2>2, <2>3, <2>5
  <2>. n \in Nat
    OBVIOUS
  <2>. HIDE DEF T
  <2>7. g[n + 2] = f[n + 1] \o s[n + 2] /\ \A i \in 1 .. n + 1 : g[i] = f[i]
    <3>1. n + 2 \in 1 .. (n + 1) + 1 /\ \A i \in 1 .. n + 1 : i \in 1 .. (n + 1) + 1 /\ i # n + 2
      OBVIOUS
    <3>. QED
      BY <2>3, <3>1
  <2>8. Flattens(g, s, (n + 1) + 1)
    <3>1. g[1] = s[1]
      <4>1. 1 \in 1 .. n + 1
        OBVIOUS
      <4>. QED
        BY <2>2, <2>7, <4>1 DEF Flattens
    <3>2. ASSUME NEW i \in 2 .. (n + 1) + 1 PROVE g[i] = g[i - 1] \o s[i]
      <4>1. CASE i = n + 2
        <5>1. i - 1 = n + 1 /\ n + 1 \in 1 .. n + 1
          BY <4>1
        <5>. QED
          BY <2>7, <4>1, <5>1
      <4>2. CASE i # n + 2
        <5>1. i \in 2 .. n + 1 /\ i - 1 \in 1 .. n + 1 /\ i \in 1 .. n + 1
          BY <4>2
        <5>. QED
          BY <2>2, <2>7, <5>1 DEF Flattens
      <4>. QED
        BY <4>1, <4>2
    <3>. QED
      BY <3>1, <3>2 DEF Flattens
  <2>. QED
    BY <2>6, <2>8
<1>4. T = Nat
  <2>. HIDE DEF T
  <2>1. T \in SUBSET Nat
    BY DEF T
  <2>. QED
    BY <1>2, <1>3, <2>1, AllNumbers
<1>5. PICK k \in Nat : k + 1 = Len(s)
  <2>1. Len(s) - 1 \in Nat /\ (Len(s) - 1) + 1 = Len(s)
    BY <1>1
  <2>. QED
    BY <2>1
<1>6. k \in T
  BY <1>4, <1>5
<1>7. \E f \in [1 .. k + 1 -> Seq(S)] : Flattens(f, s, k + 1)
  BY <1>5, <1>6, <1>1
<1>. QED
  BY <1>5, <1>7

\* FlattenSeq is its last value.
LEMMA FlattenBy ==
    ASSUME NEW S, NEW s \in Seq(Seq(S)), s # <<>>
    PROVE  \E f \in [1 .. Len(s) -> Seq(S)] :
              Flattens(f, s, Len(s)) /\ FlattenSeq(s) = f[Len(s)]
<1>. DEFINE n == Len(s)
            Equation(f) == f = [i \in 1 .. n |-> IF i = 1 THEN s[i] ELSE f[i - 1] \o s[i]]
            f == CHOOSE g : Equation(g)
<1>1. n \in Nat /\ n > 0 /\ n # 0
  BY EmptySeq, LenProperties
<1>2. FlattenSeq(s) = f[n]
  BY <1>1 DEF FlattenSeq
<1>3. PICK g \in [1 .. n -> Seq(S)] : Flattens(g, s, n)
  BY FlattensExists
<1>. HIDE DEF n
<1>4. Equation(g)
  <2>1. ASSUME NEW i \in 1 .. n PROVE g[i] = IF i = 1 THEN s[i] ELSE g[i - 1] \o s[i]
    <3>1. i = 1 \/ i \in 2 .. n
      BY <1>1
    <3>. QED
      BY <1>3, <3>1 DEF Flattens
  <2>2. g = [i \in 1 .. n |-> g[i]]
    BY <1>3
  <2>. QED
    BY <2>1, <2>2
<1>5. Equation(f)
  BY <1>4
<1>. HIDE DEF f
<1>6. Flattens(f, s, n)
  <2>1. ASSUME NEW i \in 1 .. n PROVE f[i] = IF i = 1 THEN s[i] ELSE f[i - 1] \o s[i]
    BY <1>5
  <2>2. 1 \in 1 .. n /\ \A i \in 2 .. n : i \in 1 .. n /\ i # 1
    BY <1>1
  <2>3. f[1] = s[1]
    BY <2>1, <2>2
  <2>4. ASSUME NEW i \in 2 .. n PROVE f[i] = f[i - 1] \o s[i]
    BY <2>1, <2>2
  <2>. QED
    BY <2>3, <2>4 DEF Flattens
<1>. DEFINE T == {k \in Nat : k + 1 <= n => f[k + 1] = g[k + 1]}
<1>7. 0 \in T
  BY <1>1, <1>3, <1>6 DEF Flattens
<1>8. ASSUME NEW k \in T PROVE k + 1 \in T
  <2>1. SUFFICES ASSUME (k + 1) + 1 <= n PROVE f[(k + 1) + 1] = g[(k + 1) + 1]
    OBVIOUS
  <2>2. f[k + 1] = g[k + 1] /\ (k + 1) + 1 \in 2 .. n /\ ((k + 1) + 1) - 1 = k + 1
    BY <1>1, <2>1
  <2>. QED
    BY <1>3, <1>6, <2>2 DEF Flattens
<1>9. T = Nat
  <2>. HIDE DEF T
  <2>1. T \in SUBSET Nat
    BY DEF T
  <2>. QED
    BY <1>7, <1>8, <2>1, AllNumbers
<1>10. PICK k \in Nat : k + 1 = n
  <2>1. n - 1 \in Nat /\ (n - 1) + 1 = n
    BY <1>1
  <2>. QED
    BY <2>1
<1>11. f[n] = g[n]
  <2>1. k \in T
    BY <1>9, <1>10
  <2>. QED
    BY <1>1, <1>10, <2>1
<1>. QED
  BY <1>2, <1>3, <1>11 DEF n

\* Nothing, or sequences, concatenated.
LEMMA FlattenEmpty == FlattenSeq(<<>>) = <<>>
BY DEF FlattenSeq

\* The result is a sequence of members of the members.
LEMMA FlattenTyped ==
    ASSUME NEW S, NEW s \in Seq(Seq(S)) PROVE FlattenSeq(s) \in Seq(S)
<1>1. CASE s = <<>>
  <2>1. <<>> \in Seq(S)
    BY EmptySeq
  <2>. QED
    BY <1>1, <2>1, FlattenEmpty
<1>2. CASE s # <<>>
  <2>1. PICK f \in [1 .. Len(s) -> Seq(S)] : FlattenSeq(s) = f[Len(s)]
    BY <1>2, FlattenBy
  <2>2. Len(s) \in 1 .. Len(s)
    BY <1>2, EmptySeq, LenProperties
  <2>. QED
    BY <2>1, <2>2
<1>. QED
  BY <1>1, <1>2

\* One more sequence at the end.
LEMMA FlattenAppend ==
    ASSUME NEW S, NEW s \in Seq(Seq(S)), NEW x \in Seq(S)
    PROVE  FlattenSeq(Append(s, x)) = FlattenSeq(s) \o x
<1>1. PICK t \in Seq(Seq(S)) : t = Append(s, x)
  BY AppendProperties
<1>. DEFINE n == Len(s)
<1>2. /\ n \in Nat /\ Len(t) = n + 1 /\ t # <<>> /\ t[n + 1] = x
      /\ \A i \in 1 .. n : t[i] = s[i]
  BY <1>1, AppendProperties, LenProperties, EmptySeq
<1>3. PICK g \in [1 .. n + 1 -> Seq(S)] :
        Flattens(g, t, n + 1) /\ FlattenSeq(t) = g[n + 1]
  BY <1>2, FlattenBy
<1>4. CASE s = <<>>
  <2>1. n = 0 /\ t[1] = x
    BY <1>2, <1>4
  <2>2. FlattenSeq(t) = x
    BY <1>3, <2>1 DEF Flattens
  <2>3. <<>> \o x = x
    BY ConcatEmptySeq
  <2>. QED
    BY <1>1, <1>4, <2>2, <2>3, FlattenEmpty
<1>5. CASE s # <<>>
  <2>1. n > 0
    BY <1>2, <1>5, EmptySeq
  <2>2. PICK f \in [1 .. n -> Seq(S)] : Flattens(f, s, n) /\ FlattenSeq(s) = f[n]
    BY <1>5, FlattenBy
  <2>. DEFINE T == {k \in Nat : k + 1 <= n => f[k + 1] = g[k + 1]}
  <2>3. 0 \in T
    BY <1>2, <1>3, <2>1, <2>2 DEF Flattens
  <2>4. ASSUME NEW k \in T PROVE k + 1 \in T
    <3>1. SUFFICES ASSUME (k + 1) + 1 <= n PROVE f[(k + 1) + 1] = g[(k + 1) + 1]
      OBVIOUS
    <3>2. /\ f[k + 1] = g[k + 1] /\ (k + 1) + 1 \in 2 .. n /\ (k + 1) + 1 \in 2 .. n + 1
          /\ ((k + 1) + 1) - 1 = k + 1 /\ (k + 1) + 1 \in 1 .. n
      BY <1>2, <3>1
    <3>3. t[(k + 1) + 1] = s[(k + 1) + 1]
      BY <1>2, <3>2
    <3>. QED
      BY <1>3, <2>2, <3>2, <3>3 DEF Flattens
  <2>5. T = Nat
    <3>. HIDE DEF T
    <3>1. T \in SUBSET Nat
      BY DEF T
    <3>. QED
      BY <2>3, <2>4, <3>1, AllNumbers
  <2>6. PICK k \in Nat : k + 1 = n
    <3>1. n - 1 \in Nat /\ (n - 1) + 1 = n
      BY <1>2, <2>1
    <3>. QED
      BY <3>1
  <2>7. f[n] = g[n]
    <3>1. k \in T
      BY <2>5, <2>6
    <3>. QED
      BY <1>2, <2>6, <3>1
  <2>8. g[n + 1] = g[n] \o t[n + 1]
    <3>1. n + 1 \in 2 .. n + 1 /\ (n + 1) - 1 = n
      BY <1>2, <2>1
    <3>. QED
      BY <1>3, <3>1 DEF Flattens
  <2>. QED
    BY <1>1, <1>2, <1>3, <2>2, <2>7, <2>8
<1>. QED
  BY <1>4, <1>5

\* Two sequences of sequences, one after the other.
LEMMA FlattenConcat ==
    ASSUME NEW S, NEW s \in Seq(Seq(S)), NEW t \in Seq(Seq(S))
    PROVE  FlattenSeq(s \o t) = FlattenSeq(s) \o FlattenSeq(t)
<1>. DEFINE T == {n \in Nat : \A u \in Seq(Seq(S)) :
                    Len(u) = n => FlattenSeq(s \o u) = FlattenSeq(s) \o FlattenSeq(u)}
<1>1. 0 \in T
  <2>1. ASSUME NEW u \in Seq(Seq(S)), Len(u) = 0
        PROVE  FlattenSeq(s \o u) = FlattenSeq(s) \o FlattenSeq(u)
    <3>1. u = <<>> /\ s \o <<>> = s /\ FlattenSeq(s) \o <<>> = FlattenSeq(s)
      BY <2>1, EmptySeq, ConcatEmptySeq, FlattenTyped
    <3>. QED
      BY <3>1, FlattenEmpty
  <2>. QED
    BY <2>1
<1>2. ASSUME NEW n \in T PROVE n + 1 \in T
  <2>1. ASSUME NEW u \in Seq(Seq(S)), Len(u) = n + 1
        PROVE  FlattenSeq(s \o u) = FlattenSeq(s) \o FlattenSeq(u)
    <3>1. u # <<>>
      BY <2>1
    <3>2. PICK v \in Seq(Seq(S)), x \in Seq(S) : u = Append(v, x)
      BY <3>1, SequenceEmptyOrAppend
    <3>3. Len(v) = n
      BY <2>1, <3>2, AppendProperties, LenProperties
    <3>4. FlattenSeq(s \o v) = FlattenSeq(s) \o FlattenSeq(v)
      BY <3>3
    <3>5. PICK w \in Seq(Seq(S)) : w = s \o v
      BY ConcatProperties
    <3>6. s \o u = Append(w, x)
      <4>1. <<x>> \in Seq(Seq(S))
        OBVIOUS
      <4>2. u = v \o <<x>> /\ Append(w, x) = w \o <<x>>
        BY <3>2, AppendIsConcat
      <4>3. s \o (v \o <<x>>) = (s \o v) \o <<x>>
        BY <4>1, ConcatAssociative
      <4>. QED
        BY <3>5, <4>2, <4>3
    <3>7. FlattenSeq(s \o u) = FlattenSeq(w) \o x
      BY <3>6, FlattenAppend
    <3>8. FlattenSeq(u) = FlattenSeq(v) \o x
      BY <3>2, FlattenAppend
    <3>9. PICK a \in Seq(S) : a = FlattenSeq(s)
      BY FlattenTyped
    <3>10. PICK b \in Seq(S) : b = FlattenSeq(v)
      BY FlattenTyped
    <3>11. (a \o b) \o x = a \o (b \o x)
      <4>1. a \in Seq(S) /\ b \in Seq(S) /\ x \in Seq(S)
        OBVIOUS
      <4>2. Associates(a, b, x)
        BY <4>1, Associative
      <4>. QED
        BY <4>2 DEF Associates
    <3>. QED
      BY <3>4, <3>5, <3>7, <3>8, <3>9, <3>10, <3>11
  <2>. QED
    BY <2>1
<1>3. T = Nat
  <2>. HIDE DEF T
  <2>1. T \in SUBSET Nat
    BY DEF T
  <2>. QED
    BY <1>1, <1>2, <2>1, AllNumbers
<1>4. Len(t) \in T
  BY <1>3, LenProperties
<1>. QED
  BY <1>4

\* A single sequence.
LEMMA FlattenOne == ASSUME NEW S, NEW x \in Seq(S) PROVE FlattenSeq(<<x>>) = x
<1>1. <<x>> \in Seq(Seq(S)) /\ <<x>> # <<>> /\ Len(<<x>>) = 1 /\ <<x>>[1] = x
  OBVIOUS
<1>2. PICK f \in [1 .. 1 -> Seq(S)] : Flattens(f, <<x>>, 1) /\ FlattenSeq(<<x>>) = f[1]
  BY <1>1, FlattenBy
<1>. QED
  BY <1>1, <1>2 DEF Flattens

-----------------------------------------------------------------------------
(* Numbers and their bytes.                                                *)

\* The quotient and the remainder of a division by the base.
LEMMA Division ==
    ASSUME NEW n \in Nat
    PROVE  /\ n \div Base \in Nat /\ n % Base \in Byte
           /\ n = (n \div Base) * Base + (n % Base)
<1>1. n % Base \in Byte
  BY BytesAssumption DEF Byte
<1>. QED
  BY <1>1, BytesAssumption

\* The quotient has one digit less.
LEMMA Quotient ==
    ASSUME NEW n \in Nat, NEW limit \in Nat, n < limit * Base
    PROVE  n \div Base < limit
BY BytesAssumption, Division

\* A number with one digit more.
LEMMA Digit ==
    ASSUME NEW q \in Nat, NEW r \in Byte, NEW limit \in Nat, q < limit
    PROVE  q * Base + r \in Nat /\ q * Base + r < limit * Base
BY BytesAssumption DEF Byte

\* A digit is its own remainder.
LEMMA OneDigit == ASSUME NEW r \in Byte PROVE r % Base = r
BY BytesAssumption DEF Byte

\* The powers of the base are numbers, and the smaller types are parts of
\* the larger ones.
LEMMA Powers ==
    /\ Base * Base \in Nat /\ Base * Base * Base \in Nat
    /\ Base * Base * Base * Base \in Nat
    /\ Byte \subseteq Uint32 /\ Uint16 \subseteq Uint32 /\ 0 .. 4 \subseteq Byte
<1>1. Base \in Nat /\ Base > 4
  BY BytesAssumption
<1>2. PICK b2 \in Nat : b2 = Base * Base
  BY <1>1
<1>3. b2 >= Base
  BY <1>1, <1>2
<1>4. PICK b3 \in Nat : b3 = b2 * Base
  BY <1>1
<1>5. b3 >= b2
  BY <1>1, <1>4
<1>6. PICK b4 \in Nat : b4 = b3 * Base
  BY <1>1
<1>7. b4 >= b3
  BY <1>1, <1>6
<1>8. Base * Base = b2 /\ Base * Base * Base = b3 /\ Base * Base * Base * Base = b4
  BY <1>2, <1>4, <1>6
<1>9. Byte = 0 .. Base - 1 /\ Uint16 = 0 .. b2 - 1 /\ Uint32 = 0 .. b4 - 1
  BY <1>8 DEF Byte, Uint16, Uint32
<1>. QED
  BY <1>1, <1>3, <1>5, <1>7, <1>8, <1>9

\* What the members of the types are.
LEMMA TypesOfNumbers ==
    /\ \A n : n \in Byte <=> n \in Nat /\ n < Base
    /\ \A n : n \in Uint16 <=> n \in Nat /\ n < Base * Base
    /\ \A n : n \in Uint32 <=> n \in Nat /\ n < Base * Base * Base * Base
<1>1. ASSUME NEW k \in Nat PROVE \A n : n \in 0 .. k - 1 <=> n \in Nat /\ n < k
  OBVIOUS
<1>2. Base \in Nat
  BY BytesAssumption
<1>. QED
  BY <1>1, <1>2, Powers DEF Byte, Uint16, Uint32

\* Two bytes make a uint16_t, and the bytes of a uint16_t make it again.
LEMMA Bytes16 ==
    /\ \A a, b \in Byte : a * Base + b \in Uint16
    /\ \A n \in Uint16 : /\ uint16_to_bytes(n) \in Seq(Byte) /\ Len(uint16_to_bytes(n)) = 2
                         /\ uint16_to_bytes(n)[1] * Base + uint16_to_bytes(n)[2] = n
<1>1. Base \in Nat /\ Base * Base \in Nat
  BY Powers, BytesAssumption
<1>2. ASSUME NEW a \in Byte, NEW b \in Byte PROVE a * Base + b \in Uint16
  <2>1. a \in Nat /\ a < Base
    BY TypesOfNumbers
  <2>2. a * Base + b \in Nat /\ a * Base + b < Base * Base
    BY <1>1, <2>1, Digit
  <2>. QED
    BY <2>2, TypesOfNumbers
<1>3. ASSUME NEW n \in Uint16
      PROVE  /\ uint16_to_bytes(n) \in Seq(Byte) /\ Len(uint16_to_bytes(n)) = 2
             /\ uint16_to_bytes(n)[1] * Base + uint16_to_bytes(n)[2] = n
  <2>1. n \in Nat /\ n < Base * Base
    BY TypesOfNumbers
  <2>2. PICK q \in Nat : q = n \div Base
    BY <2>1, Division
  <2>3. PICK r \in Byte : r = n % Base
    BY <2>1, Division
  <2>4. q * Base + r = n
    BY <2>1, <2>2, <2>3, Division
  <2>5. q < Base
    BY <1>1, <2>1, <2>2, Quotient
  <2>6. q \in Byte
    BY <2>5, TypesOfNumbers
  <2>7. uint16_to_bytes(n) = <<q, r>>
    BY <2>2, <2>3, <2>6, OneDigit DEF uint16_to_bytes
  <2>. QED
    BY <2>4, <2>6, <2>7
<1>. QED
  BY <1>2, <1>3

\* Four bytes make a uint32_t.
LEMMA FourBytes ==
    ASSUME NEW a \in Byte, NEW b \in Byte, NEW c \in Byte, NEW d \in Byte
    PROVE  ((a * Base + b) * Base + c) * Base + d \in Uint32
<1>1. Base \in Nat /\ Base * Base \in Nat /\ Base * Base * Base \in Nat
  BY Powers, BytesAssumption
<1>2. PICK n \in Nat : n = a * Base + b /\ n < Base * Base
  BY <1>1, Bytes16, TypesOfNumbers
<1>3. n * Base + c \in Nat /\ n * Base + c < Base * Base * Base
  BY <1>1, <1>2, Digit
<1>4. PICK m \in Nat : m = n * Base + c /\ m < Base * Base * Base
  BY <1>3
<1>5. m * Base + d \in Nat /\ m * Base + d < Base * Base * Base * Base
  BY <1>1, <1>4, Digit
<1>. QED
  BY <1>2, <1>4, <1>5, TypesOfNumbers

\* The bytes of a uint32_t make it again; a larger number loses its high digits.
LEMMA Bytes32 ==
    /\ \A n \in Nat : uint32_to_bytes(n) \in Seq(Byte) /\ Len(uint32_to_bytes(n)) = 4
    /\ \A n \in Uint32 : AsUint32(uint32_to_bytes(n)) = n
<1>1. Base \in Nat /\ Base * Base \in Nat /\ Base * Base * Base \in Nat
  BY Powers, BytesAssumption
<1>2. ASSUME NEW n \in Nat
      PROVE  /\ uint32_to_bytes(n) \in Seq(Byte) /\ Len(uint32_to_bytes(n)) = 4
             /\ n \in Uint32 => AsUint32(uint32_to_bytes(n)) = n
  <2>1. PICK d \in Byte, q \in Nat : q = n \div Base /\ d = n % Base /\ q * Base + d = n
    BY Division
  <2>2. PICK c \in Byte, p \in Nat : p = q \div Base /\ c = q % Base /\ p * Base + c = q
    BY Division
  <2>3. PICK b \in Byte, o \in Nat : o = p \div Base /\ b = p % Base /\ o * Base + b = p
    BY Division
  <2>4. PICK a \in Byte : a = o % Base
    BY Division
  <2>5. uint32_to_bytes(n) = <<a, b, c, d>>
    BY <2>1, <2>2, <2>3, <2>4 DEF uint32_to_bytes
  <2>6. n \in Uint32 => a = o
    <3>1. SUFFICES ASSUME n < Base * Base * Base * Base PROVE a = o
      BY TypesOfNumbers
    <3>2. q < Base * Base * Base
      BY <1>1, <2>1, <3>1, Quotient
    <3>3. p < Base * Base
      BY <1>1, <2>2, <3>2, Quotient
    <3>4. o < Base
      BY <1>1, <2>3, <3>3, Quotient
    <3>. QED
      BY <2>4, <3>4, OneDigit, TypesOfNumbers
  <2>7. n \in Uint32 => AsUint32(<<a, b, c, d>>) = n
    BY <2>1, <2>2, <2>3, <2>6 DEF AsUint32
  <2>. QED
    BY <2>5, <2>7
<1>3. Uint32 \subseteq Nat
  BY TypesOfNumbers
<1>. QED
  BY <1>2, <1>3

-----------------------------------------------------------------------------
(* Fields.                                                                 *)

\* What the builders write.
AnyField ==
    [kind : {"u8"}, value : Byte] \cup [kind : {"u16"}, value : Uint16]
        \cup [kind : {"u32"}, value : Nat] \cup [kind : {"string"}, value : Seq(Byte)]

BytesOf(fs) == Each(to_bytes, fs)
GivenBy(fs) == Each(Says, fs)

\* A field is bytes, and one with room in the format says values.
LEMMA FieldTypes ==
    /\ \A f \in AnyField : to_bytes(f) \in Seq(Byte)
    /\ \A f \in Field_with_room : f \in AnyField /\ Says(f) \in Seq(Uint32)
<1>1. ASSUME NEW f \in AnyField PROVE to_bytes(f) \in Seq(Byte)
  <2>1. CASE f.kind = "u8" /\ f.value \in Byte
    BY <2>1 DEF to_bytes
  <2>2. CASE f.kind = "u16" /\ f.value \in Uint16
    BY <2>2, Bytes16 DEF to_bytes
  <2>3. CASE f.kind = "u32" /\ f.value \in Nat
    BY <2>3, Bytes32 DEF to_bytes
  <2>4. CASE f.kind = "string" /\ f.value \in Seq(Byte)
    <3>1. Len(f.value) \in Nat
      BY <2>4, LenProperties
    <3>2. PICK d \in Byte : d = Len(f.value) % Base
      BY <3>1, Division
    <3>3. <<d>> \in Seq(Byte)
      OBVIOUS
    <3>4. <<d>> \o f.value \in Seq(Byte)
      BY <2>4, <3>3, ConcatProperties
    <3>. QED
      BY <2>4, <3>2, <3>4 DEF to_bytes, string_to_bytes
  <2>. QED
    BY <2>1, <2>2, <2>3, <2>4 DEF AnyField
<1>2. ASSUME NEW f \in Field_with_room PROVE f \in AnyField /\ Says(f) \in Seq(Uint32)
  <2>1. f \in AnyField
    BY TypesOfNumbers DEF Field_with_room, AnyField
  <2>2. ASSUME f.kind # "string" /\ f.value \in Uint32 PROVE Says(f) \in Seq(Uint32)
    BY <2>2 DEF Says
  <2>3. ASSUME f.kind = "string" /\ f.value \in Seq(Byte) /\ Len(f.value) < Base
        PROVE  Says(f) \in Seq(Uint32)
    <3>1. Len(f.value) \in Byte
      BY <2>3, LenProperties, TypesOfNumbers
    <3>2. Len(f.value) \in Uint32 /\ Byte \subseteq Uint32
      BY <3>1, Powers
    <3>3. <<Len(f.value)>> \in Seq(Uint32) /\ f.value \in Seq(Uint32)
      BY <2>3, <3>2, SeqMonotonic
    <3>4. <<Len(f.value)>> \o f.value \in Seq(Uint32)
      BY <3>3, ConcatProperties
    <3>. QED
      BY <2>3, <3>4 DEF Says
  <2>4. \/ f.kind # "string" /\ f.value \in Uint32
        \/ f.kind = "string" /\ f.value \in Seq(Byte) /\ Len(f.value) < Base
    BY Powers DEF Field_with_room
  <2>5. Says(f) \in Seq(Uint32)
    BY <2>2, <2>3, <2>4
  <2>. QED
    BY <2>1, <2>5
<1>. QED
  BY <1>1, <1>2

\* A sequence that consists of two others.
IsJoin(u, s, t) ==
    /\ Len(u) = Len(s) + Len(t)
    /\ \A k \in 1 .. Len(s) : u[k] = s[k]
    /\ \A k \in 1 .. Len(t) : u[Len(s) + k] = t[k]

\* A concatenation is one.
LEMMA Joins == \A S, s, t : s \in Seq(S) /\ t \in Seq(S) => s \o t \in Seq(S) /\ IsJoin(s \o t, s, t)
<1>. SUFFICES ASSUME NEW S, NEW s \in Seq(S), NEW t \in Seq(S)
              PROVE  s \o t \in Seq(S) /\ IsJoin(s \o t, s, t)
  OBVIOUS
<1>1. Len(s) \in Nat /\ Len(t) \in Nat
  BY LenProperties
<1>2. /\ s \o t \in Seq(S) /\ Len(s \o t) = Len(s) + Len(t)
      /\ \A k \in 1 .. Len(s) + Len(t) :
            (s \o t)[k] = IF k <= Len(s) THEN s[k] ELSE t[k - Len(s)]
  BY ConcatProperties
<1>3. ASSUME NEW k \in 1 .. Len(s) PROVE (s \o t)[k] = s[k]
  <2>1. k \in 1 .. Len(s) + Len(t) /\ k <= Len(s)
    BY <1>1
  <2>. QED
    BY <1>2, <2>1
<1>4. ASSUME NEW k \in 1 .. Len(t) PROVE (s \o t)[Len(s) + k] = t[k]
  <2>1. /\ Len(s) + k \in 1 .. Len(s) + Len(t) /\ ~(Len(s) + k <= Len(s))
        /\ (Len(s) + k) - Len(s) = k
    BY <1>1
  <2>. QED
    BY <1>2, <2>1
<1>. QED
  BY <1>2, <1>3, <1>4 DEF IsJoin

\* A sequence that consists of two others is their concatenation.
LEMMA Joined ==
    \A S, u, s, t : u \in Seq(S) /\ s \in Seq(S) /\ t \in Seq(S) /\ IsJoin(u, s, t)
                    => u = s \o t
<1>. TAKE S, u, s, t
<1>. HAVE u \in Seq(S) /\ s \in Seq(S) /\ t \in Seq(S) /\ IsJoin(u, s, t)
<1>1. Len(s) \in Nat /\ Len(t) \in Nat
  BY LenProperties
<1>2. /\ s \o t \in Seq(S) /\ Len(s \o t) = Len(s) + Len(t)
      /\ \A k \in 1 .. Len(s) + Len(t) :
            (s \o t)[k] = IF k <= Len(s) THEN s[k] ELSE t[k - Len(s)]
  BY ConcatProperties
<1>3. ASSUME NEW k \in 1 .. Len(s) + Len(t) PROVE u[k] = (s \o t)[k]
  <2>1. CASE k <= Len(s)
    <3>1. k \in 1 .. Len(s)
      BY <1>1, <2>1
    <3>. QED
      BY <1>2, <2>1, <3>1 DEF IsJoin
  <2>2. CASE ~(k <= Len(s))
    <3>1. PICK j : j = k - Len(s)
      OBVIOUS
    <3>2. j \in 1 .. Len(t) /\ k = Len(s) + j
      BY <1>1, <2>2, <3>1
    <3>. QED
      BY <1>2, <2>2, <3>1, <3>2 DEF IsJoin
  <2>. QED
    BY <2>1, <2>2
<1>4. Len(u) = Len(s) + Len(t)
  BY DEF IsJoin
<1>5. PICK v \in Seq(S) : v = s \o t
  BY <1>2
<1>6. Len(u) = Len(v) /\ \A k \in 1 .. Len(u) : u[k] = v[k]
  BY <1>2, <1>3, <1>4, <1>5
<1>. QED
  BY <1>5, <1>6, SeqEqual

\* What a function makes of the members of a sequence, concatenated.
Mapped(h, s) == FlattenSeq([k \in DOMAIN s |-> h[s[k]]])

\* Of two sequences, one after the other, it makes one after the other.
MapsJoin(h, S, s, t) ==
    Mapped(h, s) \in Seq(S) /\ Mapped(h, s \o t) = Mapped(h, s) \o Mapped(h, t)

\* That is so for every function whose values are sequences.
LEMMA FlattenMapped ==
    \A F, S, h, fs, gs :
        h \in [F -> Seq(S)] /\ fs \in Seq(F) /\ gs \in Seq(F) => MapsJoin(h, S, fs, gs)
<1>. SUFFICES ASSUME NEW F, NEW S, NEW h \in [F -> Seq(S)], NEW fs \in Seq(F), NEW gs \in Seq(F)
              PROVE  MapsJoin(h, S, fs, gs)
  OBVIOUS
<1>1. PICK s : s = [k \in DOMAIN fs |-> h[fs[k]]]
  OBVIOUS
<1>2. PICK t : t = [k \in DOMAIN gs |-> h[gs[k]]]
  OBVIOUS
<1>3. PICK hs \in Seq(F) : hs = fs \o gs
  BY ConcatProperties
<1>4. PICK u : u = [k \in DOMAIN hs |-> h[hs[k]]]
  OBVIOUS
<1>5. /\ Len(fs) \in Nat /\ DOMAIN fs = 1 .. Len(fs) /\ \A k \in 1 .. Len(fs) : fs[k] \in F
      /\ Len(gs) \in Nat /\ DOMAIN gs = 1 .. Len(gs) /\ \A k \in 1 .. Len(gs) : gs[k] \in F
  BY LenProperties, ElementOfSeq
<1>6. /\ Len(hs) = Len(fs) + Len(gs) /\ DOMAIN hs = 1 .. Len(fs) + Len(gs)
      /\ \A k \in 1 .. Len(hs) : hs[k] = IF k <= Len(fs) THEN fs[k] ELSE gs[k - Len(fs)]
  BY <1>3, ConcatProperties, LenProperties
<1>7. s \in Seq(Seq(S)) /\ Len(s) = Len(fs) /\ \A k \in 1 .. Len(fs) : s[k] = h[fs[k]]
  BY <1>1, <1>5
<1>8. t \in Seq(Seq(S)) /\ Len(t) = Len(gs) /\ \A k \in 1 .. Len(gs) : t[k] = h[gs[k]]
  BY <1>2, <1>5
<1>9. /\ u \in Seq(Seq(S)) /\ Len(u) = Len(fs) + Len(gs)
      /\ \A k \in 1 .. Len(fs) + Len(gs) : u[k] = h[hs[k]]
  <2>1. \A k \in 1 .. Len(fs) + Len(gs) : hs[k] \in F
    BY <1>6, ElementOfSeq
  <2>. QED
    BY <1>4, <1>5, <1>6, <2>1
<1>10. u = s \o t
  <2>1. ASSUME NEW k \in 1 .. Len(s) PROVE u[k] = s[k]
    <3>1. k \in 1 .. Len(fs) /\ k <= Len(fs) /\ k \in 1 .. Len(fs) + Len(gs)
      BY <1>5, <1>7
    <3>2. hs[k] = fs[k]
      BY <1>6, <3>1
    <3>3. u[k] = h[hs[k]] /\ s[k] = h[fs[k]]
      BY <1>7, <1>9, <3>1
    <3>. QED
      BY <3>2, <3>3
  <2>2. ASSUME NEW k \in 1 .. Len(t) PROVE u[Len(s) + k] = t[k]
    <3>1. /\ k \in 1 .. Len(gs) /\ Len(s) + k \in 1 .. Len(fs) + Len(gs)
          /\ ~(Len(s) + k <= Len(fs)) /\ (Len(s) + k) - Len(fs) = k
      BY <1>5, <1>7, <1>8
    <3>2. PICK j : j = Len(s) + k
      OBVIOUS
    <3>3. j \in 1 .. Len(hs) /\ ~(j <= Len(fs)) /\ j - Len(fs) = k
      BY <1>6, <3>1, <3>2
    <3>4. hs[j] = gs[k]
      BY <1>6, <3>3
    <3>5. u[j] = h[hs[j]] /\ t[k] = h[gs[k]]
      BY <1>6, <1>8, <1>9, <3>1, <3>3
    <3>. QED
      BY <3>2, <3>4, <3>5
  <2>3. Len(u) = Len(s) + Len(t)
    BY <1>7, <1>8, <1>9
  <2>4. IsJoin(u, s, t)
    BY <2>1, <2>2, <2>3 DEF IsJoin
  <2>. QED
    BY <1>7, <1>8, <1>9, <2>4, Joined
<1>11. FlattenSeq(s) \in Seq(S)
  BY <1>7, FlattenTyped
<1>12. FlattenSeq(s \o t) = FlattenSeq(s) \o FlattenSeq(t)
  BY <1>7, <1>8, FlattenConcat
<1>. QED
  BY <1>1, <1>2, <1>3, <1>4, <1>10, <1>11, <1>12 DEF Mapped, MapsJoin

\* The bytes of fields that follow one another follow one another.
LEMMA BytesConcat ==
    ASSUME NEW fs \in Seq(AnyField), NEW gs \in Seq(AnyField)
    PROVE  BytesOf(fs) \in Seq(Byte) /\ BytesOf(fs \o gs) = BytesOf(fs) \o BytesOf(gs)
<1>1. PICK h : h = [f \in AnyField |-> to_bytes(f)]
  OBVIOUS
<1>2. h \in [AnyField -> Seq(Byte)]
  BY <1>1, FieldTypes
<1>3. ASSUME NEW s \in Seq(AnyField) PROVE BytesOf(s) = Mapped(h, s)
  <2>1. \A k \in DOMAIN s : h[s[k]] = to_bytes(s[k])
    BY <1>1, LenProperties, ElementOfSeq
  <2>2. [k \in DOMAIN s |-> to_bytes(s[k])] = [k \in DOMAIN s |-> h[s[k]]]
    BY <2>1
  <2>. QED
    BY <2>2 DEF BytesOf, Each, Mapped
<1>4. fs \o gs \in Seq(AnyField)
  BY ConcatProperties
<1>5. MapsJoin(h, Byte, fs, gs)
  BY <1>2, FlattenMapped
<1>. QED
  BY <1>3, <1>4, <1>5 DEF MapsJoin

\* So do the values that they say.
LEMMA GivenConcat ==
    ASSUME NEW fs \in Seq(Field_with_room), NEW gs \in Seq(Field_with_room)
    PROVE  GivenBy(fs) \in Seq(Uint32) /\ GivenBy(fs \o gs) = GivenBy(fs) \o GivenBy(gs)
<1>1. PICK h : h = [f \in Field_with_room |-> Says(f)]
  OBVIOUS
<1>2. h \in [Field_with_room -> Seq(Uint32)]
  BY <1>1, FieldTypes
<1>3. ASSUME NEW s \in Seq(Field_with_room)
      PROVE GivenBy(s) = Mapped(h, s)
  <2>1. \A k \in DOMAIN s : h[s[k]] = Says(s[k])
    BY <1>1, LenProperties, ElementOfSeq
  <2>2. [k \in DOMAIN s |-> Says(s[k])] = [k \in DOMAIN s |-> h[s[k]]]
    BY <2>1
  <2>. QED
    BY <2>2 DEF GivenBy, Each, Mapped
<1>4. fs \o gs \in Seq(Field_with_room)
  BY ConcatProperties
<1>5. MapsJoin(h, Uint32, fs, gs)
  BY <1>2, FlattenMapped
<1>. QED
  BY <1>3, <1>4, <1>5 DEF MapsJoin

\* One field, and none.
LEMMA OneField ==
    /\ BytesOf(<<>>) = <<>> /\ GivenBy(<<>>) = <<>>
    /\ \A f \in AnyField : BytesOf(<<f>>) = to_bytes(f)
    /\ \A f \in Field_with_room : GivenBy(<<f>>) = Says(f)
<1>1. BytesOf(<<>>) = <<>> /\ GivenBy(<<>>) = <<>>
  <2>1. [k \in DOMAIN <<>> |-> to_bytes(<<>>[k])] = <<>>
    OBVIOUS
  <2>2. [k \in DOMAIN <<>> |-> Says(<<>>[k])] = <<>>
    OBVIOUS
  <2>. QED
    BY <2>1, <2>2, FlattenEmpty DEF BytesOf, GivenBy, Each
<1>2. ASSUME NEW f \in AnyField PROVE BytesOf(<<f>>) = to_bytes(f)
  <2>1. PICK x \in Seq(Byte) : x = to_bytes(f)
    BY FieldTypes
  <2>2. [k \in DOMAIN <<f>> |-> to_bytes(<<f>>[k])] = <<x>>
    BY <2>1
  <2>. QED
    BY <2>1, <2>2, FlattenOne DEF BytesOf, Each
<1>3. ASSUME NEW f \in Field_with_room PROVE GivenBy(<<f>>) = Says(f)
  <2>1. PICK x \in Seq(Uint32) : x = Says(f)
    BY FieldTypes
  <2>2. [k \in DOMAIN <<f>> |-> Says(<<f>>[k])] = <<x>>
    BY <2>1
  <2>. QED
    BY <2>1, <2>2, FlattenOne DEF GivenBy, Each
<1>. QED
  BY <1>1, <1>2, <1>3

-----------------------------------------------------------------------------
(* The language of a stack of items: the bytes that those items read from  *)
(* a stream that nothing cuts, and the values that they give.  It is the   *)
(* least relation that the functions of the reader close.                  *)

FieldRead == [kind : {"u8", "u16", "u32", "string", "event", "message"}]
Body == Seq(FieldRead)
Items ==
    FieldRead \cup [kind : {"list"}, body : Body] \cup [kind : {"loop"}, body : Body, times : Nat]
        \cup [kind : {"characters"}, length : Nat]

ValueKinds == {"u8", "u16", "u32", "string", "event", "message", "list"}

\* The values that an item of such a kind reads, and their bytes.
Values(item) ==
    CASE item.kind = "u16" -> Uint16
      [] item.kind \in {"u32", "list"} -> Uint32
      [] item.kind = "event" -> 0 .. 3
      [] item.kind = "message" -> 0 .. 4
      [] OTHER -> Byte

BytesOfValue(item, v) ==
    CASE item.kind = "u16" -> uint16_to_bytes(v)
      [] item.kind \in {"u32", "list"} -> uint32_to_bytes(v)
      [] OTHER -> <<v>>

\* What the head of a loop puts in its place.
Again(item) ==
    IF item.times = 0 THEN <<>> ELSE item.body \o <<Loop(item.body, item.times - 1)>>

Triples == Seq(Items) \X Seq(Byte) \X Seq(Uint32)

\* The first item of t reads the beginning of b and gives that of g; what is
\* then on the stack does so, according to T, with what is left.
CanRead(T, t, b, g) ==
    \/ t = <<>> /\ b = <<>> /\ g = <<>>
    \/ /\ t # <<>> /\ Head(t).kind \in ValueKinds
       /\ \E v \in Values(Head(t)), c \in Seq(Byte), h \in Seq(Uint32) :
            /\ b = BytesOfValue(Head(t), v) \o c /\ g = <<v>> \o h
            /\ <<Then(Head(t), v) \o Tail(t), c, h>> \in T
    \/ /\ t # <<>> /\ Head(t).kind = "characters"
       /\ \E s \in Seq(Byte), c \in Seq(Byte), h \in Seq(Uint32) :
            /\ Len(s) = Head(t).length /\ b = s \o c /\ g = s \o h
            /\ <<Tail(t), c, h>> \in T
    \/ /\ t # <<>> /\ Head(t).kind = "loop"
       /\ <<Again(Head(t)) \o Tail(t), b, g>> \in T

Closed(T) ==
    \A t \in Seq(Items), b \in Seq(Byte), g \in Seq(Uint32) :
        CanRead(T, t, b, g) => <<t, b, g>> \in T

Language == {p \in Triples : \A T \in SUBSET Triples : Closed(T) => p \in T}

\* What is on the stack can read more according to more.
LEMMA CanReadMore ==
    ASSUME NEW T, NEW U, T \subseteq U, NEW t, NEW b, NEW g, CanRead(T, t, b, g)
    PROVE  CanRead(U, t, b, g)
<1>1. CASE t = <<>> /\ b = <<>> /\ g = <<>>
  BY <1>1 DEF CanRead
<1>2. CASE /\ t # <<>> /\ Head(t).kind \in ValueKinds
           /\ \E v \in Values(Head(t)), c \in Seq(Byte), h \in Seq(Uint32) :
                /\ b = BytesOfValue(Head(t), v) \o c /\ g = <<v>> \o h
                /\ <<Then(Head(t), v) \o Tail(t), c, h>> \in T
  BY <1>2, Zenon DEF CanRead
<1>3. CASE /\ t # <<>> /\ Head(t).kind = "characters"
           /\ \E s \in Seq(Byte), c \in Seq(Byte), h \in Seq(Uint32) :
                /\ Len(s) = Head(t).length /\ b = s \o c /\ g = s \o h
                /\ <<Tail(t), c, h>> \in T
  BY <1>3, Zenon DEF CanRead
<1>4. CASE /\ t # <<>> /\ Head(t).kind = "loop"
           /\ <<Again(Head(t)) \o Tail(t), b, g>> \in T
  BY <1>4, Zenon DEF CanRead
<1>. QED
  BY <1>1, <1>2, <1>3, <1>4, Zenon DEF CanRead

\* The language is closed, and it is the least closed relation.
LEMMA LanguageClosed ==
    /\ Language \subseteq Triples /\ Closed(Language)
    /\ \A T \in SUBSET Triples : Closed(T) => Language \subseteq T
<1>1. Language \subseteq Triples /\ \A T \in SUBSET Triples : Closed(T) => Language \subseteq T
  BY DEF Language
<1>2. ASSUME NEW t \in Seq(Items), NEW b \in Seq(Byte), NEW g \in Seq(Uint32),
             CanRead(Language, t, b, g)
      PROVE  <<t, b, g>> \in Language
  <2>1. <<t, b, g>> \in Triples
    BY DEF Triples
  <2>2. ASSUME NEW T \in SUBSET Triples, Closed(T) PROVE <<t, b, g>> \in T
    <3>1. CanRead(T, t, b, g)
      BY <1>1, <1>2, <2>2, CanReadMore
    <3>. QED
      BY <2>2, <3>1 DEF Closed
  <2>. QED
    BY <2>1, <2>2 DEF Language
<1>. QED
  BY <1>1, <1>2 DEF Closed

\* What is in the language got there by a function of the reader.
LEMMA LanguageReads ==
    ASSUME NEW t, NEW b, NEW g, <<t, b, g>> \in Language
    PROVE  /\ t \in Seq(Items) /\ b \in Seq(Byte) /\ g \in Seq(Uint32)
           /\ CanRead(Language, t, b, g)
<1>. DEFINE T == {p \in Triples : CanRead(Language, p[1], p[2], p[3])}
<1>1. ASSUME NEW p \in T PROVE p \in Language
  <2>1. /\ p = <<p[1], p[2], p[3]>> /\ p[1] \in Seq(Items) /\ p[2] \in Seq(Byte)
        /\ p[3] \in Seq(Uint32) /\ CanRead(Language, p[1], p[2], p[3])
    BY DEF Triples
  <2>2. <<p[1], p[2], p[3]>> \in Language
    BY <2>1, LanguageClosed DEF Closed
  <2>. QED
    BY <2>1, <2>2
<1>2. ASSUME NEW u \in Seq(Items), NEW c \in Seq(Byte), NEW h \in Seq(Uint32), CanRead(T, u, c, h)
      PROVE  <<u, c, h>> \in T
  <2>1. CanRead(Language, u, c, h)
    <3>1. T \subseteq Language
      BY <1>1
    <3>. HIDE DEF T
    <3>. QED
      BY <1>2, <3>1, CanReadMore
  <2>2. <<u, c, h>> \in Triples
    BY DEF Triples
  <2>. QED
    BY <2>1, <2>2
<1>3. T \in SUBSET Triples /\ Closed(T)
  <2>1. T \in SUBSET Triples
    OBVIOUS
  <2>. HIDE DEF T
  <2>. QED
    BY <1>2, <2>1 DEF Closed
<1>4. <<t, b, g>> \in T
  <2>. HIDE DEF T
  <2>. QED
    BY <1>3, LanguageClosed
<1>. QED
  BY <1>4 DEF Triples

-----------------------------------------------------------------------------
(* Items and their values.                                                 *)

\* The first member and the others.
Splits(t, x, u) == t # <<>> /\ Head(t) = x /\ Tail(t) = u

\* A sequence that begins with one member.
LEMMA BeginsWith == \A S, x, u : x \in S /\ u \in Seq(S) => Splits(<<x>> \o u, x, u)
<1>. SUFFICES ASSUME NEW S, NEW x \in S, NEW u \in Seq(S) PROVE Splits(<<x>> \o u, x, u)
  OBVIOUS
<1>0. <<x>> \in Seq(S)
  OBVIOUS
<1>1. PICK s \in Seq(S) : s = <<x>>
  BY <1>0
<1>2. Len(s) = 1 /\ s[1] = x /\ Len(u) \in Nat
  BY <1>1, LenProperties
<1>3. /\ s \o u \in Seq(S) /\ Len(s \o u) = 1 + Len(u)
      /\ (s \o u)[1] = x /\ \A k \in 1 .. Len(u) : (s \o u)[1 + k] = u[k]
  <2>1. s \o u \in Seq(S) /\ IsJoin(s \o u, s, u)
    BY Joins
  <2>. QED
    BY <1>2, <2>1 DEF IsJoin
<1>4. PICK t \in Seq(S) : t = s \o u
  BY <1>3
<1>5. t # <<>> /\ Head(t) = t[1]
  BY <1>2, <1>3, <1>4, HeadTailProperties, LenProperties, EmptySeq
<1>6. Tail(t) \in Seq(S) /\ Len(Tail(t)) = Len(u) /\ \A k \in 1 .. Len(u) : Tail(t)[k] = t[k + 1]
  BY <1>2, <1>3, <1>4, <1>5, HeadTailProperties
<1>7. ASSUME NEW k \in 1 .. Len(u) PROVE Tail(t)[k] = u[k]
  <2>1. k + 1 = 1 + k
    BY <1>2
  <2>. QED
    BY <1>3, <1>4, <1>6, <2>1
<1>8. Tail(t) = u
  <2>1. PICK v \in Seq(S) : v = Tail(t)
    BY <1>6
  <2>. QED
    BY <1>6, <1>7, <2>1, SeqEqual
<1>. QED
  BY <1>1, <1>2, <1>3, <1>4, <1>5, <1>8 DEF Splits

\* A sequence that is not empty begins with its head.
LEMMA HeadAndTail ==
    \A S, t : t \in Seq(S) /\ t # <<>> => Head(t) \in S /\ Tail(t) \in Seq(S) /\ t = <<Head(t)>> \o Tail(t)
<1>. SUFFICES ASSUME NEW S, NEW t \in Seq(S), t # <<>>
              PROVE  Head(t) \in S /\ Tail(t) \in Seq(S) /\ t = <<Head(t)>> \o Tail(t)
  OBVIOUS
<1>1. /\ Len(t) \in Nat /\ Len(t) > 0 /\ Head(t) \in S /\ Head(t) = t[1]
      /\ Tail(t) \in Seq(S) /\ Len(Tail(t)) = Len(t) - 1
      /\ \A k \in 1 .. Len(Tail(t)) : Tail(t)[k] = t[k + 1]
  BY HeadTailProperties, LenProperties, EmptySeq
<1>0. PICK x \in S : x = Head(t)
  BY <1>1
<1>2. PICK s \in Seq(S) : s = <<Head(t)>> /\ Len(s) = 1 /\ s[1] = t[1]
  <2>1. <<x>> \in Seq(S) /\ Len(<<x>>) = 1 /\ <<x>>[1] = t[1]
    BY <1>0, <1>1
  <2>. QED
    BY <1>0, <2>1
<1>3. PICK u \in Seq(S) : u = Tail(t)
  BY <1>1
<1>4. ASSUME NEW k \in 1 .. Len(s) PROVE t[k] = s[k]
  BY <1>2
<1>5. ASSUME NEW k \in 1 .. Len(u) PROVE t[Len(s) + k] = u[k]
  <2>1. Len(s) + k = k + 1 /\ u[k] = t[k + 1]
    BY <1>1, <1>2, <1>3
  <2>. QED
    BY <2>1
<1>6. IsJoin(t, s, u)
  BY <1>1, <1>2, <1>3, <1>4, <1>5 DEF IsJoin
<1>7. t = s \o u
  BY <1>6, Joined
<1>. QED
  BY <1>1, <1>2, <1>3, <1>7

\* The members of items.
LEMMA ItemTypes ==
    /\ \A item \in Items :
        /\ item.kind \in ValueKinds \cup {"loop", "characters"}
        /\ item.kind \in {"list", "loop"} => item.body \in Body
        /\ item.kind = "loop" => item.times \in Nat
        /\ item.kind = "characters" => item.length \in Nat
    /\ FieldRead \subseteq Items /\ Body \subseteq Seq(Items)
    /\ \A body \in Body, n \in Nat : ReadList(body) \in Items /\ Loop(body, n) \in Items
<1>1. FieldRead \subseteq Items
  BY DEF Items
<1>2. Body \subseteq Seq(Items)
  BY <1>1, SeqMonotonic DEF Body
<1>3. ASSUME NEW item \in Items
      PROVE  /\ item.kind \in ValueKinds \cup {"loop", "characters"}
             /\ item.kind \in {"list", "loop"} => item.body \in Body
             /\ item.kind = "loop" => item.times \in Nat
             /\ item.kind = "characters" => item.length \in Nat
  BY DEF Items, FieldRead, ValueKinds
<1>4. \A body \in Body, n \in Nat : ReadList(body) \in Items /\ Loop(body, n) \in Items
  BY DEF Items, ReadList, Loop
<1>. QED
  BY <1>1, <1>2, <1>3, <1>4

\* The functions that the reader calls for a message and for an event.
LEMMA Readers ==
    /\ Len(read_message) = 5 /\ \A v \in 0 .. 4 : read_message[v + 1] \in Seq(Items)
    /\ Len(read_event) = 4 /\ \A v \in 0 .. 3 : read_event[v + 1] \in Seq(Items)
    /\ <<Read("u8")>> \o read_player \in Body /\ read_position \in Body
    /\ <<Read("u8"), Read("u32")>> \in Body /\ <<Read("u8")>> \in Body
    /\ <<Read("event")>> \in Body /\ <<Read("message")>> \in Body
<1>1. \A k \in {"u8", "u16", "u32", "string", "event", "message"} : Read(k) \in FieldRead
  BY DEF FieldRead, Read
<1>2. /\ read_player \in Body /\ read_position \in Body /\ read_hello \in Body
      /\ <<Read("u8")>> \in Body /\ <<Read("u16")>> \in Body /\ <<Read("u32")>> \in Body
      /\ <<Read("u8"), Read("u32")>> \in Body
      /\ <<Read("event")>> \in Body /\ <<Read("message")>> \in Body
  BY <1>1 DEF Body, read_player, read_position, read_hello
<1>3. \A s, t \in Body : s \o t \in Body
  BY ConcatProperties DEF Body
<1>4. \A s, t \in Seq(Items) : s \o t \in Seq(Items)
  BY ConcatProperties
<1>5. \A body \in Body : <<ReadList(body)>> \in Seq(Items)
  BY ItemTypes
<1>6. <<Read("u8")>> \o read_player \in Body
  BY <1>2, <1>3
<1>7. /\ read_hello \in Seq(Items) /\ <<Read("u8")>> \o read_player \in Seq(Items)
      /\ read_players_map \in Seq(Items) /\ <<Read("u16")>> \o read_event_list \in Seq(Items)
      /\ read_scores_map \in Seq(Items)
  BY <1>2, <1>4, <1>5, <1>6, ItemTypes DEF read_players_map, read_event_list, read_scores_map
<1>8. /\ <<Read("u32")>> \o read_position \in Seq(Items)
      /\ <<Read("u32")>> \o read_player_id_list \o read_position_list \in Seq(Items)
      /\ <<Read("u8")>> \o read_position \in Seq(Items) /\ read_position \in Seq(Items)
  BY <1>2, <1>4, <1>5, ItemTypes DEF read_player_id_list, read_position_list
<1>9. Len(read_message) = 5 /\ \A v \in 0 .. 4 : read_message[v + 1] \in Seq(Items)
  <2>1. Len(read_message) = 5
    BY DEF read_message
  <2>2. /\ read_message[1] \in Seq(Items) /\ read_message[2] \in Seq(Items)
        /\ read_message[3] \in Seq(Items) /\ read_message[4] \in Seq(Items)
        /\ read_message[5] \in Seq(Items)
    BY <1>7 DEF read_message
  <2>3. \A v \in 0 .. 4 : v = 0 \/ v = 1 \/ v = 2 \/ v = 3 \/ v = 4
    OBVIOUS
  <2>. QED
    BY <2>1, <2>2, <2>3
<1>10. Len(read_event) = 4 /\ \A v \in 0 .. 3 : read_event[v + 1] \in Seq(Items)
  <2>1. Len(read_event) = 4
    BY DEF read_event
  <2>2. /\ read_event[1] \in Seq(Items) /\ read_event[2] \in Seq(Items)
        /\ read_event[3] \in Seq(Items) /\ read_event[4] \in Seq(Items)
    BY <1>8 DEF read_event
  <2>3. \A v \in 0 .. 3 : v = 0 \/ v = 1 \/ v = 2 \/ v = 3
    OBVIOUS
  <2>. QED
    BY <2>1, <2>2, <2>3
<1>. QED
  BY <1>2, <1>6, <1>9, <1>10

\* What takes the place of an item that has been read.
LEMMA ThenTypes ==
    /\ \A item \in Items, v \in Nat :
        item.kind \in ValueKinds /\ ~NoCase(item, v) => Then(item, v) \in Seq(Items)
    /\ \A item \in Items : item.kind = "loop" => Again(item) \in Seq(Items)
<1>1. ASSUME NEW item \in Items, NEW v \in Nat, item.kind \in ValueKinds, ~NoCase(item, v)
      PROVE  Then(item, v) \in Seq(Items)
  <2>1. CASE item.kind = "message"
    <3>1. v \in 0 .. 4
      BY <1>1, <2>1, Readers DEF NoCase
    <3>. QED
      BY <2>1, <3>1, Readers DEF Then
  <2>2. CASE item.kind = "event"
    <3>1. v \in 0 .. 3
      BY <1>1, <2>2, Readers DEF NoCase
    <3>. QED
      BY <2>2, <3>1, Readers DEF Then
  <2>3. CASE item.kind = "list"
    <3>1. Loop(item.body, v) \in Items
      BY <2>3, ItemTypes
    <3>. QED
      BY <2>3, <3>1 DEF Then
  <2>4. CASE item.kind = "string" /\ v > 0
    <3>1. [kind |-> "characters", length |-> v] \in Items
      BY DEF Items
    <3>. QED
      BY <2>4, <3>1 DEF Then
  <2>5. CASE item.kind \notin {"message", "event", "list"} /\ ~(item.kind = "string" /\ v > 0)
    <3>1. Then(item, v) = <<>>
      BY <2>5 DEF Then
    <3>. QED
      BY <3>1
  <2>. QED
    BY <2>1, <2>2, <2>3, <2>4, <2>5
<1>2. ASSUME NEW item \in Items, item.kind = "loop" PROVE Again(item) \in Seq(Items)
  <2>1. CASE item.times = 0
    BY <2>1 DEF Again
  <2>2. CASE item.times # 0
    <3>1. item.body \in Seq(Items) /\ item.times - 1 \in Nat
      BY <1>2, <2>2, ItemTypes
    <3>2. Loop(item.body, item.times - 1) \in Items
      BY <1>2, <3>1, ItemTypes
    <3>3. <<Loop(item.body, item.times - 1)>> \in Seq(Items)
      BY <3>2
    <3>4. item.body \o <<Loop(item.body, item.times - 1)>> \in Seq(Items)
      BY <3>1, <3>3, ConcatProperties
    <3>. QED
      BY <2>2, <3>4 DEF Again
  <2>. QED
    BY <2>1, <2>2
<1>. QED
  BY <1>1, <1>2

\* Values and their bytes.
LEMMA ValueTypes ==
    ASSUME NEW item \in Items, item.kind \in ValueKinds, NEW v \in Values(item)
    PROVE  /\ v \in Uint32 /\ v \in Nat /\ ~NoCase(item, v)
           /\ BytesOfValue(item, v) \in Seq(Byte) /\ Then(item, v) \in Seq(Items)
<1>1. v \in Uint32
  BY Powers DEF Values
<1>2. v \in Nat
  BY <1>1, TypesOfNumbers
<1>3. ~NoCase(item, v)
  BY <1>2, Readers DEF NoCase, Values
<1>4. BytesOfValue(item, v) \in Seq(Byte)
  <2>1. CASE item.kind = "u16"
    BY <2>1, Bytes16 DEF BytesOfValue, Values
  <2>2. CASE item.kind \in {"u32", "list"}
    BY <1>2, <2>2, Bytes32 DEF BytesOfValue
  <2>3. CASE item.kind \notin {"u16", "u32", "list"}
    <3>1. v \in Byte
      BY <2>3, Powers DEF Values
    <3>. QED
      BY <2>3, <3>1 DEF BytesOfValue
  <2>. QED
    BY <2>1, <2>2, <2>3
<1>. QED
  BY <1>1, <1>2, <1>3, <1>4, ThenTypes

-----------------------------------------------------------------------------
(* How the language is put together.                                       *)

\* Nothing reads nothing.
LEMMA AddNothing == <<<<>>, <<>>, <<>>>> \in Language
<1>1. CanRead(Language, <<>>, <<>>, <<>>)
  BY DEF CanRead
<1>2. <<>> \in Seq(Items) /\ <<>> \in Seq(Byte) /\ <<>> \in Seq(Uint32)
  BY EmptySeq
<1>. QED
  BY <1>1, <1>2, LanguageClosed DEF Closed

\* A value more at the front.
LEMMA AddValue ==
    ASSUME NEW item \in Items, item.kind \in ValueKinds, NEW v \in Values(item), NEW u, NEW c, NEW h,
           u \in Seq(Items), <<Then(item, v) \o u, c, h>> \in Language
    PROVE  <<<<item>> \o u, BytesOfValue(item, v) \o c, <<v>> \o h>> \in Language
<1>1. c \in Seq(Byte) /\ h \in Seq(Uint32)
  BY LanguageReads
<1>2. PICK t \in Seq(Items) : t = <<item>> \o u
  <2>1. <<item>> \in Seq(Items)
    OBVIOUS
  <2>. QED
    BY <2>1, ConcatProperties
<1>3. PICK b \in Seq(Byte) : b = BytesOfValue(item, v) \o c
  BY <1>1, ValueTypes, ConcatProperties
<1>4. PICK g \in Seq(Uint32) : g = <<v>> \o h
  <2>1. <<v>> \in Seq(Uint32)
    BY ValueTypes
  <2>. QED
    BY <1>1, <2>1, ConcatProperties
<1>5. t # <<>> /\ Head(t) = item /\ Tail(t) = u
  BY <1>2, BeginsWith DEF Splits
<1>6. CanRead(Language, t, b, g)
  BY <1>1, <1>3, <1>4, <1>5, Zenon DEF CanRead
<1>. QED
  BY <1>2, <1>3, <1>4, <1>6, LanguageClosed DEF Closed

\* Characters more at the front.
LEMMA AddCharacters ==
    ASSUME NEW item \in Items, item.kind = "characters", NEW s \in Seq(Byte), Len(s) = item.length,
           NEW u, NEW c, NEW h, <<u, c, h>> \in Language
    PROVE  <<<<item>> \o u, s \o c, s \o h>> \in Language
<1>1. u \in Seq(Items) /\ c \in Seq(Byte) /\ h \in Seq(Uint32)
  BY LanguageReads
<1>2. PICK t \in Seq(Items) : t = <<item>> \o u
  <2>1. <<item>> \in Seq(Items)
    OBVIOUS
  <2>. QED
    BY <1>1, <2>1, ConcatProperties
<1>3. PICK b \in Seq(Byte) : b = s \o c
  BY <1>1, ConcatProperties
<1>4. PICK g \in Seq(Uint32) : g = s \o h
  <2>1. s \in Seq(Uint32)
    BY Powers, SeqMonotonic
  <2>. QED
    BY <1>1, <2>1, ConcatProperties
<1>5. t # <<>> /\ Head(t) = item /\ Tail(t) = u
  BY <1>1, <1>2, BeginsWith DEF Splits
<1>6. CanRead(Language, t, b, g)
  BY <1>1, <1>3, <1>4, <1>5, Zenon DEF CanRead
<1>. QED
  BY <1>2, <1>3, <1>4, <1>6, LanguageClosed DEF Closed

\* The head of a loop at the front.
LEMMA AddLoop ==
    ASSUME NEW item \in Items, item.kind = "loop", NEW u \in Seq(Items), NEW b, NEW g,
           <<Again(item) \o u, b, g>> \in Language
    PROVE  <<<<item>> \o u, b, g>> \in Language
<1>1. b \in Seq(Byte) /\ g \in Seq(Uint32)
  BY LanguageReads
<1>2. PICK t \in Seq(Items) : t = <<item>> \o u
  <2>1. <<item>> \in Seq(Items)
    OBVIOUS
  <2>. QED
    BY <2>1, ConcatProperties
<1>3. t # <<>> /\ Head(t) = item /\ Tail(t) = u
  BY <1>2, BeginsWith DEF Splits
<1>4. CanRead(Language, t, b, g)
  BY <1>3 DEF CanRead
<1>. QED
  BY <1>1, <1>2, <1>4, LanguageClosed DEF Closed

\* What a stack reads followed by what another reads.
LEMMA Compose ==
    ASSUME NEW t, NEW b, NEW g, <<t, b, g>> \in Language,
           NEW u, NEW c, NEW h, <<u, c, h>> \in Language
    PROVE  <<t \o u, b \o c, g \o h>> \in Language
<1>. DEFINE T == {p \in Triples : <<p[1] \o u, p[2] \o c, p[3] \o h>> \in Language}
<1>1. u \in Seq(Items) /\ c \in Seq(Byte) /\ h \in Seq(Uint32)
  BY LanguageReads
<1>2. \A t1, b1, g1 : <<t1, b1, g1>> \in T <=>
        /\ t1 \in Seq(Items) /\ b1 \in Seq(Byte) /\ g1 \in Seq(Uint32)
        /\ <<t1 \o u, b1 \o c, g1 \o h>> \in Language
  BY DEF Triples
<1>3. T \in SUBSET Triples
  OBVIOUS
<1>. HIDE DEF T
<1>4. ASSUME NEW t1 \in Seq(Items), NEW b1 \in Seq(Byte), NEW g1 \in Seq(Uint32),
             CanRead(T, t1, b1, g1)
      PROVE  <<t1, b1, g1>> \in T
  <2>1. CASE t1 = <<>> /\ b1 = <<>> /\ g1 = <<>>
    <3>1. <<>> \o u = u /\ <<>> \o c = c /\ <<>> \o h = h
      BY <1>1, ConcatEmptySeq
    <3>. QED
      BY <1>2, <2>1, <3>1
  <2>2. ASSUME NEW item \in Items, NEW r \in Seq(Items), t1 = <<item>> \o r,
               item.kind \in ValueKinds, NEW v \in Values(item),
               NEW c1 \in Seq(Byte), NEW h1 \in Seq(Uint32),
               b1 = BytesOfValue(item, v) \o c1, g1 = <<v>> \o h1,
               <<Then(item, v) \o r, c1, h1>> \in T
        PROVE  <<t1, b1, g1>> \in T
    <3>1. <<(Then(item, v) \o r) \o u, c1 \o c, h1 \o h>> \in Language
      BY <1>2, <2>2
    <3>2. Then(item, v) \in Seq(Items) /\ BytesOfValue(item, v) \in Seq(Byte) /\ v \in Uint32
      BY <2>2, ValueTypes
    <3>3. <<item>> \in Seq(Items) /\ <<v>> \in Seq(Uint32) /\ r \o u \in Seq(Items)
      BY <1>1, <3>2, ConcatProperties
    <3>4. Associates(Then(item, v), r, u)
      BY <1>1, <3>2, Associative
    <3>5. Associates(<<item>>, r, u)
      BY <1>1, <3>3, Associative
    <3>6. Associates(BytesOfValue(item, v), c1, c)
      BY <1>1, <3>2, Associative
    <3>7. Associates(<<v>>, h1, h)
      BY <1>1, <3>3, Associative
    <3>8. <<Then(item, v) \o (r \o u), c1 \o c, h1 \o h>> \in Language
      BY <3>1, <3>4 DEF Associates
    <3>9. <<<<item>> \o (r \o u), BytesOfValue(item, v) \o (c1 \o c), <<v>> \o (h1 \o h)>> \in Language
      BY <2>2, <3>3, <3>8, AddValue
    <3>10. <<t1 \o u, b1 \o c, g1 \o h>> \in Language
      BY <2>2, <3>5, <3>6, <3>7, <3>9 DEF Associates
    <3>. QED
      BY <1>2, <3>10
  <2>3. ASSUME NEW item \in Items, NEW r \in Seq(Items), t1 = <<item>> \o r,
               item.kind = "characters", NEW s \in Seq(Byte), Len(s) = item.length,
               NEW c1 \in Seq(Byte), NEW h1 \in Seq(Uint32),
               b1 = s \o c1, g1 = s \o h1, <<r, c1, h1>> \in T
        PROVE  <<t1, b1, g1>> \in T
    <3>1. <<r \o u, c1 \o c, h1 \o h>> \in Language
      BY <1>2, <2>3
    <3>2. <<item>> \in Seq(Items) /\ s \in Seq(Uint32)
      BY Powers, SeqMonotonic
    <3>3. Associates(<<item>>, r, u)
      BY <1>1, <3>2, Associative
    <3>4. Associates(s, c1, c)
      BY <1>1, Associative
    <3>5. Associates(s, h1, h)
      BY <1>1, <3>2, Associative
    <3>6. <<<<item>> \o (r \o u), s \o (c1 \o c), s \o (h1 \o h)>> \in Language
      BY <2>3, <3>1, AddCharacters
    <3>7. <<t1 \o u, b1 \o c, g1 \o h>> \in Language
      BY <2>3, <3>3, <3>4, <3>5, <3>6 DEF Associates
    <3>. QED
      BY <1>2, <3>7
  <2>4. ASSUME NEW item \in Items, NEW r \in Seq(Items), t1 = <<item>> \o r,
               item.kind = "loop", <<Again(item) \o r, b1, g1>> \in T
        PROVE  <<t1, b1, g1>> \in T
    <3>1. <<(Again(item) \o r) \o u, b1 \o c, g1 \o h>> \in Language
      BY <1>2, <2>4
    <3>2. <<item>> \in Seq(Items) /\ Again(item) \in Seq(Items) /\ r \o u \in Seq(Items)
      BY <1>1, <2>4, ThenTypes, ConcatProperties
    <3>3. Associates(<<item>>, r, u)
      BY <1>1, <3>2, Associative
    <3>4. Associates(Again(item), r, u)
      BY <1>1, <3>2, Associative
    <3>5. <<Again(item) \o (r \o u), b1 \o c, g1 \o h>> \in Language
      BY <3>1, <3>4 DEF Associates
    <3>6. <<<<item>> \o (r \o u), b1 \o c, g1 \o h>> \in Language
      BY <2>4, <3>2, <3>5, AddLoop
    <3>7. <<t1 \o u, b1 \o c, g1 \o h>> \in Language
      BY <2>4, <3>3, <3>6 DEF Associates
    <3>. QED
      BY <1>2, <3>7
  <2>5. CASE t1 # <<>>
    <3>1. PICK item \in Items, r \in Seq(Items) : item = Head(t1) /\ r = Tail(t1) /\ t1 = <<item>> \o r
      BY <2>5, HeadAndTail
    <3>2. CASE /\ Head(t1).kind \in ValueKinds
               /\ \E v \in Values(Head(t1)), c1 \in Seq(Byte), h1 \in Seq(Uint32) :
                    /\ b1 = BytesOfValue(Head(t1), v) \o c1 /\ g1 = <<v>> \o h1
                    /\ <<Then(Head(t1), v) \o Tail(t1), c1, h1>> \in T
      BY <2>2, <3>1, <3>2, Zenon
    <3>3. CASE /\ Head(t1).kind = "characters"
               /\ \E s \in Seq(Byte), c1 \in Seq(Byte), h1 \in Seq(Uint32) :
                    /\ Len(s) = Head(t1).length /\ b1 = s \o c1 /\ g1 = s \o h1
                    /\ <<Tail(t1), c1, h1>> \in T
      BY <2>3, <3>1, <3>3, Zenon
    <3>4. CASE Head(t1).kind = "loop" /\ <<Again(Head(t1)) \o Tail(t1), b1, g1>> \in T
      BY <2>4, <3>1, <3>4, Zenon
    <3>. QED
      BY <1>4, <2>5, <3>2, <3>3, <3>4, Zenon DEF CanRead
  <2>. QED
    BY <1>4, <2>1, <2>5 DEF CanRead
<1>5. Closed(T)
  BY <1>4 DEF Closed
<1>6. <<t, b, g>> \in T
  BY <1>3, <1>5, LanguageClosed
<1>. QED
  BY <1>2, <1>6

-----------------------------------------------------------------------------
(* What the builders write is in the language of what the reader reads.    *)

\* The fields fs are what the stack t reads, if the format has room for them.
Parses(t, fs) ==
    /\ t \in Seq(Items) /\ fs \in Seq(AnyField)
    /\ fs \in Seq(Field_with_room) => <<t, BytesOf(fs), GivenBy(fs)>> \in Language

\* A part of fields that have room has room.
LEMMA PartsHaveRoom ==
    \A S, s, t, F : s \in Seq(S) /\ t \in Seq(S) /\ s \o t \in Seq(F) => s \in Seq(F) /\ t \in Seq(F)
<1>. SUFFICES ASSUME NEW S, NEW s \in Seq(S), NEW t \in Seq(S), NEW F, s \o t \in Seq(F)
              PROVE  s \in Seq(F) /\ t \in Seq(F)
  OBVIOUS
<1>1. Len(s) \in Nat /\ Len(t) \in Nat /\ IsJoin(s \o t, s, t)
  BY LenProperties, Joins
<1>2. PICK u \in Seq(F) : u = s \o t
  OBVIOUS
<1>3. \A k \in 1 .. Len(u) : u[k] \in F
  BY ElementOfSeq
<1>4. Len(u) = Len(s) + Len(t)
  BY <1>1, <1>2 DEF IsJoin
<1>5. ASSUME NEW k \in 1 .. Len(s) PROVE s[k] \in F
  <2>1. k \in 1 .. Len(u) /\ u[k] = s[k]
    BY <1>1, <1>2, <1>4 DEF IsJoin
  <2>. QED
    BY <1>3, <2>1
<1>6. ASSUME NEW k \in 1 .. Len(t) PROVE t[k] \in F
  <2>1. Len(s) + k \in 1 .. Len(u) /\ u[Len(s) + k] = t[k]
    BY <1>1, <1>2, <1>4 DEF IsJoin
  <2>. QED
    BY <1>3, <2>1
<1>7. s = [k \in 1 .. Len(s) |-> s[k]] /\ t = [k \in 1 .. Len(t) |-> t[k]]
  OBVIOUS
<1>8. [k \in 1 .. Len(s) |-> s[k]] \in Seq(F)
  BY <1>1, <1>5
<1>9. [k \in 1 .. Len(t) |-> t[k]] \in Seq(F)
  BY <1>1, <1>6
<1>. QED
  BY <1>7, <1>8, <1>9, Zenon

\* No fields, and no items.
LEMMA ParsesNone == Parses(<<>>, <<>>)
<1>1. <<>> \in Seq(Items) /\ <<>> \in Seq(AnyField)
  BY EmptySeq
<1>. QED
  BY <1>1, AddNothing, OneField DEF Parses

\* Fields that follow one another.
LEMMA ParsesBoth ==
    ASSUME NEW t, NEW fs, Parses(t, fs), NEW u, NEW gs, Parses(u, gs)
    PROVE  Parses(t \o u, fs \o gs)
<1>1. /\ t \in Seq(Items) /\ u \in Seq(Items) /\ fs \in Seq(AnyField) /\ gs \in Seq(AnyField)
      /\ t \o u \in Seq(Items) /\ fs \o gs \in Seq(AnyField)
  BY ConcatProperties DEF Parses
<1>2. ASSUME fs \o gs \in Seq(Field_with_room)
      PROVE  <<t \o u, BytesOf(fs \o gs), GivenBy(fs \o gs)>> \in Language
  <2>1. fs \in Seq(Field_with_room) /\ gs \in Seq(Field_with_room)
    BY <1>1, <1>2, PartsHaveRoom
  <2>2. <<t, BytesOf(fs), GivenBy(fs)>> \in Language /\ <<u, BytesOf(gs), GivenBy(gs)>> \in Language
    BY <2>1 DEF Parses
  <2>3. BytesOf(fs \o gs) = BytesOf(fs) \o BytesOf(gs) /\ GivenBy(fs \o gs) = GivenBy(fs) \o GivenBy(gs)
    BY <1>1, <2>1, BytesConcat, GivenConcat
  <2>. QED
    BY <2>2, <2>3, Compose
<1>. QED
  BY <1>1, <1>2 DEF Parses

\* An item that reads a value, after which the stack is t.
LEMMA ParsesValue ==
    ASSUME NEW item \in Items, item.kind \in ValueKinds, NEW f \in AnyField,
           NEW t \in Seq(Items), NEW fs, Parses(t, fs),
           f \in Field_with_room =>
              /\ f.value \in Values(item) /\ to_bytes(f) = BytesOfValue(item, f.value)
              /\ Says(f) = <<f.value>> /\ Then(item, f.value) = t
    PROVE  Parses(<<item>>, <<f>> \o fs)
<1>1. <<f>> \in Seq(AnyField) /\ fs \in Seq(AnyField) /\ <<item>> \in Seq(Items)
  BY DEF Parses
<1>2. <<f>> \o fs \in Seq(AnyField)
  BY <1>1, ConcatProperties
<1>3. ASSUME <<f>> \o fs \in Seq(Field_with_room)
      PROVE  <<<<item>>, BytesOf(<<f>> \o fs), GivenBy(<<f>> \o fs)>> \in Language
  <2>1. <<f>> \in Seq(Field_with_room) /\ fs \in Seq(Field_with_room)
    BY <1>1, <1>3, PartsHaveRoom
  <2>2. f \in Field_with_room
    BY <2>1
  <2>3. <<t, BytesOf(fs), GivenBy(fs)>> \in Language
    BY <2>1 DEF Parses
  <2>4. <<>> \in Seq(Items) /\ t \o <<>> = t /\ <<item>> \o <<>> = <<item>>
    BY <1>1, EmptySeq, ConcatEmptySeq
  <2>5. <<<<item>> \o <<>>, BytesOfValue(item, f.value) \o BytesOf(fs), <<f.value>> \o GivenBy(fs)>> \in Language
    BY <2>2, <2>3, <2>4, AddValue
  <2>6. BytesOf(<<f>> \o fs) = BytesOf(<<f>>) \o BytesOf(fs) /\ GivenBy(<<f>> \o fs) = GivenBy(<<f>>) \o GivenBy(fs)
    BY <1>1, <2>1, BytesConcat, GivenConcat
  <2>7. BytesOf(<<f>>) = BytesOfValue(item, f.value) /\ GivenBy(<<f>>) = <<f.value>>
    BY <2>2, OneField
  <2>. QED
    BY <2>4, <2>5, <2>6, <2>7
<1>. QED
  BY <1>1, <1>2, <1>3 DEF Parses

\* Numbers.
LEMMA ParsesNumbers ==
    /\ \A v \in Byte : Parses(<<Read("u8")>>, <<U8(v)>>)
    /\ \A v \in Uint16 : Parses(<<Read("u16")>>, <<U16(v)>>)
    /\ \A v \in Nat : Parses(<<Read("u32")>>, <<U32(v)>>)
<1>1. ASSUME NEW k \in {"u8", "u16", "u32"}, NEW f \in AnyField, f.kind = k
      PROVE  Parses(<<Read(k)>>, <<f>>)
  <2>1. Read(k) \in Items /\ Read(k).kind = k /\ k \in ValueKinds
    BY DEF Read, Items, FieldRead, ValueKinds
  <2>2. ASSUME f \in Field_with_room
        PROVE  /\ f.value \in Values(Read(k)) /\ to_bytes(f) = BytesOfValue(Read(k), f.value)
               /\ Says(f) = <<f.value>> /\ Then(Read(k), f.value) = <<>>
    <3>1. f.value \in Values(Read(k))
      BY <1>1, <2>1, <2>2 DEF Field_with_room, Values
    <3>2. to_bytes(f) = BytesOfValue(Read(k), f.value)
      BY <1>1, <2>1 DEF to_bytes, BytesOfValue
    <3>3. Says(f) = <<f.value>> /\ Then(Read(k), f.value) = <<>>
      BY <1>1, <2>1 DEF Says, Then
    <3>. QED
      BY <3>1, <3>2, <3>3
  <2>3. <<>> \in Seq(Items)
    BY EmptySeq
  <2>4. Parses(<<Read(k)>>, <<f>> \o <<>>)
    BY <2>1, <2>2, <2>3, ParsesNone, ParsesValue
  <2>5. <<f>> \o <<>> = <<f>>
    <3>1. <<f>> \in Seq(AnyField)
      OBVIOUS
    <3>. QED
      BY <3>1, ConcatEmptySeq
  <2>. QED
    BY <2>4, <2>5
<1>2. /\ \A v \in Byte : U8(v) \in AnyField /\ U8(v).kind = "u8"
      /\ \A v \in Uint16 : U16(v) \in AnyField /\ U16(v).kind = "u16"
      /\ \A v \in Nat : U32(v) \in AnyField /\ U32(v).kind = "u32"
  BY DEF AnyField, U8, U16, U32, Field
<1>. QED
  BY <1>1, <1>2

\* Strings.
LEMMA ParsesString ==
    ASSUME NEW s \in Seq(Byte)
    PROVE  Parses(<<Read("string")>>, <<Str(s)>>)
<1>1. PICK f \in AnyField : f = Str(s)
  BY DEF AnyField, Str, Field
<1>2. f.kind = "string" /\ f.value = s
  BY <1>1 DEF Str, Field
<1>3. PICK item \in Items : item = Read("string")
  BY DEF Items, FieldRead, Read
<1>4. item.kind = "string" /\ item.kind \in ValueKinds
  BY <1>3 DEF Read, ValueKinds
<1>5. ASSUME <<f>> \in Seq(Field_with_room)
      PROVE  <<<<item>>, BytesOf(<<f>>), GivenBy(<<f>>)>> \in Language
  <2>1. f \in Field_with_room
    BY <1>5
  <2>2. Len(s) \in Nat /\ Len(s) < Base
    BY <1>2, <2>1, LenProperties DEF Field_with_room
  <2>3. PICK n \in Byte : n = Len(s) /\ n % Base = n
    BY <2>2, TypesOfNumbers, OneDigit
  <2>4. BytesOf(<<f>>) = <<n>> \o s /\ GivenBy(<<f>>) = <<n>> \o s
    BY <1>2, <2>1, <2>3, OneField DEF to_bytes, Says, string_to_bytes
  <2>5. n \in Values(item) /\ BytesOfValue(item, n) = <<n>>
    BY <1>4 DEF Values, BytesOfValue
  <2>6. <<>> \in Seq(Items) /\ <<item>> \in Seq(Items) /\ <<item>> \o <<>> = <<item>>
    <3>1. <<>> \in Seq(Items) /\ <<item>> \in Seq(Items)
      BY EmptySeq
    <3>. QED
      BY <3>1, ConcatEmptySeq
  <2>7. <<Then(item, n) \o <<>>, s, s>> \in Language
    <3>1. CASE n = 0
      <4>1. s = <<>>
        BY <2>3, <3>1, EmptySeq
      <4>2. Then(item, n) = <<>>
        BY <1>4, <3>1 DEF Then
      <4>3. <<>> \o <<>> = <<>>
        BY <2>6, ConcatEmptySeq
      <4>. QED
        BY <4>1, <4>2, <4>3, AddNothing
    <3>2. CASE n # 0
      <4>0. [kind |-> "characters", length |-> n] \in Items
        BY <2>2, <2>3 DEF Items
      <4>1. PICK chars \in Items : chars = [kind |-> "characters", length |-> n]
        BY <4>0
      <4>2. n > 0
        BY <2>2, <2>3, <3>2
      <4>3. Then(item, n) = <<chars>>
        BY <1>4, <4>1, <4>2 DEF Then
      <4>4. chars.kind = "characters" /\ chars.length = Len(s)
        BY <2>3, <4>1
      <4>5. <<<<chars>> \o <<>>, s \o <<>>, s \o <<>>>> \in Language
        BY <4>4, AddNothing, AddCharacters
      <4>6. s \o <<>> = s
        BY ConcatEmptySeq
      <4>. QED
        BY <4>3, <4>5, <4>6
    <3>. QED
      BY <3>1, <3>2
  <2>8. <<<<item>> \o <<>>, BytesOfValue(item, n) \o s, <<n>> \o s>> \in Language
    BY <1>4, <2>5, <2>6, <2>7, AddValue
  <2>. QED
    BY <2>4, <2>5, <2>6, <2>8
<1>6. <<item>> \in Seq(Items) /\ <<f>> \in Seq(AnyField)
  OBVIOUS
<1>. QED
  BY <1>1, <1>3, <1>5, <1>6 DEF Parses

\* A message, and an event, is its code and then what is read for that code.
LEMMA ParsesCode ==
    /\ \A c \in 0 .. 4 : \A fs : Parses(read_message[c + 1], fs)
                                => Parses(<<Read("message")>>, <<U8(c)>> \o fs)
    /\ \A c \in 0 .. 3 : \A fs : Parses(read_event[c + 1], fs)
                                => Parses(<<Read("event")>>, <<U8(c)>> \o fs)
<1>1. \A k \in {"message", "event"} : Read(k) \in Items /\ Read(k).kind = k /\ k \in ValueKinds
  BY DEF Read, Items, FieldRead, ValueKinds
<1>2. \A c \in 0 .. 4 : /\ U8(c) \in AnyField /\ U8(c).value = c /\ to_bytes(U8(c)) = <<c>>
                        /\ Says(U8(c)) = <<c>>
  BY Powers DEF AnyField, U8, Field, to_bytes, Says
<1>3. ASSUME NEW c \in 0 .. 4, NEW fs, Parses(read_message[c + 1], fs)
      PROVE  Parses(<<Read("message")>>, <<U8(c)>> \o fs)
  <2>1. /\ c \in Values(Read("message")) /\ BytesOfValue(Read("message"), c) = <<c>>
        /\ Then(Read("message"), c) = read_message[c + 1]
    BY <1>1 DEF Values, BytesOfValue, Then
  <2>. QED
    BY <1>1, <1>2, <1>3, <2>1, Readers, ParsesValue
<1>4. ASSUME NEW c \in 0 .. 3, NEW fs, Parses(read_event[c + 1], fs)
      PROVE  Parses(<<Read("event")>>, <<U8(c)>> \o fs)
  <2>1. /\ c \in Values(Read("event")) /\ BytesOfValue(Read("event"), c) = <<c>>
        /\ Then(Read("event"), c) = read_event[c + 1]
    BY <1>1 DEF Values, BytesOfValue, Then
  <2>2. c \in 0 .. 4
    OBVIOUS
  <2>. QED
    BY <1>1, <1>2, <1>4, <2>1, <2>2, Readers, ParsesValue
<1>. QED
  BY <1>3, <1>4

\* A sequence of sequences of fields, each of which the body reads.
EachParses(body, es) == \A k \in 1 .. Len(es) : Parses(body, es[k])

\* A loop that is entered once for each of them reads them all.
LEMMA ParsesLoop ==
    ASSUME NEW body \in Body, NEW es \in Seq(Seq(AnyField)), EachParses(body, es)
    PROVE  Parses(<<Loop(body, Len(es))>>, FlattenSeq(es))
<1>. DEFINE T == {n \in Nat : \A s \in Seq(Seq(AnyField)) :
                    Len(s) = n /\ EachParses(body, s) => Parses(<<Loop(body, n)>>, FlattenSeq(s))}
<1>1. \A n \in Nat : <<Loop(body, n)>> \in Seq(Items) /\ Loop(body, n) \in Items
  BY ItemTypes
<1>2. \A n \in Nat : Loop(body, n).kind = "loop" /\ Loop(body, n).body = body /\ Loop(body, n).times = n
  BY DEF Loop
\* A loop whose head has put t in its place.
<1>3. ASSUME NEW n \in Nat, NEW t, Again(Loop(body, n)) = t, NEW fs, Parses(t, fs)
      PROVE  Parses(<<Loop(body, n)>>, fs)
  <2>1. t \in Seq(Items) /\ fs \in Seq(AnyField)
    BY <1>3 DEF Parses
  <2>2. <<>> \in Seq(Items) /\ t \o <<>> = t /\ <<Loop(body, n)>> \o <<>> = <<Loop(body, n)>>
    BY <1>1, <2>1, EmptySeq, ConcatEmptySeq
  <2>3. ASSUME fs \in Seq(Field_with_room)
        PROVE  <<<<Loop(body, n)>>, BytesOf(fs), GivenBy(fs)>> \in Language
    <3>1. <<t \o <<>>, BytesOf(fs), GivenBy(fs)>> \in Language
      BY <1>3, <2>2, <2>3 DEF Parses
    <3>2. PICK item \in Items : item = Loop(body, n) /\ item.kind = "loop" /\ Again(item) = t
      BY <1>1, <1>2, <1>3
    <3>3. <<<<item>> \o <<>>, BytesOf(fs), GivenBy(fs)>> \in Language
      BY <2>2, <3>1, <3>2, AddLoop
    <3>. QED
      BY <2>2, <3>2, <3>3
  <2>. QED
    BY <1>1, <2>1, <2>3 DEF Parses
<1>4. 0 \in T
  <2>1. ASSUME NEW s \in Seq(Seq(AnyField)), Len(s) = 0
        PROVE  Parses(<<Loop(body, 0)>>, FlattenSeq(s))
    <3>1. FlattenSeq(s) = <<>>
      <4>1. s = <<>>
        BY <2>1, EmptySeq
      <4>. QED
        BY <4>1, FlattenEmpty
    <3>2. Again(Loop(body, 0)) = <<>>
      BY <1>2 DEF Again
    <3>. QED
      BY <1>3, <3>1, <3>2, ParsesNone
  <2>. QED
    BY <2>1
<1>5. ASSUME NEW n \in T PROVE n + 1 \in T
  <2>1. ASSUME NEW s \in Seq(Seq(AnyField)), Len(s) = n + 1, EachParses(body, s)
        PROVE  Parses(<<Loop(body, n + 1)>>, FlattenSeq(s))
    <3>1. s # <<>> /\ n \in Nat
      BY <2>1, EmptySeq
    <3>2. PICK x \in Seq(AnyField), u \in Seq(Seq(AnyField)) :
            x = Head(s) /\ u = Tail(s) /\ s = <<x>> \o u
      BY <3>1, HeadAndTail
    <3>3. x = s[1] /\ Len(u) = n /\ \A k \in 1 .. n : u[k] = s[k + 1]
      BY <2>1, <3>1, <3>2, HeadTailProperties
    <3>4. Parses(body, x) /\ EachParses(body, u)
      <4>1. 1 \in 1 .. n + 1 /\ \A k \in 1 .. n : k + 1 \in 1 .. n + 1
        BY <3>1
      <4>. QED
        BY <2>1, <3>3, <4>1 DEF EachParses
    <3>5. Parses(<<Loop(body, n)>>, FlattenSeq(u))
      BY <3>3, <3>4
    <3>6. Parses(body \o <<Loop(body, n)>>, x \o FlattenSeq(u))
      BY <3>4, <3>5, ParsesBoth
    <3>7. FlattenSeq(s) = x \o FlattenSeq(u)
      <4>1. <<x>> \in Seq(Seq(AnyField))
        OBVIOUS
      <4>2. FlattenSeq(<<x>> \o u) = FlattenSeq(<<x>>) \o FlattenSeq(u)
        BY <4>1, FlattenConcat
      <4>. QED
        BY <3>2, <4>2, FlattenOne
    <3>8. Again(Loop(body, n + 1)) = body \o <<Loop(body, n)>>
      <4>1. n + 1 \in Nat /\ n + 1 # 0 /\ (n + 1) - 1 = n
        BY <3>1
      <4>. QED
        BY <1>2, <4>1 DEF Again
    <3>9. n + 1 \in Nat
      BY <3>1
    <3>. QED
      BY <1>3, <3>6, <3>7, <3>8, <3>9
  <2>2. n + 1 \in Nat
    OBVIOUS
  <2>. QED
    BY <2>1, <2>2
<1>6. T = Nat
  <2>1. T \in SUBSET Nat
    OBVIOUS
  <2>. HIDE DEF T
  <2>. QED
    BY <1>4, <1>5, <2>1, AllNumbers
<1>7. Len(es) \in T
  <2>. HIDE DEF T
  <2>. QED
    BY <1>6, LenProperties
<1>. QED
  BY <1>7

\* A list is the number of its entries and then the entries.
LEMMA ParsesList ==
    ASSUME NEW body \in Body, NEW es \in Seq(Seq(AnyField)), EachParses(body, es)
    PROVE  Parses(<<ReadList(body)>>, <<U32(Len(es))>> \o FlattenSeq(es))
<1>1. PICK n \in Nat : n = Len(es)
  BY LenProperties
<1>2. Parses(<<Loop(body, n)>>, FlattenSeq(es)) /\ <<Loop(body, n)>> \in Seq(Items)
  BY <1>1, ParsesLoop, ItemTypes
<1>3. PICK f \in AnyField : f = U32(n)
  BY DEF AnyField, U32, Field
<1>4. f.kind = "u32" /\ f.value = n
  BY <1>3 DEF U32, Field
<1>5. PICK item \in Items : item = ReadList(body)
  BY ItemTypes
<1>6. item.kind = "list" /\ item.body = body /\ item.kind \in ValueKinds
  BY <1>5 DEF ReadList, ValueKinds
<1>7. ASSUME f \in Field_with_room
      PROVE  /\ f.value \in Values(item) /\ to_bytes(f) = BytesOfValue(item, f.value)
             /\ Says(f) = <<f.value>> /\ Then(item, f.value) = <<Loop(body, n)>>
  <2>1. n \in Uint32
    BY <1>4, <1>7 DEF Field_with_room
  <2>2. f.value \in Values(item) /\ to_bytes(f) = BytesOfValue(item, f.value)
    BY <1>4, <1>6, <2>1 DEF Values, to_bytes, BytesOfValue
  <2>3. Says(f) = <<f.value>> /\ Then(item, f.value) = <<Loop(body, n)>>
    BY <1>4, <1>6 DEF Says, Then
  <2>. QED
    BY <2>2, <2>3
<1>8. Parses(<<item>>, <<f>> \o FlattenSeq(es))
  BY <1>2, <1>6, <1>7, ParsesValue
<1>. QED
  BY <1>1, <1>3, <1>5, <1>8

\* Members one after the other.
LEMMA Pair == \A a, b : <<a>> \o <<b>> = <<a, b>>
<1>. SUFFICES ASSUME NEW a, NEW b PROVE <<a>> \o <<b>> = <<a, b>>
  OBVIOUS
<1>1. <<a>> \in Seq({a, b}) /\ <<b>> \in Seq({a, b}) /\ <<a, b>> \in Seq({a, b})
  OBVIOUS
<1>2. PICK u, s, t : u = <<a, b>> /\ s = <<a>> /\ t = <<b>>
  OBVIOUS
<1>3. Len(u) = 2 /\ Len(s) = 1 /\ Len(t) = 1 /\ u[1] = s[1] /\ u[2] = t[1]
  BY <1>2
<1>4. IsJoin(u, s, t)
  <2>1. ASSUME NEW k \in 1 .. 1 PROVE u[k] = s[k] /\ u[1 + k] = t[k]
    <3>1. k = 1 /\ 1 + k = 2
      OBVIOUS
    <3>. QED
      BY <1>3, <3>1
  <2>. QED
    BY <1>3, <2>1 DEF IsJoin
<1>. QED
  BY <1>1, <1>2, <1>4, Joined

\* The first of three members before the others.
LEMMA Three == \A a, b, c : <<a, b, c>> = <<a>> \o <<b, c>>
<1>. SUFFICES ASSUME NEW a, NEW b, NEW c
              PROVE  <<a, b, c>> = <<a>> \o <<b, c>>
  OBVIOUS
<1>. DEFINE S == {a, b, c}
<1>1. <<a>> \in Seq(S) /\ <<b, c>> \in Seq(S) /\ <<a, b, c>> \in Seq(S)
  OBVIOUS
<1>2. IsJoin(<<a, b, c>>, <<a>>, <<b, c>>)
  BY DEF IsJoin
<1>. QED
  BY <1>1, <1>2, Joined

\* The first of four members before the others.
LEMMA Four == \A a, b, c, d : <<a, b, c, d>> = <<a>> \o <<b, c, d>>
<1>. SUFFICES ASSUME NEW a, NEW b, NEW c, NEW d
              PROVE  <<a, b, c, d>> = <<a>> \o <<b, c, d>>
  OBVIOUS
<1>. DEFINE S == {a, b, c, d}
<1>1. <<a>> \in Seq(S) /\ <<b, c, d>> \in Seq(S) /\ <<a, b, c, d>> \in Seq(S)
  OBVIOUS
<1>2. IsJoin(<<a, b, c, d>>, <<a>>, <<b, c, d>>)
  BY DEF IsJoin
<1>. QED
  BY <1>1, <1>2, Joined

\* The first of five members before the others.
LEMMA Five == \A a, b, c, d, e : <<a, b, c, d, e>> = <<a>> \o <<b, c, d, e>>
<1>. SUFFICES ASSUME NEW a, NEW b, NEW c, NEW d, NEW e
              PROVE  <<a, b, c, d, e>> = <<a>> \o <<b, c, d, e>>
  OBVIOUS
<1>. DEFINE S == {a, b, c, d, e}
<1>1. <<a>> \in Seq(S) /\ <<b, c, d, e>> \in Seq(S) /\ <<a, b, c, d, e>> \in Seq(S)
  OBVIOUS
<1>2. IsJoin(<<a, b, c, d, e>>, <<a>>, <<b, c, d, e>>)
  BY DEF IsJoin
<1>. QED
  BY <1>1, <1>2, Joined

\* The first of six members before the others.
LEMMA Six == \A a, b, c, d, e, f : <<a, b, c, d, e, f>> = <<a>> \o <<b, c, d, e, f>>
<1>. SUFFICES ASSUME NEW a, NEW b, NEW c, NEW d, NEW e, NEW f
              PROVE  <<a, b, c, d, e, f>> = <<a>> \o <<b, c, d, e, f>>
  OBVIOUS
<1>. DEFINE S == {a, b, c, d, e, f}
<1>1. <<a>> \in Seq(S) /\ <<b, c, d, e, f>> \in Seq(S) /\ <<a, b, c, d, e, f>> \in Seq(S)
  OBVIOUS
<1>2. IsJoin(<<a, b, c, d, e, f>>, <<a>>, <<b, c, d, e, f>>)
  BY DEF IsJoin
<1>. QED
  BY <1>1, <1>2, Joined

\* The first of seven members before the others.
LEMMA Seven == \A a, b, c, d, e, f, g : <<a, b, c, d, e, f, g>> = <<a>> \o <<b, c, d, e, f, g>>
<1>. SUFFICES ASSUME NEW a, NEW b, NEW c, NEW d, NEW e, NEW f, NEW g
              PROVE  <<a, b, c, d, e, f, g>> = <<a>> \o <<b, c, d, e, f, g>>
  OBVIOUS
<1>. DEFINE S == {a, b, c, d, e, f, g}
<1>1. <<a>> \in Seq(S) /\ <<b, c, d, e, f, g>> \in Seq(S) /\ <<a, b, c, d, e, f, g>> \in Seq(S)
  OBVIOUS
<1>2. IsJoin(<<a, b, c, d, e, f, g>>, <<a>>, <<b, c, d, e, f, g>>)
  BY DEF IsJoin
<1>. QED
  BY <1>1, <1>2, Joined

\* The first of eight members before the others.
LEMMA Eight == \A a, b, c, d, e, f, g, h : <<a, b, c, d, e, f, g, h>> = <<a>> \o <<b, c, d, e, f, g, h>>
<1>. SUFFICES ASSUME NEW a, NEW b, NEW c, NEW d, NEW e, NEW f, NEW g, NEW h
              PROVE  <<a, b, c, d, e, f, g, h>> = <<a>> \o <<b, c, d, e, f, g, h>>
  OBVIOUS
<1>. DEFINE S == {a, b, c, d, e, f, g, h}
<1>1. <<a>> \in Seq(S) /\ <<b, c, d, e, f, g, h>> \in Seq(S) /\ <<a, b, c, d, e, f, g, h>> \in Seq(S)
  OBVIOUS
<1>2. IsJoin(<<a, b, c, d, e, f, g, h>>, <<a>>, <<b, c, d, e, f, g, h>>)
  BY DEF IsJoin
<1>. QED
  BY <1>1, <1>2, Joined

\* The same for the list of what a builder makes of the members of s.
LEMMA ParsesListOf ==
    ASSUME NEW body \in Body, NEW E, NEW s \in Seq(E), NEW es,
           es = [k \in DOMAIN s |-> es[k]],
           \A k \in 1 .. Len(s) : Parses(body, es[k])
    PROVE  Parses(<<ReadList(body)>>, <<U32(Len(s))>> \o FlattenSeq(es))
<1>1. Len(s) \in Nat /\ DOMAIN s = 1 .. Len(s)
  BY LenProperties
<1>2. \A k \in 1 .. Len(s) : es[k] \in Seq(AnyField)
  BY DEF Parses
<1>3. es \in Seq(Seq(AnyField)) /\ Len(es) = Len(s)
  <2>1. [k \in 1 .. Len(s) |-> es[k]] \in Seq(Seq(AnyField))
    BY <1>1, <1>2
  <2>2. es = [k \in 1 .. Len(s) |-> es[k]]
    BY <1>1
  <2>3. Len([k \in 1 .. Len(s) |-> es[k]]) = Len(s)
    BY <1>1
  <2>. QED
    BY <2>1, <2>2, <2>3, Zenon
<1>4. EachParses(body, es)
  BY <1>3 DEF EachParses
<1>. QED
  BY <1>3, <1>4, ParsesList

\* Players and positions.
LEMMA ParsesParts ==
    /\ \A p \in Player : Parses(read_player, player_to_bytes(p))
    /\ \A p \in Position : Parses(read_position, position_to_bytes(p))
<1>1. ASSUME NEW p \in Player PROVE Parses(read_player, player_to_bytes(p))
  <2>1. p.name \in Seq(Byte) /\ p.address \in Seq(Byte)
    BY DEF Player
  <2>2. Parses(<<Read("string")>>, <<Str(p.name)>>) /\ Parses(<<Read("string")>>, <<Str(p.address)>>)
    BY <2>1, ParsesString
  <2>3. Parses(<<Read("string")>> \o <<Read("string")>>, <<Str(p.name)>> \o <<Str(p.address)>>)
    BY <2>2, ParsesBoth
  <2>4. <<Read("string")>> \o <<Read("string")>> = read_player
    BY Pair DEF read_player
  <2>5. <<Str(p.name)>> \o <<Str(p.address)>> = player_to_bytes(p)
    BY Pair DEF player_to_bytes
  <2>. QED
    BY <2>3, <2>4, <2>5
<1>2. ASSUME NEW p \in Position PROVE Parses(read_position, position_to_bytes(p))
  <2>1. p.x \in Uint16 /\ p.y \in Uint16
    BY DEF Position
  <2>2. Parses(<<Read("u16")>>, <<U16(p.x)>>) /\ Parses(<<Read("u16")>>, <<U16(p.y)>>)
    BY <2>1, ParsesNumbers
  <2>3. Parses(<<Read("u16")>> \o <<Read("u16")>>, <<U16(p.x)>> \o <<U16(p.y)>>)
    BY <2>2, ParsesBoth
  <2>4. <<Read("u16")>> \o <<Read("u16")>> = read_position
    BY Pair DEF read_position
  <2>5. <<U16(p.x)>> \o <<U16(p.y)>> = position_to_bytes(p)
    BY Pair DEF position_to_bytes
  <2>. QED
    BY <2>3, <2>4, <2>5
<1>. QED
  BY <1>1, <1>2

\* The maps and the lists of the messages and the events.
LEMMA ParsesLists ==
    /\ \A m \in Seq([id : Byte, player : Player]) : Parses(read_players_map, player_map_to_bytes(m))
    /\ \A m \in Seq([id : Byte, score : Uint32]) : Parses(read_scores_map, score_map_to_bytes(m))
    /\ \A s \in Seq(Byte) : Parses(read_player_id_list, uint8_list_to_bytes(s))
    /\ \A s \in Seq(Position) : Parses(read_position_list, position_list_to_bytes(s))
<1>1. ASSUME NEW m \in Seq([id : Byte, player : Player])
      PROVE  Parses(read_players_map, player_map_to_bytes(m))
  <2>1. PICK es : es = [k \in DOMAIN m |-> <<U8(m[k].id)>> \o player_to_bytes(m[k].player)]
    OBVIOUS
  <2>2. ASSUME NEW k \in 1 .. Len(m) PROVE Parses(<<Read("u8")>> \o read_player, es[k])
    <3>0. k \in DOMAIN m /\ m[k] \in [id : Byte, player : Player]
      BY ElementOfSeq, LenProperties
    <3>1. m[k].id \in Byte /\ m[k].player \in Player /\ k \in DOMAIN m
      BY <3>0
    <3>2. Parses(<<Read("u8")>>, <<U8(m[k].id)>>) /\ Parses(read_player, player_to_bytes(m[k].player))
      BY <3>1, ParsesNumbers, ParsesParts
    <3>3. Parses(<<Read("u8")>> \o read_player, <<U8(m[k].id)>> \o player_to_bytes(m[k].player))
      BY <3>2, ParsesBoth
    <3>. QED
      BY <2>1, <3>1, <3>3
  <2>3. es = [k \in DOMAIN m |-> es[k]]
    BY <2>1
  <2>4. Parses(<<ReadList(<<Read("u8")>> \o read_player)>>, <<U32(Len(m))>> \o FlattenSeq(es))
    BY <2>2, <2>3, Readers, ParsesListOf
  <2>. QED
    BY <2>1, <2>4 DEF read_players_map, player_map_to_bytes, List, Each
<1>2. ASSUME NEW m \in Seq([id : Byte, score : Uint32])
      PROVE  Parses(read_scores_map, score_map_to_bytes(m))
  <2>1. PICK es : es = [k \in DOMAIN m |-> <<U8(m[k].id), U32(m[k].score)>>]
    OBVIOUS
  <2>2. ASSUME NEW k \in 1 .. Len(m) PROVE Parses(<<Read("u8"), Read("u32")>>, es[k])
    <3>0. k \in DOMAIN m /\ m[k] \in [id : Byte, score : Uint32]
      BY ElementOfSeq, LenProperties
    <3>1. m[k].id \in Byte /\ m[k].score \in Nat /\ k \in DOMAIN m
      BY <3>0, TypesOfNumbers
    <3>2. Parses(<<Read("u8")>>, <<U8(m[k].id)>>) /\ Parses(<<Read("u32")>>, <<U32(m[k].score)>>)
      BY <3>1, ParsesNumbers
    <3>3. Parses(<<Read("u8")>> \o <<Read("u32")>>, <<U8(m[k].id)>> \o <<U32(m[k].score)>>)
      BY <3>2, ParsesBoth
    <3>4. <<Read("u8")>> \o <<Read("u32")>> = <<Read("u8"), Read("u32")>>
      BY Pair
    <3>5. <<U8(m[k].id)>> \o <<U32(m[k].score)>> = <<U8(m[k].id), U32(m[k].score)>>
      BY Pair
    <3>. QED
      BY <2>1, <3>1, <3>3, <3>4, <3>5
  <2>3. es = [k \in DOMAIN m |-> es[k]]
    BY <2>1
  <2>4. Parses(<<ReadList(<<Read("u8"), Read("u32")>>)>>, <<U32(Len(m))>> \o FlattenSeq(es))
    BY <2>2, <2>3, Readers, ParsesListOf
  <2>. QED
    BY <2>1, <2>4 DEF read_scores_map, score_map_to_bytes, List, Each
<1>3. ASSUME NEW s \in Seq(Byte) PROVE Parses(read_player_id_list, uint8_list_to_bytes(s))
  <2>1. PICK es : es = [k \in DOMAIN s |-> <<U8(s[k])>>]
    OBVIOUS
  <2>2. ASSUME NEW k \in 1 .. Len(s) PROVE Parses(<<Read("u8")>>, es[k])
    <3>1. s[k] \in Byte /\ k \in DOMAIN s
      BY ElementOfSeq, LenProperties
    <3>. QED
      BY <2>1, <3>1, ParsesNumbers
  <2>3. es = [k \in DOMAIN s |-> es[k]]
    BY <2>1
  <2>4. Parses(<<ReadList(<<Read("u8")>>)>>, <<U32(Len(s))>> \o FlattenSeq(es))
    BY <2>2, <2>3, Readers, ParsesListOf
  <2>. QED
    BY <2>1, <2>4 DEF read_player_id_list, uint8_list_to_bytes, List, Each
<1>4. ASSUME NEW s \in Seq(Position) PROVE Parses(read_position_list, position_list_to_bytes(s))
  <2>1. PICK es : es = [k \in DOMAIN s |-> position_to_bytes(s[k])]
    OBVIOUS
  <2>2. ASSUME NEW k \in 1 .. Len(s) PROVE Parses(read_position, es[k])
    <3>1. s[k] \in Position /\ k \in DOMAIN s
      BY ElementOfSeq, LenProperties
    <3>. QED
      BY <2>1, <3>1, ParsesParts
  <2>3. es = [k \in DOMAIN s |-> es[k]]
    BY <2>1
  <2>4. Parses(<<ReadList(read_position)>>, <<U32(Len(s))>> \o FlattenSeq(es))
    BY <2>2, <2>3, Readers, ParsesListOf
  <2>. QED
    BY <2>1, <2>4 DEF read_position_list, position_list_to_bytes, List, Each
<1>. QED
  BY <1>1, <1>2, <1>3, <1>4

\* The fields are of their type.
LEMMA FieldsOfNumbers ==
    /\ \A v \in Byte : U8(v) \in AnyField
    /\ \A v \in Uint16 : U16(v) \in AnyField
    /\ \A v \in Nat : U32(v) \in AnyField
BY DEF AnyField, U8, U16, U32, Field

\* A code, a field and more fields.
IsCodeFirst(a, b, fs) == <<a, b>> \o fs = <<a>> \o (<<b>> \o fs)

\* The code may be taken off.
LEMMA CodeFirst ==
    \A a, b, fs : a \in AnyField /\ b \in AnyField /\ fs \in Seq(AnyField) => IsCodeFirst(a, b, fs)
<1>. SUFFICES ASSUME NEW a \in AnyField, NEW b \in AnyField, NEW fs \in Seq(AnyField)
              PROVE  IsCodeFirst(a, b, fs)
  OBVIOUS
<1>1. <<a>> \in Seq(AnyField) /\ <<b>> \in Seq(AnyField)
  OBVIOUS
<1>2. Associates(<<a>>, <<b>>, fs)
  BY <1>1, Associative
<1>. QED
  BY <1>2, Pair DEF Associates, IsCodeFirst

\* An event.
LEMMA ParsesEvent == \A e \in Event : Parses(<<Read("event")>>, Event_to_bytes(e))
<1>0. \A v \in 0 .. 3 : v \in Byte
  BY Powers
<1>1. ASSUME NEW e \in [code : {"Bomb_placed"}, id : Uint32, position : Position]
      PROVE  Parses(<<Read("event")>>, Event_to_bytes(e))
  <2>1. e.code = "Bomb_placed" /\ e.id \in Nat /\ e.position \in Position
    BY TypesOfNumbers
  <2>2. Parses(<<Read("u32")>>, <<U32(e.id)>>) /\ Parses(read_position, position_to_bytes(e.position))
    BY <2>1, ParsesNumbers, ParsesParts
  <2>3. Parses(<<Read("u32")>> \o read_position, <<U32(e.id)>> \o position_to_bytes(e.position))
    BY <2>2, ParsesBoth
  <2>4. read_event[0 + 1] = <<Read("u32")>> \o read_position
    BY DEF read_event
  <2>5. Parses(<<Read("event")>>, <<U8(0)>> \o (<<U32(e.id)>> \o position_to_bytes(e.position)))
    <3>1. 0 \in 0 .. 3
      OBVIOUS
    <3>. QED
      BY <2>3, <2>4, <3>1, ParsesCode
  <2>6. Event_to_bytes(e) = <<U8(0), U32(e.id)>> \o position_to_bytes(e.position)
    BY <2>1 DEF Event_to_bytes
  <2>7. U8(0) \in AnyField /\ U32(e.id) \in AnyField /\ position_to_bytes(e.position) \in Seq(AnyField)
    BY <1>0, <2>1, <2>2, FieldsOfNumbers DEF Parses
  <2>8. IsCodeFirst(U8(0), U32(e.id), position_to_bytes(e.position))
    BY <2>7, CodeFirst
  <2>. QED
    BY <2>5, <2>6, <2>8 DEF IsCodeFirst
<1>2. ASSUME NEW e \in [code : {"Bomb_exploded"}, id : Uint32,
                        robots_destroyed : Seq(Byte), blocks_destroyed : Seq(Position)]
      PROVE  Parses(<<Read("event")>>, Event_to_bytes(e))
  <2>1. /\ e.code = "Bomb_exploded" /\ e.id \in Nat /\ e.robots_destroyed \in Seq(Byte)
        /\ e.blocks_destroyed \in Seq(Position)
    BY TypesOfNumbers
  <2>2. PICK rs : rs = uint8_list_to_bytes(e.robots_destroyed)
    OBVIOUS
  <2>3. PICK bs : bs = position_list_to_bytes(e.blocks_destroyed)
    OBVIOUS
  <2>4. /\ Parses(<<Read("u32")>>, <<U32(e.id)>>) /\ Parses(read_player_id_list, rs)
        /\ Parses(read_position_list, bs)
    BY <2>1, <2>2, <2>3, ParsesNumbers, ParsesLists
  <2>5. Parses(<<Read("u32")>> \o read_player_id_list, <<U32(e.id)>> \o rs)
    BY <2>4, ParsesBoth
  <2>6. Parses((<<Read("u32")>> \o read_player_id_list) \o read_position_list, (<<U32(e.id)>> \o rs) \o bs)
    BY <2>4, <2>5, ParsesBoth
  <2>7. read_event[1 + 1] = (<<Read("u32")>> \o read_player_id_list) \o read_position_list
    BY DEF read_event
  <2>8. Parses(<<Read("event")>>, <<U8(1)>> \o ((<<U32(e.id)>> \o rs) \o bs))
    <3>1. 1 \in 0 .. 3
      OBVIOUS
    <3>. QED
      BY <2>6, <2>7, <3>1, ParsesCode
  <2>9. Event_to_bytes(e) = (<<U8(1), U32(e.id)>> \o rs) \o bs
    BY <2>1, <2>2, <2>3 DEF Event_to_bytes
  <2>10. /\ U8(1) \in AnyField /\ U32(e.id) \in AnyField /\ rs \in Seq(AnyField)
         /\ bs \in Seq(AnyField) /\ <<U32(e.id)>> \o rs \in Seq(AnyField)
    BY <1>0, <2>1, <2>4, <2>5, FieldsOfNumbers DEF Parses
  <2>11. IsCodeFirst(U8(1), U32(e.id), rs)
    BY <2>10, CodeFirst
  <2>12. Associates(<<U8(1)>>, <<U32(e.id)>> \o rs, bs)
    <3>1. <<U8(1)>> \in Seq(AnyField)
      BY <2>10
    <3>. QED
      BY <2>10, <3>1, Associative
  <2>. QED
    BY <2>8, <2>9, <2>11, <2>12 DEF Associates, IsCodeFirst
<1>3. ASSUME NEW e \in [code : {"Player_moved"}, id : Byte, position : Position]
      PROVE  Parses(<<Read("event")>>, Event_to_bytes(e))
  <2>1. e.code = "Player_moved" /\ e.id \in Byte /\ e.position \in Position
    OBVIOUS
  <2>2. Parses(<<Read("u8")>>, <<U8(e.id)>>) /\ Parses(read_position, position_to_bytes(e.position))
    BY <2>1, ParsesNumbers, ParsesParts
  <2>3. Parses(<<Read("u8")>> \o read_position, <<U8(e.id)>> \o position_to_bytes(e.position))
    BY <2>2, ParsesBoth
  <2>4. read_event[2 + 1] = <<Read("u8")>> \o read_position
    BY DEF read_event
  <2>5. Parses(<<Read("event")>>, <<U8(2)>> \o (<<U8(e.id)>> \o position_to_bytes(e.position)))
    <3>1. 2 \in 0 .. 3
      OBVIOUS
    <3>. QED
      BY <2>3, <2>4, <3>1, ParsesCode
  <2>6. Event_to_bytes(e) = <<U8(2), U8(e.id)>> \o position_to_bytes(e.position)
    BY <2>1 DEF Event_to_bytes
  <2>7. U8(2) \in AnyField /\ U8(e.id) \in AnyField /\ position_to_bytes(e.position) \in Seq(AnyField)
    BY <1>0, <2>1, <2>2, FieldsOfNumbers DEF Parses
  <2>8. IsCodeFirst(U8(2), U8(e.id), position_to_bytes(e.position))
    BY <2>7, CodeFirst
  <2>. QED
    BY <2>5, <2>6, <2>8 DEF IsCodeFirst
<1>4. ASSUME NEW e \in [code : {"Block_placed"}, position : Position]
      PROVE  Parses(<<Read("event")>>, Event_to_bytes(e))
  <2>1. e.code = "Block_placed" /\ e.position \in Position
    OBVIOUS
  <2>2. Parses(read_position, position_to_bytes(e.position))
    BY <2>1, ParsesParts
  <2>3. read_event[3 + 1] = read_position
    BY DEF read_event
  <2>4. Parses(<<Read("event")>>, <<U8(3)>> \o position_to_bytes(e.position))
    <3>1. 3 \in 0 .. 3
      OBVIOUS
    <3>. QED
      BY <2>2, <2>3, <3>1, ParsesCode
  <2>5. Event_to_bytes(e) = <<U8(3)>> \o position_to_bytes(e.position)
    BY <2>1 DEF Event_to_bytes
  <2>. QED
    BY <2>4, <2>5
<1>. QED
  BY <1>1, <1>2, <1>3, <1>4 DEF Event

\* The list of the events of a turn.
LEMMA ParsesEvents == \A s \in Seq(Event) : Parses(read_event_list, List(Event_to_bytes, s))
<1>. TAKE s \in Seq(Event)
<1>1. PICK es : es = [k \in DOMAIN s |-> Event_to_bytes(s[k])]
  OBVIOUS
<1>2. ASSUME NEW k \in 1 .. Len(s) PROVE Parses(<<Read("event")>>, es[k])
  <2>1. s[k] \in Event /\ k \in DOMAIN s
    BY ElementOfSeq, LenProperties
  <2>. QED
    BY <1>1, <2>1, ParsesEvent
<1>3. es = [k \in DOMAIN s |-> es[k]]
  BY <1>1
<1>4. Parses(<<ReadList(<<Read("event")>>)>>, <<U32(Len(s))>> \o FlattenSeq(es))
  BY <1>2, <1>3, Readers, ParsesListOf
<1>. QED
  BY <1>1, <1>4 DEF read_event_list, List, Each

\* The members of a Hello.
LEMMA ParsesHello ==
    ASSUME NEW s \in Seq(Byte), NEW a \in Byte, NEW b \in Uint16, NEW c \in Uint16,
           NEW d \in Uint16, NEW e \in Uint16, NEW f \in Uint16
    PROVE  Parses(read_hello, <<Str(s), U8(a), U16(b), U16(c), U16(d), U16(e), U16(f)>>)
<1>1. /\ Parses(<<Read("string")>>, <<Str(s)>>) /\ Parses(<<Read("u8")>>, <<U8(a)>>)
      /\ Parses(<<Read("u16")>>, <<U16(b)>>) /\ Parses(<<Read("u16")>>, <<U16(c)>>)
      /\ Parses(<<Read("u16")>>, <<U16(d)>>) /\ Parses(<<Read("u16")>>, <<U16(e)>>)
      /\ Parses(<<Read("u16")>>, <<U16(f)>>)
  BY ParsesString, ParsesNumbers
<1>2. Parses(<<Read("u16"), Read("u16")>>,
             <<U16(e), U16(f)>>)
  <2>1. Parses(<<Read("u16")>> \o <<Read("u16")>>,
               <<U16(e)>> \o <<U16(f)>>)
    BY <1>1, ParsesBoth
  <2>2. <<Read("u16"), Read("u16")>> = <<Read("u16")>> \o <<Read("u16")>>
    BY Pair, Zenon
  <2>3. <<U16(e), U16(f)>> = <<U16(e)>> \o <<U16(f)>>
    BY Pair, Zenon
  <2>. QED
    BY <2>1, <2>2, <2>3, Zenon
<1>3. Parses(<<Read("u16"), Read("u16"), Read("u16")>>,
             <<U16(d), U16(e), U16(f)>>)
  <2>1. Parses(<<Read("u16")>> \o <<Read("u16"), Read("u16")>>,
               <<U16(d)>> \o <<U16(e), U16(f)>>)
    BY <1>1, <1>2, ParsesBoth
  <2>2. <<Read("u16"), Read("u16"), Read("u16")>>
         = <<Read("u16")>> \o <<Read("u16"), Read("u16")>>
    BY Three, Zenon
  <2>3. <<U16(d), U16(e), U16(f)>>
         = <<U16(d)>> \o <<U16(e), U16(f)>>
    BY Three, Zenon
  <2>. QED
    BY <2>1, <2>2, <2>3, Zenon
<1>4. Parses(<<Read("u16"), Read("u16"), Read("u16"), Read("u16")>>,
             <<U16(c), U16(d), U16(e), U16(f)>>)
  <2>1. Parses(<<Read("u16")>> \o <<Read("u16"), Read("u16"), Read("u16")>>,
               <<U16(c)>> \o <<U16(d), U16(e), U16(f)>>)
    BY <1>1, <1>3, ParsesBoth
  <2>2. <<Read("u16"), Read("u16"), Read("u16"), Read("u16")>>
         = <<Read("u16")>> \o <<Read("u16"), Read("u16"), Read("u16")>>
    BY Four, Zenon
  <2>3. <<U16(c), U16(d), U16(e), U16(f)>>
         = <<U16(c)>> \o <<U16(d), U16(e), U16(f)>>
    BY Four, Zenon
  <2>. QED
    BY <2>1, <2>2, <2>3, Zenon
<1>5. Parses(<<Read("u16"), Read("u16"), Read("u16"), Read("u16"), Read("u16")>>,
             <<U16(b), U16(c), U16(d), U16(e), U16(f)>>)
  <2>1. Parses(<<Read("u16")>> \o <<Read("u16"), Read("u16"), Read("u16"), Read("u16")>>,
               <<U16(b)>> \o <<U16(c), U16(d), U16(e), U16(f)>>)
    BY <1>1, <1>4, ParsesBoth
  <2>2. <<Read("u16"), Read("u16"), Read("u16"), Read("u16"), Read("u16")>>
         = <<Read("u16")>> \o <<Read("u16"), Read("u16"), Read("u16"), Read("u16")>>
    BY Five, Zenon
  <2>3. <<U16(b), U16(c), U16(d), U16(e), U16(f)>>
         = <<U16(b)>> \o <<U16(c), U16(d), U16(e), U16(f)>>
    BY Five, Zenon
  <2>. QED
    BY <2>1, <2>2, <2>3, Zenon
<1>6. Parses(<<Read("u8"), Read("u16"), Read("u16"), Read("u16"), Read("u16"), Read("u16")>>,
             <<U8(a), U16(b), U16(c), U16(d), U16(e), U16(f)>>)
  <2>1. Parses(<<Read("u8")>> \o <<Read("u16"), Read("u16"), Read("u16"), Read("u16"), Read("u16")>>,
               <<U8(a)>> \o <<U16(b), U16(c), U16(d), U16(e), U16(f)>>)
    BY <1>1, <1>5, ParsesBoth
  <2>2. <<Read("u8"), Read("u16"), Read("u16"), Read("u16"), Read("u16"), Read("u16")>>
         = <<Read("u8")>> \o <<Read("u16"), Read("u16"), Read("u16"), Read("u16"), Read("u16")>>
    BY Six, Zenon
  <2>3. <<U8(a), U16(b), U16(c), U16(d), U16(e), U16(f)>>
         = <<U8(a)>> \o <<U16(b), U16(c), U16(d), U16(e), U16(f)>>
    BY Six, Zenon
  <2>. QED
    BY <2>1, <2>2, <2>3, Zenon
<1>. QED
  <2>1. Parses(<<Read("string")>> \o <<Read("u8"), Read("u16"), Read("u16"), Read("u16"), Read("u16"), Read("u16")>>,
               <<Str(s)>> \o <<U8(a), U16(b), U16(c), U16(d), U16(e), U16(f)>>)
    BY <1>1, <1>6, ParsesBoth
  <2>2. <<Read("string"), Read("u8"), Read("u16"), Read("u16"), Read("u16"), Read("u16"), Read("u16")>>
         = <<Read("string")>> \o <<Read("u8"), Read("u16"), Read("u16"), Read("u16"), Read("u16"), Read("u16")>>
    BY Seven, Zenon
  <2>3. <<Str(s), U8(a), U16(b), U16(c), U16(d), U16(e), U16(f)>>
         = <<Str(s)>> \o <<U8(a), U16(b), U16(c), U16(d), U16(e), U16(f)>>
    BY Seven, Zenon
  <2>. QED
    BY <2>1, <2>2, <2>3, Zenon DEF read_hello

\* A message.
LEMMA ParsesMessage == \A m \in Message : Parses(<<Read("message")>>, Message_to_bytes(m))
<1>0. \A v \in 0 .. 4 : v \in Byte /\ U8(v) \in AnyField
  BY Powers, FieldsOfNumbers
<1>1. ASSUME NEW m \in [code : {"Hello"}, server_name : Seq(Byte), players_count : Byte,
                        size_x : Uint16, size_y : Uint16, game_length : Uint16,
                        explosion_radius : Uint16, bomb_timer : Uint16]
      PROVE  Parses(<<Read("message")>>, Message_to_bytes(m))
  <2>1. /\ m.code = "Hello" /\ m.server_name \in Seq(Byte) /\ m.players_count \in Byte
        /\ m.size_x \in Uint16 /\ m.size_y \in Uint16 /\ m.game_length \in Uint16
        /\ m.explosion_radius \in Uint16 /\ m.bomb_timer \in Uint16
    OBVIOUS
  <2>2. PICK fs : fs = <<Str(m.server_name), U8(m.players_count), U16(m.size_x), U16(m.size_y),
                         U16(m.game_length), U16(m.explosion_radius), U16(m.bomb_timer)>>
    OBVIOUS
  <2>3. Parses(read_hello, fs)
    BY <2>1, <2>2, ParsesHello
  <2>4. read_message[0 + 1] = read_hello
    BY DEF read_message
  <2>5. Parses(<<Read("message")>>, <<U8(0)>> \o fs)
    <3>1. 0 \in 0 .. 4
      OBVIOUS
    <3>. QED
      BY <2>3, <2>4, <3>1, ParsesCode
  <2>6. Message_to_bytes(m) = <<U8(0)>> \o fs
    <3>1. Message_to_bytes(m) =
            <<U8(0), Str(m.server_name), U8(m.players_count), U16(m.size_x), U16(m.size_y),
              U16(m.game_length), U16(m.explosion_radius), U16(m.bomb_timer)>>
      BY <2>1, Zenon DEF Message_to_bytes
    <3>2. <<U8(0), Str(m.server_name), U8(m.players_count), U16(m.size_x), U16(m.size_y),
            U16(m.game_length), U16(m.explosion_radius), U16(m.bomb_timer)>>
            = <<U8(0)>> \o <<Str(m.server_name), U8(m.players_count), U16(m.size_x), U16(m.size_y),
                            U16(m.game_length), U16(m.explosion_radius), U16(m.bomb_timer)>>
      BY Eight, SMTT(60)
    <3>. QED
      BY <2>2, <3>1, <3>2, Zenon
  <2>. QED
    BY <2>5, <2>6
<1>2. ASSUME NEW m \in [code : {"AcceptedPlayer"}, id : Byte, player : Player]
      PROVE  Parses(<<Read("message")>>, Message_to_bytes(m))
  <2>1. m.code = "AcceptedPlayer" /\ m.id \in Byte /\ m.player \in Player
    OBVIOUS
  <2>2. Parses(<<Read("u8")>>, <<U8(m.id)>>) /\ Parses(read_player, player_to_bytes(m.player))
    BY <2>1, ParsesNumbers, ParsesParts
  <2>3. Parses(<<Read("u8")>> \o read_player, <<U8(m.id)>> \o player_to_bytes(m.player))
    BY <2>2, ParsesBoth
  <2>4. read_message[1 + 1] = <<Read("u8")>> \o read_player
    BY DEF read_message
  <2>5. Parses(<<Read("message")>>, <<U8(1)>> \o (<<U8(m.id)>> \o player_to_bytes(m.player)))
    <3>1. 1 \in 0 .. 4
      OBVIOUS
    <3>. QED
      BY <2>3, <2>4, <3>1, ParsesCode
  <2>6. Message_to_bytes(m) = <<U8(1), U8(m.id)>> \o player_to_bytes(m.player)
    BY <2>1 DEF Message_to_bytes
  <2>7. U8(1) \in AnyField /\ U8(m.id) \in AnyField /\ player_to_bytes(m.player) \in Seq(AnyField)
    BY <1>0, <2>1, <2>2, FieldsOfNumbers DEF Parses
  <2>8. IsCodeFirst(U8(1), U8(m.id), player_to_bytes(m.player))
    BY <2>7, CodeFirst
  <2>. QED
    BY <2>5, <2>6, <2>8 DEF IsCodeFirst
<1>3. ASSUME NEW m \in [code : {"GameStarted"}, players : Seq([id : Byte, player : Player])]
      PROVE  Parses(<<Read("message")>>, Message_to_bytes(m))
  <2>1. m.code = "GameStarted" /\ m.players \in Seq([id : Byte, player : Player])
    OBVIOUS
  <2>2. Parses(read_players_map, player_map_to_bytes(m.players))
    BY <2>1, ParsesLists
  <2>3. read_message[2 + 1] = read_players_map
    BY DEF read_message
  <2>4. Parses(<<Read("message")>>, <<U8(2)>> \o player_map_to_bytes(m.players))
    <3>1. 2 \in 0 .. 4
      OBVIOUS
    <3>. QED
      BY <2>2, <2>3, <3>1, ParsesCode
  <2>. QED
    BY <2>1, <2>4 DEF Message_to_bytes
<1>4. ASSUME NEW m \in [code : {"Turn"}, turn : Uint16, events : Seq(Event)]
      PROVE  Parses(<<Read("message")>>, Message_to_bytes(m))
  <2>1. m.code = "Turn" /\ m.turn \in Uint16 /\ m.events \in Seq(Event)
    OBVIOUS
  <2>2. PICK fs : fs = List(Event_to_bytes, m.events)
    OBVIOUS
  <2>3. Parses(<<Read("u16")>>, <<U16(m.turn)>>) /\ Parses(read_event_list, fs)
    BY <2>1, <2>2, ParsesNumbers, ParsesEvents
  <2>4. Parses(<<Read("u16")>> \o read_event_list, <<U16(m.turn)>> \o fs)
    BY <2>3, ParsesBoth
  <2>5. read_message[3 + 1] = <<Read("u16")>> \o read_event_list
    BY DEF read_message
  <2>6. Parses(<<Read("message")>>, <<U8(3)>> \o (<<U16(m.turn)>> \o fs))
    <3>1. 3 \in 0 .. 4
      OBVIOUS
    <3>. QED
      BY <2>4, <2>5, <3>1, ParsesCode
  <2>7. Message_to_bytes(m) = <<U8(3), U16(m.turn)>> \o fs
    BY <2>1, <2>2 DEF Message_to_bytes, Turn_info_to_bytes
  <2>8. U8(3) \in AnyField /\ U16(m.turn) \in AnyField /\ fs \in Seq(AnyField)
    BY <1>0, <2>1, <2>3, FieldsOfNumbers DEF Parses
  <2>9. IsCodeFirst(U8(3), U16(m.turn), fs)
    BY <2>8, CodeFirst
  <2>. QED
    BY <2>6, <2>7, <2>9 DEF IsCodeFirst
<1>5. ASSUME NEW m \in [code : {"GameEnded"}, scores : Seq([id : Byte, score : Uint32])]
      PROVE  Parses(<<Read("message")>>, Message_to_bytes(m))
  <2>1. m.code = "GameEnded" /\ m.scores \in Seq([id : Byte, score : Uint32])
    OBVIOUS
  <2>2. Parses(read_scores_map, score_map_to_bytes(m.scores))
    BY <2>1, ParsesLists
  <2>3. read_message[4 + 1] = read_scores_map
    BY DEF read_message
  <2>4. Parses(<<Read("message")>>, <<U8(4)>> \o score_map_to_bytes(m.scores))
    <3>1. 4 \in 0 .. 4
      OBVIOUS
    <3>. QED
      BY <2>2, <2>3, <3>1, ParsesCode
  <2>. QED
    BY <2>1, <2>4 DEF Message_to_bytes
<1>. QED
  BY <1>1, <1>2, <1>3, <1>4, <1>5 DEF Message

\* A conversation is what the loop over the messages reads, and its bytes are
\* bytes.
LEMMA ParsesConversation ==
    ASSUME NEW msgs \in Seq(Message)
    PROVE  /\ Encoded(msgs) \in Seq(Byte)
           /\ (\A k \in DOMAIN msgs : Fits(msgs[k])) =>
                <<<<Loop(<<Read("message")>>, Len(msgs))>>, Encoded(msgs), Said(msgs)>> \in Language
<1>1. PICK es : es = [k \in DOMAIN msgs |-> Message_to_bytes(msgs[k])]
  OBVIOUS
<1>2. Len(msgs) \in Nat /\ DOMAIN msgs = 1 .. Len(msgs) /\ \A k \in 1 .. Len(msgs) : msgs[k] \in Message
  BY LenProperties, ElementOfSeq
<1>3. \A k \in 1 .. Len(msgs) : es[k] = Message_to_bytes(msgs[k]) /\ Parses(<<Read("message")>>, es[k])
  BY <1>1, <1>2, ParsesMessage
<1>4. es \in Seq(Seq(AnyField)) /\ Len(es) = Len(msgs)
  <2>1. \A k \in 1 .. Len(msgs) : es[k] \in Seq(AnyField)
    BY <1>3 DEF Parses
  <2>2. [k \in 1 .. Len(msgs) |-> es[k]] \in Seq(Seq(AnyField))
    BY <1>2, <2>1
  <2>3. es = [k \in 1 .. Len(msgs) |-> es[k]]
    BY <1>1, <1>2
  <2>4. Len([k \in 1 .. Len(msgs) |-> es[k]]) = Len(msgs)
    BY <1>2
  <2>. QED
    BY <2>2, <2>3, <2>4, Zenon
<1>5. EachParses(<<Read("message")>>, es)
  BY <1>3, <1>4 DEF EachParses
<1>6. PICK fs : fs = FlattenSeq(es)
  OBVIOUS
<1>7. Parses(<<Loop(<<Read("message")>>, Len(msgs))>>, fs)
  BY <1>4, <1>5, <1>6, Readers, ParsesLoop
<1>8. Encoded(msgs) = BytesOf(fs) /\ Said(msgs) = GivenBy(fs)
  BY <1>1, <1>6 DEF Encoded, Said, BytesOf, GivenBy, Each
<1>9. Encoded(msgs) \in Seq(Byte)
  BY <1>7, <1>8, BytesConcat DEF Parses
<1>10. ASSUME \A k \in DOMAIN msgs : Fits(msgs[k]) PROVE fs \in Seq(Field_with_room)
  <2>1. \A k \in 1 .. Len(msgs) : es[k] \in Seq(Field_with_room)
    BY <1>2, <1>3, <1>10 DEF Fits
  <2>2. [k \in 1 .. Len(msgs) |-> es[k]] \in Seq(Seq(Field_with_room))
    BY <1>2, <2>1
  <2>3. es = [k \in 1 .. Len(msgs) |-> es[k]]
    BY <1>1, <1>2
  <2>4. es \in Seq(Seq(Field_with_room))
    BY <2>2, <2>3, Zenon
  <2>. QED
    BY <1>6, <2>4, FlattenTyped
<1>. QED
  BY <1>7, <1>8, <1>9, <1>10 DEF Parses

-----------------------------------------------------------------------------
(* The types of the reader's variables.                                    *)

\* WireTypeOK, and what is on the stack.
ReaderTypes == WireTypeOK /\ todo \in Seq(Items)

\* The item that is read next, and what follows it.
LEMMA ItemAndRest ==
    ASSUME todo \in Seq(Items)
    PROVE  /\ Item \in Items /\ Rest \in Seq(Items)
           /\ todo # <<>> => todo = <<Item>> \o Rest
           /\ todo = <<>> => Item = Read("message") /\ Rest = <<>>
<1>1. CASE todo = <<>>
  <2>1. Read("message") \in Items /\ <<>> \in Seq(Items)
    BY EmptySeq DEF Read, Items, FieldRead
  <2>. QED
    BY <1>1, <2>1 DEF Item, Rest
<1>2. CASE todo # <<>>
  BY <1>2, HeadAndTail DEF Item, Rest
<1>. QED
  BY <1>1, <1>2

\* Return keeps the types.
LEMMA ReturnTypes ==
    ASSUME ReaderTypes, NEW v \in Uint32, Item.kind \in ValueKinds, Return(v)
    PROVE  /\ got' \in Seq(Uint32) /\ part' = <<>> /\ part' \in Seq(Byte)
           /\ reader' \in {"running", "exited"} /\ todo' \in Seq(Items)
<1>1. Item \in Items /\ Rest \in Seq(Items)
  BY ItemAndRest DEF ReaderTypes
<1>2. got' \in Seq(Uint32)
  BY AppendProperties DEF ReaderTypes, WireTypeOK, Return
<1>3. v \in Nat
  BY TypesOfNumbers
<1>4. todo' \in Seq(Items)
  <2>1. CASE NoCase(Item, v)
    BY <2>1 DEF Return, ReaderTypes
  <2>2. CASE ~NoCase(Item, v)
    <3>1. Then(Item, v) \in Seq(Items)
      BY <1>1, <1>3, <2>2, ThenTypes
    <3>2. todo' = Then(Item, v) \o Rest
      BY <2>2 DEF Return
    <3>. QED
      BY <1>1, <3>1, <3>2, ConcatProperties
  <2>. QED
    BY <2>1, <2>2
<1>5. part' = <<>> /\ <<>> \in Seq(Byte)
  BY EmptySeq DEF Return
<1>6. reader' \in {"running", "exited"}
  BY DEF Return, ReaderTypes, WireTypeOK
<1>. QED
  BY <1>2, <1>4, <1>5, <1>6

\* The first n members of a sequence, and the others.
IsCut(S, s, n) ==
    /\ SubSeq(s, 1, n) \in Seq(S) /\ Len(SubSeq(s, 1, n)) = n
    /\ SubSeq(s, n + 1, Len(s)) \in Seq(S) /\ Len(SubSeq(s, n + 1, Len(s))) = Len(s) - n
    /\ s = SubSeq(s, 1, n) \o SubSeq(s, n + 1, Len(s))

\* Together they are the sequence.
LEMMA CutAt == \A S, s, n : s \in Seq(S) /\ n \in 0 .. Len(s) => IsCut(S, s, n)
<1>. SUFFICES ASSUME NEW S, NEW s \in Seq(S), NEW n \in 0 .. Len(s) PROVE IsCut(S, s, n)
  OBVIOUS
<1>1. Len(s) \in Nat /\ n \in Nat /\ n <= Len(s) /\ \A k \in 1 .. Len(s) : s[k] \in S
  BY LenProperties, ElementOfSeq
<1>2. PICK a : a = SubSeq(s, 1, n)
  OBVIOUS
<1>3. PICK c : c = SubSeq(s, n + 1, Len(s))
  OBVIOUS
<1>4. a \in Seq(S) /\ Len(a) = n /\ \A k \in 1 .. n : a[k] = s[k]
  <2>1. \A k \in 1 .. n : k \in 1 .. Len(s)
    BY <1>1
  <2>. QED
    BY <1>1, <1>2, <2>1, SubSeqProperties
<1>5. c \in Seq(S) /\ Len(c) = Len(s) - n /\ \A k \in 1 .. Len(s) - n : c[k] = s[n + k]
  <2>1. \A k \in (n + 1) .. Len(s) : k \in 1 .. Len(s)
    BY <1>1
  <2>. QED
    BY <1>1, <1>3, <2>1, SubSeqProperties
<1>6. IsJoin(s, a, c)
  BY <1>1, <1>4, <1>5 DEF IsJoin
<1>7. s = a \o c
  BY <1>4, <1>5, <1>6, Joined
<1>. QED
  BY <1>2, <1>3, <1>4, <1>5, <1>7 DEF IsCut

\* Drop leaves a part of the buffer, and together with what it drops that is
\* the buffer.
LEMMA DropTypes ==
    ASSUME buf \in Seq(Byte), NEW n \in 0 .. Len(buf), Drop(n)
    PROVE  /\ buf' \in Seq(Byte) /\ Len(buf') = Len(buf) - n
           /\ SubSeq(buf, 1, n) \in Seq(Byte) /\ Len(SubSeq(buf, 1, n)) = n
           /\ buf = SubSeq(buf, 1, n) \o buf'
<1>1. IsCut(Byte, buf, n)
  BY CutAt
<1>. QED
  BY <1>1 DEF IsCut, Drop

\* What is in the buffer is bytes.
LEMMA BufferTypes ==
    ASSUME ReaderTypes, buf # <<>>
    PROVE  /\ Len(buf) \in Nat /\ Len(buf) > 0 /\ buf[1] \in Byte
           /\ \A k \in 1 .. Len(buf) : buf[k] \in Byte
<1>1. Len(buf) \in Nat /\ Len(buf) > 0 /\ \A k \in 1 .. Len(buf) : buf[k] \in Byte
  BY LenProperties, ElementOfSeq, EmptySeq DEF ReaderTypes, WireTypeOK
<1>. QED
  BY <1>1

\* A step in which the reader takes n bytes keeps the types, if the variables
\* that it sets get values of theirs.
LEMMA TakeTypes ==
    ASSUME ReaderTypes, NEW n \in 0 .. Len(buf), Drop(n), UNCHANGED stream,
           got' \in Seq(Uint32), part' \in Seq(Byte), reader' \in {"running", "exited"},
           todo' \in Seq(Items), cuts' \in 0 .. MaxCuts
    PROVE  ReaderTypes'
<1>1. Len(buf) \in Nat /\ buf \in Seq(Byte) /\ Len(buf) <= BUFFER_SIZE /\ stream \in Seq(Byte)
  BY LenProperties DEF ReaderTypes, WireTypeOK
<1>2. buf' \in Seq(Byte) /\ Len(buf') = Len(buf) - n
  BY <1>1, DropTypes
<1>3. Len(buf') <= BUFFER_SIZE
  BY <1>1, <1>2, BytesAssumption
<1>. QED
  BY <1>1, <1>2, <1>3 DEF ReaderTypes, WireTypeOK

\* The types hold in the beginning.
LEMMA ReaderTypesInit == ASSUME WireInit PROVE ReaderTypes
<1>1. PICK msgs \in Seq(Message) : msgs = sent
  BY ConversationsAssumption DEF WireInit
<1>2. stream \in Seq(Byte)
  BY <1>1, ParsesConversation DEF WireInit
<1>3. /\ <<>> \in Seq(Byte) /\ <<>> \in Seq(Items) /\ <<>> \in Seq(Uint32) /\ Len(<<>>) = 0
      /\ 0 \in 0 .. MaxCuts /\ 0 <= BUFFER_SIZE
  BY EmptySeq, BytesAssumption
<1>. QED
  BY <1>2, <1>3 DEF WireInit, ReaderTypes, WireTypeOK

\* Every step keeps them.
LEMMA ReaderTypesStep == ASSUME ReaderTypes, [WireNext]_wire_vars PROVE ReaderTypes'
<1>. WireTypeOK /\ todo \in Seq(Items) /\ cuts \in 0 .. MaxCuts
  BY DEF ReaderTypes, WireTypeOK
<1>0. ASSUME NEW kinds, Reads(kinds)
      PROVE  /\ buf # <<>> /\ Item.kind \in kinds /\ cuts < MaxCuts /\ UNCHANGED stream
             /\ Len(buf) \in Nat /\ Len(buf) > 0 /\ \A k \in 1 .. Len(buf) : buf[k] \in Byte
  BY <1>0, BufferTypes DEF Reads
<1>1. CASE UNCHANGED wire_vars
  BY <1>1 DEF wire_vars, ReaderTypes, WireTypeOK
<1>2. CASE read_server
  <2>1. PICK n \in 1 .. Len(stream) :
          /\ n <= BUFFER_SIZE /\ buf' = SubSeq(stream, 1, n)
          /\ stream' = SubSeq(stream, n + 1, Len(stream))
    BY <1>2 DEF read_server
  <2>2. Len(stream) \in Nat /\ stream \in Seq(Byte)
    BY LenProperties DEF WireTypeOK
  <2>3. n \in 0 .. Len(stream)
    BY <2>2
  <2>4. IsCut(Byte, stream, n)
    BY <2>2, <2>3, CutAt
  <2>5. buf' \in Seq(Byte) /\ Len(buf') = n /\ stream' \in Seq(Byte)
    BY <2>1, <2>4 DEF IsCut
  <2>6. UNCHANGED <<todo, part, got, cuts, reader>>
    BY <1>2 DEF read_server
  <2>. QED
    BY <2>1, <2>5, <2>6 DEF ReaderTypes, WireTypeOK
<1>3. CASE read_uint8
  <2>1. Reads({"u8", "message", "event", "string"}) /\ Return(buf[1]) /\ Drop(1) /\ cuts' = cuts
    BY <1>3 DEF read_uint8
  <2>2. Item.kind \in ValueKinds /\ UNCHANGED stream /\ 1 \in 0 .. Len(buf)
    BY <1>0, <2>1 DEF ValueKinds
  <2>3. buf[1] \in Uint32
    BY <1>0, <2>1, Powers
  <2>. QED
    BY <2>1, <2>2, <2>3, ReturnTypes, TakeTypes
<1>4. CASE read_uint16
  <2>1. Reads({"u16"})
    BY <1>4 DEF read_uint16
  <2>2. Item.kind \in ValueKinds /\ UNCHANGED stream /\ 1 \in 0 .. Len(buf) /\ buf[1] \in Byte
    BY <1>0, <2>1 DEF ValueKinds
  <2>3. CASE Len(buf) >= 2 /\ Return(buf[1] * Base + buf[2]) /\ Drop(2) /\ cuts' = cuts
    <3>1. buf[2] \in Byte /\ 2 \in 0 .. Len(buf)
      BY <1>0, <2>1, <2>3
    <3>2. buf[1] * Base + buf[2] \in Uint32
      BY <2>2, <3>1, Bytes16, Powers
    <3>. QED
      BY <2>2, <2>3, <3>1, <3>2, ReturnTypes, TakeTypes
  <2>4. CASE /\ \E held \in Byte : Return(buf[1] * Base + held)
             /\ Drop(1) /\ cuts' = cuts + 1
    <3>1. PICK held \in Byte : Return(buf[1] * Base + held)
      BY <2>4
    <3>2. buf[1] * Base + held \in Uint32
      BY <2>2, Bytes16, Powers
    <3>3. cuts' \in 0 .. MaxCuts
      BY <1>0, <2>1, <2>4, BytesAssumption
    <3>. QED
      BY <2>2, <2>4, <3>1, <3>2, <3>3, ReturnTypes, TakeTypes
  <2>. QED
    BY <1>4, <2>3, <2>4 DEF read_uint16
<1>5. CASE read_uint32
  <2>1. Reads({"u32", "list"}) /\ cuts' = cuts
    BY <1>5 DEF read_uint32
  <2>2. Item.kind \in ValueKinds /\ UNCHANGED stream /\ 1 \in 0 .. Len(buf) /\ buf[1] \in Byte
    BY <1>0, <2>1 DEF ValueKinds
  <2>3. CASE part = <<>> /\ Len(buf) >= 4 /\ Return(AsUint32(buf)) /\ Drop(4)
    <3>1. /\ buf[2] \in Byte /\ buf[3] \in Byte /\ buf[4] \in Byte /\ 4 \in 0 .. Len(buf)
      BY <1>0, <2>1, <2>3
    <3>2. AsUint32(buf) \in Uint32
      BY <2>2, <3>1, FourBytes DEF AsUint32
    <3>. QED
      BY <2>1, <2>2, <2>3, <3>1, <3>2, ReturnTypes, TakeTypes
  <2>4. CASE /\ LET b == Append(part, buf[1])
                IN  IF Len(b) = 4 THEN Return(AsUint32(b))
                    ELSE part' = b /\ UNCHANGED <<todo, got, reader>>
             /\ Drop(1)
    <3>1. PICK b \in Seq(Byte) : b = Append(part, buf[1])
      BY <2>2, AppendProperties DEF WireTypeOK
    <3>2. CASE Len(b) = 4 /\ Return(AsUint32(b))
      <4>1. b[1] \in Byte /\ b[2] \in Byte /\ b[3] \in Byte /\ b[4] \in Byte
        <5>1. \A k \in 1 .. Len(b) : b[k] \in Byte
          BY ElementOfSeq
        <5>2. Len(b) = 4
          BY <3>2
        <5>. QED
          BY <5>1, <5>2
      <4>2. AsUint32(b) \in Uint32
        BY <4>1, FourBytes DEF AsUint32
      <4>. QED
        BY <2>1, <2>2, <2>4, <3>2, <4>2, ReturnTypes, TakeTypes
    <3>3. CASE part' = b /\ UNCHANGED <<todo, got, reader>>
      <4>1. got' \in Seq(Uint32) /\ reader' \in {"running", "exited"} /\ todo' \in Seq(Items)
        BY <3>3 DEF WireTypeOK
      <4>. QED
        BY <2>1, <2>2, <2>4, <3>3, <4>1, TakeTypes
    <3>. QED
      BY <2>4, <3>1, <3>2, <3>3
  <2>. QED
    BY <1>5, <2>3, <2>4 DEF read_uint32
<1>6. CASE read_string
  <2>1. Reads({"characters"}) /\ reader' = reader
    BY <1>6 DEF read_string
  <2>2. /\ Item.kind = "characters" /\ Item \in Items /\ Rest \in Seq(Items) /\ UNCHANGED stream
        /\ Item.length \in Nat /\ Len(buf) \in Nat
    BY <1>0, <2>1, ItemAndRest, ItemTypes
  <2>3. PICK n : n = IF Len(buf) >= Item.length THEN Item.length ELSE Len(buf)
    OBVIOUS
  <2>4. n \in 0 .. Len(buf) /\ buf \in Seq(Byte)
    BY <2>2, <2>3 DEF WireTypeOK
  <2>5. PICK str : str = part \o SubSeq(buf, 1, n)
    OBVIOUS
  <2>6. /\ IF Len(str) < Item.length THEN part' = str /\ UNCHANGED <<todo, got>>
           ELSE part' = <<>> /\ got' = got \o str /\ todo' = Rest
        /\ Drop(n) /\ cuts' = IF Len(str) > Item.length THEN cuts + 1 ELSE cuts
    BY <1>6, <2>3, <2>5 DEF read_string
  <2>7. str \in Seq(Byte)
    BY <2>4, <2>5, <2>6, DropTypes, ConcatProperties DEF WireTypeOK
  <2>8. str \in Seq(Uint32)
    BY <2>7, Powers, SeqMonotonic
  <2>9. got' \in Seq(Uint32) /\ part' \in Seq(Byte) /\ todo' \in Seq(Items)
    <3>1. CASE Len(str) < Item.length
      BY <2>6, <2>7, <3>1 DEF WireTypeOK
    <3>2. CASE ~(Len(str) < Item.length)
      <4>1. got \o str \in Seq(Uint32) /\ <<>> \in Seq(Byte)
        BY <2>8, ConcatProperties, EmptySeq DEF WireTypeOK
      <4>. QED
        BY <2>2, <2>6, <3>2, <4>1
    <3>. QED
      BY <3>1, <3>2
  <2>10. cuts' \in 0 .. MaxCuts
    BY <1>0, <2>1, <2>6, BytesAssumption
  <2>11. reader' \in {"running", "exited"}
    BY <2>1 DEF WireTypeOK
  <2>. QED
    BY <2>2, <2>4, <2>6, <2>9, <2>10, <2>11, TakeTypes
<1>7. CASE Iterate
  <2>1. Item.kind = "loop" /\ Item \in Items /\ Rest \in Seq(Items)
    BY <1>7, ItemAndRest DEF Iterate
  <2>2. todo' = Again(Item) \o Rest
    <3>1. CASE Item.times = 0
      BY <1>7, <2>1, <3>1, ConcatEmptySeq DEF Iterate, Again
    <3>2. CASE Item.times # 0
      BY <1>7, <3>2 DEF Iterate, Again
    <3>. QED
      BY <3>1, <3>2
  <2>3. todo' \in Seq(Items)
    BY <2>1, <2>2, ThenTypes, ConcatProperties
  <2>4. UNCHANGED <<stream, buf, part, got, cuts, reader>>
    BY <1>7 DEF Iterate
  <2>. QED
    BY <2>3, <2>4 DEF ReaderTypes, WireTypeOK
<1>. QED
  BY <1>1, <1>2, <1>3, <1>4, <1>5, <1>6, <1>7 DEF WireNext

\* WireTypeOK for every conversation and every way of cutting it: the values
\* that the reader puts together are uint32_t, also where a uint16_t was cut or
\* a string took bytes that are not its own.
THEOREM WireTypeCorrect == WireSpec => []WireTypeOK
<1>1. WireInit => ReaderTypes
  BY ReaderTypesInit
<1>2. ReaderTypes /\ [WireNext]_wire_vars => ReaderTypes'
  BY ReaderTypesStep
<1>3. ReaderTypes => WireTypeOK
  BY DEF ReaderTypes
<1>. QED
  BY <1>1, <1>2, <1>3, PTL DEF WireSpec

-----------------------------------------------------------------------------
(* The reader gets what the builders wrote.                                *)

\* The loop of handle_server_messages over n messages.
Messages(n) == <<Loop(<<Read("message")>>, n)>>

\* What is on the stack t, and then some messages, reads b, and what it gives
\* together with g makes said.
OnTrack(said, t, b, g) ==
    \E n \in Nat, h \in Seq(Uint32) :
        <<t \o Messages(n), b, h>> \in Language /\ g \o h = said

\* The bytes of a value that has not been read to its end.
Partial ==
    part # <<>> => \/ Item.kind \in {"u32", "list"} /\ Len(part) < 4
                   \/ Item.kind = "characters" /\ Len(part) < Item.length

\* Nothing has gone wrong yet.
Whole ==
    /\ reader = "running" /\ Partial
    /\ OnTrack(Said(sent), todo, (part \o buf) \o stream, got)

\* The loop is an item, and its round is a message and the loop.
LEMMA MessagesOpen ==
    ASSUME NEW n \in Nat
    PROVE  /\ Messages(n) \in Seq(Items) /\ Messages(n) # <<>>
           /\ \A b, g : <<Messages(n), b, g>> \in Language /\ b # <<>> =>
                \E m \in Nat : <<<<Read("message")>> \o Messages(m), b, g>> \in Language
<1>1. PICK item \in Items : item = Loop(<<Read("message")>>, n)
  BY Readers, ItemTypes
<1>2. item.kind = "loop" /\ item.body = <<Read("message")>> /\ item.times = n
  BY <1>1 DEF Loop
<1>3. PICK t \in Seq(Items) : t = Messages(n) /\ t = <<item>>
  <2>1. <<item>> \in Seq(Items)
    OBVIOUS
  <2>. QED
    BY <1>1, <2>1 DEF Messages
<1>4. t # <<>> /\ Head(t) = item /\ Tail(t) = <<>>
  BY <1>3
<1>5. ASSUME NEW b, NEW g, <<t, b, g>> \in Language, b # <<>>
      PROVE  \E m \in Nat : <<<<Read("message")>> \o Messages(m), b, g>> \in Language
  <2>1. CanRead(Language, t, b, g)
    BY <1>5, LanguageReads
  <2>2. item.kind \notin ValueKinds /\ item.kind # "characters"
    BY <1>2 DEF ValueKinds
  <2>3. <<Again(item) \o <<>>, b, g>> \in Language
    BY <1>4, <2>1, <2>2 DEF CanRead
  <2>4. Again(item) \in Seq(Items) /\ Again(item) \o <<>> = Again(item)
    BY <1>2, ThenTypes, ConcatEmptySeq
  <2>5. <<Again(item), b, g>> \in Language
    BY <2>3, <2>4
  <2>6. CASE n = 0
    <3>1. Again(item) = <<>>
      BY <1>2, <2>6 DEF Again
    <3>2. CanRead(Language, <<>>, b, g)
      BY <2>5, <3>1, LanguageReads
    <3>. QED
      BY <1>5, <3>2 DEF CanRead
  <2>7. CASE n # 0
    <3>1. n - 1 \in Nat /\ Again(item) = <<Read("message")>> \o Messages(n - 1)
      BY <1>2, <2>7 DEF Again, Messages
    <3>. QED
      BY <2>5, <3>1
  <2>. QED
    BY <2>6, <2>7
<1>. QED
  BY <1>3, <1>4, <1>5

\* The same with what is read next at the front of the stack.
OpensTo(said, b, g) ==
    \E n \in Nat, h \in Seq(Uint32), u \in Seq(Items) :
        /\ u = Rest \o Messages(n)
        /\ <<<<Item>> \o u, b, h>> \in Language /\ g \o h = said

\* What is read next is at the front of the stack.
LEMMA Opened ==
    ASSUME todo \in Seq(Items), NEW said, NEW b, NEW g, OnTrack(said, todo, b, g),
           todo = <<>> => b # <<>>
    PROVE  OpensTo(said, b, g)
<1>1. PICK n \in Nat, h \in Seq(Uint32) :
        <<todo \o Messages(n), b, h>> \in Language /\ g \o h = said
  BY DEF OnTrack
<1>2. Item \in Items /\ Rest \in Seq(Items)
  BY ItemAndRest
<1>3. CASE todo # <<>>
  <2>1. PICK i \in Seq(Items) : i = <<Item>>
    <3>1. <<Item>> \in Seq(Items)
      BY <1>2
    <3>. QED
      BY <3>1
  <2>2. todo = i \o Rest
    BY <1>3, <2>1, ItemAndRest
  <2>3. Messages(n) \in Seq(Items)
    BY MessagesOpen
  <2>4. Associates(i, Rest, Messages(n))
    BY <1>2, <2>3, Associative
  <2>5. PICK u \in Seq(Items) : u = Rest \o Messages(n)
    BY <1>2, <2>3, ConcatProperties
  <2>6. <<i \o u, b, h>> \in Language
    BY <1>1, <2>2, <2>4, <2>5 DEF Associates
  <2>. QED
    BY <1>1, <2>1, <2>5, <2>6 DEF OpensTo
<1>4. CASE todo = <<>>
  <2>1. Messages(n) \in Seq(Items)
    BY MessagesOpen
  <2>2. <<>> \o Messages(n) = Messages(n)
    BY <2>1, ConcatEmptySeq
  <2>3. <<Messages(n), b, h>> \in Language
    BY <1>1, <1>4, <2>2
  <2>4. PICK m \in Nat : <<<<Read("message")>> \o Messages(m), b, h>> \in Language
    BY <1>4, <2>3, MessagesOpen
  <2>5. Messages(m) \in Seq(Items) /\ Item = Read("message") /\ Rest = <<>>
    BY <1>4, MessagesOpen, ItemAndRest
  <2>6. <<>> \o Messages(m) = Messages(m)
    BY <2>5, ConcatEmptySeq
  <2>7. PICK u \in Seq(Items) : u = Rest \o Messages(m) /\ u = Messages(m)
    BY <2>5, <2>6
  <2>. QED
    BY <1>1, <2>4, <2>5, <2>7 DEF OpensTo
<1>. QED
  BY <1>3, <1>4

\* A value is read.
LEMMA OpenValue ==
    ASSUME todo \in Seq(Items), NEW said, NEW b, NEW g \in Seq(Uint32), OnTrack(said, todo, b, g),
           b # <<>>, Item.kind \in ValueKinds
    PROVE  \E v \in Values(Item), c \in Seq(Byte) :
              b = BytesOfValue(Item, v) \o c /\ OnTrack(said, Then(Item, v) \o Rest, c, Append(g, v))
<1>1. PICK n \in Nat, h \in Seq(Uint32), u \in Seq(Items) :
        /\ u = Rest \o Messages(n)
        /\ <<<<Item>> \o u, b, h>> \in Language /\ g \o h = said
  <2>1. OpensTo(said, b, g)
    BY Opened
  <2>. QED
    BY <2>1 DEF OpensTo
<1>2. Item \in Items /\ Rest \in Seq(Items) /\ Messages(n) \in Seq(Items)
  BY ItemAndRest, MessagesOpen
<1>3. PICK t : t = <<Item>> \o u
  OBVIOUS
<1>4. t # <<>> /\ Head(t) = Item /\ Tail(t) = u
  BY <1>2, <1>3, BeginsWith DEF Splits
<1>5. CanRead(Language, t, b, h)
  BY <1>1, <1>3, LanguageReads
<1>6. Item.kind # "characters" /\ Item.kind # "loop"
  BY DEF ValueKinds
<1>7. PICK v \in Values(Item), c \in Seq(Byte), k \in Seq(Uint32) :
        /\ b = BytesOfValue(Item, v) \o c /\ h = <<v>> \o k
        /\ <<Then(Item, v) \o u, c, k>> \in Language
  BY <1>4, <1>5, <1>6 DEF CanRead
<1>8. Then(Item, v) \in Seq(Items) /\ v \in Uint32
  BY <1>2, ValueTypes
<1>9. (Then(Item, v) \o Rest) \o Messages(n) = Then(Item, v) \o u
  <2>1. Associates(Then(Item, v), Rest, Messages(n))
    BY <1>2, <1>8, Associative
  <2>. QED
    BY <1>1, <2>1 DEF Associates
<1>10. Append(g, v) \o k = said
  <2>1. <<v>> \in Seq(Uint32) /\ Append(g, v) = g \o <<v>>
    BY <1>8, AppendIsConcat
  <2>2. Associates(g, <<v>>, k)
    BY <2>1, Associative
  <2>. QED
    BY <1>1, <1>7, <2>1, <2>2 DEF Associates
<1>11. OnTrack(said, Then(Item, v) \o Rest, c, Append(g, v))
  BY <1>7, <1>9, <1>10 DEF OnTrack
<1>. QED
  BY <1>7, <1>11

\* The characters of a string are read.
LEMMA OpenCharacters ==
    ASSUME todo \in Seq(Items), NEW said, NEW b, NEW g \in Seq(Uint32), OnTrack(said, todo, b, g),
           Item.kind = "characters"
    PROVE  \E s \in Seq(Byte), c \in Seq(Byte) :
              Len(s) = Item.length /\ b = s \o c /\ OnTrack(said, Rest, c, g \o s)
<1>0. todo # <<>>
  BY ItemAndRest DEF Read
<1>1. PICK n \in Nat, h \in Seq(Uint32), u \in Seq(Items) :
        /\ u = Rest \o Messages(n)
        /\ <<<<Item>> \o u, b, h>> \in Language /\ g \o h = said
  <2>1. OpensTo(said, b, g)
    BY <1>0, Opened
  <2>. QED
    BY <2>1 DEF OpensTo
<1>2. Item \in Items /\ Rest \in Seq(Items)
  BY ItemAndRest
<1>3. PICK t : t = <<Item>> \o u
  OBVIOUS
<1>4. t # <<>> /\ Head(t) = Item /\ Tail(t) = u
  BY <1>2, <1>3, BeginsWith DEF Splits
<1>5. CanRead(Language, t, b, h)
  BY <1>1, <1>3, LanguageReads
<1>6. Item.kind \notin ValueKinds /\ Item.kind # "loop"
  BY DEF ValueKinds
<1>7. PICK s \in Seq(Byte), c \in Seq(Byte), k \in Seq(Uint32) :
        Len(s) = Item.length /\ b = s \o c /\ h = s \o k /\ <<u, c, k>> \in Language
  BY <1>4, <1>5, <1>6 DEF CanRead
<1>8. (g \o s) \o k = said
  <2>1. s \in Seq(Uint32)
    BY Powers, SeqMonotonic
  <2>2. Associates(g, s, k)
    BY <2>1, Associative
  <2>. QED
    BY <1>1, <1>7, <2>2 DEF Associates
<1>9. OnTrack(said, Rest, c, g \o s)
  BY <1>1, <1>7, <1>8 DEF OnTrack
<1>. QED
  BY <1>7, <1>9

\* The head of a loop is passed.
LEMMA OpenLoop ==
    ASSUME todo \in Seq(Items), NEW said, NEW b, NEW g \in Seq(Uint32), OnTrack(said, todo, b, g),
           Item.kind = "loop"
    PROVE  OnTrack(said, Again(Item) \o Rest, b, g)
<1>0. todo # <<>>
  BY ItemAndRest DEF Read
<1>1. PICK n \in Nat, h \in Seq(Uint32), u \in Seq(Items) :
        /\ u = Rest \o Messages(n)
        /\ <<<<Item>> \o u, b, h>> \in Language /\ g \o h = said
  <2>1. OpensTo(said, b, g)
    BY <1>0, Opened
  <2>. QED
    BY <2>1 DEF OpensTo
<1>2. Item \in Items /\ Rest \in Seq(Items) /\ Messages(n) \in Seq(Items)
  BY ItemAndRest, MessagesOpen
<1>3. PICK t : t = <<Item>> \o u
  OBVIOUS
<1>4. t # <<>> /\ Head(t) = Item /\ Tail(t) = u
  BY <1>2, <1>3, BeginsWith DEF Splits
<1>5. CanRead(Language, t, b, h)
  BY <1>1, <1>3, LanguageReads
<1>6. Item.kind \notin ValueKinds /\ Item.kind # "characters"
  BY DEF ValueKinds
<1>7. <<Again(Item) \o u, b, h>> \in Language
  BY <1>4, <1>5, <1>6 DEF CanRead
<1>8. Associates(Again(Item), Rest, Messages(n))
  BY <1>2, ThenTypes, Associative
<1>9. (Again(Item) \o Rest) \o Messages(n) = Again(Item) \o u
  BY <1>1, <1>8 DEF Associates
<1>. QED
  BY <1>1, <1>7, <1>9 DEF OnTrack

\* Two sequences that are split in the same way.
SameSplit(a, x, b, y) == a = b /\ x = y

\* A sequence can be split at a place in one way only.
LEMMA SameBeginning ==
    \A S, a, x, b, y :
        /\ a \in Seq(S) /\ x \in Seq(S) /\ b \in Seq(S) /\ y \in Seq(S)
        /\ a \o x = b \o y /\ Len(a) = Len(b)
        => SameSplit(a, x, b, y)
<1>. SUFFICES ASSUME NEW S, NEW a \in Seq(S), NEW x \in Seq(S), NEW b \in Seq(S), NEW y \in Seq(S),
                     a \o x = b \o y, Len(a) = Len(b)
              PROVE  SameSplit(a, x, b, y)
  OBVIOUS
<1>1. PICK u : u = a \o x
  OBVIOUS
<1>2. IsJoin(u, a, x) /\ IsJoin(u, b, y)
  BY <1>1, Joins
<1>3. Len(a) \in Nat /\ Len(x) \in Nat /\ Len(y) \in Nat
  BY LenProperties
<1>4. Len(x) = Len(y)
  BY <1>2, <1>3 DEF IsJoin
<1>5. a = b
  <2>1. \A k \in 1 .. Len(a) : a[k] = b[k]
    BY <1>2 DEF IsJoin
  <2>. QED
    BY <2>1, SeqEqual
<1>6. x = y
  <2>1. \A k \in 1 .. Len(x) : x[k] = y[k]
    BY <1>2, <1>4 DEF IsJoin
  <2>. QED
    BY <1>4, <2>1, SeqEqual
<1>. QED
  BY <1>5, <1>6 DEF SameSplit

\* The first n members of a sequence.
AreFirst(a, S, s, n) == a \in Seq(S) /\ Len(a) = n /\ \A k \in 1 .. n : a[k] = s[k]

\* SubSeq gives them.
LEMMA FirstOnes == \A S, s, n : s \in Seq(S) /\ n \in 0 .. Len(s) => AreFirst(SubSeq(s, 1, n), S, s, n)
<1>. SUFFICES ASSUME NEW S, NEW s \in Seq(S), NEW n \in 0 .. Len(s)
              PROVE  AreFirst(SubSeq(s, 1, n), S, s, n)
  OBVIOUS
<1>1. Len(s) \in Nat /\ n \in Nat /\ n <= Len(s) /\ \A k \in 1 .. Len(s) : s[k] \in S
  BY LenProperties, ElementOfSeq
<1>2. \A k \in 1 .. n : s[k] \in S
  BY <1>1
<1>3. PICK a : a = SubSeq(s, 1, n)
  OBVIOUS
<1>4. a \in Seq(S) /\ Len(a) = n /\ \A k \in 1 .. n : a[k] = s[k]
  BY <1>1, <1>2, <1>3, SubSeqProperties
<1>. QED
  BY <1>3, <1>4 DEF AreFirst

\* The bytes of a value have the length that its function reads.
ValueSize(item) ==
    IF item.kind = "u16" THEN 2 ELSE IF item.kind \in {"u32", "list"} THEN 4 ELSE 1

\* They do.
LEMMA ValueSizes ==
    ASSUME NEW item \in Items, item.kind \in ValueKinds, NEW v \in Values(item)
    PROVE  Len(BytesOfValue(item, v)) = ValueSize(item)
<1>1. CASE item.kind = "u16"
  BY <1>1, Bytes16 DEF BytesOfValue, Values, ValueSize
<1>2. CASE item.kind \in {"u32", "list"}
  BY <1>2, ValueTypes, Bytes32 DEF BytesOfValue, ValueSize
<1>3. CASE item.kind \notin {"u16", "u32", "list"}
  <2>1. BytesOfValue(item, v) = <<v>> /\ ValueSize(item) = 1
    BY <1>3 DEF BytesOfValue, ValueSize
  <2>2. Len(<<v>>) = 1
    OBVIOUS
  <2>. QED
    BY <2>1, <2>2
<1>. QED
  BY <1>1, <1>2, <1>3

\* The bytes w, which are those of the value so far and the next n of the
\* buffer, and what is then left to read.
TakesBytes(n, w) ==
    /\ w = part \o SubSeq(buf, 1, n) /\ w \in Seq(Byte) /\ Len(w) = Len(part) + n
    /\ buf' \in Seq(Byte) /\ stream' \in Seq(Byte) /\ buf' \o stream' \in Seq(Byte)
    /\ (part \o buf) \o stream = w \o (buf' \o stream')

\* Drop splits what is left to read there.
LEMMA TakeBytes ==
    ASSUME ReaderTypes, NEW n \in 0 .. Len(buf), Drop(n), UNCHANGED stream,
           NEW w, w = part \o SubSeq(buf, 1, n)
    PROVE  TakesBytes(n, w)
<1>1. stream \in Seq(Byte) /\ stream' = stream /\ buf \in Seq(Byte) /\ part \in Seq(Byte)
  BY DEF ReaderTypes, WireTypeOK
<1>2. /\ buf' \in Seq(Byte) /\ SubSeq(buf, 1, n) \in Seq(Byte) /\ Len(SubSeq(buf, 1, n)) = n
      /\ buf = SubSeq(buf, 1, n) \o buf'
  BY <1>1, DropTypes
<1>3. PICK a \in Seq(Byte) : a = SubSeq(buf, 1, n) /\ Len(a) = n
  BY <1>2
<1>4. PICK c \in Seq(Byte) : c = buf'
  BY <1>2
<1>5. PICK d \in Seq(Byte) : d = c \o stream
  BY <1>1, ConcatProperties
<1>6. w \in Seq(Byte) /\ Len(w) = Len(part) + n /\ w = part \o a
  BY <1>1, <1>3, ConcatProperties
<1>7. (part \o buf) \o stream = w \o d
  <2>1. Associates(part, a, c) /\ Associates(w, c, stream)
    BY <1>1, <1>6, Associative
  <2>2. part \o buf = w \o c
    BY <1>2, <1>3, <1>4, <1>6, <2>1 DEF Associates
  <2>. QED
    BY <1>5, <2>1, <2>2 DEF Associates
<1>. QED
  BY <1>1, <1>4, <1>5, <1>6, <1>7 DEF TakesBytes

\* With nothing put together yet they are those at the head of the buffer.
LEMMA TakeFirst ==
    ASSUME ReaderTypes, part = <<>>, NEW n \in 0 .. Len(buf), NEW w, w = part \o SubSeq(buf, 1, n)
    PROVE  \A k \in 1 .. n : w[k] = buf[k]
<1>1. buf \in Seq(Byte)
  BY DEF ReaderTypes, WireTypeOK
<1>2. PICK a \in Seq(Byte) : a = SubSeq(buf, 1, n) /\ \A k \in 1 .. n : a[k] = buf[k]
  <2>1. AreFirst(SubSeq(buf, 1, n), Byte, buf, n)
    BY <1>1, FirstOnes
  <2>2. PICK a : a = SubSeq(buf, 1, n)
    OBVIOUS
  <2>3. AreFirst(a, Byte, buf, n)
    BY <2>1, <2>2
  <2>. QED
    BY <2>2, <2>3 DEF AreFirst
<1>3. w = a
  BY <1>2, ConcatEmptySeq
<1>. QED
  BY <1>2, <1>3

\* A function that takes all bytes of its value and returns it keeps the
\* reader on track.
LEMMA ReadValue ==
    ASSUME ReaderTypes, Whole, NEW n \in 0 .. Len(buf), Drop(n), UNCHANGED <<sent, stream>>,
           Item.kind \in ValueKinds, NEW w, w = part \o SubSeq(buf, 1, n),
           Len(w) = ValueSize(Item), NEW v, Return(v),
           \A u \in Values(Item) : w = BytesOfValue(Item, u) => v = u
    PROVE  Whole'
<1>1. TakesBytes(n, w) /\ Item \in Items
  BY TakeBytes, ItemAndRest DEF ReaderTypes
<1>2. w \in Seq(Byte) /\ got \in Seq(Uint32) /\ todo \in Seq(Items)
  BY <1>1 DEF TakesBytes, ReaderTypes, WireTypeOK
<1>3. PICK c \in Seq(Byte) : c = buf' \o stream'
  BY <1>1 DEF TakesBytes
<1>4. PICK b : b = (part \o buf) \o stream /\ b = w \o c
  BY <1>1, <1>3 DEF TakesBytes
<1>5. PICK said : said = Said(sent)
  OBVIOUS
<1>6. b # <<>>
  <2>1. Len(w \o c) = Len(w) + Len(c) /\ Len(c) \in Nat
    BY <1>2, ConcatProperties, LenProperties
  <2>2. Len(w) > 0
    BY DEF ValueSize
  <2>3. Len(b) > 0
    BY <1>4, <2>1, <2>2, <1>2, LenProperties
  <2>. QED
    BY <2>3, EmptySeq
<1>7. OnTrack(said, todo, b, got)
  BY <1>4, <1>5 DEF Whole
<1>8. PICK u \in Values(Item), d \in Seq(Byte) :
        b = BytesOfValue(Item, u) \o d /\ OnTrack(said, Then(Item, u) \o Rest, d, Append(got, u))
  BY <1>2, <1>6, <1>7, OpenValue
<1>9. PICK x \in Seq(Byte) : x = BytesOfValue(Item, u) /\ Len(x) = Len(w)
  BY <1>1, ValueTypes, ValueSizes
<1>10. w = x /\ c = d
  <2>1. SameSplit(w, c, x, d)
    BY <1>2, <1>4, <1>8, <1>9, SameBeginning
  <2>. QED
    BY <2>1 DEF SameSplit
<1>11. v = u
  BY <1>9, <1>10
<1>12. ~NoCase(Item, v)
  BY <1>1, <1>11, ValueTypes
<1>13. /\ got' = Append(got, v) /\ part' = <<>> /\ todo' = Then(Item, v) \o Rest
       /\ reader' = "running"
  BY <1>12 DEF Return, Whole
<1>14. (part' \o buf') \o stream' = c
  <2>1. part' \o buf' = buf'
    BY <1>1, <1>13, ConcatEmptySeq DEF TakesBytes
  <2>. QED
    BY <1>3, <2>1
<1>15. Said(sent') = said
  BY <1>5
<1>16. OnTrack(Said(sent'), todo', (part' \o buf') \o stream', got')
  BY <1>8, <1>10, <1>11, <1>13, <1>14, <1>15
<1>. QED
  BY <1>13, <1>16 DEF Whole, Partial

\* A function that takes bytes and waits for more keeps it on track, too.
LEMMA ReadPart ==
    ASSUME ReaderTypes, Whole, NEW n \in 0 .. Len(buf), Drop(n),
           UNCHANGED <<sent, stream, todo, got, reader>>,
           NEW w, w = part \o SubSeq(buf, 1, n), part' = w,
           \/ Item.kind \in {"u32", "list"} /\ Len(w) < 4
           \/ Item.kind = "characters" /\ Len(w) < Item.length
    PROVE  Whole'
<1>1. TakesBytes(n, w)
  BY TakeBytes
<1>2. PICK c \in Seq(Byte), d \in Seq(Byte) : c = buf' /\ d = stream'
  BY <1>1 DEF TakesBytes
<1>3. w \in Seq(Byte) /\ (part \o buf) \o stream = w \o (c \o d)
  BY <1>1, <1>2 DEF TakesBytes
<1>4. Associates(w, c, d)
  BY <1>3, Associative
<1>5. (part' \o buf') \o stream' = (part \o buf) \o stream
  BY <1>2, <1>3, <1>4 DEF Associates
<1>6. Said(sent') = Said(sent) /\ Item' = Item
  BY DEF Item
<1>7. OnTrack(Said(sent'), todo', (part' \o buf') \o stream', got')
  BY <1>5, <1>6 DEF Whole
<1>8. Partial' /\ reader' = "running"
  BY <1>6 DEF Partial, Whole
<1>. QED
  BY <1>7, <1>8 DEF Whole

\* The inductive invariant of DecodedUntilCut.
DecodeInv == ReaderTypes /\ (cuts = 0 => Whole)

\* The bytes come from the socket as they were sent.
LEMMA WholeReadServer == ASSUME ReaderTypes, Whole, read_server PROVE Whole'
<1>1. PICK n \in 1 .. Len(stream) :
        buf' = SubSeq(stream, 1, n) /\ stream' = SubSeq(stream, n + 1, Len(stream))
  BY DEF read_server
<1>2. Len(stream) \in Nat /\ stream \in Seq(Byte) /\ part \in Seq(Byte)
  BY LenProperties DEF ReaderTypes, WireTypeOK
<1>3. IsCut(Byte, stream, n)
  <2>1. n \in 0 .. Len(stream)
    BY <1>2
  <2>. QED
    BY <1>2, <2>1, CutAt
<1>4. PICK a \in Seq(Byte), c \in Seq(Byte) : a = buf' /\ c = stream' /\ stream = a \o c
  BY <1>1, <1>3 DEF IsCut
<1>5. (part \o buf) \o stream = part \o stream
  <2>1. buf = <<>>
    BY DEF read_server
  <2>. QED
    BY <1>2, <2>1, ConcatEmptySeq
<1>6. (part \o a) \o c = part \o stream
  <2>1. Associates(part, a, c)
    BY <1>2, Associative
  <2>. QED
    BY <1>4, <2>1 DEF Associates
<1>7. (part' \o buf') \o stream' = (part \o buf) \o stream
  <2>1. part' = part
    BY DEF read_server
  <2>. QED
    BY <1>4, <1>5, <1>6, <2>1
<1>8. Said(sent') = Said(sent) /\ Item' = Item /\ UNCHANGED <<todo, part, got, reader>>
  BY DEF read_server, Item
<1>9. OnTrack(Said(sent'), todo', (part' \o buf') \o stream', got')
  BY <1>7, <1>8 DEF Whole
<1>10. Partial' /\ reader' = "running"
  BY <1>8 DEF Partial, Whole
<1>. QED
  BY <1>9, <1>10 DEF Whole

\* A value of one byte.
LEMMA WholeReadUint8 == ASSUME ReaderTypes, Whole, read_uint8 PROVE Whole'
<1>1. /\ Item.kind \in {"u8", "message", "event", "string"} /\ buf # <<>>
      /\ UNCHANGED <<sent, stream>> /\ Return(buf[1]) /\ Drop(1)
  BY DEF read_uint8, Reads
<1>2. Item.kind \in ValueKinds /\ part = <<>> /\ ValueSize(Item) = 1
  BY <1>1 DEF ValueKinds, Whole, Partial, ValueSize
<1>3. 1 \in 0 .. Len(buf)
  BY <1>1, BufferTypes
<1>4. PICK w : w = part \o SubSeq(buf, 1, 1)
  OBVIOUS
<1>5. w[1] = buf[1]
  BY <1>2, <1>3, <1>4, TakeFirst
<1>6. Len(w) = 1
  <2>1. TakesBytes(1, w)
    BY <1>1, <1>3, <1>4, TakeBytes
  <2>. QED
    BY <1>2, <2>1, EmptySeq DEF TakesBytes
<1>7. ASSUME NEW u \in Values(Item), w = BytesOfValue(Item, u) PROVE buf[1] = u
  <2>1. BytesOfValue(Item, u) = <<u>>
    BY <1>1 DEF BytesOfValue
  <2>. QED
    BY <1>5, <1>7, <2>1
<1>. QED
  BY <1>1, <1>2, <1>3, <1>4, <1>6, <1>7, ReadValue

\* A uint16_t that the buffer does not cut.
LEMMA WholeReadUint16 == ASSUME ReaderTypes, Whole, read_uint16, cuts' = 0, cuts = 0 PROVE Whole'
<1>1. Item.kind = "u16" /\ UNCHANGED <<sent, stream>>
  BY DEF read_uint16, Reads
<1>2. Len(buf) >= 2 /\ Return(buf[1] * Base + buf[2]) /\ Drop(2)
  BY DEF read_uint16
<1>3. Item.kind \in ValueKinds /\ part = <<>> /\ ValueSize(Item) = 2
  BY <1>1 DEF ValueKinds, Whole, Partial, ValueSize
<1>4. 2 \in 0 .. Len(buf)
  BY <1>2, LenProperties DEF ReaderTypes, WireTypeOK
<1>5. PICK w : w = part \o SubSeq(buf, 1, 2)
  OBVIOUS
<1>6. w[1] = buf[1] /\ w[2] = buf[2]
  BY <1>3, <1>4, <1>5, TakeFirst
<1>7. Len(w) = 2
  <2>1. TakesBytes(2, w)
    BY <1>1, <1>2, <1>4, <1>5, TakeBytes
  <2>. QED
    BY <1>3, <2>1, EmptySeq DEF TakesBytes
<1>8. ASSUME NEW u \in Values(Item), w = BytesOfValue(Item, u) PROVE buf[1] * Base + buf[2] = u
  <2>1. u \in Uint16 /\ w = uint16_to_bytes(u)
    BY <1>1, <1>8 DEF BytesOfValue, Values
  <2>. QED
    BY <1>6, <2>1, Bytes16
<1>. QED
  BY <1>1, <1>2, <1>3, <1>4, <1>5, <1>7, <1>8, ReadValue

\* The four bytes of a uint32_t, or one of them.
LEMMA WholeReadUint32 == ASSUME ReaderTypes, Whole, read_uint32 PROVE Whole'
<1>1. /\ Item.kind \in {"u32", "list"} /\ buf # <<>> /\ UNCHANGED <<sent, stream>>
      /\ Item.kind \in ValueKinds /\ ValueSize(Item) = 4
  BY DEF read_uint32, Reads, ValueKinds, ValueSize
<1>2. Len(buf) \in Nat /\ 1 \in 0 .. Len(buf) /\ buf[1] \in Byte /\ part \in Seq(Byte) /\ Len(part) \in Nat
  BY <1>1, BufferTypes, LenProperties DEF ReaderTypes, WireTypeOK
<1>0. ASSUME NEW w, NEW u \in Values(Item), w = BytesOfValue(Item, u) PROVE AsUint32(w) = u
  BY <1>0, <1>1, Bytes32 DEF Values, BytesOfValue
<1>3. CASE part = <<>> /\ Len(buf) >= 4 /\ Return(AsUint32(buf)) /\ Drop(4)
  <2>1. 4 \in 0 .. Len(buf)
    BY <1>2, <1>3
  <2>2. PICK w : w = part \o SubSeq(buf, 1, 4)
    OBVIOUS
  <2>3. w[1] = buf[1] /\ w[2] = buf[2] /\ w[3] = buf[3] /\ w[4] = buf[4]
    BY <1>3, <2>1, <2>2, TakeFirst
  <2>4. AsUint32(w) = AsUint32(buf)
    BY <2>3 DEF AsUint32
  <2>5. Len(w) = 4
    <3>1. TakesBytes(4, w)
      BY <1>1, <1>3, <2>1, <2>2, TakeBytes
    <3>. QED
      BY <1>3, <3>1, EmptySeq DEF TakesBytes
  <2>6. PICK v : v = AsUint32(buf) /\ \A u \in Values(Item) : w = BytesOfValue(Item, u) => v = u
    BY <1>0, <2>4
  <2>7. Return(v) /\ Drop(4)
    BY <1>3, <2>6
  <2>. QED
    BY <1>1, <2>1, <2>2, <2>5, <2>6, <2>7, ReadValue
<1>4. CASE /\ LET b == Append(part, buf[1])
              IN  IF Len(b) = 4 THEN Return(AsUint32(b))
                  ELSE part' = b /\ UNCHANGED <<todo, got, reader>>
           /\ Drop(1)
  <2>1. PICK w : w = part \o SubSeq(buf, 1, 1)
    OBVIOUS
  <2>2. TakesBytes(1, w)
    BY <1>1, <1>2, <1>4, <2>1, TakeBytes
  <2>3. Append(part, buf[1]) = w
    <3>1. SubSeq(buf, 1, 1) = <<buf[1]>>
      <4>1. AreFirst(SubSeq(buf, 1, 1), Byte, buf, 1)
        BY <1>2, FirstOnes DEF ReaderTypes, WireTypeOK
      <4>2. PICK a : a = SubSeq(buf, 1, 1) /\ AreFirst(a, Byte, buf, 1)
        BY <4>1
      <4>3. a \in Seq(Byte) /\ Len(a) = 1 /\ a[1] = buf[1]
        BY <4>2 DEF AreFirst
      <4>4. PICK x \in Seq(Byte) : x = <<buf[1]>> /\ Len(x) = 1 /\ x[1] = buf[1]
        <5>1. <<buf[1]>> \in Seq(Byte) /\ Len(<<buf[1]>>) = 1 /\ <<buf[1]>>[1] = buf[1]
          BY <1>2
        <5>. QED
          BY <5>1
      <4>5. \A k \in 1 .. 1 : a[k] = x[k]
        BY <4>4, <4>3
      <4>. QED
        BY <4>2, <4>4, <4>5, <4>3, SeqEqual
    <3>2. Append(part, buf[1]) = part \o <<buf[1]>>
      BY <1>2, AppendIsConcat
    <3>. QED
      BY <2>1, <3>1, <3>2
  <2>4. Len(w) = Len(part) + 1
    BY <2>2 DEF TakesBytes
  <2>5. CASE Len(w) = 4
    <3>1. Return(AsUint32(w)) /\ Drop(1)
      BY <1>4, <2>3, <2>5
    <3>. QED
      BY <1>0, <1>1, <1>2, <2>1, <2>5, <3>1, ReadValue
  <2>6. CASE Len(w) # 4
    <3>1. part' = w /\ UNCHANGED <<sent, stream, todo, got, reader>> /\ Drop(1)
      BY <1>1, <1>4, <2>3, <2>6
    <3>2. Len(part) < 4
      BY <1>1, EmptySeq DEF Whole, Partial
    <3>3. Len(w) < 4
      BY <1>2, <2>4, <2>6, <3>2
    <3>. QED
      BY <1>1, <1>2, <2>1, <3>1, <3>3, ReadPart
  <2>. QED
    BY <2>5, <2>6
<1>. QED
  BY <1>3, <1>4 DEF read_uint32

\* The characters of a string, as far as they are its own.
LEMMA WholeReadString == ASSUME ReaderTypes, Whole, read_string, cuts' = 0, cuts = 0 PROVE Whole'
<1>1. Item.kind = "characters" /\ UNCHANGED <<sent, stream, reader>>
  BY DEF read_string, Reads
<1>2. /\ Item.length \in Nat /\ Len(buf) \in Nat /\ todo \in Seq(Items)
      /\ got \in Seq(Uint32) /\ part \in Seq(Byte)
  BY <1>1, ItemAndRest, ItemTypes, LenProperties DEF ReaderTypes, WireTypeOK
<1>3. PICK n : n = IF Len(buf) >= Item.length THEN Item.length ELSE Len(buf)
  OBVIOUS
<1>4. n \in 0 .. Len(buf)
  BY <1>2, <1>3
<1>5. PICK w : w = part \o SubSeq(buf, 1, n)
  OBVIOUS
<1>6. /\ IF Len(w) < Item.length THEN part' = w /\ UNCHANGED <<todo, got>>
         ELSE part' = <<>> /\ got' = got \o w /\ todo' = Rest
      /\ Drop(n) /\ cuts' = IF Len(w) > Item.length THEN cuts + 1 ELSE cuts
  BY <1>3, <1>5 DEF read_string
<1>7. TakesBytes(n, w)
  BY <1>1, <1>4, <1>5, <1>6, TakeBytes
<1>8. w \in Seq(Byte) /\ Len(w) \in Nat
  BY <1>7, LenProperties DEF TakesBytes
<1>9. CASE Len(w) < Item.length
  BY <1>1, <1>4, <1>5, <1>6, <1>9, ReadPart
<1>10. CASE Len(w) = Item.length
  <2>1. part' = <<>> /\ got' = got \o w /\ todo' = Rest /\ reader' = "running"
    BY <1>1, <1>2, <1>6, <1>10 DEF Whole
  <2>2. PICK c \in Seq(Byte) : c = buf' \o stream'
    BY <1>7 DEF TakesBytes
  <2>3. PICK b : b = (part \o buf) \o stream /\ b = w \o c
    BY <1>7, <2>2 DEF TakesBytes
  <2>4. PICK said : said = Said(sent) /\ said = Said(sent')
    BY <1>1
  <2>5. OnTrack(said, todo, b, got)
    BY <2>3, <2>4 DEF Whole
  <2>6. PICK s \in Seq(Byte), d \in Seq(Byte) :
          Len(s) = Item.length /\ b = s \o d /\ OnTrack(said, Rest, d, got \o s)
    BY <1>1, <1>2, <2>5, OpenCharacters
  <2>7. w = s /\ c = d
    <3>1. SameSplit(w, c, s, d)
      BY <1>8, <1>10, <2>3, <2>6, SameBeginning
    <3>. QED
      BY <3>1 DEF SameSplit
  <2>8. (part' \o buf') \o stream' = c
    <3>1. part' \o buf' = buf'
      BY <1>7, <2>1, ConcatEmptySeq DEF TakesBytes
    <3>. QED
      BY <2>2, <3>1
  <2>9. OnTrack(Said(sent'), todo', (part' \o buf') \o stream', got')
    BY <2>1, <2>4, <2>6, <2>7, <2>8
  <2>. QED
    BY <2>1, <2>9 DEF Whole, Partial
<1>11. ~(Len(w) > Item.length)
  BY <1>6
<1>. QED
  BY <1>2, <1>8, <1>9, <1>10, <1>11

\* The head of a loop reads nothing.
LEMMA WholeIterate == ASSUME ReaderTypes, Whole, Iterate PROVE Whole'
<1>1. Item.kind = "loop" /\ Item \in Items /\ Rest \in Seq(Items) /\ got \in Seq(Uint32) /\ todo \in Seq(Items)
  BY ItemAndRest DEF Iterate, ReaderTypes, WireTypeOK
<1>2. todo' = Again(Item) \o Rest
  <2>1. CASE Item.times = 0
    BY <1>1, <2>1, ConcatEmptySeq DEF Iterate, Again
  <2>2. CASE Item.times # 0
    <3>1. PICK a : a = Item.body \o <<Loop(Item.body, Item.times - 1)>> /\ a = Again(Item)
      BY <2>2 DEF Again
    <3>2. PICK i \in Items : i = Loop(Item.body, Item.times - 1)
      BY <1>1, <2>2, ItemTypes
    <3>3. <<i>> \in Seq(Items) /\ Item.body \in Seq(Items)
      BY <1>1, ItemTypes
    <3>4. PICK j \in Seq(Items) : j = <<i>>
      BY <3>3
    <3>5. Associates(Item.body, j, Rest)
      BY <1>1, <3>3, Associative
    <3>6. todo' = Item.body \o (j \o Rest) \/ todo' = (Item.body \o j) \o Rest
      BY <2>2, <3>2, <3>4 DEF Iterate
    <3>. QED
      BY <3>1, <3>2, <3>4, <3>5, <3>6 DEF Associates
  <2>. QED
    BY <2>1, <2>2
<1>3. OnTrack(Said(sent), Again(Item) \o Rest, (part \o buf) \o stream, got)
  BY <1>1, OpenLoop DEF Whole
<1>4. UNCHANGED <<sent, stream, buf, part, got, reader>> /\ part = <<>>
  BY <1>1 DEF Iterate, Whole, Partial
<1>5. OnTrack(Said(sent'), todo', (part' \o buf') \o stream', got')
  BY <1>2, <1>3, <1>4
<1>. QED
  BY <1>4, <1>5 DEF Whole, Partial

\* Every step keeps the invariant.
LEMMA DecodeStep == ASSUME DecodeInv, [WireNext]_wire_vars PROVE DecodeInv'
<1>1. ReaderTypes'
  BY ReaderTypesStep DEF DecodeInv
<1>2. SUFFICES ASSUME cuts' = 0 PROVE Whole'
  BY <1>1 DEF DecodeInv
<1>. ReaderTypes /\ cuts \in Nat
  BY DEF DecodeInv, ReaderTypes, WireTypeOK
<1>3. cuts = 0
  <2>1. cuts' = cuts \/ cuts' = cuts + 1
    BY DEF WireNext, wire_vars, read_server, read_uint8, read_uint16, read_uint32, read_string, Iterate
  <2>. QED
    BY <1>2, <2>1
<1>4. Whole
  BY <1>3 DEF DecodeInv
<1>5. CASE UNCHANGED wire_vars
  BY <1>4, <1>5 DEF wire_vars, Whole, Partial, Item
<1>. QED
  BY <1>2, <1>3, <1>4, <1>5, WholeReadServer, WholeReadUint8, WholeReadUint16, WholeReadUint32,
     WholeReadString, WholeIterate DEF WireNext

\* It holds in the beginning of a conversation that fits.
LEMMA DecodeInit ==
    ASSUME WireInit, \A msgs \in Conversations : \A k \in DOMAIN msgs : Fits(msgs[k])
    PROVE  DecodeInv
<1>1. PICK msgs \in Seq(Message) : msgs = sent /\ \A k \in DOMAIN msgs : Fits(msgs[k])
  BY ConversationsAssumption DEF WireInit
<1>2. Encoded(msgs) \in Seq(Byte) /\ Len(msgs) \in Nat
  BY <1>1, ParsesConversation, LenProperties
<1>3. PICK n \in Nat : n = Len(msgs)
  BY <1>2
<1>4. <<Messages(n), Encoded(msgs), Said(msgs)>> \in Language
  BY <1>1, <1>3, ParsesConversation DEF Messages
<1>5. PICK b \in Seq(Byte), h \in Seq(Uint32) : b = Encoded(msgs) /\ h = Said(msgs)
  BY <1>2, <1>4, LanguageReads
<1>6. <<>> \o Messages(n) = Messages(n) /\ <<>> \o h = h
  BY MessagesOpen, ConcatEmptySeq
<1>7. OnTrack(Said(msgs), <<>>, b, <<>>)
  <2>1. <<<<>> \o Messages(n), b, h>> \in Language /\ <<>> \o h = Said(msgs)
    BY <1>4, <1>5, <1>6
  <2>. QED
    BY <2>1 DEF OnTrack
<1>8. (part \o buf) \o stream = b
  <2>1. <<>> \in Seq(Byte) /\ <<>> \o b = b
    BY EmptySeq, ConcatEmptySeq
  <2>2. <<>> \o <<>> = <<>>
    BY <2>1, ConcatEmptySeq
  <2>. QED
    BY <1>1, <1>5, <2>1, <2>2 DEF WireInit
<1>9. OnTrack(Said(sent), todo, (part \o buf) \o stream, got)
  BY <1>1, <1>7, <1>8 DEF WireInit
<1>. QED
  BY <1>9, ReaderTypesInit DEF DecodeInv, Whole, Partial, WireInit

\* Who is on track has got a beginning.
LEMMA DecodeGives == ASSUME DecodeInv PROVE DecodedUntilCut
<1>1. SUFFICES ASSUME cuts = 0 PROVE IsPrefix(got, Said(sent)) /\ reader = "running"
  BY DEF DecodedUntilCut
<1>2. Whole /\ got \in Seq(Uint32)
  BY <1>1 DEF DecodeInv, ReaderTypes, WireTypeOK
<1>3. PICK said : said = Said(sent)
  OBVIOUS
<1>4. PICK h \in Seq(Uint32) : got \o h = said
  BY <1>2, <1>3 DEF Whole, OnTrack
<1>5. /\ said \in Seq(Uint32) /\ Len(said) = Len(got) + Len(h)
      /\ \A k \in 1 .. Len(got) : said[k] = got[k]
  <2>1. got \o h \in Seq(Uint32) /\ IsJoin(got \o h, got, h)
    BY <1>2, Joins
  <2>. QED
    BY <1>4, <2>1 DEF IsJoin
<1>6. Len(got) \in Nat /\ Len(h) \in Nat /\ Len(got) \in 0 .. Len(said)
  BY <1>2, <1>5, LenProperties
<1>7. PICK a \in Seq(Uint32) :
        a = SubSeq(said, 1, Len(got)) /\ Len(a) = Len(got) /\ \A k \in 1 .. Len(got) : a[k] = said[k]
  <2>1. AreFirst(SubSeq(said, 1, Len(got)), Uint32, said, Len(got))
    BY <1>5, <1>6, FirstOnes
  <2>. QED
    BY <2>1 DEF AreFirst
<1>8. a = got
  BY <1>2, <1>5, <1>7, SeqEqual
<1>9. SubSeq(got, 1, Len(got)) = got
  BY <1>2, SubSeqFull
<1>10. IsPrefix(got, said)
  BY <1>5, <1>6, <1>7, <1>8, <1>9 DEF IsPrefix
<1>. QED
  BY <1>2, <1>3, <1>10 DEF Whole

\* DecodedUntilCut for every conversation the format has room for, every
\* length of the buffer and every way of cutting the stream: until a uint16_t
\* is cut, or a string takes bytes that are not its own, robots-client has got
\* a beginning of what the server's builders wrote.  A name may be too long
\* for the format, which string_to_bytes does not test.
THEOREM DecodedUntilCutCorrect ==
    ASSUME \A msgs \in Conversations : \A k \in DOMAIN msgs : Fits(msgs[k])
    PROVE  WireSpec => []DecodedUntilCut
<1>1. WireInit => DecodeInv
  BY DecodeInit
<1>2. DecodeInv /\ [WireNext]_wire_vars => DecodeInv'
  BY DecodeStep
<1>3. DecodeInv => DecodedUntilCut
  BY DecodeGives
<1>. QED
  BY <1>1, <1>2, <1>3, PTL DEF WireSpec

\* Two sequences that make the empty one.
BothEmpty(s, t) == s = <<>> /\ t = <<>>

\* They are empty.
LEMMA EmptyJoin == \A S, s, t : s \in Seq(S) /\ t \in Seq(S) /\ s \o t = <<>> => BothEmpty(s, t)
<1>. SUFFICES ASSUME NEW S, NEW s \in Seq(S), NEW t \in Seq(S), s \o t = <<>> PROVE BothEmpty(s, t)
  OBVIOUS
<1>1. s \o t = <<>> <=> s = <<>> /\ t = <<>>
  BY ConcatEqualIffEmpty
<1>. QED
  BY <1>1 DEF BothEmpty

\* A value has at least one byte.
LEMMA ValueNotEmpty ==
    ASSUME NEW item \in Items, item.kind \in ValueKinds, NEW v \in Values(item)
    PROVE  BytesOfValue(item, v) # <<>>
<1>1. PICK x \in Seq(Byte) : x = BytesOfValue(item, v)
  BY ValueTypes
<1>2. Len(x) = ValueSize(item) /\ ValueSize(item) \in {1, 2, 4}
  BY <1>1, ValueSizes DEF ValueSize
<1>3. Len(x) # 0
  BY <1>2
<1>. QED
  BY <1>1, <1>3, EmptySeq

\* The bytes b are not empty or the values g are.
GivesNone(b, g) == b = <<>> => g = <<>>

\* No bytes give no values.
LEMMA NothingGiven == \A t, b, g : <<t, b, g>> \in Language /\ b = <<>> => g = <<>>
<1>. DEFINE T == {p \in Triples : GivesNone(p[2], p[3])}
<1>0. \A t \in Seq(Items), b \in Seq(Byte), g \in Seq(Uint32) :
        <<t, b, g>> \in T <=> GivesNone(b, g)
  BY DEF Triples
<1>1. T \in SUBSET Triples
  OBVIOUS
<1>. HIDE DEF T
<1>2. ASSUME NEW t \in Seq(Items), NEW b \in Seq(Byte), NEW g \in Seq(Uint32),
             CanRead(T, t, b, g), b = <<>>
      PROVE  g = <<>>
  <2>1. CASE t = <<>>
    BY <1>2, <2>1 DEF CanRead
  <2>2. CASE t # <<>>
    <3>1. PICK item \in Items, u \in Seq(Items) : item = Head(t) /\ u = Tail(t)
      BY <2>2, HeadAndTail
    <3>2. CASE item.kind \in ValueKinds
      <4>1. item.kind # "characters" /\ item.kind # "loop"
        BY <3>2 DEF ValueKinds
      <4>2. PICK v \in Values(item), c \in Seq(Byte) : b = BytesOfValue(item, v) \o c
        BY <1>2, <2>2, <3>1, <4>1 DEF CanRead
      <4>3. PICK x \in Seq(Byte) : x = BytesOfValue(item, v)
        BY <3>2, ValueTypes
      <4>4. x # <<>> /\ x \o c = <<>>
        BY <1>2, <3>2, <4>2, <4>3, ValueNotEmpty
      <4>5. BothEmpty(x, c)
        BY <4>4, EmptyJoin
      <4>. QED
        BY <4>4, <4>5 DEF BothEmpty
    <3>3. CASE item.kind = "characters"
      <4>1. item.kind \notin ValueKinds /\ item.kind # "loop"
        BY <3>3 DEF ValueKinds
      <4>2. PICK s \in Seq(Byte), c \in Seq(Byte), h \in Seq(Uint32) :
              b = s \o c /\ g = s \o h /\ <<u, c, h>> \in T
        BY <1>2, <2>2, <3>1, <4>1 DEF CanRead
      <4>3. BothEmpty(s, c)
        <5>1. s \o c = <<>>
          BY <1>2, <4>2
        <5>. QED
          BY <5>1, EmptyJoin
      <4>4. s = <<>> /\ h = <<>>
        <5>1. GivesNone(c, h)
          BY <1>0, <3>1, <4>2
        <5>2. s = <<>> /\ c = <<>>
          BY <4>3 DEF BothEmpty
        <5>. QED
          BY <5>1, <5>2 DEF GivesNone
      <4>5. <<>> \o h = h
        BY ConcatEmptySeq
      <4>. QED
        BY <4>2, <4>4, <4>5
    <3>4. CASE item.kind = "loop"
      <4>1. item.kind \notin ValueKinds /\ item.kind # "characters"
        BY <3>4 DEF ValueKinds
      <4>2. <<Again(item) \o u, b, g>> \in T
        BY <1>2, <2>2, <3>1, <4>1 DEF CanRead
      <4>3. Again(item) \o u \in Seq(Items)
        BY <3>4, ThenTypes, ConcatProperties
      <4>4. GivesNone(b, g)
        BY <1>0, <4>2, <4>3
      <4>. QED
        BY <1>2, <4>4 DEF GivesNone
    <3>. QED
      BY <3>2, <3>3, <3>4, ItemTypes
  <2>. QED
    BY <2>1, <2>2
<1>3. Closed(T)
  BY <1>0, <1>2 DEF Closed, GivesNone
<1>4. ASSUME NEW t, NEW b, NEW g, <<t, b, g>> \in Language, b = <<>> PROVE g = <<>>
  <2>1. <<t, b, g>> \in T
    BY <1>1, <1>3, <1>4, LanguageClosed
  <2>2. t \in Seq(Items) /\ b \in Seq(Byte) /\ g \in Seq(Uint32)
    BY <1>4, LanguageReads
  <2>3. GivesNone(b, g)
    BY <1>0, <2>1, <2>2
  <2>. QED
    BY <1>4, <2>3 DEF GivesNone
<1>. QED
  BY <1>4

\* Who is on track at the end of the stream is not within a value.
LEMMA NoneHalfRead ==
    ASSUME ReaderTypes, Whole, (part \o buf) \o stream = part
    PROVE  part = <<>>
<1>1. SUFFICES ASSUME part # <<>> PROVE FALSE
  OBVIOUS
<1>2. PICK said : said = Said(sent)
  OBVIOUS
<1>3. OnTrack(said, todo, part, got) /\ got \in Seq(Uint32) /\ todo \in Seq(Items) /\ Item \in Items
  BY <1>2, ItemAndRest DEF Whole, ReaderTypes, WireTypeOK
<1>4. CASE Item.kind \in {"u32", "list"} /\ Len(part) < 4
  <2>1. Item.kind \in ValueKinds /\ ValueSize(Item) = 4
    BY <1>4 DEF ValueKinds, ValueSize
  <2>2. PICK b : b = part /\ b # <<>> /\ OnTrack(said, todo, b, got)
    BY <1>1, <1>3
  <2>3. PICK v \in Values(Item), c \in Seq(Byte) :
          b = BytesOfValue(Item, v) \o c /\ OnTrack(said, Then(Item, v) \o Rest, c, Append(got, v))
    BY <1>3, <2>1, <2>2, OpenValue
  <2>4. PICK x \in Seq(Byte) : x = BytesOfValue(Item, v) /\ Len(x) = 4
    BY <1>3, <2>1, ValueTypes, ValueSizes
  <2>5. Len(x \o c) = Len(x) + Len(c) /\ Len(c) \in Nat
    BY ConcatProperties, LenProperties
  <2>6. Len(b) = 4 + Len(c) /\ Len(b) < 4
    BY <1>4, <2>2, <2>3, <2>4, <2>5
  <2>. QED
    BY <2>5, <2>6
<1>5. CASE Item.kind = "characters" /\ Len(part) < Item.length
  <2>1. PICK s \in Seq(Byte), c \in Seq(Byte) : Len(s) = Item.length /\ part = s \o c
    BY <1>3, <1>5, OpenCharacters
  <2>2. Len(part) = Len(s) + Len(c) /\ Len(c) \in Nat /\ Len(s) \in Nat
    BY <2>1, ConcatProperties, LenProperties
  <2>. QED
    BY <1>5, <2>1, <2>2
<1>. QED
  BY <1>1, <1>4, <1>5 DEF Whole, Partial

\* Who is on track has got everything when nothing is left.
LEMMA TakenGives == ASSUME DecodeInv PROVE DecodedWhenTaken
<1>1. SUFFICES ASSUME cuts = 0, buf = <<>>, stream = <<>> PROVE got = Said(sent)
  BY DEF DecodedWhenTaken
<1>2. Whole /\ ReaderTypes /\ got \in Seq(Uint32) /\ part \in Seq(Byte)
  BY <1>1 DEF DecodeInv, ReaderTypes, WireTypeOK
<1>3. (part \o buf) \o stream = part
  BY <1>1, <1>2, ConcatEmptySeq
<1>4. part = <<>>
  BY <1>2, <1>3, NoneHalfRead
<1>5. PICK said : said = Said(sent)
  OBVIOUS
<1>6. OnTrack(said, todo, part, got)
  BY <1>2, <1>3, <1>5 DEF Whole
<1>7. PICK n \in Nat, h \in Seq(Uint32) :
        <<todo \o Messages(n), part, h>> \in Language /\ got \o h = said
  BY <1>6 DEF OnTrack
<1>8. h = <<>>
  BY <1>4, <1>7, NothingGiven
<1>. QED
  BY <1>2, <1>5, <1>7, <1>8, ConcatEmptySeq

\* DecodedWhenTaken for the same conversations: a reader that has taken all
\* the bytes holds everything that the builders wrote.
THEOREM DecodedWhenTakenCorrect ==
    ASSUME \A msgs \in Conversations : \A k \in DOMAIN msgs : Fits(msgs[k])
    PROVE  WireSpec => []DecodedWhenTaken
<1>1. WireInit => DecodeInv
  BY DecodeInit
<1>2. DecodeInv /\ [WireNext]_wire_vars => DecodeInv'
  BY DecodeStep
<1>3. DecodeInv => DecodedWhenTaken
  BY TakenGives
<1>. QED
  BY <1>1, <1>2, <1>3, PTL DEF WireSpec
=============================================================================
