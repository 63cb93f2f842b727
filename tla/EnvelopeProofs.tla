---------------------------- MODULE EnvelopeProofs ----------------------------
(***************************************************************************)
(* Proofs about Envelope and the integers of Wire.                         *)
(*                                                                         *)
(* That a message is received as it was sent goes by items: an element of  *)
(* a list or the value of another field, each with a piece of the bytes.   *)
(* A Script reads a message item by item (Follows, After), and Ahead says  *)
(* what a decoder holds when the rest of a script is still before it.      *)
(* Where the bytes carry that rest, the code reads the next item as the    *)
(* script does or, when it was cut, refuses it or takes a part of it       *)
(* (ItemAhead, ReadOrStuck, ValueThere).  SentInv puts the decoders on the *)
(* stack together: each is in a script of its own, and a caller waits for  *)
(* the message that its callee reads (Chain, Pending, Reading).            *)
(***************************************************************************)
EXTENDS Envelope, Induction

(* What a digit is worth: the recursive definition has a solution.         *)
LEMMA PlaceDefined ==
    \A n \in Nat : \E f : f = [g \in 0 .. n |-> IF g = 0 THEN 1 ELSE Base * f[g - 1]]
  <1> DEFINE Solves(f, n) == f = [g \in 0 .. n |-> IF g = 0 THEN 1 ELSE Base * f[g - 1]]
             T == {n \in Nat : \E f : Solves(f, n)}
  <1>1. 0 \in T
    <2> DEFINE e == [g \in 0 .. 0 |-> 1]
    <2>1. Solves(e, 0)
      OBVIOUS
    <2>2. QED
      BY <2>1
  <1>2. ASSUME NEW n \in Nat, n \in T PROVE n + 1 \in T
    <2>1. PICK f : Solves(f, n)
      BY <1>2
    <2> DEFINE h == [g \in 0 .. n + 1 |-> IF g = n + 1 THEN Base * f[n] ELSE f[g]]
    <2>2. ASSUME NEW g \in 0 .. n + 1
          PROVE  h[g] = IF g = 0 THEN 1 ELSE Base * h[g - 1]
      <3>1. CASE g = n + 1
        <4>1. g # 0 /\ g - 1 = n /\ n \in 0 .. n + 1 /\ n # n + 1
          BY <3>1
        <4>2. h[n] = f[n] /\ h[g] = Base * f[n]
          BY <3>1, <4>1
        <4>3. QED
          BY <4>1, <4>2
      <3>2. CASE g # n + 1
        <4>1. g \in 0 .. n /\ (g # 0 => g - 1 \in 0 .. n + 1 /\ g - 1 # n + 1)
          BY <3>2
        <4>2. f[g] = IF g = 0 THEN 1 ELSE Base * f[g - 1]
          BY <2>1, <4>1
        <4>3. h[g] = f[g] /\ (g # 0 => h[g - 1] = f[g - 1])
          BY <3>2, <4>1
        <4> HIDE DEF h
        <4>4. QED
          BY <4>2, <4>3
      <3>3. QED
        BY <3>1, <3>2
    <2>3. Solves(h, n + 1)
      <3>1. h = [g \in 0 .. n + 1 |-> h[g]]
        OBVIOUS
      <3> HIDE DEF h
      <3>2. QED
        BY <2>2, <3>1
    <2> HIDE DEF h, Solves
    <2>4. QED
      BY <2>3
  <1> HIDE DEF T
  <1>3. \A n \in Nat : n \in T
    BY <1>1, <1>2, InductionOnSet
  <1>4. QED
    BY <1>3 DEF T

LEMMA PlaceUnfolds ==
    /\ Place[0] = 1
    /\ \A g \in 0 .. Groups : Place[g] \in Nat \ {0}
    /\ \A g \in 1 .. Groups : Place[g] = Base * Place[g - 1]
  <1>1. Groups \in Nat \ {0} /\ Base \in Nat \ {0}
    BY WidthAssumption
  <1>2. Place = [g \in 0 .. Groups |-> IF g = 0 THEN 1 ELSE Base * Place[g - 1]]
    BY <1>1, PlaceDefined DEF Place
  <1>3. /\ Place[0] = 1
        /\ \A g \in 1 .. Groups : Place[g] = Base * Place[g - 1]
    <2>1. 0 \in 0 .. Groups /\ \A g \in 1 .. Groups : g \in 0 .. Groups /\ g # 0
      BY <1>1
    <2>2. \A g \in 0 .. Groups : Place[g] = IF g = 0 THEN 1 ELSE Base * Place[g - 1]
      BY <1>2, Zenon
    <2>3. QED
      BY <2>1, <2>2
  <1> DEFINE T == {g \in Nat : g \in 0 .. Groups => Place[g] \in Nat \ {0}}
  <1>4. 0 \in T
    BY <1>3
  <1>5. ASSUME NEW g \in Nat, g \in T PROVE g + 1 \in T
    <2> SUFFICES ASSUME g + 1 \in 0 .. Groups PROVE Place[g + 1] \in Nat \ {0}
      OBVIOUS
    <2>1. Place[g] \in Nat \ {0} /\ Place[g + 1] = Base * Place[g]
      BY <1>1, <1>3, <1>5
    <2>2. \A p \in Nat \ {0}, b \in Nat \ {0} : b * p \in Nat \ {0}
      OBVIOUS
    <2>3. QED
      BY <1>1, <2>1, <2>2
  <1> HIDE DEF T
  <1>6. \A g \in Nat : g \in T
    BY <1>4, <1>5, InductionOnSet
  <1>7. \A g \in 0 .. Groups : Place[g] \in Nat \ {0}
    BY <1>6 DEF T
  <1>8. QED
    BY <1>3, <1>7

(* Digits.                                                                 *)
LEMMA Division ==
    ASSUME NEW v \in Int
    PROVE  /\ v \div Base \in Int /\ v % Base \in 0 .. Base - 1
           /\ v = Base * (v \div Base) + (v % Base)
           /\ v >= Base => 1 <= v \div Base /\ v \div Base < v
  <1>1. Base \in Nat /\ Base > 1
    BY WidthAssumption
  <1>2. QED
    BY <1>1

(* EncVarint: the recursive definition has a solution, on the numbers up   *)
(* to a bound, the solutions agree, and together they are one for Int.     *)
Written(f, v) == IF v >= Base THEN <<Base + (v % Base)>> \o f[v \div Base] ELSE <<v % Base>>
UpTo(n) == {v \in Int : v <= n}

LEMMA EncodingDefined ==
    \A n \in Nat : \E f : f = [v \in UpTo(n) |-> Written(f, v)]
  <1> DEFINE Solves(f, n) == f = [v \in UpTo(n) |-> Written(f, v)]
             T == {n \in Nat : \E f : Solves(f, n)}
  <1>0. Base \in Nat /\ Base > 1
    BY WidthAssumption
  <1>1. 0 \in T
    <2> DEFINE e == [v \in UpTo(0) |-> <<v % Base>>]
    <2>1. ASSUME NEW v \in UpTo(0) PROVE <<v % Base>> = Written(e, v)
      <3>1. ~(v >= Base)
        BY <1>0 DEF UpTo
      <3> HIDE DEF e
      <3>2. QED
        BY <3>1 DEF Written
    <2>2. Solves(e, 0)
      <3>1. e = [v \in UpTo(0) |-> <<v % Base>>]
        OBVIOUS
      <3> HIDE DEF e
      <3>2. QED
        BY <2>1, <3>1
    <2> HIDE DEF e, Solves
    <2>3. QED
      BY <2>2
  <1>2. ASSUME NEW n \in Nat, n \in T PROVE n + 1 \in T
    <2>1. PICK f : Solves(f, n)
      BY <1>2
    <2> DEFINE h == [v \in UpTo(n + 1) |-> IF v = n + 1 THEN Written(f, v) ELSE f[v]]
    <2>2. ASSUME NEW v \in UpTo(n + 1)
          PROVE  h[v] = Written(h, v)
      <3>1. v \in Int /\ v <= n + 1
        BY DEF UpTo
      <3>2. ASSUME v >= Base PROVE h[v \div Base] = f[v \div Base]
        <4>1. v \div Base \in UpTo(n + 1) /\ v \div Base # n + 1
          BY <3>1, <3>2, Division DEF UpTo
        <4>2. QED
          BY <4>1
      <3>3. Written(h, v) = Written(f, v)
        <4> HIDE DEF h
        <4>1. QED
          BY <3>2 DEF Written
      <3>4. h[v] = Written(f, v)
        <4>1. CASE v = n + 1
          BY <4>1
        <4>2. CASE v # n + 1
          <5>1. v \in UpTo(n)
            BY <3>1, <4>2 DEF UpTo
          <5>2. f[v] = Written(f, v)
            BY <2>1, <5>1
          <5>3. QED
            BY <4>2, <5>2
        <4>3. QED
          BY <4>1, <4>2
      <3> HIDE DEF h
      <3>5. QED
        BY <3>3, <3>4
    <2>3. Solves(h, n + 1)
      <3>1. h = [v \in UpTo(n + 1) |-> h[v]]
        OBVIOUS
      <3> HIDE DEF h
      <3>2. QED
        BY <2>2, <3>1
    <2> HIDE DEF h, Solves
    <2>4. QED
      BY <2>3
  <1> HIDE DEF T
  <1>3. \A n \in Nat : n \in T
    BY <1>1, <1>2, InductionOnSet
  <1>4. QED
    BY <1>3 DEF T

LEMMA EncodingsAgree ==
    ASSUME NEW n \in Nat, NEW m \in Nat, NEW f, NEW g,
           f = [v \in UpTo(n) |-> Written(f, v)],
           g = [v \in UpTo(m) |-> Written(g, v)]
    PROVE  \A v \in Int : v <= n /\ v <= m => f[v] = g[v]
  <1> DEFINE T == {k \in Nat : \A v \in Int : v <= k /\ v <= n /\ v <= m => f[v] = g[v]}
  <1>0. Base \in Nat /\ Base > 1
    BY WidthAssumption
  <1>1. ASSUME NEW v \in Int, v <= n, v <= m,
               v >= Base => f[v \div Base] = g[v \div Base]
        PROVE  f[v] = g[v]
    <2>1. v \in UpTo(n) /\ v \in UpTo(m)
      BY <1>1 DEF UpTo
    <2>2. f[v] = Written(f, v) /\ g[v] = Written(g, v)
      BY <2>1
    <2>3. QED
      BY <1>1, <2>2 DEF Written
  <1>2. 0 \in T
    BY <1>0, <1>1
  <1>3. ASSUME NEW k \in Nat, k \in T PROVE k + 1 \in T
    <2> SUFFICES ASSUME NEW v \in Int, v <= k + 1, v <= n, v <= m PROVE f[v] = g[v]
      OBVIOUS
    <2>1. ASSUME v >= Base PROVE f[v \div Base] = g[v \div Base]
      <3>1. v \div Base \in Int /\ v \div Base <= k /\ v \div Base <= n /\ v \div Base <= m
        BY <2>1, Division
      <3>2. QED
        BY <1>3, <3>1
    <2>2. QED
      BY <1>1, <2>1
  <1> HIDE DEF T
  <1>4. \A k \in Nat : k \in T
    BY <1>2, <1>3, InductionOnSet
  <1>5. QED
    BY <1>4 DEF T

LEMMA EncVarintUnfolds ==
    \A v \in Int : EncVarint[v] = Written(EncVarint, v)
  <1> DEFINE Solves(f, n) == f = [v \in UpTo(n) |-> Written(f, v)]
             bound(v) == IF v > 0 THEN v ELSE 0
             part(v) == CHOOSE f : Solves(f, bound(v))
             h == [v \in Int |-> part(v)[v]]
  <1>1. ASSUME NEW v \in Int PROVE Solves(part(v), bound(v))
    <2>1. bound(v) \in Nat
      OBVIOUS
    <2>2. \E f : Solves(f, bound(v))
      BY <2>1, EncodingDefined
    <2>3. QED
      BY <2>2
  <1>2. ASSUME NEW v \in Int PROVE h[v] = Written(h, v)
    <2>1. bound(v) \in Nat /\ v <= bound(v)
      OBVIOUS
    <2> HIDE DEF bound
    <2>2. part(v)[v] = Written(part(v), v)
      <3>1. v \in UpTo(bound(v))
        BY <2>1 DEF UpTo
      <3>2. part(v) = [x \in UpTo(bound(v)) |-> Written(part(v), x)]
        BY <1>1
      <3> HIDE DEF part
      <3>3. QED
        BY <3>1, <3>2
    <2>3. ASSUME v >= Base PROVE h[v \div Base] = part(v)[v \div Base]
      <3> DEFINE w == v \div Base
      <3>1. w \in Int /\ w <= bound(v)
        BY <2>1, <2>3, Division
      <3>2. bound(w) \in Nat /\ w <= bound(w)
        BY <3>1 DEF bound
      <3>3. Solves(part(w), bound(w)) /\ Solves(part(v), bound(v))
        BY <1>1, <3>1
      <3>4. h[w] = part(w)[w]
        BY <3>1
      <3> HIDE DEF w, part
      <3>5. part(w)[w] = part(v)[w]
        BY <2>1, <3>1, <3>2, <3>3, EncodingsAgree
      <3>6. QED
        BY <3>4, <3>5 DEF w
    <2>4. h[v] = part(v)[v]
      OBVIOUS
    <2> HIDE DEF h, part
    <2>5. Written(h, v) = Written(part(v), v)
      BY <2>3 DEF Written
    <2>6. QED
      BY <2>2, <2>4, <2>5
  <1>3. h = [v \in Int |-> Written(h, v)]
    <2>1. h = [v \in Int |-> h[v]]
      OBVIOUS
    <2> HIDE DEF h
    <2>2. QED
      BY <1>2, <2>1
  <1> HIDE DEF h
  <1>4. EncVarint = [v \in Int |-> Written(EncVarint, v)]
    BY <1>3 DEF EncVarint, Written
  <1>5. QED
    BY <1>4, Zenon

LEMMA EncVarintTyped ==
    \A v \in Int : EncVarint[v] \in Seq(Byte) /\ EncVarint[v] # <<>>
  <1> DEFINE T == {k \in Nat : \A v \in Int : v <= k => EncVarint[v] \in Seq(Byte) /\ EncVarint[v] # <<>>}
  <1>0. Base \in Nat /\ Base > 1
    BY WidthAssumption
  <1>1. ASSUME NEW v \in Int, v >= Base => EncVarint[v \div Base] \in Seq(Byte)
        PROVE  EncVarint[v] \in Seq(Byte) /\ EncVarint[v] # <<>>
    <2>1. EncVarint[v] = Written(EncVarint, v)
      BY EncVarintUnfolds
    <2>2. v % Base \in Byte /\ Base + (v % Base) \in Byte
      BY <1>0, Division DEF Byte
    <2>3. <<v % Base>> \in Seq(Byte) /\ <<v % Base>> # <<>>
      BY <2>2
    <2>4. ASSUME v >= Base PROVE EncVarint[v] \in Seq(Byte) /\ EncVarint[v] # <<>>
      <3> DEFINE d == <<Base + (v % Base)>>
                 rest == EncVarint[v \div Base]
      <3>1. EncVarint[v] = d \o rest
        BY <2>1, <2>4 DEF Written
      <3>2. d \in Seq(Byte) /\ Len(d) = 1 /\ rest \in Seq(Byte)
        BY <1>1, <2>2, <2>4
      <3> HIDE DEF d, rest
      <3>3. d \o rest \in Seq(Byte) /\ Len(d \o rest) = 1 + Len(rest) /\ Len(rest) \in Nat
        BY <3>2, ConcatProperties, LenProperties
      <3>4. d \o rest # <<>>
        BY <3>3, EmptySeq
      <3>5. QED
        BY <3>1, <3>3, <3>4
    <2>5. QED
      BY <2>1, <2>3, <2>4 DEF Written
  <1>2. 0 \in T
    BY <1>0, <1>1
  <1>3. ASSUME NEW k \in Nat, k \in T PROVE k + 1 \in T
    <2> SUFFICES ASSUME NEW v \in Int, v <= k + 1
                 PROVE  EncVarint[v] \in Seq(Byte) /\ EncVarint[v] # <<>>
      OBVIOUS
    <2>1. ASSUME v >= Base PROVE EncVarint[v \div Base] \in Seq(Byte)
      <3>1. v \div Base \in Int /\ v \div Base <= k
        BY <2>1, Division
      <3>2. QED
        BY <1>3, <3>1
    <2>2. QED
      BY <1>1, <2>1
  <1> HIDE DEF T
  <1>4. \A k \in Nat : k \in T
    BY <1>2, <1>3, InductionOnSet
  <1>5. ASSUME NEW v \in Int PROVE EncVarint[v] \in Seq(Byte) /\ EncVarint[v] # <<>>
    <2>1. PICK k \in Nat : v <= k
      OBVIOUS
    <2>2. QED
      BY <1>4, <2>1 DEF T
  <1>6. QED
    BY <1>5

(* The loop of _dec_varint, from its digit g on.                           *)
ReadOn(read, b, from, n, g) ==
    IF from + g > n \/ g = Groups THEN Bad
    ELSE IF b[from + g] < Base THEN Got(b[from + g] * Place[g], from + g + 1)
    ELSE IF read[g + 1].ok
         THEN Got(read[g + 1].v + (b[from + g] - Base) * Place[g], read[g + 1].i) ELSE Bad

LEMMA DecVarintUnfolds ==
    ASSUME NEW b, NEW from, NEW n
    PROVE  \E read : /\ \A g \in 0 .. Groups : read[g] = ReadOn(read, b, from, n, g)
                     /\ DecVarint(b, from, n) = read[0]
  <1> DEFINE D(k) == {g \in 0 .. Groups : g >= Groups - k}
             Solves(f, k) == f = [g \in D(k) |-> ReadOn(f, b, from, n, g)]
             T == {k \in Nat : \E f : Solves(f, k)}
  <1>0. Groups \in Nat \ {0}
    BY WidthAssumption
  <1>1. 0 \in T
    <2> DEFINE e == [g \in D(0) |-> Bad]
    <2>1. ASSUME NEW g \in D(0) PROVE Bad = ReadOn(e, b, from, n, g)
      <3>1. g = Groups
        BY <1>0
      <3>2. QED
        BY <3>1 DEF ReadOn
    <2>2. e = [g \in D(0) |-> Bad]
      OBVIOUS
    <2> HIDE DEF e, D
    <2>3. Solves(e, 0)
      BY <2>1, <2>2
    <2> HIDE DEF Solves
    <2>4. QED
      BY <2>3
  <1>2. ASSUME NEW k \in Nat, k \in T PROVE k + 1 \in T
    <2>1. PICK f : Solves(f, k)
      BY <1>2
    <2> DEFINE h == [g \in D(k + 1) |-> IF g \in D(k) THEN f[g] ELSE ReadOn(f, b, from, n, g)]
    <2>2. ASSUME NEW g \in D(k + 1)
          PROVE  h[g] = ReadOn(h, b, from, n, g)
      <3>1. g # Groups => g + 1 \in D(k) /\ g + 1 \in D(k + 1)
        BY <1>0
      <3>2. g # Groups => h[g + 1] = f[g + 1]
        BY <3>1
      <3>3. h[g] = ReadOn(f, b, from, n, g)
        <4>1. CASE g \in D(k)
          <5>1. f[g] = ReadOn(f, b, from, n, g)
            BY <2>1, <4>1
          <5>2. h[g] = f[g]
            BY <4>1
          <5>3. QED
            BY <5>1, <5>2
        <4>2. CASE g \notin D(k)
          BY <4>2
        <4>3. QED
          BY <4>1, <4>2
      <3> HIDE DEF h
      <3>4. ReadOn(h, b, from, n, g) = ReadOn(f, b, from, n, g)
        BY <3>2 DEF ReadOn
      <3>5. QED
        BY <3>3, <3>4
    <2>3. h = [g \in D(k + 1) |-> h[g]]
      OBVIOUS
    <2> HIDE DEF h, D
    <2>4. Solves(h, k + 1)
      BY <2>2, <2>3
    <2> HIDE DEF Solves
    <2>5. QED
      BY <2>4
  <1> HIDE DEF T
  <1>3. \A k \in Nat : k \in T
    BY <1>1, <1>2, InductionOnSet
  <1>4. PICK h : Solves(h, Groups)
    BY <1>0, <1>3 DEF T
  <1>5. D(Groups) = 0 .. Groups
    BY <1>0
  <1> HIDE DEF D
  <1>6. \E f : f = [g \in 0 .. Groups |-> ReadOn(f, b, from, n, g)]
    BY <1>4, <1>5
  <1> DEFINE read == CHOOSE f : f = [g \in 0 .. Groups |-> ReadOn(f, b, from, n, g)]
  <1>7. DecVarint(b, from, n) = read[0]
    BY DEF DecVarint, ReadOn
  <1>8. read = [g \in 0 .. Groups |-> ReadOn(read, b, from, n, g)]
    BY <1>6
  <1> HIDE DEF read
  <1>9. \A g \in 0 .. Groups : read[g] = ReadOn(read, b, from, n, g)
    BY <1>8, Zenon
  <1>10. QED
    BY <1>7, <1>9

LEMMA WorthUnfolds ==
    ASSUME NEW b \in Seq(Byte), NEW from \in Nat \ {0}, NEW n \in Nat, n <= Len(b)
    PROVE  \E w : /\ w = Worth(b, from)
                  /\ w[0] = 0
                  /\ \A k \in 1 .. Groups :
                        w[k] = w[k - 1] + (b[from + k - 1] % Base) * Place[k - 1]
                  /\ \A k \in 0 .. Groups : from + k - 1 <= n => w[k] \in Nat
  <1> DEFINE Step(f, k) == f[k - 1] + (b[from + k - 1] % Base) * Place[k - 1]
             Solves(f, m) == f = [k \in 0 .. m |-> IF k = 0 THEN 0 ELSE Step(f, k)]
             T == {m \in Nat : \E f : Solves(f, m)}
             w == Worth(b, from)
  <1>0. Groups \in Nat \ {0} /\ Base \in Nat /\ Base > 1
    BY WidthAssumption
  <1>1. 0 \in T
    <2> DEFINE e == [k \in 0 .. 0 |-> 0]
    <2>1. Solves(e, 0)
      OBVIOUS
    <2>2. QED
      BY <2>1
  <1>2. ASSUME NEW m \in Nat, m \in T PROVE m + 1 \in T
    <2>1. PICK f : Solves(f, m)
      BY <1>2
    <2> DEFINE h == [k \in 0 .. m + 1 |-> IF k = m + 1 THEN Step(f, k) ELSE f[k]]
    <2>2. ASSUME NEW k \in 0 .. m + 1
          PROVE  h[k] = IF k = 0 THEN 0 ELSE Step(h, k)
      <3>1. ASSUME k # 0 PROVE h[k - 1] = f[k - 1]
        <4>1. k - 1 \in 0 .. m + 1 /\ k - 1 # m + 1
          BY <3>1
        <4> HIDE DEF Step
        <4>2. QED
          BY <4>1
      <3>2. h[k] = IF k = 0 THEN 0 ELSE Step(f, k)
        <4>1. CASE k = m + 1
          BY <4>1
        <4>2. CASE k # m + 1
          <5>1. k \in 0 .. m
            BY <4>2
          <5> HIDE DEF Step
          <5>2. f[k] = IF k = 0 THEN 0 ELSE Step(f, k)
            BY <2>1, <5>1
          <5>3. h[k] = f[k]
            BY <4>2
          <5>4. QED
            BY <5>2, <5>3
        <4>3. QED
          BY <4>1, <4>2
      <3> HIDE DEF h
      <3>3. k # 0 => Step(h, k) = Step(f, k)
        BY <3>1
      <3> HIDE DEF Step
      <3>4. QED
        BY <3>2, <3>3
    <2>3. h = [k \in 0 .. m + 1 |-> h[k]]
      OBVIOUS
    <2> HIDE DEF h, Step
    <2>4. Solves(h, m + 1)
      BY <2>2, <2>3
    <2> HIDE DEF Solves
    <2>5. QED
      BY <2>4
  <1> HIDE DEF T
  <1>3. \A m \in Nat : m \in T
    BY <1>1, <1>2, InductionOnSet
  <1>4. \E f : Solves(f, Groups)
    BY <1>0, <1>3 DEF T
  <1>5. Solves(w, Groups)
    <2>1. w = CHOOSE f : Solves(f, Groups)
      BY DEF Worth
    <2> HIDE DEF w, Solves
    <2>2. QED
      BY <1>4, <2>1
  <1> HIDE DEF w
  <1>6. \A k \in 0 .. Groups : w[k] = IF k = 0 THEN 0 ELSE Step(w, k)
    <2> HIDE DEF Step
    <2>1. QED
      BY <1>5, Zenon
  <1>7. /\ w[0] = 0
        /\ \A k \in 1 .. Groups : w[k] = w[k - 1] + (b[from + k - 1] % Base) * Place[k - 1]
    <2>1. 0 \in 0 .. Groups /\ \A k \in 1 .. Groups : k \in 0 .. Groups /\ k # 0
      BY <1>0
    <2>2. \A k \in 1 .. Groups : w[k] = Step(w, k)
      <3> HIDE DEF Step
      <3>1. QED
        BY <1>6, <2>1
    <2>3. QED
      BY <1>6, <2>1, <2>2
  <1> DEFINE U == {k \in Nat : k <= Groups /\ from + k - 1 <= n => w[k] \in Nat}
  <1>8. 0 \in U
    BY <1>7
  <1>9. ASSUME NEW k \in Nat, k \in U PROVE k + 1 \in U
    <2> SUFFICES ASSUME k + 1 <= Groups, from + k <= n PROVE w[k + 1] \in Nat
      OBVIOUS
    <2>1. w[k] \in Nat /\ k + 1 \in 1 .. Groups /\ k \in 0 .. Groups
      BY <1>9, <1>0
    <2>2. w[k + 1] = w[k] + (b[from + k] % Base) * Place[k]
      BY <1>7, <2>1
    <2>3. b[from + k] \in Byte /\ b[from + k] \in Int
      BY <1>0, ElementOfSeq DEF Byte
    <2>4. (b[from + k] % Base) \in Nat /\ Place[k] \in Nat
      <3>1. b[from + k] % Base \in 0 .. Base - 1
        BY <2>3, Division
      <3>2. Place[k] \in Nat \ {0}
        BY <2>1, PlaceUnfolds
      <3>3. QED
        BY <1>0, <3>1, <3>2
    <2>5. \A x \in Nat, y \in Nat, z \in Nat : x + y * z \in Nat
      OBVIOUS
    <2>6. QED
      BY <2>1, <2>2, <2>4, <2>5
  <1> HIDE DEF U
  <1>10. \A k \in Nat : k \in U
    BY <1>8, <1>9, InductionOnSet
  <1>11. \A k \in 0 .. Groups : from + k - 1 <= n => w[k] \in Nat
    BY <1>0, <1>10 DEF U
  <1>12. QED
    BY <1>7, <1>11 DEF w

(* Any bytes read as their digits.                                         *)
LEMMA VarintDigits ==
    ASSUME NEW b \in Seq(Byte), NEW from \in Nat \ {0}, NEW n \in Nat, n <= Len(b), from <= n + 1
    PROVE  ReadsAsDigits(b, from, n, DecVarint(b, from, n))
  <1> DEFINE more(k) == b[from + k - 1] >= Base
             last == IF Groups <= n + 1 - from THEN Groups ELSE n + 1 - from
  <1>0. Groups \in Nat \ {0} /\ Base \in Nat /\ Base > 1
    BY WidthAssumption
  <1>1. PICK read : /\ \A g \in 0 .. Groups : read[g] = ReadOn(read, b, from, n, g)
                    /\ DecVarint(b, from, n) = read[0]
    BY DecVarintUnfolds
  <1>2. PICK w : /\ w = Worth(b, from)
                 /\ w[0] = 0
                 /\ \A k \in 1 .. Groups :
                        w[k] = w[k - 1] + (b[from + k - 1] % Base) * Place[k - 1]
                 /\ \A k \in 0 .. Groups : from + k - 1 <= n => w[k] \in Nat
    BY WorthUnfolds
  <1>3. last \in Nat /\ last <= Groups /\ from + last - 1 <= n
        /\ (last # Groups => from + last > n)
        /\ {k \in 1 .. Groups : from + k - 1 <= n} = 1 .. last
    BY <1>0
  <1> HIDE DEF last
  <1>4. \A k \in 1 .. last : b[from + k - 1] \in Byte
    <2> SUFFICES ASSUME NEW k \in 1 .. last PROVE b[from + k - 1] \in Byte
      OBVIOUS
    <2>1. from + k - 1 \in 1 .. Len(b)
      BY <1>3
    <2>2. QED
      BY <2>1, ElementOfSeq
  <1> DEFINE Ended(g) == \E k \in 1 .. last :
                           /\ k > g /\ ~more(k) /\ \A j \in 1 .. last : g < j /\ j < k => more(j)
                           /\ read[g] = Got(w[k] - w[g], from + k)
             Endless(g) == (\A k \in 1 .. last : k > g => more(k)) /\ read[g] = Bad
             T == {m \in Nat : m <= last => Ended(last - m) \/ Endless(last - m)}
  <1>5. 0 \in T
    <2>1. last \in 0 .. Groups /\ (from + last > n \/ last = Groups)
      BY <1>3
    <2>2. read[last] = ReadOn(read, b, from, n, last)
      BY <1>1, <2>1
    <2>3. read[last] = Bad
      BY <2>1, <2>2 DEF ReadOn
    <2>4. Endless(last - 0)
      BY <1>3, <2>3
    <2>5. QED
      BY <2>4
  <1>6. ASSUME NEW m \in Nat, m \in T PROVE m + 1 \in T
    <2> SUFFICES ASSUME m + 1 <= last
                 PROVE  Ended(last - (m + 1)) \/ Endless(last - (m + 1))
      OBVIOUS
    <2>1. PICK g \in 0 .. last - 1 : g = last - (m + 1) /\ g + 1 = last - m
      BY <1>3
    <2>2. Ended(g + 1) \/ Endless(g + 1)
      <3>1. m <= last
        BY <1>3
      <3> HIDE DEF Ended, Endless
      <3>2. QED
        BY <1>6, <2>1, <3>1
    <2>3. /\ g \in 0 .. Groups /\ g + 1 \in 1 .. last /\ g + 1 \in 1 .. Groups
          /\ ~(from + g > n) /\ g # Groups /\ from + (g + 1) - 1 = from + g /\ (g + 1) - 1 = g
          /\ from + g - 1 <= n /\ from + (g + 1) - 1 <= n
      BY <1>0, <1>3, <2>1
    <2>4. read[g] = ReadOn(read, b, from, n, g)
      BY <1>1, <2>3
    <2>5. w[g] \in Nat /\ w[g + 1] \in Nat
      BY <1>2, <2>3
    <2>6. PICK d \in Byte, p \in Nat : d = b[from + g] /\ p = Place[g]
      BY <1>4, <2>3, PlaceUnfolds
    <2>7. w[g + 1] = w[g] + (d % Base) * p
      BY <1>2, <2>3, <2>6
    <2>8. CASE d < Base
      <3>1. d % Base = d
        <4>1. d \in 0 .. Base - 1
          BY <1>0, <2>8 DEF Byte
        <4>2. QED
          BY <1>0, <4>1
      <3>2. read[g] = Got(d * p, from + g + 1)
        BY <2>3, <2>4, <2>6, <2>8 DEF ReadOn
      <3>3. d * p \in Int /\ w[g + 1] - w[g] = d * p
        BY <2>5, <2>6, <2>7, <3>1 DEF Byte
      <3>4. from + g + 1 = from + (g + 1)
        BY <2>3
      <3>5. ~more(g + 1)
        BY <1>0, <2>3, <2>6, <2>8 DEF Byte
      <3>6. g + 1 > g /\ \A j \in 1 .. last : ~(g < j /\ j < g + 1)
        BY <2>3
      <3>7. Ended(g)
        BY <2>3, <3>2, <3>3, <3>4, <3>5, <3>6
      <3>8. QED
        BY <2>1, <3>7
    <2>9. CASE ~(d < Base)
      <3>1. d % Base = d - Base
        <4>1. d - Base \in 0 .. Base - 1 /\ d = Base * 1 + (d - Base) /\ d \in Int
          BY <1>0, <2>9 DEF Byte
        <4>2. QED
          BY <1>0, <4>1
      <3>2. read[g] = IF read[g + 1].ok
                      THEN Got(read[g + 1].v + (d - Base) * p, read[g + 1].i) ELSE Bad
        BY <2>3, <2>4, <2>6, <2>9 DEF ReadOn
      <3>3. more(g + 1)
        BY <1>0, <2>3, <2>6, <2>9 DEF Byte
      <3>4. CASE Ended(g + 1)
        <4>1. PICK k \in 1 .. last :
                 /\ k > g + 1 /\ ~more(k)
                 /\ \A j \in 1 .. last : g + 1 < j /\ j < k => more(j)
                 /\ read[g + 1] = Got(w[k] - w[g + 1], from + k)
          BY <3>4
        <4>2. k \in 0 .. Groups /\ from + k - 1 <= n /\ k > g
          BY <1>0, <1>3, <2>3, <4>1
        <4>3. w[k] \in Nat
          BY <1>2, <4>2
        <4>4. read[g] = Got((w[k] - w[g + 1]) + (d - Base) * p, from + k)
          BY <3>2, <4>1 DEF Got
        <4>5. (w[k] - w[g + 1]) + (d - Base) * p = w[k] - w[g]
          <5>1. PICK q \in Int : q = (d - Base) * p
            BY <1>0, <2>6 DEF Byte
          <5>2. w[g + 1] = w[g] + q
            BY <2>7, <3>1, <5>1
          <5>3. QED
            BY <2>5, <4>3, <5>1, <5>2
        <4>6. \A j \in 1 .. last : g < j /\ j < k => more(j)
          <5> SUFFICES ASSUME NEW j \in 1 .. last, g < j, j < k PROVE more(j)
            OBVIOUS
          <5>1. j = g + 1 \/ g + 1 < j
            BY <1>3, <2>3
          <5>2. QED
            BY <3>3, <4>1, <5>1
        <4>7. Ended(g)
          BY <4>1, <4>2, <4>4, <4>5, <4>6
        <4>8. QED
          BY <2>1, <4>7
      <3>5. CASE Endless(g + 1)
        <4>1. read[g] = Bad
          BY <3>2, <3>5 DEF Bad
        <4>2. \A k \in 1 .. last : k > g => more(k)
          <5> SUFFICES ASSUME NEW k \in 1 .. last, k > g PROVE more(k)
            OBVIOUS
          <5>1. k = g + 1 \/ k > g + 1
            BY <2>3, <1>3
          <5>2. QED
            BY <3>3, <3>5, <5>1
        <4>3. Endless(g)
          BY <4>1, <4>2
        <4>4. QED
          BY <2>1, <4>3
      <3>6. QED
        BY <2>2, <3>4, <3>5
    <2>10. QED
      BY <2>8, <2>9
  <1> HIDE DEF T
  <1>7. \A m \in Nat : m \in T
    BY <1>5, <1>6, InductionOnSet
  <1>8. Ended(0) \/ Endless(0)
    <2>1. last \in T /\ last <= last /\ last - last = 0
      BY <1>3, <1>7
    <2>2. QED
      BY <2>1 DEF T
  <1>9. CASE Ended(0)
    <2>1. PICK k \in 1 .. last :
             /\ k > 0 /\ ~more(k) /\ \A j \in 1 .. last : 0 < j /\ j < k => more(j)
             /\ read[0] = Got(w[k] - w[0], from + k)
      BY <1>9
    <2>2. w[k] \in Nat /\ w[k] - 0 = w[k]
      <3>1. k \in 0 .. Groups /\ from + k - 1 <= n
        BY <1>0, <1>3
      <3>2. w[k] \in Nat
        BY <1>2, <3>1
      <3>3. QED
        BY <3>2
    <2>3. DecVarint(b, from, n) = Got(Worth(b, from)[k], from + k)
      BY <1>1, <1>2, <2>1, <2>2
    <2>4. \A j \in 1 .. k - 1 : more(j)
      <3> SUFFICES ASSUME NEW j \in 1 .. k - 1 PROVE more(j)
        OBVIOUS
      <3>1. j \in 1 .. last /\ 0 < j /\ j < k
        BY <1>3
      <3>2. QED
        BY <2>1, <3>1
    <2>5. k \in {x \in 1 .. Groups : from + x - 1 <= n}
      BY <1>3
    <2>6. QED
      BY <2>1, <2>3, <2>4, <2>5 DEF ReadsAsDigits
  <1>10. CASE Endless(0)
    <2>1. DecVarint(b, from, n) = Bad
      BY <1>1, <1>10
    <2>2. \A k \in {x \in 1 .. Groups : from + x - 1 <= n} : more(k)
      <3> SUFFICES ASSUME NEW k \in 1 .. last PROVE more(k)
        BY <1>3
      <3>1. k > 0
        BY <1>3
      <3>2. QED
        BY <1>10, <3>1
    <2>3. QED
      BY <2>1, <2>2 DEF ReadsAsDigits
  <1>11. QED
    BY <1>8, <1>9, <1>10

LEMMA VarintTyped ==
    ASSUME NEW b \in Seq(Byte), NEW from \in Nat \ {0}, NEW n \in Nat, n <= Len(b), from <= n + 1
    PROVE  \/ DecVarint(b, from, n) = Bad
           \/ \E v \in Nat, i \in from + 1 .. n + 1 : DecVarint(b, from, n) = Got(v, i)
  <1> DEFINE read == DecVarint(b, from, n)
  <1>1. ReadsAsDigits(b, from, n, read)
    BY VarintDigits
  <1> HIDE DEF read
  <1>2. ASSUME NEW k \in {x \in 1 .. Groups : from + x - 1 <= n},
               read = Got(Worth(b, from)[k], from + k)
        PROVE  \E v \in Nat, i \in from + 1 .. n + 1 : read = Got(v, i)
    <2>1. k \in 0 .. Groups /\ from + k - 1 <= n /\ from + k \in from + 1 .. n + 1
      BY WidthAssumption
    <2>2. Worth(b, from)[k] \in Nat
      BY <2>1, WorthUnfolds
    <2>3. QED
      BY <1>2, <2>1, <2>2
  <1>3. QED
    BY <1>1, <1>2 DEF ReadsAsDigits, read

(* A number is read from the bytes it is written as, and refused when the  *)
(* bytes end among them.                                                   *)
LEMMA VarintRead ==
    ASSUME NEW b, NEW from \in Nat \ {0}, NEW n \in Nat, NEW v \in 0 .. Word - 1,
           \A k \in 1 .. Len(EncVarint[v]) :
               from + k - 1 <= n => b[from + k - 1] = EncVarint[v][k]
    PROVE  /\ Len(EncVarint[v]) \in Nat \ {0}
           /\ from + Len(EncVarint[v]) - 1 <= n
                => DecVarint(b, from, n) = Got(v, from + Len(EncVarint[v]))
           /\ from + Len(EncVarint[v]) - 1 > n => DecVarint(b, from, n) = Bad
  <1> DEFINE E(u) == EncVarint[u]
             Matches(u, g) == \A k \in 1 .. Len(E(u)) :
                                 from + g + k - 1 <= n => b[from + g + k - 1] = E(u)[k]
             Result(u, g) == IF from + g + Len(E(u)) - 1 <= n
                             THEN Got(u * Place[g], from + g + Len(E(u))) ELSE Bad
  <1>0. Groups \in Nat \ {0} /\ Base \in Nat /\ Base > 1 /\ Word \in Nat
    BY WidthAssumption
  <1>1. PICK read : /\ \A g \in 0 .. Groups : read[g] = ReadOn(read, b, from, n, g)
                    /\ DecVarint(b, from, n) = read[0]
    BY DecVarintUnfolds
  <1>2. \A u \in Nat : E(u) \in Seq(Byte) /\ Len(E(u)) \in Nat \ {0}
    <2> SUFFICES ASSUME NEW u \in Nat PROVE E(u) \in Seq(Byte) /\ Len(E(u)) \in Nat \ {0}
      OBVIOUS
    <2>1. E(u) \in Seq(Byte) /\ E(u) # <<>>
      BY EncVarintTyped
    <2> HIDE DEF E
    <2>2. QED
      BY <2>1, EmptySeq, LenProperties
  <1> DEFINE Read1(u, g) == u * Place[g] < Word /\ Matches(u, g) => read[g] = Result(u, g)
             T == {m \in Nat : \A u \in 0 .. m, g \in 0 .. Groups - 1 : Read1(u, g)}
  <1>3. ASSUME NEW u \in Nat, NEW g \in 0 .. Groups - 1, u < Base PROVE Read1(u, g)
    <2> SUFFICES ASSUME Matches(u, g) PROVE read[g] = Result(u, g)
      OBVIOUS
    <2>1. E(u) = <<u>>
      <3>1. u % Base = u /\ ~(u >= Base)
        <4>1. u \in 0 .. Base - 1
          BY <1>0, <1>3
        <4>2. QED
          BY <1>0, <4>1
      <3>2. E(u) = Written(EncVarint, u)
        BY EncVarintUnfolds
      <3>3. QED
        BY <3>1, <3>2 DEF Written
    <2>2. Len(E(u)) = 1 /\ E(u)[1] = u /\ 1 \in 1 .. Len(E(u)) /\ from + g + 1 - 1 = from + g
      BY <2>1, <1>0
    <2>3. g \in 0 .. Groups /\ g # Groups /\ g \in Nat
      BY <1>0
    <2>4. read[g] = ReadOn(read, b, from, n, g)
      BY <1>1, <2>3
    <2>5. from + g <= n => b[from + g] = u
      BY <2>2
    <2> HIDE DEF E
    <2>6. CASE from + g <= n
      <3>1. read[g] = Got(u * Place[g], from + g + 1)
        BY <1>3, <2>3, <2>4, <2>5, <2>6 DEF ReadOn
      <3>2. QED
        BY <2>2, <2>6, <3>1
    <2>7. CASE from + g > n
      <3>1. read[g] = Bad
        BY <2>4, <2>7 DEF ReadOn
      <3>2. ~(from + g + 1 - 1 <= n)
        BY <2>3, <2>7
      <3>3. QED
        BY <2>2, <3>1, <3>2
    <2>8. QED
      BY <2>3, <2>6, <2>7
  <1>4. 0 \in T
    <2> HIDE DEF Matches, Result, Read1
    <2>1. \A u \in 0 .. 0 : u \in Nat /\ u < Base
      BY <1>0
    <2>2. QED
      BY <1>3, <2>1
  <1>5. ASSUME NEW m \in Nat, m \in T PROVE m + 1 \in T
    <2> SUFFICES ASSUME NEW u \in 0 .. m + 1, NEW g \in 0 .. Groups - 1, u >= Base,
                        u * Place[g] < Word, Matches(u, g)
                 PROVE  read[g] = Result(u, g)
      <3>1. \A u \in 0 .. m + 1 : u \in Nat /\ (u < Base \/ u >= Base)
        BY <1>0
      <3> HIDE DEF Matches, Result
      <3>2. QED
        BY <1>3, <3>1
    <2>1. PICK q \in Int, r \in 0 .. Base - 1 :
             q = u \div Base /\ r = u % Base /\ u = Base * q + r /\ 1 <= q /\ q < u
      BY Division
    <2>2. E(u) = <<Base + r>> \o E(q)
      <3>1. E(u) = Written(EncVarint, u)
        BY EncVarintUnfolds
      <3>2. QED
        BY <2>1, <3>1 DEF Written
    <2>3. q \in 0 .. m /\ q \in Nat /\ u \in Nat
      BY <2>1
    <2>4. /\ Len(E(u)) = 1 + Len(E(q)) /\ E(u)[1] = Base + r /\ Len(E(q)) \in Nat \ {0}
          /\ \A k \in 1 .. Len(E(q)) : E(u)[k + 1] = E(q)[k]
      <3> DEFINE d == <<Base + r>>
                 rest == E(q)
      <3>1. d \in Seq(Byte) /\ Len(d) = 1 /\ d[1] = Base + r /\ rest \in Seq(Byte)
            /\ Len(rest) \in Nat \ {0}
        <4>1. Base + r \in Byte
          BY <1>0 DEF Byte
        <4>2. d \in Seq(Byte) /\ Len(d) = 1 /\ d[1] = Base + r
          BY <4>1
        <4> HIDE DEF E
        <4>3. QED
          BY <1>2, <2>3, <4>2
      <3> HIDE DEF d, rest
      <3>2. /\ Len(d \o rest) = 1 + Len(rest) /\ (d \o rest)[1] = Base + r
            /\ \A k \in 1 .. Len(rest) : (d \o rest)[k + 1] = rest[k]
        <4>1. Len(d \o rest) = Len(d) + Len(rest)
          BY <3>1, ConcatProperties
        <4>2. (d \o rest)[1] = d[1]
          BY <3>1, <4>1, ConcatProperties
        <4>3. ASSUME NEW k \in 1 .. Len(rest) PROVE (d \o rest)[k + 1] = rest[k]
          <5>1. PICK i \in 1 .. Len(d) + Len(rest) :
                   i = k + 1 /\ ~(i <= Len(d)) /\ i - Len(d) = k
            BY <3>1
          <5>2. \A j \in 1 .. Len(d) + Len(rest) :
                   (d \o rest)[j] = IF j <= Len(d) THEN d[j] ELSE rest[j - Len(d)]
            BY <3>1, ConcatProperties
          <5>3. (d \o rest)[i] = rest[i - Len(d)]
            BY <5>1, <5>2
          <5>4. QED
            BY <5>1, <5>3
        <4>4. QED
          BY <3>1, <4>1, <4>2, <4>3
      <3>3. QED
        BY <2>2, <3>1, <3>2 DEF d, rest
    <2>5. g \in 0 .. Groups /\ g # Groups /\ g \in Nat /\ g + 1 \in 1 .. Groups
      BY <1>0
    <2>6. PICK p \in Nat \ {0} : p = Place[g] /\ Place[g + 1] = Base * p
      <3>1. Place[g] \in Nat \ {0}
        BY <2>5, PlaceUnfolds
      <3>2. Place[g + 1] = Base * Place[(g + 1) - 1] /\ (g + 1) - 1 = g
        BY <2>5, PlaceUnfolds
      <3>3. QED
        BY <3>1, <3>2
    <2>7. q * Place[g + 1] + r * p = u * p /\ r * p \in Nat /\ q * Place[g + 1] \in Nat
      <3>1. Base \in Nat /\ q \in Nat /\ r \in Nat /\ p \in Nat
        BY <1>0, <2>3
      <3>2. q * (Base * p) + r * p = (Base * q + r) * p /\ r * p \in Nat /\ q * (Base * p) \in Nat
        BY <3>1
      <3>3. QED
        BY <2>1, <2>6, <3>2
    <2>8. q * Place[g + 1] < Word
      <3>1. PICK x \in Nat, y \in Nat : x = q * Place[g + 1] /\ y = r * p
        BY <2>7
      <3>2. u * p = x + y /\ u * p < Word
        BY <2>6, <2>7, <3>1
      <3>3. QED
        BY <1>0, <3>1, <3>2
    <2>9. g + 1 \in 0 .. Groups - 1
      <3> SUFFICES ASSUME g + 1 = Groups PROVE FALSE
        BY <1>0, <2>5
      <3>1. Word <= Place[g + 1] /\ Place[g + 1] \in Nat
        BY <2>5, WidthAssumption, PlaceUnfolds
      <3>2. \A a \in Nat, x \in Nat : 1 <= a => x <= a * x
        OBVIOUS
      <3>3. Place[g + 1] <= q * Place[g + 1]
        BY <2>1, <2>3, <3>1, <3>2
      <3>4. QED
        BY <1>0, <2>7, <2>8, <3>1, <3>3
    <2>10. read[g] = ReadOn(read, b, from, n, g)
      BY <1>1, <2>5
    <2>11. from + g <= n => b[from + g] = Base + r
      <3>1. 1 \in 1 .. Len(E(u)) /\ from + g + 1 - 1 = from + g
        BY <2>4, <2>5
      <3>2. QED
        BY <2>4, <3>1
    <2>12. Matches(q, g + 1)
      <3> SUFFICES ASSUME NEW k \in 1 .. Len(E(q)), from + (g + 1) + k - 1 <= n
                   PROVE  b[from + (g + 1) + k - 1] = E(q)[k]
        OBVIOUS
      <3>1. k + 1 \in 1 .. Len(E(u)) /\ from + (g + 1) + k - 1 = from + g + (k + 1) - 1
        BY <2>4, <2>5
      <3>2. E(u)[k + 1] = E(q)[k]
        BY <2>4
      <3> HIDE DEF E
      <3>3. QED
        BY <3>1, <3>2
    <2>13. read[g + 1] = Result(q, g + 1)
      <3> HIDE DEF Matches, Result
      <3>1. QED
        BY <1>5, <2>3, <2>8, <2>9, <2>12
    <2> HIDE DEF E, Matches
    <2>14. CASE from + g > n
      <3>1. read[g] = Bad
        BY <2>10, <2>14 DEF ReadOn
      <3>2. ~(from + g + Len(E(u)) - 1 <= n)
        BY <2>4, <2>5, <2>14
      <3>3. QED
        BY <3>1, <3>2
    <2>15. CASE from + g <= n
      <3>1. /\ ~(from + g > n) /\ ~(Base + r < Base) /\ (Base + r) - Base = r
            /\ from + (g + 1) + Len(E(q)) = from + g + Len(E(u))
            /\ from + (g + 1) + Len(E(q)) - 1 = from + g + Len(E(u)) - 1
        <4>1. PICK l \in Nat : l = Len(E(q)) /\ Len(E(u)) = 1 + l
          BY <2>4
        <4>2. ~(from + g > n) /\ ~(Base + r < Base) /\ (Base + r) - Base = r
          BY <1>0, <2>5, <2>15
        <4>3. from + (g + 1) + l = from + g + (1 + l)
          BY <2>5
        <4>4. QED
          BY <4>1, <4>2, <4>3
      <3>2. read[g] = IF read[g + 1].ok
                      THEN Got(read[g + 1].v + r * p, read[g + 1].i) ELSE Bad
        BY <2>5, <2>6, <2>10, <2>11, <2>15, <3>1 DEF ReadOn
      <3>3. CASE from + g + Len(E(u)) - 1 <= n
        <4>1. read[g + 1] = Got(q * Place[g + 1], from + g + Len(E(u)))
          BY <2>13, <3>1, <3>3
        <4>2. read[g] = Got(q * Place[g + 1] + r * p, from + g + Len(E(u)))
          BY <3>2, <4>1 DEF Got
        <4>3. QED
          BY <2>6, <2>7, <3>3, <4>2
      <3>4. CASE ~(from + g + Len(E(u)) - 1 <= n)
        <4>1. read[g + 1] = Bad
          BY <2>13, <3>1, <3>4
        <4>2. QED
          BY <3>2, <3>4, <4>1 DEF Bad
      <3>5. QED
        BY <3>3, <3>4
    <2>16. QED
      BY <2>5, <2>14, <2>15
  <1> HIDE DEF T
  <1>6. \A m \in Nat : m \in T
    BY <1>4, <1>5, InductionOnSet
  <1>7. Read1(v, 0)
    <2>1. v \in Nat /\ v \in 0 .. v /\ 0 \in 0 .. Groups - 1
      BY <1>0
    <2> HIDE DEF Read1
    <2>2. QED
      BY <1>6, <2>1 DEF T
  <1>8. v * Place[0] = v /\ v < Word
    BY <1>0, PlaceUnfolds
  <1>9. Matches(v, 0)
    <2>1. from + 0 = from
      OBVIOUS
    <2>2. QED
      BY <2>1
  <1>10. read[0] = Result(v, 0)
    BY <1>7, <1>8, <1>9
  <1>11. Len(E(v)) \in Nat \ {0} /\ from + 0 = from
    BY <1>2
  <1>12. QED
    BY <1>1, <1>8, <1>10, <1>11

(* A status comes back from the word that stands for it.                   *)
LEMMA Int32Back ==
    ASSUME NEW v \in Int32Range
    PROVE  Int32Word(v) \in 0 .. Word - 1 /\ DecInt32(Int32Word(v)) = v
  <1>1. /\ Int32 \in Nat /\ Word \in Nat /\ v \in Int
        /\ -(Int32 \div 2) <= v /\ v <= Int32 \div 2 - 1
    BY WidthAssumption DEF Int32Range
  <1>2. Int32 = 2 * (Int32 \div 2) /\ Word = 2 * (Word \div 2) /\ Int32 < Word
    BY <1>1, WidthAssumption
  <1>3. CASE v < 0
    <2>1. v % Word = v + Word
      <3>1. v + Word \in 0 .. Word - 1 /\ v = Word * (-1) + (v + Word)
        BY <1>1, <1>2, <1>3
      <3>2. QED
        BY <1>1, <3>1
    <2>2. QED
      BY <1>1, <1>2, <1>3, <2>1 DEF Int32Word, DecInt32
  <1>4. CASE v >= 0
    BY <1>1, <1>2, <1>4 DEF Int32Word, DecInt32
  <1>5. QED
    BY <1>1, <1>3, <1>4

-------------------------------------------------------------------------------
(* What the messages at work may hold: the fields they have, and in them   *)
(* whatever the bytes say.                                                 *)
Bytes == Seq(Byte)
HeldFieldError == Bytes \X Bytes \X Bytes \X Seq(Bytes)
HeldEntry == Bytes \X Bytes
HeldAppError == Bytes \X Bytes \X Seq(Bytes) \X Seq(HeldFieldError) \X Seq(HeldEntry)
HeldEnvelope == Int \X Bytes \X Bytes \X Seq(HeldAppError)

HeldBy(type) == CASE type = "FieldError" -> HeldFieldError
                  [] type = "Entry" -> HeldEntry
                  [] type = "AppError" -> HeldAppError
                  [] type = "Envelope" -> HeldEnvelope

HeldAs(kind) == CASE kind = "int32" -> Int
                  [] kind \in {"string", "bytes"} -> Bytes
                  [] kind = "strings" -> Seq(Bytes)
                  [] kind = "FieldError" -> Seq(HeldFieldError)
                  [] kind = "Entry" -> Seq(HeldEntry)
                  [] kind = "AppError" -> Seq(HeldAppError)

AFrame == [type : Message, num : Nat, i : Nat \ {0}, last : Nat,
           m : HeldFieldError \union HeldEntry \union HeldAppError \union HeldEnvelope]

LEMMA MessageIs == Message = {"Envelope", "AppError", "FieldError", "Entry"}
  BY DEF Message, Fields

LEMMA FieldsAre ==
    /\ Fields["Envelope"] = <<"int32", "string", "bytes", "AppError">>
    /\ Fields["AppError"] = <<"string", "string", "strings", "FieldError", "Entry">>
    /\ Fields["FieldError"] = <<"string", "string", "string", "strings">>
    /\ Fields["Entry"] = <<"string", "string">>
  BY DEF Fields

LEMMA HeldUpdate ==
    ASSUME NEW type \in Message, NEW k \in DOMAIN Fields[type],
           NEW m \in HeldBy(type), NEW v \in HeldAs(Fields[type][k])
    PROVE  /\ m[k] \in HeldAs(Fields[type][k])
           /\ [m EXCEPT ![k] = v] \in HeldBy(type)
  <1>1. CASE type = "Envelope"
    <2>1. m \in HeldEnvelope /\ k \in 1 .. 4 /\ HeldBy(type) = HeldEnvelope
      BY <1>1, FieldsAre DEF HeldBy
    <2>2. \/ k = 1 /\ HeldAs(Fields[type][k]) = Int
          \/ k \in {2, 3} /\ HeldAs(Fields[type][k]) = Bytes
          \/ k = 4 /\ HeldAs(Fields[type][k]) = Seq(HeldAppError)
      BY <1>1, <2>1, FieldsAre DEF HeldAs
    <2>3. QED
      BY <2>1, <2>2 DEF HeldEnvelope
  <1>2. CASE type = "AppError"
    <2>1. m \in HeldAppError /\ k \in 1 .. 5 /\ HeldBy(type) = HeldAppError
      BY <1>2, FieldsAre DEF HeldBy
    <2>2. \/ k \in {1, 2} /\ HeldAs(Fields[type][k]) = Bytes
          \/ k = 3 /\ HeldAs(Fields[type][k]) = Seq(Bytes)
          \/ k = 4 /\ HeldAs(Fields[type][k]) = Seq(HeldFieldError)
          \/ k = 5 /\ HeldAs(Fields[type][k]) = Seq(HeldEntry)
      BY <1>2, <2>1, FieldsAre DEF HeldAs
    <2>3. PICK w : w = [m EXCEPT ![k] = v]
      OBVIOUS
    <2>4. /\ m[1] \in Bytes /\ m[2] \in Bytes /\ m[3] \in Seq(Bytes)
          /\ m[4] \in Seq(HeldFieldError) /\ m[5] \in Seq(HeldEntry)
          /\ m = <<m[1], m[2], m[3], m[4], m[5]>>
      BY <2>1 DEF HeldAppError
    <2>5. w[k] = v /\ \A j \in 1 .. 5 : j # k => w[j] = m[j]
      BY <2>1, <2>3, <2>4
    <2>6. /\ w[1] \in Bytes /\ w[2] \in Bytes /\ w[3] \in Seq(Bytes)
          /\ w[4] \in Seq(HeldFieldError) /\ w[5] \in Seq(HeldEntry)
      BY <2>2, <2>4, <2>5
    <2>7. w = <<w[1], w[2], w[3], w[4], w[5]>>
      BY <2>3, <2>4
    <2>8. w \in HeldAppError
      BY <2>6, <2>7 DEF HeldAppError
    <2>9. m[k] \in HeldAs(Fields[type][k])
      BY <2>1, <2>2, <2>4
    <2>10. QED
      BY <2>1, <2>3, <2>8, <2>9
  <1>3. CASE type = "FieldError"
    <2>1. m \in HeldFieldError /\ k \in 1 .. 4 /\ HeldBy(type) = HeldFieldError
      BY <1>3, FieldsAre DEF HeldBy
    <2>2. \/ k \in {1, 2, 3} /\ HeldAs(Fields[type][k]) = Bytes
          \/ k = 4 /\ HeldAs(Fields[type][k]) = Seq(Bytes)
      BY <1>3, <2>1, FieldsAre DEF HeldAs
    <2>3. QED
      BY <2>1, <2>2 DEF HeldFieldError
  <1>4. CASE type = "Entry"
    <2>1. m \in HeldEntry /\ k \in 1 .. 2 /\ HeldBy(type) = HeldEntry
      BY <1>4, FieldsAre DEF HeldBy
    <2>2. HeldAs(Fields[type][k]) = Bytes
      BY <1>4, <2>1, FieldsAre DEF HeldAs
    <2>3. QED
      BY <2>1, <2>2 DEF HeldEntry
  <1>5. QED
    BY <1>1, <1>2, <1>3, <1>4, MessageIs

LEMMA NewHeld == \A type \in Message : New(type) \in HeldBy(type)
  <1> SUFFICES ASSUME NEW type \in Message PROVE New(type) \in HeldBy(type)
    OBVIOUS
  <1>1. <<>> \in Bytes /\ <<>> \in Seq(Bytes) /\ <<>> \in Seq(HeldFieldError)
        /\ <<>> \in Seq(HeldEntry) /\ <<>> \in Seq(HeldAppError)
    BY DEF Bytes
  <1>2. CASE type = "Envelope"
    <2>1. DOMAIN Fields[type] = 1 .. 4
      BY <1>2, FieldsAre
    <2>2. PICK f : f = New(type)
      OBVIOUS
    <2>3. f = [k \in 1 .. 4 |-> IF Fields[type][k] = "int32" THEN 0 ELSE <<>>]
      BY <2>1, <2>2 DEF New
    <2>4. \A k \in 1 .. 4 : Fields[type][k] = "int32" <=> k = 1
      BY <1>2, FieldsAre
    <2>5. f = <<f[1], f[2], f[3], f[4]>>
      BY <2>3
    <2>6. f[1] = 0 /\ f[2] = <<>> /\ f[3] = <<>> /\ f[4] = <<>>
      BY <2>3, <2>4
    <2>7. f \in HeldEnvelope
      <3>1. f[1] \in Int /\ f[2] \in Bytes /\ f[3] \in Bytes /\ f[4] \in Seq(HeldAppError)
        BY <1>1, <2>6
      <3>2. QED
        BY <2>5, <3>1 DEF HeldEnvelope
    <2>8. QED
      BY <1>2, <2>2, <2>7 DEF HeldBy
  <1>3. CASE type = "AppError"
    <2>1. DOMAIN Fields[type] = 1 .. 5
      BY <1>3, FieldsAre
    <2>2. PICK f : f = New(type)
      OBVIOUS
    <2>3. f = [k \in 1 .. 5 |-> IF Fields[type][k] = "int32" THEN 0 ELSE <<>>]
      BY <2>1, <2>2 DEF New
    <2>4. \A k \in 1 .. 5 : Fields[type][k] = "int32" <=> FALSE
      BY <1>3, FieldsAre
    <2>5. f = <<f[1], f[2], f[3], f[4], f[5]>>
      BY <2>3
    <2>6. f[1] = <<>> /\ f[2] = <<>> /\ f[3] = <<>> /\ f[4] = <<>> /\ f[5] = <<>>
      BY <2>3, <2>4
    <2>7. f \in HeldAppError
      BY <1>1, <2>5, <2>6 DEF HeldAppError
    <2>8. QED
      BY <1>3, <2>2, <2>7 DEF HeldBy
  <1>4. CASE type = "FieldError"
    <2>1. DOMAIN Fields[type] = 1 .. 4
      BY <1>4, FieldsAre
    <2>2. PICK f : f = New(type)
      OBVIOUS
    <2>3. f = [k \in 1 .. 4 |-> IF Fields[type][k] = "int32" THEN 0 ELSE <<>>]
      BY <2>1, <2>2 DEF New
    <2>4. \A k \in 1 .. 4 : Fields[type][k] = "int32" <=> FALSE
      BY <1>4, FieldsAre
    <2>5. f = <<f[1], f[2], f[3], f[4]>>
      BY <2>3
    <2>6. f[1] = <<>> /\ f[2] = <<>> /\ f[3] = <<>> /\ f[4] = <<>>
      BY <2>3, <2>4
    <2>7. f \in HeldFieldError
      BY <1>1, <2>5, <2>6 DEF HeldFieldError
    <2>8. QED
      BY <1>4, <2>2, <2>7 DEF HeldBy
  <1>5. CASE type = "Entry"
    <2>1. DOMAIN Fields[type] = 1 .. 2
      BY <1>5, FieldsAre
    <2>2. PICK f : f = New(type)
      OBVIOUS
    <2>3. f = [k \in 1 .. 2 |-> IF Fields[type][k] = "int32" THEN 0 ELSE <<>>]
      BY <2>1, <2>2 DEF New
    <2>4. \A k \in 1 .. 2 : Fields[type][k] = "int32" <=> FALSE
      BY <1>5, FieldsAre
    <2>5. f = <<f[1], f[2]>>
      BY <2>3
    <2>6. f[1] = <<>> /\ f[2] = <<>>
      BY <2>3, <2>4
    <2>7. f \in HeldEntry
      BY <1>1, <2>5, <2>6 DEF HeldEntry
    <2>8. QED
      BY <1>5, <2>2, <2>7 DEF HeldBy
  <1>6. QED
    BY <1>2, <1>3, <1>4, <1>5, MessageIs

-------------------------------------------------------------------------------
(* What is written is bytes.                                               *)
LEMMA BytesJoined ==
    /\ <<>> \in Bytes
    /\ \A s, t \in Bytes : s \o t \in Bytes
    /\ \A ss \in Seq(Bytes) : FlattenSeq(ss) \in Bytes
  <1>1. \A s, t \in Seq(Byte) : s \o t \in Seq(Byte)
    BY ConcatProperties
  <1>2. ASSUME NEW ss \in Seq(Seq(Byte)) PROVE FlattenSeq(ss) \in Seq(Byte)
    <2>1. <<>> \in Seq(Byte)
      BY EmptySeq
    <2>2. QED
      BY <2>1, FlattenAppend
  <1>3. QED
    BY <1>1, <1>2 DEF Bytes

LEMMA DelimitedTyped ==
    ASSUME NEW num \in Nat, NEW s \in Bytes
    PROVE  /\ Tag(num, 2) \in Bytes /\ Tag(num, 0) \in Bytes /\ EncVarint[Len(s)] \in Bytes
           /\ Delimited(num, s) \in Bytes
  <1>1. num * 8 + 2 \in Int /\ num * 8 + 0 \in Int /\ Len(s) \in Int
    BY LenProperties DEF Bytes
  <1>2. Tag(num, 2) \in Bytes /\ Tag(num, 0) \in Bytes /\ EncVarint[Len(s)] \in Bytes
    BY <1>1, EncVarintTyped DEF Tag, Bytes
  <1>3. Tag(num, 2) \o EncVarint[Len(s)] \in Bytes
    BY <1>2, BytesJoined
  <1>4. (Tag(num, 2) \o EncVarint[Len(s)]) \o s \in Bytes
    BY <1>3, BytesJoined
  <1>5. QED
    BY <1>2, <1>4 DEF Delimited

(* The fields of a message as EncodeField is given them.                   *)
GivenAs(kind) == CASE kind = "int32" -> Int32Range
                   [] kind \in {"string", "bytes"} -> Bytes
                   [] OTHER -> Seq(Bytes)

LEMMA FieldTyped ==
    ASSUME NEW num \in Nat, NEW kind, NEW value \in GivenAs(kind)
    PROVE  EncodeField(num, kind, value) \in Bytes
  <1>1. CASE kind = "int32"
    <2>1. value \in Int32Range
      BY <1>1 DEF GivenAs
    <2>2. Int32Word(value) \in Int
      BY <2>1, Int32Back
    <2>3. EncVarint[Int32Word(value)] \in Bytes /\ Tag(num, 0) \in Bytes /\ <<>> \in Bytes
      BY <2>2, EncVarintTyped, DelimitedTyped, BytesJoined DEF Bytes
    <2>4. Tag(num, 0) \o EncVarint[Int32Word(value)] \in Bytes
      BY <2>3, BytesJoined
    <2>5. QED
      BY <1>1, <2>3, <2>4 DEF EncodeField
  <1>2. CASE kind \in {"string", "bytes"}
    <2>1. value \in Bytes
      BY <1>2 DEF GivenAs
    <2>2. QED
      BY <1>2, <2>1, DelimitedTyped, BytesJoined DEF EncodeField
  <1>3. CASE kind \notin {"int32", "string", "bytes"}
    <2>1. value \in Seq(Bytes) /\ Len(value) \in Nat /\ DOMAIN value = 1 .. Len(value)
      BY <1>3, LenProperties DEF GivenAs
    <2>2. \A k \in DOMAIN value : Delimited(num, value[k]) \in Bytes
      BY <2>1, ElementOfSeq, DelimitedTyped
    <2>3. [k \in DOMAIN value |-> Delimited(num, value[k])] \in Seq(Bytes)
      BY <2>1, <2>2
    <2>4. FlattenSeq([k \in DOMAIN value |-> Delimited(num, value[k])]) \in Bytes
      BY <2>3, BytesJoined
    <2>5. QED
      BY <1>3, <2>4 DEF EncodeField
  <1>4. QED
    BY <1>1, <1>2, <1>3

LEMMA FieldsTyped ==
    ASSUME NEW type, NEW n \in Nat, NEW m, DOMAIN m = 1 .. n,
           \A k \in 1 .. n : m[k] \in GivenAs(Fields[type][k])
    PROVE  /\ FieldsOf(type, m) \in Seq(Bytes) /\ Len(FieldsOf(type, m)) = n
           /\ FlattenSeq(FieldsOf(type, m)) \in Bytes
  <1>1. \A k \in 1 .. n : EncodeField(k, Fields[type][k], m[k]) \in Bytes
    BY FieldTyped
  <1>2. FieldsOf(type, m) = [k \in 1 .. n |-> EncodeField(k, Fields[type][k], m[k])]
    BY DEF FieldsOf
  <1>3. QED
    BY <1>1, <1>2, BytesJoined

(* A string, and a message with strings, is made of bytes.                 *)
LEMMA StringsAreBytes ==
    /\ String \subseteq Bytes /\ Seq(String) \subseteq Seq(Bytes)
    /\ AFieldError \subseteq HeldFieldError /\ Seq(AFieldError) \subseteq Seq(HeldFieldError)
    /\ AnEntry \subseteq HeldEntry /\ Seq(AnEntry) \subseteq Seq(HeldEntry)
    /\ AnAppError \subseteq HeldAppError
    /\ AnEnvelope \subseteq HeldEnvelope
  <1>1. String \subseteq Bytes
    BY DEF String, Bytes
  <1>2. Seq(String) \subseteq Seq(Bytes)
    BY <1>1, SeqMonotonic
  <1>3. AFieldError \subseteq HeldFieldError
    BY <1>1, <1>2 DEF AFieldError, HeldFieldError
  <1>4. AnEntry \subseteq HeldEntry
    BY <1>1 DEF AnEntry, HeldEntry
  <1>5. Seq(AFieldError) \subseteq Seq(HeldFieldError) /\ Seq(AnEntry) \subseteq Seq(HeldEntry)
    BY <1>3, <1>4, SeqMonotonic
  <1>6. AnAppError \subseteq HeldAppError
    BY <1>1, <1>2, <1>5 DEF AnAppError, HeldAppError
  <1>7. Seq(AnAppError) \subseteq Seq(HeldAppError)
    BY <1>6, SeqMonotonic
  <1>8. Int32Range \subseteq Int
    BY WidthAssumption DEF Int32Range
  <1>9. AnEnvelope \subseteq HeldEnvelope
    BY <1>1, <1>7, <1>8 DEF AnEnvelope, HeldEnvelope, Bytes
  <1>10. QED
    BY <1>1, <1>2, <1>3, <1>4, <1>5, <1>6, <1>9

LEMMA EachTyped ==
    ASSUME NEW type \in {"FieldError", "Entry"}, NEW ms \in Seq(HeldBy(type))
    PROVE  EncodeEach(type, ms) \in Seq(Bytes) /\ Len(EncodeEach(type, ms)) = Len(ms)
  <1>1. Len(ms) \in Nat /\ DOMAIN ms = 1 .. Len(ms)
    BY LenProperties
  <1>2. ASSUME NEW k \in 1 .. Len(ms) PROVE FlattenSeq(FieldsOf(type, ms[k])) \in Bytes
    <2>1. ms[k] \in HeldBy(type)
      BY ElementOfSeq
    <2>2. CASE type = "FieldError"
      <3>1. DOMAIN ms[k] = 1 .. 4 /\ 4 \in Nat
        BY <2>1, <2>2 DEF HeldBy, HeldFieldError
      <3>2. \A j \in 1 .. 4 : ms[k][j] \in GivenAs(Fields[type][j])
        BY <2>1, <2>2, FieldsAre DEF HeldBy, HeldFieldError, GivenAs
      <3>3. QED
        BY <3>1, <3>2, FieldsTyped
    <2>3. CASE type = "Entry"
      <3>1. DOMAIN ms[k] = 1 .. 2 /\ 2 \in Nat
        BY <2>1, <2>3 DEF HeldBy, HeldEntry
      <3>2. \A j \in 1 .. 2 : ms[k][j] \in GivenAs(Fields[type][j])
        BY <2>1, <2>3, FieldsAre DEF HeldBy, HeldEntry, GivenAs
      <3>3. QED
        BY <3>1, <3>2, FieldsTyped
    <2>4. QED
      BY <2>2, <2>3
  <1>3. EncodeEach(type, ms) = [k \in 1 .. Len(ms) |-> FlattenSeq(FieldsOf(type, ms[k]))]
    BY <1>1 DEF EncodeEach
  <1>4. QED
    BY <1>1, <1>2, <1>3

LEMMA InsideTyped ==
    ASSUME NEW a \in HeldAppError
    PROVE  /\ DOMAIN EncodeInside(a) = 1 .. 5
           /\ \A k \in 1 .. 3 : EncodeInside(a)[k] = a[k]
           /\ EncodeInside(a)[4] = EncodeEach("FieldError", a[4])
           /\ EncodeInside(a)[5] = EncodeEach("Entry", a[5])
           /\ \A k \in 1 .. 5 : EncodeInside(a)[k] \in GivenAs(Fields["AppError"][k])
           /\ FieldsOf("AppError", EncodeInside(a)) \in Seq(Bytes)
           /\ Len(FieldsOf("AppError", EncodeInside(a))) = 5
           /\ FlattenSeq(FieldsOf("AppError", EncodeInside(a))) \in Bytes
  <1>1. /\ a[1] \in Bytes /\ a[2] \in Bytes /\ a[3] \in Seq(Bytes)
        /\ a[4] \in Seq(HeldFieldError) /\ a[5] \in Seq(HeldEntry)
        /\ a = <<a[1], a[2], a[3], a[4], a[5]>>
    BY DEF HeldAppError
  <1>2. PICK f, g : f = EncodeEach("FieldError", a[4]) /\ g = EncodeEach("Entry", a[5])
    OBVIOUS
  <1>3. f \in Seq(Bytes) /\ g \in Seq(Bytes)
    BY <1>1, <1>2, EachTyped DEF HeldBy
  <1>4. PICK in : in = [a EXCEPT ![4] = f, ![5] = g]
    OBVIOUS
  <1>5. in = EncodeInside(a)
    BY <1>2, <1>4 DEF EncodeInside
  <1>6. DOMAIN a = 1 .. 5
    BY <1>1
  <1>7. /\ DOMAIN in = 1 .. 5 /\ in[1] = a[1] /\ in[2] = a[2] /\ in[3] = a[3]
        /\ in[4] = f /\ in[5] = g
    BY <1>4, <1>6
  <1>8. ASSUME NEW k \in 1 .. 5 PROVE in[k] \in GivenAs(Fields["AppError"][k])
    <2>1. CASE k \in {1, 2}
      BY <1>1, <1>7, <2>1, FieldsAre DEF GivenAs
    <2>2. CASE k = 3
      BY <1>1, <1>7, <2>2, FieldsAre DEF GivenAs
    <2>3. CASE k \in {4, 5}
      BY <1>3, <1>7, <2>3, FieldsAre DEF GivenAs
    <2>4. QED
      BY <2>1, <2>2, <2>3
  <1>9. /\ FieldsOf("AppError", in) \in Seq(Bytes) /\ Len(FieldsOf("AppError", in)) = 5
        /\ FlattenSeq(FieldsOf("AppError", in)) \in Bytes
    BY <1>7, <1>8, FieldsTyped
  <1>10. \A k \in 1 .. 3 : in[k] = a[k]
    BY <1>7
  <1>11. QED
    BY <1>2, <1>5, <1>7, <1>8, <1>9, <1>10

(* The AppErrors of an envelope, encoded, and its fields.                  *)
AppErrors(e) == EncodeEach("AppError", [k \in DOMAIN e[4] |-> EncodeInside(e[4][k])])

LEMMA PartsTyped ==
    ASSUME NEW e \in AnEnvelope
    PROVE  /\ Parts(e) \in Seq(Bytes) /\ Len(Parts(e)) = 4
           /\ FlattenSeq(Parts(e)) \in Bytes
           /\ \A k \in 1 .. 3 : Parts(e)[k] = EncodeField(k, Fields["Envelope"][k], e[k])
           /\ Parts(e)[4] = EncodeField(4, Fields["Envelope"][4], AppErrors(e))
           /\ AppErrors(e) \in Seq(Bytes) /\ Len(AppErrors(e)) = Len(e[4])
           /\ \A k \in 1 .. Len(e[4]) :
                 AppErrors(e)[k] = FlattenSeq(FieldsOf("AppError", EncodeInside(e[4][k])))
  <1>1. /\ e[1] \in Int32Range /\ e[2] \in Bytes /\ e[3] \in Bytes
        /\ e[4] \in Seq(HeldAppError) /\ e = <<e[1], e[2], e[3], e[4]>>
    <2>1. /\ e[1] \in Int32Range /\ e[2] \in String /\ e[3] \in Seq(Byte)
          /\ e[4] \in Seq(AnAppError) /\ e = <<e[1], e[2], e[3], e[4]>>
      BY DEF AnEnvelope
    <2>2. Seq(AnAppError) \subseteq Seq(HeldAppError)
      BY StringsAreBytes, SeqMonotonic
    <2>3. QED
      BY <2>1, <2>2, StringsAreBytes DEF Bytes
  <1>2. PICK n \in Nat : n = Len(e[4]) /\ DOMAIN e[4] = 1 .. n
    BY <1>1, LenProperties
  <1>3. PICK es : es = AppErrors(e)
    OBVIOUS
  <1>4. es = [k \in 1 .. n |-> FlattenSeq(FieldsOf("AppError", EncodeInside(e[4][k])))]
    BY <1>2, <1>3 DEF AppErrors, EncodeEach
  <1>5. \A k \in 1 .. n : FlattenSeq(FieldsOf("AppError", EncodeInside(e[4][k]))) \in Bytes
    BY <1>1, <1>2, ElementOfSeq, InsideTyped
  <1>6. /\ es \in Seq(Bytes) /\ Len(es) = n
        /\ \A k \in 1 .. n : es[k] = FlattenSeq(FieldsOf("AppError", EncodeInside(e[4][k])))
    BY <1>4, <1>5
  <1>7. PICK m : m = [e EXCEPT ![4] = es]
    OBVIOUS
  <1>8. FieldsOf("Envelope", m) = Parts(e)
    BY <1>3, <1>7 DEF Parts, AppErrors
  <1>9. /\ DOMAIN m = 1 .. 4 /\ m[1] = e[1] /\ m[2] = e[2] /\ m[3] = e[3] /\ m[4] = es
    BY <1>1, <1>7
  <1>10. ASSUME NEW k \in 1 .. 4 PROVE m[k] \in GivenAs(Fields["Envelope"][k])
    <2>1. CASE k = 1
      BY <1>1, <1>9, <2>1, FieldsAre DEF GivenAs
    <2>2. CASE k \in {2, 3}
      BY <1>1, <1>9, <2>2, FieldsAre DEF GivenAs
    <2>3. CASE k = 4
      BY <1>6, <1>9, <2>3, FieldsAre DEF GivenAs
    <2>4. QED
      BY <2>1, <2>2, <2>3
  <1>11. /\ Parts(e) \in Seq(Bytes) /\ Len(Parts(e)) = 4 /\ FlattenSeq(Parts(e)) \in Bytes
    <2>1. /\ FieldsOf("Envelope", m) \in Seq(Bytes) /\ Len(FieldsOf("Envelope", m)) = 4
          /\ FlattenSeq(FieldsOf("Envelope", m)) \in Bytes
      BY <1>9, <1>10, FieldsTyped
    <2>2. QED
      BY <1>8, <2>1
  <1>12. \A k \in 1 .. 4 : Parts(e)[k] = EncodeField(k, Fields["Envelope"][k], m[k])
    BY <1>8, <1>9 DEF FieldsOf
  <1>13. QED
    BY <1>2, <1>3, <1>6, <1>9, <1>11, <1>12

(* What is received is bytes.                                              *)
LEMMA ReceivedTyped ==
    ASSUME NEW e \in AnEnvelope, NEW kind \in {"whole", "extended", "cut", "raw"},
           NEW b \in Received(e, kind)
    PROVE  b \in Bytes
  <1>1. /\ Unknown \subseteq Bytes /\ Raw \subseteq Bytes
    BY EnvelopeAssumption DEF Bytes
  <1>2. PICK parts \in Seq(Bytes) : parts = Parts(e) /\ Len(parts) = 4
    BY PartsTyped
  <1>3. FlattenSeq(parts) \in Bytes
    BY BytesJoined
  <1>4. CASE kind = "whole"
    BY <1>2, <1>3, <1>4 DEF Received
  <1>5. CASE kind = "extended"
    <2>1. PICK k \in 1 .. 5, u \in Unknown : b = FlattenSeq(InsertAt(parts, k, u))
      BY <1>2, <1>5 DEF Received
    <2>2. SubSeq(parts, 1, k - 1) \in Seq(Bytes) /\ SubSeq(parts, k, 4) \in Seq(Bytes)
      <3>0. \A i \in 1 .. 4 : parts[i] \in Bytes
        BY <1>2, ElementOfSeq
      <3>1. \A i \in 1 .. k - 1 : parts[i] \in Bytes
        BY <3>0
      <3>2. \A i \in k .. 4 : parts[i] \in Bytes
        BY <3>0
      <3>3. PICK l \in Int : l = k - 1
        OBVIOUS
      <3>4. SubSeq(parts, 1, l) \in Seq(Bytes)
        <4>1. \A i \in 1 .. l : parts[i] \in Bytes
          BY <3>1, <3>3
        <4>2. QED
          BY <4>1, SubSeqProperties
      <3>5. SubSeq(parts, k, 4) \in Seq(Bytes)
        BY <3>2, SubSeqProperties
      <3>6. QED
        BY <3>3, <3>4, <3>5
    <2>3. <<u>> \in Seq(Bytes)
      BY <1>1
    <2>4. SubSeq(parts, 1, k - 1) \o <<u>> \in Seq(Bytes)
      BY <2>2, <2>3, ConcatProperties
    <2>5. InsertAt(parts, k, u) \in Seq(Bytes)
      BY <1>2, <2>2, <2>4, ConcatProperties DEF InsertAt
    <2>6. QED
      BY <2>1, <2>5, BytesJoined
  <1>6. CASE kind = "cut"
    <2>1. b \in UNION {{SubSeq(t, 1, k) : k \in 0 .. Len(t) - 1} :
                         t \in {FlattenSeq(parts) \o u : u \in Unknown \union {<<>>}}}
      <3>1. Received(e, "cut") =
               UNION {{SubSeq(t, 1, k) : k \in 0 .. Len(t) - 1} :
                        t \in {FlattenSeq(Parts(e)) \o u : u \in Unknown \union {<<>>}}}
        BY DEF Received
      <3>2. b \in Received(e, "cut")
        BY <1>6
      <3>3. QED
        BY <1>2, <3>1, <3>2
    <2>2. PICK t \in {FlattenSeq(parts) \o u : u \in Unknown \union {<<>>}} :
             b \in {SubSeq(t, 1, k) : k \in 0 .. Len(t) - 1}
      BY <2>1
    <2>3. t \in Bytes
      BY <1>1, <1>3, <2>2, BytesJoined
    <2>4. PICK k \in 0 .. Len(t) - 1 : b = SubSeq(t, 1, k)
      BY <2>2
    <2>5. \A i \in 1 .. k : t[i] \in Byte
      BY <2>3, <2>4, ElementOfSeq DEF Bytes
    <2>6. SubSeq(t, 1, k) \in Seq(Byte)
      BY <2>4, <2>5, SubSeqProperties
    <2>7. QED
      BY <2>4, <2>6 DEF Bytes
  <1>7. CASE kind = "raw"
    BY <1>1, <1>7 DEF Received
  <1>8. QED
    BY <1>4, <1>5, <1>6, <1>7

-------------------------------------------------------------------------------
(* The type invariant.  Messages nest by their types, so that at most      *)
(* three decoders are at work, and each has the bytes it may read.         *)
AtDepth == <<{"Envelope"}, {"AppError"}, {"FieldError", "Entry"}>>

Calls(caller, fr) ==
    /\ fr.num \in DOMAIN Fields[caller.type] /\ Fields[caller.type][fr.num] = fr.type
    /\ fr.last <= caller.last /\ fr.last < caller.i

StackOK(fs, b) ==
    /\ fs \in Seq(AFrame) /\ Len(fs) \in 1 .. 3
    /\ \A d \in 1 .. Len(fs) :
          /\ fs[d].type \in AtDepth[d]
          /\ fs[d].m \in HeldBy(fs[d].type)
          /\ fs[d].last <= Len(b)
    /\ fs[1].last = Len(b)
    /\ \A d \in 2 .. Len(fs) : Calls(fs[d - 1], fs[d])

KeyOnce(metadata) ==
    \A j, k \in DOMAIN metadata : metadata[j][1] = metadata[k][1] => j = k

Built(e) ==
    /\ e \in AnEnvelope
    /\ \A a \in ToSet(e[4]) :
          Len(a[4]) <= MaxDetails /\ Len(a[5]) <= MaxMeta /\ KeyOnce(a[5])

TypeInv ==
    /\ Built(sent)
    /\ how \in {"built", "whole", "extended", "cut", "raw"}
    /\ outcome \in {"none", "ok", "ValueError"}
    /\ buf \in Bytes
    /\ how = "built" => frames = <<>> /\ outcome = "none"
    /\ how # "built" => StackOK(frames, buf)

(* The decoder on top replaced, with the bounds and the type it has.       *)
LEMMA StackTop ==
    ASSUME NEW b \in Bytes, NEW fs, StackOK(fs, b), NEW to \in AFrame,
           to.type = fs[Len(fs)].type, to.m \in HeldBy(to.type),
           to.num = fs[Len(fs)].num, to.last = fs[Len(fs)].last
    PROVE  StackOK([fs EXCEPT ![Len(fs)] = to], b)
  <1>1. fs \in Seq(AFrame) /\ Len(fs) \in 1 .. 3
    BY DEF StackOK
  <1>2. PICK n \in 1 .. 3 : n = Len(fs)
    BY <1>1
  <1>3. PICK gs : gs = [fs EXCEPT ![n] = to]
    OBVIOUS
  <1>4. /\ gs \in Seq(AFrame) /\ Len(gs) = n
        /\ \A d \in 1 .. n : gs[d] = IF d = n THEN to ELSE fs[d]
    BY <1>1, <1>2, <1>3, ExceptSeq
  <1>5. \A d \in 1 .. n :
           /\ gs[d].type = fs[d].type /\ gs[d].num = fs[d].num /\ gs[d].last = fs[d].last
           /\ gs[d].m \in HeldBy(gs[d].type)
           /\ d # n => gs[d] = fs[d]
    <2> SUFFICES ASSUME NEW d \in 1 .. n
                 PROVE  /\ gs[d].type = fs[d].type /\ gs[d].num = fs[d].num
                        /\ gs[d].last = fs[d].last
                        /\ gs[d].m \in HeldBy(gs[d].type)
                        /\ d # n => gs[d] = fs[d]
      OBVIOUS
    <2>1. CASE d = n
      BY <1>2, <1>4, <2>1
    <2>2. CASE d # n
      BY <1>2, <1>4, <2>2 DEF StackOK
    <2>3. QED
      BY <2>1, <2>2
  <1>6. \A d \in 1 .. n : gs[d].type \in AtDepth[d] /\ gs[d].last <= Len(b)
    BY <1>2, <1>5 DEF StackOK
  <1>7. gs[1].last = Len(b)
    BY <1>2, <1>5 DEF StackOK
  <1>8. ASSUME NEW d \in 2 .. n PROVE Calls(gs[d - 1], gs[d])
    <2>1. Calls(fs[d - 1], fs[d]) /\ d - 1 \in 1 .. n /\ d - 1 # n /\ d \in 1 .. n
      BY <1>2, <1>8 DEF StackOK
    <2>2. gs[d - 1] = fs[d - 1] /\ gs[d].num = fs[d].num /\ gs[d].last = fs[d].last
          /\ gs[d].type = fs[d].type
      BY <1>5, <2>1
    <2>3. QED
      BY <2>1, <2>2 DEF Calls
  <1>9. StackOK(gs, b)
    BY <1>4, <1>5, <1>6, <1>7, <1>8 DEF StackOK
  <1>10. QED
    BY <1>2, <1>3, <1>9

(* A decoder called.                                                       *)
LEMMA StackPush ==
    ASSUME NEW b \in Bytes, NEW fs, StackOK(fs, b), NEW fr \in AFrame,
           fr.m \in HeldBy(fr.type), Calls(fs[Len(fs)], fr)
    PROVE  StackOK(Append(fs, fr), b)
  <1>1. fs \in Seq(AFrame) /\ Len(fs) \in 1 .. 3
    BY DEF StackOK
  <1>2. PICK n \in 1 .. 3 : n = Len(fs)
    BY <1>1
  <1>3. PICK gs : gs = Append(fs, fr)
    OBVIOUS
  <1>4. /\ gs \in Seq(AFrame) /\ Len(gs) = n + 1 /\ gs[n + 1] = fr
        /\ \A d \in 1 .. n : gs[d] = fs[d]
    BY <1>1, <1>2, <1>3, AppendProperties
  <1>5. n \in 1 .. 2 /\ fr.type \in AtDepth[n + 1]
    <2>1. fs[n].type \in AtDepth[n] /\ fr.type \in Message
      BY <1>2 DEF StackOK, AFrame
    <2>2. /\ fr.num \in DOMAIN Fields[fs[n].type]
          /\ Fields[fs[n].type][fr.num] = fr.type
      BY <1>2 DEF Calls
    <2>3. CASE n = 1
      <3>1. fs[n].type = "Envelope"
        BY <2>1, <2>3 DEF AtDepth
      <3>2. fr.num \in 1 .. 4 /\ fr.type = Fields["Envelope"][fr.num]
        BY <2>2, <3>1, FieldsAre
      <3>3. fr.type = "AppError"
        BY <2>1, <3>2, FieldsAre, MessageIs
      <3>4. QED
        BY <2>3, <3>3 DEF AtDepth
    <2>4. CASE n = 2
      <3>1. fs[n].type = "AppError"
        BY <2>1, <2>4 DEF AtDepth
      <3>2. fr.num \in 1 .. 5 /\ fr.type = Fields["AppError"][fr.num]
        BY <2>2, <3>1, FieldsAre
      <3>3. fr.type \in {"FieldError", "Entry"}
        BY <2>1, <3>2, FieldsAre, MessageIs
      <3>4. QED
        BY <2>4, <3>3 DEF AtDepth
    <2>5. CASE n = 3
      <3>1. fs[n].type \in {"FieldError", "Entry"}
        BY <2>1, <2>5 DEF AtDepth
      <3>2. fr.type \in {"string", "strings"}
        BY <2>2, <3>1, FieldsAre
      <3>3. QED
        BY <2>1, <3>2, MessageIs
    <2>6. QED
      BY <2>3, <2>4, <2>5
  <1>6. \A d \in 1 .. n + 1 :
           gs[d].type \in AtDepth[d] /\ gs[d].m \in HeldBy(gs[d].type) /\ gs[d].last <= Len(b)
    <2> SUFFICES ASSUME NEW d \in 1 .. n + 1
                 PROVE  /\ gs[d].type \in AtDepth[d] /\ gs[d].m \in HeldBy(gs[d].type)
                        /\ gs[d].last <= Len(b)
      OBVIOUS
    <2>1. CASE d = n + 1
      <3>1. fs[n].last <= Len(b) /\ fr.last <= fs[n].last
        BY <1>2 DEF StackOK, Calls
      <3>2. fs[n].last \in Nat /\ fr.last \in Nat /\ Len(b) \in Nat
        <4>1. n \in 1 .. Len(fs)
          BY <1>2
        <4>2. fs[n] \in AFrame
          BY <1>1, <4>1, ElementOfSeq
        <4>3. Len(b) \in Nat
          BY LenProperties DEF Bytes
        <4>4. QED
          BY <4>2, <4>3 DEF AFrame
      <3>3. QED
        BY <1>4, <1>5, <2>1, <3>1, <3>2
    <2>2. CASE d # n + 1
      BY <1>2, <1>4, <2>2 DEF StackOK
    <2>3. QED
      BY <2>1, <2>2
  <1>7. gs[1].last = Len(b)
    BY <1>2, <1>4 DEF StackOK
  <1>8. ASSUME NEW d \in 2 .. n + 1 PROVE Calls(gs[d - 1], gs[d])
    <2>1. CASE d = n + 1
      BY <1>2, <1>4, <2>1
    <2>2. CASE d # n + 1
      <3>1. d \in 2 .. n /\ d - 1 \in 1 .. n /\ d \in 1 .. n
        BY <2>2
      <3>2. Calls(fs[d - 1], fs[d])
        BY <1>2, <3>1 DEF StackOK
      <3>3. QED
        BY <1>4, <3>1, <3>2
    <2>3. QED
      BY <2>1, <2>2
  <1>9. StackOK(gs, b)
    BY <1>4, <1>5, <1>6, <1>7, <1>8 DEF StackOK
  <1>10. QED
    BY <1>3, <1>9

(* The decoder on top is through, and the others go on.                    *)
LEMMA StackPop ==
    ASSUME NEW b \in Bytes, NEW fs, StackOK(fs, b), Len(fs) > 1
    PROVE  /\ StackOK(SubSeq(fs, 1, Len(fs) - 1), b)
           /\ Len(SubSeq(fs, 1, Len(fs) - 1)) = Len(fs) - 1
           /\ \A d \in 1 .. Len(fs) - 1 : SubSeq(fs, 1, Len(fs) - 1)[d] = fs[d]
  <1>1. fs \in Seq(AFrame) /\ Len(fs) \in 1 .. 3
    BY DEF StackOK
  <1>2. PICK n \in 1 .. 2 : Len(fs) = n + 1 /\ Len(fs) - 1 = n
    BY <1>1
  <1>3. PICK gs : gs = SubSeq(fs, 1, n)
    OBVIOUS
  <1>4. gs \in Seq(AFrame) /\ Len(gs) = n /\ \A d \in 1 .. n : gs[d] = fs[d]
    <2>1. \A d \in 1 .. n : fs[d] \in AFrame
      BY <1>1, <1>2, ElementOfSeq
    <2>2. /\ SubSeq(fs, 1, n) \in Seq(AFrame)
          /\ Len(SubSeq(fs, 1, n)) = IF 1 <= n THEN n - 1 + 1 ELSE 0
          /\ \A d \in 1 .. n - 1 + 1 : SubSeq(fs, 1, n)[d] = fs[1 + d - 1]
      BY <2>1, SubSeqProperties
    <2>3. n - 1 + 1 = n /\ \A d \in 1 .. n : 1 + d - 1 = d
      OBVIOUS
    <2>4. QED
      BY <1>3, <2>2, <2>3
  <1>5. StackOK(gs, b)
    <2>1. \A d \in 1 .. n :
             gs[d].type \in AtDepth[d] /\ gs[d].m \in HeldBy(gs[d].type) /\ gs[d].last <= Len(b)
      BY <1>2, <1>4 DEF StackOK
    <2>2. gs[1].last = Len(b)
      BY <1>4 DEF StackOK
    <2>3. \A d \in 2 .. n : Calls(gs[d - 1], gs[d])
      BY <1>2, <1>4 DEF StackOK
    <2>4. QED
      BY <1>4, <2>1, <2>2, <2>3 DEF StackOK
  <1>6. QED
    BY <1>2, <1>3, <1>4, <1>5

(* The type of what the decoder on top has read.                           *)
LEMMA MinOfTwo ==
    ASSUME NEW a \in Int, NEW b \in Int
    PROVE  Min({a, b}) = IF a <= b THEN a ELSE b
  <1>1. PICK c \in {a, b} : c = (IF a <= b THEN a ELSE b) /\ c <= a /\ c <= b
    OBVIOUS
  <1>2. \A x \in {a, b} : (\A y \in {a, b} : x <= y) => x = c
    BY <1>1
  <1>3. \A y \in {a, b} : c <= y
    BY <1>1
  <1>4. QED
    BY <1>1, <1>2, <1>3 DEF Min

LEMMA SliceTyped ==
    ASSUME NEW b \in Bytes, NEW i \in Nat \ {0}, NEW l \in Nat, l <= Len(b)
    PROVE  SubSeq(b, i, l) \in Bytes
  <1>1. \A k \in i .. l : b[k] \in Byte
    BY ElementOfSeq DEF Bytes
  <1>2. QED
    BY <1>1, SubSeqProperties DEF Bytes

LEMMA TopTyped ==
    ASSUME TypeInv, how # "built"
    PROVE  /\ frames \in Seq(AFrame) /\ Len(frames) \in 1 .. 3
           /\ Top = frames[Len(frames)]
           /\ Top \in AFrame /\ Top.type \in Message /\ Top.num \in Nat
           /\ Top.m \in HeldBy(Top.type)
           /\ Top.i \in Nat \ {0} /\ Top.last \in Nat /\ Top.last <= Len(buf)
           /\ buf \in Seq(Byte)
  <1>1. StackOK(frames, buf) /\ buf \in Seq(Byte)
    BY DEF TypeInv, Bytes
  <1>2. frames \in Seq(AFrame) /\ Len(frames) \in 1 .. 3 /\ Top = frames[Len(frames)]
    BY <1>1 DEF StackOK, Top, Last
  <1>3. Len(frames) \in 1 .. Len(frames)
    BY <1>2
  <1>4. frames[Len(frames)] \in AFrame
    BY <1>2, <1>3, ElementOfSeq
  <1>5. /\ frames[Len(frames)].m \in HeldBy(frames[Len(frames)].type)
        /\ frames[Len(frames)].last <= Len(buf)
    BY <1>1, <1>3 DEF StackOK
  <1>6. QED
    BY <1>1, <1>2, <1>4, <1>5 DEF AFrame

LEMMA ReadTyped ==
    ASSUME TypeInv, Running
    PROVE  /\ \/ TagRead = Bad
              \/ \E v \in Nat, i \in Nat \ {0} :
                    i <= Top.last + 1 /\ i > Top.i /\ TagRead = Got(v, i)
           /\ TagRead.ok => /\ Num \in Nat /\ WireType \in Nat
                            /\ TagRead.i \in Nat \ {0} /\ TagRead.i <= Top.last + 1
                            /\ \/ Prefix = Bad
                               \/ \E v \in Nat, i \in Nat \ {0} :
                                     i <= Top.last + 1 /\ i > TagRead.i /\ Prefix = Got(v, i)
  <1>1. /\ Top.i \in Nat \ {0} /\ Top.last \in Nat /\ Top.last <= Len(buf) /\ buf \in Seq(Byte)
        /\ Top.i <= Top.last
    BY TopTyped DEF Running
  <1>2. PICK first \in Nat \ {0}, last \in Nat : first = Top.i /\ last = Top.last
    BY <1>1
  <1>3. \/ DecVarint(buf, first, last) = Bad
        \/ \E v \in Nat, i \in first + 1 .. last + 1 : DecVarint(buf, first, last) = Got(v, i)
    BY <1>1, <1>2, VarintTyped
  <1>4. \/ TagRead = Bad
        \/ \E v \in Nat, i \in Nat \ {0} : i <= last + 1 /\ i > first /\ TagRead = Got(v, i)
    BY <1>2, <1>3 DEF TagRead
  <1>5. ASSUME TagRead.ok
        PROVE  /\ Num \in Nat /\ WireType \in Nat
               /\ TagRead.i \in Nat \ {0} /\ TagRead.i <= Top.last + 1
               /\ \/ Prefix = Bad
                  \/ \E v \in Nat, i \in Nat \ {0} :
                        i <= Top.last + 1 /\ i > TagRead.i /\ Prefix = Got(v, i)
    <2>1. PICK v \in Nat, i \in Nat \ {0} : i <= last + 1 /\ TagRead = Got(v, i)
      BY <1>4, <1>5 DEF Bad
    <2>2. TagRead.v = v /\ TagRead.i = i
      BY <2>1 DEF Got
    <2>3. v \div 8 \in Nat /\ v % 8 \in Nat
      OBVIOUS
    <2>4. \/ DecVarint(buf, i, last) = Bad
          \/ \E w \in Nat, j \in i + 1 .. last + 1 : DecVarint(buf, i, last) = Got(w, j)
      BY <1>1, <1>2, <2>1, VarintTyped
    <2>5. \/ Prefix = Bad
          \/ \E w \in Nat, j \in Nat \ {0} : j <= last + 1 /\ j > i /\ Prefix = Got(w, j)
      BY <1>2, <2>2, <2>4 DEF Prefix
    <2>6. QED
      BY <1>2, <2>1, <2>2, <2>3, <2>5 DEF Num, WireType
  <1>6. QED
    BY <1>2, <1>4, <1>5

(* The slice of a value, the cursor after it, and after an unknown field.  *)
LEMMA ValueTyped ==
    ASSUME TypeInv, Running, TagRead.ok, Prefix.ok
    PROVE  /\ Prefix.v \in Nat /\ Prefix.i \in Nat \ {0} /\ Prefix.i <= Top.last + 1
           /\ End \in Nat \ {0} /\ End >= Prefix.i
           /\ SliceLast \in Nat /\ SliceLast <= Top.last /\ SliceLast < End
           /\ Slice \in Bytes
  <1>1. PICK v \in Nat, i \in Nat \ {0} : i <= Top.last + 1 /\ Prefix = Got(v, i)
    BY ReadTyped DEF Bad
  <1>2. Prefix.v = v /\ Prefix.i = i
    BY <1>1 DEF Got
  <1>3. End = i + v /\ End \in Nat \ {0}
    BY <1>2 DEF End
  <1>4. /\ Top.last \in Nat /\ Top.last <= Len(buf) /\ buf \in Bytes
    BY TopTyped DEF Running, Bytes
  <1>5. End - 1 \in Nat
    BY <1>3
  <1>6. SliceLast = IF End - 1 <= Top.last THEN End - 1 ELSE Top.last
    BY <1>4, <1>5, MinOfTwo DEF SliceLast
  <1>7. SliceLast \in Nat /\ SliceLast <= Top.last /\ SliceLast < End
    BY <1>3, <1>4, <1>5, <1>6
  <1>8. SliceLast <= Len(buf)
    BY <1>4, <1>7, LenProperties DEF Bytes
  <1>9. SubSeq(buf, i, SliceLast) \in Bytes
    BY <1>4, <1>7, <1>8, SliceTyped
  <1>10. QED
    BY <1>1, <1>2, <1>3, <1>7, <1>9 DEF Slice

LEMMA SkipTyped ==
    ASSUME TypeInv, Running, TagRead.ok
    PROVE  SkipTo \in Nat
  <1>1. TagRead.i \in Nat /\ (Prefix = Bad \/ \E v \in Nat, i \in Nat : Prefix = Got(v, i))
    BY ReadTyped
  <1>2. Prefix.ok => Prefix.i \in Nat /\ Prefix.v \in Nat
    BY <1>1 DEF Bad, Got
  <1>3. SkipTo = CASE WireType = 0 /\ Prefix.ok -> Prefix.i
                   [] WireType = 1 -> TagRead.i + 8
                   [] WireType = 2 /\ Prefix.ok /\ Prefix.i + Prefix.v - 1 <= Top.last ->
                         Prefix.i + Prefix.v
                   [] WireType = 5 -> TagRead.i + 4
                   [] OTHER -> 0
    BY DEF SkipTo, SkipField, Prefix
  <1>4. WireType \in Nat
    BY ReadTyped
  <1>5. QED
    BY <1>1, <1>2, <1>3, <1>4

(* A builder's envelope is one, and a dict has a key once.                 *)
LEMMA ErrorReplaced ==
    ASSUME NEW e, Built(e), e[4] # <<>>, NEW a \in AnAppError,
           Len(a[4]) <= MaxDetails, Len(a[5]) <= MaxMeta, KeyOnce(a[5])
    PROVE  Built([e EXCEPT ![4][1] = a]) /\ [e EXCEPT ![4][1] = a][4] = <<a>>
  <1>1. /\ e \in AnEnvelope
        /\ e[1] \in Int32Range /\ e[2] \in String /\ e[3] \in Seq(Byte)
        /\ e[4] \in Seq(AnAppError) /\ Len(e[4]) <= 1
        /\ e = <<e[1], e[2], e[3], e[4]>>
    BY DEF Built, AnEnvelope
  <1>2. Len(e[4]) = 1
    <2>1. PICK l \in Nat \ {0} : l = Len(e[4])
      BY <1>1, EmptySeq
    <2>2. l <= 1
      BY <1>1, <2>1
    <2>3. l = 1
      BY <2>2
    <2>4. QED
      BY <2>1, <2>3
  <1>3. PICK errors : errors = [e[4] EXCEPT ![1] = a]
    OBVIOUS
  <1>4. errors \in Seq(AnAppError) /\ Len(errors) = 1 /\ errors[1] = a
    <2>1. 1 \in 1 .. Len(e[4])
      BY <1>2
    <2>2. /\ errors \in Seq(AnAppError) /\ Len(errors) = Len(e[4])
          /\ \A j \in 1 .. Len(e[4]) : errors[j] = IF j = 1 THEN a ELSE e[4][j]
      BY <1>1, <1>3, <2>1, ExceptSeq
    <2>3. QED
      BY <1>2, <2>1, <2>2
  <1>5. PICK f : f = [e EXCEPT ![4] = errors]
    OBVIOUS
  <1>6. f = <<e[1], e[2], e[3], errors>>
    BY <1>1, <1>5
  <1>7. f \in AnEnvelope /\ f[4] = errors
    BY <1>1, <1>4, <1>6 DEF AnEnvelope
  <1>8. DOMAIN errors = 1 .. 1
    BY <1>4, LenProperties
  <1>9. ToSet(errors) = {a}
    BY <1>4, <1>8 DEF ToSet
  <1>10. Built(f)
    BY <1>7, <1>9 DEF Built
  <1>11. errors = <<a>>
    BY <1>4, <1>8
  <1>12. QED
    BY <1>3, <1>5, <1>7, <1>10, <1>11

LEMMA PutTyped ==
    ASSUME NEW E, E \in {AnEntry, HeldEntry}, NEW metadata \in Seq(E), NEW entry \in E
    PROVE  /\ Put(metadata, entry) \in Seq(E)
           /\ KeyOnce(metadata) => KeyOnce(Put(metadata, entry))
  <1> DEFINE old == {k \in DOMAIN metadata : metadata[k][1] = entry[1]}
  <1>1. PICK n \in Nat : n = Len(metadata) /\ DOMAIN metadata = 1 .. n
    BY LenProperties
  <1>2. CASE old = {}
    <2>1. PICK put : put = Append(metadata, entry)
      OBVIOUS
    <2>2. /\ put \in Seq(E) /\ Len(put) = n + 1 /\ put[n + 1] = entry
          /\ \A k \in 1 .. n : put[k] = metadata[k]
      BY <1>1, <2>1, AppendProperties
    <2>3. DOMAIN put = 1 .. n + 1
      BY <2>2, LenProperties
    <2>4. \A k \in 1 .. n : metadata[k][1] # entry[1]
      BY <1>1, <1>2
    <2>5. ASSUME KeyOnce(metadata), NEW j \in 1 .. n + 1, NEW k \in 1 .. n + 1,
                 put[j][1] = put[k][1]
          PROVE  j = k
      <3>1. CASE j = n + 1 \/ k = n + 1
        BY <2>2, <2>4, <2>5, <3>1
      <3>2. CASE j \in 1 .. n /\ k \in 1 .. n
        BY <1>1, <2>2, <2>5, <3>2 DEF KeyOnce
      <3>3. QED
        BY <3>1, <3>2
    <2>6. put = Put(metadata, entry)
      BY <1>2, <2>1 DEF Put
    <2>7. QED
      BY <2>2, <2>3, <2>5, <2>6 DEF KeyOnce
  <1>3. CASE old # {}
    <2>1. PICK put : put = [k \in 1 .. n |-> IF k \in old THEN entry ELSE metadata[k]]
      OBVIOUS
    <2>2. \A k \in 1 .. n : metadata[k] \in E
      BY <1>1, ElementOfSeq
    <2>3. put \in Seq(E) /\ DOMAIN put = 1 .. n
      BY <2>1, <2>2
    <2>4. \A k \in 1 .. n : put[k][1] = metadata[k][1]
      BY <1>1, <2>1
    <2>5. put = Put(metadata, entry)
      BY <1>1, <1>3, <2>1 DEF Put
    <2>6. QED
      BY <1>1, <2>3, <2>4, <2>5 DEF KeyOnce
  <1>4. QED
    BY <1>2, <1>3

LEMMA FirstFrame ==
    ASSUME NEW b \in Bytes, NEW fs, fs = <<Frame("Envelope", 0, 1, Len(b))>>
    PROVE  StackOK(fs, b)
  <1>1. Len(b) \in Nat
    BY LenProperties DEF Bytes
  <1>2. "Envelope" \in Message /\ New("Envelope") \in HeldBy("Envelope")
    BY MessageIs, NewHeld
  <1>3. HeldBy("Envelope") = HeldEnvelope
    BY DEF HeldBy
  <1>4. PICK fr : fr = Frame("Envelope", 0, 1, Len(b))
    OBVIOUS
  <1>5. /\ fr \in AFrame /\ fr.type = "Envelope" /\ fr.m \in HeldBy("Envelope")
        /\ fr.last = Len(b)
    BY <1>1, <1>2, <1>3, <1>4 DEF Frame, AFrame
  <1>6. fs = <<fr>>
    BY <1>4
  <1>7. fs \in Seq(AFrame) /\ Len(fs) = 1 /\ fs[1] = fr
    BY <1>5, <1>6
  <1>8. \A d \in 1 .. 1 : /\ fs[d].type \in AtDepth[d] /\ fs[d].m \in HeldBy(fs[d].type)
                          /\ fs[d].last <= Len(b)
    BY <1>1, <1>5, <1>7 DEF AtDepth
  <1>9. QED
    BY <1>5, <1>7, <1>8 DEF StackOK

(* What a decoder leaves behind when it has read a field.                  *)
LEMMA TakeTyped ==
    ASSUME TypeInv, Running, Num \in DOMAIN Fields[Top.type],
           NEW value \in HeldAs(KindOf), NEW i \in Nat \ {0}, Take(value, i)
    PROVE  TypeInv'
  <1>1. /\ Top \in AFrame /\ Top.m \in HeldBy(Top.type) /\ StackOK(frames, buf) /\ buf \in Bytes
        /\ Top = frames[Len(frames)]
    BY TopTyped DEF Running, TypeInv
  <1>2. PICK k : k = Num
    OBVIOUS
  <1>3. PICK fr \in AFrame : fr = Top
    BY <1>1
  <1>4. PICK to : to = [fr EXCEPT !.m[k] = value, !.i = i]
    OBVIOUS
  <1>5. /\ fr.m \in HeldBy(fr.type) /\ k \in DOMAIN Fields[fr.type]
        /\ value \in HeldAs(Fields[fr.type][k])
    BY <1>1, <1>2, <1>3 DEF KindOf
  <1>6. /\ to \in AFrame /\ to.m \in HeldBy(fr.type) /\ to.type = fr.type
        /\ to.num = fr.num /\ to.last = fr.last
    <2>1. \A type \in Message : \A m \in HeldBy(type) :
             m \in HeldFieldError \union HeldEntry \union HeldAppError \union HeldEnvelope
      BY MessageIs DEF HeldBy
    <2>2. fr.type \in Message
      BY DEF AFrame
    <2>3. PICK m \in HeldBy(fr.type) : m = [fr.m EXCEPT ![k] = value]
      BY <1>5, <2>2, HeldUpdate
    <2>4. to = [fr EXCEPT !.m = m, !.i = i]
      BY <1>4, <2>3 DEF AFrame
    <2>5. m \in HeldFieldError \union HeldEntry \union HeldAppError \union HeldEnvelope
      BY <2>1, <2>2
    <2>6. QED
      BY <2>3, <2>4, <2>5 DEF AFrame
  <1>7. frames' = [frames EXCEPT ![Len(frames)] = to]
    BY <1>2, <1>3, <1>4 DEF Take, OnTop
  <1>8. StackOK([frames EXCEPT ![Len(frames)] = to], buf)
    BY <1>1, <1>3, <1>6, StackTop
  <1>9. UNCHANGED <<sent, how, buf, outcome>>
    BY DEF Take
  <1>10. QED
    BY <1>7, <1>8, <1>9 DEF TypeInv, Running

LEMMA EnterTyped ==
    ASSUME TypeInv, Enter
    PROVE  TypeInv'
  <1>1. /\ Running /\ TagRead.ok /\ Known /\ KindOf \in Message /\ Prefix.ok
        /\ UNCHANGED <<sent, how, buf, outcome>>
    BY DEF Enter, Reads
  <1>2. /\ Top \in AFrame /\ Top.m \in HeldBy(Top.type) /\ StackOK(frames, buf) /\ buf \in Bytes
        /\ Top = frames[Len(frames)] /\ frames \in Seq(AFrame) /\ Len(frames) \in 1 .. 3
    BY <1>1, TopTyped DEF Running, TypeInv
  <1>3. /\ Prefix.i \in Nat \ {0} /\ End \in Nat \ {0}
        /\ SliceLast \in Nat /\ SliceLast <= Top.last /\ SliceLast < End
    BY <1>1, ValueTyped
  <1>4. PICK fr, to : fr \in AFrame /\ fr = Top /\ to = [fr EXCEPT !.i = End]
    BY <1>2
  <1>5. /\ to \in AFrame /\ to.m = fr.m /\ to.type = fr.type /\ to.num = fr.num
        /\ to.last = fr.last /\ to.i = End
    BY <1>3, <1>4 DEF AFrame
  <1>6. PICK fs : fs = [frames EXCEPT ![Len(frames)] = to]
    OBVIOUS
  <1>7. StackOK(fs, buf)
    BY <1>2, <1>4, <1>5, <1>6, StackTop
  <1>8. Len(fs) = Len(frames) /\ fs[Len(fs)] = to
    <2>1. PICK n \in 1 .. 3 : n = Len(frames)
      BY <1>2
    <2>2. /\ Len(fs) = Len(frames)
          /\ \A j \in 1 .. n : fs[j] = IF j = n THEN to ELSE frames[j]
      BY <1>2, <1>5, <1>6, <2>1, ExceptSeq
    <2>3. fs[n] = to
      BY <2>2
    <2>4. QED
      BY <2>1, <2>2, <2>3
  <1>9. PICK sub : sub = Frame(KindOf, Num, Prefix.i, SliceLast)
    OBVIOUS
  <1>10. Num \in Nat /\ Num \in DOMAIN Fields[Top.type] /\ KindOf = Fields[Top.type][Num]
    BY <1>1, ReadTyped DEF Known, KindOf
  <1>11. /\ sub \in AFrame /\ sub.m \in HeldBy(sub.type) /\ sub.type = KindOf /\ sub.num = Num
         /\ sub.last = SliceLast
    <2>1. \A type \in Message :
             /\ New(type) \in HeldBy(type)
             /\ New(type) \in HeldFieldError \union HeldEntry \union HeldAppError
                                             \union HeldEnvelope
      BY NewHeld, MessageIs DEF HeldBy
    <2>2. PICK kind, m : kind \in Message /\ kind = KindOf /\ m = New(kind)
      BY <1>1
    <2>3. m \in HeldBy(kind) /\ m \in HeldFieldError \union HeldEntry \union HeldAppError
                                                     \union HeldEnvelope
      BY <2>1, <2>2
    <2>4. sub = [type |-> kind, num |-> Num, i |-> Prefix.i, last |-> SliceLast, m |-> m]
      BY <1>9, <2>2 DEF Frame
    <2>5. QED
      BY <1>3, <1>10, <2>2, <2>3, <2>4 DEF AFrame
  <1>12. Calls(to, sub)
    BY <1>3, <1>4, <1>5, <1>10, <1>11 DEF Calls
  <1>13. StackOK(Append(fs, sub), buf)
    BY <1>2, <1>7, <1>8, <1>11, <1>12, StackPush
  <1>14. frames' = Append(fs, sub)
    BY <1>4, <1>6, <1>9 DEF Enter, OnTop
  <1>15. QED
    BY <1>1, <1>13, <1>14 DEF TypeInv, Running

(* A message that was read, stored by the decoder that called.             *)
Stored(type, held, m) ==
    CASE type = "AppError" -> <<m>>
      [] type = "FieldError" -> Append(held, m)
      [] type = "Entry" -> Put(held, m)

LEMMA StoredTyped ==
    ASSUME NEW type \in {"AppError", "FieldError", "Entry"},
           NEW held \in HeldAs(type), NEW m \in HeldBy(type)
    PROVE  Stored(type, held, m) \in HeldAs(type)
  <1>1. CASE type = "AppError"
    BY <1>1 DEF HeldAs, HeldBy, Stored
  <1>2. CASE type = "FieldError"
    <2>1. held \in Seq(HeldFieldError) /\ m \in HeldFieldError
      BY <1>2 DEF HeldAs, HeldBy
    <2>2. Append(held, m) \in Seq(HeldFieldError)
      BY <2>1
    <2>3. QED
      BY <1>2, <2>2 DEF HeldAs, Stored
  <1>3. CASE type = "Entry"
    <2>1. held \in Seq(HeldEntry) /\ m \in HeldEntry
      BY <1>3 DEF HeldAs, HeldBy
    <2>2. Put(held, m) \in Seq(HeldEntry)
      BY <2>1, PutTyped
    <2>3. QED
      BY <1>3, <2>2 DEF HeldAs, Stored
  <1>4. QED
    BY <1>1, <1>2, <1>3

(* The stack after a return of the decoder on top of others.               *)
LEMMA StackReturn ==
    ASSUME NEW b \in Bytes, NEW fs, StackOK(fs, b), NEW n \in 1 .. 2, Len(fs) = n + 1,
           NEW caller, caller = fs[n], NEW stored,
           stored = Stored(fs[n + 1].type, caller.m[fs[n + 1].num], fs[n + 1].m)
    PROVE  StackOK(Append(SubSeq(fs, 1, n - 1), [caller EXCEPT !.m[fs[n + 1].num] = stored]), b)
  <1>1. PICK sub : sub = fs[n + 1]
    OBVIOUS
  <1>2. PICK k : k = sub.num
    OBVIOUS
  <1>3. /\ fs \in Seq(AFrame) /\ caller \in AFrame /\ sub \in AFrame
        /\ caller.m \in HeldBy(caller.type) /\ sub.m \in HeldBy(sub.type)
        /\ caller.type \in Message
        /\ k \in DOMAIN Fields[caller.type] /\ Fields[caller.type][k] = sub.type
        /\ sub.type \in {"AppError", "FieldError", "Entry"}
    <2>1. fs \in Seq(AFrame) /\ n \in 1 .. Len(fs) /\ n + 1 \in 2 .. Len(fs) /\ (n + 1) - 1 = n
          /\ n + 1 \in 1 .. Len(fs)
      BY DEF StackOK
    <2>2. caller \in AFrame /\ sub \in AFrame
      BY <1>1, <2>1, ElementOfSeq
    <2>3. Calls(caller, sub)
      <3>1. Calls(fs[(n + 1) - 1], fs[n + 1])
        BY <2>1 DEF StackOK
      <3>2. QED
        BY <1>1, <2>1, <3>1
    <2>4. caller.m \in HeldBy(caller.type) /\ sub.m \in HeldBy(sub.type)
          /\ sub.type \in AtDepth[n + 1]
      BY <1>1, <2>1 DEF StackOK
    <2>5. sub.type \in {"AppError", "FieldError", "Entry"}
      BY <2>4 DEF AtDepth
    <2>6. QED
      BY <1>2, <2>1, <2>2, <2>3, <2>4, <2>5 DEF Calls, AFrame
  <1>4. PICK type \in Message : type = caller.type
    BY <1>3
  <1>5. PICK m \in HeldBy(type) : m = caller.m
    BY <1>3, <1>4
  <1>6. m[k] \in HeldAs(Fields[type][k])
    <2>1. PICK v \in HeldAs(Fields[type][k]) : TRUE
      <3>1. <<>> \in Seq(HeldFieldError) /\ <<>> \in Seq(HeldEntry) /\ <<>> \in Seq(HeldAppError)
        OBVIOUS
      <3>2. Fields[type][k] \in {"AppError", "FieldError", "Entry"}
        BY <1>3, <1>4
      <3>3. QED
        BY <3>1, <3>2 DEF HeldAs
    <2>2. QED
      BY <1>3, <1>4, HeldUpdate
  <1>7. stored \in HeldAs(Fields[type][k])
    <2>1. stored = Stored(sub.type, m[k], sub.m) /\ sub.type = Fields[type][k]
      BY <1>1, <1>2, <1>3, <1>4, <1>5
    <2>2. QED
      BY <1>3, <1>6, <2>1, StoredTyped
  <1>8. PICK to : to = [caller EXCEPT !.m[k] = stored]
    OBVIOUS
  <1>9. /\ to \in AFrame /\ to.m \in HeldBy(type) /\ to.type = caller.type
        /\ to.num = caller.num /\ to.last = caller.last /\ to.i = caller.i
        /\ to.m = [m EXCEPT ![k] = stored]
    <2>1. \A t \in Message : \A h \in HeldBy(t) :
             h \in HeldFieldError \union HeldEntry \union HeldAppError \union HeldEnvelope
      BY MessageIs DEF HeldBy
    <2>2. PICK h \in HeldBy(type) : h = [m EXCEPT ![k] = stored]
      BY <1>3, <1>4, <1>7, HeldUpdate
    <2>3. to = [caller EXCEPT !.m = h]
      BY <1>3, <1>5, <1>8, <2>2 DEF AFrame
    <2>4. h \in HeldFieldError \union HeldEntry \union HeldAppError \union HeldEnvelope
      BY <2>1
    <2>5. QED
      BY <1>3, <2>2, <2>3, <2>4 DEF AFrame
  <1>10. PICK gs : gs = SubSeq(fs, 1, n)
    OBVIOUS
  <1>11. StackOK(gs, b) /\ Len(gs) = n /\ \A d \in 1 .. n : gs[d] = fs[d]
    <2>1. Len(fs) - 1 = n /\ Len(fs) > 1
      OBVIOUS
    <2>2. QED
      BY <1>10, <2>1, StackPop
  <1>12. StackOK([gs EXCEPT ![n] = to], b)
    <2>1. /\ to.type = gs[Len(gs)].type /\ to.m \in HeldBy(to.type)
          /\ to.num = gs[Len(gs)].num /\ to.last = gs[Len(gs)].last
      BY <1>4, <1>9, <1>11
    <2>2. StackOK([gs EXCEPT ![Len(gs)] = to], b)
      BY <1>9, <1>11, <2>1, StackTop
    <2>3. QED
      BY <1>11, <2>2
  <1>13. [gs EXCEPT ![n] = to] = Append(SubSeq(fs, 1, n - 1), to)
    <2>1. gs \in Seq(AFrame)
      BY <1>11 DEF StackOK
    <2>2. PICK hs : hs = [gs EXCEPT ![n] = to]
      OBVIOUS
    <2>3. /\ hs \in Seq(AFrame) /\ Len(hs) = n
          /\ \A j \in 1 .. n : hs[j] = IF j = n THEN to ELSE gs[j]
      BY <1>9, <1>11, <2>1, <2>2, ExceptSeq
    <2>4. PICK l \in Int : l = n - 1 /\ l \in 0 .. 1
      OBVIOUS
    <2>5. PICK us : us = SubSeq(fs, 1, l)
      OBVIOUS
    <2>6. us \in Seq(AFrame) /\ Len(us) = l /\ \A j \in 1 .. l : us[j] = fs[j]
      <3>1. \A j \in 1 .. l : fs[j] \in AFrame
        <4>1. \A j \in 1 .. l : j \in 1 .. Len(fs)
          BY <2>4
        <4>2. QED
          BY <1>3, <4>1, ElementOfSeq
      <3>2. /\ SubSeq(fs, 1, l) \in Seq(AFrame)
            /\ Len(SubSeq(fs, 1, l)) = IF 1 <= l THEN l - 1 + 1 ELSE 0
            /\ \A j \in 1 .. l - 1 + 1 : SubSeq(fs, 1, l)[j] = fs[1 + j - 1]
        BY <3>1, SubSeqProperties
      <3>3. l - 1 + 1 = l /\ \A j \in 1 .. l : 1 + j - 1 = j
        BY <2>4
      <3>4. QED
        BY <2>4, <2>5, <3>2, <3>3
    <2>7. PICK vs : vs = Append(us, to)
      OBVIOUS
    <2>8. /\ vs \in Seq(AFrame) /\ Len(vs) = l + 1 /\ vs[l + 1] = to
          /\ \A j \in 1 .. l : vs[j] = us[j]
      BY <1>9, <2>6, <2>7, AppendProperties
    <2>9. ASSUME NEW j \in 1 .. n PROVE hs[j] = vs[j]
      <3>1. CASE j = n
        BY <2>3, <2>4, <2>8, <3>1
      <3>2. CASE j # n
        <4>1. j \in 1 .. l
          BY <2>4, <3>2
        <4>2. QED
          BY <1>11, <2>3, <2>6, <2>8, <3>2, <4>1
      <3>3. QED
        BY <3>1, <3>2
    <2>10. Len(vs) = n
      BY <2>4, <2>8
    <2>11. hs = vs
      BY <2>3, <2>8, <2>9, <2>10, SeqEqual
    <2>12. QED
      BY <2>2, <2>4, <2>5, <2>7, <2>11
  <1>14. QED
    BY <1>1, <1>2, <1>8, <1>12, <1>13

LEMMA ReturnTyped ==
    ASSUME TypeInv, Return
    PROVE  TypeInv'
  <1>1. /\ how # "built" /\ outcome = "none" /\ UNCHANGED <<sent, how, buf>>
        /\ StackOK(frames, buf) /\ buf \in Bytes
        /\ frames \in Seq(AFrame) /\ Len(frames) \in 1 .. 3
        /\ Top = frames[Len(frames)]
    BY TopTyped DEF Return, TypeInv
  <1>2. CASE Len(frames) = 1
    <2>1. outcome' = "ok" /\ UNCHANGED frames
      BY <1>2 DEF Return
    <2>2. QED
      BY <1>1, <2>1 DEF TypeInv
  <1>3. CASE Len(frames) # 1
    <2>1. PICK n \in 1 .. 2 : Len(frames) = n + 1 /\ n = Len(frames) - 1 /\ n - 1 = Len(frames) - 2
      BY <1>1, <1>3
    <2>2. PICK fs : fs = frames
      OBVIOUS
    <2>3. PICK caller : caller = fs[n]
      OBVIOUS
    <2>4. PICK stored :
             stored = Stored(fs[n + 1].type, caller.m[fs[n + 1].num], fs[n + 1].m)
      OBVIOUS
    <2>5. StackOK(Append(SubSeq(fs, 1, n - 1), [caller EXCEPT !.m[fs[n + 1].num] = stored]), buf)
      BY <1>1, <2>1, <2>2, <2>3, <2>4, StackReturn
    <2>6. /\ frames' = Append(SubSeq(frames, 1, Len(frames) - 2),
                              [frames[Len(frames) - 1] EXCEPT !.m[Top.num] =
                                 Stored(Top.type, frames[Len(frames) - 1].m[Top.num], Top.m)])
          /\ UNCHANGED outcome
      BY <1>3 DEF Return, Stored
    <2>7. frames' = Append(SubSeq(fs, 1, n - 1), [caller EXCEPT !.m[fs[n + 1].num] = stored])
      BY <1>1, <2>1, <2>2, <2>3, <2>4, <2>6
    <2>8. QED
      BY <1>1, <2>5, <2>6, <2>7 DEF TypeInv
  <1>4. QED
    BY <1>2, <1>3

LEMMA SkipKeepsType ==
    ASSUME TypeInv, Skip
    PROVE  TypeInv'
  <1>1. Running /\ TagRead.ok /\ SkipTo # 0 /\ UNCHANGED <<sent, how, buf, outcome>>
    BY DEF Skip
  <1>2. /\ Top \in AFrame /\ Top.m \in HeldBy(Top.type) /\ StackOK(frames, buf) /\ buf \in Bytes
        /\ Top = frames[Len(frames)]
    BY <1>1, TopTyped DEF Running, TypeInv
  <1>3. SkipTo \in Nat \ {0}
    BY <1>1, SkipTyped
  <1>4. PICK fr, to : fr \in AFrame /\ fr = Top /\ to = [fr EXCEPT !.i = SkipTo]
    BY <1>2
  <1>5. /\ to \in AFrame /\ to.m = fr.m /\ to.type = fr.type /\ to.num = fr.num
        /\ to.last = fr.last
    BY <1>3, <1>4 DEF AFrame
  <1>6. StackOK([frames EXCEPT ![Len(frames)] = to], buf)
    BY <1>2, <1>4, <1>5, StackTop
  <1>7. frames' = [frames EXCEPT ![Len(frames)] = to]
    BY <1>4 DEF Skip, OnTop
  <1>8. QED
    BY <1>1, <1>6, <1>7 DEF TypeInv, Running

LEMMA InitTyped == Init => TypeInv
  <1> SUFFICES ASSUME Init PROVE TypeInv
    OBVIOUS
  <1>1. sent \in Made /\ Made \subseteq AnEnvelope
    BY EnvelopeAssumption DEF Init
  <1>2. ASSUME NEW a \in ToSet(sent[4])
        PROVE  Len(a[4]) <= MaxDetails /\ Len(a[5]) <= MaxMeta /\ KeyOnce(a[5])
    BY <1>1, EnvelopeAssumption DEF KeyOnce
  <1>3. <<>> \in Bytes
    BY BytesJoined
  <1>4. Built(sent)
    BY <1>1, <1>2 DEF Built
  <1>5. QED
    BY <1>3, <1>4 DEF TypeInv, Init

(* A builder of an error that it has.                                      *)
LEMMA ErrorTyped ==
    ASSUME NEW e, Built(e), e[4] # <<>>
    PROVE  /\ e[4][1] \in AnAppError /\ e[4][1] \in ToSet(e[4])
           /\ e[4][1][4] \in Seq(AFieldError) /\ e[4][1][5] \in Seq(AnEntry)
           /\ Len(e[4][1][4]) <= MaxDetails /\ Len(e[4][1][5]) <= MaxMeta /\ KeyOnce(e[4][1][5])
           /\ e[4][1] = <<e[4][1][1], e[4][1][2], e[4][1][3], e[4][1][4], e[4][1][5]>>
  <1>1. e[4] \in Seq(AnAppError)
    BY DEF Built, AnEnvelope
  <1>2. 1 \in DOMAIN e[4] /\ 1 \in 1 .. Len(e[4])
    <2>1. Len(e[4]) \in Nat \ {0}
      BY <1>1, EmptySeq
    <2>2. QED
      BY <1>1, <2>1, LenProperties
  <1>3. PICK a \in AnAppError : a = e[4][1]
    BY <1>1, <1>2, ElementOfSeq
  <1>4. a \in ToSet(e[4])
    BY <1>2, <1>3 DEF ToSet
  <1>5. Len(a[4]) <= MaxDetails /\ Len(a[5]) <= MaxMeta /\ KeyOnce(a[5])
    BY <1>4 DEF Built
  <1>6. /\ a[4] \in Seq(AFieldError) /\ a[5] \in Seq(AnEntry)
        /\ a = <<a[1], a[2], a[3], a[4], a[5]>>
    BY DEF AnAppError
  <1>7. QED
    BY <1>3, <1>4, <1>5, <1>6

LEMMA WithFieldTyped ==
    ASSUME TypeInv, WithField
    PROVE  TypeInv' /\ Built(sent')
  <1>1. /\ Built(sent) /\ sent[4] # <<>> /\ Len(sent[4][1][4]) < MaxDetails
        /\ UNCHANGED <<how, buf, frames, outcome>>
    BY DEF TypeInv, WithField
  <1>2. PICK f \in FieldErrors : sent' = [sent EXCEPT ![4][1][4] = Append(@, f)]
    BY DEF WithField
  <1>3. f \in AFieldError /\ MaxDetails \in Nat
    BY EnvelopeAssumption
  <1>4. PICK a \in AnAppError : a = sent[4][1]
    BY <1>1, ErrorTyped
  <1>5. /\ a[4] \in Seq(AFieldError) /\ Len(a[4]) < MaxDetails /\ Len(a[5]) <= MaxMeta
        /\ KeyOnce(a[5]) /\ a = <<a[1], a[2], a[3], a[4], a[5]>>
        /\ Len(a[4]) \in Nat
    <2>1. /\ a[4] \in Seq(AFieldError) /\ Len(a[4]) < MaxDetails /\ Len(a[5]) <= MaxMeta
          /\ KeyOnce(a[5]) /\ a = <<a[1], a[2], a[3], a[4], a[5]>>
      BY <1>1, <1>4, ErrorTyped
    <2>2. QED
      BY <2>1, LenProperties
  <1>6. PICK d : d = Append(a[4], f)
    OBVIOUS
  <1>7. d \in Seq(AFieldError) /\ Len(d) <= MaxDetails
    <2>1. d \in Seq(AFieldError) /\ Len(d) = Len(a[4]) + 1
      BY <1>3, <1>5, <1>6, AppendProperties
    <2>2. PICK l \in Nat : l = Len(a[4])
      BY <1>5
    <2>3. l < MaxDetails => l + 1 <= MaxDetails
      BY <1>3
    <2>4. QED
      BY <1>5, <2>1, <2>2, <2>3
  <1>8. PICK c : c = [a EXCEPT ![4] = d]
    OBVIOUS
  <1>9. c = <<a[1], a[2], a[3], d, a[5]>>
    BY <1>5, <1>8
  <1>10. /\ c \in AnAppError /\ Len(c[4]) <= MaxDetails /\ Len(c[5]) <= MaxMeta /\ KeyOnce(c[5])
    <2>1. a[1] \in String /\ a[2] \in String /\ a[3] \in Seq(String) /\ a[5] \in Seq(AnEntry)
      BY DEF AnAppError
    <2>2. c \in AnAppError
      BY <1>7, <1>9, <2>1 DEF AnAppError
    <2>3. c[4] = d /\ c[5] = a[5]
      BY <1>9
    <2>4. QED
      BY <1>5, <1>7, <2>2, <2>3
  <1>11. Built([sent EXCEPT ![4][1] = c])
    BY <1>1, <1>10, ErrorReplaced
  <1>12. sent' = [sent EXCEPT ![4][1] = c]
    BY <1>2, <1>4, <1>6, <1>8
  <1>13. QED
    BY <1>1, <1>11, <1>12 DEF TypeInv

LEMMA WithMetaTyped ==
    ASSUME TypeInv, WithMeta
    PROVE  TypeInv' /\ Built(sent')
  <1>1. /\ Built(sent) /\ sent[4] # <<>> /\ Len(sent'[4][1][5]) <= MaxMeta
        /\ UNCHANGED <<how, buf, frames, outcome>>
    BY DEF TypeInv, WithMeta
  <1>2. PICK f \in Meta : sent' = [sent EXCEPT ![4][1][5] = Put(@, f)]
    BY DEF WithMeta
  <1>3. f \in AnEntry
    BY EnvelopeAssumption
  <1>4. PICK a \in AnAppError : a = sent[4][1]
    BY <1>1, ErrorTyped
  <1>5. /\ a[5] \in Seq(AnEntry) /\ Len(a[4]) <= MaxDetails
        /\ KeyOnce(a[5]) /\ a = <<a[1], a[2], a[3], a[4], a[5]>>
    BY <1>1, <1>4, ErrorTyped
  <1>6. PICK d : d = Put(a[5], f)
    OBVIOUS
  <1>7. d \in Seq(AnEntry) /\ KeyOnce(d)
    BY <1>3, <1>5, <1>6, PutTyped
  <1>8. PICK c : c = [a EXCEPT ![5] = d]
    OBVIOUS
  <1>9. c = <<a[1], a[2], a[3], a[4], d>>
    BY <1>5, <1>8
  <1>10. c[4] = a[4] /\ c[5] = d
    BY <1>9
  <1>11. c \in AnAppError
    <2>1. a[1] \in String /\ a[2] \in String /\ a[3] \in Seq(String) /\ a[4] \in Seq(AFieldError)
      BY DEF AnAppError
    <2>2. QED
      BY <1>7, <1>9, <2>1 DEF AnAppError
  <1>12. sent' = [sent EXCEPT ![4][1] = c]
    BY <1>2, <1>4, <1>6, <1>8
  <1>13. Len(d) <= MaxMeta
    <2>1. PICK g : g = [sent[4] EXCEPT ![1] = c]
      OBVIOUS
    <2>2. sent'[4] = g
      <3>1. 4 \in DOMAIN sent
        BY <1>1 DEF Built, AnEnvelope
      <3>2. sent' = [sent EXCEPT ![4] = g]
        BY <1>12, <2>1
      <3>3. QED
        BY <3>1, <3>2
    <2>3. 1 \in DOMAIN sent[4]
      <3>1. sent[4] \in Seq(AnAppError)
        BY <1>1 DEF Built, AnEnvelope
      <3>2. Len(sent[4]) \in Nat \ {0}
        BY <1>1, <3>1, EmptySeq
      <3>3. QED
        BY <3>1, <3>2, LenProperties
    <2>4. g[1] = c
      BY <2>1, <2>3
    <2>5. QED
      BY <1>1, <1>10, <2>2, <2>4
  <1>14. Built([sent EXCEPT ![4][1] = c])
    BY <1>1, <1>5, <1>7, <1>10, <1>11, <1>13, ErrorReplaced
  <1>15. QED
    BY <1>1, <1>12, <1>14 DEF TypeInv

LEMMA ReceiveTyped ==
    ASSUME TypeInv, Receive
    PROVE  TypeInv'
  <1>1. /\ Built(sent) /\ how' \in {"whole", "extended", "cut", "raw"} /\ outcome = "none"
        /\ buf' \in Received(sent, how')
        /\ frames' = <<Frame("Envelope", 0, 1, Len(buf'))>>
        /\ UNCHANGED <<sent, outcome>>
    BY DEF Receive, TypeInv
  <1>2. sent \in AnEnvelope
    BY <1>1 DEF Built
  <1>3. PICK e, kind, b :
           /\ e \in AnEnvelope /\ kind \in {"whole", "extended", "cut", "raw"}
           /\ e = sent /\ kind = how' /\ b = buf'
    BY <1>1, <1>2
  <1>4. b \in Bytes
    <2>1. b \in Received(e, kind)
      BY <1>1, <1>3
    <2>2. QED
      BY <1>3, <2>1, ReceivedTyped
  <1>5. StackOK(frames', b)
    BY <1>1, <1>3, <1>4, FirstFrame
  <1>6. QED
    BY <1>1, <1>3, <1>4, <1>5 DEF TypeInv

LEMMA DecodeTyped ==
    ASSUME TypeInv, Decode
    PROVE  TypeInv'
  <1>1. CASE ReadInt32
    <2>1. /\ Running /\ TagRead.ok /\ Prefix.ok /\ Num \in DOMAIN Fields[Top.type]
          /\ KindOf = "int32" /\ Take(DecInt32(Prefix.v), Prefix.i)
      BY <1>1 DEF ReadInt32, Reads, Known
    <2>2. Prefix.v \in Nat /\ Prefix.i \in Nat \ {0}
      BY <2>1, ValueTyped
    <2>3. DecInt32(Prefix.v) \in HeldAs(KindOf)
      <3>1. Word \in Nat
        BY WidthAssumption
      <3>2. DecInt32(Prefix.v) \in Int
        BY <2>2, <3>1 DEF DecInt32
      <3>3. QED
        BY <2>1, <3>2 DEF HeldAs
    <2>4. QED
      BY <2>1, <2>2, <2>3, TakeTyped
  <1>2. CASE ReadString
    <2>1. /\ Running /\ TagRead.ok /\ Prefix.ok /\ Num \in DOMAIN Fields[Top.type]
          /\ KindOf \in {"string", "bytes"} /\ Take(Slice, End)
      BY <1>2 DEF ReadString, Reads, Known
    <2>2. Slice \in HeldAs(KindOf) /\ End \in Nat \ {0}
      BY <2>1, ValueTyped DEF HeldAs
    <2>3. QED
      BY <2>1, <2>2, TakeTyped
  <1>3. CASE ReadElement
    <2>1. /\ Running /\ TagRead.ok /\ Prefix.ok /\ Num \in DOMAIN Fields[Top.type]
          /\ KindOf = "strings" /\ Take(Append(Top.m[Num], Slice), End)
      BY <1>3 DEF ReadElement, Reads, Known
    <2>2. /\ Slice \in Bytes /\ End \in Nat \ {0}
          /\ Top.type \in Message /\ Top.m \in HeldBy(Top.type)
      BY <2>1, TopTyped, ValueTyped DEF Running
    <2>3. PICK type, m, k : type \in Message /\ type = Top.type /\ m = Top.m /\ k = Num
      BY <2>2
    <2>4. m \in HeldBy(type) /\ k \in DOMAIN Fields[type] /\ Fields[type][k] = "strings"
      BY <2>1, <2>2, <2>3 DEF KindOf
    <2>5. <<>> \in HeldAs(Fields[type][k])
      BY <2>4 DEF HeldAs
    <2>6. m[k] \in HeldAs(Fields[type][k])
      BY <2>3, <2>4, <2>5, HeldUpdate
    <2>7. m[k] \in Seq(Bytes)
      BY <2>4, <2>6 DEF HeldAs
    <2>8. Append(m[k], Slice) \in Seq(Bytes)
      BY <2>2, <2>7
    <2>9. Append(Top.m[Num], Slice) \in HeldAs(KindOf)
      BY <2>1, <2>3, <2>8 DEF HeldAs
    <2>10. QED
      BY <2>1, <2>2, <2>9, TakeTyped
  <1>4. CASE Refuse
    <2>1. how # "built" /\ outcome' = "ValueError" /\ UNCHANGED <<sent, how, buf, frames>>
      BY <1>4 DEF Refuse, Running
    <2>2. QED
      BY <2>1 DEF TypeInv
  <1>5. QED
    BY <1>1, <1>2, <1>3, <1>4, EnterTyped, ReturnTyped, SkipKeepsType DEF Decode

LEMMA TypeInvHolds == Spec => []TypeInv
  <1>1. ASSUME TypeInv, [Next]_state PROVE TypeInv'
    <2>1. CASE UNCHANGED state
      BY <1>1, <2>1 DEF TypeInv, state
    <2>2. CASE Next
      BY <1>1, <2>2, WithFieldTyped, WithMetaTyped, ReceiveTyped, DecodeTyped DEF Next
    <2>3. QED
      BY <1>1, <2>1, <2>2
  <1>2. QED
    BY <1>1, InitTyped, PTL DEF Spec

(* The decoders at work are nested as the messages are, and none has bytes *)
(* that its caller has not put behind it (envelope.py: the _decode          *)
(* functions).                                                             *)
THEOREM TypeCorrect == Spec => []TypeOK
  <1>1. ASSUME TypeInv PROVE TypeOK
    <2>1. \A e \in ToSet(sent[4]) : Len(e[4]) <= MaxDetails /\ Len(e[5]) <= MaxMeta
      BY <1>1 DEF TypeInv, Built
    <2>2. CASE how = "built"
      <3>1. frames = <<>> /\ Len(frames) = 0
        BY <1>1, <2>2 DEF TypeInv
      <3>2. \A d \in 2 .. Len(frames) : FALSE
        BY <3>1
      <3>3. QED
        BY <1>1, <2>1, <2>2, <3>1, <3>2 DEF TypeInv, TypeOK
    <2>3. CASE how # "built"
      <3>1. StackOK(frames, buf) /\ Len(frames) \in 1 .. 3
        BY <1>1, <2>3 DEF TypeInv, StackOK
      <3>2. frames[1].type = "Envelope" /\ frames[1].last = Len(buf)
        BY <3>1 DEF StackOK, AtDepth
      <3>3. \A d \in 2 .. Len(frames) : Calls(frames[d - 1], frames[d])
        BY <3>1 DEF StackOK
      <3>4. QED
        BY <1>1, <2>1, <2>3, <3>1, <3>2, <3>3 DEF TypeInv, TypeOK, Calls
    <2>4. QED
      BY <2>2, <2>3
  <1>2. QED
    BY <1>1, TypeInvHolds, PTL

(* Whatever the bytes are, a varint is read by its digits                  *)
(* (envelope.py:84-98).                                                    *)
THEOREM VarintsAreDigits == Spec => []BytesReadAsDigits
  <1>1. ASSUME TypeInv PROVE BytesReadAsDigits
    <2>1. SUFFICES ASSUME Running PROVE ReadsAsDigits(buf, Top.i, Top.last, TagRead)
      BY DEF BytesReadAsDigits
    <2>2. /\ Top.i \in Nat \ {0} /\ Top.last \in Nat /\ Top.last <= Len(buf)
          /\ buf \in Seq(Byte) /\ Top.i <= Top.last
      BY <1>1, <2>1, TopTyped DEF Running
    <2>3. PICK first \in Nat \ {0}, last \in Nat : first = Top.i /\ last = Top.last
      BY <2>2
    <2>4. ReadsAsDigits(buf, first, last, DecVarint(buf, first, last))
      BY <2>2, <2>3, VarintDigits
    <2>5. QED
      BY <2>3, <2>4 DEF TagRead
  <1>2. QED
    BY <1>1, TypeInvHolds, PTL

-------------------------------------------------------------------------------
(* What is written of a message, element by element.  An item is an        *)
(* element of a repeated field, the value of another, or, as number 0, a   *)
(* field of another version.                                               *)
Scalar == {"int32", "string", "bytes"}

SentBy(type) ==
    CASE type = "FieldError" -> AFieldError
      [] type = "Entry" -> AnEntry
      [] type = "AppError" -> {a \in AnAppError : KeyOnce(a[5])}
      [] type = "Envelope" -> {e \in AnEnvelope : \A k \in DOMAIN e[4] : KeyOnce(e[4][k][5])}

Enc(type, m) ==
    IF type = "AppError" THEN FlattenSeq(FieldsOf("AppError", EncodeInside(m)))
                         ELSE FlattenSeq(FieldsOf(type, m))

Payload(kind, v) == IF kind \in Message THEN Enc(kind, v) ELSE v

Piece(type, item) ==
    IF item.num = 0 THEN item.value
    ELSE IF Fields[type][item.num] = "int32"
         THEN Tag(item.num, 0) \o EncVarint[Int32Word(item.value)]
         ELSE Delimited(item.num, Payload(Fields[type][item.num], item.value))

(* What a field holds when one more item of it was read.                   *)
Adds(kind, held, v) ==
    IF kind \in Scalar THEN v
    ELSE IF kind = "strings" THEN Append(held, v) ELSE Stored(kind, held, v)

After(type, m, item) ==
    IF item.num = 0 THEN m
    ELSE [m EXCEPT ![item.num] = Adds(Fields[type][item.num], m[item.num], item.value)]

(* An item that follows when m of the message t is read.                   *)
Follows(type, m, item, t) ==
    \/ type = "Envelope" /\ item.num = 0 /\ item.value \in Unknown
    \/ /\ item.num \in DOMAIN Fields[type]
       /\ IF Fields[type][item.num] \in Scalar THEN item.value = t[item.num]
          ELSE \E k \in 1 .. Len(t[item.num]) :
                  m[item.num] = SubSeq(t[item.num], 1, k - 1) /\ item.value = t[item.num][k]
       /\ Fields[type][item.num] # "int32"
            => Len(Payload(Fields[type][item.num], item.value)) < Word

(* Between its items a message has a part of each field.                   *)
BegunField(kind, new, a, b) ==
    IF kind \in Scalar THEN a \in {new, b} ELSE \E k \in 0 .. Len(b) : a = SubSeq(b, 1, k)

Begun(type, m, t) ==
    /\ m \in HeldBy(type)
    /\ \A f \in DOMAIN Fields[type] : BegunField(Fields[type][f], New(type)[f], m[f], t[f])

(* A script of n items: what is read, and the bytes that are left, by the  *)
(* number of items that are through.                                       *)
Script(type, t, n, h, r) ==
    /\ n \in Nat /\ r[n] = <<>>
    /\ \A k \in 0 .. n : Begun(type, h[k], t) /\ r[k] \in Bytes
    /\ \A k \in 1 .. n : \E item :
          /\ Follows(type, h[k - 1], item, t)
          /\ h[k] = After(type, h[k - 1], item)
          /\ Piece(type, item) \in Bytes
          /\ r[k - 1] = Piece(type, item) \o r[k]

Goes(type, t, m, b) ==
    \E n, h, r : Script(type, t, n, h, r) /\ h[0] = New(type) /\ h[n] = m /\ r[0] = b

(* One item more.                                                          *)
LEMMA GoesOn ==
    ASSUME NEW type, NEW t, NEW m, NEW b, Goes(type, t, m, b),
           NEW item, Follows(type, m, item, t), NEW p \in Bytes, p = Piece(type, item),
           NEW m2, m2 = After(type, m, item), Begun(type, m2, t)
    PROVE  Goes(type, t, m2, b \o p)
  <1>1. PICK n, h, r : Script(type, t, n, h, r) /\ h[0] = New(type) /\ h[n] = m /\ r[0] = b
    BY DEF Goes
  <1>2. /\ n \in Nat /\ r[n] = <<>>
        /\ \A k \in 0 .. n : Begun(type, h[k], t) /\ r[k] \in Bytes
        /\ \A k \in 1 .. n : \E it :
              /\ Follows(type, h[k - 1], it, t)
              /\ h[k] = After(type, h[k - 1], it)
              /\ Piece(type, it) \in Bytes
              /\ r[k - 1] = Piece(type, it) \o r[k]
    BY <1>1 DEF Script
  <1>3. PICK g : g = [k \in 0 .. n + 1 |-> IF k = n + 1 THEN m2 ELSE h[k]]
    OBVIOUS
  <1>4. PICK q : q = [k \in 0 .. n + 1 |-> IF k = n + 1 THEN <<>> ELSE r[k] \o p]
    OBVIOUS
  <1>5. /\ g[n + 1] = m2 /\ q[n + 1] = <<>> /\ n + 1 \in Nat /\ n \in Nat
        /\ \A k \in 0 .. n : g[k] = h[k] /\ q[k] = r[k] \o p
    BY <1>2, <1>3, <1>4
  <1>6. \A k \in 0 .. n + 1 : Begun(type, g[k], t) /\ q[k] \in Bytes
    <2>1. \A k \in 0 .. n : r[k] \o p \in Bytes
      BY <1>2, BytesJoined
    <2>2. <<>> \in Bytes
      BY BytesJoined
    <2>3. \A k \in 0 .. n + 1 : k = n + 1 \/ k \in 0 .. n
      BY <1>2
    <2>4. QED
      BY <1>2, <1>5, <2>1, <2>2, <2>3
  <1>7. ASSUME NEW k \in 1 .. n + 1
        PROVE  \E it : /\ Follows(type, g[k - 1], it, t)
                       /\ g[k] = After(type, g[k - 1], it)
                       /\ Piece(type, it) \in Bytes
                       /\ q[k - 1] = Piece(type, it) \o q[k]
    <2>1. CASE k = n + 1
      <3>1. g[k - 1] = m /\ g[k] = m2 /\ q[k] = <<>> /\ q[k - 1] = <<>> \o p
        <4>1. k - 1 = n /\ n \in 0 .. n
          BY <1>2, <2>1
        <4>2. QED
          BY <1>1, <1>2, <1>5, <2>1, <4>1
      <3>2. <<>> \o p = p /\ p \o <<>> = p
        BY ConcatEmptySeq DEF Bytes
      <3>3. QED
        BY <3>1, <3>2
    <2>2. CASE k # n + 1
      <3>1. k \in 1 .. n /\ k \in 0 .. n /\ k - 1 \in 0 .. n
        BY <1>2, <2>2
      <3>2. PICK it : /\ Follows(type, h[k - 1], it, t)
                      /\ h[k] = After(type, h[k - 1], it)
                      /\ Piece(type, it) \in Bytes
                      /\ r[k - 1] = Piece(type, it) \o r[k]
        BY <1>2, <3>1
      <3>3. (Piece(type, it) \o r[k]) \o p = Piece(type, it) \o (r[k] \o p)
        <4>1. PICK s1, s2 : s1 = Piece(type, it) /\ s2 = r[k]
          OBVIOUS
        <4>2. s1 \in Seq(Byte) /\ s2 \in Seq(Byte) /\ p \in Seq(Byte)
          BY <1>2, <3>1, <3>2, <4>1 DEF Bytes
        <4>3. (s1 \o s2) \o p = s1 \o (s2 \o p)
          BY <4>2, ConcatAssociative
        <4>4. QED
          BY <4>1, <4>3
      <3>4. QED
        BY <1>5, <3>1, <3>2, <3>3
    <2>3. QED
      BY <2>1, <2>2
  <1>8. Script(type, t, n + 1, g, q)
    BY <1>5, <1>6, <1>7 DEF Script
  <1>9. g[0] = New(type) /\ q[0] = b \o p
    <2>1. 0 \in 0 .. n
      BY <1>5
    <2>2. g[0] = h[0] /\ q[0] = r[0] \o p
      BY <1>5, <2>1
    <2>3. QED
      BY <1>1, <2>2
  <1>10. PICK l : l = n + 1
    OBVIOUS
  <1>11. Script(type, t, l, g, q) /\ g[0] = New(type) /\ g[l] = m2 /\ q[0] = b \o p
    BY <1>5, <1>8, <1>9, <1>10
  <1>12. QED
    BY <1>11 DEF Goes

(* What the fields of a message that is sent are.                          *)
SentAs(kind) ==
    CASE kind = "int32" -> Int32Range
      [] kind = "string" -> String
      [] kind = "bytes" -> Bytes
      [] kind = "strings" -> Seq(String)
      [] kind = "FieldError" -> Seq(SentBy("FieldError"))
      [] kind = "Entry" -> {s \in Seq(SentBy("Entry")) : KeyOnce(s)}
      [] kind = "AppError" -> {s \in Seq(SentBy("AppError")) : Len(s) <= 1}

Kinds == {"int32", "string", "bytes", "strings", "FieldError", "Entry", "AppError"}

LEMMA KindsAre ==
    /\ \A type \in Message : \A f \in DOMAIN Fields[type] : Fields[type][f] \in Kinds
    /\ \A type \in Message : DOMAIN Fields[type] = 1 .. Len(Fields[type])
                             /\ Len(Fields[type]) \in 2 .. 5
    /\ Kinds \cap Message = {"FieldError", "Entry", "AppError"}
  <1>1. ASSUME NEW type \in Message
        PROVE  /\ \A f \in DOMAIN Fields[type] : Fields[type][f] \in Kinds
               /\ DOMAIN Fields[type] = 1 .. Len(Fields[type])
               /\ Len(Fields[type]) \in 2 .. 5
    <2>1. CASE type = "Envelope"
      BY <2>1, FieldsAre DEF Kinds
    <2>2. CASE type = "AppError"
      BY <2>2, FieldsAre DEF Kinds
    <2>3. CASE type = "FieldError"
      BY <2>3, FieldsAre DEF Kinds
    <2>4. CASE type = "Entry"
      BY <2>4, FieldsAre DEF Kinds
    <2>5. QED
      BY <2>1, <2>2, <2>3, <2>4, MessageIs
  <1>2. Kinds \cap Message = {"FieldError", "Entry", "AppError"}
    BY MessageIs DEF Kinds
  <1>3. QED
    BY <1>1, <1>2

LEMMA SentFields ==
    ASSUME NEW type \in Message, NEW t \in SentBy(type)
    PROVE  /\ t \in HeldBy(type)
           /\ DOMAIN t = DOMAIN Fields[type]
           /\ \A f \in DOMAIN Fields[type] : t[f] \in SentAs(Fields[type][f])
  <1>1. CASE type = "Envelope"
    <2>1. /\ t \in AnEnvelope /\ \A k \in DOMAIN t[4] : KeyOnce(t[4][k][5])
      BY <1>1 DEF SentBy
    <2>2. /\ t[1] \in Int32Range /\ t[2] \in String /\ t[3] \in Bytes
          /\ t[4] \in Seq(AnAppError) /\ Len(t[4]) <= 1 /\ DOMAIN t = 1 .. 4
      BY <2>1 DEF AnEnvelope, Bytes
    <2>3. t[4] \in Seq(SentBy("AppError"))
      <3>1. DOMAIN t[4] = 1 .. Len(t[4]) /\ Len(t[4]) \in Nat
        BY <2>2, LenProperties
      <3>2. \A k \in 1 .. Len(t[4]) : t[4][k] \in AnAppError
        BY <2>2, ElementOfSeq
      <3>3. \A k \in 1 .. Len(t[4]) : t[4][k] \in SentBy("AppError")
        BY <2>1, <3>1, <3>2 DEF SentBy
      <3>4. PICK s, l : s = t[4] /\ l = Len(t[4])
        OBVIOUS
      <3>5. l \in Nat /\ s \in [1 .. l -> AnAppError]
        BY <2>2, <3>1, <3>4, LenProperties
      <3>6. s = [k \in 1 .. l |-> s[k]]
        BY <3>5
      <3>7. [k \in 1 .. l |-> s[k]] \in Seq(SentBy("AppError"))
        BY <3>3, <3>4, <3>5, IsASeq
      <3>8. QED
        BY <3>4, <3>6, <3>7
    <2>4. \A f \in 1 .. 4 : t[f] \in SentAs(Fields["Envelope"][f])
      <3> SUFFICES ASSUME NEW f \in 1 .. 4 PROVE t[f] \in SentAs(Fields["Envelope"][f])
        OBVIOUS
      <3>1. CASE f = 1
        BY <2>2, <3>1, FieldsAre DEF SentAs
      <3>2. CASE f = 2
        BY <2>2, <3>2, FieldsAre DEF SentAs
      <3>3. CASE f = 3
        BY <2>2, <3>3, FieldsAre DEF SentAs
      <3>4. CASE f = 4
        BY <2>2, <2>3, <3>4, FieldsAre DEF SentAs
      <3>5. QED
        BY <3>1, <3>2, <3>3, <3>4
    <2>5. t \in HeldBy(type)
      BY <1>1, <2>1, StringsAreBytes DEF HeldBy
    <2>6. QED
      BY <1>1, <2>2, <2>4, <2>5, FieldsAre
  <1>2. CASE type = "AppError"
    <2>1. t \in AnAppError /\ KeyOnce(t[5])
      BY <1>2 DEF SentBy
    <2>2. /\ t[1] \in String /\ t[2] \in String /\ t[3] \in Seq(String)
          /\ t[4] \in Seq(AFieldError) /\ t[5] \in Seq(AnEntry) /\ DOMAIN t = 1 .. 5
      BY <2>1 DEF AnAppError
    <2>3. \A f \in 1 .. 5 : t[f] \in SentAs(Fields["AppError"][f])
      <3> SUFFICES ASSUME NEW f \in 1 .. 5 PROVE t[f] \in SentAs(Fields["AppError"][f])
        OBVIOUS
      <3>1. CASE f \in {1, 2}
        BY <2>2, <3>1, FieldsAre DEF SentAs
      <3>2. CASE f = 3
        BY <2>2, <3>2, FieldsAre DEF SentAs
      <3>3. CASE f = 4
        BY <2>2, <3>3, FieldsAre DEF SentAs, SentBy
      <3>4. CASE f = 5
        BY <2>1, <2>2, <3>4, FieldsAre DEF SentAs, SentBy
      <3>5. QED
        BY <3>1, <3>2, <3>3, <3>4
    <2>4. t \in HeldBy(type)
      BY <1>2, <2>1, StringsAreBytes DEF HeldBy
    <2>5. QED
      BY <1>2, <2>2, <2>3, <2>4, FieldsAre
  <1>3. CASE type = "FieldError"
    <2>1. t \in AFieldError
      BY <1>3 DEF SentBy
    <2>2. /\ t[1] \in String /\ t[2] \in String /\ t[3] \in String /\ t[4] \in Seq(String)
          /\ DOMAIN t = 1 .. 4
      BY <2>1 DEF AFieldError
    <2>3. \A f \in 1 .. 4 : t[f] \in SentAs(Fields["FieldError"][f])
      <3> SUFFICES ASSUME NEW f \in 1 .. 4 PROVE t[f] \in SentAs(Fields["FieldError"][f])
        OBVIOUS
      <3>1. CASE f \in 1 .. 3
        BY <2>2, <3>1, FieldsAre DEF SentAs
      <3>2. CASE f = 4
        BY <2>2, <3>2, FieldsAre DEF SentAs
      <3>3. QED
        BY <3>1, <3>2
    <2>4. t \in HeldBy(type)
      BY <1>3, <2>1, StringsAreBytes DEF HeldBy
    <2>5. QED
      BY <1>3, <2>2, <2>3, <2>4, FieldsAre
  <1>4. CASE type = "Entry"
    <2>1. t \in AnEntry
      BY <1>4 DEF SentBy
    <2>2. t[1] \in String /\ t[2] \in String /\ DOMAIN t = 1 .. 2
      BY <2>1 DEF AnEntry
    <2>3. \A f \in 1 .. 2 : t[f] \in SentAs(Fields["Entry"][f])
      BY <2>2, FieldsAre DEF SentAs
    <2>4. t \in HeldBy(type)
      BY <1>4, <2>1, StringsAreBytes DEF HeldBy
    <2>5. QED
      BY <1>4, <2>2, <2>3, <2>4, FieldsAre
  <1>5. QED
    BY <1>1, <1>2, <1>3, <1>4, MessageIs

(* A list of a message that is sent, and its elements.                     *)
LEMMA SentLists ==
    ASSUME NEW kind \in Kinds \ Scalar, NEW s \in SentAs(kind)
    PROVE  /\ \E S : s \in Seq(S)
           /\ Len(s) \in Nat /\ DOMAIN s = 1 .. Len(s)
           /\ \A k \in 1 .. Len(s) : IF kind \in Message THEN s[k] \in SentBy(kind)
                                                         ELSE s[k] \in String
           /\ \A k \in 1 .. Len(s) : SubSeq(s, 1, k) = Append(SubSeq(s, 1, k - 1), s[k])
           /\ SubSeq(s, 1, 0) = <<>> /\ SubSeq(s, 1, Len(s)) = s
  <1>1. PICK S : /\ s \in Seq(S)
                 /\ S = IF kind \in Message THEN SentBy(kind) ELSE String
    <2>1. CASE kind = "strings"
      BY <2>1, MessageIs DEF SentAs
    <2>2. CASE kind = "FieldError"
      BY <2>2, MessageIs DEF SentAs
    <2>3. CASE kind = "Entry"
      BY <2>3, MessageIs DEF SentAs
    <2>4. CASE kind = "AppError"
      BY <2>4, MessageIs DEF SentAs
    <2>5. QED
      BY <2>1, <2>2, <2>3, <2>4 DEF Kinds, Scalar
  <1>2. Len(s) \in Nat /\ DOMAIN s = 1 .. Len(s) /\ \A k \in 1 .. Len(s) : s[k] \in S
    BY <1>1, LenProperties, ElementOfSeq
  <1>3. SubSeq(s, 1, 0) = <<>> /\ SubSeq(s, 1, Len(s)) = s
    BY <1>1, SubSeqFull, SubSeqEmpty
  <1>4. ASSUME NEW k \in 1 .. Len(s)
        PROVE  SubSeq(s, 1, k) = Append(SubSeq(s, 1, k - 1), s[k])
    <2>1. SubSeq(s, 1, k) = SubSeq(s, 1, k - 1) \o <<s[k]>>
      <3>1. 1 \in 1 .. Len(s) /\ k \in 1 .. Len(s)
        BY <1>2
      <3>2. QED
        BY <1>1, <3>1, SubSeqRecursiveSecond
    <2>2. PICK l \in Nat : l = k - 1
      BY <1>2
    <2>3. SubSeq(s, 1, l) \in Seq(S)
      <3>1. \A i \in 1 .. l : s[i] \in S
        BY <1>2, <2>2
      <3>2. QED
        BY <3>1, SubSeqProperties
    <2>4. Append(SubSeq(s, 1, l), s[k]) = SubSeq(s, 1, l) \o <<s[k]>>
      BY <1>2, <2>3, AppendIsConcat
    <2>5. QED
      BY <2>1, <2>2, <2>4
  <1>5. QED
    BY <1>1, <1>2, <1>3, <1>4

(* One more element of a list is what follows in it; a dict's key is new.  *)
LEMMA AddsNext ==
    ASSUME NEW kind \in Kinds \ Scalar, NEW s \in SentAs(kind), NEW k \in 1 .. Len(s)
    PROVE  Adds(kind, SubSeq(s, 1, k - 1), s[k]) = SubSeq(s, 1, k)
  <1>1. /\ SubSeq(s, 1, k) = Append(SubSeq(s, 1, k - 1), s[k])
        /\ SubSeq(s, 1, 0) = <<>> /\ SubSeq(s, 1, Len(s)) = s
        /\ Len(s) \in Nat /\ DOMAIN s = 1 .. Len(s)
    BY SentLists
  <1>2. CASE kind = "strings"
    BY <1>1, <1>2 DEF Adds, Scalar
  <1>3. CASE kind = "FieldError"
    BY <1>1, <1>3 DEF Adds, Scalar, Stored
  <1>4. CASE kind = "Entry"
    <2>1. s \in Seq(SentBy("Entry")) /\ KeyOnce(s)
      BY <1>4 DEF SentAs
    <2>2. PICK l \in Nat : l = k - 1 /\ l < k
      BY <1>1
    <2>3. PICK p : p = SubSeq(s, 1, l)
      OBVIOUS
    <2>4. DOMAIN p = 1 .. l /\ \A i \in 1 .. l : p[i] = s[i]
      <3>1. \A i \in 1 .. l : s[i] \in SentBy("Entry")
        <4>1. \A i \in 1 .. l : i \in 1 .. Len(s)
          BY <1>1, <2>2
        <4>2. QED
          BY <2>1, <4>1, ElementOfSeq
      <3>2. /\ SubSeq(s, 1, l) \in Seq(SentBy("Entry"))
            /\ Len(SubSeq(s, 1, l)) = IF 1 <= l THEN l - 1 + 1 ELSE 0
            /\ \A i \in 1 .. l - 1 + 1 : SubSeq(s, 1, l)[i] = s[1 + i - 1]
        BY <3>1, SubSeqProperties
      <3>3. l - 1 + 1 = l /\ \A i \in 1 .. l : 1 + i - 1 = i
        BY <2>2
      <3>4. Len(p) = l /\ p \in Seq(SentBy("Entry"))
        BY <2>2, <2>3, <3>2, <3>3
      <3>5. QED
        BY <2>3, <3>2, <3>3, <3>4, LenProperties
    <2>5. \A i \in 1 .. l : p[i][1] # s[k][1]
      <3> SUFFICES ASSUME NEW i \in 1 .. l, p[i][1] = s[k][1] PROVE FALSE
        OBVIOUS
      <3>1. i \in DOMAIN s /\ k \in DOMAIN s /\ s[i][1] = s[k][1] /\ i # k
        BY <1>1, <2>2, <2>4
      <3>2. QED
        BY <2>1, <3>1 DEF KeyOnce
    <2>6. Put(p, s[k]) = Append(p, s[k])
      BY <2>4, <2>5 DEF Put
    <2>7. QED
      BY <1>1, <1>4, <2>2, <2>3, <2>6 DEF Adds, Scalar, Stored
  <1>5. CASE kind = "AppError"
    <2>1. Len(s) <= 1
      BY <1>5 DEF SentAs
    <2>2. k = 1
      BY <1>1, <2>1
    <2>3. SubSeq(s, 1, k) = <<s[k]>>
      <3>1. k - 1 = 0
        BY <2>2
      <3>2. SubSeq(s, 1, k) = Append(<<>>, s[k])
        BY <1>1, <3>1
      <3>3. PICK x : x = s[k]
        OBVIOUS
      <3>4. Append(<<>>, x) = <<x>>
        <4>1. <<>> \in Seq({x}) /\ <<x>> \in Seq({x})
          BY EmptySeq
        <4>2. Append(<<>>, x) = <<>> \o <<x>> /\ <<>> \o <<x>> = <<x>>
          BY <4>1, AppendIsConcat, ConcatEmptySeq
        <4>3. QED
          BY <4>2
      <3>5. QED
        BY <3>2, <3>3, <3>4
    <2>4. QED
      BY <1>5, <2>3 DEF Adds, Scalar, Stored
  <1>6. QED
    BY <1>2, <1>3, <1>4, <1>5 DEF Kinds, Scalar

(* A message that was begun, with more of one field.                       *)
LEMMA HeldDomain ==
    ASSUME NEW type \in Message, NEW m \in HeldBy(type)
    PROVE  /\ DOMAIN m = DOMAIN Fields[type]
           /\ m = [f \in DOMAIN Fields[type] |-> m[f]]
  <1>1. CASE type = "Envelope"
    <2>1. m = <<m[1], m[2], m[3], m[4]>>
      BY <1>1 DEF HeldBy, HeldEnvelope
    <2>2. QED
      BY <1>1, <2>1, FieldsAre
  <1>2. CASE type = "AppError"
    <2>1. m = <<m[1], m[2], m[3], m[4], m[5]>>
      BY <1>2 DEF HeldBy, HeldAppError
    <2>2. QED
      BY <1>2, <2>1, FieldsAre
  <1>3. CASE type = "FieldError"
    <2>1. m = <<m[1], m[2], m[3], m[4]>>
      BY <1>3 DEF HeldBy, HeldFieldError
    <2>2. QED
      BY <1>3, <2>1, FieldsAre
  <1>4. CASE type = "Entry"
    <2>1. m = <<m[1], m[2]>>
      BY <1>4 DEF HeldBy, HeldEntry
    <2>2. QED
      BY <1>4, <2>1, FieldsAre
  <1>5. QED
    BY <1>1, <1>2, <1>3, <1>4, MessageIs

LEMMA BegunUpdate ==
    ASSUME NEW type \in Message, NEW t, NEW m, Begun(type, m, t),
           NEW f \in DOMAIN Fields[type], NEW v \in HeldAs(Fields[type][f]),
           BegunField(Fields[type][f], New(type)[f], v, t[f])
    PROVE  Begun(type, [m EXCEPT ![f] = v], t)
  <1>1. m \in HeldBy(type) /\ DOMAIN m = DOMAIN Fields[type]
    BY HeldDomain DEF Begun
  <1>2. [m EXCEPT ![f] = v] \in HeldBy(type)
    BY <1>1, HeldUpdate
  <1>3. PICK w : w = [m EXCEPT ![f] = v]
    OBVIOUS
  <1>4. \A g \in DOMAIN Fields[type] : w[g] = IF g = f THEN v ELSE m[g]
    BY <1>1, <1>3
  <1>5. \A g \in DOMAIN Fields[type] : BegunField(Fields[type][g], New(type)[g], w[g], t[g])
    BY <1>4 DEF Begun
  <1>6. QED
    BY <1>2, <1>3, <1>5 DEF Begun

(* A list of a message that is sent is one that is held.                   *)
LEMMA SentIsHeld ==
    ASSUME NEW kind \in Kinds, NEW v \in SentAs(kind)
    PROVE  v \in HeldAs(kind)
  <1>1. /\ SentBy("FieldError") \subseteq HeldFieldError
        /\ SentBy("Entry") \subseteq HeldEntry
        /\ SentBy("AppError") \subseteq HeldAppError
    BY StringsAreBytes DEF SentBy
  <1>2. /\ Seq(SentBy("FieldError")) \subseteq Seq(HeldFieldError)
        /\ Seq(SentBy("Entry")) \subseteq Seq(HeldEntry)
        /\ Seq(SentBy("AppError")) \subseteq Seq(HeldAppError)
    BY <1>1, SeqMonotonic
  <1>3. CASE kind = "int32"
    BY <1>3, WidthAssumption DEF SentAs, HeldAs, Int32Range
  <1>4. CASE kind \in {"string", "bytes"}
    BY <1>4, StringsAreBytes DEF SentAs, HeldAs
  <1>5. CASE kind = "strings"
    BY <1>5, StringsAreBytes DEF SentAs, HeldAs
  <1>6. CASE kind = "FieldError"
    BY <1>2, <1>6 DEF SentAs, HeldAs
  <1>7. CASE kind = "Entry"
    BY <1>2, <1>7 DEF SentAs, HeldAs
  <1>8. CASE kind = "AppError"
    BY <1>2, <1>8 DEF SentAs, HeldAs
  <1>9. QED
    BY <1>3, <1>4, <1>5, <1>6, <1>7, <1>8 DEF Kinds

LEMMA HeldParts ==
    ASSUME NEW kind \in Kinds \ Scalar, NEW s \in SentAs(kind), NEW k \in 0 .. Len(s)
    PROVE  SubSeq(s, 1, k) \in HeldAs(kind)
  <1>1. s \in HeldAs(kind)
    BY SentIsHeld
  <1>2. PICK S : s \in Seq(S) /\ HeldAs(kind) = Seq(S)
    <2>1. CASE kind = "strings"
      BY <1>1, <2>1 DEF HeldAs
    <2>2. CASE kind = "FieldError"
      BY <1>1, <2>2 DEF HeldAs
    <2>3. CASE kind = "Entry"
      BY <1>1, <2>3 DEF HeldAs
    <2>4. CASE kind = "AppError"
      BY <1>1, <2>4 DEF HeldAs
    <2>5. QED
      BY <2>1, <2>2, <2>3, <2>4 DEF Kinds, Scalar
  <1>3. \A i \in 1 .. k : s[i] \in S
    <2>1. Len(s) \in Nat
      BY <1>2, LenProperties
    <2>2. \A i \in 1 .. k : i \in 1 .. Len(s)
      BY <2>1
    <2>3. QED
      BY <1>2, <2>2, ElementOfSeq
  <1>4. SubSeq(s, 1, k) \in Seq(S)
    <2>1. k \in Int
      OBVIOUS
    <2>2. QED
      BY <1>3, <2>1, SubSeqProperties
  <1>5. QED
    BY <1>2, <1>4

(* Before the first item.                                                  *)
LEMMA GoesNothing ==
    ASSUME NEW type \in Message, NEW t \in SentBy(type)
    PROVE  Goes(type, t, New(type), <<>>)
  <1>1. Begun(type, New(type), t)
    <2>1. New(type) \in HeldBy(type)
      BY NewHeld
    <2>2. ASSUME NEW f \in DOMAIN Fields[type]
          PROVE  BegunField(Fields[type][f], New(type)[f], New(type)[f], t[f])
      <3>1. CASE Fields[type][f] \in Scalar
        BY <3>1 DEF BegunField
      <3>2. CASE Fields[type][f] \notin Scalar
        <4>1. Fields[type][f] \in Kinds \ Scalar /\ t[f] \in SentAs(Fields[type][f])
          BY <3>2, KindsAre, SentFields
        <4>2. SubSeq(t[f], 1, 0) = <<>> /\ Len(t[f]) \in Nat
          BY <4>1, SentLists
        <4>3. New(type)[f] = <<>>
          BY <3>2 DEF New, Scalar
        <4>4. 0 \in 0 .. Len(t[f])
          BY <4>2
        <4>5. QED
          BY <3>2, <4>2, <4>3, <4>4 DEF BegunField
      <3>3. QED
        BY <3>1, <3>2
    <2>3. QED
      BY <2>1, <2>2 DEF Begun
  <1>2. PICK h, r : h = [k \in 0 .. 0 |-> New(type)] /\ r = [k \in 0 .. 0 |-> <<>>]
    OBVIOUS
  <1>3. Script(type, t, 0, h, r)
    <2>1. <<>> \in Bytes
      BY BytesJoined
    <2>2. 0 \in 0 .. 0 /\ (\A k \in 0 .. 0 : h[k] = New(type) /\ r[k] = <<>>)
      BY <1>2
    <2>3. 1 .. 0 = {}
      OBVIOUS
    <2>4. QED
      BY <1>1, <2>1, <2>2, <2>3 DEF Script
  <1>4. h[0] = New(type) /\ r[0] = <<>>
    BY <1>2
  <1>5. QED
    BY <1>3, <1>4 DEF Goes

-------------------------------------------------------------------------------
(* The encodings of one field more.                                        *)
LEMMA FlattenStep ==
    ASSUME NEW ss \in Seq(Bytes)
    PROVE  /\ FlattenSeq(SubSeq(ss, 1, 0)) = <<>>
           /\ SubSeq(ss, 1, Len(ss)) = ss
           /\ Len(ss) \in Nat
           /\ \A k \in 0 .. Len(ss) : FlattenSeq(SubSeq(ss, 1, k)) \in Bytes
           /\ \A k \in 1 .. Len(ss) :
                 /\ ss[k] \in Bytes
                 /\ FlattenSeq(SubSeq(ss, 1, k)) = FlattenSeq(SubSeq(ss, 1, k - 1)) \o ss[k]
  <1>1. Len(ss) \in Nat /\ \A k \in 1 .. Len(ss) : ss[k] \in Bytes
    BY LenProperties, ElementOfSeq
  <1>2. SubSeq(ss, 1, 0) = <<>> /\ SubSeq(ss, 1, Len(ss)) = ss
    BY SubSeqEmpty, SubSeqFull
  <1>3. FlattenSeq(<<>>) = <<>>
    BY DEF FlattenSeq
  <1>4. \A k \in 0 .. Len(ss) : SubSeq(ss, 1, k) \in Seq(Bytes)
    <2> SUFFICES ASSUME NEW k \in 0 .. Len(ss) PROVE SubSeq(ss, 1, k) \in Seq(Bytes)
      OBVIOUS
    <2>1. k \in Int /\ \A i \in 1 .. k : i \in 1 .. Len(ss)
      BY <1>1
    <2>2. \A i \in 1 .. k : ss[i] \in Bytes
      BY <1>1, <2>1
    <2>3. QED
      BY <2>1, <2>2, SubSeqProperties
  <1>5. ASSUME NEW k \in 1 .. Len(ss)
        PROVE  FlattenSeq(SubSeq(ss, 1, k)) = FlattenSeq(SubSeq(ss, 1, k - 1)) \o ss[k]
    <2>1. PICK l \in 0 .. Len(ss) : l = k - 1
      BY <1>1
    <2>2. PICK s, e : s = SubSeq(ss, 1, l) /\ e = ss[k]
      OBVIOUS
    <2>3. s \in Seq(Seq(Byte)) /\ e \in Seq(Byte) /\ s \in Seq(Bytes) /\ e \in Bytes
      BY <1>1, <1>4, <2>1, <2>2 DEF Bytes
    <2>4. FlattenSeq(Append(s, e)) = FlattenSeq(s) \o e
      BY <2>3, FlattenAppend
    <2>5. SubSeq(ss, 1, k) = Append(s, e)
      <3>1. 1 \in 1 .. Len(ss) /\ k \in 1 .. Len(ss)
        BY <1>1
      <3>2. SubSeq(ss, 1, k) = SubSeq(ss, 1, k - 1) \o <<ss[k]>>
        BY <3>1, SubSeqRecursiveSecond
      <3>3. Append(s, e) = s \o <<e>>
        BY <2>3, AppendIsConcat
      <3>4. QED
        BY <2>1, <2>2, <3>2, <3>3
    <2>6. QED
      BY <2>1, <2>2, <2>4, <2>5
  <1>6. QED
    BY <1>1, <1>2, <1>3, <1>4, <1>5, BytesJoined

(* The bytes of each part are among those of the whole.                    *)
LEMMA PartsAreShorter ==
    ASSUME NEW ss \in Seq(Bytes)
    PROVE  \A k \in 1 .. Len(ss) : Len(ss[k]) <= Len(FlattenSeq(ss))
  <1> DEFINE T == {n \in Nat : \A l \in 1 .. Len(ss) : l = n =>
                      \A k \in 1 .. l : Len(ss[k]) <= Len(FlattenSeq(SubSeq(ss, 1, l)))}
  <1>1. 0 \in T
    OBVIOUS
  <1>2. ASSUME NEW n \in Nat, n \in T PROVE n + 1 \in T
    <2> SUFFICES ASSUME NEW l \in 1 .. Len(ss), l = n + 1, NEW k \in 1 .. l
                 PROVE  Len(ss[k]) <= Len(FlattenSeq(SubSeq(ss, 1, l)))
      OBVIOUS
    <2>1. Len(ss) \in Nat
      BY LenProperties
    <2>2. PICK j \in 0 .. Len(ss) : j = l - 1 /\ j = n
      BY <2>1
    <2>3. PICK a, b : a = FlattenSeq(SubSeq(ss, 1, j)) /\ b = ss[l]
      OBVIOUS
    <2>4. a \in Seq(Byte) /\ b \in Seq(Byte) /\ FlattenSeq(SubSeq(ss, 1, l)) = a \o b
      BY <2>2, <2>3, FlattenStep DEF Bytes
    <2>5. Len(a \o b) = Len(a) + Len(b) /\ Len(a) \in Nat /\ Len(b) \in Nat
      BY <2>4, ConcatProperties, LenProperties
    <2>6. CASE k = l
      <3>1. ss[k] = b
        BY <2>3, <2>6
      <3>2. Len(b) <= Len(a \o b)
        BY <2>5
      <3>3. QED
        BY <2>4, <3>1, <3>2
    <2>7. CASE k # l
      <3>1. j \in 1 .. Len(ss) /\ k \in 1 .. j
        BY <2>1, <2>2, <2>7
      <3>2. Len(ss[k]) <= Len(a)
        BY <1>2, <2>2, <2>3, <3>1
      <3>3. k \in 1 .. Len(ss)
        BY <2>1
      <3>4. ss[k] \in Seq(Byte)
        BY <3>3, ElementOfSeq DEF Bytes
      <3>5. Len(ss[k]) \in Nat
        BY <3>4, LenProperties
      <3>6. Len(ss[k]) <= Len(a \o b)
        BY <2>5, <3>2, <3>5
      <3>7. QED
        BY <2>4, <3>6
    <2>8. QED
      BY <2>6, <2>7
  <1> HIDE DEF T
  <1>3. \A n \in Nat : n \in T
    BY <1>1, <1>2, InductionOnSet
  <1>4. Len(ss) \in Nat /\ SubSeq(ss, 1, Len(ss)) = ss
    BY FlattenStep
  <1>5. CASE Len(ss) = 0
    BY <1>5
  <1>6. CASE Len(ss) # 0
    <2>1. PICK l : l = Len(ss)
      OBVIOUS
    <2>2. l \in Nat /\ l \in 1 .. Len(ss)
      BY <1>4, <1>6, <2>1
    <2>3. \A k \in 1 .. l : Len(ss[k]) <= Len(FlattenSeq(SubSeq(ss, 1, l)))
      BY <1>3, <2>2 DEF T
    <2>4. SubSeq(ss, 1, l) = ss
      BY <1>4, <2>1
    <2>5. QED
      BY <2>1, <2>3, <2>4
  <1>7. QED
    BY <1>5, <1>6

(* What is written of a field of a message, and that it is not too long    *)
(* for its length to be.                                                   *)
FieldPart(type, t, f) ==
    IF Fields[type][f] \in Scalar THEN EncodeField(f, Fields[type][f], t[f])
    ELSE FlattenSeq([k \in DOMAIN t[f] |-> Delimited(f, Payload(Fields[type][f], t[f][k]))])

FieldFits(kind, v) ==
    CASE kind = "int32" -> TRUE
      [] kind \in {"string", "bytes"} -> Len(v) < Word
      [] OTHER -> \A k \in DOMAIN v : Len(Payload(kind, v[k])) < Word

LEMMA PayloadTyped ==
    ASSUME NEW kind \in Kinds \ Scalar, NEW s \in SentAs(kind), NEW k \in 1 .. Len(s)
    PROVE  Payload(kind, s[k]) \in Bytes
  <1>1. IF kind \in Message THEN s[k] \in SentBy(kind) ELSE s[k] \in String
    BY SentLists
  <1>2. CASE kind = "strings"
    BY <1>1, <1>2, MessageIs, StringsAreBytes DEF Payload
  <1>3. CASE kind = "AppError"
    <2>1. s[k] \in HeldAppError
      BY <1>1, <1>3, MessageIs, StringsAreBytes DEF SentBy
    <2>2. QED
      BY <1>3, <2>1, MessageIs, InsideTyped DEF Payload, Enc
  <1>4. CASE kind \in {"FieldError", "Entry"}
    <2>1. kind \in Message
      BY <1>4, MessageIs
    <2>2. s[k] \in SentBy(kind)
      BY <1>1, <2>1
    <2>3. PICK x, n : n \in Nat /\ x = s[k] /\ DOMAIN x = 1 .. n /\ DOMAIN Fields[kind] = 1 .. n
      <3>1. DOMAIN s[k] = DOMAIN Fields[kind] /\ DOMAIN Fields[kind] = 1 .. Len(Fields[kind])
        BY <2>1, <2>2, SentFields, KindsAre
      <3>2. Len(Fields[kind]) \in Nat
        BY <2>1, KindsAre
      <3>3. QED
        BY <3>1, <3>2
    <2>4. \A j \in 1 .. n : x[j] \in GivenAs(Fields[kind][j])
      <3> SUFFICES ASSUME NEW j \in 1 .. n PROVE x[j] \in GivenAs(Fields[kind][j])
        OBVIOUS
      <3>1. x[j] \in SentAs(Fields[kind][j])
        BY <2>1, <2>2, <2>3, SentFields
      <3>2. Fields[kind][j] \in {"string", "strings"}
        BY <1>4, <2>3, FieldsAre
      <3>3. QED
        BY <3>1, <3>2, StringsAreBytes DEF SentAs, GivenAs
    <2>5. FlattenSeq(FieldsOf(kind, x)) \in Bytes
      BY <2>3, <2>4, FieldsTyped
    <2>6. QED
      BY <1>4, <2>1, <2>3, <2>5 DEF Payload, Enc
  <1>5. QED
    BY <1>2, <1>3, <1>4 DEF Kinds, Scalar

(* The elements of a list, written.                                        *)
LEMMA ListTyped ==
    ASSUME NEW kind \in Kinds \ Scalar, NEW s \in SentAs(kind), NEW f \in Nat
    PROVE  \E ds \in Seq(Bytes) :
              /\ ds = [k \in DOMAIN s |-> Delimited(f, Payload(kind, s[k]))]
              /\ Len(ds) = Len(s)
              /\ \A k \in 1 .. Len(s) : ds[k] = Delimited(f, Payload(kind, s[k]))
  <1>1. PICK n \in Nat : Len(s) = n /\ DOMAIN s = 1 .. n
    BY SentLists
  <1>2. PICK ds : ds = [k \in 1 .. n |-> Delimited(f, Payload(kind, s[k]))]
    OBVIOUS
  <1>3. \A k \in 1 .. n : Delimited(f, Payload(kind, s[k])) \in Bytes
    BY <1>1, PayloadTyped, DelimitedTyped
  <1>4. ds \in Seq(Bytes) /\ Len(ds) = n
    BY <1>2, <1>3
  <1>5. QED
    BY <1>1, <1>2, <1>4

LEMMA ScalarGoes ==
    ASSUME NEW type \in Message, NEW t \in SentBy(type), NEW f \in DOMAIN Fields[type],
           Fields[type][f] \in Scalar, FieldFits(Fields[type][f], t[f]),
           NEW m, NEW b \in Bytes, Goes(type, t, m, b), Begun(type, m, t), m[f] = New(type)[f]
    PROVE  Goes(type, t, [m EXCEPT ![f] = t[f]], b \o FieldPart(type, t, f))
  <1>1. PICK kind : kind = Fields[type][f] /\ kind \in Kinds /\ kind \in Scalar
    BY KindsAre
  <1>2. t[f] \in SentAs(kind) /\ t[f] \in HeldAs(kind)
    BY <1>1, SentFields, SentIsHeld
  <1>3. m \in HeldBy(type) /\ DOMAIN m = DOMAIN Fields[type] /\ f \in Nat /\ kind \notin Message
    <2>1. DOMAIN Fields[type] = 1 .. Len(Fields[type]) /\ Len(Fields[type]) \in Nat
      BY KindsAre
    <2>2. QED
      BY <1>1, <2>1, HeldDomain, MessageIs DEF Begun, Scalar
  <1>4. PICK p : p = FieldPart(type, t, f)
    OBVIOUS
  <1>5. p = EncodeField(f, kind, t[f]) /\ p \in Bytes
    <2>1. t[f] \in GivenAs(kind)
      BY <1>1, <1>2, StringsAreBytes DEF SentAs, GivenAs, Scalar
    <2>2. QED
      BY <1>1, <1>3, <1>4, <2>1, FieldTyped DEF FieldPart
  <1>6. CASE t[f] = New(type)[f]
    <2>1. p = <<>>
      BY <1>1, <1>5, <1>6 DEF EncodeField, New, Scalar
    <2>2. [m EXCEPT ![f] = t[f]] = m
      BY <1>3, <1>6, HeldDomain
    <2>3. b \o <<>> = b
      BY ConcatEmptySeq DEF Bytes
    <2>4. QED
      BY <1>4, <2>1, <2>2, <2>3
  <1>7. CASE t[f] # New(type)[f]
    <2>1. PICK item : item = [num |-> f, value |-> t[f]]
      OBVIOUS
    <2>2. item.num = f /\ item.value = t[f] /\ f # 0
      <3>1. DOMAIN Fields[type] = 1 .. Len(Fields[type]) /\ Len(Fields[type]) \in Nat
        BY KindsAre
      <3>2. QED
        BY <2>1, <3>1
    <2>3. p = Piece(type, item)
      BY <1>1, <1>3, <1>5, <1>7, <2>2 DEF EncodeField, Piece, Payload, New, Scalar
    <2>4. Follows(type, m, item, t)
      <3>1. kind # "int32" => Len(Payload(kind, t[f])) < Word
        BY <1>1, <1>3 DEF FieldFits, Payload, Scalar
      <3>2. QED
        BY <1>1, <2>2, <3>1 DEF Follows
    <2>5. After(type, m, item) = [m EXCEPT ![f] = t[f]]
      BY <1>1, <2>2 DEF After, Adds
    <2>6. Begun(type, [m EXCEPT ![f] = t[f]], t)
      <3>1. BegunField(kind, New(type)[f], t[f], t[f])
        BY <1>1 DEF BegunField
      <3>2. QED
        BY <1>1, <1>2, <3>1, BegunUpdate
    <2>7. PICK m2 : m2 = [m EXCEPT ![f] = t[f]]
      OBVIOUS
    <2>8. Goes(type, t, m2, b \o p)
      BY <1>5, <2>3, <2>4, <2>5, <2>6, <2>7, GoesOn
    <2>9. QED
      BY <1>4, <2>7, <2>8
  <1>8. QED
    BY <1>6, <1>7

LEMMA ListGoes ==
    ASSUME NEW type \in Message, NEW t \in SentBy(type), NEW f \in DOMAIN Fields[type],
           Fields[type][f] \notin Scalar, FieldFits(Fields[type][f], t[f]),
           NEW m, NEW b \in Bytes, Goes(type, t, m, b), Begun(type, m, t), m[f] = New(type)[f]
    PROVE  Goes(type, t, [m EXCEPT ![f] = t[f]], b \o FieldPart(type, t, f))
  <1>1. PICK kind : kind = Fields[type][f] /\ kind \in Kinds \ Scalar
    BY KindsAre
  <1>2. PICK s : s = t[f] /\ s \in SentAs(kind)
    BY <1>1, SentFields
  <1>3. m \in HeldBy(type) /\ DOMAIN m = DOMAIN Fields[type] /\ f \in Nat /\ f # 0
    <2>1. DOMAIN Fields[type] = 1 .. Len(Fields[type]) /\ Len(Fields[type]) \in Nat
      BY KindsAre
    <2>2. QED
      BY <2>1, HeldDomain DEF Begun
  <1>4. PICK ds \in Seq(Bytes) :
              /\ ds = [k \in DOMAIN s |-> Delimited(f, Payload(kind, s[k]))]
              /\ Len(ds) = Len(s)
              /\ \A k \in 1 .. Len(s) : ds[k] = Delimited(f, Payload(kind, s[k]))
    BY <1>1, <1>2, <1>3, ListTyped
  <1>5. FieldPart(type, t, f) = FlattenSeq(ds)
    BY <1>1, <1>2, <1>4 DEF FieldPart
  <1>6. /\ Len(s) \in Nat /\ DOMAIN s = 1 .. Len(s)
        /\ SubSeq(s, 1, 0) = <<>> /\ SubSeq(s, 1, Len(s)) = s
    BY <1>1, <1>2, SentLists
  <1>7. \A k \in 0 .. Len(s) : Begun(type, [m EXCEPT ![f] = SubSeq(s, 1, k)], t)
    <2> SUFFICES ASSUME NEW k \in 0 .. Len(s)
                 PROVE  Begun(type, [m EXCEPT ![f] = SubSeq(s, 1, k)], t)
      OBVIOUS
    <2>1. SubSeq(s, 1, k) \in HeldAs(kind)
      BY <1>1, <1>2, HeldParts
    <2>2. BegunField(kind, New(type)[f], SubSeq(s, 1, k), t[f])
      BY <1>1, <1>2 DEF BegunField
    <2>3. QED
      BY <1>1, <2>1, <2>2, BegunUpdate
  <1>8. PICK ms, bs : /\ ms = [k \in 0 .. Len(s) |-> [m EXCEPT ![f] = SubSeq(s, 1, k)]]
                      /\ bs = [k \in 0 .. Len(s) |-> b \o FlattenSeq(SubSeq(ds, 1, k))]
    OBVIOUS
  <1>9. \A k \in 0 .. Len(s) :
           /\ ms[k] = [m EXCEPT ![f] = SubSeq(s, 1, k)]
           /\ bs[k] = b \o FlattenSeq(SubSeq(ds, 1, k))
           /\ ms[k][f] = SubSeq(s, 1, k)
           /\ Begun(type, ms[k], t)
           /\ bs[k] \in Bytes
    <2>1. \A k \in 0 .. Len(s) : b \o FlattenSeq(SubSeq(ds, 1, k)) \in Bytes
      BY <1>4, FlattenStep, BytesJoined
    <2>2. QED
      BY <1>3, <1>7, <1>8, <2>1
  <1> DEFINE T == {n \in Nat : \A k \in 0 .. Len(s) : k = n => Goes(type, t, ms[k], bs[k])}
  <1>10. 0 \in T
    <2>1. 0 \in 0 .. Len(s)
      BY <1>6
    <2>2. ms[0] = [m EXCEPT ![f] = <<>>] /\ bs[0] = b \o <<>>
      BY <1>4, <1>6, <1>9, <2>1, FlattenStep
    <2>3. [m EXCEPT ![f] = <<>>] = m
      <3>1. m[f] = <<>>
        BY <1>1 DEF New, Scalar
      <3>2. QED
        BY <1>3, <3>1, HeldDomain
    <2>4. b \o <<>> = b
      BY ConcatEmptySeq DEF Bytes
    <2>5. QED
      BY <2>2, <2>3, <2>4
  <1>11. ASSUME NEW n \in Nat, n \in T PROVE n + 1 \in T
    <2> SUFFICES ASSUME NEW k \in 0 .. Len(s), k = n + 1 PROVE Goes(type, t, ms[k], bs[k])
      OBVIOUS
    <2>1. PICK j \in 0 .. Len(s) : j = n /\ j = k - 1 /\ k \in 1 .. Len(s)
      BY <1>6
    <2>2. Goes(type, t, ms[j], bs[j])
      BY <1>11, <2>1
    <2>3. PICK item : item = [num |-> f, value |-> s[k]]
      OBVIOUS
    <2>4. item.num = f /\ item.value = s[k]
      BY <2>3
    <2>5. PICK p : p = ds[k]
      OBVIOUS
    <2>6. p = Piece(type, item) /\ p \in Bytes
      <3>1. p = Delimited(f, Payload(kind, s[k]))
        BY <1>4, <2>1, <2>5
      <3>2. kind # "int32"
        BY <1>1 DEF Scalar
      <3>3. Payload(kind, s[k]) \in Bytes
        BY <1>1, <1>2, <2>1, PayloadTyped
      <3>4. QED
        BY <1>1, <1>3, <2>4, <3>1, <3>2, <3>3, DelimitedTyped DEF Piece
    <2>7. Follows(type, ms[j], item, t)
      <3>1. Len(Payload(kind, s[k])) < Word
        BY <1>1, <1>2, <1>6, <2>1 DEF FieldFits, Scalar
      <3>2. ms[j][f] = SubSeq(t[f], 1, k - 1) /\ item.value = t[f][k] /\ k \in 1 .. Len(t[f])
        BY <1>2, <1>9, <2>1, <2>4
      <3>3. QED
        BY <1>1, <2>4, <3>1, <3>2 DEF Follows
    <2>8. After(type, ms[j], item) = ms[k]
      <3>1. Adds(kind, SubSeq(s, 1, k - 1), s[k]) = SubSeq(s, 1, k)
        BY <1>1, <1>2, <2>1, AddsNext
      <3>2. ms[j][f] = SubSeq(s, 1, k - 1)
        BY <1>9, <2>1
      <3>3. After(type, ms[j], item) = [ms[j] EXCEPT ![f] = SubSeq(s, 1, k)]
        BY <1>1, <1>3, <2>4, <3>1, <3>2 DEF After
      <3>4. [ms[j] EXCEPT ![f] = SubSeq(s, 1, k)] = [m EXCEPT ![f] = SubSeq(s, 1, k)]
        BY <1>9
      <3>5. QED
        BY <1>9, <3>3, <3>4
    <2>9. bs[k] = bs[j] \o p
      <3>1. FlattenSeq(SubSeq(ds, 1, k)) = FlattenSeq(SubSeq(ds, 1, j)) \o p
        BY <1>4, <2>1, <2>5, FlattenStep
      <3>2. PICK x : x = FlattenSeq(SubSeq(ds, 1, j)) /\ x \in Bytes
        BY <1>4, FlattenStep
      <3>3. b \in Seq(Byte) /\ x \in Seq(Byte) /\ p \in Seq(Byte)
        BY <2>6, <3>2 DEF Bytes
      <3>4. (b \o x) \o p = b \o (x \o p)
        BY <3>3, ConcatAssociative
      <3>5. QED
        BY <1>9, <3>1, <3>2, <3>4
    <2>10. PICK m1, m2, c : m1 = ms[j] /\ m2 = ms[k] /\ c = bs[j]
      OBVIOUS
    <2>11. /\ Goes(type, t, m1, c) /\ Follows(type, m1, item, t)
           /\ m2 = After(type, m1, item) /\ Begun(type, m2, t)
      BY <1>9, <2>2, <2>7, <2>8, <2>10
    <2>12. Goes(type, t, m2, c \o p)
      BY <2>6, <2>11, GoesOn
    <2>13. QED
      BY <2>9, <2>10, <2>12
  <1> HIDE DEF T
  <1>12. \A n \in Nat : n \in T
    BY <1>10, <1>11, InductionOnSet
  <1>13. PICK l : l = Len(s) /\ l \in 0 .. Len(s) /\ l \in Nat
    BY <1>6
  <1>14. Goes(type, t, ms[l], bs[l])
    BY <1>12, <1>13 DEF T
  <1>15. ms[l] = [m EXCEPT ![f] = s] /\ bs[l] = b \o FlattenSeq(ds)
    <2>1. SubSeq(s, 1, l) = s /\ SubSeq(ds, 1, l) = ds
      BY <1>4, <1>6, <1>13, FlattenStep
    <2>2. QED
      BY <1>9, <1>13, <2>1
  <1>16. QED
    BY <1>2, <1>5, <1>14, <1>15

LEMMA GoesBegun ==
    ASSUME NEW type, NEW t, NEW m, NEW b, Goes(type, t, m, b)
    PROVE  Begun(type, m, t) /\ b \in Bytes
  <1>1. PICK n, h, r : Script(type, t, n, h, r) /\ h[0] = New(type) /\ h[n] = m /\ r[0] = b
    BY DEF Goes
  <1>2. n \in Nat /\ \A k \in 0 .. n : Begun(type, h[k], t) /\ r[k] \in Bytes
    BY <1>1 DEF Script
  <1>3. 0 \in 0 .. n /\ n \in 0 .. n
    BY <1>2
  <1>4. QED
    BY <1>1, <1>2, <1>3

(* The first fields of a message are read; an unknown field changes nothing.*)
First(type, t, x) ==
    [f \in DOMAIN Fields[type] |-> IF f <= x THEN t[f] ELSE New(type)[f]]

Fits(type, t) == \A f \in DOMAIN Fields[type] : FieldFits(Fields[type][f], t[f])

LEMMA FieldsGo ==
    ASSUME NEW type \in Message, NEW t \in SentBy(type), Fits(type, t),
           NEW ss \in Seq(Bytes), NEW c \in [0 .. Len(ss) -> 0 .. Len(Fields[type])], c[0] = 0,
           \A j \in 1 .. Len(ss) :
               \/ c[j] = c[j - 1] + 1 /\ ss[j] = FieldPart(type, t, c[j])
               \/ c[j] = c[j - 1] /\ type = "Envelope" /\ ss[j] \in Unknown
    PROVE  \A j \in 0 .. Len(ss) :
               Goes(type, t, First(type, t, c[j]), FlattenSeq(SubSeq(ss, 1, j)))
  <1>1. PICK N \in Nat : N = Len(Fields[type]) /\ DOMAIN Fields[type] = 1 .. N
    BY KindsAre
  <1>2. Len(ss) \in Nat
    BY FlattenStep
  <1> DEFINE T == {n \in Nat : \A j \in 0 .. Len(ss) : j = n =>
                      Goes(type, t, First(type, t, c[j]), FlattenSeq(SubSeq(ss, 1, j)))}
  <1>3. 0 \in T
    <2>1. First(type, t, 0) = New(type)
      <3>1. \A f \in DOMAIN Fields[type] : ~(f <= 0)
        BY <1>1
      <3>2. New(type) = [f \in DOMAIN Fields[type] |-> New(type)[f]]
        BY DEF New
      <3>3. QED
        BY <3>1, <3>2 DEF First
    <2>2. FlattenSeq(SubSeq(ss, 1, 0)) = <<>>
      BY FlattenStep
    <2>3. QED
      BY <2>1, <2>2, GoesNothing
  <1>4. ASSUME NEW n \in Nat, n \in T PROVE n + 1 \in T
    <2> SUFFICES ASSUME NEW j \in 0 .. Len(ss), j = n + 1
                 PROVE  Goes(type, t, First(type, t, c[j]), FlattenSeq(SubSeq(ss, 1, j)))
      OBVIOUS
    <2>1. PICK i \in 0 .. Len(ss) : i = n /\ i = j - 1 /\ j \in 1 .. Len(ss)
      BY <1>2
    <2>2. PICK m, b, x, p : /\ x = c[i] /\ m = First(type, t, x)
                            /\ b = FlattenSeq(SubSeq(ss, 1, i)) /\ p = ss[j]
      OBVIOUS
    <2>3. Goes(type, t, m, b) /\ Begun(type, m, t) /\ b \in Bytes
      BY <1>4, <2>1, <2>2, GoesBegun
    <2>4. FlattenSeq(SubSeq(ss, 1, j)) = b \o p /\ p \in Bytes
      BY <2>1, <2>2, FlattenStep
    <2>5. x \in 0 .. N /\ c[j] \in 0 .. N
      BY <1>1, <2>1, <2>2
    <2>6. CASE c[j] = c[i] + 1 /\ ss[j] = FieldPart(type, t, c[j])
      <3>1. PICK f \in DOMAIN Fields[type] : f = c[j] /\ f = x + 1
        BY <1>1, <2>2, <2>5, <2>6
      <3>2. m[f] = New(type)[f]
        <4>1. ~(f <= x)
          BY <2>5, <3>1
        <4>2. QED
          BY <2>2, <4>1 DEF First
      <3>3. FieldFits(Fields[type][f], t[f])
        BY DEF Fits
      <3>4. Goes(type, t, [m EXCEPT ![f] = t[f]], b \o FieldPart(type, t, f))
        <4>1. CASE Fields[type][f] \in Scalar
          BY <2>3, <3>2, <3>3, <4>1, ScalarGoes
        <4>2. CASE Fields[type][f] \notin Scalar
          BY <2>3, <3>2, <3>3, <4>2, ListGoes
        <4>3. QED
          BY <4>1, <4>2
      <3>5. [m EXCEPT ![f] = t[f]] = First(type, t, f)
        <4>1. DOMAIN m = DOMAIN Fields[type] /\ m = [g \in DOMAIN Fields[type] |-> m[g]]
          BY <2>2 DEF First
        <4>2. PICK w : w = [m EXCEPT ![f] = t[f]]
          OBVIOUS
        <4>3. \A g \in DOMAIN Fields[type] :
                 w[g] = IF g <= f THEN t[g] ELSE New(type)[g]
          <5> SUFFICES ASSUME NEW g \in DOMAIN Fields[type]
                       PROVE  w[g] = IF g <= f THEN t[g] ELSE New(type)[g]
            OBVIOUS
          <5>1. w[g] = IF g = f THEN t[f] ELSE m[g]
            BY <4>1, <4>2
          <5>2. m[g] = IF g <= x THEN t[g] ELSE New(type)[g]
            BY <2>2 DEF First
          <5>3. g \in Nat /\ f \in Nat /\ x \in Nat
            BY <1>1, <2>5
          <5>4. (g <= f <=> g <= x \/ g = f)
            BY <3>1, <5>3
          <5>5. QED
            BY <5>1, <5>2, <5>4
        <4>4. w = [g \in DOMAIN Fields[type] |-> IF g <= f THEN t[g] ELSE New(type)[g]]
          <5>1. w = [g \in DOMAIN Fields[type] |-> w[g]]
            BY <4>1, <4>2
          <5>2. QED
            BY <4>3, <5>1
        <4>5. QED
          BY <4>2, <4>4 DEF First
      <3>6. QED
        BY <2>2, <2>4, <2>6, <3>1, <3>4, <3>5
    <2>7. CASE c[j] = c[i] /\ type = "Envelope" /\ ss[j] \in Unknown
      <3>1. PICK item : item = [num |-> 0, value |-> p]
        OBVIOUS
      <3>2. item.num = 0 /\ item.value = p
        BY <3>1
      <3>3. Follows(type, m, item, t) /\ p = Piece(type, item) /\ m = After(type, m, item)
        BY <2>2, <2>7, <3>2 DEF Follows, Piece, After
      <3>4. Goes(type, t, m, b \o p)
        BY <2>3, <2>4, <3>3, GoesOn
      <3>5. QED
        BY <2>2, <2>4, <2>7, <3>4
    <2>8. QED
      BY <2>1, <2>6, <2>7
  <1> HIDE DEF T
  <1>5. \A n \in Nat : n \in T
    BY <1>3, <1>4, InductionOnSet
  <1>6. QED
    <2> SUFFICES ASSUME NEW j \in 0 .. Len(ss)
                 PROVE  Goes(type, t, First(type, t, c[j]), FlattenSeq(SubSeq(ss, 1, j)))
      OBVIOUS
    <2>1. j \in Nat
      BY <1>2
    <2>2. QED
      BY <1>5, <2>1 DEF T

LEMMA FirstIsAll ==
    ASSUME NEW type \in Message, NEW t \in SentBy(type)
    PROVE  First(type, t, Len(Fields[type])) = t
  <1>1. PICK N \in Nat : N = Len(Fields[type]) /\ DOMAIN Fields[type] = 1 .. N
    BY KindsAre
  <1>2. t \in HeldBy(type) /\ t = [f \in DOMAIN Fields[type] |-> t[f]]
    BY SentFields, HeldDomain
  <1>3. \A f \in DOMAIN Fields[type] : f <= N
    BY <1>1
  <1>4. QED
    BY <1>1, <1>2, <1>3 DEF First

LEMMA DelimitedLength ==
    ASSUME NEW num \in Nat, NEW s \in Bytes
    PROVE  Len(s) \in Nat /\ Len(Delimited(num, s)) \in Nat /\ Len(s) <= Len(Delimited(num, s))
  <1>1. PICK a : a = Tag(num, 2) \o EncVarint[Len(s)] /\ a \in Seq(Byte)
    BY DelimitedTyped, BytesJoined DEF Bytes
  <1>2. s \in Seq(Byte)
    BY DEF Bytes
  <1>3. Len(a \o s) = Len(a) + Len(s) /\ Len(a) \in Nat /\ Len(s) \in Nat
    BY <1>1, <1>2, ConcatProperties, LenProperties
  <1>4. Delimited(num, s) = a \o s
    BY <1>1 DEF Delimited
  <1>5. QED
    BY <1>3, <1>4

(* When all that is written is shorter than the word, every part is.       *)
LEMMA FitsInside ==
    ASSUME NEW type \in Message, NEW t \in SentBy(type), NEW ss \in Seq(Bytes),
           Len(ss) = Len(Fields[type]),
           \A f \in DOMAIN Fields[type] : ss[f] = FieldPart(type, t, f),
           Len(FlattenSeq(ss)) < Word
    PROVE  Fits(type, t)
  <1> SUFFICES ASSUME NEW f \in DOMAIN Fields[type]
               PROVE  FieldFits(Fields[type][f], t[f])
    BY DEF Fits
  <1>1. /\ f \in Nat /\ f \in 1 .. Len(ss) /\ Word \in Nat
    <2>1. DOMAIN Fields[type] = 1 .. Len(Fields[type]) /\ Len(Fields[type]) \in Nat
      BY KindsAre
    <2>2. QED
      BY <2>1, WidthAssumption
  <1>2. PICK kind, p, v : /\ kind = Fields[type][f] /\ kind \in Kinds
                          /\ v = t[f] /\ v \in SentAs(kind) /\ p = ss[f]
    BY SentFields, KindsAre
  <1>3. Len(p) \in Nat /\ Len(p) < Word
    <2>1. Len(ss[f]) <= Len(FlattenSeq(ss))
      BY <1>1, PartsAreShorter
    <2>2. FlattenSeq(ss) \in Seq(Byte) /\ ss[f] \in Seq(Byte)
      BY <1>1, BytesJoined, ElementOfSeq DEF Bytes
    <2>3. Len(FlattenSeq(ss)) \in Nat /\ Len(ss[f]) \in Nat
      BY <2>2, LenProperties
    <2>4. QED
      BY <1>1, <1>2, <2>1, <2>3
  <1>4. CASE kind = "int32"
    BY <1>2, <1>4 DEF FieldFits
  <1>5. CASE kind \in {"string", "bytes"}
    <2>1. v \in Bytes
      BY <1>2, <1>5, StringsAreBytes DEF SentAs
    <2>2. CASE v = <<>>
      <3>1. Len(v) = 0 /\ 0 < Word
        BY <2>2, WidthAssumption
      <3>2. QED
        BY <1>2, <1>5, <3>1 DEF FieldFits
    <2>3. CASE v # <<>>
      <3>1. p = Delimited(f, v)
        BY <1>2, <1>5, <2>3 DEF FieldPart, EncodeField, Scalar
      <3>2. Len(v) <= Len(p) /\ Len(v) \in Nat
        BY <1>1, <2>1, <3>1, DelimitedLength
      <3>3. Len(v) < Word
        BY <1>1, <1>3, <3>2
      <3>4. QED
        BY <1>2, <1>5, <3>3 DEF FieldFits
    <2>4. QED
      BY <2>2, <2>3
  <1>6. CASE kind \notin Scalar
    <2>1. PICK ds \in Seq(Bytes) :
              /\ ds = [k \in DOMAIN v |-> Delimited(f, Payload(kind, v[k]))]
              /\ Len(ds) = Len(v)
              /\ \A k \in 1 .. Len(v) : ds[k] = Delimited(f, Payload(kind, v[k]))
      <3>1. kind \in Kinds \ Scalar /\ v \in SentAs(kind) /\ f \in Nat
        BY <1>1, <1>2, <1>6
      <3>2. QED
        BY <3>1, ListTyped
    <2>2. p = FlattenSeq(ds)
      BY <1>2, <1>6, <2>1 DEF FieldPart
    <2>3. ASSUME NEW k \in DOMAIN v PROVE Len(Payload(kind, v[k])) < Word
      <3>1. k \in 1 .. Len(v) /\ k \in 1 .. Len(ds)
        BY <1>2, <1>6, <2>1, SentLists
      <3>2. PICK x : x = Payload(kind, v[k]) /\ x \in Bytes
        BY <1>2, <1>6, <3>1, PayloadTyped
      <3>3. Len(Delimited(f, x)) <= Len(p)
        BY <2>1, <2>2, <3>1, <3>2, PartsAreShorter
      <3>4. /\ Len(x) \in Nat /\ Len(Delimited(f, x)) \in Nat
            /\ Len(x) <= Len(Delimited(f, x))
        BY <1>1, <3>2, DelimitedLength
      <3>5. Len(x) < Word
        BY <1>1, <1>3, <3>3, <3>4
      <3>6. QED
        BY <3>2, <3>5
    <2>4. QED
      <3>1. \A k \in DOMAIN v : Len(Payload(kind, v[k])) < Word
        BY <2>3
      <3>2. kind # "int32" /\ kind \notin {"string", "bytes"}
        BY <1>6 DEF Scalar
      <3>3. FieldFits(kind, v)
        BY <3>1, <3>2 DEF FieldFits
      <3>4. QED
        BY <1>2, <3>3
  <1>7. QED
    BY <1>4, <1>5, <1>6 DEF Scalar

(* The parts of a message, as encode makes them.                           *)
LEMMA EncodedList ==
    ASSUME NEW kind \in Kinds \ Scalar, NEW f, NEW s, NEW es, DOMAIN es = DOMAIN s,
           \A k \in DOMAIN s : es[k] = Payload(kind, s[k])
    PROVE  EncodeField(f, kind, es)
              = FlattenSeq([k \in DOMAIN s |-> Delimited(f, Payload(kind, s[k]))])
  <1>1. [k \in DOMAIN es |-> Delimited(f, es[k])]
           = [k \in DOMAIN s |-> Delimited(f, Payload(kind, s[k]))]
    OBVIOUS
  <1>2. EncodeField(f, kind, es) = FlattenSeq([k \in DOMAIN es |-> Delimited(f, es[k])])
    BY DEF EncodeField, Scalar, Kinds
  <1>3. QED
    BY <1>1, <1>2

LEMMA PlainField ==
    ASSUME NEW type \in Message, NEW t \in SentBy(type), NEW f \in DOMAIN Fields[type],
           Fields[type][f] \in Scalar \union {"strings"}
    PROVE  EncodeField(f, Fields[type][f], t[f]) = FieldPart(type, t, f)
  <1>1. CASE Fields[type][f] \in Scalar
    BY <1>1 DEF FieldPart
  <1>2. CASE Fields[type][f] = "strings"
    <2>1. "strings" \in Kinds \ Scalar /\ "strings" \notin Message
      BY MessageIs DEF Kinds, Scalar
    <2>2. \A k \in DOMAIN t[f] : t[f][k] = Payload("strings", t[f][k])
      BY <2>1 DEF Payload
    <2>3. EncodeField(f, "strings", t[f])
             = FlattenSeq([k \in DOMAIN t[f] |-> Delimited(f, Payload("strings", t[f][k]))])
      BY <2>1, <2>2, EncodedList
    <2>4. QED
      BY <1>2, <2>1, <2>3 DEF FieldPart
  <1>3. QED
    BY <1>1, <1>2

LEMMA PartsOfInner ==
    ASSUME NEW type \in Message \ {"Envelope"}, NEW t \in SentBy(type)
    PROVE  \E ss \in Seq(Bytes) :
              /\ Len(ss) = Len(Fields[type])
              /\ \A f \in DOMAIN Fields[type] : ss[f] = FieldPart(type, t, f)
              /\ Enc(type, t) = FlattenSeq(ss)
  <1>1. CASE type \in {"FieldError", "Entry"}
    <2>1. PICK n, ss : /\ n \in Nat /\ DOMAIN t = 1 .. n /\ DOMAIN Fields[type] = 1 .. n
                       /\ n = Len(Fields[type]) /\ ss = FieldsOf(type, t)
      <3>1. DOMAIN t = DOMAIN Fields[type] /\ DOMAIN Fields[type] = 1 .. Len(Fields[type])
        BY SentFields, KindsAre
      <3>2. Len(Fields[type]) \in Nat
        BY KindsAre
      <3>3. QED
        BY <3>1, <3>2
    <2>2. \A f \in 1 .. n : Fields[type][f] \in {"string", "strings"}
      BY <1>1, <2>1, FieldsAre
    <2>3. \A f \in 1 .. n : t[f] \in GivenAs(Fields[type][f])
      <3> SUFFICES ASSUME NEW f \in 1 .. n PROVE t[f] \in GivenAs(Fields[type][f])
        OBVIOUS
      <3>1. t[f] \in SentAs(Fields[type][f])
        BY <2>1, SentFields
      <3>2. QED
        BY <2>2, <3>1, StringsAreBytes DEF SentAs, GivenAs
    <2>4. ss \in Seq(Bytes) /\ Len(ss) = n
      BY <2>1, <2>3, FieldsTyped
    <2>5. \A f \in 1 .. n : ss[f] = FieldPart(type, t, f)
      <3> SUFFICES ASSUME NEW f \in 1 .. n PROVE ss[f] = FieldPart(type, t, f)
        OBVIOUS
      <3>1. ss[f] = EncodeField(f, Fields[type][f], t[f])
        BY <2>1 DEF FieldsOf
      <3>2. Fields[type][f] \in Scalar \union {"strings"}
        BY <2>2 DEF Scalar
      <3>3. QED
        BY <2>1, <3>1, <3>2, PlainField
    <2>6. Enc(type, t) = FlattenSeq(ss)
      BY <1>1, <2>1 DEF Enc
    <2>7. QED
      BY <2>1, <2>4, <2>5, <2>6
  <1>2. CASE type = "AppError"
    <2>1. t \in HeldAppError /\ t \in HeldBy(type)
      BY <1>2, SentFields DEF HeldBy
    <2>2. PICK in, ss : in = EncodeInside(t) /\ ss = FieldsOf("AppError", in)
      OBVIOUS
    <2>3. /\ DOMAIN in = 1 .. 5
          /\ \A k \in 1 .. 3 : in[k] = t[k]
          /\ in[4] = EncodeEach("FieldError", t[4])
          /\ in[5] = EncodeEach("Entry", t[5])
          /\ ss \in Seq(Bytes) /\ Len(ss) = 5
      BY <2>1, <2>2, InsideTyped
    <2>4. \A f \in 1 .. 5 : ss[f] = EncodeField(f, Fields["AppError"][f], in[f])
      BY <2>2, <2>3 DEF FieldsOf
    <2>5. /\ DOMAIN Fields["AppError"] = 1 .. 5 /\ Len(Fields["AppError"]) = 5
          /\ \A f \in 1 .. 3 : Fields["AppError"][f] \in Scalar \union {"strings"}
          /\ Fields["AppError"][4] = "FieldError" /\ Fields["AppError"][5] = "Entry"
      BY FieldsAre DEF Scalar
    <2>6. ASSUME NEW f \in 1 .. 3 PROVE ss[f] = FieldPart("AppError", t, f)
      BY <1>2, <2>3, <2>4, <2>5, PlainField
    <2>7. ASSUME NEW f \in 4 .. 5 PROVE ss[f] = FieldPart("AppError", t, f)
      <3>1. PICK kind, s, es : /\ kind = Fields["AppError"][f] /\ s = t[f]
                               /\ es = EncodeEach(kind, s)
        OBVIOUS
      <3>2. kind \in {"FieldError", "Entry"} /\ kind \in Kinds \ Scalar /\ kind \in Message
        BY <2>5, <3>1, MessageIs DEF Kinds, Scalar
      <3>3. DOMAIN es = DOMAIN s /\ \A k \in DOMAIN s : es[k] = Payload(kind, s[k])
        BY <3>1, <3>2 DEF EncodeEach, Payload, Enc
      <3>4. in[f] = es
        BY <2>3, <2>5, <3>1
      <3>5. ss[f] = FlattenSeq([k \in DOMAIN s |-> Delimited(f, Payload(kind, s[k]))])
        <4>1. ss[f] = EncodeField(f, kind, es)
          BY <2>4, <3>1, <3>4
        <4>2. QED
          BY <3>2, <3>3, <4>1, EncodedList
      <3>6. QED
        BY <3>1, <3>2, <3>5 DEF FieldPart
    <2>8. \A f \in 1 .. 5 : ss[f] = FieldPart("AppError", t, f)
      BY <2>6, <2>7
    <2>9. Enc(type, t) = FlattenSeq(ss)
      BY <1>2, <2>2 DEF Enc
    <2>10. QED
      BY <1>2, <2>3, <2>5, <2>8, <2>9
  <1>3. QED
    BY <1>1, <1>2, MessageIs

LEMMA PartsOfEnvelope ==
    ASSUME NEW e \in SentBy("Envelope")
    PROVE  /\ Parts(e) \in Seq(Bytes) /\ Len(Parts(e)) = 4 /\ Len(Fields["Envelope"]) = 4
           /\ DOMAIN Fields["Envelope"] = 1 .. 4
           /\ \A f \in 1 .. 4 : Parts(e)[f] = FieldPart("Envelope", e, f)
  <1>1. e \in AnEnvelope /\ "Envelope" \in Message
    BY MessageIs DEF SentBy
  <1>2. /\ DOMAIN Fields["Envelope"] = 1 .. 4 /\ Len(Fields["Envelope"]) = 4
        /\ \A f \in 1 .. 3 : Fields["Envelope"][f] \in Scalar \union {"strings"}
        /\ Fields["Envelope"][4] = "AppError"
    BY FieldsAre DEF Scalar
  <1>3. \A f \in 1 .. 3 : Parts(e)[f] = FieldPart("Envelope", e, f)
    BY <1>1, <1>2, PartsTyped, PlainField
  <1>4. Parts(e)[4] = FieldPart("Envelope", e, 4)
    <2>1. PICK s, es : s = e[4] /\ es = AppErrors(e)
      OBVIOUS
    <2>2. "AppError" \in Kinds \ Scalar /\ "AppError" \in Message
      BY MessageIs DEF Kinds, Scalar
    <2>3. s \in SentAs("AppError")
      <3>1. 4 \in DOMAIN Fields["Envelope"]
        BY <1>2
      <3>2. QED
        BY <1>1, <1>2, <2>1, <3>1, SentFields
    <2>4. DOMAIN s = 1 .. Len(s) /\ DOMAIN es = DOMAIN s
      <3>1. DOMAIN s = 1 .. Len(s)
        BY <2>2, <2>3, SentLists
      <3>2. es \in Seq(Bytes) /\ Len(es) = Len(s)
        BY <1>1, <2>1, PartsTyped
      <3>3. QED
        BY <3>1, <3>2, LenProperties
    <2>5. \A k \in DOMAIN s : es[k] = Payload("AppError", s[k])
      BY <1>1, <2>1, <2>2, <2>4, PartsTyped DEF Payload, Enc
    <2>6. Parts(e)[4] = EncodeField(4, "AppError", es)
      BY <1>1, <1>2, <2>1, PartsTyped
    <2>7. Parts(e)[4] = FlattenSeq([k \in DOMAIN s |-> Delimited(4, Payload("AppError", s[k]))])
      BY <2>2, <2>4, <2>5, <2>6, EncodedList
    <2>8. QED
      BY <1>2, <2>1, <2>2, <2>7 DEF FieldPart
  <1>5. QED
    BY <1>1, <1>2, <1>3, <1>4, PartsTyped

-------------------------------------------------------------------------------
(* What is still to be read of a message, when m of it is.                 *)
Ahead(type, t, m, todo) ==
    \E n, h, r, k : Script(type, t, n, h, r) /\ h[n] = t /\ k \in 0 .. n /\ h[k] = m /\ r[k] = todo

LEMMA GoesAhead ==
    ASSUME NEW type, NEW t, NEW b, Goes(type, t, t, b)
    PROVE  Ahead(type, t, New(type), b)
  <1>1. PICK n, h, r : Script(type, t, n, h, r) /\ h[0] = New(type) /\ h[n] = t /\ r[0] = b
    BY DEF Goes
  <1>2. 0 \in 0 .. n
    BY <1>1 DEF Script
  <1>3. QED
    BY <1>1, <1>2 DEF Ahead

LEMMA AheadStep ==
    ASSUME NEW type, NEW t, NEW m, NEW todo, Ahead(type, t, m, todo)
    PROVE  /\ Begun(type, m, t) /\ todo \in Bytes
           /\ \/ todo = <<>> /\ m = t
              \/ \E item, p, more :
                    /\ Follows(type, m, item, t)
                    /\ p = Piece(type, item) /\ p \in Bytes /\ more \in Bytes
                    /\ todo = p \o more
                    /\ Ahead(type, t, After(type, m, item), more)
  <1>1. PICK n, h, r, k : /\ Script(type, t, n, h, r) /\ h[n] = t
                          /\ k \in 0 .. n /\ h[k] = m /\ r[k] = todo
    BY DEF Ahead
  <1>2. /\ n \in Nat /\ r[n] = <<>>
        /\ \A j \in 0 .. n : Begun(type, h[j], t) /\ r[j] \in Bytes
        /\ \A j \in 1 .. n : \E item :
              /\ Follows(type, h[j - 1], item, t)
              /\ h[j] = After(type, h[j - 1], item)
              /\ Piece(type, item) \in Bytes
              /\ r[j - 1] = Piece(type, item) \o r[j]
    BY <1>1 DEF Script
  <1>3. Begun(type, m, t) /\ todo \in Bytes
    BY <1>1, <1>2
  <1>4. CASE k = n
    BY <1>1, <1>2, <1>3, <1>4
  <1>5. CASE k # n
    <2>1. PICK j \in 1 .. n : j = k + 1 /\ k = j - 1
      BY <1>1, <1>2, <1>5
    <2>2. PICK item :
              /\ Follows(type, h[j - 1], item, t)
              /\ h[j] = After(type, h[j - 1], item)
              /\ Piece(type, item) \in Bytes
              /\ r[j - 1] = Piece(type, item) \o r[j]
      BY <1>2
    <2>3. PICK m2, more, p : m2 = h[j] /\ more = r[j] /\ p = Piece(type, item)
      OBVIOUS
    <2>4. j \in 0 .. n
      BY <1>2
    <2>5. Ahead(type, t, m2, more)
      BY <1>1, <2>3, <2>4 DEF Ahead
    <2>6. /\ Follows(type, m, item, t) /\ m2 = After(type, m, item)
          /\ p \in Bytes /\ todo = p \o more /\ more \in Bytes
      BY <1>1, <1>2, <2>1, <2>2, <2>3, <2>4
    <2>7. QED
      BY <1>3, <2>3, <2>5, <2>6
  <1>6. QED
    BY <1>4, <1>5

LEMMA InnerAhead ==
    ASSUME NEW type \in Message \ {"Envelope"}, NEW t \in SentBy(type),
           Len(Enc(type, t)) < Word
    PROVE  Ahead(type, t, New(type), Enc(type, t))
  <1>1. PICK ss \in Seq(Bytes) : /\ Len(ss) = Len(Fields[type])
                                 /\ \A f \in DOMAIN Fields[type] : ss[f] = FieldPart(type, t, f)
                                 /\ Enc(type, t) = FlattenSeq(ss)
    BY PartsOfInner
  <1>2. Fits(type, t)
    BY <1>1, FitsInside
  <1>3. PICK N \in Nat : /\ N = Len(Fields[type]) /\ DOMAIN Fields[type] = 1 .. N
                         /\ N = Len(ss) /\ SubSeq(ss, 1, N) = ss
    BY <1>1, KindsAre, FlattenStep
  <1>4. PICK c : c = [j \in 0 .. N |-> j]
    OBVIOUS
  <1>5. /\ c \in [0 .. N -> 0 .. N] /\ c[0] = 0 /\ c[N] = N /\ N \in 0 .. N
        /\ \A j \in 1 .. N : c[j] = c[j - 1] + 1 /\ c[j] = j
    BY <1>4
  <1>6. \A j \in 1 .. N : c[j] = c[j - 1] + 1 /\ ss[j] = FieldPart(type, t, c[j])
    BY <1>1, <1>3, <1>5
  <1>7. \A j \in 0 .. Len(ss) :
           Goes(type, t, First(type, t, c[j]), FlattenSeq(SubSeq(ss, 1, j)))
    BY <1>2, <1>3, <1>5, <1>6, FieldsGo
  <1>8. Goes(type, t, First(type, t, N), FlattenSeq(ss))
    BY <1>3, <1>5, <1>7
  <1>9. Goes(type, t, t, FlattenSeq(ss))
    BY <1>3, <1>8, FirstIsAll
  <1>10. QED
    BY <1>1, <1>9, GoesAhead

(* An envelope, with a field of another version after q - 1 of its own, or *)
(* with none.                                                              *)
LEMMA EnvelopeAhead ==
    ASSUME NEW e \in SentBy("Envelope"), Len(FlattenSeq(Parts(e))) < Word,
           NEW ss \in Seq(Bytes), NEW q \in 1 .. 6,
           Len(ss) = IF q = 6 THEN 4 ELSE 5,
           \A j \in 1 .. Len(ss) : \/ j < q /\ ss[j] = Parts(e)[j]
                                   \/ j = q /\ ss[j] \in Unknown
                                   \/ j > q /\ ss[j] = Parts(e)[j - 1]
    PROVE  Ahead("Envelope", e, New("Envelope"), FlattenSeq(ss))
  <1>1. /\ Parts(e) \in Seq(Bytes) /\ Len(Parts(e)) = 4 /\ Len(Fields["Envelope"]) = 4
        /\ DOMAIN Fields["Envelope"] = 1 .. 4 /\ "Envelope" \in Message
        /\ \A f \in 1 .. 4 : Parts(e)[f] = FieldPart("Envelope", e, f)
    BY PartsOfEnvelope, MessageIs
  <1>2. Fits("Envelope", e)
    BY <1>1, FitsInside
  <1>3. PICK c : c = [j \in 0 .. Len(ss) |-> IF j < q THEN j ELSE j - 1]
    OBVIOUS
  <1>4. /\ c \in [0 .. Len(ss) -> 0 .. Len(Fields["Envelope"])] /\ c[0] = 0 /\ c[Len(ss)] = 4
        /\ \A j \in 1 .. Len(ss) : /\ j < q => c[j] = j /\ c[j] = c[j - 1] + 1
                                   /\ j = q => c[j] = c[j - 1]
                                   /\ j > q => c[j] = j - 1 /\ c[j] = c[j - 1] + 1
    <2>1. Len(ss) \in {4, 5} /\ (Len(ss) = 5 <=> q # 6)
      OBVIOUS
    <2>2. \A j \in 0 .. Len(ss) : c[j] = IF j < q THEN j ELSE j - 1
      BY <1>3
    <2>3. \A j \in 0 .. Len(ss) : c[j] \in 0 .. 4
      BY <2>1, <2>2
    <2>4. c \in [0 .. Len(ss) -> 0 .. 4]
      BY <1>3, <2>3
    <2>5. c[0] = 0 /\ c[Len(ss)] = 4
      BY <2>1, <2>2
    <2>6. \A j \in 1 .. Len(ss) : j - 1 \in 0 .. Len(ss) /\ j \in 0 .. Len(ss)
      BY <2>1
    <2>7. QED
      BY <1>1, <2>2, <2>4, <2>5, <2>6
  <1>5. \A j \in 1 .. Len(ss) :
               \/ c[j] = c[j - 1] + 1 /\ ss[j] = FieldPart("Envelope", e, c[j])
               \/ c[j] = c[j - 1] /\ "Envelope" = "Envelope" /\ ss[j] \in Unknown
    <2> SUFFICES ASSUME NEW j \in 1 .. Len(ss)
                 PROVE  \/ c[j] = c[j - 1] + 1 /\ ss[j] = FieldPart("Envelope", e, c[j])
                        \/ c[j] = c[j - 1] /\ ss[j] \in Unknown
      OBVIOUS
    <2>1. Len(ss) \in {4, 5} /\ (Len(ss) = 5 <=> q # 6)
      OBVIOUS
    <2>2. CASE j < q /\ ss[j] = Parts(e)[j]
      <3>1. j \in 1 .. 4
        BY <2>1, <2>2
      <3>2. QED
        BY <1>1, <1>4, <2>2, <3>1
    <2>3. CASE j = q /\ ss[j] \in Unknown
      BY <1>4, <2>3
    <2>4. CASE j > q /\ ss[j] = Parts(e)[j - 1]
      <3>1. j - 1 \in 1 .. 4
        BY <2>1, <2>4
      <3>2. QED
        BY <1>1, <1>4, <2>4, <3>1
    <2>5. QED
      BY <2>2, <2>3, <2>4
  <1>6. \A j \in 0 .. Len(ss) :
           Goes("Envelope", e, First("Envelope", e, c[j]), FlattenSeq(SubSeq(ss, 1, j)))
    BY <1>1, <1>2, <1>4, <1>5, FieldsGo
  <1>7. PICK l : l = Len(ss)
    OBVIOUS
  <1>8. Goes("Envelope", e, First("Envelope", e, 4), FlattenSeq(ss))
    <2>1. Goes("Envelope", e, First("Envelope", e, c[l]), FlattenSeq(SubSeq(ss, 1, l)))
      <3>1. Len(ss) \in Nat
        BY FlattenStep
      <3>2. l \in 0 .. Len(ss)
        BY <1>7, <3>1
      <3>3. QED
        BY <1>6, <3>2
    <2>2. c[l] = 4
      BY <1>4, <1>7
    <2>3. SubSeq(ss, 1, l) = ss
      BY <1>7, FlattenStep
    <2>4. QED
      BY <2>1, <2>2, <2>3
  <1>9. First("Envelope", e, 4) = e
    <2>1. First("Envelope", e, Len(Fields["Envelope"])) = e
      BY <1>1, FirstIsAll
    <2>2. QED
      BY <1>1, <2>1
  <1>10. QED
    BY <1>8, <1>9, GoesAhead

(* From index i on, as far as there are bytes up to n, b is what is to be  *)
(* read, and there is nothing after it.                                    *)
Carries(b, i, n, todo) ==
    /\ n + 1 - i <= Len(todo)
    /\ \A k \in 1 .. Len(todo) : i + k - 1 <= n => b[i + k - 1] = todo[k]

LEMMA Inserted ==
    ASSUME NEW parts \in Seq(Bytes), Len(parts) = 4, NEW q \in 1 .. 5, NEW u \in Bytes
    PROVE  /\ InsertAt(parts, q, u) \in Seq(Bytes) /\ Len(InsertAt(parts, q, u)) = 5
           /\ \A j \in 1 .. 5 : /\ j < q => InsertAt(parts, q, u)[j] = parts[j]
                                /\ j = q => InsertAt(parts, q, u)[j] = u
                                /\ j > q => InsertAt(parts, q, u)[j] = parts[j - 1]
  <1>1. PICK l \in 0 .. 4 : l = q - 1 /\ q = l + 1
    OBVIOUS
  <1>2. PICK s1, s2, s3 : s1 = SubSeq(parts, 1, l) /\ s2 = <<u>> /\ s3 = SubSeq(parts, q, 4)
    OBVIOUS
  <1>3. \A i \in 1 .. 4 : parts[i] \in Bytes
    BY ElementOfSeq
  <1>4. s1 \in Seq(Bytes) /\ Len(s1) = l /\ \A i \in 1 .. l : s1[i] = parts[i]
    <2>1. \A i \in 1 .. l : parts[i] \in Bytes
      BY <1>3
    <2>2. /\ SubSeq(parts, 1, l) \in Seq(Bytes)
          /\ Len(SubSeq(parts, 1, l)) = IF 1 <= l THEN l - 1 + 1 ELSE 0
          /\ \A i \in 1 .. l - 1 + 1 : SubSeq(parts, 1, l)[i] = parts[1 + i - 1]
      BY <2>1, SubSeqProperties
    <2>3. l - 1 + 1 = l /\ (\A i \in 1 .. l : 1 + i - 1 = i)
      OBVIOUS
    <2>4. QED
      BY <1>2, <2>2, <2>3
  <1>5. s3 \in Seq(Bytes) /\ Len(s3) = 4 - l /\ \A i \in 1 .. 4 - l : s3[i] = parts[l + i]
    <2>1. \A i \in q .. 4 : parts[i] \in Bytes
      BY <1>3
    <2>2. /\ SubSeq(parts, q, 4) \in Seq(Bytes)
          /\ Len(SubSeq(parts, q, 4)) = IF q <= 4 THEN 4 - q + 1 ELSE 0
          /\ \A i \in 1 .. 4 - q + 1 : SubSeq(parts, q, 4)[i] = parts[q + i - 1]
      BY <2>1, SubSeqProperties
    <2>3. 4 - q + 1 = 4 - l /\ (\A i \in 1 .. 4 - l : q + i - 1 = l + i)
      BY <1>1
    <2>4. QED
      BY <1>1, <1>2, <2>2, <2>3
  <1>6. s2 \in Seq(Bytes) /\ Len(s2) = 1 /\ s2[1] = u
    BY <1>2
  <1>7. PICK s12 : /\ s12 = s1 \o s2 /\ s12 \in Seq(Bytes) /\ Len(s12) = l + 1
                   /\ \A i \in 1 .. l + 1 : s12[i] = IF i <= l THEN parts[i] ELSE u
    <2>1. /\ s1 \o s2 \in Seq(Bytes) /\ Len(s1 \o s2) = Len(s1) + Len(s2)
          /\ \A i \in 1 .. Len(s1) + Len(s2) : (s1 \o s2)[i] =
                IF i <= Len(s1) THEN s1[i] ELSE s2[i - Len(s1)]
      BY <1>4, <1>6, ConcatProperties
    <2>2. \A i \in 1 .. l + 1 : (s1 \o s2)[i] = IF i <= l THEN s1[i] ELSE s2[i - l]
      BY <1>4, <1>6, <2>1
    <2>3. \A i \in 1 .. l + 1 : ~(i <= l) => i - l = 1
      OBVIOUS
    <2>4. \A i \in 1 .. l + 1 : i <= l => i \in 1 .. l
      OBVIOUS
    <2>5. \A i \in 1 .. l + 1 : (s1 \o s2)[i] = IF i <= l THEN parts[i] ELSE u
      BY <1>4, <1>6, <2>2, <2>3, <2>4
    <2>6. QED
      BY <1>4, <1>6, <2>1, <2>5
  <1>8. PICK s : /\ s = s12 \o s3 /\ s \in Seq(Bytes) /\ Len(s) = 5
                 /\ \A i \in 1 .. 5 : s[i] = IF i <= l + 1 THEN s12[i] ELSE s3[i - (l + 1)]
    <2>1. /\ s12 \o s3 \in Seq(Bytes) /\ Len(s12 \o s3) = Len(s12) + Len(s3)
          /\ \A i \in 1 .. Len(s12) + Len(s3) : (s12 \o s3)[i] =
                IF i <= Len(s12) THEN s12[i] ELSE s3[i - Len(s12)]
      <3>1. s12 \in Seq(Bytes) /\ s3 \in Seq(Bytes)
        BY <1>5, <1>7
      <3>2. QED
        BY <3>1, ConcatProperties
    <2>2. Len(s12) + Len(s3) = 5
      BY <1>5, <1>7
    <2>3. \A i \in 1 .. 5 : (s12 \o s3)[i] = IF i <= l + 1 THEN s12[i] ELSE s3[i - (l + 1)]
      BY <1>7, <2>1, <2>2
    <2>4. QED
      BY <2>1, <2>2, <2>3
  <1>9. s = InsertAt(parts, q, u)
    BY <1>1, <1>2, <1>7, <1>8 DEF InsertAt
  <1>10. ASSUME NEW j \in 1 .. 5
         PROVE  s[j] = IF j < q THEN parts[j] ELSE IF j = q THEN u ELSE parts[j - 1]
    <2>1. CASE j <= l + 1
      <3>1. j \in 1 .. l + 1
        BY <2>1
      <3>2. s[j] = s12[j]
        BY <1>8, <2>1
      <3>3. s[j] = IF j <= l THEN parts[j] ELSE u
        BY <1>7, <3>1, <3>2
      <3>4. (j <= l <=> j < q) /\ (~(j <= l) => j = q)
        BY <1>1, <2>1
      <3>5. QED
        BY <3>3, <3>4
    <2>2. CASE ~(j <= l + 1)
      <3>1. PICK i \in 1 .. 4 - l : i = j - (l + 1) /\ l + i = j - 1
        BY <2>2
      <3>2. s[j] = parts[l + i]
        BY <1>5, <1>8, <2>2, <3>1
      <3>3. QED
        BY <1>1, <2>2, <3>1, <3>2
    <2>3. QED
      BY <2>1, <2>2
  <1>11. QED
    BY <1>8, <1>9, <1>10

LEMMA CarriesSelf ==
    ASSUME NEW b \in Bytes
    PROVE  Carries(b, 1, Len(b), b)
  <1>1. Len(b) \in Nat
    BY LenProperties DEF Bytes
  <1>2. \A k \in 1 .. Len(b) : 1 + k - 1 = k
    OBVIOUS
  <1>3. QED
    BY <1>1, <1>2 DEF Carries

LEMMA CarriesCut ==
    ASSUME NEW w \in Bytes, NEW k \in 0 .. Len(w)
    PROVE  Carries(SubSeq(w, 1, k), 1, Len(SubSeq(w, 1, k)), w)
  <1>1. Len(w) \in Nat
    BY LenProperties DEF Bytes
  <1>2. \A i \in 1 .. k : w[i] \in Byte
    <2>1. \A i \in 1 .. k : i \in 1 .. Len(w)
      BY <1>1
    <2>2. QED
      BY <2>1, ElementOfSeq DEF Bytes
  <1>3. PICK b : b = SubSeq(w, 1, k)
    OBVIOUS
  <1>4. /\ SubSeq(w, 1, k) \in Seq(Byte)
        /\ Len(SubSeq(w, 1, k)) = IF 1 <= k THEN k - 1 + 1 ELSE 0
        /\ \A i \in 1 .. k - 1 + 1 : SubSeq(w, 1, k)[i] = w[1 + i - 1]
    <2>1. 1 \in Int /\ k \in Int
      OBVIOUS
    <2>2. QED
      BY <1>2, <2>1, SubSeqProperties
  <1>5. k - 1 + 1 = k /\ (\A i \in 1 .. k : 1 + i - 1 = i)
    OBVIOUS
  <1>6. Len(b) = k /\ \A i \in 1 .. k : b[i] = w[i]
    BY <1>3, <1>4, <1>5
  <1>7. \A i \in 1 .. Len(w) : 1 + i - 1 = i /\ (i <= k => i \in 1 .. k)
    BY <1>1
  <1>8. Carries(b, 1, k, w)
    BY <1>1, <1>6, <1>7 DEF Carries
  <1>9. QED
    BY <1>3, <1>6, <1>8

LEMMA ReceivedAhead ==
    ASSUME NEW e \in SentBy("Envelope"), Len(FlattenSeq(Parts(e))) < Word,
           NEW kind \in {"whole", "extended", "cut"}, NEW b \in Received(e, kind)
    PROVE  \E w \in Bytes : /\ Ahead("Envelope", e, New("Envelope"), w)
                            /\ Carries(b, 1, Len(b), w)
                            /\ kind # "cut" => Len(w) = Len(b)
  <1>1. Parts(e) \in Seq(Bytes) /\ Len(Parts(e)) = 4
    BY PartsOfEnvelope
  <1>2. PICK parts \in Seq(Bytes) : parts = Parts(e) /\ Len(parts) = 4
    BY <1>1
  <1>3. Unknown \subseteq Bytes
    BY EnvelopeAssumption DEF Bytes
  <1>4. Ahead("Envelope", e, New("Envelope"), FlattenSeq(parts))
    <2>1. \A j \in 1 .. Len(parts) : j < 6 /\ parts[j] = Parts(e)[j]
      BY <1>2
    <2>2. PICK q \in 1 .. 6 : q = 6
      OBVIOUS
    <2>3. Len(parts) = IF q = 6 THEN 4 ELSE 5
      BY <1>2, <2>2
    <2>4. QED
      BY <2>1, <2>2, <2>3, EnvelopeAhead
  <1>5. ASSUME NEW q \in 1 .. 5, NEW u \in Unknown
        PROVE  Ahead("Envelope", e, New("Envelope"), FlattenSeq(InsertAt(parts, q, u)))
    <2>0. PICK ss : ss = InsertAt(parts, q, u)
      OBVIOUS
    <2>1. /\ ss \in Seq(Bytes) /\ Len(ss) = 5
          /\ \A j \in 1 .. 5 : /\ j < q => ss[j] = parts[j]
                               /\ j = q => ss[j] = u
                               /\ j > q => ss[j] = parts[j - 1]
      <3>1. u \in Bytes
        BY <1>3
      <3>0. Len(parts) = 4
        BY <1>2
      <3>2. /\ InsertAt(parts, q, u) \in Seq(Bytes) /\ Len(InsertAt(parts, q, u)) = 5
            /\ \A j \in 1 .. 5 : /\ j < q => InsertAt(parts, q, u)[j] = parts[j]
                                 /\ j = q => InsertAt(parts, q, u)[j] = u
                                 /\ j > q => InsertAt(parts, q, u)[j] = parts[j - 1]
        BY <3>0, <3>1, Inserted
      <3>3. QED
        BY <2>0, <3>2
    <2>2. \A j \in 1 .. Len(ss) : \/ j < q /\ ss[j] = Parts(e)[j]
                                  \/ j = q /\ ss[j] \in Unknown
                                  \/ j > q /\ ss[j] = Parts(e)[j - 1]
      BY <1>2, <2>1
    <2>3. q \in 1 .. 6 /\ Len(ss) = IF q = 6 THEN 4 ELSE 5
      BY <2>1
    <2>4. Ahead("Envelope", e, New("Envelope"), FlattenSeq(ss))
      BY <2>1, <2>2, <2>3, EnvelopeAhead
    <2>5. QED
      BY <2>0, <2>4
  <1>6. CASE kind = "whole"
    <2>1. b = FlattenSeq(parts) /\ b \in Bytes
      BY <1>2, <1>6, BytesJoined DEF Received
    <2>2. QED
      BY <1>4, <1>6, <2>1, CarriesSelf
  <1>7. CASE kind = "extended"
    <2>1. PICK q \in 1 .. 5, u \in Unknown : b = FlattenSeq(InsertAt(parts, q, u))
      BY <1>2, <1>7 DEF Received
    <2>2. b \in Bytes
      BY <1>2, <1>3, <2>1, Inserted, BytesJoined
    <2>3. QED
      BY <1>5, <1>7, <2>1, <2>2, CarriesSelf
  <1>8. CASE kind = "cut"
    <2>1. b \in UNION {{SubSeq(t, 1, k) : k \in 0 .. Len(t) - 1} :
                         t \in {FlattenSeq(parts) \o u : u \in Unknown \union {<<>>}}}
      <3>1. Received(e, "cut") =
               UNION {{SubSeq(t, 1, k) : k \in 0 .. Len(t) - 1} :
                        t \in {FlattenSeq(Parts(e)) \o u : u \in Unknown \union {<<>>}}}
        BY DEF Received
      <3>2. b \in Received(e, "cut")
        BY <1>8
      <3>3. QED
        BY <1>2, <3>1, <3>2
    <2>2. PICK t \in {FlattenSeq(parts) \o u : u \in Unknown \union {<<>>}} :
             b \in {SubSeq(t, 1, k) : k \in 0 .. Len(t) - 1}
      BY <2>1
    <2>3. PICK u \in Unknown \union {<<>>} : t = FlattenSeq(parts) \o u
      BY <2>2
    <2>4. PICK k \in 0 .. Len(t) - 1 : b = SubSeq(t, 1, k)
      BY <2>2
    <2>5. FlattenSeq(parts) \in Bytes
      BY BytesJoined
    <2>6. t \in Bytes /\ Ahead("Envelope", e, New("Envelope"), t)
      <3>1. CASE u = <<>>
        <4>1. t = FlattenSeq(parts)
          BY <2>3, <2>5, <3>1, ConcatEmptySeq DEF Bytes
        <4>2. QED
          BY <1>4, <2>5, <4>1
      <3>2. CASE u \in Unknown
        <4>1. parts \in Seq(Seq(Byte)) /\ u \in Seq(Byte) /\ u \in Bytes
          BY <1>3, <3>2 DEF Bytes
        <4>2. t = FlattenSeq(Append(parts, u))
          BY <2>3, <4>1, FlattenAppend
        <4>3. PICK ss \in Seq(Bytes) : /\ ss = Append(parts, u) /\ Len(ss) = 5
                                       /\ \A j \in 1 .. 4 : ss[j] = parts[j]
                                       /\ ss[5] = u
          <5>1. PICK ss : ss = Append(parts, u)
            OBVIOUS
          <5>2. /\ ss \in Seq(Bytes) /\ Len(ss) = Len(parts) + 1
                /\ \A j \in 1 .. Len(parts) : ss[j] = parts[j]
                /\ ss[Len(parts) + 1] = u
            BY <4>1, <5>1, AppendProperties
          <5>3. Len(ss) = 5 /\ (\A j \in 1 .. 4 : ss[j] = parts[j]) /\ ss[5] = u
            BY <1>2, <5>2
          <5>4. QED
            BY <5>1, <5>2, <5>3
        <4>4. \A j \in 1 .. Len(ss) : \/ j < 5 /\ ss[j] = Parts(e)[j]
                                      \/ j = 5 /\ ss[j] \in Unknown
          BY <1>2, <3>2, <4>3
        <4>5. PICK q \in 1 .. 6 : q = 5
          OBVIOUS
        <4>6. Len(ss) = IF q = 6 THEN 4 ELSE 5
          BY <4>3, <4>5
        <4>7. Ahead("Envelope", e, New("Envelope"), FlattenSeq(ss))
          BY <4>4, <4>5, <4>6, EnvelopeAhead
        <4>8. QED
          BY <4>2, <4>3, <4>7, BytesJoined
      <3>3. QED
        BY <3>1, <3>2
    <2>7. k \in 0 .. Len(t)
      <3>1. Len(t) \in Nat
        BY <2>6, LenProperties DEF Bytes
      <3>2. QED
        BY <3>1
    <2>8. QED
      BY <1>8, <2>4, <2>6, <2>7, CarriesCut
  <1>9. QED
    BY <1>6, <1>7, <1>8

-------------------------------------------------------------------------------
(* A varint reads the same wherever it stands, and not at all when it is   *)
(* cut.                                                                    *)
Alike(u, g, b, from, n) ==
    \A k \in Nat \ {0} : g + k - 1 <= Len(u) /\ from + k - 1 <= n
                              => b[from + k - 1] = u[g + k - 1]

Moved(u, g, b, from, n) ==
    \E v \in Nat, k \in Nat \ {0} :
       /\ DecVarint(u, g, Len(u)) = Got(v, g + k) /\ g + k - 1 <= Len(u)
       /\ from + k - 1 <= n => DecVarint(b, from, n) = Got(v, from + k)
       /\ from + k - 1 > n => DecVarint(b, from, n) = Bad

LEMMA VarintMoves ==
    ASSUME NEW u \in Bytes, NEW g \in Nat \ {0}, g <= Len(u) + 1,
           NEW b \in Bytes, NEW from \in Nat \ {0}, NEW n \in Nat, n <= Len(b), from <= n + 1,
           Alike(u, g, b, from, n),
           DecVarint(u, g, Len(u)).ok
    PROVE  Moved(u, g, b, from, n)
  <1>. SUFFICES \E v \in Nat, k \in Nat \ {0} :
              /\ DecVarint(u, g, Len(u)) = Got(v, g + k) /\ g + k - 1 <= Len(u)
              /\ from + k - 1 <= n => DecVarint(b, from, n) = Got(v, from + k)
              /\ from + k - 1 > n => DecVarint(b, from, n) = Bad
    BY DEF Moved
  <1>0. \A k \in Nat \ {0} : g + k - 1 <= Len(u) /\ from + k - 1 <= n
                                   => b[from + k - 1] = u[g + k - 1]
    BY DEF Alike
  <1>1. PICK l \in Nat : l = Len(u)
    BY LenProperties DEF Bytes
  <1>2. u \in Seq(Byte) /\ b \in Seq(Byte) /\ Groups \in Nat \ {0}
    BY WidthAssumption DEF Bytes
  <1>3. PICK one, two : one = DecVarint(u, g, l) /\ two = DecVarint(b, from, n)
    OBVIOUS
  <1>4. ReadsAsDigits(u, g, l, one) /\ ReadsAsDigits(b, from, n, two)
    BY <1>1, <1>2, <1>3, VarintDigits
  <1>5. PICK w1 : /\ w1 = Worth(u, g) /\ w1[0] = 0
                  /\ \A k \in 1 .. Groups : w1[k] = w1[k - 1] + (u[g + k - 1] % Base) * Place[k - 1]
                  /\ \A k \in 0 .. Groups : g + k - 1 <= l => w1[k] \in Nat
    <2>1. l <= Len(u) /\ u \in Seq(Byte)
      BY <1>1, <1>2
    <2>2. QED
      BY <2>1, WorthUnfolds
  <1>6. PICK w2 : /\ w2 = Worth(b, from) /\ w2[0] = 0
                  /\ \A k \in 1 .. Groups :
                        w2[k] = w2[k - 1] + (b[from + k - 1] % Base) * Place[k - 1]
    BY <1>2, WorthUnfolds
  <1>7. PICK k \in 1 .. Groups : /\ g + k - 1 <= l /\ ~(u[g + k - 1] >= Base)
                                 /\ \A j \in 1 .. k - 1 : u[g + j - 1] >= Base
                                 /\ one = Got(w1[k], g + k)
    <2>1. one # Bad
      BY <1>1, <1>3 DEF Bad
    <2>2. QED
      BY <1>4, <1>5, <2>1 DEF ReadsAsDigits
  <1>8. k \in Nat \ {0} /\ w1[k] \in Nat
    BY <1>2, <1>5, <1>7
  <1>9. \A j \in 1 .. k : from + j - 1 <= n => b[from + j - 1] = u[g + j - 1]
    <2> SUFFICES ASSUME NEW j \in 1 .. k, from + j - 1 <= n PROVE b[from + j - 1] = u[g + j - 1]
      OBVIOUS
    <2>1. j \in Nat \ {0} /\ g + j - 1 <= Len(u)
      BY <1>1, <1>7, <1>8
    <2>2. QED
      BY <1>0, <2>1
  <1>10. CASE from + k - 1 <= n
    <2>1. \A j \in 1 .. k : b[from + j - 1] = u[g + j - 1]
      BY <1>8, <1>9, <1>10
    <2> DEFINE T == {j \in Nat : j <= k => w1[j] = w2[j]}
    <2>2. 0 \in T
      BY <1>5, <1>6
    <2>3. ASSUME NEW j \in Nat, j \in T PROVE j + 1 \in T
      <3> SUFFICES ASSUME j + 1 <= k PROVE w1[j + 1] = w2[j + 1]
        OBVIOUS
      <3>1. PICK i \in 1 .. k : i = j + 1 /\ i - 1 = j /\ i \in 1 .. Groups
        BY <1>2, <1>8
      <3>2. w1[j] = w2[j]
        BY <1>8, <2>3
      <3>3. /\ w1[i] = w1[i - 1] + (u[g + i - 1] % Base) * Place[i - 1]
            /\ w2[i] = w2[i - 1] + (b[from + i - 1] % Base) * Place[i - 1]
        BY <1>5, <1>6, <3>1
      <3>4. w1[i] = w2[i]
        BY <2>1, <3>1, <3>2, <3>3
      <3>5. QED
        BY <3>1, <3>4
    <2> HIDE DEF T
    <2>4. \A j \in Nat : j \in T
      BY <2>2, <2>3, InductionOnSet
    <2>5. w1[k] = w2[k]
      BY <1>8, <2>4 DEF T
    <2>6. two = Got(w2[k], from + k)
      <3>1. ~(b[from + k - 1] >= Base) /\ \A j \in 1 .. k - 1 : b[from + j - 1] >= Base
        <4>1. k \in 1 .. k /\ \A j \in 1 .. k - 1 : j \in 1 .. k
          BY <1>8
        <4>2. QED
          BY <1>7, <2>1, <4>1
      <3>2. CASE \A j \in {j \in 1 .. Groups : from + j - 1 <= n} : b[from + j - 1] >= Base
        BY <1>10, <3>1, <3>2
      <3>3. CASE ~\A j \in {j \in 1 .. Groups : from + j - 1 <= n} : b[from + j - 1] >= Base
        <4>1. PICK i \in 1 .. Groups : /\ from + i - 1 <= n /\ ~(b[from + i - 1] >= Base)
                                       /\ \A j \in 1 .. i - 1 : b[from + j - 1] >= Base
                                       /\ two = Got(w2[i], from + i)
          BY <1>4, <1>6, <3>3 DEF ReadsAsDigits
        <4>2. i = k
          <5>1. ~(i < k)
            BY <1>2, <1>8, <3>1, <4>1
          <5>2. ~(k < i)
            BY <1>2, <1>8, <3>1, <4>1
          <5>3. QED
            BY <1>2, <1>8, <5>1, <5>2
        <4>3. QED
          BY <4>1, <4>2
      <3>4. QED
        BY <3>2, <3>3
    <2>7. DecVarint(u, g, Len(u)) = Got(w1[k], g + k) /\ g + k - 1 <= Len(u)
      BY <1>1, <1>3, <1>7
    <2>8. DecVarint(b, from, n) = Got(w1[k], from + k)
      BY <1>3, <2>5, <2>6
    <2>9. ~(from + k - 1 > n)
      BY <1>8, <1>10
    <2>10. QED
      BY <1>8, <2>7, <2>8, <2>9
  <1>11. CASE ~(from + k - 1 <= n)
    <2>1. \A j \in 1 .. Groups : from + j - 1 <= n => b[from + j - 1] >= Base
      <3> SUFFICES ASSUME NEW j \in 1 .. Groups, from + j - 1 <= n PROVE b[from + j - 1] >= Base
        OBVIOUS
      <3>1. j \in 1 .. k - 1 /\ j \in 1 .. k
        BY <1>2, <1>8, <1>11
      <3>2. QED
        BY <1>7, <1>9, <3>1
    <2>2. two = Bad
      BY <1>4, <2>1 DEF ReadsAsDigits
    <2>3. DecVarint(u, g, Len(u)) = Got(w1[k], g + k) /\ g + k - 1 <= Len(u)
      BY <1>1, <1>3, <1>7
    <2>4. QED
      BY <1>3, <1>8, <1>11, <2>2, <2>3
  <1>12. QED
    BY <1>10, <1>11

LEMMA CarriesTail ==
    ASSUME NEW b, NEW i \in Nat \ {0}, NEW n \in Nat, NEW p \in Bytes, NEW more \in Bytes,
           Carries(b, i, n, p \o more)
    PROVE  /\ Len(p) \in Nat /\ Len(more) \in Nat /\ Len(p \o more) = Len(p) + Len(more)
           /\ n + 1 - i <= Len(p) + Len(more)
           /\ \A k \in 1 .. Len(p) : i + k - 1 <= n => b[i + k - 1] = p[k]
           /\ Carries(b, i + Len(p), n, more)
  <1>1. /\ Len(p) \in Nat /\ Len(more) \in Nat /\ Len(p \o more) = Len(p) + Len(more)
        /\ \A k \in 1 .. Len(p) + Len(more) :
              (p \o more)[k] = IF k <= Len(p) THEN p[k] ELSE more[k - Len(p)]
    BY ConcatProperties, LenProperties DEF Bytes
  <1>2. PICK l, m, todo : l = Len(p) /\ m = Len(more) /\ todo = p \o more
    OBVIOUS
  <1>3. /\ l \in Nat /\ m \in Nat /\ Len(todo) = l + m
        /\ \A k \in 1 .. l + m : todo[k] = IF k <= l THEN p[k] ELSE more[k - l]
    BY <1>1, <1>2
  <1>4. n + 1 - i <= l + m /\ \A k \in 1 .. l + m : i + k - 1 <= n => b[i + k - 1] = todo[k]
    BY <1>2, <1>3 DEF Carries
  <1>5. \A k \in 1 .. l : i + k - 1 <= n => b[i + k - 1] = p[k]
    <2> SUFFICES ASSUME NEW k \in 1 .. l, i + k - 1 <= n PROVE b[i + k - 1] = p[k]
      OBVIOUS
    <2>1. k \in 1 .. l + m /\ k <= l
      BY <1>3
    <2>2. QED
      BY <1>3, <1>4, <2>1
  <1>6. \A k \in 1 .. m : (i + l) + k - 1 <= n => b[(i + l) + k - 1] = more[k]
    <2> SUFFICES ASSUME NEW k \in 1 .. m, (i + l) + k - 1 <= n
                 PROVE  b[(i + l) + k - 1] = more[k]
      OBVIOUS
    <2>1. PICK x \in 1 .. l + m : x = l + k /\ x - l = k /\ ~(x <= l) /\ (i + l) + k - 1 = i + x - 1
      BY <1>3
    <2>2. QED
      BY <1>3, <1>4, <2>1
  <1>7. n + 1 - (i + l) <= m
    BY <1>3, <1>4
  <1>8. Carries(b, i + l, n, more)
    BY <1>2, <1>6, <1>7 DEF Carries
  <1>9. QED
    BY <1>1, <1>2, <1>4, <1>5, <1>8

(* The tag of a field that is known, and what comes of reading its item.   *)
LEMMA TagIs ==
    ASSUME NEW type \in Message, NEW num \in DOMAIN Fields[type], NEW wire \in {0, 2}
    PROVE  /\ num \in Nat \ {0} /\ num * 8 + wire \in 0 .. Word - 1
           /\ (num * 8 + wire) \div 8 = num /\ ((num * 8 + wire) % 8) = wire
  <1>1. DOMAIN Fields[type] = 1 .. Len(Fields[type]) /\ Len(Fields[type]) \in Nat
    BY KindsAre
  <1>2. 8 * Len(Fields[type]) + 7 < Word /\ Word \in Nat
    BY EnvelopeAssumption, WidthAssumption
  <1>3. num \in Nat \ {0} /\ num <= Len(Fields[type])
    BY <1>1
  <1>4. num * 8 + wire \in 0 .. Word - 1
    BY <1>1, <1>2, <1>3
  <1>5. \A x \in Nat, y \in {0, 2} : (x * 8 + y) \div 8 = x /\ ((x * 8 + y) % 8) = y
    OBVIOUS
  <1>6. QED
    BY <1>3, <1>4, <1>5

(* A varint of the sender's, at the place it was put.                      *)
LEMMA JoinedInTurn ==
    \A s, t, u \in Bytes : (s \o t) \o u = s \o (t \o u)
  BY ConcatAssociative DEF Bytes

(* From index i on stands a number in l bytes, unless the bytes are cut.    *)
ReadsAs(b, i, n, v, l) ==
    /\ i + l - 1 <= n => DecVarint(b, i, n) = Got(v, i + l)
    /\ i + l - 1 > n => DecVarint(b, i, n) = Bad

LEMMA VarintAhead ==
    ASSUME NEW b \in Bytes, NEW i \in Nat \ {0}, NEW n \in Nat,
           NEW v \in 0 .. Word - 1, NEW more \in Bytes,
           Carries(b, i, n, EncVarint[v] \o more)
    PROVE  /\ EncVarint[v] \in Bytes /\ Len(EncVarint[v]) \in Nat \ {0}
           /\ Carries(b, i + Len(EncVarint[v]), n, more)
           /\ ReadsAs(b, i, n, v, Len(EncVarint[v]))
  <1>1. PICK x : x = v
    OBVIOUS
  <1>2. PICK e : e = EncVarint[x]
    OBVIOUS
  <1>3. x \in 0 .. Word - 1 /\ x \in Int
    BY <1>1, WidthAssumption
  <1>4. e \in Bytes
    BY <1>2, <1>3, EncVarintTyped DEF Bytes
  <1>5. Carries(b, i, n, e \o more)
    BY <1>1, <1>2
  <1>6. /\ Len(e) \in Nat
        /\ \A k \in 1 .. Len(e) : i + k - 1 <= n => b[i + k - 1] = e[k]
    BY <1>4, <1>5, CarriesTail
  <1>7. Carries(b, i + Len(e), n, more)
    BY <1>4, <1>5, CarriesTail
  <1>8. \A k \in 1 .. Len(EncVarint[x]) : i + k - 1 <= n => b[i + k - 1] = EncVarint[x][k]
    BY <1>2, <1>6
  <1>9. /\ Len(EncVarint[x]) \in Nat \ {0}
        /\ i + Len(EncVarint[x]) - 1 <= n => DecVarint(b, i, n) = Got(x, i + Len(EncVarint[x]))
        /\ i + Len(EncVarint[x]) - 1 > n => DecVarint(b, i, n) = Bad
    BY <1>3, <1>8, VarintRead
  <1>10. ReadsAs(b, i, n, x, Len(EncVarint[x]))
    BY <1>9 DEF ReadsAs
  <1>11. QED
    BY <1>1, <1>2, <1>4, <1>7, <1>9, <1>10

(* Two numbers, a tag and what follows it, in l bytes together.            *)
TwoAt(b, i, n, v, w, l) ==
    \/ i + l - 1 > n /\ DecVarint(b, i, n) = Bad
    \/ \E x \in Nat \ {0} :
          /\ DecVarint(b, i, n) = Got(v, x)
          /\ \/ i + l - 1 > n /\ DecVarint(b, x, n) = Bad
             \/ i + l - 1 <= n /\ DecVarint(b, x, n) = Got(w, i + l)

LEMMA TwoAhead ==
    ASSUME NEW b \in Bytes, NEW i \in Nat \ {0}, NEW n \in Nat,
           NEW v \in 0 .. Word - 1, NEW w \in 0 .. Word - 1, NEW more \in Bytes,
           Carries(b, i, n, (EncVarint[v] \o EncVarint[w]) \o more)
    PROVE  \E l \in Nat \ {0} :
              /\ l = Len(EncVarint[v] \o EncVarint[w])
              /\ EncVarint[v] \in Bytes /\ EncVarint[w] \in Bytes
              /\ Carries(b, i + l, n, more)
              /\ TwoAt(b, i, n, v, w, l)
  <1>1. EncVarint[v] \in Bytes /\ EncVarint[w] \in Bytes
    BY WidthAssumption, EncVarintTyped DEF Bytes
  <1>2. EncVarint[w] \o more \in Bytes
    BY <1>1, BytesJoined
  <1>3. Carries(b, i, n, EncVarint[v] \o (EncVarint[w] \o more))
    BY <1>1, JoinedInTurn
  <1>4. PICK rest \in Bytes : rest = EncVarint[w] \o more
    BY <1>2
  <1>5. Carries(b, i, n, EncVarint[v] \o rest)
    BY <1>3, <1>4
  <1>6. PICK k \in Nat \ {0} : /\ k = Len(EncVarint[v]) /\ Carries(b, i + k, n, rest)
                               /\ ReadsAs(b, i, n, v, k)
    BY <1>5, VarintAhead
  <1>7. PICK x \in Nat \ {0} : x = i + k
    OBVIOUS
  <1>8. Carries(b, x, n, EncVarint[w] \o more)
    BY <1>4, <1>6, <1>7
  <1>9. PICK j \in Nat \ {0} : /\ j = Len(EncVarint[w]) /\ Carries(b, x + j, n, more)
                               /\ ReadsAs(b, x, n, w, j)
    BY <1>8, VarintAhead
  <1>10. PICK l \in Nat \ {0} : l = k + j
    OBVIOUS
  <1>11. l = Len(EncVarint[v] \o EncVarint[w])
    <2>1. EncVarint[v] \in Seq(Byte) /\ EncVarint[w] \in Seq(Byte)
      BY <1>1 DEF Bytes
    <2>2. Len(EncVarint[v] \o EncVarint[w]) = Len(EncVarint[v]) + Len(EncVarint[w])
      BY <2>1, ConcatProperties
    <2>3. QED
      BY <1>6, <1>9, <1>10, <2>2
  <1>12. x + j = i + l /\ x + j - 1 = i + l - 1
    BY <1>7, <1>10
  <1>13. Carries(b, i + l, n, more)
    BY <1>9, <1>12
  <1>14. CASE i + k - 1 > n
    <2>1. i + l - 1 > n
      BY <1>10, <1>14
    <2>2. DecVarint(b, i, n) = Bad
      BY <1>6, <1>14 DEF ReadsAs
    <2>3. TwoAt(b, i, n, v, w, l)
      BY <2>1, <2>2 DEF TwoAt
    <2>4. QED
      BY <1>1, <1>11, <1>13, <2>3
  <1>15. CASE ~(i + k - 1 > n)
    <2>1. i + k - 1 <= n
      BY <1>15
    <2>2. DecVarint(b, i, n) = Got(v, x)
      BY <1>6, <1>7, <2>1 DEF ReadsAs
    <2>3. \/ i + l - 1 > n /\ DecVarint(b, x, n) = Bad
          \/ i + l - 1 <= n /\ DecVarint(b, x, n) = Got(w, i + l)
      <3>1. x + j - 1 <= n \/ x + j - 1 > n
        OBVIOUS
      <3>2. QED
        BY <1>9, <1>12, <3>1 DEF ReadsAs
    <2>4. TwoAt(b, i, n, v, w, l)
      BY <2>2, <2>3 DEF TwoAt
    <2>5. QED
      BY <1>1, <1>11, <1>13, <2>4
  <1>16. QED
    BY <1>14, <1>15

(* A number and its tag; bytes, their length and their tag.                *)
NumberAt(b, i, n, num, v, l) == TwoAt(b, i, n, num * 8 + 0, Int32Word(v), l)

LEMMA NumberAhead ==
    ASSUME NEW b \in Bytes, NEW i \in Nat \ {0}, NEW n \in Nat,
           NEW type \in Message, NEW num \in DOMAIN Fields[type],
           NEW v \in Int32Range, NEW more \in Bytes,
           Carries(b, i, n, (Tag(num, 0) \o EncVarint[Int32Word(v)]) \o more)
    PROVE  \E l \in Nat \ {0} :
              /\ l = Len(Tag(num, 0) \o EncVarint[Int32Word(v)])
              /\ Carries(b, i + l, n, more)
              /\ NumberAt(b, i, n, num, v, l)
  <1>1. PICK a, w : a = num * 8 + 0 /\ w = Int32Word(v)
    OBVIOUS
  <1>2. a \in 0 .. Word - 1
    <2>1. PICK wire \in {0, 2} : wire = 0
      OBVIOUS
    <2>2. num * 8 + wire \in 0 .. Word - 1
      BY TagIs
    <2>3. QED
      BY <1>1, <2>1, <2>2
  <1>3. w \in 0 .. Word - 1
    BY <1>1, Int32Back
  <1>4. Carries(b, i, n, (EncVarint[a] \o EncVarint[w]) \o more)
    BY <1>1 DEF Tag
  <1>5. PICK l \in Nat \ {0} : /\ l = Len(EncVarint[a] \o EncVarint[w])
                               /\ Carries(b, i + l, n, more) /\ TwoAt(b, i, n, a, w, l)
    BY <1>2, <1>3, <1>4, TwoAhead
  <1>6. QED
    BY <1>1, <1>5 DEF Tag, NumberAt

DelimitedAt(b, i, n, num, pay, l) ==
    \/ i + l - 1 > n /\ DecVarint(b, i, n) = Bad
    \/ \E x \in Nat \ {0} :
          /\ DecVarint(b, i, n) = Got(num * 8 + 2, x)
          /\ \/ i + l - 1 > n /\ DecVarint(b, x, n) = Bad
             \/ \E y \in Nat \ {0} :
                   /\ DecVarint(b, x, n) = Got(Len(pay), y)
                   /\ y + Len(pay) = i + l /\ y <= n + 1
                   /\ \A k \in 1 .. Len(pay) : y + k - 1 <= n => b[y + k - 1] = pay[k]

LEMMA DelimitedAhead ==
    ASSUME NEW b \in Bytes, NEW i \in Nat \ {0}, NEW n \in Nat,
           NEW type \in Message, NEW num \in DOMAIN Fields[type],
           NEW pay \in Bytes, Len(pay) < Word, NEW more \in Bytes,
           Carries(b, i, n, Delimited(num, pay) \o more)
    PROVE  \E l \in Nat \ {0} :
              /\ l = Len(Delimited(num, pay))
              /\ Carries(b, i + l, n, more)
              /\ DelimitedAt(b, i, n, num, pay, l)
  <1>1. PICK a, w : a = num * 8 + 2 /\ w = Len(pay)
    OBVIOUS
  <1>2. a \in 0 .. Word - 1
    <2>1. PICK wire \in {0, 2} : wire = 2
      OBVIOUS
    <2>2. num * 8 + wire \in 0 .. Word - 1
      BY TagIs
    <2>3. QED
      BY <1>1, <2>1, <2>2
  <1>3. w \in 0 .. Word - 1 /\ w \in Nat
    BY <1>1, LenProperties, WidthAssumption DEF Bytes
  <1>4. PICK s : s = EncVarint[a] \o EncVarint[w]
    OBVIOUS
  <1>5. s \in Bytes
    <2>1. EncVarint[a] \in Bytes /\ EncVarint[w] \in Bytes
      BY <1>2, <1>3, WidthAssumption, EncVarintTyped DEF Bytes
    <2>2. QED
      BY <1>4, <2>1, BytesJoined
  <1>6. Delimited(num, pay) = s \o pay
    BY <1>1, <1>4 DEF Delimited, Tag
  <1>7. PICK rest \in Bytes : rest = pay \o more
    BY BytesJoined
  <1>8. Carries(b, i, n, s \o rest)
    <2>1. (s \o pay) \o more = s \o (pay \o more)
      BY <1>5, JoinedInTurn
    <2>2. QED
      BY <1>6, <1>7, <2>1
  <1>9. PICK k \in Nat \ {0} : /\ k = Len(EncVarint[a] \o EncVarint[w])
                               /\ Carries(b, i + k, n, rest) /\ TwoAt(b, i, n, a, w, k)
    <2>1. Carries(b, i, n, (EncVarint[a] \o EncVarint[w]) \o rest)
      BY <1>4, <1>8
    <2>2. QED
      BY <1>2, <1>3, <2>1, TwoAhead
  <1>10. PICK y \in Nat \ {0} : y = i + k
    OBVIOUS
  <1>11. Carries(b, y, n, pay \o more)
    BY <1>7, <1>9, <1>10
  <1>12. \A j \in 1 .. Len(pay) : y + j - 1 <= n => b[y + j - 1] = pay[j]
    BY <1>11, CarriesTail
  <1>13. Carries(b, y + Len(pay), n, more)
    BY <1>11, CarriesTail
  <1>14. PICK l \in Nat \ {0} : l = k + w
    BY <1>3
  <1>15. l = Len(Delimited(num, pay))
    <2>1. s \in Seq(Byte) /\ pay \in Seq(Byte)
      BY <1>5 DEF Bytes
    <2>2. Len(s \o pay) = Len(s) + Len(pay)
      BY <2>1, ConcatProperties
    <2>3. QED
      BY <1>1, <1>4, <1>6, <1>9, <1>14, <2>2
  <1>16. y + w = i + l
    BY <1>3, <1>10, <1>14
  <1>17. Carries(b, i + l, n, more)
    BY <1>1, <1>13, <1>16
  <1>18. CASE i + k - 1 > n /\ DecVarint(b, i, n) = Bad
    <2>1. i + l - 1 > n
      BY <1>3, <1>14, <1>18
    <2>2. DelimitedAt(b, i, n, num, pay, l)
      BY <1>18, <2>1 DEF DelimitedAt
    <2>3. QED
      BY <1>15, <1>17, <2>2
  <1>19. CASE \E x \in Nat \ {0} :
                 /\ DecVarint(b, i, n) = Got(a, x)
                 /\ \/ i + k - 1 > n /\ DecVarint(b, x, n) = Bad
                    \/ i + k - 1 <= n /\ DecVarint(b, x, n) = Got(w, i + k)
    <2>1. PICK x \in Nat \ {0} :
                 /\ DecVarint(b, i, n) = Got(a, x)
                 /\ \/ i + k - 1 > n /\ DecVarint(b, x, n) = Bad
                    \/ i + k - 1 <= n /\ DecVarint(b, x, n) = Got(w, i + k)
      BY <1>19
    <2>2. DecVarint(b, i, n) = Got(num * 8 + 2, x)
      BY <1>1, <2>1
    <2>3. CASE i + k - 1 > n /\ DecVarint(b, x, n) = Bad
      <3>1. i + l - 1 > n
        BY <1>3, <1>14, <2>3
      <3>2. DelimitedAt(b, i, n, num, pay, l)
        BY <2>2, <2>3, <3>1 DEF DelimitedAt
      <3>3. QED
        BY <1>15, <1>17, <3>2
    <2>4. CASE i + k - 1 <= n /\ DecVarint(b, x, n) = Got(w, i + k)
      <3>1. DecVarint(b, x, n) = Got(Len(pay), y) /\ y + Len(pay) = i + l
        BY <1>1, <1>10, <1>16, <2>4
      <3>2. y <= n + 1
        BY <1>10, <2>4
      <3>3. DelimitedAt(b, i, n, num, pay, l)
        BY <1>12, <2>2, <3>1, <3>2 DEF DelimitedAt
      <3>4. QED
        BY <1>15, <1>17, <3>3
    <2>5. QED
      BY <2>1, <2>3, <2>4
  <1>20. QED
    BY <1>9, <1>18, <1>19 DEF TwoAt

(* A field of another version is skipped as a whole, or refused when it is *)
(* cut.                                                                    *)
SkippedAt(b, i, n, l) ==
    \/ i + l - 1 > n /\ DecVarint(b, i, n) = Bad
    \/ \E v \in Nat, x \in Nat \ {0} :
          /\ DecVarint(b, i, n) = Got(v, x)
          /\ v \div 8 \in DOMAIN Fields["Envelope"]
                => (v % 8) # WireOf(Fields["Envelope"][v \div 8])
          /\ \/ i + l - 1 > n /\ SkipField(b, x, n, (v % 8)) = 0
             \/ SkipField(b, x, n, (v % 8)) = i + l

LEMMA UnknownAhead ==
    ASSUME NEW b \in Bytes, NEW i \in Nat \ {0}, NEW n \in Nat, n <= Len(b), i <= n,
           NEW u \in Unknown, NEW more \in Bytes, Carries(b, i, n, u \o more)
    PROVE  \E l \in Nat \ {0} :
              /\ l = Len(u) /\ Carries(b, i + l, n, more) /\ SkippedAt(b, i, n, l)
  <1>1. u \in Bytes
    BY EnvelopeAssumption DEF Bytes
  <1>2. PICK l \in Nat : l = Len(u)
    BY <1>1, LenProperties DEF Bytes
  <1>3. \A k \in 1 .. l : i + k - 1 <= n => b[i + k - 1] = u[k]
    BY <1>1, <1>2, CarriesTail
  <1>4. Carries(b, i + l, n, more)
    BY <1>1, <1>2, CarriesTail
  <1>5. PICK tag : tag = DecVarint(u, 1, l)
    OBVIOUS
  <1>6. /\ tag.ok
        /\ tag.v \div 8 \in DOMAIN Fields["Envelope"]
                => (tag.v % 8) # WireOf(Fields["Envelope"][tag.v \div 8])
        /\ SkipField(u, tag.i, l, (tag.v % 8)) = l + 1
    BY <1>2, <1>5, EnvelopeAssumption
  <1>7. PICK v \in Nat, k \in Nat \ {0} :
           /\ DecVarint(u, 1, l) = Got(v, 1 + k) /\ 1 + k - 1 <= l
           /\ i + k - 1 <= n => DecVarint(b, i, n) = Got(v, i + k)
           /\ i + k - 1 > n => DecVarint(b, i, n) = Bad
    <2>1. \A j \in Nat \ {0} : 1 + j - 1 <= Len(u) /\ i + j - 1 <= n
                                   => b[i + j - 1] = u[1 + j - 1]
      BY <1>2, <1>3
    <2>2. PICK g \in Nat \ {0} : g = 1
      OBVIOUS
    <2>3. g <= Len(u) + 1 /\ i <= n + 1
      BY <1>2, <2>2
    <2>4. DecVarint(u, g, Len(u)).ok
      BY <1>2, <1>5, <1>6, <2>2
    <2>5. \A j \in Nat \ {0} : g + j - 1 <= Len(u) /\ i + j - 1 <= n
                                   => b[i + j - 1] = u[g + j - 1]
      BY <2>1, <2>2
    <2>6. Alike(u, g, b, i, n)
      BY <2>5 DEF Alike
    <2>7. Moved(u, g, b, i, n)
      BY <1>1, <2>3, <2>4, <2>6, VarintMoves
    <2>8. QED
      BY <1>2, <2>2, <2>7 DEF Moved
  <1>8. k <= l /\ l # 0
    BY <1>7
  <1>9. tag.v = v /\ tag.i = 1 + k
    BY <1>5, <1>7 DEF Got
  <1>10. CASE i + k - 1 > n
    <2>1. i + l - 1 > n
      BY <1>8, <1>10
    <2>2. SkippedAt(b, i, n, l)
      BY <1>7, <1>10, <2>1 DEF SkippedAt
    <2>3. QED
      BY <1>2, <1>4, <1>8, <2>2
  <1>11. CASE i + k - 1 <= n
    <2>1. PICK g \in Nat \ {0}, x \in Nat \ {0} : g = 1 + k /\ x = i + k
      OBVIOUS
    <2>2. DecVarint(b, i, n) = Got(v, x)
      BY <1>7, <1>11, <2>1
    <2>3. PICK wire : wire = (v % 8)
      OBVIOUS
    <2>4. SkipField(u, g, l, wire) = l + 1
      BY <1>6, <1>9, <2>1, <2>3
    <2>5. v \div 8 \in DOMAIN Fields["Envelope"] => wire # WireOf(Fields["Envelope"][v \div 8])
      BY <1>6, <1>9, <2>3
    <2>6. SUFFICES \/ i + l - 1 > n /\ SkipField(b, x, n, wire) = 0
                   \/ SkipField(b, x, n, wire) = i + l
      <3>1. SkippedAt(b, i, n, l)
        BY <2>2, <2>3, <2>5, <2>6 DEF SkippedAt
      <3>2. QED
        BY <1>2, <1>4, <1>8, <3>1
    <2>7. ASSUME DecVarint(u, g, l).ok
          PROVE  \E w \in Nat, j \in Nat \ {0} :
                    /\ DecVarint(u, g, l) = Got(w, g + j)
                    /\ x + j - 1 <= n => DecVarint(b, x, n) = Got(w, x + j)
                    /\ x + j - 1 > n => DecVarint(b, x, n) = Bad
      <3>1. ASSUME NEW j \in Nat \ {0}, g + j - 1 <= Len(u), x + j - 1 <= n
            PROVE  b[x + j - 1] = u[g + j - 1]
        <4>1. PICK m \in 1 .. l : m = k + j
          BY <1>2, <2>1, <3>1
        <4>2. g + j - 1 = m /\ x + j - 1 = i + m - 1
          BY <2>1, <4>1
        <4>3. QED
          BY <1>3, <3>1, <4>2
      <3>2. g <= Len(u) + 1 /\ x <= n + 1
        BY <1>2, <1>8, <1>11, <2>1
      <3>3. DecVarint(u, g, Len(u)).ok
        BY <1>2, <2>7
      <3>4. \A j \in Nat \ {0} : g + j - 1 <= Len(u) /\ x + j - 1 <= n
                                     => b[x + j - 1] = u[g + j - 1]
        BY <3>1
      <3>5. Alike(u, g, b, x, n)
        BY <3>4 DEF Alike
      <3>6. Moved(u, g, b, x, n)
        BY <1>1, <3>2, <3>3, <3>5, VarintMoves
      <3>7. QED
        BY <1>2, <3>6 DEF Moved
    <2>8. CASE wire = 0
      <3>1. DecVarint(u, g, l).ok /\ DecVarint(u, g, l).i = l + 1
        BY <2>4, <2>8 DEF SkipField
      <3>2. PICK w \in Nat, j \in Nat \ {0} :
                    /\ DecVarint(u, g, l) = Got(w, g + j)
                    /\ x + j - 1 <= n => DecVarint(b, x, n) = Got(w, x + j)
                    /\ x + j - 1 > n => DecVarint(b, x, n) = Bad
        BY <2>7, <3>1
      <3>3. g + j = l + 1
        BY <3>1, <3>2 DEF Got
      <3>4. x + j = i + l
        BY <2>1, <3>3
      <3>5. CASE x + j - 1 <= n
        <4>1. DecVarint(b, x, n).ok /\ DecVarint(b, x, n).i = i + l
          BY <3>2, <3>4, <3>5 DEF Got
        <4>2. QED
          BY <2>8, <4>1 DEF SkipField
      <3>6. CASE x + j - 1 > n
        <4>1. ~DecVarint(b, x, n).ok
          BY <3>2, <3>6 DEF Bad
        <4>2. SkipField(b, x, n, wire) = 0
          BY <2>8, <4>1 DEF SkipField
        <4>3. QED
          BY <3>4, <3>6, <4>2
      <3>7. QED
        BY <3>5, <3>6
    <2>9. CASE wire = 1
      <3>1. SkipField(u, g, l, wire) = g + 8 /\ SkipField(b, x, n, wire) = x + 8
        BY <2>9 DEF SkipField
      <3>2. QED
        BY <2>1, <2>4, <3>1
    <2>10. CASE wire = 2
      <3>1. /\ DecVarint(u, g, l).ok
            /\ DecVarint(u, g, l).i + DecVarint(u, g, l).v = l + 1
        BY <2>4, <2>10 DEF SkipField
      <3>2. PICK w \in Nat, j \in Nat \ {0} :
                    /\ DecVarint(u, g, l) = Got(w, g + j)
                    /\ x + j - 1 <= n => DecVarint(b, x, n) = Got(w, x + j)
                    /\ x + j - 1 > n => DecVarint(b, x, n) = Bad
        BY <2>7, <3>1
      <3>3. g + j + w = l + 1
        BY <3>1, <3>2 DEF Got
      <3>4. x + j + w = i + l
        BY <2>1, <3>3
      <3>5. CASE x + j - 1 <= n
        <4>1. /\ DecVarint(b, x, n).ok /\ DecVarint(b, x, n).i = x + j
              /\ DecVarint(b, x, n).v = w
          BY <3>2, <3>5 DEF Got
        <4>2. CASE i + l - 1 <= n
          <5>1. x + j + w - 1 <= n
            BY <3>4, <4>2
          <5>2. SkipField(b, x, n, wire) = x + j + w
            BY <2>10, <4>1, <5>1 DEF SkipField
          <5>3. QED
            BY <3>4, <5>2
        <4>3. CASE i + l - 1 > n
          <5>1. ~(x + j + w - 1 <= n)
            BY <3>4, <4>3
          <5>2. SkipField(b, x, n, wire) = 0
            BY <2>10, <4>1, <5>1 DEF SkipField
          <5>3. QED
            BY <4>3, <5>2
        <4>4. QED
          BY <4>2, <4>3
      <3>6. CASE x + j - 1 > n
        <4>1. ~DecVarint(b, x, n).ok
          BY <3>2, <3>6 DEF Bad
        <4>2. SkipField(b, x, n, wire) = 0
          BY <2>10, <4>1 DEF SkipField
        <4>3. QED
          BY <3>4, <3>6, <4>2
      <3>7. QED
        BY <3>5, <3>6
    <2>11. CASE wire = 5
      <3>1. SkipField(u, g, l, wire) = g + 4 /\ SkipField(b, x, n, wire) = x + 4
        BY <2>11 DEF SkipField
      <3>2. QED
        BY <2>1, <2>4, <3>1
    <2>12. CASE wire \notin {0, 1, 2, 5}
      <3>1. SkipField(u, g, l, wire) = 0
        BY <2>12 DEF SkipField
      <3>2. QED
        BY <2>4, <3>1
    <2>13. QED
      BY <2>8, <2>9, <2>10, <2>11, <2>12
  <1>12. QED
    BY <1>10, <1>11

-------------------------------------------------------------------------------
(* What is part of a message, said of all the messages and their fields at *)
(* once.                                                                   *)
Part(type, a, b) ==
    CASE type = "Envelope" -> PartOf(a, b)
      [] type = "AppError" -> PartOfAppError(a, b)
      [] type \in {"FieldError", "Entry"} -> PartInside(type, a, b)

PartAs(kind, a, b) ==
    IF kind \notin Message THEN PartField(kind, a, b)
    ELSE IF kind = "Entry" THEN \A k \in DOMAIN a : \E j \in DOMAIN b : Part(kind, a[k], b[j])
    ELSE Len(a) <= Len(b) /\ \A k \in DOMAIN a : Part(kind, a[k], b[k])

LEMMA PartFields ==
    ASSUME NEW type \in Message, NEW a, NEW b, DOMAIN a = DOMAIN Fields[type],
           \A f \in DOMAIN Fields[type] : PartAs(Fields[type][f], a[f], b[f])
    PROVE  Part(type, a, b)
  <1>1. CASE type = "Envelope"
    <2>1. /\ \A k \in 1 .. 3 : PartAs(Fields["Envelope"][k], a[k], b[k])
          /\ PartAs("AppError", a[4], b[4])
      BY <1>1, FieldsAre
    <2>2. ASSUME NEW k \in 1 .. 3
          PROVE  PartField(Fields["Envelope"][k], a[k], b[k])
      <3>1. Fields["Envelope"][k] \notin Message
        BY FieldsAre, MessageIs
      <3>2. QED
        BY <2>1, <3>1 DEF PartAs
    <2>3. Len(a[4]) <= Len(b[4]) /\ \A k \in DOMAIN a[4] : Part("AppError", a[4][k], b[4][k])
      BY <2>1, MessageIs DEF PartAs
    <2>4. Len(a[4]) <= Len(b[4]) /\ \A k \in DOMAIN a[4] : PartOfAppError(a[4][k], b[4][k])
      BY <2>3 DEF Part
    <2>5. PartOf(a, b)
      BY <2>2, <2>4 DEF PartOf
    <2>6. QED
      BY <1>1, <2>5 DEF Part
  <1>2. CASE type = "AppError"
    <2>1. /\ \A k \in 1 .. 3 : PartAs(Fields["AppError"][k], a[k], b[k])
          /\ PartAs("FieldError", a[4], b[4]) /\ PartAs("Entry", a[5], b[5])
      BY <1>2, FieldsAre
    <2>2. ASSUME NEW k \in 1 .. 3
          PROVE  PartField(Fields["AppError"][k], a[k], b[k])
      <3>1. Fields["AppError"][k] \notin Message
        BY FieldsAre, MessageIs
      <3>2. QED
        BY <2>1, <3>1 DEF PartAs
    <2>3. Len(a[4]) <= Len(b[4]) /\ \A k \in DOMAIN a[4] : Part("FieldError", a[4][k], b[4][k])
      BY <2>1, MessageIs DEF PartAs
    <2>4. Len(a[4]) <= Len(b[4]) /\ \A k \in DOMAIN a[4] : PartInside("FieldError", a[4][k], b[4][k])
      BY <2>3 DEF Part
    <2>5. \A k \in DOMAIN a[5] : \E j \in DOMAIN b[5] : Part("Entry", a[5][k], b[5][j])
      BY <2>1, MessageIs DEF PartAs
    <2>6. \A k \in DOMAIN a[5] : \E j \in DOMAIN b[5] : PartInside("Entry", a[5][k], b[5][j])
      BY <2>5 DEF Part
    <2>7. PartOfAppError(a, b)
      BY <2>2, <2>4, <2>6 DEF PartOfAppError
    <2>8. QED
      BY <1>2, <2>7 DEF Part
  <1>3. CASE type \in {"FieldError", "Entry"}
    <2>1. ASSUME NEW k \in DOMAIN a
          PROVE  PartField(Fields[type][k], a[k], b[k])
      <3>1. Fields[type][k] \notin Message
        <4>1. CASE type = "FieldError"
          BY <4>1, FieldsAre, MessageIs
        <4>2. CASE type = "Entry"
          BY <4>2, FieldsAre, MessageIs
        <4>3. QED
          BY <1>3, <4>1, <4>2
      <3>2. PartAs(Fields[type][k], a[k], b[k])
        OBVIOUS
      <3>3. QED
        BY <3>1, <3>2 DEF PartAs
    <2>2. PartInside(type, a, b)
      BY <2>1 DEF PartInside
    <2>3. QED
      BY <1>3, <2>2 DEF Part
  <1>4. QED
    BY <1>1, <1>2, <1>3, MessageIs

LEMMA PrefixSelf ==
    ASSUME NEW s \in Bytes
    PROVE  IsPrefix(s, s) /\ IsPrefix(<<>>, s)
  <1>1. Len(s) \in Nat /\ Len(<<>>) = 0
    BY LenProperties, EmptySeq DEF Bytes
  <1>2. SubSeq(s, 1, 0) = <<>> /\ SubSeq(<<>>, 1, 0) = <<>>
    BY SubSeqEmpty
  <1>3. QED
    BY <1>1, <1>2 DEF IsPrefix

LEMMA BegunFieldIsPart ==
    ASSUME NEW kind \in Kinds, NEW s \in SentAs(kind), NEW a,
           BegunField(kind, IF kind = "int32" THEN 0 ELSE <<>>, a, s),
           kind \in Message => \A v \in SentBy(kind) : Part(kind, v, v)
    PROVE  PartAs(kind, a, s)
  <1>1. CASE kind = "int32"
    <2>1. a \in {0, s} /\ kind \notin Message
      BY <1>1, MessageIs DEF BegunField, Scalar
    <2>2. PartField(kind, a, s)
      BY <1>1, <2>1 DEF PartField
    <2>3. QED
      BY <2>1, <2>2 DEF PartAs
  <1>2. CASE kind \in {"string", "bytes"}
    <2>1. a \in {<<>>, s} /\ kind \notin Message
      BY <1>2, MessageIs DEF BegunField, Scalar
    <2>2. s \in Bytes
      BY <1>2, StringsAreBytes DEF SentAs
    <2>3. IsPrefix(a, s)
      BY <2>1, <2>2, PrefixSelf
    <2>4. PartField(kind, a, s)
      BY <1>2, <2>3 DEF PartField
    <2>5. QED
      BY <2>1, <2>4 DEF PartAs
  <1>3. CASE kind \notin Scalar
    <2>1. kind \in Kinds \ Scalar
      BY <1>3
    <2>2. PICK k \in 0 .. Len(s) : a = SubSeq(s, 1, k)
      BY <1>3 DEF BegunField
    <2>3. PICK n : n = Len(s)
      OBVIOUS
    <2>4. /\ n \in Nat /\ DOMAIN s = 1 .. n
          /\ \A j \in 1 .. n : IF kind \in Message THEN s[j] \in SentBy(kind) ELSE s[j] \in String
      BY <2>1, <2>3, SentLists
    <2>5. /\ Len(a) = k /\ DOMAIN a = 1 .. k /\ k <= n /\ k \in Nat
          /\ \A j \in 1 .. k : a[j] = s[j] /\ j \in 1 .. n
      <3>1. k \in 0 .. n /\ k \in Int /\ k <= n /\ k \in Nat
        BY <2>2, <2>3, <2>4
      <3>2. PICK S : S = {s[j] : j \in 1 .. k}
        OBVIOUS
      <3>3. \A j \in 1 .. k : s[j] \in S
        BY <3>2
      <3>4. /\ SubSeq(s, 1, k) \in Seq(S)
            /\ Len(SubSeq(s, 1, k)) = IF 1 <= k THEN k - 1 + 1 ELSE 0
            /\ \A j \in 1 .. k - 1 + 1 : SubSeq(s, 1, k)[j] = s[1 + j - 1]
        BY <3>1, <3>3, SubSeqProperties
      <3>5. k - 1 + 1 = k /\ \A j \in 1 .. k : 1 + j - 1 = j /\ j \in 1 .. n
        BY <2>4, <3>1
      <3>6. a \in Seq(S) /\ Len(a) = k /\ \A j \in 1 .. k : a[j] = s[j]
        BY <2>2, <3>1, <3>4, <3>5
      <3>7. DOMAIN a = 1 .. k
        BY <3>6, LenProperties
      <3>8. QED
        BY <3>1, <3>5, <3>6, <3>7
    <2>6. CASE kind = "strings"
      <3>1. kind \notin Message
        BY <2>6, MessageIs
      <3>2. \A j \in 1 .. k : IsPrefix(a[j], s[j])
        <4>1. ASSUME NEW j \in 1 .. k PROVE IsPrefix(a[j], s[j])
          <5>1. a[j] = s[j] /\ s[j] \in String
            BY <2>4, <2>5, <3>1
          <5>2. s[j] \in Bytes
            BY <5>1, StringsAreBytes
          <5>3. QED
            BY <5>1, <5>2, PrefixSelf
        <4>2. QED
          BY <4>1
      <3>3. PartField(kind, a, s)
        BY <2>3, <2>5, <2>6, <3>2 DEF PartField
      <3>4. QED
        BY <3>1, <3>3 DEF PartAs
    <2>7. CASE kind \in Message
      <3>1. \A j \in 1 .. k : Part(kind, a[j], s[j]) /\ j \in DOMAIN s
        BY <2>4, <2>5, <2>7
      <3>2. kind \in {"AppError", "FieldError", "Entry"}
        BY <2>7, KindsAre
      <3>3. Len(a) <= Len(s) /\ \A j \in DOMAIN a : Part(kind, a[j], s[j])
        BY <2>3, <2>5, <3>1
      <3>4. \A j \in DOMAIN a : \E i \in DOMAIN s : Part(kind, a[j], s[i])
        BY <2>5, <3>1
      <3>5. CASE kind = "Entry"
        BY <2>7, <3>4, <3>5 DEF PartAs
      <3>6. CASE kind \in {"AppError", "FieldError"}
        BY <2>7, <3>3, <3>6 DEF PartAs
      <3>7. QED
        BY <3>2, <3>5, <3>6
    <2>8. QED
      BY <2>1, <2>6, <2>7, MessageIs DEF Kinds, Scalar
  <1>4. QED
    BY <1>1, <1>2, <1>3 DEF Kinds, Scalar

LEMMA BegunIsPartOf ==
    ASSUME NEW type \in Message, NEW t \in SentBy(type), NEW m, Begun(type, m, t),
           \A f \in DOMAIN Fields[type] :
              Fields[type][f] \in Message
                 => \A v \in SentBy(Fields[type][f]) : Part(Fields[type][f], v, v)
    PROVE  /\ \A f \in DOMAIN Fields[type] : PartAs(Fields[type][f], m[f], t[f])
           /\ Part(type, m, t)
  <1>1. ASSUME NEW f \in DOMAIN Fields[type]
        PROVE  PartAs(Fields[type][f], m[f], t[f])
    <2>1. PICK kind : kind = Fields[type][f]
      OBVIOUS
    <2>2. kind \in Kinds /\ t[f] \in SentAs(kind)
      BY <2>1, KindsAre, SentFields
    <2>3. New(type)[f] = IF kind = "int32" THEN 0 ELSE <<>>
      BY <2>1 DEF New
    <2>4. BegunField(kind, New(type)[f], m[f], t[f])
      BY <2>1 DEF Begun
    <2>5. BegunField(kind, IF kind = "int32" THEN 0 ELSE <<>>, m[f], t[f])
      BY <2>3, <2>4
    <2>6. kind \in Message => \A v \in SentBy(kind) : Part(kind, v, v)
      BY <2>1
    <2>7. PartAs(kind, m[f], t[f])
      BY <2>2, <2>5, <2>6, BegunFieldIsPart
    <2>8. QED
      BY <2>1, <2>7
  <1>2. DOMAIN m = DOMAIN Fields[type]
    BY HeldDomain DEF Begun
  <1>3. QED
    BY <1>1, <1>2, PartFields

LEMMA AllBegun ==
    ASSUME NEW type \in Message, NEW t \in SentBy(type)
    PROVE  Begun(type, t, t)
  <1>1. ASSUME NEW f \in DOMAIN Fields[type]
        PROVE  BegunField(Fields[type][f], New(type)[f], t[f], t[f])
    <2>1. PICK kind : kind = Fields[type][f]
      OBVIOUS
    <2>2. kind \in Kinds /\ t[f] \in SentAs(kind)
      BY <2>1, KindsAre, SentFields
    <2>3. CASE kind \in Scalar
      BY <2>1, <2>3 DEF BegunField
    <2>4. CASE kind \notin Scalar
      <3>1. SubSeq(t[f], 1, Len(t[f])) = t[f] /\ Len(t[f]) \in Nat
        BY <2>2, <2>4, SentLists
      <3>2. Len(t[f]) \in 0 .. Len(t[f])
        BY <3>1
      <3>3. \E k \in 0 .. Len(t[f]) : t[f] = SubSeq(t[f], 1, k)
        BY <3>1, <3>2
      <3>4. QED
        BY <2>1, <2>4, <3>3 DEF BegunField
    <2>5. QED
      BY <2>3, <2>4
  <1>2. QED
    BY <1>1, SentFields DEF Begun

LEMMA PartSelf ==
    \A type \in Message : \A v \in SentBy(type) : Part(type, v, v)
  <1>1. ASSUME NEW type \in {"FieldError", "Entry"}, NEW v \in SentBy(type)
        PROVE  Part(type, v, v)
    <2>1. ASSUME NEW f \in DOMAIN Fields[type] PROVE Fields[type][f] \notin Message
      <3>1. CASE type = "FieldError"
        BY <3>1, FieldsAre, MessageIs
      <3>2. CASE type = "Entry"
        BY <3>2, FieldsAre, MessageIs
      <3>3. QED
        BY <3>1, <3>2
    <2>2. type \in Message /\ Begun(type, v, v)
      BY AllBegun, MessageIs
    <2>3. QED
      BY <2>1, <2>2, BegunIsPartOf
  <1>2. ASSUME NEW v \in SentBy("AppError")
        PROVE  Part("AppError", v, v)
    <2>1. PICK type \in Message : type = "AppError"
      BY MessageIs
    <2>2. ASSUME NEW f \in DOMAIN Fields[type], Fields[type][f] \in Message
          PROVE  Fields[type][f] \in {"FieldError", "Entry"}
      BY <2>1, <2>2, FieldsAre, MessageIs
    <2>3. Begun(type, v, v) /\ v \in SentBy(type)
      BY <2>1, AllBegun
    <2>4. Part(type, v, v)
      BY <1>1, <2>2, <2>3, BegunIsPartOf
    <2>5. QED
      BY <2>1, <2>4
  <1>3. ASSUME NEW v \in SentBy("Envelope")
        PROVE  Part("Envelope", v, v)
    <2>1. PICK type \in Message : type = "Envelope"
      BY MessageIs
    <2>2. ASSUME NEW f \in DOMAIN Fields[type], Fields[type][f] \in Message
          PROVE  Fields[type][f] = "AppError"
      BY <2>1, <2>2, FieldsAre, MessageIs
    <2>3. Begun(type, v, v) /\ v \in SentBy(type)
      BY <2>1, AllBegun
    <2>4. Part(type, v, v)
      BY <1>2, <2>2, <2>3, BegunIsPartOf
    <2>5. QED
      BY <2>1, <2>4
  <1>4. QED
    BY <1>1, <1>2, <1>3, MessageIs

LEMMA BegunIsPart ==
    ASSUME NEW type \in Message, NEW t \in SentBy(type), NEW m, Begun(type, m, t)
    PROVE  /\ \A f \in DOMAIN Fields[type] : PartAs(Fields[type][f], m[f], t[f])
           /\ Part(type, m, t)
  BY BegunIsPartOf, PartSelf

(* A field whose last item was cut holds a part of what was sent.          *)
Cut(kind, v, w) == IF kind \in Message THEN Part(kind, v, w) ELSE IsPrefix(v, w)

LEMMA FirstElements ==
    ASSUME NEW s, NEW k \in Nat \ {0}, NEW S, \A j \in 1 .. k - 1 : s[j] \in S
    PROVE  /\ SubSeq(s, 1, k - 1) \in Seq(S) /\ Len(SubSeq(s, 1, k - 1)) = k - 1
           /\ DOMAIN SubSeq(s, 1, k - 1) = 1 .. k - 1
           /\ \A j \in 1 .. k - 1 : SubSeq(s, 1, k - 1)[j] = s[j]
  <1>1. PICK l \in Nat : l = k - 1
    OBVIOUS
  <1>2. /\ SubSeq(s, 1, l) \in Seq(S)
        /\ Len(SubSeq(s, 1, l)) = IF 1 <= l THEN l - 1 + 1 ELSE 0
        /\ \A j \in 1 .. l - 1 + 1 : SubSeq(s, 1, l)[j] = s[1 + j - 1]
    BY <1>1, SubSeqProperties
  <1>3. l - 1 + 1 = l /\ \A j \in 1 .. l : 1 + j - 1 = j
    OBVIOUS
  <1>4. PICK a : a = SubSeq(s, 1, l)
    OBVIOUS
  <1>5. a \in Seq(S) /\ Len(a) = l /\ \A j \in 1 .. l : a[j] = s[j]
    BY <1>2, <1>3, <1>4
  <1>6. DOMAIN a = 1 .. l
    BY <1>5, LenProperties
  <1>7. QED
    BY <1>1, <1>4, <1>5, <1>6

LEMMA CutItem ==
    ASSUME NEW kind \in Kinds \ Scalar, NEW s \in SentAs(kind), NEW k \in 1 .. Len(s),
           NEW v, Cut(kind, v, s[k])
    PROVE  PartAs(kind, Adds(kind, SubSeq(s, 1, k - 1), v), s)
  <1>1. PICK n : n = Len(s)
    OBVIOUS
  <1>2. /\ n \in Nat /\ DOMAIN s = 1 .. n
        /\ \A j \in 1 .. n : IF kind \in Message THEN s[j] \in SentBy(kind) ELSE s[j] \in String
    BY <1>1, SentLists
  <1>3. k \in Nat \ {0} /\ k <= n /\ k \in 1 .. n
    BY <1>1, <1>2
  <1>4. PICK a : a = SubSeq(s, 1, k - 1)
    OBVIOUS
  <1>5. PICK S : S = {s[j] : j \in 1 .. n} \union {v}
    OBVIOUS
  <1>6. \A j \in 1 .. k - 1 : j \in 1 .. n /\ s[j] \in S
    BY <1>2, <1>3, <1>5
  <1>7. /\ a \in Seq(S) /\ Len(a) = k - 1 /\ DOMAIN a = 1 .. k - 1
        /\ \A j \in 1 .. k - 1 : a[j] = s[j]
    BY <1>3, <1>4, <1>6, FirstElements
  <1>8. \A j \in 1 .. k - 1 : kind \in Message => Part(kind, a[j], s[j])
    BY <1>2, <1>6, <1>7, PartSelf
  <1>9. PICK b : b = Append(a, v)
    OBVIOUS
  <1>10. /\ Len(b) = k /\ DOMAIN b = 1 .. k
         /\ \A j \in 1 .. k - 1 : b[j] = a[j]
         /\ b[k] = v
    <2>1. v \in S
      BY <1>5
    <2>2. /\ b \in Seq(S) /\ Len(b) = Len(a) + 1
          /\ \A j \in 1 .. Len(a) : b[j] = a[j]
          /\ b[Len(a) + 1] = v
      BY <1>7, <1>9, <2>1, AppendProperties
    <2>3. Len(a) + 1 = k
      BY <1>3, <1>7
    <2>4. DOMAIN b = 1 .. Len(b)
      BY <2>2, LenProperties
    <2>5. QED
      BY <1>7, <2>2, <2>3, <2>4
  <1>11. \A j \in 1 .. k : j = k \/ j \in 1 .. k - 1
    BY <1>3
  <1>12. CASE kind = "strings"
    <2>1. kind \notin Message
      BY <1>12, MessageIs
    <2>2. ASSUME NEW j \in 1 .. k PROVE IsPrefix(b[j], s[j])
      <3>1. CASE j = k
        BY <1>10, <2>1, <3>1 DEF Cut
      <3>2. CASE j \in 1 .. k - 1
        <4>1. s[j] \in String
          BY <1>2, <1>6, <2>1, <3>2
        <4>2. s[j] \in Bytes
          BY <4>1, StringsAreBytes
        <4>3. b[j] = s[j]
          BY <1>7, <1>10, <3>2
        <4>4. QED
          BY <4>2, <4>3, PrefixSelf
      <3>3. QED
        BY <1>11, <3>1, <3>2
    <2>3. Len(b) <= Len(s) /\ \A j \in DOMAIN b : IsPrefix(b[j], s[j])
      BY <1>1, <1>3, <1>10, <2>2
    <2>4. PartField(kind, b, s)
      BY <1>12, <2>3 DEF PartField
    <2>5. Adds(kind, a, v) = b
      BY <1>9, <1>12 DEF Adds, Scalar
    <2>6. QED
      BY <1>4, <2>1, <2>4, <2>5 DEF PartAs
  <1>13. CASE kind \in {"FieldError", "AppError"}
    <2>1. kind \in Message
      BY <1>13, MessageIs
    <2>2. Adds(kind, a, v) = b
      <3>1. CASE kind = "FieldError"
        BY <1>9, <3>1 DEF Adds, Scalar, Stored
      <3>2. CASE kind = "AppError"
        <4>1. n <= 1
          BY <1>1, <3>2 DEF SentAs
        <4>2. k = 1
          BY <1>2, <1>3, <4>1
        <4>3. a = <<>>
          BY <1>4, <4>2, SubSeqEmpty
        <4>4. Adds(kind, a, v) = <<v>>
          BY <3>2 DEF Adds, Scalar, Stored
        <4>5. QED
          BY <1>9, <4>3, <4>4
      <3>3. QED
        BY <1>13, <3>1, <3>2
    <2>3. ASSUME NEW j \in 1 .. k PROVE Part(kind, b[j], s[j])
      <3>1. CASE j = k
        BY <1>10, <2>1, <3>1 DEF Cut
      <3>2. CASE j \in 1 .. k - 1
        BY <1>8, <1>10, <2>1, <3>2
      <3>3. QED
        BY <1>11, <3>1, <3>2
    <2>4. Len(b) <= Len(s) /\ \A j \in DOMAIN b : Part(kind, b[j], s[j])
      BY <1>1, <1>3, <1>10, <2>3
    <2>5. QED
      BY <1>4, <1>13, <2>1, <2>2, <2>4 DEF PartAs
  <1>14. CASE kind = "Entry"
    <2>1. kind \in Message
      BY <1>14, MessageIs
    <2>2. PICK put : put = Put(a, v)
      OBVIOUS
    <2>3. Adds(kind, a, v) = put
      BY <1>14, <2>2 DEF Adds, Scalar, Stored
    <2>4. ASSUME NEW j \in DOMAIN put
          PROVE  put[j] = v \/ \E i \in 1 .. k - 1 : put[j] = a[i]
      <3>1. CASE {i \in DOMAIN a : a[i][1] = v[1]} = {}
        <4>1. put = b
          BY <1>9, <2>2, <3>1 DEF Put
        <4>2. QED
          BY <1>10, <1>11, <2>4, <4>1
      <3>2. CASE {i \in DOMAIN a : a[i][1] = v[1]} # {}
        <4>1. put = [i \in DOMAIN a |-> IF i \in {x \in DOMAIN a : a[x][1] = v[1]} THEN v ELSE a[i]]
          BY <2>2, <3>2 DEF Put
        <4>2. j \in DOMAIN a
          BY <4>1
        <4>3. put[j] = v \/ put[j] = a[j]
          BY <4>1, <4>2
        <4>4. QED
          BY <1>7, <4>2, <4>3
      <3>3. QED
        BY <3>1, <3>2
    <2>5. ASSUME NEW j \in DOMAIN put
          PROVE  \E i \in DOMAIN s : Part(kind, put[j], s[i])
      <3>1. CASE put[j] = v
        <4>1. Part(kind, v, s[k]) /\ k \in DOMAIN s
          BY <1>2, <1>3, <2>1 DEF Cut
        <4>2. QED
          BY <3>1, <4>1
      <3>2. CASE \E i \in 1 .. k - 1 : put[j] = a[i]
        <4>1. PICK i \in 1 .. k - 1 : put[j] = a[i]
          BY <3>2
        <4>2. Part(kind, a[i], s[i]) /\ i \in DOMAIN s
          BY <1>2, <1>6, <1>8, <2>1
        <4>3. QED
          BY <4>1, <4>2
      <3>3. QED
        BY <2>4, <3>1, <3>2
    <2>6. QED
      BY <1>4, <1>14, <2>1, <2>3, <2>5 DEF PartAs
  <1>15. QED
    BY <1>12, <1>13, <1>14 DEF Kinds, Scalar

LEMMA CutIsPart ==
    ASSUME NEW type \in Message, NEW t \in SentBy(type), NEW m, Begun(type, m, t),
           NEW item, Follows(type, m, item, t), item.num \in DOMAIN Fields[type],
           Fields[type][item.num] # "int32",
           NEW v, Cut(Fields[type][item.num], v, item.value)
    PROVE  Part(type, [m EXCEPT ![item.num] = Adds(Fields[type][item.num], m[item.num], v)], t)
  <1>1. PICK num, kind : num = item.num /\ kind = Fields[type][num]
    OBVIOUS
  <1>2. /\ num \in DOMAIN Fields[type] /\ kind \in Kinds /\ kind # "int32"
        /\ t[num] \in SentAs(kind) /\ num # 0
    <2>1. num # 0
      BY <1>1, KindsAre
    <2>2. QED
      BY <1>1, <2>1, KindsAre, SentFields
  <1>3. IF kind \in Scalar THEN item.value = t[num]
        ELSE \E k \in 1 .. Len(t[num]) :
                  m[num] = SubSeq(t[num], 1, k - 1) /\ item.value = t[num][k]
    BY <1>1, <1>2 DEF Follows
  <1>4. PartAs(kind, Adds(kind, m[num], v), t[num])
    <2>1. CASE kind \in Scalar
      <3>1. kind \in {"string", "bytes"} /\ kind \notin Message
        BY <1>2, <2>1, MessageIs DEF Scalar
      <3>2. IsPrefix(v, t[num])
        BY <1>1, <1>3, <2>1, <3>1 DEF Cut
      <3>3. Adds(kind, m[num], v) = v
        BY <2>1 DEF Adds
      <3>4. PartField(kind, v, t[num])
        BY <3>1, <3>2 DEF PartField
      <3>5. QED
        BY <3>1, <3>3, <3>4 DEF PartAs
    <2>2. CASE kind \notin Scalar
      <3>1. PICK k \in 1 .. Len(t[num]) :
                  m[num] = SubSeq(t[num], 1, k - 1) /\ item.value = t[num][k]
        BY <1>3, <2>2
      <3>2. Cut(kind, v, t[num][k]) /\ kind \in Kinds \ Scalar
        BY <1>1, <1>2, <2>2, <3>1
      <3>3. PartAs(kind, Adds(kind, SubSeq(t[num], 1, k - 1), v), t[num])
        BY <1>2, <3>2, CutItem
      <3>4. QED
        BY <3>1, <3>3
    <2>3. QED
      BY <2>1, <2>2
  <1>5. PICK w : w = [m EXCEPT ![num] = Adds(kind, m[num], v)]
    OBVIOUS
  <1>6. DOMAIN m = DOMAIN Fields[type]
    BY HeldDomain DEF Begun
  <1>7. DOMAIN w = DOMAIN Fields[type]
        /\ \A f \in DOMAIN Fields[type] : w[f] = IF f = num THEN Adds(kind, m[num], v) ELSE m[f]
    BY <1>5, <1>6
  <1>8. \A f \in DOMAIN Fields[type] : PartAs(Fields[type][f], m[f], t[f])
    BY BegunIsPart
  <1>9. ASSUME NEW f \in DOMAIN Fields[type]
        PROVE  PartAs(Fields[type][f], w[f], t[f])
    <2>1. CASE f = num
      <3>1. w[f] = Adds(kind, m[num], v) /\ Fields[type][f] = kind
        BY <1>1, <1>7, <2>1
      <3>2. QED
        BY <1>4, <2>1, <3>1
    <2>2. CASE f # num
      BY <1>7, <1>8, <2>2
    <2>3. QED
      BY <2>1, <2>2
  <1>10. Part(type, w, t)
    BY <1>7, <1>9, PartFields
  <1>11. QED
    BY <1>1, <1>5, <1>10

-------------------------------------------------------------------------------
(* An item is of the kind of its field.                                    *)
LEMMA ItemTyped ==
    ASSUME NEW type \in Message, NEW t \in SentBy(type), NEW m,
           NEW item, Follows(type, m, item, t), item.num \in DOMAIN Fields[type]
    PROVE  LET kind == Fields[type][item.num] IN
           /\ kind = "int32" => item.value \in Int32Range
           /\ kind \in {"string", "strings"} => item.value \in String
           /\ kind \in Message => item.value \in SentBy(kind)
           /\ kind # "int32" => /\ Payload(kind, item.value) \in Bytes
                                /\ Len(Payload(kind, item.value)) < Word
  <1>1. PICK num, kind : num = item.num /\ kind = Fields[type][num]
    OBVIOUS
  <1>2. num \in DOMAIN Fields[type] /\ kind \in Kinds /\ t[num] \in SentAs(kind) /\ num # 0
    <2>1. num # 0
      BY <1>1, KindsAre
    <2>2. QED
      BY <1>1, <2>1, KindsAre, SentFields
  <1>3. /\ IF kind \in Scalar THEN item.value = t[num]
           ELSE \E k \in 1 .. Len(t[num]) :
                     m[num] = SubSeq(t[num], 1, k - 1) /\ item.value = t[num][k]
        /\ kind # "int32" => Len(Payload(kind, item.value)) < Word
    BY <1>1, <1>2 DEF Follows
  <1>4. CASE kind \in Scalar
    <2>1. item.value \in SentAs(kind) /\ kind \notin Message
      BY <1>2, <1>3, <1>4, MessageIs DEF Scalar
    <2>2. kind = "int32" => item.value \in Int32Range
      BY <2>1 DEF SentAs
    <2>3. kind = "string" => item.value \in String
      BY <2>1 DEF SentAs
    <2>4. kind # "int32" => item.value \in Bytes
      <3>1. kind = "bytes" => item.value \in Bytes
        BY <2>1 DEF SentAs
      <3>2. QED
        BY <1>4, <2>3, <3>1, StringsAreBytes DEF Scalar
    <2>5. Payload(kind, item.value) = item.value
      BY <2>1 DEF Payload
    <2>6. kind # "strings"
      BY <1>4 DEF Scalar
    <2>7. QED
      BY <1>1, <1>3, <2>1, <2>2, <2>3, <2>4, <2>5, <2>6
  <1>5. CASE kind \notin Scalar
    <2>1. PICK k \in 1 .. Len(t[num]) : item.value = t[num][k]
      BY <1>3, <1>5
    <2>2. kind \in Kinds \ Scalar
      BY <1>2, <1>5
    <2>3. IF kind \in Message THEN item.value \in SentBy(kind) ELSE item.value \in String
      BY <1>2, <2>1, <2>2, SentLists
    <2>4. Payload(kind, item.value) \in Bytes
      BY <1>2, <2>1, <2>2, PayloadTyped
    <2>5. kind \notin {"int32", "string"}
      BY <1>5 DEF Scalar
    <2>6. "strings" \notin Message
      BY MessageIs
    <2>7. QED
      BY <1>1, <1>3, <2>3, <2>4, <2>5, <2>6
  <1>6. QED
    BY <1>4, <1>5

(* Where a decoder is in the middle of its bytes, an item begins.          *)
ItemAt(type, item, b, i, n, l) ==
    \/ type = "Envelope" /\ item.num = 0 /\ SkippedAt(b, i, n, l)
    \/ /\ item.num \in DOMAIN Fields[type] /\ Fields[type][item.num] = "int32"
       /\ NumberAt(b, i, n, item.num, item.value, l)
    \/ /\ item.num \in DOMAIN Fields[type] /\ Fields[type][item.num] # "int32"
       /\ DelimitedAt(b, i, n, item.num, Payload(Fields[type][item.num], item.value), l)

ToRead(type, t, m, b, i, n, full) ==
    \E todo \in Bytes : /\ Ahead(type, t, m, todo) /\ Carries(b, i, n, todo)
                        /\ full => Len(todo) = n + 1 - i

LEMMA ItemAhead ==
    ASSUME NEW type \in Message, NEW t \in SentBy(type), NEW m, NEW b \in Bytes,
           NEW i \in Nat \ {0}, NEW n \in Nat, n <= Len(b), i <= n, NEW full \in BOOLEAN,
           ToRead(type, t, m, b, i, n, full)
    PROVE  \E item, l :
              /\ l \in Nat \ {0} /\ Begun(type, m, t) /\ Follows(type, m, item, t)
              /\ ToRead(type, t, After(type, m, item), b, i + l, n, full)
              /\ full => i + l - 1 <= n
              /\ ItemAt(type, item, b, i, n, l)
  <1>1. PICK todo \in Bytes : /\ Ahead(type, t, m, todo) /\ Carries(b, i, n, todo)
                              /\ full => Len(todo) = n + 1 - i
    BY DEF ToRead
  <1>2. Begun(type, m, t)
    BY <1>1, AheadStep
  <1>3. todo # <<>>
    <2>1. n + 1 - i <= Len(todo)
      BY <1>1 DEF Carries
    <2>2. Len(<<>>) = 0
      BY EmptySeq
    <2>3. QED
      BY <2>1, <2>2
  <1>4. PICK item, p, more :
                    /\ Follows(type, m, item, t)
                    /\ p = Piece(type, item) /\ p \in Bytes /\ more \in Bytes
                    /\ todo = p \o more
                    /\ Ahead(type, t, After(type, m, item), more)
    BY <1>1, <1>3, AheadStep
  <1>5. Carries(b, i, n, p \o more)
    BY <1>1, <1>4
  <1>6. PICK l : /\ l \in Nat \ {0} /\ l = Len(p) /\ Carries(b, i + l, n, more)
                 /\ ItemAt(type, item, b, i, n, l)
    <2>1. CASE item.num = 0
      <3>1. 0 \notin DOMAIN Fields[type]
        BY KindsAre
      <3>2. type = "Envelope" /\ item.value \in Unknown
        BY <1>4, <2>1, <3>1 DEF Follows
      <3>3. p = item.value
        BY <1>4, <2>1 DEF Piece
      <3>4. PICK u \in Unknown : u = p
        BY <3>2, <3>3
      <3>5. Carries(b, i, n, u \o more)
        BY <1>5, <3>4
      <3>6. \E l \in Nat \ {0} :
               l = Len(u) /\ Carries(b, i + l, n, more) /\ SkippedAt(b, i, n, l)
        BY <1>4, <3>5, UnknownAhead
      <3>7. QED
        BY <2>1, <3>2, <3>4, <3>6 DEF ItemAt
    <2>2. CASE item.num # 0
      <3>1. item.num \in DOMAIN Fields[type]
        BY <1>4, <2>2 DEF Follows
      <3>2. PICK num \in DOMAIN Fields[type] : num = item.num
        BY <3>1
      <3>3. CASE Fields[type][num] = "int32"
        <4>1. PICK v \in Int32Range : v = item.value
          BY <1>4, <3>2, <3>3, ItemTyped
        <4>2. p = Tag(num, 0) \o EncVarint[Int32Word(v)]
          BY <1>4, <2>2, <3>2, <3>3, <4>1 DEF Piece
        <4>3. Carries(b, i, n, (Tag(num, 0) \o EncVarint[Int32Word(v)]) \o more)
          BY <1>5, <4>2
        <4>4. \E l \in Nat \ {0} :
                 /\ l = Len(Tag(num, 0) \o EncVarint[Int32Word(v)])
                 /\ Carries(b, i + l, n, more)
                 /\ NumberAt(b, i, n, num, v, l)
          BY <1>4, <4>3, NumberAhead
        <4>5. QED
          BY <3>2, <3>3, <4>1, <4>2, <4>4 DEF ItemAt
      <3>4. CASE Fields[type][num] # "int32"
        <4>1. PICK pay : pay = Payload(Fields[type][num], item.value)
          OBVIOUS
        <4>2. pay \in Bytes /\ Len(pay) < Word
          BY <1>4, <3>2, <3>4, <4>1, ItemTyped
        <4>3. p = Delimited(num, pay)
          BY <1>4, <2>2, <3>2, <3>4, <4>1 DEF Piece
        <4>4. Carries(b, i, n, Delimited(num, pay) \o more)
          BY <1>5, <4>3
        <4>5. \E l \in Nat \ {0} :
                 /\ l = Len(Delimited(num, pay))
                 /\ Carries(b, i + l, n, more)
                 /\ DelimitedAt(b, i, n, num, pay, l)
          BY <1>4, <4>2, <4>4, DelimitedAhead
        <4>6. QED
          BY <3>2, <3>4, <4>1, <4>3, <4>5 DEF ItemAt
      <3>5. QED
        BY <3>3, <3>4
    <2>3. QED
      BY <2>1, <2>2
  <1>7. PICK j \in Nat : j = Len(more)
    BY <1>4, LenProperties DEF Bytes
  <1>8. Len(todo) = l + j
    <2>1. p \in Seq(Byte) /\ more \in Seq(Byte)
      BY <1>4 DEF Bytes
    <2>2. Len(p \o more) = Len(p) + Len(more)
      BY <2>1, ConcatProperties
    <2>3. QED
      BY <1>4, <1>6, <1>7, <2>2
  <1>9. full => i + l - 1 <= n /\ Len(more) = n + 1 - (i + l)
    BY <1>1, <1>6, <1>7, <1>8
  <1>10. ToRead(type, t, After(type, m, item), b, i + l, n, full)
    BY <1>4, <1>6, <1>9 DEF ToRead
  <1>11. QED
    BY <1>2, <1>4, <1>6, <1>9, <1>10

-------------------------------------------------------------------------------
(* A decoder is in the middle of its message, or behind its bytes because  *)
(* they were cut; a caller waits for the message that its item is.         *)
Reading(fr, t, b, full) ==
    \/ ToRead(fr.type, t, fr.m, b, fr.i, fr.last, full)
    \/ ~full /\ fr.i > fr.last /\ Part(fr.type, fr.m, t)

Pending(fr, num, t, value, b, full, fullSub) ==
    \E item : /\ item.num = num /\ item.value = value
              /\ num \in DOMAIN Fields[fr.type]
              /\ Begun(fr.type, fr.m, t) /\ Follows(fr.type, fr.m, item, t)
              /\ ToRead(fr.type, t, After(fr.type, fr.m, item), b, fr.i, fr.last, full)
              /\ full => fullSub
              /\ ~fullSub => fr.i > fr.last

Chain(fs, b, ts, full) ==
    /\ \A d \in 1 .. Len(fs) : ts[d] \in SentBy(fs[d].type) /\ full[d] \in BOOLEAN
    /\ \A d \in 1 .. Len(fs) - 1 :
          Pending(fs[d], fs[d + 1].num, ts[d], ts[d + 1], b, full[d], full[d + 1])

Following(fs, b, e, whole) ==
    \E ts, full :
       /\ ts[1] = e /\ full[1] = whole /\ Chain(fs, b, ts, full)
       /\ Reading(fs[Len(fs)], ts[Len(fs)], b, full[Len(fs)])

(* What is cut at the top is cut at the bottom.                            *)
LEMMA CutBelow ==
    ASSUME NEW fs, Len(fs) \in 1 .. 3, NEW b, NEW ts, NEW full, Chain(fs, b, ts, full),
           ~full[Len(fs)]
    PROVE  ~full[1]
  <1>1. PICK n \in 1 .. 3 : n = Len(fs)
    OBVIOUS
  <1>2. \A d \in 1 .. n - 1 : full[d] => full[d + 1]
    BY <1>1 DEF Chain, Pending
  <1>3. ~full[n]
    BY <1>1
  <1>4. CASE n = 1
    BY <1>3, <1>4
  <1>5. CASE n = 2
    <2>1. 1 \in 1 .. n - 1 /\ 1 + 1 = 2
      BY <1>5
    <2>2. full[1] => full[2]
      BY <1>2, <2>1
    <2>3. QED
      BY <1>3, <1>5, <2>2
  <1>6. CASE n = 3
    <2>1. 1 \in 1 .. n - 1 /\ 2 \in 1 .. n - 1 /\ 1 + 1 = 2 /\ 2 + 1 = 3
      BY <1>6
    <2>2. full[2] => full[3]
      BY <1>2, <2>1
    <2>3. full[1] => full[2]
      BY <1>2, <2>1
    <2>4. QED
      BY <1>3, <1>6, <2>2, <2>3
  <1>7. QED
    BY <1>4, <1>5, <1>6

LEMMA ChainTo ==
    ASSUME NEW fs, Len(fs) \in Nat, NEW b, NEW ts, NEW full, Chain(fs, b, ts, full),
           NEW k \in 1 .. Len(fs), NEW gs, Len(gs) = k,
           \A d \in 1 .. k - 1 : gs[d] = fs[d],
           gs[k].num = fs[k].num, gs[k].type = fs[k].type
    PROVE  Chain(gs, b, ts, full)
  <1>1. PICK n \in Nat : n = Len(fs) /\ k \in 1 .. n
    OBVIOUS
  <1>2. ASSUME NEW d \in 1 .. k
        PROVE  ts[d] \in SentBy(gs[d].type) /\ full[d] \in BOOLEAN
    <2>1. d \in 1 .. n /\ (d = k \/ d \in 1 .. k - 1)
      BY <1>1
    <2>2. gs[d].type = fs[d].type
      BY <2>1
    <2>3. QED
      BY <1>1, <2>1, <2>2 DEF Chain
  <1>3. ASSUME NEW d \in 1 .. k - 1
        PROVE  Pending(gs[d], gs[d + 1].num, ts[d], ts[d + 1], b, full[d], full[d + 1])
    <2>1. PICK e : e = d + 1
      OBVIOUS
    <2>2. d \in 1 .. n - 1 /\ (e = k \/ e \in 1 .. k - 1)
      BY <1>1, <2>1
    <2>3. gs[e].num = fs[e].num /\ gs[d] = fs[d]
      BY <2>2
    <2>4. Pending(fs[d], fs[e].num, ts[d], ts[e], b, full[d], full[e])
      BY <1>1, <2>1, <2>2 DEF Chain
    <2>5. Pending(gs[d], gs[e].num, ts[d], ts[e], b, full[d], full[e])
      BY <2>3, <2>4
    <2>6. QED
      BY <2>1, <2>5
  <1>4. QED
    BY <1>2, <1>3 DEF Chain

(* The chain with one decoder more, called by the one that was last.       *)
Pushed(fs, n, gs, b, ts, full, t, cut) ==
    \E us, cuts : /\ us[1] = ts[1] /\ cuts[1] = full[1] /\ us[n + 1] = t /\ cuts[n + 1] = cut
                  /\ Chain(gs, b, us, cuts)

LEMMA ChainPush ==
    ASSUME NEW fs, NEW n \in Nat \ {0}, Len(fs) = n, NEW b, NEW ts, NEW full,
           Chain(fs, b, ts, full),
           NEW gs, Len(gs) = n + 1, \A d \in 1 .. n : gs[d] = fs[d],
           NEW t \in SentBy(gs[n + 1].type), NEW cut \in BOOLEAN,
           Pending(fs[n], gs[n + 1].num, ts[n], t, b, full[n], cut)
    PROVE  Pushed(fs, n, gs, b, ts, full, t, cut)
  <1>1. PICK k \in Nat : k = n + 1
    OBVIOUS
  <1>2. PICK us : us = [d \in 1 .. k |-> IF d = k THEN t ELSE ts[d]]
    OBVIOUS
  <1>3. PICK cuts : cuts = [d \in 1 .. k |-> IF d = k THEN cut ELSE full[d]]
    OBVIOUS
  <1>4. /\ us[k] = t /\ cuts[k] = cut /\ us[1] = ts[1] /\ cuts[1] = full[1]
        /\ \A d \in 1 .. n : us[d] = ts[d] /\ cuts[d] = full[d]
    BY <1>1, <1>2, <1>3
  <1>5. ASSUME NEW d \in 1 .. k
        PROVE  us[d] \in SentBy(gs[d].type) /\ cuts[d] \in BOOLEAN
    <2>1. CASE d = k
      BY <1>1, <1>4, <2>1
    <2>2. CASE d # k
      <3>1. d \in 1 .. n
        BY <1>1, <2>2
      <3>2. ts[d] \in SentBy(fs[d].type) /\ full[d] \in BOOLEAN
        BY <3>1 DEF Chain
      <3>3. QED
        BY <1>4, <3>1, <3>2
    <2>3. QED
      BY <2>1, <2>2
  <1>6. ASSUME NEW d \in 1 .. k - 1
        PROVE  Pending(gs[d], gs[d + 1].num, us[d], us[d + 1], b, cuts[d], cuts[d + 1])
    <2>1. PICK e : e = d + 1
      OBVIOUS
    <2>2. d \in 1 .. n /\ gs[d] = fs[d] /\ us[d] = ts[d] /\ cuts[d] = full[d]
      BY <1>1, <1>4
    <2>3. CASE d = n
      <3>1. e = k /\ us[e] = t /\ cuts[e] = cut
        BY <1>1, <1>4, <2>1, <2>3
      <3>2. Pending(fs[d], gs[e].num, ts[d], t, b, full[d], cut)
        BY <1>1, <2>3, <3>1
      <3>3. Pending(gs[d], gs[e].num, us[d], us[e], b, cuts[d], cuts[e])
        BY <2>2, <3>1, <3>2
      <3>4. QED
        BY <2>1, <3>3
    <2>4. CASE d # n
      <3>1. d \in 1 .. n - 1 /\ e \in 1 .. n
        BY <2>1, <2>2, <2>4
      <3>2. us[e] = ts[e] /\ cuts[e] = full[e] /\ gs[e] = fs[e]
        BY <1>4, <3>1
      <3>3. Pending(fs[d], fs[e].num, ts[d], ts[e], b, full[d], full[e])
        BY <2>1, <3>1 DEF Chain
      <3>4. Pending(gs[d], gs[e].num, us[d], us[e], b, cuts[d], cuts[e])
        BY <2>2, <3>2, <3>3
      <3>5. QED
        BY <2>1, <3>4
    <2>5. QED
      BY <2>3, <2>4
  <1>7. Chain(gs, b, us, cuts)
    BY <1>1, <1>5, <1>6 DEF Chain
  <1>8. QED
    BY <1>1, <1>4, <1>7 DEF Pushed

-------------------------------------------------------------------------------
(* What the decoder on top reads, where an item begins.                    *)
Stuck == TagRead.ok => IF Known THEN ~Prefix.ok ELSE SkipTo = 0
Over(l) == Top.i + l - 1 > Top.last

LEMMA SkippedThere ==
    ASSUME TypeInv, Running, NEW l \in Nat \ {0}, Top.type = "Envelope",
           SkippedAt(buf, Top.i, Top.last, l)
    PROVE  \/ Over(l) /\ Stuck
           \/ TagRead.ok /\ ~Known /\ SkipTo = Top.i + l
  <1>1. PICK b, i, n : b = buf /\ i = Top.i /\ n = Top.last
    OBVIOUS
  <1>2. SkippedAt(b, i, n, l) /\ TagRead = DecVarint(b, i, n)
    BY <1>1 DEF TagRead
  <1>3. CASE i + l - 1 > n /\ DecVarint(b, i, n) = Bad
    <2>1. ~TagRead.ok
      BY <1>2, <1>3 DEF Bad
    <2>2. QED
      BY <1>1, <1>3, <2>1 DEF Stuck, Over
  <1>4. CASE ~(i + l - 1 > n /\ DecVarint(b, i, n) = Bad)
    <2>1. PICK v \in Nat, x \in Nat \ {0} :
          /\ DecVarint(b, i, n) = Got(v, x)
          /\ v \div 8 \in DOMAIN Fields["Envelope"]
                => (v % 8) # WireOf(Fields["Envelope"][v \div 8])
          /\ \/ i + l - 1 > n /\ SkipField(b, x, n, (v % 8)) = 0
             \/ SkipField(b, x, n, (v % 8)) = i + l
      BY <1>2, <1>4 DEF SkippedAt
    <2>2. TagRead.ok /\ TagRead.v = v /\ TagRead.i = x
      BY <1>2, <2>1 DEF Got
    <2>3. Num = v \div 8 /\ WireType = (v % 8)
      BY <2>2 DEF Num, WireType
    <2>4. ~Known
      BY <2>1, <2>3 DEF Known, KindOf
    <2>5. SkipTo = SkipField(b, x, n, (v % 8))
      BY <1>1, <2>2, <2>3 DEF SkipTo
    <2>6. QED
      BY <1>1, <2>1, <2>2, <2>4, <2>5 DEF Stuck, Over
  <1>5. QED
    BY <1>3, <1>4

LEMMA TagThere ==
    ASSUME NEW v \in Nat, NEW x, TagRead = Got(v, x),
           NEW num, NEW wire, v \div 8 = num, (v % 8) = wire,
           num \in DOMAIN Fields[Top.type], wire = WireOf(Fields[Top.type][num])
    PROVE  TagRead.ok /\ TagRead.i = x /\ Known /\ Num = num /\ KindOf = Fields[Top.type][num]
  <1>1. TagRead.ok /\ TagRead.v = v /\ TagRead.i = x
    BY DEF Got
  <1>2. Num = num /\ WireType = wire
    BY <1>1 DEF Num, WireType
  <1>3. KindOf = Fields[Top.type][num]
    BY <1>2 DEF KindOf
  <1>4. QED
    BY <1>1, <1>2, <1>3 DEF Known

LEMMA NumberThere ==
    ASSUME TypeInv, Running, NEW l \in Nat \ {0}, NEW num \in DOMAIN Fields[Top.type], NEW v,
           Fields[Top.type][num] = "int32", NumberAt(buf, Top.i, Top.last, num, v, l)
    PROVE  \/ Over(l) /\ Stuck
           \/ /\ TagRead.ok /\ Known /\ Num = num /\ KindOf = "int32"
              /\ Prefix = Got(Int32Word(v), Top.i + l) /\ ~Over(l)
  <1>1. PICK b, i, n : b = buf /\ i = Top.i /\ n = Top.last
    OBVIOUS
  <1>2. PICK a, w : a = num * 8 + 0 /\ w = Int32Word(v)
    OBVIOUS
  <1>3. TwoAt(b, i, n, a, w, l) /\ TagRead = DecVarint(b, i, n)
    BY <1>1, <1>2 DEF TagRead, NumberAt
  <1>4. a \in Nat /\ a \div 8 = num /\ (a % 8) = 0 /\ Top.type \in Message
    <2>1. Top.type \in Message /\ Word \in Nat
      BY TopTyped, WidthAssumption DEF Running
    <2>2. PICK wire \in {0, 2} : wire = 0
      OBVIOUS
    <2>3. PICK type \in Message : type = Top.type
      BY <2>1
    <2>4. /\ num * 8 + wire \in 0 .. Word - 1
          /\ (num * 8 + wire) \div 8 = num /\ ((num * 8 + wire) % 8) = wire
      BY <2>3, TagIs
    <2>5. QED
      BY <1>2, <2>1, <2>2, <2>4
  <1>5. CASE i + l - 1 > n /\ DecVarint(b, i, n) = Bad
    <2>1. ~TagRead.ok
      BY <1>3, <1>5 DEF Bad
    <2>2. QED
      BY <1>1, <1>5, <2>1 DEF Stuck, Over
  <1>6. CASE ~(i + l - 1 > n /\ DecVarint(b, i, n) = Bad)
    <2>1. PICK x \in Nat \ {0} :
          /\ DecVarint(b, i, n) = Got(a, x)
          /\ \/ i + l - 1 > n /\ DecVarint(b, x, n) = Bad
             \/ i + l - 1 <= n /\ DecVarint(b, x, n) = Got(w, i + l)
      BY <1>3, <1>6 DEF TwoAt
    <2>2. TagRead.ok /\ TagRead.i = x /\ Known /\ Num = num /\ KindOf = "int32"
      <3>1. WireOf(Fields[Top.type][num]) = 0
        BY DEF WireOf
      <3>2. TagRead = Got(a, x)
        BY <1>3, <2>1
      <3>3. QED
        BY <1>4, <3>1, <3>2, TagThere
    <2>3. Prefix = DecVarint(b, x, n)
      BY <1>1, <2>2 DEF Prefix
    <2>4. CASE i + l - 1 > n /\ DecVarint(b, x, n) = Bad
      <3>1. ~Prefix.ok
        BY <2>3, <2>4 DEF Bad
      <3>2. QED
        BY <1>1, <2>2, <2>4, <3>1 DEF Stuck, Over
    <2>5. CASE i + l - 1 <= n /\ DecVarint(b, x, n) = Got(w, i + l)
      <3>1. i \in Nat /\ n \in Nat
        BY <1>1, TopTyped DEF Running
      <3>2. ~(i + l - 1 > n)
        BY <2>5, <3>1
      <3>3. QED
        BY <1>1, <1>2, <2>2, <2>3, <2>5, <3>2 DEF Over
    <2>6. QED
      BY <2>1, <2>4, <2>5
  <1>7. QED
    BY <1>5, <1>6

LEMMA DelimitedThere ==
    ASSUME TypeInv, Running, NEW l \in Nat \ {0}, NEW num \in DOMAIN Fields[Top.type],
           NEW pay \in Bytes, Fields[Top.type][num] # "int32",
           DelimitedAt(buf, Top.i, Top.last, num, pay, l)
    PROVE  \/ Over(l) /\ Stuck
           \/ /\ TagRead.ok /\ Known /\ Num = num /\ KindOf = Fields[Top.type][num]
              /\ \E y \in Nat \ {0} :
                    /\ Prefix = Got(Len(pay), y)
                    /\ y + Len(pay) = Top.i + l /\ y <= Top.last + 1
                    /\ \A k \in 1 .. Len(pay) : y + k - 1 <= Top.last => buf[y + k - 1] = pay[k]
  <1>1. PICK b, i, n : b = buf /\ i = Top.i /\ n = Top.last
    OBVIOUS
  <1>2. PICK a : a = num * 8 + 2
    OBVIOUS
  <1>3. DelimitedAt(b, i, n, num, pay, l) /\ TagRead = DecVarint(b, i, n)
    BY <1>1 DEF TagRead
  <1>4. a \in Nat /\ a \div 8 = num /\ (a % 8) = 2
    <2>1. Top.type \in Message /\ Word \in Nat
      BY TopTyped, WidthAssumption DEF Running
    <2>2. PICK wire \in {0, 2} : wire = 2
      OBVIOUS
    <2>3. PICK type \in Message : type = Top.type
      BY <2>1
    <2>4. /\ num * 8 + wire \in 0 .. Word - 1
          /\ (num * 8 + wire) \div 8 = num /\ ((num * 8 + wire) % 8) = wire
      BY <2>3, TagIs
    <2>5. QED
      BY <1>2, <2>1, <2>2, <2>4
  <1>5. CASE i + l - 1 > n /\ DecVarint(b, i, n) = Bad
    <2>1. ~TagRead.ok
      BY <1>3, <1>5 DEF Bad
    <2>2. QED
      BY <1>1, <1>5, <2>1 DEF Stuck, Over
  <1>6. CASE ~(i + l - 1 > n /\ DecVarint(b, i, n) = Bad)
    <2>1. PICK x \in Nat \ {0} :
          /\ DecVarint(b, i, n) = Got(num * 8 + 2, x)
          /\ \/ i + l - 1 > n /\ DecVarint(b, x, n) = Bad
             \/ \E y \in Nat \ {0} :
                   /\ DecVarint(b, x, n) = Got(Len(pay), y)
                   /\ y + Len(pay) = i + l /\ y <= n + 1
                   /\ \A k \in 1 .. Len(pay) : y + k - 1 <= n => b[y + k - 1] = pay[k]
      BY <1>3, <1>6 DEF DelimitedAt
    <2>2. /\ TagRead.ok /\ TagRead.i = x /\ Known /\ Num = num
          /\ KindOf = Fields[Top.type][num]
      <3>1. WireOf(Fields[Top.type][num]) = 2
        BY DEF WireOf
      <3>2. TagRead = Got(a, x)
        BY <1>2, <1>3, <2>1
      <3>3. QED
        BY <1>4, <3>1, <3>2, TagThere
    <2>3. Prefix = DecVarint(b, x, n)
      BY <1>1, <2>2 DEF Prefix
    <2>4. CASE i + l - 1 > n /\ DecVarint(b, x, n) = Bad
      <3>1. ~Prefix.ok
        BY <2>3, <2>4 DEF Bad
      <3>2. QED
        BY <1>1, <2>2, <2>4, <3>1 DEF Stuck, Over
    <2>5. CASE ~(i + l - 1 > n /\ DecVarint(b, x, n) = Bad)
      <3>1. PICK y \in Nat \ {0} :
                   /\ DecVarint(b, x, n) = Got(Len(pay), y)
                   /\ y + Len(pay) = i + l /\ y <= n + 1
                   /\ \A k \in 1 .. Len(pay) : y + k - 1 <= n => b[y + k - 1] = pay[k]
        BY <2>1, <2>5
      <3>2. Prefix = Got(Len(pay), y)
        BY <2>3, <3>1
      <3>3. QED
        BY <1>1, <2>2, <3>1, <3>2
    <2>6. QED
      BY <2>4, <2>5
  <1>7. QED
    BY <1>5, <1>6

(* The slice of a value is all of it, or, of bytes that were cut, what     *)
(* there is.                                                               *)
SliceOf(b, y, n, pay, last) ==
    /\ last = Min({y + Len(pay) - 1, n}) /\ last <= n /\ Carries(b, y, last, pay)
    /\ IsPrefix(SubSeq(b, y, last), pay)
    /\ y + Len(pay) - 1 <= n => /\ SubSeq(b, y, last) = pay /\ Len(pay) = last + 1 - y
                                /\ last = y + Len(pay) - 1

LEMMA SliceIs ==
    ASSUME NEW b \in Bytes, NEW y \in Nat \ {0}, NEW n \in Nat, n <= Len(b), y <= n + 1,
           NEW pay \in Bytes,
           \A k \in 1 .. Len(pay) : y + k - 1 <= n => b[y + k - 1] = pay[k]
    PROVE  \E last \in Nat : SliceOf(b, y, n, pay, last)
  <1>1. PICK L \in Nat : L = Len(pay)
    BY LenProperties DEF Bytes
  <1>2. y + L - 1 \in Nat
    BY <1>1
  <1>0. PICK last : last = Min({y + Len(pay) - 1, n})
    OBVIOUS
  <1>3. last = IF y + L - 1 <= n THEN y + L - 1 ELSE n
    BY <1>0, <1>1, <1>2, MinOfTwo
  <1>4. last \in Nat /\ last <= n /\ last + 1 - y <= L /\ y <= last + 1
    BY <1>1, <1>2, <1>3
  <1>5. PICK r \in Nat : r = last + 1 - y /\ r <= L
    BY <1>4
  <1>6. PICK s : s = SubSeq(b, y, last)
    OBVIOUS
  <1>7. \A k \in 1 .. r : b[y + k - 1] = pay[k]
    <2>1. \A k \in 1 .. r : k \in 1 .. L /\ y + k - 1 <= n
      BY <1>1, <1>4, <1>5
    <2>2. QED
      BY <1>1, <2>1
  <1>8. \A k \in 1 .. L : pay[k] \in Byte
    BY <1>1, ElementOfSeq DEF Bytes
  <1>9. s \in Seq(Byte) /\ Len(s) = r /\ \A k \in 1 .. r : s[k] = pay[k]
    <2>1. \A j \in y .. last : b[j] \in Byte
      <3>1. Len(b) \in Nat
        BY LenProperties DEF Bytes
      <3>2. \A j \in y .. last : j \in 1 .. Len(b)
        BY <1>4, <3>1
      <3>3. QED
        BY <3>2, ElementOfSeq DEF Bytes
    <2>2. /\ SubSeq(b, y, last) \in Seq(Byte)
          /\ Len(SubSeq(b, y, last)) = IF y <= last THEN last - y + 1 ELSE 0
          /\ \A j \in 1 .. last - y + 1 : SubSeq(b, y, last)[j] = b[y + j - 1]
      <3>1. PICK m \in Int : m = last
        BY <1>4
      <3>2. \A j \in y .. m : b[j] \in Byte
        BY <2>1, <3>1
      <3>3. /\ SubSeq(b, y, m) \in Seq(Byte)
            /\ Len(SubSeq(b, y, m)) = IF y <= m THEN m - y + 1 ELSE 0
            /\ \A j \in 1 .. m - y + 1 : SubSeq(b, y, m)[j] = b[y + j - 1]
        BY <3>2, SubSeqProperties
      <3>4. QED
        BY <3>1, <3>3
    <2>3. last - y + 1 = r
      BY <1>4, <1>5
    <2>4. Len(s) = r
      BY <1>4, <1>5, <1>6, <2>2
    <2>5. \A j \in 1 .. r : s[j] = b[y + j - 1]
      BY <1>6, <2>2, <2>3
    <2>6. QED
      BY <1>6, <1>7, <2>2, <2>4, <2>5
  <1>10. Carries(b, y, last, pay)
    <2>1. \A k \in 1 .. L : y + k - 1 <= last => b[y + k - 1] = pay[k]
      <3>1. ASSUME NEW k \in 1 .. L, y + k - 1 <= last PROVE b[y + k - 1] = pay[k]
        <4>1. k \in 1 .. r
          BY <1>4, <1>5, <3>1
        <4>2. QED
          BY <1>7, <4>1
      <3>2. QED
        BY <3>1
    <2>2. last + 1 - y <= Len(pay)
      BY <1>1, <1>4
    <2>3. QED
      BY <1>1, <2>1, <2>2 DEF Carries
  <1>11. SubSeq(s, 1, r) = SubSeq(pay, 1, r)
    <2>1. PICK k \in Nat \ {0} : k = r + 1 /\ k - 1 = r
      BY <1>5
    <2>2. (\A j \in 1 .. k - 1 : s[j] \in Byte) /\ (\A j \in 1 .. k - 1 : pay[j] \in Byte)
      <3>1. \A j \in 1 .. r : j \in 1 .. L
        BY <1>5
      <3>2. \A j \in 1 .. r : pay[j] \in Byte
        BY <1>8, <3>1
      <3>3. QED
        BY <1>9, <2>1, <3>2
    <2>3. PICK s1, s2 : s1 = SubSeq(s, 1, k - 1) /\ s2 = SubSeq(pay, 1, k - 1)
      OBVIOUS
    <2>4. s1 \in Seq(Byte) /\ Len(s1) = k - 1 /\ \A j \in 1 .. k - 1 : s1[j] = s[j]
      BY <2>2, <2>3, FirstElements
    <2>5. s2 \in Seq(Byte) /\ Len(s2) = k - 1 /\ \A j \in 1 .. k - 1 : s2[j] = pay[j]
      BY <2>2, <2>3, FirstElements
    <2>6. \A j \in 1 .. k - 1 : s1[j] = s2[j]
      BY <1>9, <2>1, <2>4, <2>5
    <2>7. s1 = s2
      BY <2>4, <2>5, <2>6, SeqEqual
    <2>8. QED
      BY <2>1, <2>3, <2>7
  <1>12. IsPrefix(s, pay)
    BY <1>1, <1>5, <1>9, <1>11 DEF IsPrefix
  <1>13. ASSUME y + Len(pay) - 1 <= n
         PROVE  s = pay /\ Len(pay) = last + 1 - y /\ last = y + Len(pay) - 1
    <2>1. last = y + L - 1 /\ r = L
      BY <1>1, <1>3, <1>5, <1>13
    <2>2. s \in Seq(Byte) /\ pay \in Seq(Byte) /\ Len(s) = Len(pay)
          /\ \A k \in 1 .. Len(s) : s[k] = pay[k]
      BY <1>1, <1>9, <2>1 DEF Bytes
    <2>3. s = pay
      BY <2>2, SeqEqual
    <2>4. QED
      BY <1>1, <1>5, <2>1, <2>3
  <1>14. QED
    BY <1>0, <1>4, <1>6, <1>10, <1>12, <1>13 DEF SliceOf

(* What is read as the value of a field is the item's, or, behind the      *)
(* bytes, a part of it.                                                    *)
LEMMA ValueThere ==
    ASSUME TypeInv, Running, TagRead.ok, Known, Prefix.ok,
           NEW t \in SentBy(Top.type), NEW item, NEW l \in Nat \ {0},
           Follows(Top.type, Top.m, item, t),
           ItemAt(Top.type, item, buf, Top.i, Top.last, l)
    PROVE  /\ item.num = Num /\ Num \in DOMAIN Fields[Top.type]
           /\ KindOf = "int32" => /\ item.value \in Int32Range /\ ~Over(l)
                                  /\ Prefix = Got(Int32Word(item.value), Top.i + l)
           /\ KindOf # "int32" => /\ End = Top.i + l
                                  /\ Carries(buf, Prefix.i, SliceLast, Payload(KindOf, item.value))
                                  /\ IsPrefix(Slice, Payload(KindOf, item.value))
                                  /\ ~Over(l) => /\ Slice = Payload(KindOf, item.value)
                                                 /\ Len(Slice) = SliceLast + 1 - Prefix.i
                                                 /\ SliceLast = End - 1
  <1>1. ~Stuck
    BY DEF Stuck
  <1>2. PICK type, m, num : type = Top.type /\ m = Top.m /\ num = item.num
    OBVIOUS
  <1>3. /\ type \in Message /\ Top.i \in Nat \ {0} /\ Top.last \in Nat
        /\ Top.last <= Len(buf) /\ buf \in Bytes
    BY <1>2, TopTyped DEF Running, Bytes
  <1>4. CASE type = "Envelope" /\ item.num = 0 /\ SkippedAt(buf, Top.i, Top.last, l)
    BY <1>1, <1>2, <1>4, SkippedThere
  <1>5. CASE /\ num \in DOMAIN Fields[type] /\ Fields[type][num] = "int32"
             /\ NumberAt(buf, Top.i, Top.last, num, item.value, l)
    <2>1. /\ TagRead.ok /\ Known /\ Num = num /\ KindOf = "int32"
          /\ Prefix = Got(Int32Word(item.value), Top.i + l) /\ ~Over(l)
      BY <1>1, <1>2, <1>5, NumberThere
    <2>2. item.value \in Int32Range
      BY <1>2, <1>3, <1>5, ItemTyped
    <2>3. QED
      BY <1>2, <1>5, <2>1, <2>2
  <1>6. CASE /\ num \in DOMAIN Fields[type] /\ Fields[type][num] # "int32"
             /\ DelimitedAt(buf, Top.i, Top.last, num, Payload(Fields[type][num], item.value), l)
    <2>1. PICK pay : pay = Payload(Fields[type][num], item.value)
      OBVIOUS
    <2>2. pay \in Bytes
      BY <1>2, <1>3, <1>6, <2>1, ItemTyped
    <2>3. DelimitedAt(buf, Top.i, Top.last, num, pay, l)
      BY <1>6, <2>1
    <2>4. /\ Num = num /\ KindOf = Fields[Top.type][num]
          /\ \E y \in Nat \ {0} :
                    /\ Prefix = Got(Len(pay), y)
                    /\ y + Len(pay) = Top.i + l /\ y <= Top.last + 1
                    /\ \A k \in 1 .. Len(pay) : y + k - 1 <= Top.last => buf[y + k - 1] = pay[k]
      BY <1>1, <1>2, <1>6, <2>2, <2>3, DelimitedThere
    <2>5. PICK y \in Nat \ {0} :
                    /\ Prefix = Got(Len(pay), y)
                    /\ y + Len(pay) = Top.i + l /\ y <= Top.last + 1
                    /\ \A k \in 1 .. Len(pay) : y + k - 1 <= Top.last => buf[y + k - 1] = pay[k]
      BY <2>4
    <2>6. Prefix.i = y /\ Prefix.v = Len(pay)
      BY <2>5 DEF Got
    <2>7. Len(pay) \in Nat
      BY <2>2, LenProperties DEF Bytes
    <2>8. End = y + Len(pay) /\ End = Top.i + l
      BY <2>5, <2>6 DEF End
    <2>9. SliceLast = Min({y + Len(pay) - 1, Top.last})
      BY <2>8 DEF SliceLast
    <2>10. PICK b \in Bytes, n \in Nat : b = buf /\ n = Top.last
      BY <1>3
    <2>11. /\ n <= Len(b) /\ y <= n + 1
           /\ \A k \in 1 .. Len(pay) : y + k - 1 <= n => b[y + k - 1] = pay[k]
      BY <1>3, <2>5, <2>10
    <2>12. PICK last \in Nat : SliceOf(b, y, n, pay, last)
      BY <2>2, <2>11, SliceIs
    <2>13. Slice = SubSeq(b, y, last) /\ last = SliceLast
      <3>1. last = Min({y + Len(pay) - 1, n})
        BY <2>12 DEF SliceOf
      <3>2. last = SliceLast
        BY <2>9, <2>10, <3>1
      <3>3. QED
        BY <2>6, <2>10, <3>2 DEF Slice
    <2>14. ASSUME ~Over(l)
           PROVE  Slice = pay /\ Len(pay) = SliceLast + 1 - Prefix.i /\ SliceLast = End - 1
      <3>1. y + Len(pay) - 1 <= n
        BY <1>3, <2>5, <2>7, <2>10, <2>14 DEF Over
      <3>2. SubSeq(b, y, last) = pay /\ Len(pay) = last + 1 - y /\ last = y + Len(pay) - 1
        BY <2>12, <3>1 DEF SliceOf
      <3>3. QED
        BY <2>6, <2>8, <2>13, <3>2
    <2>15. KindOf = Fields[type][num] /\ Num \in DOMAIN Fields[Top.type] /\ item.num = Num
      BY <1>2, <1>6, <2>4
    <2>16. Carries(buf, Prefix.i, SliceLast, pay) /\ IsPrefix(Slice, pay)
      BY <2>6, <2>10, <2>12, <2>13 DEF SliceOf
    <2>17. pay = Payload(KindOf, item.value) /\ KindOf # "int32"
      BY <1>6, <2>1, <2>15
    <2>18. QED
      BY <2>8, <2>14, <2>15, <2>16, <2>17
  <1>7. QED
    BY <1>2, <1>4, <1>5, <1>6 DEF ItemAt

-------------------------------------------------------------------------------
(* The decoders follow the message that was sent.                          *)
SentInv ==
    how \in {"whole", "extended", "cut"} =>
        /\ outcome = "none" => Following(frames, buf, sent, how # "cut")
        /\ outcome = "ValueError" => how = "cut"
        /\ outcome = "ok" => Part("Envelope", Top.m, sent) /\ (how # "cut" => Top.m = sent)

Here(ts, full) ==
    /\ ts[1] = sent /\ full[1] = (how # "cut") /\ Chain(frames, buf, ts, full)
    /\ ts[Len(frames)] \in SentBy(Top.type) /\ full[Len(frames)] \in BOOLEAN

ItemHere(t, full, item, l) ==
    /\ l \in Nat \ {0} /\ Begun(Top.type, Top.m, t) /\ Follows(Top.type, Top.m, item, t)
    /\ ToRead(Top.type, t, After(Top.type, Top.m, item), buf, Top.i + l, Top.last, full)
    /\ full => ~Over(l)
    /\ ItemAt(Top.type, item, buf, Top.i, Top.last, l)

LEMMA FollowingHere ==
    ASSUME TypeInv, SentInv, how \in {"whole", "extended", "cut"}, outcome = "none"
    PROVE  \E ts, full : /\ Here(ts, full)
                         /\ Reading(Top, ts[Len(frames)], buf, full[Len(frames)])
  <1>1. Following(frames, buf, sent, how # "cut")
    BY DEF SentInv
  <1>2. PICK ts, full :
       /\ ts[1] = sent /\ full[1] = (how # "cut") /\ Chain(frames, buf, ts, full)
       /\ Reading(frames[Len(frames)], ts[Len(frames)], buf, full[Len(frames)])
    BY <1>1 DEF Following
  <1>3. Top = frames[Len(frames)] /\ Len(frames) \in 1 .. 3
    BY TopTyped
  <1>4. PICK n \in 1 .. 3 : n = Len(frames)
    BY <1>3
  <1>5. n \in 1 .. n
    OBVIOUS
  <1>6. ts[n] \in SentBy(frames[n].type) /\ full[n] \in BOOLEAN
    BY <1>2, <1>4, <1>5 DEF Chain
  <1>7. Here(ts, full)
    BY <1>2, <1>3, <1>4, <1>6 DEF Here
  <1>8. QED
    BY <1>2, <1>3, <1>7

LEMMA ItemThere ==
    ASSUME TypeInv, SentInv, how \in {"whole", "extended", "cut"}, Running
    PROVE  \E ts, full, item, l :
              Here(ts, full) /\ ItemHere(ts[Len(frames)], full[Len(frames)], item, l)
  <1>1. PICK ts, full : /\ Here(ts, full)
                        /\ Reading(Top, ts[Len(frames)], buf, full[Len(frames)])
    BY FollowingHere DEF Running
  <1>2. PICK t, whole : t = ts[Len(frames)] /\ whole = full[Len(frames)]
    OBVIOUS
  <1>3. PICK type, m, b, i, n :
           type = Top.type /\ m = Top.m /\ b = buf /\ i = Top.i /\ n = Top.last
    OBVIOUS
  <1>4. /\ type \in Message /\ i \in Nat \ {0} /\ n \in Nat /\ n <= Len(b) /\ b \in Bytes /\ i <= n
    BY <1>3, TopTyped DEF Running, Bytes
  <1>5. t \in SentBy(type) /\ whole \in BOOLEAN
    BY <1>1, <1>2, <1>3 DEF Here
  <1>6. ToRead(type, t, m, b, i, n, whole)
    <2>1. Reading(Top, t, b, whole)
      BY <1>1, <1>2, <1>3
    <2>2. ~(Top.i > Top.last)
      BY <1>3, <1>4
    <2>3. QED
      BY <1>3, <2>1, <2>2 DEF Reading
  <1>7. PICK item, l :
              /\ l \in Nat \ {0} /\ Begun(type, m, t) /\ Follows(type, m, item, t)
              /\ ToRead(type, t, After(type, m, item), b, i + l, n, whole)
              /\ whole => i + l - 1 <= n
              /\ ItemAt(type, item, b, i, n, l)
    BY <1>4, <1>5, <1>6, ItemAhead
  <1>8. whole => ~Over(l)
    BY <1>3, <1>4, <1>7 DEF Over
  <1>9. ItemHere(t, whole, item, l)
    BY <1>3, <1>7, <1>8 DEF ItemHere
  <1>10. QED
    BY <1>1, <1>2, <1>9

-------------------------------------------------------------------------------
(* Each step of the decoders follows the message.                          *)
Replaced(fs, n, to, b, ts, full) ==
    \E gs \in Seq(AFrame \union {to}) :
       /\ gs = [fs EXCEPT ![n] = to] /\ Len(gs) = n /\ gs[n] = to
       /\ Chain(gs, b, ts, full)

LEMMA TopReplaced ==
    ASSUME NEW fs \in Seq(AFrame), NEW n \in 1 .. 3, Len(fs) = n, NEW b, NEW ts, NEW full,
           Chain(fs, b, ts, full),
           NEW to, to.num = fs[n].num, to.type = fs[n].type
    PROVE  Replaced(fs, n, to, b, ts, full)
  <1>1. PICK gs : gs = [fs EXCEPT ![n] = to]
    OBVIOUS
  <1>2. gs \in Seq(AFrame \union {to}) /\ Len(gs) = n
        /\ \A j \in 1 .. n : gs[j] = IF j = n THEN to ELSE fs[j]
    <2>1. PICK S : S = AFrame \union {to}
      OBVIOUS
    <2>2. fs \in Seq(S) /\ to \in S
      BY <2>1, SeqMonotonic
    <2>3. n \in 1 .. Len(fs)
      OBVIOUS
    <2>4. /\ [fs EXCEPT ![n] = to] \in Seq(S)
          /\ Len([fs EXCEPT ![n] = to]) = Len(fs)
          /\ \A j \in 1 .. Len(fs) : [fs EXCEPT ![n] = to][j] = IF j = n THEN to ELSE fs[j]
      BY <2>2, <2>3, ExceptSeq
    <2>5. QED
      BY <1>1, <2>1, <2>4
  <1>3. gs[n] = to /\ \A j \in 1 .. n - 1 : gs[j] = fs[j]
    <2>1. \A j \in 1 .. n - 1 : j \in 1 .. n /\ j # n
      OBVIOUS
    <2>2. QED
      BY <1>2, <2>1
  <1>4. Len(fs) \in Nat /\ n \in 1 .. Len(fs) /\ gs[n].num = fs[n].num /\ gs[n].type = fs[n].type
    BY <1>3
  <1>5. Chain(gs, b, ts, full)
    BY <1>2, <1>3, <1>4, ChainTo
  <1>6. QED
    BY <1>1, <1>2, <1>3, <1>5 DEF Replaced

LEMMA TopRead ==
    ASSUME NEW fs \in Seq(AFrame), NEW n \in 1 .. 3, Len(fs) = n, NEW b, NEW ts, NEW full,
           Chain(fs, b, ts, full),
           NEW to, to.num = fs[n].num, to.type = fs[n].type,
           Reading(to, ts[n], b, full[n])
    PROVE  Following([fs EXCEPT ![n] = to], b, ts[1], full[1])
  <1>1. Replaced(fs, n, to, b, ts, full)
    BY TopReplaced
  <1>2. PICK gs : /\ gs = [fs EXCEPT ![n] = to] /\ Len(gs) = n /\ gs[n] = to
                  /\ Chain(gs, b, ts, full)
    BY <1>1 DEF Replaced
  <1>3. Reading(gs[Len(gs)], ts[Len(gs)], b, full[Len(gs)])
    BY <1>2
  <1>4. Following(gs, b, ts[1], full[1])
    BY <1>2, <1>3 DEF Following
  <1>5. QED
    BY <1>2, <1>4

LEMMA TopFollows ==
    ASSUME TypeInv, how \in {"whole", "extended", "cut"}, outcome = "none",
           NEW ts, NEW full, Here(ts, full), NEW to, to.num = Top.num, to.type = Top.type,
           Reading(to, ts[Len(frames)], buf, full[Len(frames)]),
           frames' = OnTop(to), UNCHANGED <<sent, how, buf, outcome>>
    PROVE  SentInv'
  <1>1. PICK fs, n, b : fs = frames /\ n = Len(frames) /\ b = buf
    OBVIOUS
  <1>2. fs \in Seq(AFrame) /\ n \in 1 .. 3 /\ Top = fs[n]
    BY <1>1, TopTyped
  <1>3. Chain(fs, b, ts, full) /\ Reading(to, ts[n], b, full[n])
    BY <1>1 DEF Here
  <1>4. Following([fs EXCEPT ![n] = to], b, ts[1], full[1])
    BY <1>1, <1>2, <1>3, TopRead
  <1>5. PICK gs : gs = [fs EXCEPT ![n] = to]
    OBVIOUS
  <1>6. frames' = gs /\ buf' = b /\ sent' = ts[1] /\ (how' # "cut") = full[1]
    BY <1>1, <1>5 DEF OnTop, Here
  <1>7. Following(gs, b, ts[1], full[1])
    BY <1>4, <1>5
  <1>8. PICK e, w : e = ts[1] /\ w = full[1]
    OBVIOUS
  <1>9. Following(frames', buf', sent', (how' # "cut"))
    BY <1>6, <1>7
  <1>10. outcome' = "none"
    OBVIOUS
  <1>11. QED
    BY <1>9, <1>10 DEF SentInv

(* What is read of an item.                                                *)
GivenOrCut(v, value, l) ==
    v = value \/ (KindOf # "int32" /\ Over(l) /\ Cut(KindOf, v, value))

LEMMA TakeFollows ==
    ASSUME TypeInv, how \in {"whole", "extended", "cut"}, outcome = "none",
           NEW ts, NEW full, Here(ts, full), NEW item, NEW l,
           ItemHere(ts[Len(frames)], full[Len(frames)], item, l),
           item.num = Num, Num \in DOMAIN Fields[Top.type],
           NEW v, GivenOrCut(v, item.value, l), Take(Adds(KindOf, Top.m[Num], v), Top.i + l)
    PROVE  SentInv'
  <1>0. PICK value : value = Adds(KindOf, Top.m[Num], v)
    OBVIOUS
  <1>1. PICK t, whole, fr, num, kind, b : /\ t = ts[Len(frames)] /\ whole = full[Len(frames)]
                                          /\ fr = Top /\ num = Num /\ kind = KindOf /\ b = buf
    OBVIOUS
  <1>2. fr \in AFrame /\ fr.type \in Message /\ fr.m \in HeldBy(fr.type)
        /\ fr.i \in Nat /\ fr.last \in Nat
    BY <1>1, TopTyped
  <1>3. PICK to : to = [fr EXCEPT !.m[num] = value, !.i = fr.i + l]
    OBVIOUS
  <1>4. /\ to.m = [fr.m EXCEPT ![num] = value] /\ to.i = fr.i + l
        /\ to.type = fr.type /\ to.num = fr.num /\ to.last = fr.last
    BY <1>2, <1>3 DEF AFrame
  <1>5. /\ l \in Nat \ {0} /\ Begun(fr.type, fr.m, t) /\ Follows(fr.type, fr.m, item, t)
        /\ ToRead(fr.type, t, After(fr.type, fr.m, item), b, fr.i + l, fr.last, whole)
        /\ whole => ~(fr.i + l - 1 > fr.last)
    BY <1>1 DEF ItemHere, Over
  <1>6. /\ num = item.num /\ num \in DOMAIN Fields[fr.type] /\ kind = Fields[fr.type][num]
        /\ value = Adds(kind, fr.m[num], v) /\ num # 0
    <2>1. num = item.num /\ num \in DOMAIN Fields[fr.type] /\ kind = Fields[fr.type][num]
          /\ value = Adds(kind, fr.m[num], v)
      BY <1>0, <1>1 DEF KindOf
    <2>2. num # 0
      BY <1>2, <2>1, KindsAre
    <2>3. QED
      BY <2>1, <2>2
  <1>7. Reading(to, t, b, whole)
    <2>1. CASE v = item.value
      <3>1. to.m = After(fr.type, fr.m, item)
        BY <1>4, <1>6, <2>1 DEF After
      <3>2. ToRead(to.type, t, to.m, b, to.i, to.last, whole)
        BY <1>4, <1>5, <3>1
      <3>3. QED
        BY <3>2 DEF Reading
    <2>2. CASE kind # "int32" /\ Over(l) /\ Cut(kind, v, item.value)
      <3>1. fr.i + l - 1 > fr.last
        BY <1>1, <2>2 DEF Over
      <3>2. t \in SentBy(fr.type)
        BY <1>1 DEF Here
      <3>3. Part(fr.type, [fr.m EXCEPT ![num] = Adds(kind, fr.m[num], v)], t)
        <4>1. PICK type, m : type = fr.type /\ m = fr.m
          OBVIOUS
        <4>2. /\ type \in Message /\ t \in SentBy(type) /\ Begun(type, m, t)
              /\ Follows(type, m, item, t) /\ item.num \in DOMAIN Fields[type]
              /\ Fields[type][item.num] # "int32" /\ Cut(Fields[type][item.num], v, item.value)
          BY <1>2, <1>5, <1>6, <2>2, <3>2, <4>1
        <4>3. Part(type, [m EXCEPT ![item.num] =
                             Adds(Fields[type][item.num], m[item.num], v)], t)
          BY <4>2, CutIsPart
        <4>4. QED
          BY <1>6, <4>1, <4>3
      <3>4. Part(to.type, to.m, t)
        BY <1>4, <1>6, <3>3
      <3>5. to.i > to.last
        BY <1>2, <1>4, <1>5, <3>1
      <3>6. ~whole
        BY <1>5, <3>1
      <3>7. QED
        BY <3>4, <3>5, <3>6 DEF Reading
    <2>3. QED
      BY <1>1, <2>1, <2>2 DEF GivenOrCut
  <1>8. /\ to.num = Top.num /\ to.type = Top.type
        /\ Reading(to, ts[Len(frames)], buf, full[Len(frames)])
    BY <1>1, <1>4, <1>7
  <1>9. frames' = OnTop(to) /\ UNCHANGED <<sent, how, buf, outcome>>
    BY <1>0, <1>1, <1>3 DEF Take, OnTop
  <1>10. QED
    BY <1>8, <1>9, TopFollows

LEMMA ReadFollows ==
    ASSUME TypeInv, SentInv, how \in {"whole", "extended", "cut"},
           ReadInt32 \/ ReadString \/ ReadElement
    PROVE  SentInv'
  <1>1. /\ Running /\ TagRead.ok /\ Known /\ Prefix.ok
        /\ KindOf \in {"int32", "string", "bytes", "strings"}
    BY DEF ReadInt32, ReadString, ReadElement, Reads
  <1>2. PICK ts, full, item, l :
              Here(ts, full) /\ ItemHere(ts[Len(frames)], full[Len(frames)], item, l)
    BY <1>1, ItemThere
  <1>3. PICK t, kind, pay : t = ts[Len(frames)] /\ kind = KindOf /\ pay = Payload(kind, item.value)
    OBVIOUS
  <1>4. t \in SentBy(Top.type) /\ l \in Nat \ {0} /\ Follows(Top.type, Top.m, item, t)
        /\ ItemAt(Top.type, item, buf, Top.i, Top.last, l)
    BY <1>2, <1>3 DEF Here, ItemHere
  <1>5. /\ item.num = Num /\ Num \in DOMAIN Fields[Top.type]
        /\ kind = "int32" => /\ item.value \in Int32Range /\ ~Over(l)
                             /\ Prefix = Got(Int32Word(item.value), Top.i + l)
        /\ kind # "int32" => /\ End = Top.i + l /\ IsPrefix(Slice, pay)
                             /\ ~Over(l) => Slice = pay
    BY <1>1, <1>3, <1>4, ValueThere
  <1>6. kind # "int32" => kind \notin Message /\ pay = item.value
    BY <1>1, <1>3, MessageIs DEF Payload
  <1>7. outcome = "none"
    BY <1>1 DEF Running
  <1>8. CASE ReadInt32
    <2>1. kind = "int32" /\ Take(DecInt32(Prefix.v), Prefix.i)
      BY <1>3, <1>8 DEF ReadInt32, Reads
    <2>2. Prefix.v = Int32Word(item.value) /\ Prefix.i = Top.i + l
      BY <1>5, <2>1 DEF Got
    <2>3. DecInt32(Prefix.v) = item.value
      BY <1>5, <2>1, <2>2, Int32Back
    <2>4. PICK v : v = item.value
      OBVIOUS
    <2>5. GivenOrCut(v, item.value, l)
      BY <2>4 DEF GivenOrCut
    <2>6. Take(Adds(KindOf, Top.m[Num], v), Top.i + l)
      <3>1. Adds(KindOf, Top.m[Num], v) = v
        BY <1>3, <2>1 DEF Adds, Scalar
      <3>2. QED
        BY <2>1, <2>2, <2>3, <2>4, <3>1
    <2>7. QED
      BY <1>2, <1>5, <1>7, <2>4, <2>5, <2>6, TakeFollows
  <1>9. CASE ReadString
    <2>1. kind \in {"string", "bytes"} /\ Take(Slice, End)
      BY <1>3, <1>9 DEF ReadString, Reads
    <2>2. PICK v : v = Slice
      OBVIOUS
    <2>3. kind # "int32"
      BY <2>1
    <2>4. GivenOrCut(v, item.value, l)
      BY <1>3, <1>5, <1>6, <2>2, <2>3 DEF Cut, GivenOrCut
    <2>5. Adds(KindOf, Top.m[Num], v) = v
      BY <1>3, <2>1 DEF Adds, Scalar
    <2>6. Take(Adds(KindOf, Top.m[Num], v), Top.i + l)
      BY <1>5, <2>1, <2>2, <2>3, <2>5
    <2>7. QED
      BY <1>2, <1>5, <1>7, <2>4, <2>5, <2>6, TakeFollows
  <1>10. CASE ReadElement
    <2>1. kind = "strings" /\ Take(Append(Top.m[Num], Slice), End)
      BY <1>3, <1>10 DEF ReadElement, Reads
    <2>2. PICK v : v = Slice
      OBVIOUS
    <2>3. kind # "int32"
      BY <2>1
    <2>4. GivenOrCut(v, item.value, l)
      BY <1>3, <1>5, <1>6, <2>2, <2>3 DEF Cut, GivenOrCut
    <2>5. Adds(KindOf, Top.m[Num], v) = Append(Top.m[Num], Slice)
      BY <1>3, <2>1, <2>2 DEF Adds, Scalar
    <2>6. Take(Adds(KindOf, Top.m[Num], v), Top.i + l)
      BY <1>5, <2>1, <2>3, <2>5
    <2>7. QED
      BY <1>2, <1>5, <1>7, <2>4, <2>5, <2>6, TakeFollows
  <1>11. QED
    BY <1>8, <1>9, <1>10

(* Where an item begins it is read or skipped, unless it does not end here. *)
LEMMA ReadOrStuck ==
    ASSUME TypeInv, Running, NEW t \in SentBy(Top.type), NEW item, NEW l \in Nat \ {0},
           Follows(Top.type, Top.m, item, t),
           ItemAt(Top.type, item, buf, Top.i, Top.last, l)
    PROVE  \/ Over(l) /\ Stuck
           \/ item.num = 0 /\ TagRead.ok /\ ~Known /\ SkipTo = Top.i + l
           \/ TagRead.ok /\ Known /\ Prefix.ok
  <1>1. Top.type \in Message
    BY TopTyped DEF Running
  <1>2. CASE Top.type = "Envelope" /\ item.num = 0 /\ SkippedAt(buf, Top.i, Top.last, l)
    BY <1>2, SkippedThere
  <1>3. CASE /\ item.num \in DOMAIN Fields[Top.type] /\ Fields[Top.type][item.num] = "int32"
             /\ NumberAt(buf, Top.i, Top.last, item.num, item.value, l)
    <2>1. PICK num, v : num = item.num /\ v = item.value
      OBVIOUS
    <2>2. \/ Over(l) /\ Stuck
          \/ /\ TagRead.ok /\ Known /\ Num = num /\ KindOf = "int32"
             /\ Prefix = Got(Int32Word(v), Top.i + l) /\ ~Over(l)
      BY <1>3, <2>1, NumberThere
    <2>3. QED
      BY <2>2 DEF Got
  <1>4. CASE /\ item.num \in DOMAIN Fields[Top.type] /\ Fields[Top.type][item.num] # "int32"
             /\ DelimitedAt(buf, Top.i, Top.last, item.num,
                            Payload(Fields[Top.type][item.num], item.value), l)
    <2>1. PICK num, pay : num = item.num /\ pay = Payload(Fields[Top.type][num], item.value)
      OBVIOUS
    <2>2. pay \in Bytes
      <3>1. PICK type \in Message, m \in {Top.m} : type = Top.type /\ m = Top.m
        BY <1>1
      <3>2. t \in SentBy(type) /\ Follows(type, m, item, t) /\ item.num \in DOMAIN Fields[type]
        BY <1>4, <3>1
      <3>3. Fields[type][item.num] # "int32" => Payload(Fields[type][item.num], item.value) \in Bytes
        BY <3>2, ItemTyped
      <3>4. QED
        BY <1>4, <2>1, <3>1, <3>3
    <2>3. \/ Over(l) /\ Stuck
          \/ /\ TagRead.ok /\ Known
             /\ \E y \in Nat \ {0} : Prefix = Got(Len(pay), y)
      BY <1>4, <2>1, <2>2, DelimitedThere
    <2>4. QED
      BY <2>3 DEF Got
  <1>5. QED
    BY <1>2, <1>3, <1>4 DEF ItemAt

LEMMA SkipFollows ==
    ASSUME TypeInv, SentInv, how \in {"whole", "extended", "cut"}, Skip
    PROVE  SentInv'
  <1>1. Running /\ TagRead.ok /\ ~Known /\ SkipTo # 0 /\ outcome = "none"
    BY DEF Skip, Running
  <1>2. PICK ts, full, item, l :
              Here(ts, full) /\ ItemHere(ts[Len(frames)], full[Len(frames)], item, l)
    BY <1>1, ItemThere
  <1>3. PICK t, whole, fr, b : /\ t = ts[Len(frames)] /\ whole = full[Len(frames)]
                               /\ fr = Top /\ b = buf
    OBVIOUS
  <1>4. t \in SentBy(Top.type) /\ l \in Nat \ {0} /\ Follows(Top.type, Top.m, item, t)
        /\ ItemAt(Top.type, item, buf, Top.i, Top.last, l)
    BY <1>2, <1>3 DEF Here, ItemHere
  <1>5. item.num = 0 /\ SkipTo = Top.i + l
    BY <1>1, <1>4, ReadOrStuck DEF Stuck
  <1>6. ToRead(fr.type, t, After(fr.type, fr.m, item), b, fr.i + l, fr.last, whole)
    BY <1>2, <1>3 DEF ItemHere
  <1>7. After(fr.type, fr.m, item) = fr.m
    BY <1>5 DEF After
  <1>8. PICK to : to = [fr EXCEPT !.i = fr.i + l]
    OBVIOUS
  <1>9. fr \in AFrame
    BY <1>1, <1>3, TopTyped DEF Running
  <1>10. to.m = fr.m /\ to.i = fr.i + l /\ to.type = fr.type /\ to.num = fr.num /\ to.last = fr.last
    BY <1>8, <1>9 DEF AFrame
  <1>11. Reading(to, t, b, whole)
    BY <1>6, <1>7, <1>10 DEF Reading
  <1>12. frames' = OnTop(to) /\ UNCHANGED <<sent, how, buf, outcome>>
    BY <1>3, <1>5, <1>8 DEF Skip, OnTop
  <1>13. /\ to.num = Top.num /\ to.type = Top.type
         /\ Reading(to, ts[Len(frames)], buf, full[Len(frames)])
    BY <1>3, <1>10, <1>11
  <1>14. QED
    BY <1>1, <1>2, <1>12, <1>13, TopFollows

(* Only what was cut is refused.                                           *)
LEMMA RefuseFollows ==
    ASSUME TypeInv, SentInv, how \in {"whole", "extended", "cut"}, Refuse
    PROVE  SentInv'
  <1>1. /\ Running /\ outcome' = "ValueError" /\ UNCHANGED <<sent, how, buf, frames>>
        /\ Stuck \/ (TagRead.ok /\ Known /\ Prefix.ok /\ ~Decodes)
    BY DEF Refuse, Stuck
  <1>2. PICK ts, full, item, l :
              Here(ts, full) /\ ItemHere(ts[Len(frames)], full[Len(frames)], item, l)
    BY <1>1, ItemThere
  <1>3. PICK t, whole : t = ts[Len(frames)] /\ whole = full[Len(frames)]
    OBVIOUS
  <1>4. t \in SentBy(Top.type) /\ l \in Nat \ {0} /\ Follows(Top.type, Top.m, item, t)
        /\ ItemAt(Top.type, item, buf, Top.i, Top.last, l) /\ (whole => ~Over(l))
    BY <1>2, <1>3 DEF Here, ItemHere
  <1>5. /\ Top.type \in Message /\ Top.i \in Nat \ {0}
    BY <1>1, TopTyped DEF Running
  <1>6. Over(l)
    <2>1. ASSUME ~Over(l), TagRead.ok, Known, Prefix.ok, ~Decodes PROVE FALSE
      <3>1. KindOf \in {"string", "strings"} /\ ~IsText(Slice)
        BY <2>1 DEF Decodes
      <3>2. /\ item.num = Num /\ Num \in DOMAIN Fields[Top.type]
            /\ Slice = Payload(KindOf, item.value)
        <4>1. /\ item.num = Num /\ Num \in DOMAIN Fields[Top.type]
              /\ KindOf # "int32" => (~Over(l) => Slice = Payload(KindOf, item.value))
          BY <1>1, <1>4, <2>1, ValueThere
        <4>2. QED
          BY <2>1, <3>1, <4>1
      <3>3. item.value \in String
        <4>1. PICK type \in Message, m \in {Top.m} : type = Top.type /\ m = Top.m
          BY <1>5
        <4>2. t \in SentBy(type) /\ Follows(type, m, item, t) /\ item.num \in DOMAIN Fields[type]
              /\ Fields[type][item.num] \in {"string", "strings"}
          BY <1>4, <3>1, <3>2, <4>1 DEF KindOf
        <4>3. QED
          BY <4>2, ItemTyped
      <3>4. Payload(KindOf, item.value) = item.value
        BY <3>1, MessageIs DEF Payload
      <3>5. QED
        BY <3>1, <3>2, <3>3, <3>4 DEF String
    <2>2. ASSUME Stuck PROVE Over(l)
      <3>1. SkipTo = Top.i + l => SkipTo # 0
        BY <1>5, <1>4
      <3>2. QED
        BY <1>1, <1>4, <2>2, <3>1, ReadOrStuck DEF Stuck
    <2>3. QED
      BY <1>1, <2>1, <2>2
  <1>7. ~full[1]
    <2>1. Chain(frames, buf, ts, full) /\ Len(frames) \in 1 .. 3
      BY <1>1, <1>2, TopTyped DEF Here, Running
    <2>2. ~full[Len(frames)]
      BY <1>3, <1>4, <1>6
    <2>3. QED
      BY <2>1, <2>2, CutBelow
  <1>8. how = "cut"
    BY <1>2, <1>7 DEF Here
  <1>9. QED
    BY <1>1, <1>8 DEF SentInv

LEMMA SubRead ==
    ASSUME NEW fs \in Seq(AFrame), NEW n \in 1 .. 3, Len(fs) = n, NEW b, NEW ts, NEW full,
           Chain(fs, b, ts, full),
           NEW to, to.num = fs[n].num, to.type = fs[n].type,
           NEW sub, NEW t \in SentBy(sub.type), NEW whole \in BOOLEAN,
           Pending(to, sub.num, ts[n], t, b, full[n], whole), Reading(sub, t, b, whole)
    PROVE  Following(Append([fs EXCEPT ![n] = to], sub), b, ts[1], full[1])
  <1>1. PICK S : S = AFrame \union {to, sub}
    OBVIOUS
  <1>2. PICK gs \in Seq(AFrame \union {to}) :
              /\ gs = [fs EXCEPT ![n] = to] /\ Len(gs) = n /\ gs[n] = to
              /\ Chain(gs, b, ts, full)
    <2>1. Replaced(fs, n, to, b, ts, full)
      BY TopReplaced
    <2>2. QED
      BY <2>1 DEF Replaced
  <1>3. gs \in Seq(S) /\ sub \in S
    <2>1. AFrame \union {to} \subseteq S
      BY <1>1
    <2>2. QED
      BY <1>1, <1>2, <2>1, SeqMonotonic
  <1>4. PICK hs : hs = Append(gs, sub)
    OBVIOUS
  <1>5. /\ Len(hs) = n + 1 /\ hs[n + 1] = sub /\ \A d \in 1 .. n : hs[d] = gs[d]
    BY <1>2, <1>3, <1>4, AppendProperties
  <1>6. Pending(gs[n], hs[n + 1].num, ts[n], t, b, full[n], whole) /\ t \in SentBy(hs[n + 1].type)
    BY <1>2, <1>5
  <1>7. \E us, cuts : /\ us[1] = ts[1] /\ cuts[1] = full[1]
                      /\ us[n + 1] = t /\ cuts[n + 1] = whole
                      /\ Chain(hs, b, us, cuts)
    <2>1. PICK k \in Nat \ {0} : k = n
      OBVIOUS
    <2>2. /\ Len(gs) = k /\ Chain(gs, b, ts, full) /\ Len(hs) = k + 1
          /\ \A d \in 1 .. k : hs[d] = gs[d]
          /\ t \in SentBy(hs[k + 1].type)
          /\ Pending(gs[k], hs[k + 1].num, ts[k], t, b, full[k], whole)
      BY <1>2, <1>5, <1>6, <2>1
    <2>3. Pushed(gs, k, hs, b, ts, full, t, whole)
      BY <2>2, ChainPush
    <2>4. QED
      BY <2>1, <2>3 DEF Pushed
  <1>8. PICK us, cuts : /\ us[1] = ts[1] /\ cuts[1] = full[1]
                        /\ us[n + 1] = t /\ cuts[n + 1] = whole
                        /\ Chain(hs, b, us, cuts)
    BY <1>7
  <1>9. Reading(hs[Len(hs)], us[Len(hs)], b, cuts[Len(hs)])
    BY <1>5, <1>8
  <1>10. Following(hs, b, ts[1], full[1])
    BY <1>8, <1>9 DEF Following
  <1>11. QED
    BY <1>2, <1>4, <1>10

LEMMA EnterFollows ==
    ASSUME TypeInv, SentInv, how \in {"whole", "extended", "cut"}, Enter
    PROVE  SentInv'
  <1>1. /\ Running /\ TagRead.ok /\ Known /\ Prefix.ok /\ KindOf \in Message
        /\ outcome = "none"
        /\ UNCHANGED <<sent, how, buf, outcome>>
    BY DEF Enter, Reads, Running
  <1>2. PICK ts, full, item, l :
              Here(ts, full) /\ ItemHere(ts[Len(frames)], full[Len(frames)], item, l)
    BY <1>1, ItemThere
  <1>3. PICK t, whole, fr, kind, value, b :
           /\ t = ts[Len(frames)] /\ whole = full[Len(frames)] /\ fr = Top /\ kind = KindOf
           /\ value = item.value /\ b = buf
    OBVIOUS
  <1>4. PICK pay : pay = Enc(kind, value) /\ pay = Payload(KindOf, item.value)
    BY <1>1, <1>3 DEF Payload
  <1>5. /\ t \in SentBy(fr.type) /\ whole \in BOOLEAN
        /\ l \in Nat \ {0} /\ Begun(fr.type, fr.m, t) /\ Follows(fr.type, fr.m, item, t)
        /\ ToRead(fr.type, t, After(fr.type, fr.m, item), b, fr.i + l, fr.last, whole)
        /\ ItemAt(fr.type, item, b, fr.i, fr.last, l) /\ (whole => ~Over(l))
    BY <1>2, <1>3 DEF Here, ItemHere
  <1>6. kind # "int32" /\ kind # "Envelope" /\ Num \in DOMAIN Fields[Top.type]
    <2>1. Num \in DOMAIN Fields[Top.type] /\ KindOf = Fields[Top.type][Num]
      BY <1>1 DEF Known, KindOf
    <2>2. Top.type \in Message
      BY <1>1, TopTyped DEF Running
    <2>3. kind \in Kinds /\ kind \in Message
      BY <1>1, <1>3, <2>1, <2>2, KindsAre
    <2>4. QED
      BY <2>1, <2>3, KindsAre, MessageIs
  <1>7. /\ item.num = Num /\ End = Top.i + l /\ Carries(b, Prefix.i, SliceLast, pay)
        /\ ~Over(l) => Len(pay) = SliceLast + 1 - Prefix.i
    <2>1. /\ t \in SentBy(Top.type) /\ Follows(Top.type, Top.m, item, t)
          /\ ItemAt(Top.type, item, buf, Top.i, Top.last, l)
      BY <1>3, <1>5
    <2>2. /\ item.num = Num
          /\ KindOf # "int32" => /\ End = Top.i + l
                                 /\ Carries(buf, Prefix.i, SliceLast, Payload(KindOf, item.value))
                                 /\ ~Over(l) => /\ Slice = Payload(KindOf, item.value)
                                                /\ Len(Slice) = SliceLast + 1 - Prefix.i
      BY <1>1, <1>5, <2>1, ValueThere
    <2>3. QED
      BY <1>3, <1>4, <1>6, <2>2
  <1>8. value \in SentBy(kind) /\ pay \in Bytes /\ Len(pay) < Word
    <2>1. PICK type \in Message, m \in {Top.m} : type = Top.type /\ m = Top.m
      BY <1>1, TopTyped DEF Running
    <2>2. t \in SentBy(type) /\ Follows(type, m, item, t) /\ item.num \in DOMAIN Fields[type]
          /\ kind = Fields[type][item.num]
      BY <1>3, <1>5, <1>6, <1>7, <2>1 DEF KindOf
    <2>3. /\ Fields[type][item.num] \in Message => item.value \in SentBy(Fields[type][item.num])
          /\ Fields[type][item.num] # "int32"
               => /\ Payload(Fields[type][item.num], item.value) \in Bytes
                  /\ Len(Payload(Fields[type][item.num], item.value)) < Word
      BY <2>2, ItemTyped
    <2>4. QED
      BY <1>1, <1>3, <1>4, <1>6, <2>2, <2>3
  <1>9. Ahead(kind, value, New(kind), pay)
    BY <1>1, <1>3, <1>4, <1>6, <1>8, InnerAhead
  <1>10. PICK cut \in BOOLEAN : cut = ~Over(l)
    OBVIOUS
  <1>11. PICK sub, to : sub = Frame(KindOf, Num, Prefix.i, SliceLast) /\ to = [fr EXCEPT !.i = End]
    OBVIOUS
  <1>12. /\ sub.type = kind /\ sub.num = Num /\ sub.i = Prefix.i /\ sub.last = SliceLast
         /\ sub.m = New(kind)
    BY <1>3, <1>11 DEF Frame
  <1>13. Reading(sub, value, b, cut)
    <2>1. ToRead(kind, value, New(kind), b, Prefix.i, SliceLast, cut)
      BY <1>7, <1>8, <1>9, <1>10 DEF ToRead
    <2>2. QED
      BY <1>12, <2>1 DEF Reading
  <1>14. fr \in AFrame /\ fr.i \in Nat /\ fr.last \in Nat
    BY <1>1, <1>3, TopTyped DEF Running
  <1>15. /\ to.type = fr.type /\ to.num = fr.num /\ to.m = fr.m /\ to.last = fr.last
         /\ to.i = fr.i + l
    BY <1>3, <1>7, <1>11, <1>14 DEF AFrame
  <1>16. Pending(to, sub.num, t, value, b, whole, cut)
    <2>1. item.num = sub.num /\ item.value = value /\ sub.num \in DOMAIN Fields[to.type]
      BY <1>3, <1>6, <1>7, <1>12, <1>15
    <2>2. Begun(to.type, to.m, t) /\ Follows(to.type, to.m, item, t)
      BY <1>5, <1>15
    <2>3. ToRead(to.type, t, After(to.type, to.m, item), b, to.i, to.last, whole)
      BY <1>5, <1>15
    <2>4. whole => cut
      BY <1>5, <1>10
    <2>5. ASSUME ~cut PROVE to.i > to.last
      <3>1. Over(l)
        BY <1>10, <2>5
      <3>2. fr.i + l - 1 > fr.last
        BY <1>3, <3>1 DEF Over
      <3>3. QED
        BY <1>5, <1>14, <1>15, <3>2
    <2>6. QED
      BY <2>1, <2>2, <2>3, <2>4, <2>5 DEF Pending
  <1>17. PICK fs, n : fs = frames /\ n = Len(frames)
    OBVIOUS
  <1>18. fs \in Seq(AFrame) /\ n \in 1 .. 3 /\ fr = fs[n]
    BY <1>1, <1>3, <1>17, TopTyped DEF Running
  <1>19. Chain(fs, b, ts, full) /\ Pending(to, sub.num, ts[n], value, b, full[n], cut)
    BY <1>2, <1>3, <1>16, <1>17 DEF Here
  <1>20. value \in SentBy(sub.type)
    BY <1>8, <1>12
  <1>21. to.num = fs[n].num /\ to.type = fs[n].type /\ Len(fs) = n
    BY <1>15, <1>17, <1>18
  <1>22. Following(Append([fs EXCEPT ![n] = to], sub), b, ts[1], full[1])
    BY <1>13, <1>18, <1>19, <1>20, <1>21, SubRead
  <1>23. PICK hs : hs = Append([fs EXCEPT ![n] = to], sub)
    OBVIOUS
  <1>24. frames' = hs
    BY <1>3, <1>11, <1>17, <1>23 DEF Enter, OnTop
  <1>25. buf' = b /\ sent' = ts[1] /\ (how' # "cut") = full[1] /\ outcome' = "none"
    BY <1>1, <1>2, <1>3 DEF Here
  <1>26. Following(hs, b, ts[1], full[1])
    BY <1>22, <1>23
  <1>27. Following(frames', buf', sent', (how' # "cut"))
    BY <1>24, <1>25, <1>26
  <1>28. QED
    BY <1>25, <1>27 DEF SentInv

(* An item has bytes.                                                      *)
LEMMA PieceHasBytes ==
    ASSUME NEW type \in Message, NEW t \in SentBy(type), NEW m,
           NEW item, Follows(type, m, item, t)
    PROVE  Piece(type, item) # <<>>
  <1>1. ASSUME NEW a \in Seq(Byte), NEW b \in Seq(Byte), a # <<>> PROVE a \o b # <<>>
    <2>1. Len(a \o b) = Len(a) + Len(b) /\ Len(a) \in Nat /\ Len(b) \in Nat /\ Len(a) # 0
      BY <1>1, ConcatProperties, LenProperties, EmptySeq
    <2>2. QED
      BY <2>1, EmptySeq
  <1>2. CASE item.num = 0
    <2>1. 0 \notin DOMAIN Fields[type]
      BY KindsAre
    <2>2. PICK u \in Unknown : u = item.value
      BY <1>2, <2>1 DEF Follows
    <2>3. u \in Seq(Byte) /\ DecVarint(u, 1, Len(u)).ok
      BY EnvelopeAssumption
    <2>4. ASSUME u = <<>> PROVE FALSE
      <3>1. Len(u) = 0 /\ Len(u) \in Nat /\ 1 \in Nat \ {0} /\ Len(u) <= Len(u) /\ 1 <= Len(u) + 1
        BY <2>3, <2>4, EmptySeq
      <3>2. \/ DecVarint(u, 1, Len(u)) = Bad
            \/ \E v \in Nat, i \in 1 + 1 .. Len(u) + 1 : DecVarint(u, 1, Len(u)) = Got(v, i)
        BY <2>3, <3>1, VarintTyped
      <3>3. 1 + 1 .. Len(u) + 1 = {}
        BY <3>1
      <3>4. DecVarint(u, 1, Len(u)) = Bad
        BY <3>2, <3>3
      <3>5. QED
        BY <2>3, <3>4 DEF Bad
    <2>5. QED
      BY <1>2, <2>2, <2>4 DEF Piece
  <1>3. CASE item.num # 0
    <2>1. item.num \in DOMAIN Fields[type]
      BY <1>3 DEF Follows
    <2>2. PICK num \in Nat : num = item.num /\ num \in DOMAIN Fields[type]
      <3>1. DOMAIN Fields[type] = 1 .. Len(Fields[type]) /\ Len(Fields[type]) \in Nat
        BY KindsAre
      <3>2. QED
        BY <2>1, <3>1
    <2>3. ASSUME NEW w \in {0, 2} PROVE Tag(num, w) \in Seq(Byte) /\ Tag(num, w) # <<>>
      <3>1. num * 8 + w \in Int
        BY <2>2
      <3>2. QED
        BY <3>1, EncVarintTyped DEF Tag
    <2>4. CASE Fields[type][num] = "int32"
      <3>1. PICK v \in Int32Range : v = item.value
        BY <2>1, <2>2, <2>4, ItemTyped
      <3>2. Int32Word(v) \in Int
        BY Int32Back
      <3>3. EncVarint[Int32Word(v)] \in Seq(Byte)
        BY <3>2, EncVarintTyped
      <3>4. Tag(num, 0) \o EncVarint[Int32Word(v)] # <<>>
        BY <1>1, <2>3, <3>3
      <3>5. QED
        BY <1>3, <2>2, <2>4, <3>1, <3>4 DEF Piece
    <2>5. CASE Fields[type][num] # "int32"
      <3>1. PICK pay \in Bytes : pay = Payload(Fields[type][num], item.value)
        <4>1. Fields[type][item.num] # "int32" => Payload(Fields[type][item.num], item.value) \in Bytes
          BY <2>1, ItemTyped
        <4>2. QED
          BY <2>2, <2>5, <4>1
      <3>2. EncVarint[Len(pay)] \in Seq(Byte) /\ pay \in Seq(Byte)
        BY <2>2, DelimitedTyped DEF Bytes
      <3>3. Tag(num, 2) \o EncVarint[Len(pay)] # <<>>
        BY <1>1, <2>3, <3>2
      <3>4. Tag(num, 2) \o EncVarint[Len(pay)] \in Seq(Byte)
        BY <2>3, <3>2, ConcatProperties
      <3>5. (Tag(num, 2) \o EncVarint[Len(pay)]) \o pay # <<>>
        BY <1>1, <3>2, <3>3, <3>4
      <3>6. Delimited(num, pay) # <<>>
        BY <3>5 DEF Delimited
      <3>7. QED
        BY <1>3, <2>2, <2>5, <3>1, <3>6 DEF Piece
    <2>6. QED
      BY <2>4, <2>5
  <1>4. QED
    BY <1>2, <1>3

(* A decoder that is through has a part of its message, or all of it.      *)
LEMMA ReadThrough ==
    ASSUME NEW fr, fr.type \in Message, NEW t \in SentBy(fr.type), NEW b, NEW full \in BOOLEAN,
           fr.i \in Nat, fr.last \in Nat, fr.i > fr.last, Reading(fr, t, b, full)
    PROVE  Part(fr.type, fr.m, t) /\ (full => fr.m = t)
  <1>1. CASE ~full /\ Part(fr.type, fr.m, t)
    BY <1>1
  <1>2. CASE ToRead(fr.type, t, fr.m, b, fr.i, fr.last, full)
    <2>1. PICK todo \in Bytes : /\ Ahead(fr.type, t, fr.m, todo)
                                /\ full => Len(todo) = fr.last + 1 - fr.i
      BY <1>2 DEF ToRead
    <2>2. PICK m : m = fr.m
      OBVIOUS
    <2>3. PICK type \in Message : type = fr.type
      OBVIOUS
    <2>4. Ahead(type, t, m, todo) /\ t \in SentBy(type)
      BY <2>1, <2>2, <2>3
    <2>5. Begun(type, m, t)
      BY <2>4, AheadStep
    <2>6. Part(type, m, t)
      BY <2>4, <2>5, BegunIsPart
    <2>7. ASSUME full PROVE m = t
      <3>1. todo = <<>>
        <4>1. Len(todo) \in Nat /\ Len(todo) <= 0
          BY <2>1, <2>7, LenProperties DEF Bytes
        <4>2. QED
          BY <4>1, EmptySeq DEF Bytes
      <3>2. ASSUME NEW item, NEW p \in Bytes, NEW more \in Bytes, Follows(type, m, item, t),
                   p = Piece(type, item), todo = p \o more
            PROVE  FALSE
        <4>1. p # <<>>
          BY <2>4, <3>2, PieceHasBytes
        <4>2. p \in Seq(Byte) /\ more \in Seq(Byte)
          BY DEF Bytes
        <4>3. Len(p \o more) = Len(p) + Len(more) /\ Len(p) \in Nat \ {0} /\ Len(more) \in Nat
          BY <4>1, <4>2, ConcatProperties, LenProperties, EmptySeq
        <4>4. Len(p \o more) = 0
          BY <3>1, <3>2, EmptySeq
        <4>5. QED
          BY <4>3, <4>4
      <3>3. \/ todo = <<>> /\ m = t
            \/ \E item, p, more :
                  /\ Follows(type, m, item, t)
                  /\ p = Piece(type, item) /\ p \in Bytes /\ more \in Bytes
                  /\ todo = p \o more
        BY <2>4, AheadStep
      <3>4. QED
        BY <3>2, <3>3
    <2>8. QED
      BY <2>2, <2>6, <2>7, <2>3
  <1>3. QED
    BY <1>1, <1>2 DEF Reading

(* The caller stores the message that was read, or a part of it.           *)
Stores(fr, num, kind, v, value, whole, to) ==
    /\ kind \in {"AppError", "FieldError", "Entry"} /\ kind = Fields[fr.type][num]
    /\ Part(kind, v, value) /\ (whole => v = value)
    /\ to.type = fr.type /\ to.i = fr.i /\ to.last = fr.last
    /\ to.m = [fr.m EXCEPT ![num] = Stored(kind, fr.m[num], v)]

LEMMA StoredReading ==
    ASSUME NEW fr, fr.type \in Message, NEW t \in SentBy(fr.type), NEW b,
           NEW num, NEW value, NEW full \in BOOLEAN, NEW whole \in BOOLEAN,
           Pending(fr, num, t, value, b, full, whole),
           NEW kind, NEW v, NEW to, Stores(fr, num, kind, v, value, whole, to)
    PROVE  Reading(to, t, b, full)
  <1>0. /\ kind \in {"AppError", "FieldError", "Entry"} /\ kind = Fields[fr.type][num]
        /\ Part(kind, v, value) /\ (whole => v = value)
        /\ to.type = fr.type /\ to.i = fr.i /\ to.last = fr.last
        /\ to.m = [fr.m EXCEPT ![num] = Stored(kind, fr.m[num], v)]
    BY DEF Stores
  <1>1. PICK item : /\ item.num = num /\ item.value = value
                    /\ num \in DOMAIN Fields[fr.type]
                    /\ Begun(fr.type, fr.m, t) /\ Follows(fr.type, fr.m, item, t)
                    /\ ToRead(fr.type, t, After(fr.type, fr.m, item), b, fr.i, fr.last, full)
                    /\ full => whole
                    /\ ~whole => fr.i > fr.last
    BY DEF Pending
  <1>2. PICK type \in Message, m \in {fr.m} : type = fr.type /\ m = fr.m
    OBVIOUS
  <1>3. num # 0 /\ num \in DOMAIN Fields[type] /\ kind = Fields[type][num] /\ kind \in Message
    BY <1>0, <1>1, <1>2, KindsAre, MessageIs
  <1>4. Adds(kind, m[num], v) = Stored(kind, m[num], v)
    BY <1>0 DEF Adds, Scalar
  <1>5. to.m = [m EXCEPT ![num] = Adds(kind, m[num], v)]
    BY <1>0, <1>2, <1>4
  <1>6. CASE v = value
    <2>1. to.m = After(type, m, item)
      BY <1>1, <1>3, <1>5, <1>6 DEF After
    <2>2. ToRead(to.type, t, to.m, b, to.i, to.last, full)
      BY <1>0, <1>1, <1>2, <2>1
    <2>3. QED
      BY <2>2 DEF Reading
  <1>7. CASE v # value
    <2>1. ~full /\ to.i > to.last
      BY <1>0, <1>1, <1>7
    <2>2. /\ t \in SentBy(type) /\ Begun(type, m, t) /\ Follows(type, m, item, t)
          /\ item.num \in DOMAIN Fields[type] /\ Fields[type][item.num] # "int32"
          /\ Cut(Fields[type][item.num], v, item.value)
      BY <1>0, <1>1, <1>2, <1>3 DEF Cut
    <2>3. Part(type, [m EXCEPT ![item.num] =
                         Adds(Fields[type][item.num], m[item.num], v)], t)
      BY <2>2, CutIsPart
    <2>4. Part(to.type, to.m, t)
      BY <1>0, <1>1, <1>2, <1>3, <1>5, <2>3
    <2>5. QED
      BY <2>1, <2>4 DEF Reading
  <1>8. QED
    BY <1>6, <1>7

(* The stack when the decoder on top of n others has returned.             *)
Returned(fs, n, to) == Append(SubSeq(fs, 1, n - 1), to)

Below(fs, n, to, gs) == Len(gs) = n /\ gs[n] = to /\ \A d \in 1 .. n - 1 : gs[d] = fs[d]

LEMMA StackReturned ==
    ASSUME NEW fs \in Seq(AFrame), NEW n \in 1 .. 2, Len(fs) = n + 1, NEW to
    PROVE  Below(fs, n, to, Returned(fs, n, to))
  <1>1. PICK l \in Int : l = n - 1 /\ l \in 0 .. 1
    OBVIOUS
  <1>2. PICK us : us = SubSeq(fs, 1, l)
    OBVIOUS
  <1>3. us \in Seq(AFrame) /\ Len(us) = l /\ \A j \in 1 .. l : us[j] = fs[j]
    <2>1. \A j \in 1 .. l : fs[j] \in AFrame
      <3>1. \A j \in 1 .. l : j \in 1 .. Len(fs)
        BY <1>1
      <3>2. QED
        BY <3>1, ElementOfSeq
    <2>2. /\ SubSeq(fs, 1, l) \in Seq(AFrame)
          /\ Len(SubSeq(fs, 1, l)) = IF 1 <= l THEN l - 1 + 1 ELSE 0
          /\ \A j \in 1 .. l - 1 + 1 : SubSeq(fs, 1, l)[j] = fs[1 + j - 1]
      BY <2>1, SubSeqProperties
    <2>3. l - 1 + 1 = l /\ \A j \in 1 .. l : 1 + j - 1 = j
      BY <1>1
    <2>4. QED
      BY <1>1, <1>2, <2>2, <2>3
  <1>4. PICK S : S = AFrame \union {to}
    OBVIOUS
  <1>5. us \in Seq(S) /\ to \in S
    BY <1>3, <1>4, SeqMonotonic
  <1>6. PICK vs : vs = Append(us, to)
    OBVIOUS
  <1>7. /\ Len(vs) = l + 1 /\ vs[l + 1] = to /\ \A j \in 1 .. l : vs[j] = us[j]
    BY <1>3, <1>5, <1>6, AppendProperties
  <1>8. Returned(fs, n, to) = vs
    BY <1>1, <1>2, <1>6 DEF Returned
  <1>9. QED
    BY <1>1, <1>3, <1>7, <1>8 DEF Below

LEMMA CallerReads ==
    ASSUME NEW fs \in Seq(AFrame), NEW n \in 1 .. 2, Len(fs) = n + 1, NEW b, NEW ts, NEW full,
           Chain(fs, b, ts, full),
           NEW to, to.num = fs[n].num, to.type = fs[n].type, Reading(to, ts[n], b, full[n])
    PROVE  Following(Returned(fs, n, to), b, ts[1], full[1])
  <1>1. PICK gs : gs = Returned(fs, n, to)
    OBVIOUS
  <1>2. Len(gs) = n /\ gs[n] = to /\ \A d \in 1 .. n - 1 : gs[d] = fs[d]
    <2>1. Below(fs, n, to, Returned(fs, n, to))
      BY StackReturned
    <2>2. QED
      BY <1>1, <2>1 DEF Below
  <1>3. /\ Len(fs) \in Nat /\ n \in 1 .. Len(fs)
        /\ gs[n].num = fs[n].num /\ gs[n].type = fs[n].type
    BY <1>2
  <1>4. Chain(gs, b, ts, full)
    <2>1. PICK k \in 1 .. Len(fs) : k = n
      BY <1>3
    <2>2. /\ Len(gs) = k /\ \A d \in 1 .. k - 1 : gs[d] = fs[d]
          /\ gs[k].num = fs[k].num /\ gs[k].type = fs[k].type /\ Len(fs) \in Nat
      BY <1>2, <1>3, <2>1
    <2>3. QED
      BY <2>2, ChainTo
  <1>5. Reading(gs[Len(gs)], ts[Len(gs)], b, full[Len(gs)])
    BY <1>2
  <1>6. Following(gs, b, ts[1], full[1])
    BY <1>4, <1>5 DEF Following
  <1>7. QED
    BY <1>1, <1>6

LEMMA ReturnFollows ==
    ASSUME TypeInv, SentInv, how \in {"whole", "extended", "cut"}, Return
    PROVE  SentInv'
  <1>1. /\ outcome = "none" /\ UNCHANGED <<sent, how, buf>> /\ Top.i > Top.last
        /\ how # "built" /\ StackOK(frames, buf)
    BY DEF Return, TypeInv
  <1>2. PICK ts, full : /\ Here(ts, full)
                        /\ Reading(Top, ts[Len(frames)], buf, full[Len(frames)])
    BY <1>1, FollowingHere
  <1>3. PICK fs, b, top : fs = frames /\ b = buf /\ top = Top
    OBVIOUS
  <1>4. /\ fs \in Seq(AFrame) /\ Len(fs) \in 1 .. 3 /\ top = fs[Len(fs)]
        /\ top \in AFrame /\ top.type \in Message /\ top.i \in Nat /\ top.last \in Nat
    BY <1>1, <1>3, TopTyped
  <1>5. /\ ts[1] = sent /\ full[1] = (how # "cut") /\ Chain(fs, b, ts, full)
        /\ ts[Len(fs)] \in SentBy(top.type) /\ full[Len(fs)] \in BOOLEAN
    BY <1>2, <1>3 DEF Here
  <1>6. Part(top.type, top.m, ts[Len(fs)]) /\ (full[Len(fs)] => top.m = ts[Len(fs)])
    <2>1. PICK t, whole : t = ts[Len(fs)] /\ whole = full[Len(fs)]
      OBVIOUS
    <2>2. t \in SentBy(top.type) /\ whole \in BOOLEAN /\ top.i > top.last
      BY <1>1, <1>3, <1>5, <2>1
    <2>3. Reading(top, t, b, whole)
      BY <1>2, <1>3, <2>1
    <2>4. Part(top.type, top.m, t) /\ (whole => top.m = t)
      BY <1>4, <2>2, <2>3, ReadThrough
    <2>5. QED
      BY <2>1, <2>4
  <1>7. CASE Len(fs) = 1
    <2>1. outcome' = "ok" /\ UNCHANGED frames
      BY <1>3, <1>7 DEF Return
    <2>2. top.type = "Envelope"
      <3>1. 1 \in 1 .. Len(fs)
        BY <1>7
      <3>2. fs[1].type \in AtDepth[1]
        BY <1>1, <1>3, <3>1 DEF StackOK
      <3>3. QED
        BY <1>4, <1>7, <3>2 DEF AtDepth
    <2>3. Part("Envelope", Top.m, sent) /\ (how # "cut" => Top.m = sent)
      BY <1>3, <1>5, <1>6, <1>7, <2>2
    <2>4. Top' = Top
      BY <2>1 DEF Top
    <2>5. QED
      BY <1>1, <2>1, <2>3, <2>4 DEF SentInv
  <1>8. CASE Len(fs) # 1
    <2>1. PICK n \in 1 .. 2 : /\ Len(fs) = n + 1 /\ n = Len(fs) - 1 /\ n - 1 = Len(fs) - 2
      BY <1>4, <1>8
    <2>2. PICK fr, sub : fr = fs[n] /\ sub = fs[n + 1] /\ sub = top
      BY <1>4, <2>1
    <2>3. /\ fr \in AFrame /\ fr.type \in Message
          /\ sub.num \in DOMAIN Fields[fr.type] /\ Fields[fr.type][sub.num] = sub.type
          /\ sub.type \in {"AppError", "FieldError", "Entry"}
      <3>1. fs \in Seq(AFrame) /\ n \in 1 .. Len(fs) /\ n + 1 \in 2 .. Len(fs) /\ (n + 1) - 1 = n
            /\ n + 1 \in 1 .. Len(fs)
        BY <1>4, <2>1
      <3>2. fr \in AFrame
        BY <2>2, <3>1, ElementOfSeq
      <3>3. Calls(fs[(n + 1) - 1], fs[n + 1])
        BY <1>1, <1>3, <3>1 DEF StackOK
      <3>4. sub.type \in AtDepth[n + 1]
        BY <1>1, <1>3, <2>2, <3>1 DEF StackOK
      <3>5. sub.type \in {"AppError", "FieldError", "Entry"}
        BY <3>4 DEF AtDepth
      <3>6. Calls(fr, sub)
        BY <2>2, <3>1, <3>3
      <3>7. QED
        BY <3>2, <3>5, <3>6 DEF Calls, AFrame
    <2>4. PICK stored : stored = Stored(sub.type, fr.m[sub.num], sub.m)
      OBVIOUS
    <2>5. PICK to : to = [fr EXCEPT !.m[sub.num] = stored]
      OBVIOUS
    <2>6. /\ to.type = fr.type /\ to.num = fr.num /\ to.i = fr.i /\ to.last = fr.last
          /\ to.m = [fr.m EXCEPT ![sub.num] = stored]
      BY <2>3, <2>5 DEF AFrame
    <2>7. Reading(to, ts[n], b, full[n])
      <3>1. n \in 1 .. Len(fs) - 1 /\ n \in 1 .. Len(fs)
        BY <2>1
      <3>2. PICK t, whole : t = ts[n] /\ whole = full[n]
        OBVIOUS
      <3>3. PICK value, cut : value = ts[n + 1] /\ cut = full[n + 1]
        OBVIOUS
      <3>4. t \in SentBy(fr.type) /\ whole \in BOOLEAN
        BY <1>5, <2>2, <3>1, <3>2 DEF Chain
      <3>5. Pending(fr, sub.num, t, value, b, whole, cut)
        <4>1. Pending(fs[n], fs[n + 1].num, ts[n], ts[n + 1], b, full[n], full[n + 1])
          BY <1>5, <3>1 DEF Chain
        <4>2. QED
          BY <2>2, <3>2, <3>3, <4>1
      <3>6. Part(sub.type, sub.m, value) /\ (cut => sub.m = value) /\ cut \in BOOLEAN
        BY <1>5, <1>6, <2>1, <2>2, <3>3
      <3>7. PICK kind \in {"AppError", "FieldError", "Entry"}, num \in {sub.num}, v \in {sub.m} :
               kind = sub.type /\ num = sub.num /\ v = sub.m
        BY <2>3
      <3>8. Pending(fr, num, t, value, b, whole, cut) /\ Stores(fr, num, kind, v, value, cut, to)
        BY <2>3, <2>4, <2>6, <3>5, <3>6, <3>7 DEF Stores
      <3>9. Reading(to, t, b, whole)
        BY <2>3, <3>4, <3>6, <3>8, StoredReading
      <3>10. QED
        BY <3>2, <3>9
    <2>8. Following(Returned(fs, n, to), b, ts[1], full[1])
      <3>1. to.num = fs[n].num /\ to.type = fs[n].type
        BY <2>2, <2>6
      <3>2. QED
        BY <1>4, <1>5, <2>1, <2>7, <3>1, CallerReads
    <2>9. frames' = Returned(fs, n, to) /\ outcome' = "none"
      <3>1. /\ frames' = Append(SubSeq(frames, 1, Len(frames) - 2),
                                [frames[Len(frames) - 1] EXCEPT !.m[Top.num] =
                                   Stored(Top.type, frames[Len(frames) - 1].m[Top.num], Top.m)])
            /\ UNCHANGED outcome
        BY <1>3, <1>8 DEF Return, Stored
      <3>2. QED
        BY <1>1, <1>3, <2>1, <2>2, <2>4, <2>5, <3>1 DEF Returned
    <2>10. PICK gs : gs = Returned(fs, n, to)
      OBVIOUS
    <2>11. Following(gs, b, ts[1], full[1]) /\ frames' = gs
      BY <2>8, <2>9, <2>10
    <2>12. buf' = b /\ sent' = ts[1] /\ (how' # "cut") = full[1]
      BY <1>1, <1>3, <1>5
    <2>13. Following(frames', buf', sent', (how' # "cut"))
      BY <2>11, <2>12
    <2>14. QED
      BY <2>9, <2>13 DEF SentInv
  <1>9. QED
    BY <1>7, <1>8

LEMMA BuiltIsSent ==
    ASSUME NEW e, Built(e)
    PROVE  e \in SentBy("Envelope")
  <1>1. e \in AnEnvelope /\ \A a \in ToSet(e[4]) : KeyOnce(a[5])
    BY DEF Built
  <1>2. \A k \in DOMAIN e[4] : KeyOnce(e[4][k][5])
    BY <1>1 DEF ToSet
  <1>3. QED
    BY <1>1, <1>2 DEF SentBy

LEMMA FirstReads ==
    ASSUME NEW e \in SentBy("Envelope"), NEW b, NEW whole \in BOOLEAN,
           ToRead("Envelope", e, New("Envelope"), b, 1, Len(b), whole)
    PROVE  Following(<<Frame("Envelope", 0, 1, Len(b))>>, b, e, whole)
  <1>1. PICK fr, fs : fr = Frame("Envelope", 0, 1, Len(b)) /\ fs = <<fr>>
    OBVIOUS
  <1>2. fr.type = "Envelope" /\ fr.i = 1 /\ fr.last = Len(b) /\ fr.m = New("Envelope")
    BY <1>1 DEF Frame
  <1>3. Len(fs) = 1 /\ fs[1] = fr
    BY <1>1
  <1>4. PICK ts, full : ts = <<e>> /\ full = <<whole>>
    OBVIOUS
  <1>5. ts[1] = e /\ full[1] = whole
    BY <1>4
  <1>6. Chain(fs, b, ts, full)
    <2>1. \A d \in 1 .. Len(fs) : ts[d] \in SentBy(fs[d].type) /\ full[d] \in BOOLEAN
      BY <1>2, <1>3, <1>5
    <2>2. \A d \in 1 .. Len(fs) - 1 : FALSE
      BY <1>3
    <2>3. QED
      BY <2>1, <2>2 DEF Chain
  <1>7. Reading(fs[Len(fs)], ts[Len(fs)], b, full[Len(fs)])
    <2>1. Reading(fr, e, b, whole)
      BY <1>2 DEF Reading
    <2>2. QED
      BY <1>3, <1>5, <2>1
  <1>8. Following(fs, b, e, whole)
    BY <1>5, <1>6, <1>7 DEF Following
  <1>9. QED
    BY <1>1, <1>8

LEMMA ReceiveFollows ==
    ASSUME TypeInv, Receive
    PROVE  SentInv'
  <1>1. /\ Built(sent) /\ outcome = "none" /\ Len(FlattenSeq(Parts(sent))) < Word
        /\ buf' \in Received(sent, how')
        /\ frames' = <<Frame("Envelope", 0, 1, Len(buf'))>>
        /\ UNCHANGED <<sent, outcome>>
    BY DEF Receive, TypeInv
  <1>2. CASE how' \in {"whole", "extended", "cut"}
    <2>1. PICK e \in SentBy("Envelope") : e = sent
      BY <1>1, BuiltIsSent
    <2>2. PICK kind \in {"whole", "extended", "cut"}, b \in {buf'} : kind = how' /\ b = buf'
      BY <1>2
    <2>3. b \in Received(e, kind) /\ Len(FlattenSeq(Parts(e))) < Word
      BY <1>1, <2>1, <2>2
    <2>4. PICK w \in Bytes : /\ Ahead("Envelope", e, New("Envelope"), w)
                             /\ Carries(b, 1, Len(b), w)
                             /\ kind # "cut" => Len(w) = Len(b)
      BY <2>3, ReceivedAhead
    <2>5. PICK whole \in BOOLEAN : whole = (kind # "cut")
      OBVIOUS
    <2>6. ToRead("Envelope", e, New("Envelope"), b, 1, Len(b), whole)
      <3>1. Len(w) \in Nat
        BY LenProperties DEF Bytes
      <3>2. whole => Len(w) = Len(b) + 1 - 1
        <4>1. ASSUME whole PROVE Len(w) = Len(b) + 1 - 1
          <5>1. kind # "cut"
            BY <2>5, <4>1
          <5>2. Len(w) = Len(b) /\ Len(b) \in Nat
            BY <2>4, <3>1, <5>1
          <5>3. QED
            BY <5>2
        <4>2. QED
          BY <4>1
      <3>3. QED
        BY <2>4, <3>2 DEF ToRead
    <2>7. PICK fs : fs = <<Frame("Envelope", 0, 1, Len(b))>>
      OBVIOUS
    <2>8. Following(fs, b, e, whole)
      BY <2>6, <2>7, FirstReads
    <2>9. frames' = fs /\ buf' = b /\ sent' = e /\ (how' # "cut") = whole /\ outcome' = "none"
      BY <1>1, <2>1, <2>2, <2>5, <2>7
    <2>10. Following(frames', buf', sent', (how' # "cut"))
      BY <2>8, <2>9
    <2>11. QED
      BY <2>9, <2>10 DEF SentInv
  <1>3. CASE how' \notin {"whole", "extended", "cut"}
    BY <1>3 DEF SentInv
  <1>4. QED
    BY <1>2, <1>3

LEMMA SentInvHolds == Spec => [](TypeInv /\ SentInv)
  <1>1. Init => SentInv
    BY DEF Init, SentInv
  <1>2. ASSUME TypeInv, SentInv, [Next]_state PROVE SentInv'
    <2>1. CASE UNCHANGED state
      <3>1. UNCHANGED <<sent, how, buf, frames, outcome>>
        BY <2>1 DEF state
      <3>2. Top' = Top
        BY <3>1 DEF Top
      <3>3. QED
        BY <1>2, <3>1, <3>2 DEF SentInv
    <2>2. CASE WithField \/ WithMeta
      <3>1. how' = "built"
        BY <2>2 DEF WithField, WithMeta
      <3>2. QED
        BY <3>1 DEF SentInv
    <2>3. CASE Receive
      BY <1>2, <2>3, ReceiveFollows
    <2>4. CASE Decode
      <3>1. UNCHANGED how
        BY <2>4 DEF Decode, ReadInt32, ReadString, ReadElement, Take, Enter, Return, Skip, Refuse
      <3>2. CASE how \in {"whole", "extended", "cut"}
        BY <1>2, <2>4, <3>2, ReadFollows, EnterFollows, ReturnFollows, SkipFollows, RefuseFollows
           DEF Decode
      <3>3. CASE how \notin {"whole", "extended", "cut"}
        BY <3>1, <3>3 DEF SentInv
      <3>4. QED
        BY <3>2, <3>3
    <2>5. QED
      BY <1>2, <2>1, <2>2, <2>3, <2>4 DEF Next
  <1>3. QED
    BY <1>1, <1>2, TypeInvHolds, PTL DEF Spec

(* What is encoded is decoded to the same envelope, of whatever strings,   *)
(* numbers, details and metadata, and the fields of other versions make no *)
(* difference; neither is ever refused (envelope.py: encode and decode).   *)
THEOREM SentIsReceived == Spec => []RoundTrip
  <1>1. ASSUME TypeInv, SentInv PROVE RoundTrip
    <2>1. outcome \in {"none", "ok", "ValueError"}
      BY <1>1 DEF TypeInv
    <2>2. ASSUME how \in {"whole", "extended"}, outcome # "none"
          PROVE  outcome = "ok" /\ Top.m = sent
      <3>1. how \in {"whole", "extended", "cut"} /\ how # "cut"
        BY <2>2
      <3>2. /\ outcome = "ValueError" => how = "cut"
            /\ outcome = "ok" => (how # "cut" => Top.m = sent)
        BY <1>1, <3>1 DEF SentInv
      <3>3. QED
        BY <2>1, <2>2, <3>1, <3>2
    <2>3. QED
      BY <2>2 DEF RoundTrip
  <1>2. QED
    BY <1>1, SentInvHolds, PTL

(* Bytes cut short, wherever, are refused or decode to part of what was    *)
(* sent: nothing is in it that the sender did not put there                *)
(* (envelope.py: the _decode functions, _dec_string, _dec_bytes).          *)
THEOREM PartIsReceived == Spec => []NothingInvented
  <1>1. ASSUME TypeInv, SentInv PROVE NothingInvented
    <2>1. ASSUME how # "raw", outcome = "ok"
          PROVE  PartOf(Top.m, sent)
      <3>1. how \in {"whole", "extended", "cut"}
        BY <1>1, <2>1 DEF TypeInv
      <3>2. Part("Envelope", Top.m, sent)
        BY <1>1, <2>1, <3>1 DEF SentInv
      <3>3. QED
        BY <3>2 DEF Part
    <2>2. QED
      BY <2>1 DEF NothingInvented
  <1>2. QED
    BY <1>1, SentInvHolds, PTL
===============================================================================
