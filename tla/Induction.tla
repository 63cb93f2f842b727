-------------------------------- MODULE Induction --------------------------------
(***************************************************************************)
(* What the proofs about texts and bytes share: induction for a set of     *)
(* numbers or of sequences (the library's theorems take an operator), and  *)
(* what FlattenSeq does.                                                   *)
(***************************************************************************)
EXTENDS Naturals, SequencesExt, SequenceTheorems, WellFoundedInduction, TLAPS

(* Induction, for a set of numbers.                                        *)
LEMMA InductionOnSet ==
    ASSUME NEW T, 0 \in T, \A n \in Nat : n \in T => n + 1 \in T
    PROVE  \A n \in Nat : n \in T
  <1> DEFINE B == {n \in Nat : n \notin T}
             R == OpToRel(<, Nat)
  <1>1. SUFFICES ASSUME B # {} PROVE FALSE
    OBVIOUS
  <1>2. IsWellFoundedOn(R, Nat)
    BY NatLessThanWellFounded
  <1> HIDE DEF R
  <1>3. PICK x \in B : \A y \in B : ~ (<<y, x>> \in R)
    <2>1. B \subseteq Nat
      OBVIOUS
    <2> HIDE DEF B
    <2>2. QED
      BY <1>1, <1>2, <2>1, WFMin
  <1>4. x \in Nat /\ x # 0 /\ x - 1 \in Nat /\ (x - 1) + 1 = x
    OBVIOUS
  <1>5. <<x - 1, x>> \in R
    BY <1>4 DEF R, OpToRel
  <1>6. x - 1 \in T
    BY <1>3, <1>4, <1>5
  <1>7. QED
    BY <1>4, <1>6

(* Induction, for a set of sequences.                                      *)
LEMMA SequencesOnSet ==
    ASSUME NEW S, NEW T, <<>> \in T,
           \A s \in Seq(S), e \in S : s \in T => Append(s, e) \in T
    PROVE  \A s \in Seq(S) : s \in T
  <1> DEFINE N == {n \in Nat : \A s \in Seq(S) : Len(s) = n => s \in T}
  <1>1. 0 \in N
    BY EmptySeq
  <1>2. ASSUME NEW n \in Nat, n \in N PROVE n + 1 \in N
    <2> SUFFICES ASSUME NEW s \in Seq(S), Len(s) = n + 1 PROVE s \in T
      OBVIOUS
    <2>1. s # <<>>
      OBVIOUS
    <2>2. PICK front \in Seq(S), e \in S : s = Append(front, e)
      BY <2>1, SequenceEmptyOrAppend
    <2>3. Len(front) = n
      BY <2>2, AppendProperties, LenProperties
    <2>4. front \in T
      BY <1>2, <2>3
    <2>5. QED
      BY <2>2, <2>4
  <1> HIDE DEF N
  <1>3. \A n \in Nat : n \in N
    BY <1>1, <1>2, InductionOnSet
  <1>4. QED
    BY <1>3, LenProperties DEF N

(* The recursive definition inside FlattenSeq has a solution.              *)
LEMMA FlattenDefined ==
    ASSUME NEW ss
    PROVE  \A n \in Nat : \E f :
             f = [i \in 1 .. n |-> IF i = 1 THEN ss[i] ELSE f[i - 1] \o ss[i]]
  <1> DEFINE Solves(f, n) ==
                 f = [i \in 1 .. n |-> IF i = 1 THEN ss[i] ELSE f[i - 1] \o ss[i]]
             T == {n \in Nat : \E f : Solves(f, n)}
  <1>1. 0 \in T
    <2> DEFINE e == [i \in 1 .. 0 |-> ss[i]]
    <2>1. Solves(e, 0)
      OBVIOUS
    <2>2. QED
      BY <2>1
  <1>2. ASSUME NEW n \in Nat, n \in T PROVE n + 1 \in T
    <2>1. PICK f : Solves(f, n)
      BY <1>2
    <2> DEFINE g == [i \in 1 .. n + 1 |->
                        IF i = n + 1 THEN IF i = 1 THEN ss[i] ELSE f[n] \o ss[i] ELSE f[i]]
    <2>2. ASSUME NEW i \in 1 .. n + 1
          PROVE  g[i] = IF i = 1 THEN ss[i] ELSE g[i - 1] \o ss[i]
      <3>1. CASE i = n + 1
        BY <3>1
      <3>2. CASE i # n + 1
        <4>1. i \in 1 .. n /\ i - 1 \in 0 .. n /\ (i # 1 => i - 1 \in 1 .. n + 1 /\ i - 1 # n + 1)
          BY <3>2
        <4>2. f[i] = IF i = 1 THEN ss[i] ELSE f[i - 1] \o ss[i]
          BY <2>1, <4>1
        <4>3. QED
          BY <3>2, <4>1, <4>2
      <3>3. QED
        BY <3>1, <3>2
    <2>3. Solves(g, n + 1)
      <3>1. g = [i \in 1 .. n + 1 |-> g[i]]
        OBVIOUS
      <3> HIDE DEF g
      <3>2. QED
        BY <2>2, <3>1
    <2> HIDE DEF g, Solves
    <2>4. QED
      BY <2>3
  <1> HIDE DEF T
  <1>3. \A n \in Nat : n \in T
    BY <1>1, <1>2, InductionOnSet
  <1>4. QED
    BY <1>3 DEF T

LEMMA FlattenUnfolds ==
    ASSUME NEW S, NEW ss \in Seq(Seq(S)), ss # <<>>
    PROVE  \E f : /\ \A i \in 1 .. Len(ss) :
                       /\ f[i] \in Seq(S)
                       /\ f[i] = IF i = 1 THEN ss[i] ELSE f[i - 1] \o ss[i]
                  /\ FlattenSeq(ss) = f[Len(ss)]
  <1> DEFINE n == Len(ss)
             f == CHOOSE f : f = [i \in 1 .. n |-> IF i = 1 THEN ss[i] ELSE f[i - 1] \o ss[i]]
  <1>1. n \in Nat \ {0} /\ \A i \in 1 .. n : ss[i] \in Seq(S)
    BY EmptySeq, ElementOfSeq
  <1>2. FlattenSeq(ss) = f[n]
    BY <1>1 DEF FlattenSeq
  <1> HIDE DEF n
  <1>3. f = [i \in 1 .. n |-> IF i = 1 THEN ss[i] ELSE f[i - 1] \o ss[i]]
    BY <1>1, FlattenDefined
  <1> HIDE DEF f
  <1>4. \A i \in 1 .. n : f[i] = IF i = 1 THEN ss[i] ELSE f[i - 1] \o ss[i]
    BY <1>3
  <1>5. \A i \in 1 .. n : f[i] \in Seq(S)
    <2> DEFINE T == {i \in Nat : i \in 1 .. n => f[i] \in Seq(S)}
    <2>1. 0 \in T
      OBVIOUS
    <2>2. ASSUME NEW i \in Nat, i \in T PROVE i + 1 \in T
      <3> SUFFICES ASSUME i + 1 \in 1 .. n PROVE f[i + 1] \in Seq(S)
        OBVIOUS
      <3>1. CASE i = 0
        BY <1>1, <1>4, <3>1
      <3>2. CASE i # 0
        <4>1. i \in 1 .. n /\ i + 1 # 1 /\ (i + 1) - 1 = i
          BY <1>1, <3>2
        <4>2. f[i] \in Seq(S) /\ ss[i + 1] \in Seq(S)
          BY <1>1, <2>2, <4>1
        <4>3. f[i + 1] = f[i] \o ss[i + 1]
          BY <1>4, <4>1
        <4>4. QED
          BY <4>2, <4>3, ConcatProperties
      <3>3. QED
        BY <3>1, <3>2
    <2> HIDE DEF T
    <2>3. \A i \in Nat : i \in T
      BY <2>1, <2>2, InductionOnSet
    <2>4. QED
      BY <2>3 DEF T
  <1>6. QED
    BY <1>2, <1>4, <1>5 DEF n

(* FlattenSeq puts one more sequence at the end of the others.             *)
LEMMA FlattenAppend ==
    ASSUME NEW S, NEW ss \in Seq(Seq(S)), NEW e \in Seq(S)
    PROVE  /\ FlattenSeq(<<>>) = <<>>
           /\ FlattenSeq(ss) \in Seq(S)
           /\ FlattenSeq(Append(ss, e)) = FlattenSeq(ss) \o e
  <1> DEFINE n == Len(ss)
             tt == Append(ss, e)
  <1>1. FlattenSeq(<<>>) = <<>>
    BY DEF FlattenSeq
  <1>2. /\ tt \in Seq(Seq(S)) /\ Len(tt) = n + 1 /\ tt # <<>> /\ n \in Nat
        /\ \A i \in 1 .. n : tt[i] = ss[i] /\ ss[i] \in Seq(S)
        /\ tt[n + 1] = e
    BY AppendProperties, LenProperties, ElementOfSeq
  <1>3. PICK g : /\ \A i \in 1 .. n + 1 :
                      /\ g[i] \in Seq(S)
                      /\ g[i] = IF i = 1 THEN tt[i] ELSE g[i - 1] \o tt[i]
                 /\ FlattenSeq(tt) = g[n + 1]
    <2> HIDE DEF tt, n
    <2>1. \E f : /\ \A i \in 1 .. Len(tt) :
                      /\ f[i] \in Seq(S)
                      /\ f[i] = IF i = 1 THEN tt[i] ELSE f[i - 1] \o tt[i]
                 /\ FlattenSeq(tt) = f[Len(tt)]
      BY <1>2, FlattenUnfolds
    <2>2. QED
      BY <1>2, <2>1
  <1> HIDE DEF tt
  <1>4. CASE ss = <<>>
    <2>1. n = 0
      BY <1>4
    <2>2. FlattenSeq(tt) = e
      BY <1>2, <1>3, <2>1
    <2>3. FlattenSeq(ss) = <<>> /\ <<>> \o e = e
      BY <1>1, <1>4, ConcatEmptySeq
    <2>4. QED
      BY <1>1, <2>2, <2>3, EmptySeq DEF tt
  <1>5. CASE ss # <<>>
    <2>1. PICK f : /\ \A i \in 1 .. n :
                        /\ f[i] \in Seq(S)
                        /\ f[i] = IF i = 1 THEN ss[i] ELSE f[i - 1] \o ss[i]
                   /\ FlattenSeq(ss) = f[n]
      BY <1>5, FlattenUnfolds
    <2>2. n \in Nat \ {0}
      BY <1>5, EmptySeq
    <2> HIDE DEF n
    <2> DEFINE T == {i \in Nat : i \in 1 .. n => g[i] = f[i]}
    <2>3. 0 \in T
      OBVIOUS
    <2>4. ASSUME NEW i \in Nat, i \in T PROVE i + 1 \in T
      <3> SUFFICES ASSUME i + 1 \in 1 .. n PROVE g[i + 1] = f[i + 1]
        OBVIOUS
      <3>1. i + 1 \in 1 .. n + 1 /\ (i + 1) - 1 = i /\ (i # 0 => i \in 1 .. n)
        BY <2>2
      <3>2. QED
        BY <1>2, <1>3, <2>1, <2>4, <3>1
    <2> HIDE DEF T
    <2>5. \A i \in Nat : i \in T
      BY <2>3, <2>4, InductionOnSet
    <2>6. g[n] = f[n]
      BY <2>2, <2>5 DEF T
    <2>7. g[n + 1] = g[n] \o e /\ f[n] \in Seq(S)
      <3>1. n + 1 \in 1 .. n + 1 /\ n + 1 # 1 /\ (n + 1) - 1 = n /\ n \in 1 .. n
        BY <2>2
      <3>2. QED
        BY <1>2, <1>3, <2>1, <3>1
    <2>8. QED
      BY <1>1, <1>3, <2>1, <2>6, <2>7 DEF tt
  <1>6. QED
    BY <1>4, <1>5
===============================================================================
