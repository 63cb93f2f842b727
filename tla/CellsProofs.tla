------------------------------ MODULE CellsProofs ------------------------------
(***************************************************************************)
(* Proofs about Cells, for every string, however long, and every number of *)
(* columns, fields and rows: what bind_row writes is read back as the row. *)
(*                                                                         *)
(* The text of a row is written and lexed by recursion on its length, so   *)
(* the first lemmas are induction over the naturals, and what FlattenSeq   *)
(* and Parsed do with one more element.                                    *)
(***************************************************************************)
EXTENDS Cells, Induction, FiniteSetTheorems

(* The recursive definition inside Parsed has a solution.                  *)
LEMMA LexDefined ==
    ASSUME NEW text
    PROVE  \A n \in Nat : \E f :
             f = [k \in 0 .. n |-> IF k = 0 THEN Start ELSE Lexed(f[k - 1], text[k])]
  <1> DEFINE Solves(f, n) ==
                 f = [k \in 0 .. n |-> IF k = 0 THEN Start ELSE Lexed(f[k - 1], text[k])]
             T == {n \in Nat : \E f : Solves(f, n)}
  <1>1. 0 \in T
    <2> DEFINE e == [k \in 0 .. 0 |-> Start]
    <2>1. Solves(e, 0)
      OBVIOUS
    <2>2. QED
      BY <2>1
  <1>2. ASSUME NEW n \in Nat, n \in T PROVE n + 1 \in T
    <2>1. PICK f : Solves(f, n)
      BY <1>2
    <2> DEFINE g == [k \in 0 .. n + 1 |->
                        IF k = n + 1 THEN Lexed(f[n], text[n + 1]) ELSE f[k]]
    <2>2. ASSUME NEW k \in 0 .. n + 1
          PROVE  g[k] = IF k = 0 THEN Start ELSE Lexed(g[k - 1], text[k])
      <3>1. CASE k = n + 1
        <4>1. k # 0 /\ k - 1 = n /\ n \in 0 .. n + 1 /\ n # n + 1
          BY <3>1
        <4>2. g[n] = f[n] /\ g[k] = Lexed(f[n], text[k])
          BY <3>1, <4>1
        <4>3. QED
          BY <4>1, <4>2
      <3>2. CASE k # n + 1
        <4>1. k \in 0 .. n /\ (k # 0 => k - 1 \in 0 .. n + 1 /\ k - 1 # n + 1)
          BY <3>2
        <4>2. f[k] = IF k = 0 THEN Start ELSE Lexed(f[k - 1], text[k])
          BY <2>1, <4>1
        <4>3. g[k] = f[k] /\ (k # 0 => g[k - 1] = f[k - 1])
          BY <3>2, <4>1
        <4> HIDE DEF g
        <4>4. QED
          BY <4>2, <4>3
      <3>3. QED
        BY <3>1, <3>2
    <2>3. Solves(g, n + 1)
      <3>1. g = [k \in 0 .. n + 1 |-> g[k]]
        OBVIOUS
      <3> HIDE DEF g
      <3>2. QED
        BY <2>2, <3>1
    <2> HIDE DEF g, Solves
    <2>4. QED
      BY <2>3
  <1> HIDE DEF T
  <1>3. \A n \in Nat : n \in T
    BY <1>1, <1>2, InductionOnSet
  <1>4. QED
    BY <1>3 DEF T

LEMMA ParsedUnfolds ==
    ASSUME NEW text, Len(text) \in Nat
    PROVE  \E f : /\ \A k \in 0 .. Len(text) :
                       f[k] = IF k = 0 THEN Start ELSE Lexed(f[k - 1], text[k])
                  /\ Parsed(text) = f[Len(text)]
  <1> DEFINE n == Len(text)
             f == CHOOSE f : f = [k \in 0 .. n |->
                                    IF k = 0 THEN Start ELSE Lexed(f[k - 1], text[k])]
  <1>1. Parsed(text) = f[n]
    BY DEF Parsed
  <1> HIDE DEF n
  <1>2. n \in Nat
    BY DEF n
  <1>3. f = [k \in 0 .. n |-> IF k = 0 THEN Start ELSE Lexed(f[k - 1], text[k])]
    BY <1>2, LexDefined
  <1> HIDE DEF f
  <1>4. \A k \in 0 .. n : f[k] = IF k = 0 THEN Start ELSE Lexed(f[k - 1], text[k])
    BY <1>3
  <1>5. QED
    BY <1>1, <1>4 DEF n

(* One more character is one more step of the lexer.                       *)
LEMMA ParsedAppend ==
    ASSUME NEW S, NEW t \in Seq(S), NEW c \in S
    PROVE  Parsed(<<>>) = Start /\ Parsed(Append(t, c)) = Lexed(Parsed(t), c)
  <1> DEFINE n == Len(t)
             u == Append(t, c)
  <1>1. n \in Nat /\ Len(u) = n + 1 /\ (\A k \in 1 .. n : u[k] = t[k]) /\ u[n + 1] = c
    BY AppendProperties, LenProperties
  <1>2. Parsed(<<>>) = Start
    <2> DEFINE e == <<>>
    <2>1. Len(e) = 0
      OBVIOUS
    <2> HIDE DEF e
    <2>2. PICK f : (\A k \in 0 .. Len(e) :
                       f[k] = IF k = 0 THEN Start ELSE Lexed(f[k - 1], e[k]))
                   /\ Parsed(e) = f[Len(e)]
      BY <2>1, ParsedUnfolds
    <2>3. Parsed(e) = Start
      BY <2>1, <2>2
    <2>4. QED
      BY <2>3 DEF e
  <1> HIDE DEF n, u
  <1>3. PICK f : (\A k \in 0 .. n : f[k] = IF k = 0 THEN Start ELSE Lexed(f[k - 1], t[k]))
                 /\ Parsed(t) = f[n]
    BY <1>1, ParsedUnfolds DEF n
  <1>4. PICK g : (\A k \in 0 .. n + 1 : g[k] = IF k = 0 THEN Start ELSE Lexed(g[k - 1], u[k]))
                 /\ Parsed(u) = g[n + 1]
    <2>1. \E g : (\A k \in 0 .. Len(u) : g[k] = IF k = 0 THEN Start ELSE Lexed(g[k - 1], u[k]))
                 /\ Parsed(u) = g[Len(u)]
      BY <1>1, ParsedUnfolds
    <2>2. QED
      BY <1>1, <2>1
  <1> DEFINE T == {k \in Nat : k \in 0 .. n => g[k] = f[k]}
  <1>5. 0 \in T
    BY <1>1, <1>3, <1>4
  <1>6. ASSUME NEW k \in Nat, k \in T PROVE k + 1 \in T
    <2> SUFFICES ASSUME k + 1 \in 0 .. n PROVE g[k + 1] = f[k + 1]
      OBVIOUS
    <2>1. k \in 0 .. n /\ k + 1 \in 0 .. n + 1 /\ k + 1 \in 1 .. n
          /\ (k + 1) - 1 = k /\ k + 1 # 0
      BY <1>1
    <2>2. g[k] = f[k] /\ u[k + 1] = t[k + 1]
      BY <1>1, <1>6, <2>1
    <2>3. g[k + 1] = Lexed(g[k], u[k + 1]) /\ f[k + 1] = Lexed(f[k], t[k + 1])
      BY <1>3, <1>4, <2>1
    <2>4. QED
      BY <2>2, <2>3
  <1> HIDE DEF T
  <1>7. \A k \in Nat : k \in T
    BY <1>5, <1>6, InductionOnSet
  <1>8. g[n] = f[n]
    BY <1>1, <1>7 DEF T
  <1>9. g[n + 1] = Lexed(g[n], u[n + 1])
    <2>1. n + 1 \in 0 .. n + 1 /\ n + 1 # 0 /\ (n + 1) - 1 = n
      BY <1>1
    <2>2. QED
      BY <1>4, <2>1
  <1>10. QED
    BY <1>1, <1>2, <1>3, <1>4, <1>8, <1>9 DEF u
-------------------------------------------------------------------------------
LEMMA ReplacedEmpty ==
    ASSUME NEW c, NEW new
    PROVE  Replaced(<<>>, c, new) = <<>>
  <1> DEFINE e == <<>>
             none == [k \in DOMAIN e |-> IF e[k] = c THEN new ELSE <<e[k]>>]
  <1>1. none = <<>>
    OBVIOUS
  <1>2. Replaced(e, c, new) = FlattenSeq(none)
    BY DEF Replaced
  <1>3. FlattenSeq(<<>>) = <<>>
    BY DEF FlattenSeq
  <1> HIDE DEF none
  <1>4. QED
    BY <1>1, <1>2, <1>3

LEMMA ReplacedAppend ==
    ASSUME NEW S, NEW s \in Seq(S), NEW x \in S, NEW c, NEW new \in Seq(S)
    PROVE  /\ Replaced(s, c, new) \in Seq(S)
           /\ Replaced(Append(s, x), c, new) =
                  Replaced(s, c, new) \o (IF x = c THEN new ELSE <<x>>)
  <1> DEFINE pieces == [k \in DOMAIN s |-> IF s[k] = c THEN new ELSE <<s[k]>>]
             u == Append(s, x)
             more == [k \in DOMAIN u |-> IF u[k] = c THEN new ELSE <<u[k]>>]
             piece == IF x = c THEN new ELSE <<x>>
  <1>1. /\ Len(s) \in Nat /\ DOMAIN s = 1 .. Len(s) /\ (\A k \in 1 .. Len(s) : s[k] \in S)
        /\ Len(u) = Len(s) + 1 /\ DOMAIN u = 1 .. Len(s) + 1 /\ u[Len(s) + 1] = x
        /\ \A k \in 1 .. Len(s) : u[k] = s[k]
    BY AppendProperties, LenProperties, ElementOfSeq
  <1> HIDE DEF u
  <1>2. piece \in Seq(S)
    OBVIOUS
  <1>3. pieces \in Seq(Seq(S)) /\ Len(pieces) = Len(s)
        /\ \A k \in 1 .. Len(s) : pieces[k] = IF s[k] = c THEN new ELSE <<s[k]>>
    <2>1. pieces \in [1 .. Len(s) -> Seq(S)]
      BY <1>1
    <2>2. pieces \in Seq(Seq(S)) /\ Len(pieces) = Len(s)
      BY <1>1, <2>1, IsASeq, LenProperties
    <2>3. QED
      BY <1>1, <2>2
  <1>4. more = Append(pieces, piece)
    <2> HIDE DEF pieces, piece
    <2>1. Append(pieces, piece) \in Seq(Seq(S)) /\ Len(Append(pieces, piece)) = Len(s) + 1
      BY <1>2, <1>3, AppendProperties
    <2>2. more \in [1 .. Len(s) + 1 -> Seq(S)]
      BY <1>1, <1>2 DEF piece
    <2>3. more \in Seq(Seq(S)) /\ Len(more) = Len(s) + 1
      BY <1>1, <2>2, IsASeq, LenProperties
    <2>4. ASSUME NEW k \in 1 .. Len(s) + 1 PROVE more[k] = Append(pieces, piece)[k]
      <3>1. CASE k = Len(s) + 1
        BY <1>1, <1>2, <1>3, <3>1, AppendProperties DEF piece
      <3>2. CASE k # Len(s) + 1
        <4>1. k \in 1 .. Len(s)
          BY <1>1, <3>2
        <4>2. Append(pieces, piece)[k] = pieces[k]
          BY <1>2, <1>3, <4>1, AppendProperties
        <4>3. QED
          BY <1>1, <1>3, <4>1, <4>2
      <3>3. QED
        BY <3>1, <3>2
    <2> HIDE DEF more
    <2>5. QED
      BY <2>1, <2>3, <2>4, SeqEqual
  <1>5. Replaced(s, c, new) = FlattenSeq(pieces) /\ Replaced(u, c, new) = FlattenSeq(more)
    BY DEF Replaced
  <1> HIDE DEF pieces, more, piece
  <1>6. QED
    BY <1>2, <1>3, <1>4, <1>5, FlattenAppend DEF u, piece

(* What _cell_to_pxf writes for one more character.                        *)
Escape(x) == CASE x \in {"quote", "backslash"} -> <<"backslash", x>>
               [] x = "newline" -> <<"backslash", "n">>
               [] OTHER -> <<x>>

LEMMA EscapedAppend ==
    ASSUME NEW w \in Seq(Letter), NEW x \in Letter
    PROVE  /\ Escaped(<<>>) = <<>>
           /\ Escaped(w) \in Seq(Letter)
           /\ Escaped(Append(w, x)) = Escaped(w) \o Escape(x)
  <1> DEFINE slash == <<"backslash", "backslash">>
             quote == <<"backslash", "quote">>
             feed == <<"backslash", "n">>
             P(s) == Replaced(s, "backslash", slash)
             B(s) == Replaced(s, "quote", quote)
             C(s) == Replaced(s, "newline", feed)
  <1>0. \A s \in Seq(Letter), y \in Letter, c \in Letter, new \in Seq(Letter) :
            Replaced(Append(s, y), c, new) = Replaced(s, c, new) \o (IF y = c THEN new ELSE <<y>>)
    BY ReplacedAppend
  <1>1. slash \in Seq(Letter) /\ quote \in Seq(Letter) /\ feed \in Seq(Letter)
    BY DEF Letter
  <1>2. \A s : Escaped(s) = C(B(P(s)))
    BY DEF Escaped
  <1> HIDE DEF P, B, C
  <1> HIDE DEF slash, quote, feed
  <1>3. P(<<>>) = <<>> /\ B(<<>>) = <<>> /\ C(<<>>) = <<>>
    BY ReplacedEmpty DEF P, B, C
  <1>4. \A s \in Seq(Letter) : P(s) \in Seq(Letter) /\ B(s) \in Seq(Letter) /\ C(s) \in Seq(Letter)
    BY <1>1, ReplacedAppend DEF P, B, C
  <1>5. \A s \in Seq(Letter), y \in Letter :
           /\ y # "backslash" => P(Append(s, y)) = Append(P(s), y)
           /\ y = "backslash" => P(Append(s, y)) = Append(Append(P(s), y), y)
    <2> SUFFICES ASSUME NEW s \in Seq(Letter), NEW y \in Letter
                 PROVE  /\ y # "backslash" => P(Append(s, y)) = Append(P(s), y)
                        /\ y = "backslash" => P(Append(s, y)) = Append(Append(P(s), y), y)
      OBVIOUS
    <2>1. P(Append(s, y)) = P(s) \o (IF y = "backslash" THEN slash ELSE <<y>>)
      <3>1. "backslash" \in Letter
        BY DEF Letter
      <3>2. slash \in Seq(Letter)
        BY <1>1
      <3>3. PICK c \in Letter, new \in Seq(Letter) : c = "backslash" /\ new = slash
        BY <3>1, <3>2
      <3>4. Replaced(Append(s, y), c, new) = Replaced(s, c, new) \o (IF y = c THEN new ELSE <<y>>)
        BY <1>0, Zenon
      <3>5. \A z : P(z) = Replaced(z, c, new)
        BY <3>3 DEF P
      <3>6. QED
        BY <3>3, <3>4, <3>5
    <2>2. QED
      BY <1>4, <2>1 DEF slash
  <1>6. \A s \in Seq(Letter), y \in Letter :
           /\ y # "quote" => B(Append(s, y)) = Append(B(s), y)
           /\ y = "quote" => B(Append(s, y)) = Append(Append(B(s), "backslash"), y)
    <2> SUFFICES ASSUME NEW s \in Seq(Letter), NEW y \in Letter
                 PROVE  /\ y # "quote" => B(Append(s, y)) = Append(B(s), y)
                        /\ y = "quote" => B(Append(s, y)) = Append(Append(B(s), "backslash"), y)
      OBVIOUS
    <2>1. B(Append(s, y)) = B(s) \o (IF y = "quote" THEN quote ELSE <<y>>)
      BY <1>1, ReplacedAppend DEF B
    <2>2. QED
      BY <1>4, <2>1 DEF quote
  <1>7. \A s \in Seq(Letter), y \in Letter :
           /\ y # "newline" => C(Append(s, y)) = Append(C(s), y)
           /\ y = "newline" => C(Append(s, y)) = Append(Append(C(s), "backslash"), "n")
    <2> SUFFICES ASSUME NEW s \in Seq(Letter), NEW y \in Letter
                 PROVE  /\ y # "newline" => C(Append(s, y)) = Append(C(s), y)
                        /\ y = "newline" => C(Append(s, y)) = Append(Append(C(s), "backslash"), "n")
      OBVIOUS
    <2>1. C(Append(s, y)) = C(s) \o (IF y = "newline" THEN feed ELSE <<y>>)
      BY <1>1, ReplacedAppend DEF C
    <2>2. QED
      BY <1>4, <2>1 DEF feed
  <1> DEFINE a == P(w)
             b == B(a)
             d == C(b)
  <1>8. a \in Seq(Letter) /\ b \in Seq(Letter) /\ d \in Seq(Letter)
    BY <1>4
  <1>9. Escaped(w) = d /\ Escaped(Append(w, x)) = C(B(P(Append(w, x)))) /\ Escaped(<<>>) = <<>>
    BY <1>2, <1>3
  <1>10. {"quote", "backslash", "newline", "n"} \subseteq Letter
    BY DEF Letter
  <1>11. C(B(P(Append(w, x)))) = d \o Escape(x)
    <2>1. CASE x = "backslash"
      <3>1. P(Append(w, x)) = Append(Append(a, x), x)
        BY <1>5, <2>1
      <3>2. Append(a, x) \in Seq(Letter) /\ Append(b, x) \in Seq(Letter)
        BY <1>8
      <3> HIDE DEF a, b, d
      <3>3. B(Append(Append(a, x), x)) = Append(Append(b, x), x)
        <4>1. B(Append(a, x)) = Append(b, x)
          BY <1>6, <1>8, <2>1 DEF b
        <4>2. B(Append(Append(a, x), x)) = Append(B(Append(a, x)), x)
          BY <1>6, <2>1, <3>2
        <4>3. QED
          BY <4>1, <4>2
      <3>4. C(Append(Append(b, x), x)) = Append(Append(d, x), x)
        <4>1. C(Append(b, x)) = Append(d, x)
          BY <1>7, <1>8, <2>1 DEF d
        <4>2. C(Append(Append(b, x), x)) = Append(C(Append(b, x)), x)
          BY <1>7, <2>1, <3>2
        <4>3. QED
          BY <4>1, <4>2
      <3>5. Escape(x) = <<x, x>>
        BY <2>1 DEF Escape
      <3>6. d \o <<x, x>> = Append(Append(d, x), x)
        BY <1>8
      <3>7. QED
        BY <3>1, <3>3, <3>4, <3>5, <3>6
    <2>2. CASE x = "quote"
      <3> HIDE DEF a, b, d
      <3>1. P(Append(w, x)) = Append(a, x)
        BY <1>5, <2>2 DEF a
      <3>2. B(Append(a, x)) = Append(Append(b, "backslash"), x) /\ Append(b, "backslash") \in Seq(Letter)
        BY <1>6, <1>8, <1>10, <2>2 DEF b
      <3>3. C(Append(Append(b, "backslash"), x)) = Append(Append(d, "backslash"), x)
        <4>1. C(Append(b, "backslash")) = Append(d, "backslash")
          BY <1>7, <1>8, <1>10 DEF d
        <4>2. C(Append(Append(b, "backslash"), x)) = Append(C(Append(b, "backslash")), x)
          BY <1>7, <2>2, <3>2
        <4>3. QED
          BY <4>1, <4>2
      <3>4. Escape(x) = <<"backslash", x>>
        BY <2>2 DEF Escape
      <3>5. d \o <<"backslash", x>> = Append(Append(d, "backslash"), x)
        BY <1>8, <1>10
      <3>6. QED
        BY <3>1, <3>2, <3>3, <3>4, <3>5
    <2>3. CASE x = "newline"
      <3> HIDE DEF a, b, d
      <3>1. P(Append(w, x)) = Append(a, x)
        BY <1>5, <2>3 DEF a
      <3>2. B(Append(a, x)) = Append(b, x)
        BY <1>6, <1>8, <2>3 DEF b
      <3>3. C(Append(b, x)) = Append(Append(d, "backslash"), "n")
        BY <1>7, <1>8, <2>3 DEF d
      <3>4. Escape(x) = <<"backslash", "n">>
        BY <2>3 DEF Escape
      <3>5. d \o <<"backslash", "n">> = Append(Append(d, "backslash"), "n")
        BY <1>8, <1>10
      <3>6. QED
        BY <3>1, <3>2, <3>3, <3>4, <3>5
    <2>4. CASE x \notin {"backslash", "quote", "newline"}
      <3> HIDE DEF a, b, d
      <3>1. P(Append(w, x)) = Append(a, x)
        BY <1>5, <2>4 DEF a
      <3>2. B(Append(a, x)) = Append(b, x)
        BY <1>6, <1>8, <2>4 DEF b
      <3>3. C(Append(b, x)) = Append(d, x)
        BY <1>7, <1>8, <2>4 DEF d
      <3>4. Escape(x) = <<x>>
        BY <2>4 DEF Escape
      <3>5. d \o <<x>> = Append(d, x)
        BY <1>8
      <3>6. QED
        BY <3>1, <3>2, <3>3, <3>4, <3>5
    <2>5. QED
      BY <2>1, <2>2, <2>3, <2>4
  <1>12. QED
    BY <1>8, <1>9, <1>11
-------------------------------------------------------------------------------
(* A state of the lexer, and: from s, the text u takes it to end.          *)
State(at, field, text, fields) ==
    [at |-> at, field |-> field, text |-> text, fields |-> fields]

Reads(s, u, end) == \A t \in Seq(Char) : Parsed(t) = s => Parsed(t \o u) = end

LEMMA ReadsNothing == ASSUME NEW s PROVE Reads(s, <<>>, s)
  BY ConcatEmptySeq DEF Reads

LEMMA ReadsOne ==
    ASSUME NEW s, NEW c \in Char
    PROVE  Reads(s, <<c>>, Lexed(s, c))
  <1> SUFFICES ASSUME NEW t \in Seq(Char), Parsed(t) = s
               PROVE  Parsed(t \o <<c>>) = Lexed(s, c)
    BY DEF Reads
  <1>1. t \o <<c>> = Append(t, c)
    BY AppendIsConcat
  <1>2. Parsed(Append(t, c)) = Lexed(Parsed(t), c)
    BY ParsedAppend
  <1>3. QED
    BY <1>1, <1>2

LEMMA ReadsOn ==
    ASSUME NEW s, NEW mid, NEW end, NEW u \in Seq(Char), NEW v \in Seq(Char),
           Reads(s, u, mid), Reads(mid, v, end)
    PROVE  Reads(s, u \o v, end)
  <1> SUFFICES ASSUME NEW t \in Seq(Char), Parsed(t) = s
               PROVE  Parsed(t \o (u \o v)) = end
    BY DEF Reads
  <1>1. Parsed(t \o u) = mid /\ t \o u \in Seq(Char)
    BY ConcatProperties DEF Reads
  <1>2. Parsed((t \o u) \o v) = end
    BY <1>1 DEF Reads
  <1>3. (t \o u) \o v = t \o (u \o v)
    BY ConcatAssociative
  <1>4. QED
    BY <1>2, <1>3

(* What one character does, state by state.                                *)
LEMMA LexedInName ==
    ASSUME NEW f, NEW F
    PROVE  /\ Lexed(State("name", f, <<>>, F), "newline") = State("name", f, <<>>, F)
           /\ \A g \in Field : Lexed(State("name", f, <<>>, F), g) = State("=", g, <<>>, F)
           /\ Lexed(State("=", f, <<>>, F), "=") = State("value", f, <<>>, F)
  BY CellsAssumption DEF Lexed, RawKind, State

LEMMA Signs ==
    /\ Sign["number"] = "1" /\ Sign["ident"] = "w" /\ Sign["time"] = "T"
    /\ Sign["bytes"] = "1" /\ Sign["bool"] = "1"
    /\ \A kind \in ValueKind : Sign[kind] \in {"1", "w", "T"}
  BY DEF Sign, ValueKind, RawKind

LEMMA LexedInValue ==
    ASSUME NEW f, NEW F
    PROVE  LET s == State("value", f, <<>>, F)
           IN  /\ Lexed(s, "quote") = State("string", f, <<>>, F)
               /\ Lexed(s, "b") = State("b", f, <<>>, F)
               /\ Lexed(s, "null") = State("name", f, <<>>, [F EXCEPT ![f] = Null])
               /\ Lexed(s, "true") =
                      State("name", f, <<>>, [F EXCEPT ![f] = Text("bool", <<"1">>)])
               /\ Lexed(s, "false") =
                      State("name", f, <<>>, [F EXCEPT ![f] = Text("bool", <<>>)])
  <1> DEFINE s == State("value", f, <<>>, F)
  <1>2. s = [at |-> "value", field |-> f, text |-> <<>>, fields |-> F]
    BY DEF State
  <1> HIDE DEF s
  <1>1. \A c : Lexed(s, c) = Began(s, c)
    <2>1. s.at = "value"
      BY <1>2
    <2>2. QED
      BY <2>1 DEF Lexed, RawKind
  <1>3. Began(s, "quote") = State("string", f, <<>>, F)
    BY <1>2 DEF Began, State
  <1>4. Began(s, "b") = State("b", f, <<>>, F)
    BY <1>2 DEF Began, State
  <1>5. Began(s, "null") = State("name", f, <<>>, [F EXCEPT ![f] = Null])
    BY <1>2 DEF Began, Ended, State, Null
  <1>6. Began(s, "true") = State("name", f, <<>>, [F EXCEPT ![f] = Text("bool", <<"1">>)])
    BY <1>2 DEF Began, Ended, State
  <1>7. Began(s, "false") = State("name", f, <<>>, [F EXCEPT ![f] = Text("bool", <<>>)])
    BY <1>2 DEF Began, Ended, State
  <1>8. QED
    BY <1>1, <1>3, <1>4, <1>5, <1>6, <1>7 DEF s

LEMMA LexedSign ==
    ASSUME NEW f, NEW F, NEW kind \in RawKind
    PROVE  Lexed(State("value", f, <<>>, F), Sign[kind]) = State(kind, f, <<Sign[kind]>>, F)
  <1> DEFINE s == State("value", f, <<>>, F)
             sign == Sign[kind]
  <1>1. s = [at |-> "value", field |-> f, text |-> <<>>, fields |-> F]
    BY DEF State
  <1>2. Lexed(s, sign) = Began(s, sign)
    <2>1. s.at = "value"
      BY <1>1
    <2> HIDE DEF s, sign
    <2>2. QED
      BY <2>1 DEF Lexed, RawKind
  <1>3. \/ kind = "number" /\ sign = "1"
        \/ kind = "ident" /\ sign = "w"
        \/ kind = "time" /\ sign = "T"
    BY Signs DEF RawKind
  <1> HIDE DEF sign
  <1>4. Began(s, sign) = State(kind, f, <<sign>>, F)
    <2>1. Began(s, "1") = State("number", f, <<"1">>, F)
      BY <1>1 DEF Began, State
    <2>2. Began(s, "w") = State("ident", f, <<"w">>, F)
      BY <1>1 DEF Began, State
    <2>3. Began(s, "T") = State("time", f, <<"T">>, F)
      BY <1>1 DEF Began, State
    <2> HIDE DEF s
    <2>4. QED
      BY <1>3, <2>1, <2>2, <2>3
  <1>5. QED
    BY <1>2, <1>4 DEF sign

With(F, f, v) == [F EXCEPT ![f] = v]

LEMMA StateEnded ==
    ASSUME NEW at, NEW f, NEW text, NEW F, NEW kind, NEW w
    PROVE  Ended(State(at, f, text, F), kind, w) = State("name", f, <<>>, With(F, f, Text(kind, w)))
  <1> DEFINE s == State(at, f, text, F)
             G == With(F, f, Text(kind, w))
             end == State("name", f, <<>>, G)
  <1>1. s = [at |-> at, field |-> f, text |-> text, fields |-> F]
    BY DEF State
  <1>2. s.field = f /\ s.fields = F
    BY <1>1
  <1>3. Ended(s, kind, w) = [s EXCEPT !.at = "name", !.text = <<>>, !.fields = G]
    BY <1>2 DEF Ended, With
  <1>4. end = [at |-> "name", field |-> f, text |-> <<>>, fields |-> G]
    BY DEF State
  <1> HIDE DEF s, G, end
  <1>5. [s EXCEPT !.at = "name", !.text = <<>>, !.fields = G] = end
    <2>1. PICK name, none : name = "name" /\ none = <<>>
      OBVIOUS
    <2>2. PICK a : a = [s EXCEPT !.at = name]
      OBVIOUS
    <2>3. PICK b : b = [a EXCEPT !.text = none]
      OBVIOUS
    <2>4. a = [at |-> name, field |-> f, text |-> text, fields |-> F]
      BY <1>1, <2>2
    <2>5. b = [at |-> name, field |-> f, text |-> none, fields |-> F]
      BY <2>3, <2>4
    <2>6. [b EXCEPT !.fields = G] = [at |-> name, field |-> f, text |-> none, fields |-> G]
      BY <2>5
    <2>7. [s EXCEPT !.at = name, !.text = none, !.fields = G] = [b EXCEPT !.fields = G]
      BY <2>2, <2>3
    <2>8. QED
      BY <1>4, <2>1, <2>6, <2>7
  <1>6. QED
    BY <1>3, <1>5 DEF s, G, end

-------------------------------------------------------------------------------
(* The lexer reads an escaped string back, whatever characters it has.     *)
LEMMA ReadsString ==
    ASSUME NEW f, NEW F, NEW w \in Seq(Letter)
    PROVE  Reads(State("string", f, <<>>, F), Escaped(w), State("string", f, w, F))
  <1> DEFINE s == State("string", f, <<>>, F)
             T == {v \in Seq(Letter) : Reads(s, Escaped(v), State("string", f, v, F))}
  <1>0. Letter \subseteq Char /\ Seq(Letter) \subseteq Seq(Char)
    BY DEF Char
  <1>1. <<>> \in T
    <2>1. Escaped(<<>>) = <<>>
      <3>1. "n" \in Letter /\ <<>> \in Seq(Letter)
        BY DEF Letter
      <3>2. QED
        BY <3>1, EscapedAppend
    <2>2. QED
      BY <2>1, ReadsNothing, EmptySeq
  <1>2. ASSUME NEW v \in Seq(Letter), NEW x \in Letter, v \in T PROVE Append(v, x) \in T
    <2> DEFINE mid == State("string", f, v, F)
               end == State("string", f, Append(v, x), F)
    <2>1. Append(v, x) \in Seq(Letter)
      BY AppendProperties
    <2>2. /\ Reads(s, Escaped(v), mid) /\ Escaped(v) \in Seq(Char)
          /\ Escaped(Append(v, x)) = Escaped(v) \o Escape(x)
      BY <1>0, <1>2, EscapedAppend
    <2>3. Escape(x) \in Seq(Char) /\ Reads(mid, Escape(x), end)
      <3>1. {"backslash", "n", x} \subseteq Char
        BY <1>0 DEF Letter
      <3>2. CASE x \in {"quote", "backslash"}
        <4> DEFINE e == State("escape", f, v, F)
        <4>1. Escape(x) = <<"backslash">> \o <<x>> /\ <<"backslash">> \in Seq(Char) /\ <<x>> \in Seq(Char)
          BY <3>1, <3>2 DEF Escape
        <4>2. Lexed(mid, "backslash") = e /\ Lexed(e, x) = end
          BY <3>2 DEF Lexed, RawKind, State, More
        <4> HIDE DEF mid, e, end
        <4>3. Reads(mid, <<"backslash">>, e) /\ Reads(e, <<x>>, end)
          BY <3>1, <4>2, ReadsOne
        <4>4. Reads(mid, <<"backslash">> \o <<x>>, end)
          BY <4>1, <4>3, ReadsOn
        <4>5. QED
          BY <4>1, <4>4, ConcatProperties
      <3>3. CASE x = "newline"
        <4> DEFINE e == State("escape", f, v, F)
        <4>1. Escape(x) = <<"backslash">> \o <<"n">> /\ <<"backslash">> \in Seq(Char) /\ <<"n">> \in Seq(Char)
          BY <3>1, <3>3 DEF Escape
        <4>2. Lexed(mid, "backslash") = e /\ Lexed(e, "n") = end
          BY <3>3 DEF Lexed, RawKind, State, More
        <4> HIDE DEF mid, e, end
        <4>3. Reads(mid, <<"backslash">>, e) /\ Reads(e, <<"n">>, end)
          BY <3>1, <4>2, ReadsOne
        <4>4. Reads(mid, <<"backslash">> \o <<"n">>, end)
          BY <4>1, <4>3, ReadsOn
        <4>5. QED
          BY <4>1, <4>4, ConcatProperties
      <3>4. CASE x \notin {"quote", "backslash", "newline"}
        <4>1. Escape(x) = <<x>> /\ <<x>> \in Seq(Char)
          BY <3>1, <3>4 DEF Escape
        <4>2. Lexed(mid, x) = end
          BY <3>4 DEF Lexed, RawKind, State, More
        <4> HIDE DEF mid, end
        <4>3. QED
          BY <3>1, <4>1, <4>2, ReadsOne
      <3>5. QED
        BY <3>2, <3>3, <3>4
    <2> HIDE DEF s, mid
    <2>4. Reads(s, Escaped(v) \o Escape(x), end)
      BY <2>2, <2>3, ReadsOn
    <2>5. QED
      BY <2>1, <2>2, <2>4
  <1> HIDE DEF T
  <1>3. \A v \in Seq(Letter) : v \in T
    BY <1>1, <1>2, SequencesOnSet
  <1>4. QED
    BY <1>3 DEF T

LEMMA ReadsBytes ==
    ASSUME NEW f, NEW F, NEW u \in Seq({"1", "="})
    PROVE  Reads(State("bytes", f, <<>>, F), u, State("bytes", f, u, F))
  <1> DEFINE s == State("bytes", f, <<>>, F)
             T == {v \in Seq({"1", "="}) : Reads(s, v, State("bytes", f, v, F))}
  <1>0. {"1", "="} \subseteq Char /\ Seq({"1", "="}) \subseteq Seq(Char)
    BY DEF Char, Letter
  <1>1. <<>> \in T
    BY ReadsNothing, EmptySeq
  <1>2. ASSUME NEW v \in Seq({"1", "="}), NEW c \in {"1", "="}, v \in T PROVE Append(v, c) \in T
    <2> DEFINE mid == State("bytes", f, v, F)
               end == State("bytes", f, Append(v, c), F)
    <2>1. Append(v, c) \in Seq({"1", "="}) /\ Append(v, c) = v \o <<c>>
          /\ v \in Seq(Char) /\ c \in Char /\ <<c>> \in Seq(Char)
      BY <1>0, AppendProperties, AppendIsConcat
    <2>2. Lexed(mid, c) = end /\ Reads(s, v, mid)
      BY <1>2 DEF Lexed, RawKind, State, More
    <2> HIDE DEF s, mid, end
    <2>3. Reads(mid, <<c>>, end)
      BY <2>1, <2>2, ReadsOne
    <2>4. Reads(s, v \o <<c>>, end)
      BY <2>1, <2>2, <2>3, ReadsOn
    <2>5. QED
      BY <2>1, <2>4 DEF end
  <1> HIDE DEF T
  <1>3. \A v \in Seq({"1", "="}) : v \in T
    BY <1>1, <1>2, SequencesOnSet
  <1>4. QED
    BY <1>3 DEF T

LEMMA ReadsRaw ==
    ASSUME NEW f, NEW F, NEW kind \in RawKind, NEW u \in Seq({Sign[kind]}), u # <<>>
    PROVE  Reads(State("value", f, <<>>, F), u, State(kind, f, u, F))
  <1> DEFINE s == State("value", f, <<>>, F)
             sign == Sign[kind]
             T == {v \in Seq({sign}) : v # <<>> => Reads(s, v, State(kind, f, v, F))}
  <1>0. sign \in Char /\ {sign} \subseteq Char /\ Seq({sign}) \subseteq Seq(Char) /\ sign # "newline"
    <2>1. sign \in {"1", "w", "T"}
      BY Signs DEF ValueKind
    <2> HIDE DEF sign
    <2>2. QED
      BY <2>1 DEF Char, Letter
  <1>1. <<>> \in T
    BY EmptySeq
  <1>2. ASSUME NEW v \in Seq({sign}), NEW c \in {sign}, v \in T PROVE Append(v, c) \in T
    <2> DEFINE mid == State(kind, f, v, F)
               end == State(kind, f, Append(v, c), F)
    <2>1. Append(v, c) \in Seq({sign}) /\ Append(v, c) = v \o <<c>>
          /\ v \in Seq(Char) /\ c \in Char /\ <<c>> \in Seq(Char) /\ c = sign
      BY <1>0, AppendProperties, AppendIsConcat
    <2>2. CASE v = <<>>
      <3>1. Append(v, c) = <<sign>>
        BY <2>1, <2>2
      <3>2. Lexed(s, sign) = State(kind, f, <<sign>>, F)
        BY LexedSign
      <3>3. Lexed(s, sign) = end
        BY <3>1, <3>2
      <3> HIDE DEF s, end, sign
      <3>4. Reads(s, <<sign>>, end)
        BY <1>0, <3>3, ReadsOne
      <3>5. QED
        BY <2>1, <3>1, <3>4 DEF end
    <2>3. CASE v # <<>>
      <3>1. Reads(s, v, mid)
        BY <1>2, <2>3
      <3>2. Lexed(mid, c) = end
        <4>1. mid = [at |-> kind, field |-> f, text |-> v, fields |-> F]
          BY DEF State
        <4>2. end = [mid EXCEPT !.text = Append(@, c)]
          <5> DEFINE w == Append(v, c)
          <5>1. end = [at |-> kind, field |-> f, text |-> w, fields |-> F]
            BY DEF State
          <5>2. mid.text = v
            BY <4>1
          <5> HIDE DEF w, end, mid
          <5>3. [mid EXCEPT !.text = w] = [at |-> kind, field |-> f, text |-> w, fields |-> F]
            BY <4>1
          <5>4. QED
            BY <5>1, <5>2, <5>3 DEF w
        <4>3. mid.at = kind /\ kind \notin {"name", "=", "value"} /\ c # "newline" /\ c = Sign[mid.at]
          BY <1>0, <2>1, <4>1 DEF RawKind
        <4> HIDE DEF mid, end, sign
        <4>4. QED
          BY <4>2, <4>3 DEF Lexed, RawKind, More
      <3> HIDE DEF s, mid, end, sign
      <3>3. Reads(mid, <<c>>, end)
        BY <2>1, <3>2, ReadsOne
      <3>4. Reads(s, v \o <<c>>, end)
        BY <2>1, <3>1, <3>3, ReadsOn
      <3>5. QED
        BY <2>1, <3>4 DEF end
    <2>4. QED
      BY <2>2, <2>3
  <1> HIDE DEF T
  <1>3. \A v \in Seq({sign}) : v \in T
    BY <1>1, <1>2, SequencesOnSet
  <1>4. QED
    BY <1>3 DEF T

(* base64 has the length back from the padding.                            *)
LEMMA DecodedEncoded ==
    ASSUME NEW s \in Seq({"1"})
    PROVE  Encoded(s) \in Seq({"1", "="}) /\ Decoded(Encoded(s)) = s
  <1> DEFINE L == Len(s)
             n == 4 * ((L + 2) \div 3)
             p == Padding(L)
             u == Encoded(s)
  <1>1. L \in Nat
    BY LenProperties
  <1>2. n \in Nat /\ p \in 0 .. 2 /\ p <= n /\ 3 * (n \div 4) - p = L
    <2>1. PICK q \in Nat, r \in 0 .. 2 : L = 3 * q + r
      <3> HIDE DEF L
      <3>1. L \div 3 \in Nat /\ L % 3 \in 0 .. 2 /\ L = 3 * (L \div 3) + (L % 3)
        BY <1>1
      <3>2. QED
        BY <3>1
    <2> HIDE DEF L
    <2>2. p = (IF r = 0 THEN 0 ELSE 3 - r)
      BY <2>1 DEF Padding
    <2>3. (L + 2) \div 3 = q + (IF r = 0 THEN 0 ELSE 1)
      BY <2>1
    <2>4. QED
      BY <2>1, <2>2, <2>3
  <1>3. u = [k \in 1 .. n |-> IF k > n - p THEN "=" ELSE "1"]
    BY DEF Encoded
  <1> HIDE DEF L, n, p, u
  <1>4. u \in Seq({"1", "="}) /\ Len(u) = n /\ DOMAIN u = 1 .. n
    BY <1>2, <1>3
  <1>5. {k \in DOMAIN u : u[k] = "="} = (n - p + 1) .. n
    BY <1>2, <1>3
  <1>6. Cardinality((n - p + 1) .. n) = p
    <2>1. n - p + 1 \in Int /\ n \in Int
      BY <1>2
    <2>2. Cardinality((n - p + 1) .. n) = IF n - p + 1 > n THEN 0 ELSE n - (n - p + 1) + 1
      BY <2>1, FS_Interval
    <2>3. QED
      BY <1>2, <2>2
  <1>7. Decoded(u) = [k \in 1 .. L |-> "1"]
    BY <1>2, <1>4, <1>5, <1>6 DEF Decoded
  <1>8. s = [k \in 1 .. L |-> "1"]
    <2>1. DOMAIN s = 1 .. L /\ s \in [1 .. L -> {"1"}]
      BY LenProperties DEF L
    <2>2. QED
      BY <2>1
  <1>9. QED
    BY <1>4, <1>7, <1>8 DEF u
-------------------------------------------------------------------------------
(* The cells of a dataset. *)
Readable == (Value \union {Absent, Null}) \ Blank

LEMMA Kinds ==
    ASSUME NEW cell \in Readable, cell # Absent, cell # Null
    PROVE  /\ cell = Text(cell.kind, cell.text)
           /\ cell.text \in Seq(Letter)
           /\ \/ cell.kind = "string"
              \/ cell.kind = "bool" /\ cell.text \in {<<>>, <<"1">>}
              \/ cell.kind = "bytes" /\ cell.text \in Seq({"1"})
              \/ /\ cell.kind \in RawKind
                 /\ cell.text \in Seq({Sign[cell.kind]}) /\ cell.text # <<>>
  <1>1. cell \in Value /\ cell \notin Blank
    BY DEF Readable
  <1>2. /\ cell \in [kind : ValueKind, text : Seq(Letter)]
        /\ cell.kind # "string" => cell.text \in Seq({Sign[cell.kind]})
        /\ cell.kind = "bool" => Len(cell.text) <= 1
    BY <1>1 DEF Value
  <1>3. cell = Text(cell.kind, cell.text)
    BY <1>2 DEF Text
  <1>4. cell.kind \in RawKind => cell.text # <<>>
    BY <1>1, <1>3 DEF Blank
  <1>5. CASE cell.kind = "bool"
    <2>1. cell.text \in Seq({"1"}) /\ Len(cell.text) <= 1
      BY <1>2, <1>5, Signs
    <2>2. cell.text \in {<<>>, <<"1">>}
      <3> DEFINE u == cell.text
      <3> HIDE DEF u
      <3>1. u \in Seq({"1"}) /\ Len(u) <= 1
        BY <2>1 DEF u
      <3>2. Len(u) \in Nat /\ u = [k \in 1 .. Len(u) |-> u[k]] /\ \A k \in 1 .. Len(u) : u[k] = "1"
        BY <3>1
      <3>3. CASE Len(u) = 0
        <4>1. u = <<>>
          BY <3>1, <3>3, EmptySeq
        <4>2. QED
          BY <4>1 DEF u
      <3>4. CASE Len(u) = 1
        <4>1. u = <<"1">>
          BY <3>1, <3>2, <3>4
        <4>2. QED
          BY <4>1 DEF u
      <3>5. QED
        BY <3>1, <3>2, <3>3, <3>4
    <2>3. QED
      BY <1>2, <1>3, <1>5, <2>2
  <1>6. CASE cell.kind = "bytes"
    <2>1. cell.text \in Seq({"1"})
      BY <1>2, <1>6, Signs
    <2>2. QED
      BY <1>2, <1>3, <1>6, <2>1
  <1>7. CASE cell.kind \in RawKind
    <2>1. cell.kind # "string"
      BY <1>7 DEF RawKind
    <2>2. QED
      BY <1>2, <1>3, <1>4, <1>7, <2>1
  <1>8. QED
    BY <1>2, <1>3, <1>5, <1>6, <1>7 DEF ValueKind

(* A value is read back as the cell it was written from.                   *)
LEMMA ReadsValue ==
    ASSUME NEW f, NEW F, NEW cell \in Readable, cell # Absent
    PROVE  LET end == State("name", f, <<>>, [F EXCEPT ![f] = cell])
           IN  /\ Rendered(cell) \in Seq(Char)
               /\ \E mid : /\ Reads(State("value", f, <<>>, F), Rendered(cell), mid)
                           /\ Reads(mid, <<"newline">>, end)
  <1> DEFINE s == State("value", f, <<>>, F)
             end == State("name", f, <<>>, [F EXCEPT ![f] = cell])
             v == Rendered(cell)
  <1>0. /\ {"quote", "b", "null", "newline"} \subseteq Char
        /\ Seq(Letter) \subseteq Seq(Char) /\ Seq({"1"}) \subseteq Seq(Char)
        /\ Seq({"1", "="}) \subseteq Seq(Char)
        /\ <<"quote">> \in Seq(Char) /\ <<"b">> \in Seq(Char)
    BY DEF Char, Letter
  <1>1. Reads(end, <<"newline">>, end)
    <2>1. Lexed(end, "newline") = end
      BY CellsAssumption DEF Lexed, RawKind, State
    <2> HIDE DEF end
    <2>2. QED
      BY <1>0, <2>1, ReadsOne
  <1>2. CASE cell = Null
    <2>1. v = <<"null">>
      BY <1>2 DEF Rendered, RawKind, Null, Text
    <2>2. Lexed(s, "null") = end
      BY <1>2, LexedInValue
    <2> HIDE DEF s, end, v
    <2>3. Reads(s, <<"null">>, end)
      BY <1>0, <2>2, ReadsOne
    <2>4. QED
      BY <1>0, <1>1, <2>1, <2>3 DEF s, end, v
  <1>3. CASE cell # Null /\ cell.kind = "string"
    <2> DEFINE w == cell.text
               opened == State("string", f, <<>>, F)
               full == State("string", f, w, F)
    <2>1. w \in Seq(Letter) /\ cell = Text("string", w)
      BY <1>3, Kinds
    <2>2. v = (<<"quote">> \o Escaped(w)) \o <<"quote">>
      BY <1>3 DEF Rendered, RawKind
    <2>3. Escaped(w) \in Seq(Char)
      <3>1. "n" \in Letter
        BY DEF Letter
      <3>2. QED
        BY <1>0, <2>1, <3>1, EscapedAppend
    <2>4. Lexed(s, "quote") = opened
      BY LexedInValue
    <2>5. Lexed(full, "quote") = end
      BY <2>1 DEF Lexed, RawKind, State, Ended
    <2>6. Reads(opened, Escaped(w), full)
      BY <2>1, ReadsString
    <2> HIDE DEF s, end, v, opened, full, w
    <2>7. Reads(s, <<"quote">>, opened) /\ Reads(full, <<"quote">>, end)
      BY <1>0, <2>4, <2>5, ReadsOne
    <2>8. Reads(s, <<"quote">> \o Escaped(w), full) /\ <<"quote">> \o Escaped(w) \in Seq(Char)
      BY <1>0, <2>3, <2>6, <2>7, ReadsOn, ConcatProperties
    <2>9. Reads(s, v, end) /\ v \in Seq(Char)
      BY <1>0, <2>2, <2>7, <2>8, ReadsOn, ConcatProperties
    <2>10. QED
      BY <1>1, <2>9 DEF s, end, v
  <1>4. CASE cell # Null /\ cell.kind \in RawKind
    <2> DEFINE w == cell.text
               kind == cell.kind
               full == State(kind, f, w, F)
    <2>1. w \in Seq({Sign[kind]}) /\ w # <<>> /\ cell = Text(kind, w) /\ w \in Seq(Char)
      <3>1. kind \notin {"string", "bool", "bytes"}
        BY <1>4 DEF RawKind
      <3>2. QED
        BY <1>0, <1>4, <3>1, Kinds
    <2>2. v = w
      BY <1>4 DEF Rendered, RawKind
    <2>3. Lexed(full, "newline") = end
      <3>1. full = [at |-> kind, field |-> f, text |-> w, fields |-> F]
        BY DEF State
      <3>2. full.text = w
        BY <3>1
      <3>3. full.at = kind /\ kind \in RawKind /\ kind \notin {"name", "=", "value"}
        BY <1>4, <3>1 DEF RawKind
      <3>4. Ended(full, kind, w) = end
        <4>1. PICK k, t : k = kind /\ t = w
          OBVIOUS
        <4>2. cell = Text(k, t) /\ full = State(k, f, t, F)
          BY <2>1, <4>1
        <4>3. end = State("name", f, <<>>, With(F, f, Text(k, t)))
          BY <4>2 DEF With
        <4> HIDE DEF full, kind, w, end
        <4>4. Ended(State(k, f, t, F), k, t) = State("name", f, <<>>, With(F, f, Text(k, t)))
          BY StateEnded
        <4>5. QED
          BY <4>1, <4>2, <4>3, <4>4
      <3>5. Lexed(full, "newline") = Ended(full, full.at, full.text)
        <4>1. Sign["number"] # "newline" /\ Sign["ident"] # "newline" /\ Sign["time"] # "newline"
          BY Signs
        <4>2. full.at \in RawKind
          BY <3>3
        <4> HIDE DEF full
        <4>3. CASE full.at = "number"
          BY <4>1, <4>3 DEF Lexed, RawKind
        <4>4. CASE full.at = "ident"
          BY <4>1, <4>4 DEF Lexed, RawKind
        <4>5. CASE full.at = "time"
          BY <4>1, <4>5 DEF Lexed, RawKind
        <4>6. QED
          BY <4>2, <4>3, <4>4, <4>5 DEF RawKind
      <3>6. QED
        BY <3>2, <3>3, <3>4, <3>5
    <2>4. Reads(s, w, full)
      BY <1>4, <2>1, ReadsRaw
    <2> HIDE DEF s, end, v, full, w, kind
    <2>5. Reads(full, <<"newline">>, end)
      BY <1>0, <2>3, ReadsOne
    <2>6. QED
      BY <2>1, <2>2, <2>4, <2>5 DEF s, end, v
  <1>5. CASE cell # Null /\ cell.kind = "bytes"
    <2> DEFINE w == cell.text
               u == Encoded(w)
               b == State("b", f, <<>>, F)
               opened == State("bytes", f, <<>>, F)
               full == State("bytes", f, u, F)
    <2>1. w \in Seq({"1"}) /\ cell = Text("bytes", w)
      BY <1>5, Kinds DEF RawKind
    <2>2. v = ((<<"b">> \o <<"quote">>) \o u) \o <<"quote">>
      BY <1>5 DEF Rendered, RawKind
    <2>3. u \in Seq({"1", "="}) /\ u \in Seq(Char) /\ Decoded(u) = w
      BY <1>0, <2>1, DecodedEncoded
    <2>4. Lexed(s, "b") = b
      BY LexedInValue
    <2>5. Lexed(b, "quote") = opened
      BY DEF Lexed, RawKind, State
    <2> HIDE DEF u
    <2>6. Lexed(full, "quote") = end
      BY <2>1, <2>3 DEF Lexed, RawKind, State, Ended
    <2>7. Reads(opened, u, full)
      BY <2>3, ReadsBytes
    <2> HIDE DEF s, end, v, opened, full, w, b
    <2>8. Reads(s, <<"b">>, b) /\ Reads(b, <<"quote">>, opened) /\ Reads(full, <<"quote">>, end)
      BY <1>0, <2>4, <2>5, <2>6, ReadsOne
    <2>9. Reads(s, <<"b">> \o <<"quote">>, opened) /\ <<"b">> \o <<"quote">> \in Seq(Char)
      BY <1>0, <2>8, ReadsOn, ConcatProperties
    <2> DEFINE front == <<"b">> \o <<"quote">>
    <2> HIDE DEF front
    <2>10. Reads(s, front \o u, full) /\ front \o u \in Seq(Char)
      <3>1. Reads(s, front, opened) /\ front \in Seq(Char)
        BY <2>9 DEF front
      <3>2. QED
        BY <2>3, <2>7, <3>1, ReadsOn, ConcatProperties
    <2>11. Reads(s, v, end) /\ v \in Seq(Char)
      <3>1. v = (front \o u) \o <<"quote">>
        BY <2>2 DEF front
      <3>2. QED
        BY <1>0, <2>8, <2>10, <3>1, ReadsOn, ConcatProperties
    <2>12. QED
      BY <1>1, <2>11 DEF s, end, v
  <1>6. CASE cell # Null /\ cell.kind = "bool"
    <2>1. PICK word \in {"true", "false"} : v = <<word>> /\ Lexed(s, word) = end
      <3>1. cell = Text("bool", cell.text) /\ cell.text \in {<<>>, <<"1">>}
        BY <1>6, Kinds DEF RawKind
      <3>2. CASE cell.text = <<>>
        <4>1. v = <<"false">>
          BY <1>6, <3>2 DEF Rendered, RawKind
        <4>2. Lexed(s, "false") = end
          <5>1. end = State("name", f, <<>>, [F EXCEPT ![f] = Text("bool", <<>>)])
            BY <3>1, <3>2
          <5>2. QED
            BY <5>1, LexedInValue
        <4>3. QED
          BY <4>1, <4>2
      <3>3. CASE cell.text = <<"1">>
        <4>1. cell.text # <<>>
          BY <3>3
        <4>2. v = <<"true">>
          BY <1>6, <4>1 DEF Rendered, RawKind
        <4>3. Lexed(s, "true") = end
          <5>1. end = State("name", f, <<>>, [F EXCEPT ![f] = Text("bool", <<"1">>)])
            BY <3>1, <3>3
          <5>2. QED
            BY <5>1, LexedInValue
        <4>4. QED
          BY <4>2, <4>3
      <3>4. QED
        BY <3>1, <3>2, <3>3
    <2>2. word \in Char /\ <<word>> \in Seq(Char)
      BY DEF Char
    <2> HIDE DEF s, end, v
    <2>3. Reads(s, <<word>>, end)
      BY <2>1, <2>2, ReadsOne
    <2>4. QED
      BY <1>1, <2>1, <2>2, <2>3 DEF s, end, v
  <1>7. QED
    BY <1>2, <1>3, <1>4, <1>5, <1>6, Kinds

LEMMA ReadsLine ==
    ASSUME NEW g, NEW f \in Field, NEW F, NEW cell \in Readable
    PROVE  /\ Line(f, cell) \in Seq(Char)
           /\ \E h : Reads(State("name", g, <<>>, F), Line(f, cell),
                           State("name", h, <<>>,
                                 IF cell = Absent THEN F ELSE [F EXCEPT ![f] = cell]))
  <1>1. CASE cell = Absent
    BY <1>1, ReadsNothing, EmptySeq DEF Line
  <1>2. CASE cell # Absent
    <2> DEFINE s == State("name", g, <<>>, F)
               equals == State("=", f, <<>>, F)
               value == State("value", f, <<>>, F)
               end == State("name", f, <<>>, [F EXCEPT ![f] = cell])
               v == Rendered(cell)
               head == <<f>> \o <<"=">>
    <2>1. /\ {f, "=", "newline"} \subseteq Char
          /\ <<f>> \in Seq(Char) /\ <<"=">> \in Seq(Char) /\ <<"newline">> \in Seq(Char)
      BY DEF Char, Letter
    <2>2. Line(f, cell) = (head \o v) \o <<"newline">>
      BY <1>2 DEF Line
    <2>3. Lexed(s, f) = equals /\ Lexed(equals, "=") = value
      BY LexedInName
    <2>4. v \in Seq(Char) /\ \E mid : Reads(value, v, mid) /\ Reads(mid, <<"newline">>, end)
      BY <1>2, ReadsValue
    <2> HIDE DEF s, equals, value, end, v
    <2>5. Reads(s, <<f>>, equals) /\ Reads(equals, <<"=">>, value)
      BY <2>1, <2>3, ReadsOne
    <2>6. Reads(s, head, value) /\ head \in Seq(Char)
      BY <2>1, <2>5, ReadsOn, ConcatProperties
    <2> HIDE DEF head
    <2>7. PICK mid : Reads(value, v, mid) /\ Reads(mid, <<"newline">>, end)
      BY <2>4
    <2>8. Reads(s, head \o v, mid) /\ head \o v \in Seq(Char)
      BY <2>4, <2>6, <2>7, ReadsOn, ConcatProperties
    <2>9. Reads(s, (head \o v) \o <<"newline">>, end) /\ (head \o v) \o <<"newline">> \in Seq(Char)
      BY <2>1, <2>7, <2>8, ReadsOn, ConcatProperties
    <2>10. Reads(s, Line(f, cell), end) /\ Line(f, cell) \in Seq(Char)
      BY <2>2, <2>9
    <2>11. QED
      BY <1>2, <2>10 DEF s, end
  <1>3. QED
    BY <1>1, <1>2
-------------------------------------------------------------------------------
(* The text of a row is read back as the row: no syntax error, every cell  *)
(* in its column's field, and nothing in the others.                       *)
TextOf(cols, cells) == FlattenSeq([k \in DOMAIN cells |-> Line(cols[k], cells[k])])

LEMMA ReadsRow ==
    ASSUME NEW cols \in Seq(Field), IsInjective(cols),
           NEW cells \in [DOMAIN cols -> Readable]
    PROVE  /\ TextOf(cols, cells) \in Seq(Char)
           /\ LET end == Parsed(TextOf(cols, cells))
              IN  /\ end.at = "name"
                  /\ \A k \in DOMAIN cols : end.fields[cols[k]] = cells[k]
                  /\ \A f \in Field : (\A k \in DOMAIN cols : cols[k] # f) => end.fields[f] = Absent
  <1> DEFINE n == Len(cols)
             lines(m) == [k \in 1 .. m |-> Line(cols[k], cells[k])]
             Given(F, m) == /\ F = [f \in Field |-> F[f]]
                            /\ \A k \in 1 .. m : F[cols[k]] = cells[k]
                            /\ \A f \in Field : (\A k \in 1 .. m : cols[k] # f) => F[f] = Absent
             ReadTo(m) == \E h, F : /\ Given(F, m)
                                    /\ Parsed(FlattenSeq(lines(m))) = State("name", h, <<>>, F)
             T == {m \in Nat : m <= n => ReadTo(m)}
  <1>1. /\ n \in Nat /\ DOMAIN cols = 1 .. n /\ DOMAIN cells = 1 .. n
        /\ \A k \in 1 .. n : cols[k] \in Field /\ cells[k] \in Readable
    BY LenProperties, ElementOfSeq
  <1>2. \A k \in 1 .. n : Line(cols[k], cells[k]) \in Seq(Char)
    BY <1>1, ReadsLine
  <1>3. \A m \in 0 .. n : lines(m) \in Seq(Seq(Char)) /\ Len(lines(m)) = m
    BY <1>1, <1>2
  <1>4. \A m \in 0 .. n : FlattenSeq(lines(m)) \in Seq(Char)
    <2> SUFFICES ASSUME NEW m \in 0 .. n PROVE FlattenSeq(lines(m)) \in Seq(Char)
      OBVIOUS
    <2> DEFINE l == lines(m)
    <2>1. l \in Seq(Seq(Char)) /\ <<>> \in Seq(Char)
      BY <1>3
    <2> HIDE DEF l
    <2>2. FlattenSeq(l) \in Seq(Char)
      BY <2>1, FlattenAppend
    <2>3. QED
      BY <2>2 DEF l
  <1>5. 0 \in T
    <2> DEFINE F == [f \in Field |-> Absent]
    <2>1. FlattenSeq(lines(0)) = <<>>
      <3>1. lines(0) = <<>>
        OBVIOUS
      <3>2. QED
        BY <3>1 DEF FlattenSeq
    <2>2. Parsed(<<>>) = State("name", "none", <<>>, F)
      <3>1. <<>> \in Seq(Char) /\ "b" \in Char
        BY DEF Char
      <3>2. Parsed(<<>>) = Start
        BY <3>1, ParsedAppend
      <3>3. QED
        BY <3>2 DEF Start, State
    <2>3. Given(F, 0)
      OBVIOUS
    <2> HIDE DEF Given, F
    <2>4. Parsed(FlattenSeq(lines(0))) = State("name", "none", <<>>, F)
      BY <2>1, <2>2
    <2>5. ReadTo(0)
      BY <2>3, <2>4
    <2>6. QED
      BY <2>5
  <1>6. ASSUME NEW m \in Nat, m \in T PROVE m + 1 \in T
    <2> SUFFICES ASSUME m + 1 <= n PROVE ReadTo(m + 1)
      OBVIOUS
    <2> DEFINE c == cols[m + 1]
               x == cells[m + 1]
               old == FlattenSeq(lines(m))
               new == FlattenSeq(lines(m + 1))
    <2>1. m \in 0 .. n /\ m + 1 \in 1 .. n /\ c \in Field /\ x \in Readable
          /\ Line(c, x) \in Seq(Char)
      BY <1>1, <1>2
    <2>2. PICK h, F : Given(F, m) /\ Parsed(old) = State("name", h, <<>>, F)
      BY <1>1, <1>6
    <2>3. new = old \o Line(c, x) /\ old \in Seq(Char)
      <3> DEFINE l == lines(m)
                 more == lines(m + 1)
      <3>1. more = Append(l, Line(c, x))
        <4>1. Append(l, Line(c, x)) \in Seq(Seq(Char)) /\ Len(Append(l, Line(c, x))) = m + 1
          BY <1>3, <2>1, AppendProperties
        <4>2. more \in Seq(Seq(Char)) /\ Len(more) = m + 1
          BY <1>3, <2>1
        <4>3. ASSUME NEW k \in 1 .. m + 1 PROVE more[k] = Append(l, Line(c, x))[k]
          <5>1. CASE k = m + 1
            BY <1>3, <2>1, <5>1, AppendProperties
          <5>2. CASE k # m + 1
            <6>1. k \in 1 .. m /\ k \in 1 .. Len(l)
              BY <1>3, <2>1, <5>2
            <6>2. Append(l, Line(c, x))[k] = l[k]
              BY <1>3, <2>1, <6>1, AppendProperties
            <6>3. QED
              BY <6>1, <6>2
          <5>3. QED
            BY <5>1, <5>2
        <4> HIDE DEF more, l, c, x
        <4>4. QED
          BY <4>1, <4>2, <4>3, SeqEqual
      <3>2. l \in Seq(Seq(Char)) /\ Line(c, x) \in Seq(Char)
        BY <1>3, <2>1
      <3> HIDE DEF l, more, c, x
      <3>3. FlattenSeq(more) = FlattenSeq(l) \o Line(c, x) /\ FlattenSeq(l) \in Seq(Char)
        BY <3>1, <3>2, FlattenAppend
      <3>4. QED
        BY <3>3 DEF l, more, c, x
    <2> DEFINE G == IF x = Absent THEN F ELSE [F EXCEPT ![c] = x]
    <2>4. Given(G, m + 1)
      <3>1. \A k \in 1 .. m : cols[k] # c /\ cols[k] \in Field /\ k \in 1 .. m + 1
        BY <1>1, <2>1 DEF IsInjective
      <3>2. F = [f \in Field |-> F[f]] /\ G = [f \in Field |-> G[f]]
        BY <2>1, <2>2
      <3>3. G[c] = x /\ \A f \in Field \ {c} : G[f] = F[f]
        <4>1. F[c] = Absent
          BY <2>1, <2>2, <3>1
        <4>2. QED
          BY <2>1, <3>2, <4>1
      <3> HIDE DEF G, x
      <3>4. \A k \in 1 .. m + 1 : G[cols[k]] = cells[k]
        <4> SUFFICES ASSUME NEW k \in 1 .. m + 1 PROVE G[cols[k]] = cells[k]
          OBVIOUS
        <4>1. CASE k = m + 1
          BY <3>3, <4>1 DEF x
        <4>2. CASE k # m + 1
          <5>1. k \in 1 .. m
            BY <4>2
          <5>2. QED
            BY <2>2, <3>1, <3>3, <5>1
        <4>3. QED
          BY <4>1, <4>2
      <3>5. ASSUME NEW f \in Field, \A k \in 1 .. m + 1 : cols[k] # f PROVE G[f] = Absent
        <4>1. f # c /\ \A k \in 1 .. m : cols[k] # f
          BY <3>5
        <4>2. QED
          BY <2>2, <3>3, <4>1
      <3>6. QED
        BY <3>2, <3>4, <3>5
    <2>5. PICK i : Reads(State("name", h, <<>>, F), Line(c, x), State("name", i, <<>>, G))
      <3> HIDE DEF c, x
      <3>1. QED
        BY <2>1, ReadsLine DEF G
    <2> HIDE DEF old, new, G, Given
    <2>6. Parsed(old \o Line(c, x)) = State("name", i, <<>>, G)
      BY <2>2, <2>3, <2>5 DEF Reads
    <2>7. Parsed(new) = State("name", i, <<>>, G)
      BY <2>3, <2>6
    <2>8. QED
      BY <2>4, <2>7 DEF new
  <1>7. n \in T
    <2> HIDE DEF T
    <2>1. \A m \in Nat : m \in T
      BY <1>5, <1>6, InductionOnSet
    <2>2. QED
      BY <1>1, <2>1
  <1>8. TextOf(cols, cells) = FlattenSeq(lines(n))
    BY <1>1 DEF TextOf
  <1>9. PICK h, F : Given(F, n) /\ Parsed(TextOf(cols, cells)) = State("name", h, <<>>, F)
    BY <1>1, <1>7, <1>8
  <1>10. TextOf(cols, cells) \in Seq(Char)
    BY <1>1, <1>4, <1>8
  <1>11. State("name", h, <<>>, F).at = "name" /\ State("name", h, <<>>, F).fields = F
    BY DEF State
  <1>12. QED
    BY <1>1, <1>9, <1>10, <1>11
-------------------------------------------------------------------------------
(* The strengthening.  From Read on, the row is one that a dataset can     *)
(* have; the text is that row's; and once it is decoded, what was decoded  *)
(* is what the row says.  A refusal is one of the text's own: the text     *)
(* itself is always PXF.                                                   *)
RowAtHand == pc # "read" => row \in [DOMAIN columns -> Readable]
BodyOfRow == pc = "decode" => body = TextOf(columns, row)
Within(l) == \A k \in DOMAIN columns : ~ Exceeds(row[k], l)
Decoding == pc = "load" => raw = Said /\ Within(BindLimits)

Justified(why) ==
    CASE why = "type" ->
             \E k \in DOMAIN row : row[k].kind \in ValueKind \ {Type[columns[k]]}
      [] why = "required" -> \E f \in Required : CellOf(f) \in {Absent, Null}
      [] why = "limit" -> \E k \in DOMAIN row : Exceeds(row[k], BindLimits)
      [] OTHER -> why = "none" \/ (by = "hand" /\ why \in {"arity", "unknownKind"})

Refusals == Justified(refusal) /\ (refusal # "none" => pc = "raised")

CellsInv == /\ TypeOK /\ RowAtHand /\ BodyOfRow /\ Decoding
            /\ Refusals /\ HoldsTheLastRow

LEMMA ReadableCells ==
    /\ Absent \in Readable /\ Null \in Readable /\ Absent # Null
    /\ Readable \subseteq Value \union {Absent, Null}
    /\ \A v \in Readable : v \in Value <=> v \notin {Absent, Null}
    /\ \A v \in Readable : v.kind \in ValueKind <=> v \notin {Absent, Null}
    /\ \A f \in Field : Text(Type[f], <<>>) \in Value /\ Text(Type[f], <<Sign[Type[f]]>>) \in Value
  <1>1. Absent.kind = "absent" /\ Null.kind = "null" /\ \A v \in Blank : v.kind \in RawKind
    BY DEF Absent, Null, Text, Blank
  <1>2. \A v \in Value : v.kind \in ValueKind
    BY DEF Value
  <1>3. "absent" \notin ValueKind /\ "null" \notin ValueKind
    BY DEF ValueKind, RawKind
  <1>4. ASSUME NEW kind \in ValueKind, NEW s \in {<<>>, <<Sign[kind]>>} PROVE Text(kind, s) \in Value
    <2>1. PICK sign, t : sign = Sign[kind] /\ t = s
      OBVIOUS
    <2>2. sign \in Letter
      BY <2>1, Signs DEF Letter
    <2>3. s \in Seq({sign}) /\ s \in Seq(Letter) /\ Len(s) <= 1
      <3>1. t = <<>> \/ t = <<sign>>
        BY <2>1
      <3>2. CASE t = <<>>
        BY <2>1, <3>2
      <3>3. CASE t = <<sign>>
        BY <2>1, <2>2, <3>3
      <3>4. QED
        BY <3>1, <3>2, <3>3
    <2>4. QED
      BY <2>1, <2>3 DEF Text, Value
  <1>5. \A f \in Field : Type[f] \in ValueKind
    BY CellsAssumption
  <1>6. ASSUME NEW f \in Field
        PROVE  Text(Type[f], <<>>) \in Value /\ Text(Type[f], <<Sign[Type[f]]>>) \in Value
    BY <1>4, <1>5
  <1>7. Absent \in Readable /\ Null \in Readable
    BY <1>1, <1>3 DEF Readable, ValueKind
  <1>8. Readable \subseteq Value \union {Absent, Null}
    BY DEF Readable
  <1>9. QED
    BY <1>1, <1>2, <1>3, <1>4, <1>5, <1>6, <1>7, <1>8

(* What the parser found in the text of a row are the row's cells.         *)
LEMMA FieldsOfRow ==
    ASSUME columns \in Columns, row \in [DOMAIN columns -> Readable]
    PROVE  /\ TextOf(columns, row) \in Seq(Char)
           /\ \A k \in DOMAIN columns :
                  columns[k] \in Field /\ row[k] \in Readable /\ CellOf(columns[k]) = row[k]
           /\ \A f \in Field :
                  /\ CellOf(f) \in Readable
                  /\ CellOf(f) = Absent \/ \E k \in DOMAIN columns :
                                              columns[k] = f /\ row[k] = CellOf(f)
           /\ Parsed(TextOf(columns, row)).at = "name"
           /\ \A f \in Field : Parsed(TextOf(columns, row)).fields[f] = CellOf(f)
  <1>1. columns \in Seq(Field) /\ IsInjective(columns)
    BY CellsAssumption
  <1>2. DOMAIN columns = 1 .. Len(columns) /\ \A k \in DOMAIN columns : columns[k] \in Field
    BY <1>1, LenProperties
  <1>3. \A k \in DOMAIN columns : CellOf(columns[k]) = row[k]
    BY <1>1, <1>2 DEF CellOf, IsInjective
  <1>4. ASSUME NEW f \in Field, \A k \in DOMAIN columns : columns[k] # f PROVE CellOf(f) = Absent
    BY <1>4 DEF CellOf
  <1>5. PICK text : text = TextOf(columns, row)
    OBVIOUS
  <1>6. /\ text \in Seq(Char)
        /\ Parsed(text).at = "name"
        /\ \A k \in DOMAIN columns : Parsed(text).fields[columns[k]] = row[k]
        /\ \A f \in Field : (\A k \in DOMAIN columns : columns[k] # f) => Parsed(text).fields[f] = Absent
    BY <1>1, <1>5, ReadsRow
  <1>7. ASSUME NEW f \in Field
        PROVE  /\ CellOf(f) \in Readable
               /\ CellOf(f) = Absent \/ \E k \in DOMAIN columns :
                                           columns[k] = f /\ row[k] = CellOf(f)
               /\ Parsed(text).fields[f] = CellOf(f)
    <2>1. CASE \E k \in DOMAIN columns : columns[k] = f
      <3>1. PICK k \in DOMAIN columns : columns[k] = f
        BY <2>1
      <3>2. QED
        BY <1>3, <1>6, <3>1
    <2>2. CASE \A k \in DOMAIN columns : columns[k] # f
      BY <1>4, <1>6, <2>2, ReadableCells
    <2>3. QED
      BY <2>1, <2>2
  <1>8. QED
    BY <1>2, <1>3, <1>5, <1>6, <1>7

LEMMA InitInv == Init => CellsInv
  <1> SUFFICES ASSUME Init PROVE CellsInv
    OBVIOUS
  <1>1. Empty \in [Field -> Value \union {Unset}] /\ Stale \in [Field -> Value \union {Unset}]
    BY ReadableCells DEF Empty, Stale, Unset
  <1>2. TypeOK
    BY <1>1 DEF Init, TypeOK
  <1>3. Refusals
    BY DEF Init, Refusals, Justified
  <1>4. QED
    BY <1>2, <1>3 DEF Init, CellsInv, RowAtHand, BodyOfRow, Decoding, HoldsTheLastRow

LEMMA ReadInv == ASSUME CellsInv, Read PROVE CellsInv'
  <1>1. columns \in Columns /\ refusal = "none"
    BY DEF CellsInv, TypeOK, Refusals, Read
  <1>2. row' \in [DOMAIN columns -> Readable]
    <2>1. /\ \A k \in DOMAIN columns : row'[k] \in Cell[columns[k]]
          /\ row' \in [DOMAIN columns -> UNION {Cell[f] : f \in Field}]
      BY DEF Read
    <2>2. \A k \in DOMAIN columns : columns[k] \in Field
      BY <1>1, CellsAssumption, LenProperties, ElementOfSeq
    <2>3. \A f \in Field : Cell[f] \subseteq Readable
      BY CellsAssumption DEF Readable
    <2>4. QED
      BY <2>1, <2>2, <2>3
  <1>3. row' \in Seq(Value \union {Absent, Null})
    <2>1. DOMAIN columns = 1 .. Len(columns) /\ Len(columns) \in Nat
      BY <1>1, CellsAssumption, LenProperties
    <2>2. row' \in [1 .. Len(columns) -> Value \union {Absent, Null}]
      BY <1>2, <2>1, ReadableCells
    <2>3. QED
      BY <2>1, <2>2
  <1>4. TypeOK'
    BY <1>3 DEF CellsInv, TypeOK, Read
  <1>5. Refusals'
    BY <1>1 DEF Read, Refusals, Justified
  <1>6. QED
    BY <1>2, <1>4, <1>5 DEF CellsInv, Read, RowAtHand, BodyOfRow, Decoding, HoldsTheLastRow

LEMMA BindInv == ASSUME CellsInv, Bind PROVE CellsInv'
  <1>1. row \in [DOMAIN columns -> Readable] /\ columns \in Columns /\ refusal = "none"
    BY DEF CellsInv, RowAtHand, TypeOK, Refusals, Bind
  <1>2. CASE /\ by' \in {"scan", "hand"}
             /\ body' = FlattenSeq([k \in DOMAIN row |-> Line(columns[k], row[k])])
             /\ pc' = "decode"
             /\ UNCHANGED refusal
    <2>1. body' = TextOf(columns, row)
      BY <1>2 DEF TextOf
    <2>2. body' \in Seq(Char)
      BY <1>1, <2>1, FieldsOfRow
    <2>3. TypeOK'
      BY <1>2, <2>2 DEF CellsInv, TypeOK, Bind
    <2>4. Refusals'
      BY <1>1, <1>2 DEF Refusals, Justified
    <2>5. BodyOfRow'
      BY <2>1 DEF Bind, BodyOfRow
    <2>6. QED
      BY <1>1, <1>2, <2>3, <2>4, <2>5 DEF CellsInv, Bind, RowAtHand, Decoding, HoldsTheLastRow
  <1>3. CASE /\ by' = "hand"
             /\ Refuse("arity") \/ (row # <<>> /\ Refuse("unknownKind"))
             /\ UNCHANGED body
    <2>1. TypeOK'
      BY <1>3 DEF CellsInv, TypeOK, Bind, Refuse
    <2>2. Refusals'
      BY <1>3 DEF Refusals, Justified, Refuse
    <2>3. QED
      BY <1>1, <1>3, <2>1, <2>2
         DEF CellsInv, Bind, Refuse, RowAtHand, BodyOfRow, Decoding, HoldsTheLastRow
  <1>4. QED
    BY <1>2, <1>3 DEF Bind
LEMMA DecodeInv == ASSUME CellsInv, Decode PROVE CellsInv'
  <1> DEFINE l == BindLimits
  <1>1. /\ row \in [DOMAIN columns -> Readable] /\ columns \in Columns /\ refusal = "none"
        /\ body = TextOf(columns, row) /\ pc = "decode"
    BY DEF CellsInv, RowAtHand, BodyOfRow, TypeOK, Refusals, Decode
  <1>2. PICK end : end = Parsed(body)
    OBVIOUS
  <1>3. PICK fields : fields = end.fields
    OBVIOUS
  <1> DEFINE given == {f \in Field : fields[f].kind \in ValueKind}
  <1>4. end.at = "name"
    BY <1>1, <1>2, FieldsOfRow
  <1>5. \A f \in Field : fields[f] = CellOf(f) /\ CellOf(f) \in Readable
    BY <1>1, <1>2, <1>3, FieldsOfRow
  <1>6. \A k \in DOMAIN columns : columns[k] \in Field /\ fields[columns[k]] = row[k]
    BY <1>1, <1>5, FieldsOfRow
  <1>7. \A f \in given : \E k \in DOMAIN columns : columns[k] = f /\ row[k] = fields[f]
    <2> SUFFICES ASSUME NEW f \in given
                 PROVE  \E k \in DOMAIN columns : columns[k] = f /\ row[k] = fields[f]
      OBVIOUS
    <2>1. f \in Field /\ CellOf(f) # Absent
      BY <1>5, ReadableCells
    <2>2. QED
      BY <1>1, <1>5, <2>1, FieldsOfRow
  <1>8. DOMAIN row = DOMAIN columns
    BY <1>1
  <1>9. CASE Refuse("syntax") /\ end.at # "name"
    BY <1>4, <1>9
  <1>10. CASE /\ \/ \E f \in given : fields[f].kind # Type[f] /\ Refuse("type")
                 \/ \E f \in given : Exceeds(fields[f], l) /\ Refuse("limit")
                 \/ \E f \in Required \ given : Refuse("required")
              /\ UNCHANGED raw
    <2>1. TypeOK'
      BY <1>10 DEF CellsInv, TypeOK, Decode, Refuse
    <2>2. Justified(refusal)'
      <3>1. CASE \E f \in given : fields[f].kind # Type[f] /\ Refuse("type")
        <4>1. PICK f \in given : fields[f].kind # Type[f]
          BY <3>1
        <4>2. PICK k \in DOMAIN columns : columns[k] = f /\ row[k] = fields[f]
          BY <1>7
        <4>3. \E i \in DOMAIN row : row[i].kind \in ValueKind \ {Type[columns[i]]}
          BY <1>8, <4>1, <4>2
        <4>4. refusal' = "type" /\ row' = row /\ columns' = columns
          BY <3>1 DEF Refuse, Decode
        <4>5. QED
          BY <4>3, <4>4 DEF Justified
      <3>2. CASE \E f \in given : Exceeds(fields[f], l) /\ Refuse("limit")
        <4>1. PICK f \in given : Exceeds(fields[f], l)
          BY <3>2
        <4>2. PICK k \in DOMAIN columns : columns[k] = f /\ row[k] = fields[f]
          BY <1>7
        <4>3. Exceeds(row[k], BindLimits) /\ k \in DOMAIN row
          BY <1>8, <4>1, <4>2
        <4>4. refusal' = "limit" /\ row' = row /\ by' = by /\ limits' = limits
          BY <3>2 DEF Refuse, Decode
        <4>5. \E i \in DOMAIN row' : Exceeds(row'[i], BindLimits')
          <5>1. BindLimits' = BindLimits
            BY <4>4 DEF BindLimits
          <5>2. QED
            BY <4>3, <4>4, <5>1
        <4>6. QED
          BY <4>4, <4>5 DEF Justified
      <3>3. CASE \E f \in Required \ given : Refuse("required")
        <4>1. PICK f \in Required : f \notin given
          BY <3>3
        <4>2. f \in Field /\ fields[f].kind \notin ValueKind
          BY <4>1, CellsAssumption
        <4>3. CellOf(f) \in {Absent, Null}
          BY <1>5, <4>2, ReadableCells
        <4>4. refusal' = "required" /\ row' = row /\ columns' = columns
          BY <3>3 DEF Refuse, Decode
        <4>5. CellOf(f)' \in {Absent, Null}
          BY <4>3, <4>4 DEF CellOf
        <4>6. QED
          BY <4>1, <4>4, <4>5 DEF Justified
      <3>4. QED
        BY <1>10, <3>1, <3>2, <3>3
    <2>3. pc' = "raised"
      BY <1>10 DEF Refuse
    <2>4. Refusals'
      BY <2>2, <2>3 DEF Refusals
    <2>5. QED
      BY <1>1, <2>1, <2>3, <2>4
         DEF CellsInv, Decode, RowAtHand, BodyOfRow, Decoding, HoldsTheLastRow
  <1>11. CASE /\ \A f \in given : fields[f].kind = Type[f] /\ ~Exceeds(fields[f], l)
              /\ raw' = Completed(fields)
              /\ pc' = "load"
              /\ UNCHANGED refusal
    <2>1. raw' = Said
      <3>1. \A f \in Field : Completed(fields)[f] = Said[f]
        BY <1>5, ReadableCells DEF Completed, Said, Unset
      <3>2. Completed(fields) = [f \in Field |-> Completed(fields)[f]] /\ Said = [f \in Field |-> Said[f]]
        BY DEF Completed, Said
      <3>3. Completed(fields) = Said
        BY <3>1, <3>2
      <3>4. QED
        BY <1>11, <3>3
    <2>2. Said \in [Field -> Value \union {Unset}]
      <3>1. ASSUME NEW f \in Field PROVE Said[f] \in Value \union {Unset}
        <4>1. CellOf(f) \in Readable /\ Text(Type[f], <<>>) \in Value
          BY <1>5, ReadableCells
        <4>2. QED
          BY <4>1, ReadableCells DEF Said
      <3>2. Said = [f \in Field |-> Said[f]]
        BY DEF Said
      <3>3. QED
        BY <3>1, <3>2
    <2>3. TypeOK'
      BY <1>11, <2>1, <2>2 DEF CellsInv, TypeOK, Decode
    <2>4. Within(l)
      <3> SUFFICES ASSUME NEW k \in DOMAIN columns, Exceeds(row[k], l) PROVE FALSE
        BY DEF Within
      <3>1. row[k].kind \in ValueKind
        BY DEF Exceeds, ValueKind, RawKind
      <3>2. columns[k] \in given
        BY <1>6, <3>1
      <3>3. QED
        BY <1>6, <1>11, <3>2
    <2>5. Decoding'
      <3>1. columns' = columns /\ row' = row /\ by' = by /\ limits' = limits
        BY DEF Decode
      <3>2. Said' = Said
        BY <3>1 DEF Said, CellOf
      <3>3. Within(BindLimits)'
        BY <2>4, <3>1 DEF Within, BindLimits
      <3>4. QED
        BY <2>1, <3>2, <3>3 DEF Decoding
    <2>6. Refusals'
      BY <1>1, <1>11 DEF Refusals, Justified
    <2>7. QED
      BY <1>1, <1>11, <2>3, <2>5, <2>6
         DEF CellsInv, Decode, RowAtHand, BodyOfRow, HoldsTheLastRow
  <1>12. \/ Refuse("syntax") /\ end.at # "name"
         \/ /\ \/ \E f \in given : fields[f].kind # Type[f] /\ Refuse("type")
               \/ \E f \in given : Exceeds(fields[f], l) /\ Refuse("limit")
               \/ \E f \in Required \ given : Refuse("required")
            /\ UNCHANGED raw
         \/ /\ \A f \in given : fields[f].kind = Type[f] /\ ~Exceeds(fields[f], l)
            /\ raw' = Completed(fields)
            /\ pc' = "load"
            /\ UNCHANGED refusal
    BY <1>2, <1>3 DEF Decode
  <1>13. QED
    BY <1>9, <1>10, <1>11, <1>12

LEMMA LoadInv == ASSUME CellsInv, Load PROVE CellsInv'
  <1>1. Empty \in [Field -> Value \union {Unset}]
    BY DEF Empty
  <1>2. raw = Said /\ raw \in [Field -> Value \union {Unset}]
    BY DEF CellsInv, Decoding, TypeOK, Load
  <1>3. TypeOK'
    BY <1>1, <1>2 DEF CellsInv, TypeOK, Load, Forget
  <1>4. Refusals'
    BY DEF Load, Forget, Refusals, Justified
  <1>5. QED
    BY <1>2, <1>3, <1>4
       DEF CellsInv, Load, Forget, RowAtHand, BodyOfRow, Decoding, HoldsTheLastRow

LEMMA CaughtInv == ASSUME CellsInv, Caught PROVE CellsInv'
  <1>1. Empty \in [Field -> Value \union {Unset}]
    BY DEF Empty
  <1>2. TypeOK'
    BY <1>1 DEF CellsInv, TypeOK, Caught, Forget
  <1>3. Refusals'
    BY DEF Caught, Forget, Refusals, Justified
  <1>4. QED
    BY <1>2, <1>3
       DEF CellsInv, Caught, Forget, RowAtHand, BodyOfRow, Decoding, HoldsTheLastRow

LEMMA CellsCorrect == Spec => []CellsInv
  <1>1. ASSUME CellsInv, [Next]_vars PROVE CellsInv'
    <2>1. CASE Next
      BY <1>1, <2>1, ReadInv, BindInv, DecodeInv, LoadInv, CaughtInv DEF Next
    <2>2. CASE UNCHANGED vars
      <3>1. TypeOK'
        BY <1>1, <2>2 DEF CellsInv, TypeOK, vars
      <3>2. RowAtHand' /\ BodyOfRow' /\ HoldsTheLastRow'
        BY <1>1, <2>2 DEF CellsInv, RowAtHand, BodyOfRow, HoldsTheLastRow, vars
      <3>3. Decoding'
        <4>1. Said' = Said
          BY <2>2 DEF Said, CellOf, vars
        <4>2. BindLimits' = BindLimits
          BY <2>2 DEF BindLimits, vars
        <4>3. raw' = raw /\ pc' = pc /\ row' = row /\ columns' = columns
          BY <2>2 DEF vars
        <4>4. CASE pc = "load"
          <5>1. raw = Said /\ \A k \in DOMAIN columns : ~ Exceeds(row[k], BindLimits)
            BY <1>1, <4>4 DEF CellsInv, Decoding, Within
          <5>2. \A k \in DOMAIN columns' : ~ Exceeds(row'[k], BindLimits')
            BY <4>2, <4>3, <5>1
          <5>3. Within(BindLimits)'
            BY <5>2 DEF Within
          <5>4. QED
            BY <4>1, <4>3, <5>1, <5>3 DEF Decoding
        <4>5. QED
          BY <4>3, <4>4 DEF Decoding
      <3>4. Refusals'
        BY <1>1, <2>2 DEF CellsInv, Refusals, Justified, CellOf, BindLimits, vars
      <3>5. QED
        BY <3>1, <3>2, <3>3, <3>4 DEF CellsInv
    <2>3. QED
      BY <1>1, <2>1, <2>2
  <1>2. QED
    BY <1>1, InitInv, PTL DEF Spec

-------------------------------------------------------------------------------
(* Type correctness: among the rest, what bind_row writes is PXF text, and *)
(* what is decoded from it are values of the message's fields.             *)
THEOREM TypeCorrect == Spec => []TypeOK
  <1>1. CellsInv => TypeOK
    BY DEF CellsInv
  <1>2. QED
    BY <1>1, CellsCorrect, PTL

(* Whatever the rows hold and however many there are, the message holds    *)
(* what the last one that bound says, and nothing else.                    *)
THEOREM RowsReplaceEachOther == Spec => []HoldsTheLastRow
  <1>1. CellsInv => HoldsTheLastRow
    BY DEF CellsInv
  <1>2. QED
    BY <1>1, CellsCorrect, PTL

(* No cell that a reader gives makes bind_row write text that is not PXF.  *)
THEOREM WrittenTextIsRead == Spec => []ScanRefusesForContent
  <1>1. ASSUME CellsInv, by = "scan"
        PROVE  /\ refusal # "syntax"
               /\ refusal = "type" =>
                      \E k \in DOMAIN row : row[k].kind \in ValueKind \ {Type[columns[k]]}
               /\ refusal = "required" => \E f \in Required : CellOf(f) \in {Absent, Null}
    <2>1. Justified(refusal)
      BY <1>1 DEF CellsInv, Refusals
    <2>2. QED
      BY <1>1, <2>1 DEF Justified
  <1>2. CellsInv => ScanRefusesForContent
    BY <1>1 DEF ScanRefusesForContent
  <1>3. QED
    BY <1>2, CellsCorrect, PTL

(* The limits the reader was made with bind every row that scan binds, and *)
(* refuse no other.                                                        *)
THEOREM LimitsBindRows == Spec => []ReadersLimitsBind
  <1>1. ASSUME CellsInv, by = "scan"
        PROVE  /\ pc = "load" => \A k \in DOMAIN row : ~Exceeds(row[k], Effective(limits))
               /\ refusal = "limit" => \E k \in DOMAIN row : Exceeds(row[k], Effective(limits))
    <2>1. BindLimits = Effective(limits)
      BY <1>1 DEF BindLimits
    <2>2. pc = "load" => DOMAIN row = DOMAIN columns /\ Within(BindLimits)
      BY <1>1 DEF CellsInv, RowAtHand, Decoding
    <2>3. refusal = "limit" => \E k \in DOMAIN row : Exceeds(row[k], BindLimits)
      BY <1>1 DEF CellsInv, Refusals, Justified
    <2>4. QED
      BY <2>1, <2>2, <2>3 DEF Within
  <1>2. CellsInv => ReadersLimitsBind
    BY <1>1 DEF ReadersLimitsBind
  <1>3. QED
    BY <1>2, CellsCorrect, PTL
===============================================================================
