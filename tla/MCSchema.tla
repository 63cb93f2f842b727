------------------------------- MODULE MCSchema -------------------------------
(* Schema over import graphs of four files a, b, c and d, each importing   *)
(* of those before it, in every order; d imports none, two or three.  A    *)
(* fifth file, in another pool, shares b's name.                           *)
EXTENDS Schema, SequencesExt

CONSTANTS a, b, c, d, other, home, away, na, nb, nc, nd

MCFile == {a, b, c, d, other}
MCName == {na, nb, nc, nd}
MCNameOf == [f \in MCFile |-> CASE f = a -> na [] f = b -> nb [] f = c -> nc
                                [] f = d -> nd [] OTHER -> nb]
MCPoolOf == [f \in MCFile |-> IF f = other THEN away ELSE home]
MCRank == [f \in MCFile |-> CASE f = b -> 2 [] f = c -> 3 [] f = d -> 4 [] OTHER -> 1]

(* The sequences without repetition over a set of files. *)
Orders(S) == UNION {SetToSeqs(T) : T \in SUBSET S}

MCImports ==
    {[f \in MCFile |-> CASE f = b -> ib [] f = c -> ic [] f = d -> id [] OTHER -> <<>>] :
        ib \in Orders({a}), ic \in Orders({a, b}),
        id \in {s \in Orders({a, b, c}) : Len(s) # 1}}
===============================================================================
