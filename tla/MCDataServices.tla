--------------------------- MODULE MCDataServices ---------------------------
(* DataServices for TLC: what writes carry, what is searched, and symmetry. *)
EXTENDS DataServices, TLC

Updates == {[f \in {1} |-> 1], [f \in {1, 2} |-> IF f = 1 THEN FsGone ELSE 2]}
Columns == {<<1, 1>>}

I(n) == QyScalar("int", n)
Entries == {[a |-> p[1], b |-> I(p[2])] :
  p \in {<<QyMissing, 0>>, <<QyNone, 1>>, <<QyScalar("bool", 1), 0>>, <<I(1), 1>>, <<I(1), 0>>,
         <<QyScalar("str", 0), 0>>, <<QyList({QyNone}), 1>>}}
P(op, value) == QyPart("a", op, value)
L == QyList({I(1), QyNone})
Filters ==
  {[and |-> TRUE, parts |-> S] :
     S \in {{}, {P("==", I(1))}, {P("!=", I(1))}, {P("in", L)}, {P("not_in", L)}, {P("not_in", I(0))},
            {P("array_contains", QyNone)}, {P("array_contains_any", L)}, {P("is_null", L)},
            {P("is_not_null", L)}, {P(">", I(0)), P("<=", I(1))}}}
  \union {[and |-> FALSE, parts |-> {P("<", I(1)), P(">=", I(0)), QyPart("b", "==", I(1))}]}

Symmetry == Permutations(FsDocs) \union Permutations(FsWorkers)
==============================================================================
