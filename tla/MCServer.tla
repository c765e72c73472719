------------------------------ MODULE MCServer -------------------------------
EXTENDS Server

CONSTANTS p, q, c, u, r1, r2, h, noone    \* model values

None         == {}
WithNested   == {p, q, c}
NestedC      == {c}
ParentC      == [x \in NestedC |-> p]
TwoResets    == {r1, r2}
OneReset     == {r1}
OneHealth    == {h}
OneUnmatched == {u}
StallingP    == {p}
==============================================================================
