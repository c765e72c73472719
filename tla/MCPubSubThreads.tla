--------------------------- MODULE MCPubSubThreads ---------------------------
EXTENDS PubSubThreads, TLC

CONSTANTS w1, w2, n1, n2    \* model values

TwoWorkers == {w1, w2}
OneName    == {n1}
TwoNames   == {n1, n2}
NoHandler  == {}
OneHandled == {n2}
Symmetry   == Permutations(TwoWorkers)
==============================================================================
