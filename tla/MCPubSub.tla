------------------------------ MODULE MCPubSub -------------------------------
EXTENDS PubSub, TLC

CONSTANTS t1, t2, s1, s2    \* model values

MCTopics == {t1, t2}
MCSubs   == {s1, s2}
Symmetry == Permutations(MCTopics) \union Permutations(MCSubs)
==============================================================================
