------------------------------ MODULE MCStorage ------------------------------
EXTENDS Storage, TLC

CONSTANTS b, o1, o2, c1, c2    \* model values

MCBuckets == {b}
MCNames   == {o1, o2}
MCClients == {c1, c2}
Symmetry  == Permutations(MCNames) \union Permutations(MCClients)
==============================================================================
