--------------------------- MODULE MCControlServices ---------------------------
(* ControlServices for TLC: sample requests for aggregation, and symmetry. *)
EXTENDS ControlServices, TLC

Keys == {<<"r1", "k">>, <<"r2", "k">>}
Services == {"artifactregistry", "vertexai", "documentai", "memorystore", "cloudfunctions",
             "resourcemanager", "storagetransfer"}

(* Points of three series of one, two and three points, with every kind of value *)
Values == {AgInt(3), AgInt(-1), AgDouble(2), AgDist(1, 1, <<1>>), AgDist(2, 9, <<0, 1, 1>>), AgText}
P(at, v) == [at |-> at, value |-> v]
Points == {P(at, v) : at \in {0, 3, 4, 6}, v \in Values}
Op(op, pct) == [op |-> op, pct |-> pct]
Ops == {Op("MEAN", 0), Op("MIN", 0), Op("MAX", 0), Op("COUNT", 0), Op("SUM", 0), Op("PERCENTILE", 50), Op("PERCENTILE", 95), Op("STDDEV", 0)}
None == Op("NONE", 0)
One(points) == << [label |-> "x", points |-> points] >>
Some == {AgInt(-1), AgDouble(2), AgDist(2, 9, <<0, 1, 1>>)}
Aligned == {[series |-> One(<<p, q, r>>), start |-> 0, end |-> e, aligner |-> a, period |-> d,
             reducer |-> None, grouped |-> FALSE] :
   p \in {P(3, v) : v \in Values}, q \in {P(4, v) : v \in Some} \union {P(3, AgInt(-1))},
   r \in {P(6, v) : v \in Some} \union {P(0, AgInt(-1))},
   e \in {0, 6}, a \in Ops \union {None, Op("RATE", 0)}, d \in {0, 2}}
Windowed == {[series |-> One(<<P(m, AgInt(3)), P(n, AgInt(1))>>), start |-> s, end |-> e, aligner |-> Op("SUM", 0), period |-> 3, reducer |-> None, grouped |-> FALSE] :
   m \in {0, 3, 4, 6}, n \in {0, 3, 4, 6}, s \in {0,4}, e \in {4,5}}
Reduced == {[series |-> << [label |-> "x", points |-> <<p, q>>], [label |-> l, points |-> <<r>>] >>, start |-> 0, end |-> 6, aligner |-> a, period |-> 2, reducer |-> b, grouped |-> g] :
   p \in {P(6, v) : v \in Some}, q \in {P(at, AgInt(4)) : at \in {0, 4, 5, 6}}, r \in {P(6,v) : v \in Values}, l \in {"x", "y"}, g \in BOOLEAN, a \in {None, Op("MEAN",0), Op("COUNT",0)}, b \in Ops}
Requests == Aligned \union Windowed \union Reduced
Bounds == <<0, 2>>
Symmetry == Permutations(LgLogs) \union Permutations(LgWorkers)
==============================================================================
