--------------------------- MODULE AggregationProofs ---------------------------
(***************************************************************************)
(* list_time_series with an aggregation, for any request and any bounds of *)
(* the buckets: what is listed keeps the laws of alignment and reduction.  *)
(* First sums and arrangements of finite families, then what _combine      *)
(* makes of numbers and of distributions, then the buckets and the groups. *)
(***************************************************************************)
EXTENDS Aggregation, TLAPS, SequenceTheorems, FiniteSetTheorems, FunctionTheorems, WellFoundedInduction

------------------------------------------------------------------------------
(* Induction without operators as parameters: P is the set of those        *)
(* subsets, or numbers, that a statement is true of.                       *)

(* A greatest among the places of a list *)
LEMMA GreatestNumber ==
  ASSUME NEW len \in Nat, NEW S, S \subseteq 1..len, S # {}
  PROVE  \E n \in S : \A m \in S : m <= n
<1> DEFINE Above(n) == {m \in S : n < m}
           F == {Above(n) : n \in S}
           R == StrictSubsetOrdering(Nat)
<1>1. IsFiniteSet(1..len)
  BY FS_Interval
<1>2. IsWellFoundedOn(R, FiniteSubsetsOf(Nat))
  BY FS_StrictSubsetOrderingWellFounded
<1>0. S \subseteq Nat
  <2>1. \A n \in 1..len : n \in Nat
    OBVIOUS
  <2> QED
    BY <2>1
<1>3. ASSUME NEW n \in S PROVE IsFiniteSet(Above(n)) /\ Above(n) \subseteq Nat
  <2>1. Above(n) \in SUBSET (1..len) /\ Above(n) \subseteq Nat
    BY <1>0
  <2> HIDE DEF Above
  <2> QED
    BY <1>1, <2>1, FS_Subset
<1>4. F \subseteq FiniteSubsetsOf(Nat) /\ F # {}
  <2>1. \A n \in S : Above(n) \in FiniteSubsetsOf(Nat)
    BY <1>3 DEF FiniteSubsetsOf
  <2> HIDE DEF Above
  <2> QED
    BY <2>1
<1>5. PICK T \in F : \A U \in F : ~ (<<U, T>> \in R)
  BY <1>2, <1>4, WFMin
<1>6. PICK n \in S : T = Above(n)
  BY <1>5
<1>7. ASSUME NEW m \in S, n < m PROVE FALSE
  <2>1. Above(m) \subseteq Above(n) /\ m \in Above(n) /\ m \notin Above(m)
    <3>1. n \in Nat /\ m \in Nat /\ ~ (m < m)
      BY <1>0
    <3>2. \A k \in S : m < k => n < k
      <4>1. \A k \in Nat : m < k => n < k
        BY <1>7, <3>1
      <4> QED
        BY <1>0, <4>1
    <3>3. m \in Above(n) /\ m \notin Above(m)
      BY <1>7, <3>1
    <3> QED
      BY <3>2, <3>3
  <2>2. Above(m) \in F /\ Above(m) \subseteq Nat /\ Above(n) \subseteq Nat
    <3>1. Above(m) \subseteq Nat /\ Above(n) \subseteq Nat
      BY <1>3
    <3> HIDE DEF Above
    <3> QED
      BY <3>1
  <2>3. <<Above(m), Above(n)>> \in R
    <3>1. /\ <<Above(m), Above(n)>> \in (SUBSET Nat) \X (SUBSET Nat)
          /\ <<Above(m), Above(n)>>[1] = Above(m) /\ <<Above(m), Above(n)>>[2] = Above(n)
          /\ Above(m) # Above(n)
      BY <2>1, <2>2
    <3> HIDE DEF Above
    <3> QED
      BY <2>1, <3>1 DEF StrictSubsetOrdering
  <2> HIDE DEF Above, F, R
  <2> QED
    BY <1>5, <1>6, <2>2, <2>3
<1> QED
  BY <1>7

(* Subsets of a finite set: one member at a time *)
LEMMA SetInduction ==
  ASSUME NEW D, IsFiniteSet(D), NEW P, {} \in P,
         \A S \in SUBSET D : S # {} => \E a \in S : (S \ {a} \in P) => (S \in P)
  PROVE  D \in P
<1> DEFINE F == {S \in SUBSET D : S \notin P}
           R == StrictSubsetOrdering(D)
<1> SUFFICES ASSUME D \notin P PROVE FALSE
  OBVIOUS
<1>1. IsWellFoundedOn(R, FiniteSubsetsOf(D))
  BY FS_StrictSubsetOrderingWellFounded
<1>2. F \subseteq FiniteSubsetsOf(D) /\ F # {}
  <2>1. D \in F /\ \A S \in F : S \in SUBSET D
    OBVIOUS
  <2> HIDE DEF F
  <2> QED
    BY <2>1, FS_Subset DEF FiniteSubsetsOf
<1>3. PICK T \in F : \A U \in F : ~ (<<U, T>> \in R)
  BY <1>1, <1>2, WFMin
<1>4. T \in SUBSET D /\ T \notin P /\ T # {}
  <2>1. T \in F
    BY <1>3
  <2>2. T \in SUBSET D /\ T \notin P
    BY <2>1
  <2>3. ASSUME T = {} PROVE FALSE
    BY <2>2, <2>3
  <2> QED
    BY <2>2, <2>3
<1>5. PICK a \in T : (T \ {a} \in P) => (T \in P)
  BY <1>4
<1>6. T \ {a} \in F
  BY <1>4, <1>5
<1>7. <<T \ {a}, T>> \in R
  <2>1. T \in SUBSET D /\ T \ {a} \in SUBSET D /\ T \ {a} \subseteq T /\ T \ {a} # T
    BY <1>4, <1>5
  <2> QED
    BY <2>1 DEF StrictSubsetOrdering
<1> QED
  BY <1>3, <1>6, <1>7

(* Numbers from 0 on: by the greatest one up to n that has it.             *)
LEMMA NumberInduction ==
  ASSUME NEW P, 0 \in P, \A n \in Nat : (n \in P) => (n + 1 \in P)
  PROVE  \A n \in Nat : n \in P
<1> SUFFICES ASSUME NEW n \in Nat, n \notin P PROVE FALSE
  OBVIOUS
<1> DEFINE S == {k \in 1..n + 1 : k - 1 \in P}
<1>1. n + 1 \in Nat /\ S \subseteq 1..n + 1 /\ 1 \in S
  OBVIOUS
<1>2. PICK m \in S : \A k \in S : k <= m
  BY <1>1, GreatestNumber
<1>3. m \in 1..n + 1 /\ m - 1 \in P /\ m - 1 # n
  BY <1>2
<1>4. m - 1 \in Nat /\ (m - 1) + 1 = m
  BY <1>3
<1>5. m \in P
  BY <1>3, <1>4
<1>6. m + 1 \in 1..n + 1 /\ (m + 1) - 1 = m
  BY <1>3
<1>7. m + 1 \in S
  BY <1>5, <1>6
<1>8. m \in Nat /\ ~ (m + 1 <= m)
  BY <1>3
<1> QED
  BY <1>2, <1>7, <1>8

------------------------------------------------------------------------------
(* AgTotal: the recursion over subsets has a value on each of them.        *)

(* AgTotal: f sums the values at the places of each subset of D, as the    *)
(* recursion has it.                                                       *)
Summing(f, D, values) ==
  [S \in SUBSET D |-> IF S = {} THEN AgDouble(0)
                      ELSE LET i == CHOOSE i \in S : TRUE IN AgPlus(values[i], f[S \ {i}])]

(* A finite set without one of its members is smaller.                     *)
LEMMA Shorter ==
  ASSUME NEW S, IsFiniteSet(S), NEW a \in S
  PROVE  /\ IsFiniteSet(S \ {a}) /\ Cardinality(S) \in Nat /\ Cardinality(S \ {a}) \in Nat
         /\ Cardinality(S) = Cardinality(S \ {a}) + 1
<1>1. IsFiniteSet(S \ {a}) /\ Cardinality(S \ {a}) = Cardinality(S) - 1
  BY FS_RemoveElement
<1>2. Cardinality(S) \in Nat /\ Cardinality(S \ {a}) \in Nat
  BY <1>1, FS_CardinalityType
<1> QED
  BY <1>1, <1>2

(* A function that sums as the recursion does exists: by induction on      *)
(* size.                                                                   *)
LEMMA SumsExist ==
  ASSUME NEW D, IsFiniteSet(D), NEW values
  PROVE  \E f : f = Summing(f, D, values)
<1> DEFINE Small(n) == {S \in SUBSET D : Cardinality(S) <= n}
           first(S) == CHOOSE i \in S : TRUE
           more(f, S) == IF S = {} THEN AgDouble(0) ELSE AgPlus(values[first(S)], f[S \ {first(S)}])
           P == {n \in Nat : \E f : \A S \in Small(n) : f[S] = more(f, S)}
<1>1. \A S \in SUBSET D : IsFiniteSet(S) /\ Cardinality(S) \in Nat
  BY FS_Subset, FS_CardinalityType
<1>2. \A S \in SUBSET D : S # {} => /\ first(S) \in S /\ S \ {first(S)} \in SUBSET D
                                    /\ Cardinality(S) = Cardinality(S \ {first(S)}) + 1
  <2> SUFFICES ASSUME NEW S \in SUBSET D, S # {}
               PROVE  /\ first(S) \in S /\ S \ {first(S)} \in SUBSET D
                      /\ Cardinality(S) = Cardinality(S \ {first(S)}) + 1
    OBVIOUS
  <2>1. first(S) \in S
    OBVIOUS
  <2> HIDE DEF first
  <2> QED
    BY <1>1, <2>1, Shorter
<1> HIDE DEF first
<1>3. 0 \in P
  <2>1. PICK f : f = [S \in SUBSET D |-> AgDouble(0)]
    OBVIOUS
  <2>2. \A S \in Small(0) : f[S] = more(f, S)
    <3> SUFFICES ASSUME NEW S \in SUBSET D, Cardinality(S) <= 0 PROVE f[S] = more(f, S)
      OBVIOUS
    <3>1. S = {}
      <4> SUFFICES ASSUME S # {} PROVE FALSE
        OBVIOUS
      <4>1. Cardinality(S) = Cardinality(S \ {first(S)}) + 1 /\ S \ {first(S)} \in SUBSET D
        BY <1>2
      <4>2. Cardinality(S \ {first(S)}) \in Nat
        BY <1>1, <4>1
      <4> QED
        BY <4>1, <4>2
    <3> QED
      BY <2>1, <3>1
  <2> QED
    BY <2>2
<1>4. \A n \in Nat : (n \in P) => (n + 1 \in P)
  <2> SUFFICES ASSUME NEW n \in Nat, n \in P PROVE n + 1 \in P
    OBVIOUS
  <2>1. PICK f : \A S \in Small(n) : f[S] = more(f, S)
    OBVIOUS
  <2>2. PICK g : g = [S \in SUBSET D |-> more(f, S)]
    OBVIOUS
  <2>3. \A S \in Small(n) : g[S] = f[S]
    BY <2>1, <2>2
  <2>4. ASSUME NEW S \in Small(n + 1) PROVE g[S] = more(g, S)
    <3>1. S \in SUBSET D /\ Cardinality(S) <= n + 1 /\ g[S] = more(f, S)
      BY <2>2
    <3>2. CASE S = {}
      BY <3>1, <3>2
    <3>3. CASE S # {}
      <4>1. /\ S \ {first(S)} \in SUBSET D
            /\ Cardinality(S) = Cardinality(S \ {first(S)}) + 1
        BY <1>2, <3>1, <3>3
      <4>2. Cardinality(S \ {first(S)}) \in Nat /\ Cardinality(S) \in Nat
        BY <1>1, <3>1, <4>1
      <4>3. Cardinality(S \ {first(S)}) <= n
        BY <3>1, <4>1, <4>2
      <4>4. S \ {first(S)} \in Small(n)
        BY <4>1, <4>3
      <4>5. g[S \ {first(S)}] = f[S \ {first(S)}]
        BY <2>3, <4>4
      <4> QED
        BY <3>1, <3>3, <4>5
    <3> QED
      BY <3>2, <3>3
  <2>5. n + 1 \in Nat /\ \A S \in Small(n + 1) : g[S] = more(g, S)
    BY <2>4
  <2> QED
    BY <2>5
<1>5. Cardinality(D) \in P
  <2>1. Cardinality(D) \in Nat
    BY FS_CardinalityType
  <2> HIDE DEF P
  <2> QED
    BY <1>3, <1>4, <2>1, NumberInduction
<1>6. PICK f : \A S \in Small(Cardinality(D)) : f[S] = more(f, S)
  BY <1>5
<1>7. \A S \in SUBSET D : S \in Small(Cardinality(D))
  BY FS_Subset
<1>8. PICK g : g = [S \in SUBSET D |-> f[S]]
  OBVIOUS
<1>9. \A S \in SUBSET D : g[S] = more(f, S)
  BY <1>6, <1>7, <1>8
<1>10. ASSUME NEW S \in SUBSET D PROVE g[S] = more(g, S)
  <2>1. CASE S = {}
    BY <1>9, <2>1
  <2>2. CASE S # {}
    <3>1. S \ {first(S)} \in SUBSET D
      BY <1>2, <2>2
    <3>2. g[S \ {first(S)}] = f[S \ {first(S)}]
      BY <1>8, <3>1
    <3> QED
      BY <1>9, <3>2
  <2> QED
    BY <2>1, <2>2
<1>11. g = [S \in SUBSET D |-> more(g, S)]
  <2> HIDE DEF more
  <2> QED
    BY <1>8, <1>10
<1>12. g = Summing(g, D, values)
  BY <1>11 DEF first, Summing
<1> QED
  BY <1>12

(* So AgTotal is its value at the set of all places.                       *)
LEMMA TotalSums ==
  ASSUME NEW D, IsFiniteSet(D), NEW values, DOMAIN values = D
  PROVE  \E f : AgTotal(values) = f[D] /\ f = Summing(f, D, values)
<1> DEFINE sum[S \in SUBSET D] ==
             IF S = {} THEN AgDouble(0)
             ELSE LET i == CHOOSE i \in S : TRUE IN AgPlus(values[i], sum[S \ {i}])
<1>1. AgTotal(values) = sum[D]
  BY DEF AgTotal
<1>2. sum = CHOOSE f : f = Summing(f, D, values)
  BY DEF Summing
<1>3. \E f : f = Summing(f, D, values)
  BY SumsExist
<1> HIDE DEF sum
<1>4. sum = Summing(sum, D, values)
  BY <1>2, <1>3
<1> QED
  BY <1>1, <1>4

(* What is summed up over S depends on the values in S only.               *)
LEMMA SummingAgrees ==
  ASSUME NEW D, NEW E, E \subseteq D, IsFiniteSet(E), NEW values, NEW v, \A i \in E : v[i] = values[i],
         NEW f, f = Summing(f, D, values), NEW g, g = Summing(g, E, v), NEW S \in SUBSET E
  PROVE  g[S] = f[S]
<1> DEFINE P == {T \in SUBSET S : g[T] = f[T]}
<1>1. IsFiniteSet(S)
  BY FS_Subset
<1>2. \A T \in SUBSET E : g[T] = IF T = {} THEN AgDouble(0)
        ELSE AgPlus(v[CHOOSE i \in T : TRUE], g[T \ {CHOOSE i \in T : TRUE}])
  BY DEF Summing
<1>3. \A T \in SUBSET E : f[T] = IF T = {} THEN AgDouble(0)
        ELSE AgPlus(values[CHOOSE i \in T : TRUE], f[T \ {CHOOSE i \in T : TRUE}])
  <2>1. \A T \in SUBSET E : T \in SUBSET D
    OBVIOUS
  <2> QED
    BY <2>1 DEF Summing
<1>4. {} \in P
  BY <1>2, <1>3
<1>5. ASSUME NEW T \in SUBSET S, T # {} PROVE \E a \in T : (T \ {a} \in P) => (T \in P)
  <2>1. PICK a : a = CHOOSE i \in T : TRUE
    OBVIOUS
  <2>2. a \in T /\ a \in E /\ T \in SUBSET E /\ T \ {a} \in SUBSET E
    BY <1>5, <2>1
  <2>3. g[T] = AgPlus(v[a], g[T \ {a}])
    BY <1>2, <1>5, <2>1, <2>2
  <2>4. f[T] = AgPlus(values[a], f[T \ {a}])
    BY <1>3, <1>5, <2>1, <2>2
  <2>5. (T \ {a} \in P) => (T \in P)
    BY <2>2, <2>3, <2>4
  <2> QED
    BY <2>2, <2>5
<1>6. S \in P
  <2> HIDE DEF P
  <2> QED
    BY <1>1, <1>4, <1>5, SetInduction
<1> QED
  BY <1>6

(* Nothing adds up to nothing.                                             *)
LEMMA TotalOfNone ==
  ASSUME NEW values, DOMAIN values = {} PROVE AgTotal(values) = AgDouble(0)
<1>1. PICK f : AgTotal(values) = f[{}] /\ f = Summing(f, {}, values)
  BY FS_EmptySet, TotalSums
<1> QED
  BY <1>1 DEF Summing

(* One of the places of S that the recursion takes first *)
LEMMA TotalStep ==
  ASSUME NEW values, NEW S, S \subseteq DOMAIN values, IsFiniteSet(S), S # {}
  PROVE  \E a \in S :
           AgTotal(Restrict(values, S)) = AgPlus(values[a], AgTotal(Restrict(values, S \ {a})))
<1>1. PICK v : v = Restrict(values, S)
  OBVIOUS
<1>2. DOMAIN v = S /\ \A i \in S : v[i] = values[i]
  BY <1>1 DEF Restrict
<1>3. PICK f : AgTotal(v) = f[S] /\ f = Summing(f, S, v)
  BY <1>2, TotalSums
<1>4. PICK a : a = CHOOSE i \in S : TRUE
  OBVIOUS
<1>5. a \in S
  BY <1>4
<1>6. f[S] = AgPlus(v[a], f[S \ {a}])
  BY <1>3, <1>4 DEF Summing
<1>7. PICK w : w = Restrict(values, S \ {a})
  OBVIOUS
<1>8. DOMAIN w = S \ {a} /\ \A i \in S \ {a} : w[i] = values[i]
  BY <1>7 DEF Restrict
<1>9. IsFiniteSet(S \ {a}) /\ S \ {a} \subseteq S
  BY FS_Subset
<1>10. PICK g : AgTotal(w) = g[S \ {a}] /\ g = Summing(g, S \ {a}, w)
  BY <1>8, <1>9, TotalSums
<1>11. \A i \in S \ {a} : w[i] = v[i]
  BY <1>2, <1>8
<1>12. g[S \ {a}] = f[S \ {a}]
  BY <1>3, <1>9, <1>10, <1>11, SummingAgrees
<1>13. AgTotal(v) = AgPlus(values[a], AgTotal(w))
  BY <1>2, <1>3, <1>5, <1>6, <1>10, <1>12
<1> QED
  BY <1>1, <1>5, <1>7, <1>13

(* Restrict to all places, to some, and to none                            *)
LEMMA RestrictAll ==
  ASSUME NEW D, NEW T, NEW f \in [D -> T]
  PROVE  /\ Restrict(f, D) = f
         /\ \A S \in SUBSET D : Restrict(f, S) \in [S -> T] /\ \A i \in S : Restrict(f, S)[i] = f[i]
BY DEF Restrict

(* Nothing is left at no places.                                           *)
LEMMA RestrictNone == ASSUME NEW f PROVE DOMAIN Restrict(f, {}) = {}
BY DEF Restrict

(* Denominators stay positive.                                             *)
LEMMA PositiveProduct == ASSUME NEW a \in Nat \ {0}, NEW b \in Nat \ {0} PROVE a * b \in Nat \ {0}
OBVIOUS

(* The sum of numbers is a fraction, and whole if they are. *)
LEMMA TotalType ==
  ASSUME NEW D, IsFiniteSet(D), NEW values \in [D -> AgNumber]
  PROVE  /\ AgTotal(values).num \in Int /\ AgTotal(values).den \in Nat \ {0}
         /\ (\A i \in D : values[i].type = "int") => AgTotal(values).den = 1
<1> DEFINE total(S) == AgTotal(Restrict(values, S))
           P == {S \in SUBSET D : /\ total(S).num \in Int /\ total(S).den \in Nat \ {0}
                                  /\ (\A i \in S : values[i].type = "int") => total(S).den = 1}
<1>1. {} \in P
  <2>1. total({}) = AgDouble(0)
    BY RestrictNone, TotalOfNone
  <2> HIDE DEF total
  <2> QED
    BY <2>1 DEF AgDouble
<1>2. ASSUME NEW S \in SUBSET D, S # {} PROVE \E a \in S : (S \ {a} \in P) => (S \in P)
  <2>1. IsFiniteSet(S) /\ S \subseteq DOMAIN values
    BY FS_Subset
  <2>2. PICK a \in S : total(S) = AgPlus(values[a], total(S \ {a}))
    BY <1>2, <2>1, TotalStep
  <2> HIDE DEF total
  <2>3. ASSUME S \ {a} \in P PROVE S \in P
    <3>1. PICK t : t = total(S \ {a})
      OBVIOUS
    <3>2. t.num \in Int /\ t.den \in Nat \ {0} /\ ((\A i \in S \ {a} : values[i].type = "int") => t.den = 1)
      BY <2>3, <3>1
    <3>3. PICK v : v = values[a]
      OBVIOUS
    <3>4. v.num \in Int /\ v.den \in Nat \ {0} /\ (v.type = "int" => v.den = 1)
      <4>1. v \in AgNumber
        BY <3>3
      <4> QED
        BY <4>1 DEF AgNumber
    <3>5. /\ total(S).num = v.num * t.den + t.num * v.den
          /\ total(S).den = v.den * t.den
      BY <2>2, <3>1, <3>3 DEF AgPlus, AgFraction
    <3>6. total(S).num \in Int
      BY <3>2, <3>4, <3>5
    <3>7. total(S).den \in Nat \ {0}
      BY <3>2, <3>4, <3>5, PositiveProduct
    <3>8. ASSUME \A i \in S : values[i].type = "int" PROVE total(S).den = 1
      <4>1. v.den = 1 /\ t.den = 1
        BY <3>2, <3>3, <3>4, <3>8
      <4> QED
        BY <3>5, <4>1
    <3> QED
      BY <3>6, <3>7, <3>8
  <2> QED
    BY <2>3
<1>3. D \in P
  <2> HIDE DEF P
  <2> QED
    BY <1>1, <1>2, SetInduction
<1>4. total(D) = AgTotal(values)
  BY RestrictAll
<1> QED
  BY <1>3, <1>4

------------------------------------------------------------------------------
(* How sums of fractions compare with a multiple of a bound                *)

(* Multiplication and order *)
LEMMA TimesKeeps ==
  ASSUME NEW a \in Int, NEW b \in Int, NEW c \in Nat, a <= b PROVE a * c <= b * c
OBVIOUS

(* The converse, for a positive factor                                     *)
LEMMA TimesCancels ==
  ASSUME NEW a \in Int, NEW b \in Int, NEW c \in Nat \ {0}, a * c <= b * c PROVE a <= b
<1>1. b < a => b + 1 <= a
  OBVIOUS
<1>2. b + 1 <= a => (b + 1) * c <= a * c
  BY TimesKeeps
<1>3. (b + 1) * c = b * c + c
  OBVIOUS
<1>4. a * c \in Int /\ b * c \in Int
  OBVIOUS
<1> QED
  BY <1>1, <1>2, <1>3, <1>4

(* One more summand of at least the bound, in cross-multiplied form        *)
LEMMA MoreThanTimes ==
  ASSUME NEW l \in Int, NEW p \in Nat, NEW n \in Int, NEW d \in Nat, NEW m \in Int, NEW e \in Nat,
         NEW k \in Nat, l * d <= n * p, (l * k) * e <= m * p
  PROVE  (l * (k + 1)) * (d * e) <= (n * e + m * d) * p
<1>1. (l * d) * e <= (n * p) * e
  <2>1. l * d \in Int /\ n * p \in Int
    OBVIOUS
  <2> QED
    BY <2>1, TimesKeeps
<1>2. ((l * k) * e) * d <= (m * p) * d
  <2>1. (l * k) * e \in Int /\ m * p \in Int
    OBVIOUS
  <2> QED
    BY <2>1, TimesKeeps
<1>3. (l * (k + 1)) * (d * e) = ((l * k) * e) * d + (l * d) * e
  OBVIOUS
<1>4. (n * e + m * d) * p = (n * p) * e + (m * p) * d
  OBVIOUS
<1>5. /\ (l * d) * e \in Int /\ (n * p) * e \in Int
      /\ ((l * k) * e) * d \in Int /\ (m * p) * d \in Int
  OBVIOUS
<1> QED
  BY <1>1, <1>2, <1>3, <1>4, <1>5

(* One more summand of at most the bound, likewise                         *)
LEMMA LessThanTimes ==
  ASSUME NEW l \in Int, NEW p \in Nat, NEW n \in Int, NEW d \in Nat, NEW m \in Int, NEW e \in Nat,
         NEW k \in Nat, n * p <= l * d, m * p <= (l * k) * e
  PROVE  (n * e + m * d) * p <= (l * (k + 1)) * (d * e)
<1>1. (n * p) * e <= (l * d) * e
  <2>1. l * d \in Int /\ n * p \in Int
    OBVIOUS
  <2> QED
    BY <2>1, TimesKeeps
<1>2. (m * p) * d <= ((l * k) * e) * d
  <2>1. (l * k) * e \in Int /\ m * p \in Int
    OBVIOUS
  <2> QED
    BY <2>1, TimesKeeps
<1>3. (l * (k + 1)) * (d * e) = ((l * k) * e) * d + (l * d) * e
  OBVIOUS
<1>4. (n * e + m * d) * p = (n * p) * e + (m * p) * d
  OBVIOUS
<1>5. /\ (l * d) * e \in Int /\ (n * p) * e \in Int
      /\ ((l * k) * e) * d \in Int /\ (m * p) * d \in Int
  OBVIOUS
<1> QED
  BY <1>1, <1>2, <1>3, <1>4, <1>5

(* What a number is made of                                                *)
LEMMA NumberType ==
  ASSUME NEW v \in AgNumber
  PROVE  /\ v.num \in Int /\ v.den \in Nat \ {0} /\ v.type \in {"int", "double"}
         /\ v.type = "int" => v.den = 1
BY DEF AgNumber

(* Numbers that are all q or more sum up to as many times q or more. *)
LEMMA TotalAtLeast ==
  ASSUME NEW D, IsFiniteSet(D), NEW values \in [D -> AgNumber],
         NEW q, q.num \in Int, q.den \in Nat \ {0}, \A i \in D : AgLeq(q, values[i])
  PROVE  (q.num * Cardinality(D)) * AgTotal(values).den <= AgTotal(values).num * q.den
<1> DEFINE total(S) == AgTotal(Restrict(values, S))
           P == {S \in SUBSET D : (q.num * Cardinality(S)) * total(S).den <= total(S).num * q.den}
<1>1. {} \in P
  <2>1. total({}) = AgDouble(0) /\ Cardinality({}) = 0
    BY RestrictNone, TotalOfNone, FS_EmptySet
  <2> HIDE DEF total
  <2>2. total({}).num = 0 /\ total({}).den = 1
    BY <2>1 DEF AgDouble
  <2>3. (q.num * 0) * 1 <= 0 * q.den
    OBVIOUS
  <2> QED
    BY <2>1, <2>2, <2>3
<1>2. ASSUME NEW S \in SUBSET D, S # {} PROVE \E a \in S : (S \ {a} \in P) => (S \in P)
  <2>1. IsFiniteSet(S) /\ S \subseteq DOMAIN values
    BY FS_Subset
  <2>2. PICK a \in S : total(S) = AgPlus(values[a], total(S \ {a}))
    BY <1>2, <2>1, TotalStep
  <2>3. total(S \ {a}).num \in Int /\ total(S \ {a}).den \in Nat \ {0}
    <3>1. Restrict(values, S \ {a}) \in [S \ {a} -> AgNumber] /\ IsFiniteSet(S \ {a})
      BY <2>1, RestrictAll, FS_Subset
    <3> QED
      BY <3>1, TotalType
  <2> HIDE DEF total
  <2>4. ASSUME S \ {a} \in P PROVE S \in P
    <3>1. PICK t : t = total(S \ {a})
      OBVIOUS
    <3>2. PICK k : k = Cardinality(S \ {a})
      OBVIOUS
    <3>3. k \in Nat /\ Cardinality(S) = k + 1
      BY <2>1, <3>2, Shorter
    <3>4. PICK v : v = values[a]
      OBVIOUS
    <3>5. v.num \in Int /\ v.den \in Nat \ {0} /\ q.num * v.den <= v.num * q.den
      <4>1. v \in AgNumber /\ AgLeq(q, v)
        BY <3>4
      <4> QED
        BY <4>1, NumberType DEF AgLeq
    <3>6. t.num \in Int /\ t.den \in Nat \ {0} /\ (q.num * k) * t.den <= t.num * q.den
      BY <2>3, <2>4, <3>1, <3>2
    <3>7. /\ total(S).num = v.num * t.den + t.num * v.den
          /\ total(S).den = v.den * t.den
      BY <2>2, <3>1, <3>4 DEF AgPlus, AgFraction
    <3>8. (q.num * (k + 1)) * (v.den * t.den) <= (v.num * t.den + t.num * v.den) * q.den
      BY <3>3, <3>5, <3>6, MoreThanTimes
    <3> QED
      BY <3>3, <3>7, <3>8
  <2> QED
    BY <2>4
<1>3. D \in P
  <2> HIDE DEF P
  <2> QED
    BY <1>1, <1>2, SetInduction
<1>4. total(D) = AgTotal(values)
  BY RestrictAll
<1> QED
  BY <1>3, <1>4

(* Numbers that are all q or less sum up to as many times q or less.       *)
LEMMA TotalAtMost ==
  ASSUME NEW D, IsFiniteSet(D), NEW values \in [D -> AgNumber],
         NEW q, q.num \in Int, q.den \in Nat \ {0}, \A i \in D : AgLeq(values[i], q)
  PROVE  AgTotal(values).num * q.den <= (q.num * Cardinality(D)) * AgTotal(values).den
<1> DEFINE total(S) == AgTotal(Restrict(values, S))
           P == {S \in SUBSET D : total(S).num * q.den <= (q.num * Cardinality(S)) * total(S).den}
<1>1. {} \in P
  <2>1. total({}) = AgDouble(0) /\ Cardinality({}) = 0
    BY RestrictNone, TotalOfNone, FS_EmptySet
  <2> HIDE DEF total
  <2>2. total({}).num = 0 /\ total({}).den = 1
    BY <2>1 DEF AgDouble
  <2>3. 0 * q.den <= (q.num * 0) * 1
    OBVIOUS
  <2> QED
    BY <2>1, <2>2, <2>3
<1>2. ASSUME NEW S \in SUBSET D, S # {} PROVE \E a \in S : (S \ {a} \in P) => (S \in P)
  <2>1. IsFiniteSet(S) /\ S \subseteq DOMAIN values
    BY FS_Subset
  <2>2. PICK a \in S : total(S) = AgPlus(values[a], total(S \ {a}))
    BY <1>2, <2>1, TotalStep
  <2>3. total(S \ {a}).num \in Int /\ total(S \ {a}).den \in Nat \ {0}
    <3>1. Restrict(values, S \ {a}) \in [S \ {a} -> AgNumber] /\ IsFiniteSet(S \ {a})
      BY <2>1, RestrictAll, FS_Subset
    <3> QED
      BY <3>1, TotalType
  <2> HIDE DEF total
  <2>4. ASSUME S \ {a} \in P PROVE S \in P
    <3>1. PICK t : t = total(S \ {a})
      OBVIOUS
    <3>2. PICK k : k = Cardinality(S \ {a})
      OBVIOUS
    <3>3. k \in Nat /\ Cardinality(S) = k + 1
      BY <2>1, <3>2, Shorter
    <3>4. PICK v : v = values[a]
      OBVIOUS
    <3>5. v.num \in Int /\ v.den \in Nat \ {0} /\ v.num * q.den <= q.num * v.den
      <4>1. v \in AgNumber /\ AgLeq(v, q)
        BY <3>4
      <4> QED
        BY <4>1, NumberType DEF AgLeq
    <3>6. t.num \in Int /\ t.den \in Nat \ {0} /\ t.num * q.den <= (q.num * k) * t.den
      BY <2>3, <2>4, <3>1, <3>2
    <3>7. /\ total(S).num = v.num * t.den + t.num * v.den
          /\ total(S).den = v.den * t.den
      BY <2>2, <3>1, <3>4 DEF AgPlus, AgFraction
    <3>8. (v.num * t.den + t.num * v.den) * q.den <= (q.num * (k + 1)) * (v.den * t.den)
      BY <3>3, <3>5, <3>6, LessThanTimes
    <3> QED
      BY <3>3, <3>7, <3>8
  <2> QED
    BY <2>4
<1>3. D \in P
  <2> HIDE DEF P
  <2> QED
    BY <1>1, <1>2, SetInduction
<1>4. total(D) = AgTotal(values)
  BY RestrictAll
<1> QED
  BY <1>3, <1>4

------------------------------------------------------------------------------
(* Sums of integers, in whatever order they are taken                      *)

(* Sums of integers: AgSum of a function from the places to integers *)
Whole(n) == [i \in DOMAIN n |-> AgInt(n[i])]

(* The sum of integers is an integer, its total one of denominator 1.      *)
LEMMA WholeTotal ==
  ASSUME NEW D, IsFiniteSet(D), NEW n \in [D -> Int]
  PROVE  /\ AgSum(n) \in Int /\ AgTotal(Whole(n)).num = AgSum(n) /\ AgTotal(Whole(n)).den = 1
<1>1. Whole(n) \in [D -> AgNumber] /\ \A i \in D : Whole(n)[i].type = "int"
  <2>1. \A i \in D : AgInt(n[i]) \in AgNumber /\ AgInt(n[i]).type = "int"
    BY DEF AgInt, AgNumber
  <2> QED
    BY <2>1 DEF Whole
<1>2. AgTotal(Whole(n)).num \in Int /\ AgTotal(Whole(n)).den = 1
  BY <1>1, TotalType
<1> QED
  BY <1>2 DEF AgSum, Whole

(* The empty sum                                                           *)
LEMMA SumOfNone ==
  ASSUME NEW n, DOMAIN n = {} PROVE AgSum(n) = 0
<1>1. DOMAIN Whole(n) = {}
  BY DEF Whole
<1>2. AgTotal(Whole(n)) = AgDouble(0)
  BY <1>1, TotalOfNone
<1> QED
  BY <1>2 DEF AgSum, Whole, AgDouble

(* Sums over some of the places are integers.                              *)
LEMMA SumType ==
  ASSUME NEW D, IsFiniteSet(D), NEW n \in [D -> Int], NEW S \in SUBSET D
  PROVE  AgSum(Restrict(n, S)) \in Int
<1>1. Restrict(n, S) \in [S -> Int] /\ IsFiniteSet(S)
  BY RestrictAll, FS_Subset
<1> QED
  BY <1>1, WholeTotal

(* One step of the recursion, for sums                                     *)
LEMMA SumStep ==
  ASSUME NEW D, IsFiniteSet(D), NEW n \in [D -> Int], NEW S \in SUBSET D, S # {}
  PROVE  \E a \in S : AgSum(Restrict(n, S)) = n[a] + AgSum(Restrict(n, S \ {a}))
<1>1. ASSUME NEW T \in SUBSET D PROVE Whole(Restrict(n, T)) = Restrict(Whole(n), T)
  BY RestrictAll DEF Whole, Restrict
<1>2. S \subseteq DOMAIN Whole(n) /\ IsFiniteSet(S)
  BY FS_Subset DEF Whole
<1>3. PICK a \in S : AgTotal(Restrict(Whole(n), S)) =
                       AgPlus(Whole(n)[a], AgTotal(Restrict(Whole(n), S \ {a})))
  BY <1>2, TotalStep
<1>4. AgTotal(Whole(Restrict(n, S))) = AgPlus(AgInt(n[a]), AgTotal(Whole(Restrict(n, S \ {a}))))
  <2>1. Whole(n)[a] = AgInt(n[a])
    BY DEF Whole
  <2>2. S \ {a} \in SUBSET D
    OBVIOUS
  <2> QED
    BY <1>1, <1>3, <2>1, <2>2
<1>5. /\ Restrict(n, S) \in [S -> Int] /\ Restrict(n, S \ {a}) \in [S \ {a} -> Int]
      /\ IsFiniteSet(S \ {a})
  BY <1>2, RestrictAll, FS_Subset
<1>6. PICK t : t = AgTotal(Whole(Restrict(n, S \ {a})))
  OBVIOUS
<1>7. t.num = AgSum(Restrict(n, S \ {a})) /\ t.den = 1 /\ t.num \in Int
  BY <1>5, <1>6, WholeTotal
<1>8. AgSum(Restrict(n, S)) = AgPlus(AgInt(n[a]), t).num
  BY <1>2, <1>4, <1>5, <1>6, WholeTotal
<1>9. AgPlus(AgInt(n[a]), t).num = n[a] * t.den + t.num * 1
  BY DEF AgPlus, AgInt, AgFraction
<1>10. n[a] \in Int
  OBVIOUS
<1>11. AgSum(Restrict(n, S)) = n[a] + AgSum(Restrict(n, S \ {a}))
  BY <1>7, <1>8, <1>9, <1>10
<1> QED
  BY <1>11

(* Any of the places may be taken first. *)
LEMMA SumTakes ==
  ASSUME NEW D, IsFiniteSet(D), NEW n \in [D -> Int]
  PROVE  \A a \in D : AgSum(n) = n[a] + AgSum(Restrict(n, D \ {a}))
<1> DEFINE sum(S) == AgSum(Restrict(n, S))
           P == {S \in SUBSET D : \A a \in S : sum(S) = n[a] + sum(S \ {a})}
           Q == {k \in Nat : \A S \in SUBSET D : Cardinality(S) = k => S \in P}
<1>1. \A S \in SUBSET D : IsFiniteSet(S) /\ Cardinality(S) \in Nat /\ sum(S) \in Int
  BY FS_Subset, FS_CardinalityType, SumType
<1>2. ASSUME NEW S \in SUBSET D, NEW c \in S, sum(S) = n[c] + sum(S \ {c}),
             NEW a \in S, a # c, S \ {c} \in P, S \ {a} \in P
      PROVE  sum(S) = n[a] + sum(S \ {a})
  <2> HIDE DEF sum
  <2>1. sum(S \ {c}) = n[a] + sum((S \ {c}) \ {a})
    BY <1>2
  <2>2. sum(S \ {a}) = n[c] + sum((S \ {a}) \ {c})
    BY <1>2
  <2>3. (S \ {a}) \ {c} = (S \ {c}) \ {a}
    OBVIOUS
  <2>4. n[a] \in Int /\ n[c] \in Int /\ sum((S \ {c}) \ {a}) \in Int
    <3>1. (S \ {c}) \ {a} \in SUBSET D
      OBVIOUS
    <3> QED
      BY <1>1, <3>1
  <2> QED
    BY <1>2, <2>1, <2>2, <2>3, <2>4
<1>3. 0 \in Q
  <2>1. \A S \in SUBSET D : Cardinality(S) = 0 => S = {}
    BY <1>1, FS_EmptySet
  <2>2. {} \in P
    OBVIOUS
  <2> HIDE DEF P
  <2> QED
    BY <2>1, <2>2
<1>4. \A k \in Nat : (k \in Q) => (k + 1 \in Q)
  <2> SUFFICES ASSUME NEW k \in Nat, k \in Q PROVE k + 1 \in Q
    OBVIOUS
  <2>1. ASSUME NEW S \in SUBSET D, Cardinality(S) = k + 1 PROVE S \in P
    <3>1. S # {}
      BY <2>1, FS_EmptySet
    <3>2. PICK c \in S : sum(S) = n[c] + sum(S \ {c})
      BY <3>1, SumStep
    <3>3. \A a \in S : S \ {a} \in P
      <4> SUFFICES ASSUME NEW a \in S PROVE S \ {a} \in P
        OBVIOUS
      <4>1. Cardinality(S \ {a}) \in Nat /\ Cardinality(S) = Cardinality(S \ {a}) + 1
        BY <1>1, Shorter
      <4>2. Cardinality(S \ {a}) = k /\ S \ {a} \in SUBSET D
        BY <2>1, <4>1
      <4> HIDE DEF P
      <4> QED
        BY <4>2
    <3>4. \A a \in S : sum(S) = n[a] + sum(S \ {a})
      <4> SUFFICES ASSUME NEW a \in S PROVE sum(S) = n[a] + sum(S \ {a})
        OBVIOUS
      <4> HIDE DEF sum, P
      <4> QED
        BY <1>2, <3>2, <3>3
    <3> HIDE DEF sum
    <3> QED
      BY <3>4
  <2> HIDE DEF P
  <2> QED
    BY <2>1
<1>5. D \in P
  <2>1. Cardinality(D) \in Nat
    BY <1>1
  <2>2. Cardinality(D) \in Q
    <3> HIDE DEF Q
    <3> QED
      BY <1>3, <1>4, <2>1, NumberInduction
  <2> HIDE DEF P
  <2> QED
    BY <2>2
<1>6. sum(D) = AgSum(n)
  BY RestrictAll
<1> QED
  BY <1>5, <1>6

(* n summed over S, with a taken out                                       *)
Splits(n, S, a) ==
  /\ AgSum(Restrict(n, S)) = n[a] + AgSum(Restrict(n, S \ {a}))
  /\ n[a] \in Int /\ AgSum(Restrict(n, S \ {a})) \in Int

(* The sum over S is the value at a and the sum over the rest (Splits).    *)
LEMMA SumSplits ==
  ASSUME NEW D, IsFiniteSet(D), NEW n \in [D -> Int], NEW S \in SUBSET D, NEW a \in S
  PROVE  Splits(n, S, a)
<1>1. PICK g : g = Restrict(n, S)
  OBVIOUS
<1>2. g \in [S -> Int] /\ g[a] = n[a]
  BY <1>1, RestrictAll
<1>3. Restrict(g, S \ {a}) = Restrict(n, S \ {a})
  BY <1>1 DEF Restrict
<1>4. IsFiniteSet(S)
  BY FS_Subset
<1>5. AgSum(g) = g[a] + AgSum(Restrict(g, S \ {a}))
  BY <1>2, <1>4, SumTakes
<1>6. S \ {a} \in SUBSET D
  OBVIOUS
<1>7. AgSum(Restrict(n, S \ {a})) \in Int
  BY <1>6, SumType
<1>8. n[a] \in Int
  OBVIOUS
<1> QED
  BY <1>1, <1>2, <1>3, <1>5, <1>7, <1>8 DEF Splits

(* Sums place by place: of n + m and of k times n; from below, and from    *)
(* strictly below if somewhere; and of zeros.                              *)
LEMMA SumOfPlus ==
  ASSUME NEW D, IsFiniteSet(D), NEW n \in [D -> Int], NEW m \in [D -> Int]
  PROVE  AgSum([i \in D |-> n[i] + m[i]]) = AgSum(n) + AgSum(m)
<1>1. PICK s : s = [i \in D |-> n[i] + m[i]]
  OBVIOUS
<1>2. s \in [D -> Int] /\ \A i \in D : s[i] = n[i] + m[i]
  BY <1>1
<1> DEFINE P == {S \in SUBSET D : AgSum(Restrict(s, S)) = AgSum(Restrict(n, S)) + AgSum(Restrict(m, S))}
<1>3. {} \in P
  <2>1. AgSum(Restrict(s, {})) = 0 /\ AgSum(Restrict(n, {})) = 0 /\ AgSum(Restrict(m, {})) = 0
    BY RestrictNone, SumOfNone
  <2> QED
    BY <2>1
<1>4. ASSUME NEW S \in SUBSET D, NEW a \in S PROVE (S \ {a} \in P) => (S \in P)
  <2>1. Splits(s, S, a)
    BY <1>2, SumSplits
  <2>2. Splits(n, S, a)
    BY SumSplits
  <2>3. Splits(m, S, a)
    BY SumSplits
  <2>4. s[a] = n[a] + m[a]
    BY <1>2
  <2> QED
    BY <2>1, <2>2, <2>3, <2>4 DEF Splits
<1>5. D \in P
  <2>1. ASSUME NEW S \in SUBSET D, S # {} PROVE \E a \in S : (S \ {a} \in P) => (S \in P)
    BY <1>4, <2>1
  <2> HIDE DEF P
  <2> QED
    BY <1>3, <2>1, SetInduction
<1>6. Restrict(s, D) = s /\ Restrict(n, D) = n /\ Restrict(m, D) = m
  BY <1>2, RestrictAll
<1> QED
  BY <1>1, <1>5, <1>6

(* A factor may be taken out.                                              *)
LEMMA SumOfTimes ==
  ASSUME NEW D, IsFiniteSet(D), NEW n \in [D -> Int], NEW k \in Int
  PROVE  AgSum([i \in D |-> k * n[i]]) = k * AgSum(n)
<1>1. PICK s : s = [i \in D |-> k * n[i]]
  OBVIOUS
<1>2. s \in [D -> Int] /\ \A i \in D : s[i] = k * n[i]
  BY <1>1
<1> DEFINE P == {S \in SUBSET D : AgSum(Restrict(s, S)) = k * AgSum(Restrict(n, S))}
<1>3. {} \in P
  <2>1. AgSum(Restrict(s, {})) = 0 /\ AgSum(Restrict(n, {})) = 0 /\ k * 0 = 0
    BY RestrictNone, SumOfNone
  <2> QED
    BY <2>1
<1>4. ASSUME NEW S \in SUBSET D, NEW a \in S PROVE (S \ {a} \in P) => (S \in P)
  <2>1. Splits(s, S, a)
    BY <1>2, SumSplits
  <2>2. Splits(n, S, a)
    BY SumSplits
  <2>3. k * (n[a] + AgSum(Restrict(n, S \ {a}))) = k * n[a] + k * AgSum(Restrict(n, S \ {a}))
    BY <2>2 DEF Splits
  <2>4. s[a] = k * n[a]
    BY <1>2
  <2> QED
    BY <2>1, <2>2, <2>3, <2>4 DEF Splits
<1>5. D \in P
  <2>1. ASSUME NEW S \in SUBSET D, S # {} PROVE \E a \in S : (S \ {a} \in P) => (S \in P)
    BY <1>4, <2>1
  <2> HIDE DEF P
  <2> QED
    BY <1>3, <2>1, SetInduction
<1>6. Restrict(s, D) = s /\ Restrict(n, D) = n
  BY <1>2, RestrictAll
<1> QED
  BY <1>1, <1>5, <1>6

(* What is nowhere more does not sum up to more.                           *)
LEMMA SumAtMost ==
  ASSUME NEW D, IsFiniteSet(D), NEW n \in [D -> Int], NEW m \in [D -> Int],
         \A i \in D : n[i] <= m[i]
  PROVE  AgSum(n) <= AgSum(m)
<1> DEFINE P == {S \in SUBSET D : AgSum(Restrict(n, S)) <= AgSum(Restrict(m, S))}
<1>3. {} \in P
  <2>1. AgSum(Restrict(n, {})) = 0 /\ AgSum(Restrict(m, {})) = 0
    BY RestrictNone, SumOfNone
  <2> QED
    BY <2>1
<1>4. ASSUME NEW S \in SUBSET D, NEW a \in S PROVE (S \ {a} \in P) => (S \in P)
  <2>2. Splits(n, S, a)
    BY SumSplits
  <2>3. Splits(m, S, a)
    BY SumSplits
  <2>4. n[a] <= m[a]
    OBVIOUS
  <2> QED
    BY <2>2, <2>3, <2>4 DEF Splits
<1>5. D \in P
  <2>1. ASSUME NEW S \in SUBSET D, S # {} PROVE \E a \in S : (S \ {a} \in P) => (S \in P)
    BY <1>4, <2>1
  <2> HIDE DEF P
  <2> QED
    BY <1>3, <2>1, SetInduction
<1>6. Restrict(n, D) = n /\ Restrict(m, D) = m
  BY RestrictAll
<1> QED
  BY <1>5, <1>6

(* What is somewhere less, and nowhere more, sums up to less.              *)
LEMMA SumLess ==
  ASSUME NEW D, IsFiniteSet(D), NEW n \in [D -> Int], NEW m \in [D -> Int],
         \A i \in D : n[i] <= m[i], NEW a \in D, n[a] < m[a]
  PROVE  AgSum(n) < AgSum(m)
<1> DEFINE R(f) == Restrict(f, D \ {a})
<1>1. R(n) \in [D \ {a} -> Int] /\ R(m) \in [D \ {a} -> Int] /\ IsFiniteSet(D \ {a})
  BY RestrictAll, FS_Subset
<1>2. \A i \in D \ {a} : R(n)[i] <= R(m)[i]
  <2>1. \A i \in D \ {a} : R(n)[i] = n[i] /\ R(m)[i] = m[i]
    BY DEF Restrict
  <2> QED
    BY <2>1
<1>3. AgSum(n) = n[a] + AgSum(R(n)) /\ AgSum(m) = m[a] + AgSum(R(m))
  BY SumTakes
<1> HIDE DEF R
<1>4. AgSum(R(n)) <= AgSum(R(m)) /\ AgSum(R(n)) \in Int /\ AgSum(R(m)) \in Int
  BY <1>1, <1>2, SumAtMost, WholeTotal
<1>5. n[a] \in Int /\ m[a] \in Int /\ n[a] < m[a]
  OBVIOUS
<1> QED
  BY <1>3, <1>4, <1>5

(* Places outside S that hold zeros are no matter. *)
LEMMA SumPadded ==
  ASSUME NEW D, IsFiniteSet(D), NEW n \in [D -> Int], NEW S \in SUBSET D, \A i \in D \ S : n[i] = 0
  PROVE  AgSum(n) = AgSum(Restrict(n, S))
<1> DEFINE P == {T \in SUBSET (D \ S) : AgSum(Restrict(n, S \union T)) = AgSum(Restrict(n, S))}
<1>1. {} \in P
  <2>1. S \union {} = S
    OBVIOUS
  <2> QED
    BY <2>1
<1>2. ASSUME NEW T \in SUBSET (D \ S), NEW a \in T PROVE (T \ {a} \in P) => (T \in P)
  <2>1. S \union T \in SUBSET D /\ a \in S \union T /\ (S \union T) \ {a} = S \union (T \ {a}) /\ n[a] = 0
    OBVIOUS
  <2>2. PICK U : U = S \union T
    OBVIOUS
  <2>3. Splits(n, U, a)
    BY <2>1, <2>2, SumSplits
  <2>4. AgSum(Restrict(n, U)) = AgSum(Restrict(n, U \ {a}))
    BY <2>1, <2>3 DEF Splits
  <2>5. U \ {a} = S \union (T \ {a})
    BY <2>1, <2>2
  <2>6. AgSum(Restrict(n, S \union T)) = AgSum(Restrict(n, S \union (T \ {a})))
    BY <2>2, <2>4, <2>5
  <2> QED
    BY <2>6
<1>3. D \ S \in P
  <2>1. ASSUME NEW T \in SUBSET (D \ S), T # {} PROVE \E a \in T : (T \ {a} \in P) => (T \in P)
    BY <1>2, <2>1
  <2>2. IsFiniteSet(D \ S)
    BY FS_Subset
  <2> HIDE DEF P
  <2> QED
    BY <1>1, <2>1, <2>2, SetInduction
<1>4. S \union (D \ S) = D /\ Restrict(n, D) = n
  BY RestrictAll
<1> QED
  BY <1>3, <1>4

(* Zeros sum up to 0.                                                      *)
LEMMA SumOfZeros ==
  ASSUME NEW D, IsFiniteSet(D), NEW n \in [D -> Int], \A i \in D : n[i] = 0
  PROVE  AgSum(n) = 0
<1>1. AgSum(n) = AgSum(Restrict(n, {}))
  BY SumPadded
<1> QED
  BY <1>1, RestrictNone, SumOfNone

(* Sums of naturals are naturals, positive if one of them is.              *)
LEMMA SumAtLeastZero ==
  ASSUME NEW D, IsFiniteSet(D), NEW n \in [D -> Nat]
  PROVE  AgSum(n) \in Nat /\ \A S \in SUBSET D : AgSum(Restrict(n, S)) \in Nat /\ AgSum(Restrict(n, S)) <= AgSum(n)
<1>1. n \in [D -> Int] /\ \A i \in D : n[i] \in Nat
  OBVIOUS
<1>2. ASSUME NEW S \in SUBSET D PROVE AgSum(Restrict(n, S)) \in Nat /\ AgSum(Restrict(n, S)) <= AgSum(n)
  <2>1. PICK m : m = [i \in D |-> IF i \in S THEN n[i] ELSE 0]
    OBVIOUS
  <2>2. PICK z : z = [i \in D |-> 0]
    OBVIOUS
  <2>3. m \in [D -> Int] /\ z \in [D -> Int]
    BY <1>1, <2>1, <2>2
  <2>4. \A i \in D : z[i] = 0 /\ z[i] <= m[i] /\ m[i] <= n[i]
    BY <1>1, <2>1, <2>2
  <2>5. AgSum(z) = 0
    BY <2>3, <2>4, SumOfZeros
  <2>6. AgSum(m) = AgSum(Restrict(m, S))
    BY <2>1, <2>3, SumPadded
  <2>7. Restrict(m, S) = Restrict(n, S)
    BY <2>1 DEF Restrict
  <2>8. AgSum(z) <= AgSum(m) /\ AgSum(m) <= AgSum(n) /\ AgSum(m) \in Int
    BY <1>1, <2>3, <2>4, SumAtMost, WholeTotal
  <2> QED
    BY <2>5, <2>6, <2>7, <2>8
<1>3. D \in SUBSET D /\ Restrict(n, D) = n
  BY <1>1, RestrictAll
<1>4. AgSum(n) \in Nat
  BY <1>2, <1>3
<1> QED
  BY <1>2, <1>4

(* Sums of sums may be taken in the other order. *)
LEMMA SumsSwap ==
  ASSUME NEW D, IsFiniteSet(D), NEW E, IsFiniteSet(E), NEW n \in [D -> [E -> Int]]
  PROVE  AgSum([b \in E |-> AgSum([i \in D |-> n[i][b]])]) = AgSum([i \in D |-> AgSum(n[i])])
<1>1. PICK column : column = [b \in E |-> [i \in D |-> n[i][b]]]
  OBVIOUS
<1>2. column \in [E -> [D -> Int]]
  BY <1>1
<1>3. PICK sums : sums = [b \in E |-> AgSum(column[b])]
  OBVIOUS
<1>4. sums \in [E -> Int]
  <2>1. \A b \in E : AgSum(column[b]) \in Int
    BY <1>2, WholeTotal
  <2> QED
    BY <1>3, <2>1
<1> DEFINE rows(S) == [i \in D |-> AgSum(Restrict(n[i], S))]
           P == {S \in SUBSET E : AgSum(Restrict(sums, S)) = AgSum(rows(S))}
<1>5. ASSUME NEW S \in SUBSET E PROVE rows(S) \in [D -> Int]
  <2>1. \A i \in D : AgSum(Restrict(n[i], S)) \in Int
    BY SumType
  <2> QED
    BY <2>1
<1>6. {} \in P
  <2>1. AgSum(Restrict(sums, {})) = 0 /\ \A i \in D : AgSum(Restrict(n[i], {})) = 0
    BY RestrictNone, SumOfNone
  <2>2. rows({}) \in [D -> Int] /\ \A i \in D : rows({})[i] = 0
    BY <2>1
  <2> HIDE DEF rows
  <2>3. AgSum(rows({})) = 0
    BY <2>2, SumOfZeros
  <2> QED
    BY <2>1, <2>3
<1>7. ASSUME NEW S \in SUBSET E, NEW a \in S, S \ {a} \in P PROVE S \in P
  <2>1. AgSum(Restrict(sums, S)) = sums[a] + AgSum(Restrict(sums, S \ {a}))
    BY <1>4, SumSplits DEF Splits
  <2>2. AgSum(Restrict(sums, S \ {a})) = AgSum(rows(S \ {a}))
    BY <1>7
  <2>3. sums[a] = AgSum(column[a]) /\ column[a] \in [D -> Int]
    BY <1>2, <1>3
  <2>4. rows(S \ {a}) \in [D -> Int] /\ rows(S) \in [D -> Int]
    BY <1>5
  <2>5. \A i \in D : rows(S)[i] = column[a][i] + rows(S \ {a})[i]
    <3> SUFFICES ASSUME NEW i \in D PROVE rows(S)[i] = column[a][i] + rows(S \ {a})[i]
      OBVIOUS
    <3>1. n[i] \in [E -> Int] /\ column[a][i] = n[i][a]
      BY <1>1
    <3>2. AgSum(Restrict(n[i], S)) = n[i][a] + AgSum(Restrict(n[i], S \ {a}))
      BY <3>1, SumSplits DEF Splits
    <3> QED
      BY <3>1, <3>2
  <2>6. rows(S) = [i \in D |-> column[a][i] + rows(S \ {a})[i]]
    BY <2>5
  <2> HIDE DEF rows
  <2>7. AgSum(rows(S)) = AgSum(column[a]) + AgSum(rows(S \ {a}))
    <3>1. PICK x, y : x = column[a] /\ y = rows(S \ {a})
      OBVIOUS
    <3>2. x \in [D -> Int] /\ y \in [D -> Int] /\ rows(S) = [i \in D |-> x[i] + y[i]]
      BY <2>3, <2>4, <2>6, <3>1
    <3>3. AgSum([i \in D |-> x[i] + y[i]]) = AgSum(x) + AgSum(y)
      BY <3>2, SumOfPlus
    <3> QED
      BY <3>1, <3>2, <3>3
  <2>8. AgSum(Restrict(sums, S)) = AgSum(rows(S))
    BY <2>1, <2>2, <2>3, <2>7
  <2> QED
    BY <2>8
<1>8. E \in P
  <2>1. ASSUME NEW S \in SUBSET E, S # {} PROVE \E a \in S : (S \ {a} \in P) => (S \in P)
    BY <1>7, <2>1
  <2> HIDE DEF P
  <2> QED
    BY <1>6, <2>1, SetInduction
<1>9. Restrict(sums, E) = sums
  BY <1>4, RestrictAll
<1>10. rows(E) = [i \in D |-> AgSum(n[i])]
  <2>1. \A i \in D : Restrict(n[i], E) = n[i]
    BY RestrictAll
  <2> QED
    BY <2>1
<1>11. sums = [b \in E |-> AgSum([i \in D |-> n[i][b]])]
  BY <1>1, <1>3
<1> QED
  BY <1>8, <1>9, <1>10, <1>11

------------------------------------------------------------------------------
(* Arrangements: every finite set can be put in an order that ranks it.    *)

(* Arrangements: R says of any two different members of S which may be     *)
(* before the other.                                                       *)
Ranks(R, S) ==
  /\ \A x, y \in S : x # y => <<x, y>> \in R \/ <<y, x>> \in R
  /\ \A x, y, z \in S : <<x, y>> \in R /\ <<y, z>> \in R => <<x, z>> \in R

(* The one that all others may be before                                   *)
IsLast(R, S, g) == \A x \in S : x # g => <<x, g>> \in R

(* A finite set that R ranks has a last member: by induction over subsets. *)
LEMMA LastExists ==
  ASSUME NEW S, IsFiniteSet(S), S # {}, NEW R, Ranks(R, S)
  PROVE  \E g \in S : IsLast(R, S, g)
<1> DEFINE P == {T \in SUBSET S : T = {} \/ \E g \in T : IsLast(R, T, g)}
<1>1. {} \in P
  OBVIOUS
<1>2. ASSUME NEW T \in SUBSET S, NEW a \in T, T \ {a} \in P PROVE T \in P
  <2>1. CASE T \ {a} = {}
    <3>1. IsLast(R, T, a)
      BY <2>1 DEF IsLast
    <3> QED
      BY <3>1
  <2>2. CASE T \ {a} # {}
    <3>1. PICK g \in T \ {a} : IsLast(R, T \ {a}, g)
      BY <1>2, <2>2
    <3>2. g \in S /\ a \in S /\ g # a /\ g \in T
      BY <3>1
    <3>3. CASE <<a, g>> \in R
      <4>1. IsLast(R, T, g)
        BY <3>1, <3>3 DEF IsLast
      <4> QED
        BY <3>2, <4>1
    <3>4. CASE <<g, a>> \in R
      <4>1. ASSUME NEW x \in T, x # a PROVE <<x, a>> \in R
        <5>1. x \in S /\ (x = g \/ <<x, g>> \in R)
          BY <3>1, <4>1 DEF IsLast
        <5> QED
          BY <3>2, <3>4, <5>1 DEF Ranks
      <4>2. IsLast(R, T, a)
        BY <4>1 DEF IsLast
      <4> QED
        BY <4>2
    <3> QED
      BY <3>2, <3>3, <3>4 DEF Ranks
  <2> QED
    BY <2>1, <2>2
<1>3. S \in P
  <2>1. ASSUME NEW T \in SUBSET S, T # {} PROVE \E a \in T : (T \ {a} \in P) => (T \in P)
    BY <1>2, <2>1
  <2> HIDE DEF P
  <2> QED
    BY <1>1, <2>1, SetInduction
<1> QED
  BY <1>3

(* p lists S, each member once, in an order R allows.                      *)
Arranges(p, R, S) ==
  /\ p \in [1..Cardinality(S) -> S]
  /\ \A x \in S : \E i \in 1..Cardinality(S) : p[i] = x
  /\ \A i, j \in 1..Cardinality(S) : i < j => <<p[i], p[j]>> \in R /\ p[i] # p[j]

(* An arrangement of all but the last is continued by the last.            *)
LEMMA ArrangementOfMore ==
  ASSUME NEW T, IsFiniteSet(T), NEW R, NEW a \in T, IsLast(R, T, a), NEW p, Arranges(p, R, T \ {a})
  PROVE  \E q : Arranges(q, R, T)
<1>1. PICK n : n = Cardinality(T \ {a})
  OBVIOUS
<1>2. n \in Nat /\ Cardinality(T) = n + 1
  BY <1>1, Shorter
<1>3. /\ p \in [1..n -> T \ {a}] /\ \A x \in T \ {a} : \E i \in 1..n : p[i] = x
      /\ \A i, j \in 1..n : i < j => <<p[i], p[j]>> \in R /\ p[i] # p[j]
  BY <1>1 DEF Arranges
<1>4. PICK q : q = [i \in 1..n + 1 |-> IF i \in 1..n THEN p[i] ELSE a]
  OBVIOUS
<1>5. \A i \in 1..n + 1 : i \in 1..n \/ i = n + 1
  BY <1>2
<1>6. n + 1 \in 1..n + 1 /\ n + 1 \notin 1..n /\ \A i \in 1..n : i \in 1..n + 1
  BY <1>2
<1>7. q[n + 1] = a /\ \A i \in 1..n : q[i] = p[i] /\ p[i] \in T /\ p[i] # a
  BY <1>3, <1>4, <1>6
<1>8. q \in [1..n + 1 -> T]
  BY <1>4, <1>5, <1>7
<1>9. \A x \in T : \E i \in 1..n + 1 : q[i] = x
  <2> SUFFICES ASSUME NEW x \in T PROVE \E i \in 1..n + 1 : q[i] = x
    OBVIOUS
  <2>1. CASE x = a
    BY <1>6, <1>7, <2>1
  <2>2. CASE x # a
    <3>1. PICK i \in 1..n : p[i] = x
      BY <1>3, <2>2
    <3> QED
      BY <1>6, <1>7, <3>1
  <2> QED
    BY <2>1, <2>2
<1>10. ASSUME NEW i \in 1..n + 1, NEW j \in 1..n + 1, i < j PROVE <<q[i], q[j]>> \in R /\ q[i] # q[j]
  <2>1. i \in 1..n
    BY <1>2, <1>10
  <2>2. CASE j \in 1..n
    BY <1>3, <1>7, <1>10, <2>1, <2>2
  <2>3. CASE j = n + 1
    BY <1>7, <2>1, <2>3 DEF IsLast
  <2> QED
    BY <1>5, <2>2, <2>3
<1>11. Arranges(q, R, T)
  BY <1>2, <1>8, <1>9, <1>10 DEF Arranges
<1> QED
  BY <1>11

(* There is an arrangement of whatever R ranks.                            *)
LEMMA ArrangementOfRanks ==
  ASSUME NEW S, IsFiniteSet(S), NEW R, Ranks(R, S)
  PROVE  \E p : Arranges(p, R, S)
<1> DEFINE P == {T \in SUBSET S : \E p : Arranges(p, R, T)}
<1>1. {} \in P
  <2>1. Cardinality({}) = 0 /\ 1..0 = {}
    BY FS_EmptySet
  <2>2. PICK p : p = [i \in {} |-> i]
    OBVIOUS
  <2>3. Arranges(p, R, {})
    BY <2>1, <2>2 DEF Arranges
  <2> QED
    BY <2>3
<1>2. ASSUME NEW T \in SUBSET S, T # {} PROVE \E a \in T : (T \ {a} \in P) => (T \in P)
  <2>1. IsFiniteSet(T) /\ Ranks(R, T)
    BY FS_Subset DEF Ranks
  <2>2. PICK a \in T : IsLast(R, T, a)
    BY <1>2, <2>1, LastExists
  <2>3. ASSUME T \ {a} \in P PROVE T \in P
    <3>1. PICK p : Arranges(p, R, T \ {a})
      BY <2>3
    <3>2. \E q : Arranges(q, R, T)
      BY <2>1, <2>2, <3>1, ArrangementOfMore
    <3> QED
      BY <3>2
  <2> QED
    BY <2>3
<1>3. S \in P
  <2> HIDE DEF P
  <2> QED
    BY <1>1, <1>2, SetInduction
<1> QED
  BY <1>3

(* So AgArranged, which chooses one, is one.                               *)
LEMMA Arranged ==
  ASSUME NEW S, IsFiniteSet(S), NEW R, Ranks(R, S)
  PROVE  Arranges(AgArranged(S, R), R, S) /\ Cardinality(S) \in Nat
<1>1. PICK n : n = Cardinality(S)
  OBVIOUS
<1>2. n \in Nat
  BY <1>1, FS_CardinalityType
<1>3. PICK p : Arranges(p, R, S)
  BY ArrangementOfRanks
<1>4. p \in Bijection(1..n, S) /\ \A i, j \in DOMAIN p : i < j => <<p[i], p[j]>> \in R
  <2>1. /\ p \in [1..n -> S] /\ \A x \in S : \E i \in 1..n : p[i] = x
        /\ \A i, j \in 1..n : i < j => <<p[i], p[j]>> \in R /\ p[i] # p[j]
    BY <1>1, <1>3 DEF Arranges
  <2>2. \A i, j \in 1..n : p[i] = p[j] => i = j
    <3>1. \A i, j \in 1..n : i < j \/ j < i \/ i = j
      BY <1>2
    <3> QED
      BY <2>1, <3>1
  <2>3. p \in Injection(1..n, S)
    BY <2>1, <2>2 DEF Injection, IsInjective
  <2>4. p \in Surjection(1..n, S)
    BY <2>1 DEF Surjection
  <2> QED
    BY <2>1, <2>3, <2>4 DEF Bijection
<1>5. PICK q : q = AgArranged(S, R)
  OBVIOUS
<1>6. q \in Bijection(1..n, S) /\ \A i, j \in DOMAIN q : i < j => <<q[i], q[j]>> \in R
  BY <1>1, <1>4, <1>5 DEF AgArranged
<1>7. /\ q \in [1..n -> S] /\ \A x \in S : \E i \in 1..n : q[i] = x
      /\ \A i, j \in 1..n : q[i] = q[j] => i = j
  <2>1. q \in [1..n -> S] /\ \A i, j \in 1..n : q[i] = q[j] => i = j
    BY <1>6 DEF Bijection, Injection, IsInjective
  <2>2. \A x \in S : \E i \in 1..n : q[i] = x
    BY <1>6 DEF Bijection, Surjection
  <2> QED
    BY <2>1, <2>2
<1>8. \A i, j \in 1..n : i < j => <<q[i], q[j]>> \in R /\ q[i] # q[j]
  <2>1. \A i, j \in 1..n : i < j => i # j
    BY <1>2
  <2> QED
    BY <1>6, <1>7, <2>1
<1> QED
  BY <1>1, <1>2, <1>5, <1>7, <1>8 DEF Arranges

------------------------------------------------------------------------------
(* Fractions: their order, and what lies between two of them               *)

(* Fractions *)
Frac(v) == v.num \in Int /\ v.den \in Nat \ {0}

(* Cross-multiplied comparison is transitive, since denominators are       *)
(* positive.                                                               *)
LEMMA CrossTransitive ==
  ASSUME NEW a \in Int, NEW d \in Nat \ {0}, NEW b \in Int, NEW e \in Nat \ {0},
         NEW c \in Int, NEW f \in Nat \ {0}, a * e <= b * d, b * f <= c * e
  PROVE  a * f <= c * d
<1>1. (a * e) * f <= (b * d) * f
  <2>1. a * e \in Int /\ b * d \in Int /\ f \in Nat
    OBVIOUS
  <2> QED
    BY <2>1, TimesKeeps
<1>2. (b * f) * d <= (c * e) * d
  <2>1. b * f \in Int /\ c * e \in Int /\ d \in Nat
    OBVIOUS
  <2> QED
    BY <2>1, TimesKeeps
<1>3. (a * e) * f = (a * f) * e /\ (c * e) * d = (c * d) * e /\ (b * d) * f = (b * f) * d
  OBVIOUS
<1>4. a * f \in Int /\ c * d \in Int
  OBVIOUS
<1>5. (a * f) * e \in Int /\ (c * d) * e \in Int /\ (b * f) * d \in Int
  OBVIOUS
<1>6. (a * f) * e <= (c * d) * e
  BY <1>1, <1>2, <1>3, <1>5
<1> QED
  BY <1>4, <1>6, TimesCancels

(* AgLeq is transitive.                                                    *)
LEMMA LeqTransitive ==
  ASSUME NEW u, NEW v, NEW w, Frac(u), Frac(v), Frac(w), AgLeq(u, v), AgLeq(v, w)
  PROVE  AgLeq(u, w)
BY CrossTransitive DEF Frac, AgLeq

(* AgLeq compares any two fractions.                                       *)
LEMMA LeqTotal ==
  ASSUME NEW u, NEW v, Frac(u), Frac(v)
  PROVE  (AgLeq(u, v) \/ AgLeq(v, u)) /\ AgLeq(u, u)
<1>1. u.num * v.den \in Int /\ v.num * u.den \in Int
  BY DEF Frac
<1>2. u.num * u.den \in Int
  BY DEF Frac
<1> QED
  BY <1>1, <1>2 DEF AgLeq

(* Every number is a fraction.                                             *)
LEMMA NumbersAreFractions == ASSUME NEW v \in AgNumber PROVE Frac(v)
BY NumberType DEF Frac

(* AgLeq ranks the places of numbers.                                      *)
LEMMA RanksNumbers ==
  ASSUME NEW I, NEW nums \in [I -> AgNumber]
  PROVE  Ranks({x \in I \X I : AgLeq(nums[x[1]], nums[x[2]])}, I)
<1> DEFINE R == {x \in I \X I : AgLeq(nums[x[1]], nums[x[2]])}
<1>1. \A x, y \in I : <<x, y>> \in R <=> AgLeq(nums[x], nums[y])
  OBVIOUS
<1>2. \A x \in I : Frac(nums[x])
  BY NumbersAreFractions
<1> HIDE DEF R
<1>3. \A x, y \in I : <<x, y>> \in R \/ <<y, x>> \in R
  BY <1>1, <1>2, LeqTotal
<1>4. \A x, y, z \in I : <<x, y>> \in R /\ <<y, z>> \in R => <<x, z>> \in R
  <2> SUFFICES ASSUME NEW x \in I, NEW y \in I, NEW z \in I, <<x, y>> \in R, <<y, z>> \in R
               PROVE  <<x, z>> \in R
    OBVIOUS
  <2>1. AgLeq(nums[x], nums[y]) /\ AgLeq(nums[y], nums[z])
    BY <1>1
  <2>2. AgLeq(nums[x], nums[z])
    BY <1>2, <2>1, LeqTransitive
  <2> QED
    BY <1>1, <2>2
<1>5. Ranks(R, I)
  BY <1>3, <1>4 DEF Ranks
<1> QED
  BY <1>5 DEF R

(* There is a least and a greatest of some numbers. *)
LEMMA NumberExtremes ==
  ASSUME NEW I, IsFiniteSet(I), I # {}, NEW nums \in [I -> AgNumber]
  PROVE  /\ \E i \in I : \A j \in I : AgLeq(nums[i], nums[j])
         /\ \E i \in I : \A j \in I : AgLeq(nums[j], nums[i])
<1> DEFINE R == {x \in I \X I : AgLeq(nums[x[1]], nums[x[2]])}
<1>1. PICK p : Arranges(p, R, I)
  BY RanksNumbers, ArrangementOfRanks
<1>2. PICK n : n = Cardinality(I)
  OBVIOUS
<1>3. n \in Nat /\ n # 0
  BY <1>2, FS_CardinalityType, FS_EmptySet
<1>4. /\ p \in [1..n -> I] /\ \A x \in I : \E i \in 1..n : p[i] = x
      /\ \A i, j \in 1..n : i < j => <<p[i], p[j]>> \in R
  BY <1>1, <1>2 DEF Arranges
<1>5. \A i, j \in 1..n : i < j => AgLeq(nums[p[i]], nums[p[j]])
  BY <1>4
<1>6. \A i \in I : AgLeq(nums[i], nums[i])
  BY NumbersAreFractions, LeqTotal
<1>7. 1 \in 1..n /\ n \in 1..n /\ \A i \in 1..n : (i = 1 \/ 1 < i) /\ (i = n \/ i < n)
  BY <1>3
<1> HIDE DEF R
<1>8. \A i \in 1..n : AgLeq(nums[p[1]], nums[p[i]]) /\ AgLeq(nums[p[i]], nums[p[n]])
  BY <1>4, <1>5, <1>6, <1>7
<1>9. \A j \in I : AgLeq(nums[p[1]], nums[j]) /\ AgLeq(nums[j], nums[p[n]])
  BY <1>4, <1>8
<1> QED
  BY <1>4, <1>7, <1>9

(* Between two fractions in proportion *)
LEMMA BetweenInProportion ==
  ASSUME NEW a \in Int, NEW d \in Nat \ {0}, NEW b \in Int, NEW e \in Nat \ {0},
         a * e <= b * d, NEW p \in 0..100
  PROVE  /\ a * (100 * d * e) <= (a * e * (100 - p) + b * d * p) * d
         /\ (a * e * (100 - p) + b * d * p) * e <= b * (100 * d * e)
<1>1. PICK x, y : x = a * e /\ y = b * d
  OBVIOUS
<1>2. x \in Int /\ y \in Int /\ x <= y
  BY <1>1
<1>3. x * p <= y * p /\ x * (100 - p) <= y * (100 - p)
  <2>1. p \in Nat /\ 100 - p \in Nat
    OBVIOUS
  <2> QED
    BY <1>2, <2>1, TimesKeeps
<1>4. x * (100 - p) + x * p = 100 * x /\ y * (100 - p) + y * p = 100 * y
  BY <1>2
<1>5. PICK z : z = x * (100 - p) + y * p
  OBVIOUS
<1>6. x * p \in Int /\ y * p \in Int /\ x * (100 - p) \in Int /\ y * (100 - p) \in Int
  BY <1>2
<1>7. z \in Int /\ 100 * x <= z /\ z <= 100 * y
  BY <1>2, <1>3, <1>4, <1>5, <1>6
<1>8. (100 * x) * d <= z * d /\ z * e <= (100 * y) * e
  <2>1. 100 * x \in Int /\ 100 * y \in Int /\ d \in Nat /\ e \in Nat
    BY <1>2
  <2> QED
    BY <1>7, <2>1, TimesKeeps
<1>9. a * (100 * d * e) = (100 * x) * d /\ b * (100 * d * e) = (100 * y) * e
  BY <1>1
<1> QED
  BY <1>1, <1>5, <1>8, <1>9

------------------------------------------------------------------------------
(* What _combine makes of numbers lies where it should.                    *)

(* _quantile: between the samples nearest to the rank, so between two of   *)
(* them                                                                    *)
LEMMA QuantileBetween ==
  ASSUME NEW I, IsFiniteSet(I), I # {}, NEW nums \in [I -> AgNumber], NEW pct \in 0..100
  PROVE  AgBetween(Range(nums), AgQuantile(nums, pct)) /\ AgQuantile(nums, pct) \in AgNumber
<1> DEFINE R == {x \in I \X I : AgLeq(nums[x[1]], nums[x[2]])}
<1>1. PICK s : s = AgArranged(I, R)
  OBVIOUS
<1>2. PICK n : n = Cardinality(I)
  OBVIOUS
<1>3. n \in Nat /\ n >= 1
  BY <1>2, FS_CardinalityType, FS_EmptySet
<1>4. /\ s \in [1..n -> I] /\ \A i, j \in 1..n : i < j => <<s[i], s[j]>> \in R
  <2>1. Arranges(s, R, I)
    BY <1>1, RanksNumbers, Arranged
  <2> HIDE DEF R
  <2> QED
    BY <1>2, <2>1 DEF Arranges
<1>5. \A i, j \in 1..n : i < j => AgLeq(nums[s[i]], nums[s[j]])
  BY <1>4
<1>6. DOMAIN nums = I
  OBVIOUS
<1>7. PICK rank : rank = pct * (n - 1)
  OBVIOUS
<1>8. PICK low : low = rank \div 100
  OBVIOUS
<1>9. PICK high : high = IF low + 1 < n THEN low + 1 ELSE n - 1
  OBVIOUS
<1>10. rank \in Nat /\ rank <= 100 * (n - 1)
  <2>1. pct \in Int /\ 100 \in Int /\ n - 1 \in Nat /\ pct <= 100
    BY <1>3
  <2>2. pct * (n - 1) <= 100 * (n - 1)
    BY <2>1, TimesKeeps
  <2>3. pct \in Nat
    OBVIOUS
  <2>4. pct * (n - 1) \in Nat
    BY <2>1, <2>3
  <2> QED
    BY <1>7, <2>2, <2>4
<1>11. low \in Nat /\ 100 * low <= rank /\ rank - 100 * low \in 0..99
  BY <1>8, <1>10
<1>12. low <= n - 1
  BY <1>3, <1>10, <1>11
<1>13. low + 1 \in 1..n /\ high + 1 \in 1..n /\ (high + 1 = low + 1 \/ low + 1 < high + 1)
  BY <1>3, <1>9, <1>11, <1>12
<1>14. PICK lo, hi, part : lo = nums[s[low + 1]] /\ hi = nums[s[high + 1]] /\ part = rank - 100 * low
  OBVIOUS
<1>15. AgQuantile(nums, pct) =
         AgFraction(lo.num * hi.den * (100 - part) + hi.num * lo.den * part, 100 * lo.den * hi.den)
  BY <1>1, <1>2, <1>6, <1>7, <1>8, <1>9, <1>14 DEF AgQuantile
<1>16. lo \in AgNumber /\ hi \in AgNumber /\ lo \in Range(nums) /\ hi \in Range(nums)
  <2>1. s[low + 1] \in I /\ s[high + 1] \in I
    BY <1>4, <1>13
  <2> QED
    BY <1>14, <2>1 DEF Range
<1>17. Frac(lo) /\ Frac(hi)
  BY <1>16, NumbersAreFractions
<1>18. AgLeq(lo, hi)
  BY <1>5, <1>13, <1>14, <1>17, LeqTotal
<1>19. /\ lo.num * (100 * lo.den * hi.den) <= (lo.num * hi.den * (100 - part) + hi.num * lo.den * part) * lo.den
       /\ (lo.num * hi.den * (100 - part) + hi.num * lo.den * part) * hi.den <= hi.num * (100 * lo.den * hi.den)
  <2>1. part \in 0..100
    BY <1>11, <1>14
  <2>2. /\ lo.num \in Int /\ lo.den \in Nat \ {0} /\ hi.num \in Int /\ hi.den \in Nat \ {0}
        /\ lo.num * hi.den <= hi.num * lo.den
    BY <1>17, <1>18 DEF Frac, AgLeq
  <2> QED
    BY <2>1, <2>2, BetweenInProportion
<1>20. PICK q : q = AgQuantile(nums, pct)
  OBVIOUS
<1>21. /\ q.num = lo.num * hi.den * (100 - part) + hi.num * lo.den * part
       /\ q.den = 100 * lo.den * hi.den
  BY <1>15, <1>20 DEF AgFraction
<1>22. AgLeq(lo, q) /\ AgLeq(q, hi)
  BY <1>19, <1>21 DEF AgLeq
<1>23. AgBetween(Range(nums), q)
  BY <1>16, <1>22 DEF AgBetween
<1>24. q \in AgNumber
  <2>1. lo.num \in Int /\ lo.den \in Nat \ {0} /\ hi.num \in Int /\ hi.den \in Nat \ {0} /\ part \in Int
    BY <1>11, <1>14, <1>17 DEF Frac
  <2>2. q.num \in Int
    BY <1>21, <2>1
  <2>3. lo.den * hi.den \in Nat \ {0} /\ 100 \in Nat \ {0}
    BY <2>1, PositiveProduct
  <2>4. 100 * (lo.den * hi.den) \in Nat \ {0}
    BY <2>3, PositiveProduct
  <2>5. 100 * lo.den * hi.den = 100 * (lo.den * hi.den)
    BY <2>1
  <2>6. q.den \in Nat \ {0}
    BY <1>21, <2>4, <2>5
  <2>7. q = [type |-> "double", num |-> q.num, den |-> q.den]
    BY <1>15, <1>20 DEF AgFraction
  <2> QED
    BY <2>2, <2>6, <2>7 DEF AgNumber
<1> QED
  BY <1>20, <1>23, <1>24

(* Fractions and integers are numbers.                                     *)
LEMMA FractionType ==
  ASSUME NEW n \in Int, NEW d \in Nat \ {0} PROVE AgFraction(n, d) \in AgNumber /\ AgInt(n) \in AgNumber
BY DEF AgFraction, AgInt, AgNumber

(* The mean lies between some number below and some number above it.       *)
LEMMA MeanBetween ==
  ASSUME NEW I, IsFiniteSet(I), I # {}, NEW nums \in [I -> AgNumber], NEW v,
         v = AgFraction(AgTotal(nums).num, AgTotal(nums).den * Cardinality(DOMAIN nums))
  PROVE  AgBetween(Range(nums), v) /\ v \in AgNumber
<1>1. PICK n : n = Cardinality(I)
  OBVIOUS
<1>2. n \in Nat \ {0}
  BY <1>1, FS_CardinalityType, FS_EmptySet
<1>3. PICK t : t = AgTotal(nums)
  OBVIOUS
<1>4. t.num \in Int /\ t.den \in Nat \ {0}
  BY <1>3, TotalType
<1>5. DOMAIN nums = I
  OBVIOUS
<1>6. v = AgFraction(t.num, t.den * n)
  BY <1>1, <1>3, <1>5
<1>7. v.num = t.num /\ v.den = t.den * n
  BY <1>6 DEF AgFraction
<1>8. PICK i \in I, k \in I : \A j \in I : AgLeq(nums[i], nums[j]) /\ AgLeq(nums[j], nums[k])
  BY NumberExtremes
<1>9. PICK a, b : a = nums[i] /\ b = nums[k]
  OBVIOUS
<1>10. /\ a.num \in Int /\ a.den \in Nat \ {0} /\ b.num \in Int /\ b.den \in Nat \ {0}
       /\ a \in Range(nums) /\ b \in Range(nums)
  BY <1>9, NumberType DEF Range
<1>11. (a.num * n) * t.den <= t.num * a.den
  BY <1>1, <1>3, <1>8, <1>9, <1>10, TotalAtLeast
<1>12. t.num * b.den <= (b.num * n) * t.den
  BY <1>1, <1>3, <1>8, <1>9, <1>10, TotalAtMost
<1>13. a.num * (t.den * n) = (a.num * n) * t.den /\ b.num * (t.den * n) = (b.num * n) * t.den
  BY <1>2, <1>4, <1>10
<1>14. AgLeq(a, v) /\ AgLeq(v, b)
  BY <1>7, <1>11, <1>12, <1>13 DEF AgLeq
<1>15. t.den * n \in Nat \ {0}
  BY <1>2, <1>4, PositiveProduct
<1> QED
  BY <1>4, <1>6, <1>10, <1>14, <1>15, FractionType DEF AgBetween

(* What a number is given back as: the same fraction *)
Typed(nums, v) == IF \A i \in DOMAIN nums : nums[i].type = "int" THEN AgInt(v.num)
                  ELSE AgFraction(v.num, v.den)

(* Typed changes the type at most.                                         *)
LEMMA TypedSame ==
  ASSUME NEW nums, NEW v, Frac(v), (\A i \in DOMAIN nums : nums[i].type = "int") => v.den = 1
  PROVE  /\ Typed(nums, v) \in AgNumber
         /\ Typed(nums, v).num = v.num /\ Typed(nums, v).den = v.den
<1>1. CASE \A i \in DOMAIN nums : nums[i].type = "int"
  <2>1. Typed(nums, v) = AgInt(v.num) /\ v.den = 1
    BY <1>1 DEF Typed
  <2> QED
    BY <2>1, FractionType DEF AgInt, Frac
<1>2. CASE ~ \A i \in DOMAIN nums : nums[i].type = "int"
  <2>1. Typed(nums, v) = AgFraction(v.num, v.den)
    BY <1>2 DEF Typed
  <2> QED
    BY <2>1, FractionType DEF AgFraction, Frac
<1> QED
  BY <1>1, <1>2

(* MIN and MAX are members, and at the ends.                               *)
LEMMA LeastAndMost ==
  ASSUME NEW I, IsFiniteSet(I), I # {}, NEW nums \in [I -> AgNumber], NEW least, NEW most,
         least = CHOOSE v \in Range(nums) : \A u \in Range(nums) : AgLeq(v, u),
         most = CHOOSE v \in Range(nums) : \A u \in Range(nums) : AgLeq(u, v)
  PROVE  /\ least \in Range(nums) /\ most \in Range(nums)
         /\ \A u \in Range(nums) : AgLeq(least, u) /\ AgLeq(u, most)
<1>1. PICK i \in I : \A j \in I : AgLeq(nums[i], nums[j])
  BY NumberExtremes
<1>2. PICK k \in I : \A j \in I : AgLeq(nums[j], nums[k])
  BY NumberExtremes
<1>3. Range(nums) = {nums[j] : j \in I}
  BY DEF Range
<1>4. nums[i] \in Range(nums) /\ \A u \in Range(nums) : AgLeq(nums[i], u)
  BY <1>1, <1>3
<1>5. nums[k] \in Range(nums) /\ \A u \in Range(nums) : AgLeq(u, nums[k])
  BY <1>2, <1>3
<1>6. least \in Range(nums) /\ \A u \in Range(nums) : AgLeq(least, u)
  BY <1>4
<1>7. most \in Range(nums) /\ \A u \in Range(nums) : AgLeq(u, most)
  BY <1>5
<1> QED
  BY <1>6, <1>7

(* What is among numbers is one.                                           *)
LEMMA InRange ==
  ASSUME NEW I, NEW nums \in [I -> AgNumber], NEW v \in Range(nums)
  PROVE  Frac(v) /\ v \in AgNumber /\ ((\A i \in DOMAIN nums : nums[i].type = "int") => v.den = 1)
<1>1. PICK i \in I : v = nums[i]
  BY DEF Range
<1>2. v \in AgNumber /\ DOMAIN nums = I
  BY <1>1
<1> QED
  BY <1>1, <1>2, NumberType, NumbersAreFractions

(* The same fraction keeps its place among others. *)
LEMMA SameFraction ==
  ASSUME NEW u, NEW v, NEW w, u.num = v.num, u.den = v.den
  PROVE  (AgLeq(u, w) <=> AgLeq(v, w)) /\ (AgLeq(w, u) <=> AgLeq(w, v))
BY DEF AgLeq

(* A member given back as Typed has it keeps its place.                    *)
LEMMA ExtremeSound ==
  ASSUME NEW I, IsFiniteSet(I), I # {}, NEW nums \in [I -> AgNumber], NEW x \in Range(nums), NEW v,
         v = Typed(nums, x)
  PROVE  /\ v \in AgNumber /\ AgBetween(Range(nums), v)
         /\ (\A u \in Range(nums) : AgLeq(x, u)) => \A u \in Range(nums) : AgLeq(v, u)
         /\ (\A u \in Range(nums) : AgLeq(u, x)) => \A u \in Range(nums) : AgLeq(u, v)
<1>1. Frac(x) /\ ((\A i \in DOMAIN nums : nums[i].type = "int") => x.den = 1)
  BY InRange
<1>2. v \in AgNumber /\ v.num = x.num /\ v.den = x.den
  BY <1>1, TypedSame
<1>3. AgLeq(x, x)
  BY <1>1, LeqTotal
<1>4. AgLeq(x, v) /\ AgLeq(v, x)
  BY <1>2, <1>3, SameFraction
<1> QED
  BY <1>2, <1>4, SameFraction DEF AgBetween

(* SUM and DELTA: the total as Typed has it                                *)
LEMMA SumSound ==
  ASSUME NEW I, IsFiniteSet(I), NEW nums \in [I -> AgNumber], NEW t, t = AgTotal(nums)
  PROVE  /\ Frac(t) /\ Typed(nums, t) \in AgNumber
         /\ AgLeq(Typed(nums, t), t) /\ AgLeq(t, Typed(nums, t))
<1>1. DOMAIN nums = I
  OBVIOUS
<1>2. Frac(t) /\ ((\A i \in DOMAIN nums : nums[i].type = "int") => t.den = 1)
  BY <1>1, TotalType DEF Frac
<1>3. /\ Typed(nums, t) \in AgNumber /\ Typed(nums, t).num = t.num /\ Typed(nums, t).den = t.den
  BY <1>2, TypedSame
<1>4. AgLeq(t, t)
  BY <1>2, LeqTotal
<1> QED
  BY <1>2, <1>3, <1>4, SameFraction

(* RATE, and the mean: the total divided by the period, or by the count    *)
LEMMA RateSound ==
  ASSUME NEW t, Frac(t), NEW period \in Nat \ {0}, NEW v, v = AgFraction(t.num, t.den * period)
  PROVE  /\ v \in AgNumber
         /\ AgLeq(AgFraction(v.num * period, v.den), t) /\ AgLeq(t, AgFraction(v.num * period, v.den))
<1>1. v.num = t.num /\ v.den = t.den * period
  BY DEF AgFraction
<1>2. t.num \in Int /\ t.den \in Nat \ {0} /\ t.den * period \in Nat \ {0}
  BY PositiveProduct DEF Frac
<1>3. PICK w : w = AgFraction(v.num * period, v.den)
  OBVIOUS
<1>4. w.num = t.num * period /\ w.den = t.den * period
  BY <1>1, <1>3 DEF AgFraction
<1>5. (t.num * period) * t.den = t.num * (t.den * period)
  BY <1>2
<1>6. (t.num * period) * t.den \in Int
  BY <1>2
<1>7. AgLeq(w, t) /\ AgLeq(t, w)
  BY <1>4, <1>5, <1>6 DEF AgLeq
<1> QED
  BY <1>2, <1>3, <1>7, FractionType

(* What is made of numbers is sound, and a number. *)
LEMMA NumbersSound ==
  ASSUME NEW I, IsFiniteSet(I), I # {}, NEW nums \in [I -> AgNumber],
         NEW how \in AgHow, NEW period \in Nat, NEW v, v = AgOfNumbers(nums, how, period)
  PROVE  v \in AgNumber /\ AgSoundNumbers(nums, how, period, v)
<1>1. PICK least : least = CHOOSE w \in Range(nums) : \A u \in Range(nums) : AgLeq(w, u)
  OBVIOUS
<1>2. PICK most : most = CHOOSE w \in Range(nums) : \A u \in Range(nums) : AgLeq(u, w)
  OBVIOUS
<1>3. PICK t : t = AgTotal(nums)
  OBVIOUS
<1>4. PICK n : n = Cardinality(DOMAIN nums)
  OBVIOUS
<1>5. n \in Nat \ {0}
  <2>1. DOMAIN nums = I
    OBVIOUS
  <2> QED
    BY <1>4, <2>1, FS_CardinalityType, FS_EmptySet
<1>6. v = CASE how.op = "PERCENTILE" -> AgQuantile(nums, how.pct)
            [] how.op = "MIN"   -> Typed(nums, least)
            [] how.op = "MAX"   -> Typed(nums, most)
            [] how.op = "COUNT" -> AgInt(n)
            [] how.op = "RATE" /\ period # 0 -> AgFraction(t.num, t.den * period)
            [] how.op \in {"SUM", "DELTA"} -> Typed(nums, t)
            [] OTHER -> AgFraction(t.num, t.den * n)
  BY <1>1, <1>2, <1>3, <1>4 DEF AgOfNumbers, Typed
<1> DEFINE equal(a, b) == AgLeq(a, b) /\ AgLeq(b, a)
           other == /\ AgBetween(Range(nums), v)
                    /\ how.op = "MIN" => \A a \in Range(nums) : AgLeq(v, a)
                    /\ how.op = "MAX" => \A a \in Range(nums) : AgLeq(a, v)
                    /\ how.op \notin {"PERCENTILE", "MIN", "MAX"} =>
                         equal(AgFraction(v.num * n, v.den), t)
<1>7. AgSoundNumbers(nums, how, period, v) <=>
        CASE how.op = "SUM" \/ how.op = "DELTA" -> equal(v, t)
          [] how.op = "RATE" /\ period # 0 -> equal(AgFraction(v.num * period, v.den), t)
          [] how.op = "COUNT" -> v.num = n
          [] OTHER -> other
  BY <1>3, <1>4 DEF AgSoundNumbers
<1>8. /\ least \in Range(nums) /\ most \in Range(nums)
      /\ \A u \in Range(nums) : AgLeq(least, u) /\ AgLeq(u, most)
  BY <1>1, <1>2, LeastAndMost
<1>9. CASE how.op = "PERCENTILE"
  <2>1. v = AgQuantile(nums, how.pct) /\ how.pct \in 0..100
    BY <1>6, <1>9 DEF AgHow
  <2>2. AgBetween(Range(nums), v) /\ v \in AgNumber
    BY <2>1, QuantileBetween
  <2> QED
    BY <1>7, <1>9, <2>2
<1>10. CASE how.op = "MIN"
  <2>1. v = Typed(nums, least)
    BY <1>6, <1>10
  <2>2. v \in AgNumber /\ AgBetween(Range(nums), v) /\ \A u \in Range(nums) : AgLeq(v, u)
    BY <1>8, <2>1, ExtremeSound
  <2> QED
    BY <1>7, <1>10, <2>2
<1>11. CASE how.op = "MAX"
  <2>1. v = Typed(nums, most)
    BY <1>6, <1>11
  <2>2. v \in AgNumber /\ AgBetween(Range(nums), v) /\ \A u \in Range(nums) : AgLeq(u, v)
    BY <1>8, <2>1, ExtremeSound
  <2> QED
    BY <1>7, <1>11, <2>2
<1>12. CASE how.op = "COUNT"
  <2>1. v = AgInt(n)
    BY <1>6, <1>12
  <2>2. v \in AgNumber /\ v.num = n
    BY <1>5, <2>1, FractionType DEF AgInt
  <2> QED
    BY <1>7, <1>12, <2>2
<1>13. CASE how.op = "RATE" /\ period # 0
  <2>1. v = AgFraction(t.num, t.den * period) /\ Frac(t)
    BY <1>3, <1>6, <1>13, SumSound
  <2>2. v \in AgNumber /\ equal(AgFraction(v.num * period, v.den), t)
    BY <1>13, <2>1, RateSound
  <2> QED
    BY <1>7, <1>13, <2>2
<1>14. CASE how.op \in {"SUM", "DELTA"}
  <2>1. v = Typed(nums, t)
    BY <1>6, <1>14
  <2>2. v \in AgNumber /\ equal(v, t)
    BY <1>3, <2>1, SumSound
  <2> QED
    BY <1>7, <1>14, <2>2
<1>15. CASE /\ how.op \notin {"PERCENTILE", "MIN", "MAX", "COUNT", "SUM", "DELTA"}
            /\ ~ (how.op = "RATE" /\ period # 0)
  <2>1. v = AgFraction(t.num, t.den * n)
    BY <1>6, <1>15
  <2>2. AgBetween(Range(nums), v) /\ v \in AgNumber
    BY <1>3, <1>4, <2>1, MeanBetween
  <2>3. equal(AgFraction(v.num * n, v.den), t)
    <3>1. Frac(t)
      BY <1>3, SumSound
    <3> QED
      BY <1>5, <2>1, <3>1, RateSound
  <2> QED
    BY <1>7, <1>15, <2>2, <2>3
<1> QED
  BY <1>9, <1>10, <1>11, <1>12, <1>13, <1>14, <1>15

------------------------------------------------------------------------------
(* Distributions: bounds, cumulated counts and the bucket of a percentile  *)

(* The bounds are integers, and there is one.                              *)
LEMMA BoundsType ==
  /\ Len(AgBounds) \in Nat /\ Len(AgBounds) >= 1
  /\ \A b \in 1..Len(AgBounds) : AgBounds[b] \in Int
  /\ \A b, c \in 1..Len(AgBounds) : b <= c => AgBounds[b] <= AgBounds[c]
<1>1. AgBounds \in Seq(Int) /\ AgBounds # <<>>
  BY AggregationAssumption
<1>2. DOMAIN AgBounds = 1..Len(AgBounds) /\ Len(AgBounds) \in Nat
  BY <1>1, LenProperties
<1>3. Len(AgBounds) # 0
  BY <1>1, EmptySeq
<1>4. \A b \in 1..Len(AgBounds) : AgBounds[b] \in Int
  BY <1>1, <1>2, ElementOfSeq
<1> QED
  BY <1>2, <1>3, <1>4, AggregationAssumption

(* What a distribution is made of                                          *)
LEMMA DistributionType ==
  ASSUME NEW d \in AgDistribution
  PROVE  /\ d.count \in Nat /\ d.sum \in Int /\ d.counts \in Seq(Nat) /\ Len(d.counts) \in Nat
         /\ Len(d.counts) <= Len(AgBounds) + 1
         /\ DOMAIN d.counts = 1..Len(d.counts) /\ d.counts \in [1..Len(d.counts) -> Nat]
<1>1. d.count \in Nat /\ d.sum \in Int /\ d.counts \in Seq(Nat) /\ Len(d.counts) <= Len(AgBounds) + 1
  BY DEF AgDistribution
<1>2. Len(d.counts) \in Nat /\ DOMAIN d.counts = 1..Len(d.counts)
  BY <1>1, LenProperties
<1>3. d.counts \in [1..Len(d.counts) -> Nat]
  BY <1>1, <1>2, LenProperties
<1> QED
  BY <1>1, <1>2, <1>3

(* Counts of buckets: how many samples are in the first c *)
First(counts, c) == {b \in DOMAIN counts : b <= c}

(* Cumulated counts grow up to the sum of all counts.                      *)
LEMMA UpToGrows ==
  ASSUME NEW n \in Nat, NEW counts \in [1..n -> Nat], NEW c \in Int
  PROVE  /\ AgUpTo(counts, c) \in Nat /\ AgSum(counts) \in Nat
         /\ AgUpTo(counts, c) <= AgSum(counts)
         /\ c >= n => AgUpTo(counts, c) = AgSum(counts)
         /\ \A d \in Int : c <= d => AgUpTo(counts, c) <= AgUpTo(counts, d)
<1>1. IsFiniteSet(1..n) /\ DOMAIN counts = 1..n /\ counts \in [1..n -> Int]
  BY FS_Interval
<1>2. AgUpTo(counts, c) = AgSum(Restrict(counts, First(counts, c))) /\ First(counts, c) \in SUBSET (1..n)
  BY <1>1 DEF AgUpTo, First
<1>3. AgUpTo(counts, c) \in Nat /\ AgSum(counts) \in Nat /\ AgUpTo(counts, c) <= AgSum(counts)
  BY <1>1, <1>2, SumAtLeastZero
<1>4. ASSUME c >= n PROVE AgUpTo(counts, c) = AgSum(counts)
  <2>1. First(counts, c) = 1..n
    BY <1>1, <1>4 DEF First
  <2> QED
    BY <1>1, <1>2, <2>1, RestrictAll
<1>5. ASSUME NEW d \in Int, c <= d PROVE AgUpTo(counts, c) <= AgUpTo(counts, d)
  <2>1. AgUpTo(counts, d) = AgSum(Restrict(counts, First(counts, d))) /\ First(counts, d) \in SUBSET (1..n)
    BY <1>1 DEF AgUpTo, First
  <2>2. First(counts, c) \in SUBSET First(counts, d)
    <3>1. \A b \in 1..n : b <= c => b <= d
      BY <1>5
    <3> QED
      BY <1>1, <3>1 DEF First
  <2>3. PICK f : f = Restrict(counts, First(counts, d))
    OBVIOUS
  <2>4. f \in [First(counts, d) -> Nat] /\ IsFiniteSet(First(counts, d))
    BY <1>1, <2>1, <2>3, RestrictAll, FS_Subset
  <2>5. Restrict(f, First(counts, c)) = Restrict(counts, First(counts, c))
    BY <2>2, <2>3 DEF Restrict
  <2>6. AgSum(Restrict(f, First(counts, c))) <= AgSum(f)
    BY <2>2, <2>4, SumAtLeastZero
  <2> QED
    BY <1>2, <2>1, <2>3, <2>5, <2>6
<1> QED
  BY <1>3, <1>4, <1>5

(* The bucket of a percentile: the first that reaches it *)
LEMMA BucketFound ==
  ASSUME NEW d \in AgDistribution, NEW pct \in 0..100, AgSum(d.counts) > 0
  PROVE  /\ AgBucket(d, pct) \in 1..Len(d.counts) /\ AgReaches(d, pct, AgBucket(d, pct))
         /\ \A c \in 1..AgBucket(d, pct) - 1 : ~ AgReaches(d, pct, c)
<1>1. PICK n : n = Len(d.counts)
  OBVIOUS
<1>2. n \in Nat /\ d.counts \in [1..n -> Nat] /\ DOMAIN d.counts = 1..n
  BY <1>1, DistributionType
<1>3. PICK S : S = {b \in 1..n : AgReaches(d, pct, b)}
  OBVIOUS
<1>4. n # 0
  <2> SUFFICES ASSUME n = 0 PROVE FALSE
    OBVIOUS
  <2>1. DOMAIN d.counts = {}
    BY <1>2
  <2>2. AgSum(d.counts) = 0
    BY <2>1, SumOfNone
  <2> QED
    BY <2>2
<1>5. AgReaches(d, pct, n)
  <2>1. AgUpTo(d.counts, n) = AgSum(d.counts) /\ AgSum(d.counts) \in Nat
    BY <1>2, UpToGrows
  <2>2. pct * AgSum(d.counts) <= 100 * AgSum(d.counts)
    <3>1. pct \in Int /\ pct <= 100
      OBVIOUS
    <3> QED
      BY <2>1, <3>1, TimesKeeps
  <2>3. 100 * AgSum(d.counts) >= pct * AgSum(d.counts)
    <3>1. 100 * AgSum(d.counts) \in Int /\ pct * AgSum(d.counts) \in Int
      BY <2>1
    <3> QED
      BY <2>2, <3>1
  <2> QED
    BY <2>1, <2>3 DEF AgReaches
<1>6. n \in S /\ S \subseteq 1..n /\ IsFiniteSet(S)
  <2>1. n \in 1..n /\ IsFiniteSet(1..n)
    BY <1>2, <1>4, FS_Interval
  <2> QED
    BY <1>3, <1>5, <2>1, FS_Subset
<1> DEFINE R == {x \in S \X S : x[1] > x[2]}
<1>7. Ranks(R, S)
  <2>1. \A x, y \in S : <<x, y>> \in R <=> x > y
    OBVIOUS
  <2> HIDE DEF R
  <2>2. \A x \in S : x \in Nat
    BY <1>6
  <2>3. \A x, y \in S : x # y => x > y \/ y > x
    BY <2>2
  <2>4. \A x, y, z \in S : x > y /\ y > z => x > z
    BY <2>2
  <2> QED
    BY <2>1, <2>3, <2>4 DEF Ranks
<1>8. PICK b \in S : IsLast(R, S, b)
  <2> HIDE DEF R
  <2> QED
    BY <1>6, <1>7, LastExists
<1>9. \A x \in S : x # b => x > b
  BY <1>8 DEF IsLast
<1>10. b \in 1..n /\ AgReaches(d, pct, b)
  BY <1>3
<1>11. \A c \in 1..b - 1 : ~ AgReaches(d, pct, c)
  <2> SUFFICES ASSUME NEW c \in 1..b - 1, AgReaches(d, pct, c) PROVE FALSE
    OBVIOUS
  <2>1. c \in 1..n /\ ~ (c > b) /\ c # b
    <3>1. b \in Nat /\ b <= n
      BY <1>2, <1>10
    <3>2. c \in Nat /\ c >= 1 /\ c <= b - 1
      BY <3>1
    <3> QED
      BY <1>2, <3>1, <3>2
  <2>2. c \in S
    BY <1>3, <2>1
  <2> QED
    BY <1>9, <2>1, <2>2
<1>12. PICK k : k = AgBucket(d, pct)
  OBVIOUS
<1>13. k \in 1..n /\ AgReaches(d, pct, k) /\ \A c \in 1..k - 1 : ~ AgReaches(d, pct, c)
  BY <1>2, <1>10, <1>11, <1>12 DEF AgBucket
<1> QED
  BY <1>1, <1>12, <1>13

(* Later buckets have middles no smaller.                                  *)
LEMMA MiddleGrows ==
  ASSUME NEW b \in 1..Len(AgBounds) + 1, NEW c \in 1..Len(AgBounds) + 1
  PROVE  AgMiddle(b) \in AgNumber /\ (b <= c => AgLeq(AgMiddle(b), AgMiddle(c)))
<1>1. PICK n : n = Len(AgBounds)
  OBVIOUS
<1>2. n \in Nat /\ n >= 1
  BY <1>1, BoundsType
<1> DEFINE low(k)  == IF k \in 2..n + 1 THEN k - 1 ELSE 1
           high(k) == IF k <= n THEN k ELSE n
<1>3. ASSUME NEW k \in 1..n + 1
      PROVE  /\ low(k) \in 1..n /\ high(k) \in 1..n
             /\ AgMiddle(k) = AgFraction(AgBounds[low(k)] + AgBounds[high(k)], 2)
  <2>1. low(k) \in 1..n /\ high(k) \in 1..n
    BY <1>2
  <2>2. ~ (k <= n) => low(k) = n
    BY <1>2
  <2>3. AgMiddle(k) = AgFraction(AgBounds[low(k)] + (IF k <= n THEN AgBounds[k] ELSE AgBounds[low(k)]), 2)
    BY <1>1 DEF AgMiddle
  <2> QED
    BY <2>1, <2>2, <2>3
<1>4. b <= c => low(b) <= low(c) /\ high(b) <= high(c)
  BY <1>1, <1>2
<1>5. PICK i, j, k, l : i = low(b) /\ j = high(b) /\ k = low(c) /\ l = high(c)
  OBVIOUS
<1>6. i \in 1..n /\ j \in 1..n /\ k \in 1..n /\ l \in 1..n
  BY <1>1, <1>3, <1>5
<1>7. /\ AgBounds[i] \in Int /\ AgBounds[j] \in Int /\ AgBounds[k] \in Int /\ AgBounds[l] \in Int
  BY <1>1, <1>6, BoundsType
<1>8. /\ AgMiddle(b) = AgFraction(AgBounds[i] + AgBounds[j], 2)
      /\ AgMiddle(c) = AgFraction(AgBounds[k] + AgBounds[l], 2)
  BY <1>1, <1>3, <1>5
<1>9. AgMiddle(b) \in AgNumber
  <2>1. AgBounds[i] + AgBounds[j] \in Int /\ 2 \in Nat \ {0}
    BY <1>7
  <2> QED
    BY <1>8, <2>1, FractionType
<1>10. ASSUME b <= c PROVE AgLeq(AgMiddle(b), AgMiddle(c))
  <2>1. AgBounds[i] <= AgBounds[k] /\ AgBounds[j] <= AgBounds[l]
    BY <1>1, <1>4, <1>5, <1>6, <1>10, BoundsType
  <2>2. (AgBounds[i] + AgBounds[j]) * 2 <= (AgBounds[k] + AgBounds[l]) * 2
    BY <1>7, <2>1
  <2> QED
    BY <1>8, <2>2 DEF AgLeq, AgFraction
<1> QED
  BY <1>9, <1>10

------------------------------------------------------------------------------
(* _merge_distributions: bucket by bucket, counts are added up.            *)

(* The longest of some counts, and the counts of one of some distributions *)
(* padded with zeros to its length                                         *)
Longest(dists) == LET lengths == {Len(dists[i].counts) : i \in DOMAIN dists}
                  IN CHOOSE n \in lengths : \A m \in lengths : m <= n
Padded(dists, i) == [b \in 1..Longest(dists) |->
                       IF b \in DOMAIN dists[i].counts THEN dists[i].counts[b] ELSE 0]

(* There is a longest, and it has no more buckets than the bounds allow.   *)
LEMMA LongestIs ==
  ASSUME NEW I, I # {}, NEW dists \in [I -> AgDistribution]
  PROVE  /\ Longest(dists) \in Nat /\ Longest(dists) <= Len(AgBounds) + 1
         /\ \A i \in I : Len(dists[i].counts) <= Longest(dists)
<1>1. PICK lengths : lengths = {Len(dists[i].counts) : i \in I}
  OBVIOUS
<1>2. \A i \in I : Len(dists[i].counts) \in Nat /\ Len(dists[i].counts) <= Len(AgBounds) + 1
  BY DistributionType
<1>3. Len(AgBounds) \in Nat
  BY BoundsType
<1>4. lengths \subseteq 0..Len(AgBounds) + 1 /\ lengths # {} /\ \A m \in lengths : m \in Nat
  <2>1. \A m \in lengths : m \in Nat /\ m <= Len(AgBounds) + 1
    BY <1>1, <1>2
  <2>2. \A m \in Nat : m <= Len(AgBounds) + 1 => m \in 0..Len(AgBounds) + 1
    BY <1>3
  <2> QED
    BY <1>1, <2>1, <2>2
<1>5. IsFiniteSet(lengths)
  <2>1. 0 \in Int /\ Len(AgBounds) + 1 \in Int
    BY <1>3
  <2>2. IsFiniteSet(0..Len(AgBounds) + 1)
    BY <2>1, FS_Interval
  <2> QED
    BY <1>4, <2>2, FS_Subset
<1> DEFINE R == {x \in lengths \X lengths : x[1] <= x[2]}
<1>6. Ranks(R, lengths)
  <2>1. \A x, y \in lengths : <<x, y>> \in R <=> x <= y
    OBVIOUS
  <2> HIDE DEF R
  <2>2. \A x, y \in lengths : x <= y \/ y <= x
    BY <1>4
  <2>3. \A x, y, z \in lengths : x <= y /\ y <= z => x <= z
    BY <1>4
  <2> QED
    BY <2>1, <2>2, <2>3 DEF Ranks
<1>7. PICK g \in lengths : IsLast(R, lengths, g)
  <2> HIDE DEF R
  <2> QED
    BY <1>4, <1>5, <1>6, LastExists
<1>8. \A m \in lengths : m <= g
  <2>1. \A m \in lengths : m # g => m <= g
    BY <1>7 DEF IsLast
  <2>2. g <= g
    BY <1>4
  <2> QED
    BY <2>1, <2>2
<1>9. PICK n : n = CHOOSE k \in lengths : \A m \in lengths : m <= k
  OBVIOUS
<1>10. n \in lengths /\ \A m \in lengths : m <= n
  BY <1>8, <1>9
<1>11. Longest(dists) = n
  <2>1. DOMAIN dists = I
    OBVIOUS
  <2> QED
    BY <1>1, <1>9, <2>1 DEF Longest
<1>12. n \in Nat /\ n <= Len(AgBounds) + 1
  BY <1>1, <1>2, <1>10
<1>13. \A i \in I : Len(dists[i].counts) <= n
  BY <1>1, <1>10
<1> QED
  BY <1>11, <1>12, <1>13

(* Restrict to some places, for one set of them                            *)
LEMMA RestrictSome ==
  ASSUME NEW D, NEW T, NEW f \in [D -> T], NEW S, S \subseteq D
  PROVE  Restrict(f, S) \in [S -> T] /\ \A i \in S : Restrict(f, S)[i] = f[i]
BY DEF Restrict

(* Padding changes no cumulated count.                                     *)
LEMMA PaddedType ==
  ASSUME NEW I, I # {}, NEW dists \in [I -> AgDistribution], NEW i \in I
  PROVE  /\ Padded(dists, i) \in [1..Longest(dists) -> Nat]
         /\ \A c \in Int : AgUpTo(Padded(dists, i), c) = AgUpTo(dists[i].counts, c)
<1>1. PICK n, l, counts : n = Longest(dists) /\ l = Len(dists[i].counts) /\ counts = dists[i].counts
  OBVIOUS
<1>2. /\ n \in Nat /\ l \in Nat /\ l <= n
      /\ counts \in [1..l -> Nat] /\ DOMAIN counts = 1..l
  <2>1. dists[i] \in AgDistribution
    OBVIOUS
  <2> QED
    BY <1>1, <2>1, LongestIs, DistributionType
<1>3. PICK p : p = Padded(dists, i)
  OBVIOUS
<1>4. p = [b \in 1..n |-> IF b \in 1..l THEN counts[b] ELSE 0]
  BY <1>1, <1>2, <1>3 DEF Padded
<1>5. p \in [1..n -> Nat]
  BY <1>2, <1>4
<1>6. ASSUME NEW c \in Int PROVE AgUpTo(p, c) = AgUpTo(counts, c)
  <2>1. PICK S, T : S = First(p, c) /\ T = First(counts, c)
    OBVIOUS
  <2>2. S = {b \in 1..n : b <= c} /\ T = {b \in 1..l : b <= c}
    BY <1>2, <1>5, <2>1 DEF First
  <2>3. T \in SUBSET S /\ S \in SUBSET (1..n) /\ \A b \in S \ T : b \in 1..n /\ b \notin 1..l
    <3>1. \A b \in 1..l : b \in 1..n
      BY <1>2
    <3> QED
      BY <2>2, <3>1
  <2>4. PICK f : f = Restrict(p, S)
    OBVIOUS
  <2>5. f \in [S -> Nat] /\ \A b \in S : f[b] = p[b]
    <3>1. S \subseteq 1..n
      BY <2>3
    <3>2. Restrict(p, S) \in [S -> Nat]
      BY <1>5, <3>1, RestrictSome
    <3>3. \A b \in S : Restrict(p, S)[b] = p[b]
      BY DEF Restrict
    <3> QED
      BY <2>4, <3>2, <3>3
  <2>6. f \in [S -> Int] /\ IsFiniteSet(S)
    <3>1. IsFiniteSet(1..n)
      BY <1>2, FS_Interval
    <3>2. IsFiniteSet(S)
      BY <2>3, <3>1, FS_Subset
    <3>3. f \in [S -> Int]
      BY <2>5
    <3> QED
      BY <3>2, <3>3
  <2>7. \A b \in S \ T : f[b] = 0
    BY <1>4, <2>3, <2>5
  <2>8. AgSum(f) = AgSum(Restrict(f, T))
    BY <2>3, <2>6, <2>7, SumPadded
  <2>9. Restrict(f, T) = Restrict(counts, T)
    <3>1. \A b \in T : f[b] = counts[b]
      <4>1. \A b \in T : b \in S /\ b \in 1..l /\ b \in 1..n
        BY <2>2, <2>3
      <4> QED
        BY <1>4, <2>5, <4>1
    <3> QED
      BY <3>1 DEF Restrict
  <2>10. AgUpTo(p, c) = AgSum(f)
    BY <2>1, <2>4 DEF AgUpTo, First
  <2>11. AgUpTo(counts, c) = AgSum(Restrict(counts, T))
    BY <2>1 DEF AgUpTo, First
  <2> QED
    BY <2>8, <2>9, <2>10, <2>11
<1> QED
  BY <1>1, <1>3, <1>5, <1>6

(* How many samples each has in its first c buckets, and that m's add up   *)
UpTos(dists, c)   == [i \in DOMAIN dists |-> AgUpTo(dists[i].counts, c)]
AddsUp(m, dists) == \A c \in Int : AgUpTo(m.counts, c) = AgSum(UpTos(dists, c))

(* Of what is merged as many samples are in the first buckets as of all    *)
(* that is merged together.                                                *)
LEMMA MergeIs ==
  ASSUME NEW I, IsFiniteSet(I), I # {}, NEW dists \in [I -> AgDistribution], NEW m, m = AgMerge(dists)
  PROVE  /\ m \in AgDistribution /\ m.count = AgSum([i \in I |-> dists[i].count])
         /\ m.counts \in [1..Longest(dists) -> Nat] /\ Len(m.counts) = Longest(dists)
         /\ AddsUp(m, dists)
<1>1. PICK n : n = Longest(dists)
  OBVIOUS
<1>2. n \in Nat /\ n <= Len(AgBounds) + 1 /\ IsFiniteSet(1..n)
  <2>1. n \in Nat /\ n <= Len(AgBounds) + 1
    BY <1>1, LongestIs
  <2> QED
    BY <2>1, FS_Interval
<1>3. PICK pad : pad = [i \in I |-> Padded(dists, i)]
  OBVIOUS
<1>4. \A i \in I : pad[i] = Padded(dists, i) /\ pad[i] \in [1..n -> Nat]
  BY <1>1, <1>3, PaddedType
<1>5. PICK counts : counts = [b \in 1..n |-> AgSum([i \in I |-> pad[i][b]])]
  OBVIOUS
<1>6. m = AgDist(AgSum([i \in I |-> dists[i].count]), AgSum([i \in I |-> dists[i].sum]), counts)
  <2>1. DOMAIN dists = I
    OBVIOUS
  <2>2. PICK at : at = [b \in 1..n |-> [i \in I |->
                         IF b \in DOMAIN dists[i].counts THEN dists[i].counts[b] ELSE 0]]
    OBVIOUS
  <2>3. m = AgDist(AgSum([i \in I |-> dists[i].count]), AgSum([i \in I |-> dists[i].sum]),
                   [b \in 1..n |-> AgSum([i \in I |->
                         IF b \in DOMAIN dists[i].counts THEN dists[i].counts[b] ELSE 0])])
    BY <1>1, <2>1 DEF AgMerge, Longest
  <2>4. \A b \in 1..n : [i \in I |-> pad[i][b]] = at[b]
    <3> SUFFICES ASSUME NEW b \in 1..n PROVE [i \in I |-> pad[i][b]] = at[b]
      OBVIOUS
    <3>1. \A i \in I : pad[i][b] = IF b \in DOMAIN dists[i].counts THEN dists[i].counts[b] ELSE 0
      BY <1>1, <1>4 DEF Padded
    <3> QED
      BY <2>2, <3>1
  <2>5. counts = [b \in 1..n |-> AgSum(at[b])]
    BY <1>5, <2>4
  <2>6. [b \in 1..n |-> AgSum(at[b])] = [b \in 1..n |-> AgSum([i \in I |->
                         IF b \in DOMAIN dists[i].counts THEN dists[i].counts[b] ELSE 0])]
    BY <2>2
  <2> QED
    BY <2>3, <2>5, <2>6
<1>7. m.counts = counts /\ m.count = AgSum([i \in I |-> dists[i].count])
  BY <1>6 DEF AgDist
<1>8. ASSUME NEW b \in 1..n PROVE counts[b] \in Nat
  <2>1. \A i \in I : pad[i][b] \in Nat
    BY <1>4
  <2>2. [i \in I |-> pad[i][b]] \in [I -> Nat]
    BY <2>1
  <2>3. AgSum([i \in I |-> pad[i][b]]) \in Nat
    BY <2>2, SumAtLeastZero
  <2> QED
    BY <1>5, <2>3
<1>9. counts \in [1..n -> Nat]
  BY <1>5, <1>8
<1>10. counts \in Seq(Nat) /\ Len(counts) = n
  BY <1>2, <1>9, LenProperties
<1>11. m \in AgDistribution
  <2>1. AgSum([i \in I |-> dists[i].count]) \in Nat
    <3>1. [i \in I |-> dists[i].count] \in [I -> Nat]
      BY DistributionType
    <3> QED
      BY <3>1, SumAtLeastZero
  <2>2. AgSum([i \in I |-> dists[i].sum]) \in Int
    <3>1. [i \in I |-> dists[i].sum] \in [I -> Int]
      BY DistributionType
    <3> QED
      BY <3>1, WholeTotal
  <2>3. counts \in {c \in Seq(Nat) : Len(c) <= Len(AgBounds) + 1}
    BY <1>2, <1>10
  <2> QED
    BY <1>6, <2>1, <2>2, <2>3 DEF AgDist, AgDistribution
<1>12. ASSUME NEW c \in Int PROVE AgUpTo(counts, c) = AgSum(UpTos(dists, c))
  <2>1. PICK S : S = First(counts, c)
    OBVIOUS
  <2>2. S = {b \in 1..n : b <= c} /\ S \in SUBSET (1..n) /\ IsFiniteSet(S)
    <3>1. S = {b \in 1..n : b <= c}
      BY <1>9, <2>1 DEF First
    <3> QED
      BY <1>2, <3>1, FS_Subset
  <2>3. PICK f : f = [i \in I |-> Restrict(pad[i], S)]
    OBVIOUS
  <2>4. \A i \in I : f[i] = Restrict(pad[i], S) /\ f[i] \in [S -> Nat] /\ \A b \in S : f[i][b] = pad[i][b]
    <3> SUFFICES ASSUME NEW i \in I
                 PROVE  f[i] = Restrict(pad[i], S) /\ f[i] \in [S -> Nat] /\ \A b \in S : f[i][b] = pad[i][b]
      OBVIOUS
    <3>1. pad[i] \in [1..n -> Nat] /\ S \subseteq 1..n
      BY <1>4, <2>2
    <3>2. f[i] = Restrict(pad[i], S)
      BY <2>3
    <3>3. Restrict(pad[i], S) \in [S -> Nat]
      BY <3>1, RestrictSome
    <3>4. \A b \in S : Restrict(pad[i], S)[b] = pad[i][b]
      BY DEF Restrict
    <3> QED
      BY <3>2, <3>3, <3>4
  <2>5. f \in [I -> [S -> Int]]
    <3>1. \A i \in I : f[i] \in [S -> Int]
      BY <2>4
    <3> QED
      BY <2>3, <3>1
  <2>6. AgSum([b \in S |-> AgSum([i \in I |-> f[i][b]])]) = AgSum([i \in I |-> AgSum(f[i])])
    <3>1. IsFiniteSet(S)
      BY <2>2
    <3> QED
      BY <2>5, <3>1, SumsSwap
  <2>7. Restrict(counts, S) = [b \in S |-> AgSum([i \in I |-> f[i][b]])]
    <3>1. \A b \in S : counts[b] = AgSum([i \in I |-> f[i][b]])
      <4> SUFFICES ASSUME NEW b \in S PROVE counts[b] = AgSum([i \in I |-> f[i][b]])
        OBVIOUS
      <4>1. counts[b] = AgSum([i \in I |-> pad[i][b]])
        BY <1>5, <2>2
      <4>2. [i \in I |-> pad[i][b]] = [i \in I |-> f[i][b]]
        BY <2>4
      <4> QED
        BY <4>1, <4>2
    <3> QED
      BY <3>1 DEF Restrict
  <2>8. \A i \in I : AgSum(f[i]) = AgUpTo(dists[i].counts, c)
    <3> SUFFICES ASSUME NEW i \in I PROVE AgSum(f[i]) = AgUpTo(dists[i].counts, c)
      OBVIOUS
    <3>1. First(pad[i], c) = S
      BY <1>4, <2>2 DEF First
    <3>2. AgUpTo(pad[i], c) = AgSum(f[i])
      BY <2>4, <3>1 DEF AgUpTo, First
    <3>3. AgUpTo(pad[i], c) = AgUpTo(dists[i].counts, c)
      BY <1>4, PaddedType
    <3> QED
      BY <3>2, <3>3
  <2>9. [i \in I |-> AgSum(f[i])] = UpTos(dists, c)
    <3>1. DOMAIN dists = I
      OBVIOUS
    <3> QED
      BY <2>8, <3>1 DEF UpTos
  <2>10. AgUpTo(counts, c) = AgSum(Restrict(counts, S))
    BY <2>1 DEF AgUpTo, First
  <2> QED
    BY <2>6, <2>7, <2>9, <2>10
<1>13. AddsUp(m, dists)
  BY <1>7, <1>12 DEF AddsUp
<1> QED
  BY <1>1, <1>7, <1>9, <1>10, <1>11, <1>13

(* A sum over I is one over D with zeros elsewhere.                        *)
LEMMA SumOver ==
  ASSUME NEW D, IsFiniteSet(D), NEW I, I \subseteq D, NEW n \in [I -> Int]
  PROVE  AgSum([i \in D |-> IF i \in I THEN n[i] ELSE 0]) = AgSum(n)
<1>1. PICK m : m = [i \in D |-> IF i \in I THEN n[i] ELSE 0]
  OBVIOUS
<1>2. m \in [D -> Int] /\ \A i \in D \ I : m[i] = 0
  BY <1>1
<1>3. AgSum(m) = AgSum(Restrict(m, I))
  <2>1. I \in SUBSET D
    OBVIOUS
  <2> QED
    BY <1>2, <2>1, SumPadded
<1>4. Restrict(m, I) = n
  BY <1>1 DEF Restrict
<1> QED
  BY <1>1, <1>3, <1>4

(* All samples of what is merged are those of all that is merged. *)
LEMMA MergedSamples ==
  ASSUME NEW I, IsFiniteSet(I), I # {}, NEW dists \in [I -> AgDistribution], NEW m, m = AgMerge(dists)
  PROVE  /\ [i \in I |-> AgSum(dists[i].counts)] \in [I -> Nat]
         /\ AgSum(m.counts) = AgSum([i \in I |-> AgSum(dists[i].counts)])
<1>1. PICK n : n = Longest(dists)
  OBVIOUS
<1>2. n \in Nat /\ \A i \in I : Len(dists[i].counts) <= n
  BY <1>1, LongestIs
<1>3. \A i \in I : AgSum(dists[i].counts) \in Nat /\ AgUpTo(dists[i].counts, n) = AgSum(dists[i].counts)
  <2> SUFFICES ASSUME NEW i \in I
               PROVE  AgSum(dists[i].counts) \in Nat /\ AgUpTo(dists[i].counts, n) = AgSum(dists[i].counts)
    OBVIOUS
  <2>1. PICK l, counts : l = Len(dists[i].counts) /\ counts = dists[i].counts
    OBVIOUS
  <2>2. l \in Nat /\ counts \in [1..l -> Nat]
    <3>1. dists[i] \in AgDistribution
      OBVIOUS
    <3> QED
      BY <2>1, <3>1, DistributionType
  <2>3. n >= l /\ n \in Int
    BY <1>2, <2>1, <2>2
  <2>4. AgSum(counts) \in Nat /\ AgUpTo(counts, n) = AgSum(counts)
    BY <2>2, <2>3, UpToGrows
  <2> QED
    BY <2>1, <2>4
<1>4. m.counts \in [1..n -> Nat] /\ AgUpTo(m.counts, n) = AgSum(UpTos(dists, n))
  <2>1. m.counts \in [1..n -> Nat]
    BY <1>1, MergeIs
  <2>2. n \in Int
    BY <1>2
  <2>3. AgUpTo(m.counts, n) = AgSum(UpTos(dists, n))
    <3>1. AddsUp(m, dists)
      BY MergeIs
    <3> QED
      BY <2>2, <3>1 DEF AddsUp
  <2> QED
    BY <2>1, <2>3
<1>5. AgUpTo(m.counts, n) = AgSum(m.counts)
  <2>1. n >= n /\ n \in Int
    BY <1>2
  <2> QED
    BY <1>2, <1>4, <2>1, UpToGrows
<1>6. UpTos(dists, n) = [i \in I |-> AgSum(dists[i].counts)]
  <2>1. DOMAIN dists = I
    OBVIOUS
  <2> QED
    BY <1>3, <2>1 DEF UpTos
<1> QED
  BY <1>3, <1>4, <1>5, <1>6

(* How many samples of one of them are in the first buckets *)
LEMMA OneUpTo ==
  ASSUME NEW d \in AgDistribution, NEW c \in Int
  PROVE  /\ AgUpTo(d.counts, c) \in Nat /\ AgSum(d.counts) \in Nat
         /\ AgUpTo(d.counts, c) <= AgSum(d.counts)
         /\ \A b \in Int : b <= c => AgUpTo(d.counts, b) <= AgUpTo(d.counts, c)
<1>1. PICK l, counts : l = Len(d.counts) /\ counts = d.counts
  OBVIOUS
<1>2. l \in Nat /\ counts \in [1..l -> Nat]
  BY <1>1, DistributionType
<1>3. AgUpTo(counts, c) \in Nat /\ AgSum(counts) \in Nat /\ AgUpTo(counts, c) <= AgSum(counts)
  BY <1>2, UpToGrows
<1>4. \A b \in Int : b <= c => AgUpTo(counts, b) <= AgUpTo(counts, c)
  BY <1>2, UpToGrows
<1> QED
  BY <1>1, <1>3, <1>4

(* If each reaches its rank in the first c buckets, so does what is merged; *)
(* if none does where there are samples, neither does what is merged.      *)
LEMMA MergedReaches ==
  ASSUME NEW I, IsFiniteSet(I), I # {}, NEW dists \in [I -> AgDistribution], NEW m, m = AgMerge(dists),
         NEW pct \in 0..100, NEW c \in Int
  PROVE  /\ (\A i \in I : AgReaches(dists[i], pct, c)) => AgReaches(m, pct, c)
         /\ (/\ \A i \in I : AgSum(dists[i].counts) > 0 => ~ AgReaches(dists[i], pct, c)
             /\ \E i \in I : AgSum(dists[i].counts) > 0) => ~ AgReaches(m, pct, c)
<1>1. PICK u : u = [i \in I |-> AgUpTo(dists[i].counts, c)]
  OBVIOUS
<1>0. u = UpTos(dists, c)
  <2>1. DOMAIN dists = I
    OBVIOUS
  <2> QED
    BY <1>1, <2>1 DEF UpTos
<1>2. PICK t : t = [i \in I |-> AgSum(dists[i].counts)]
  OBVIOUS
<1>3. \A i \in I : u[i] \in Nat /\ t[i] \in Nat /\ u[i] <= t[i]
  BY <1>1, <1>2, OneUpTo
<1>4. u \in [I -> Int] /\ t \in [I -> Int]
  BY <1>1, <1>2, <1>3
<1>5. AgUpTo(m.counts, c) = AgSum(u) /\ AgSum(m.counts) = AgSum(t)
  <2>1. AgUpTo(m.counts, c) = AgSum(UpTos(dists, c))
    <3>1. AddsUp(m, dists)
      BY MergeIs
    <3> QED
      BY <3>1 DEF AddsUp
  <2>2. AgSum(m.counts) = AgSum([i \in I |-> AgSum(dists[i].counts)])
    BY MergedSamples
  <2> QED
    BY <1>0, <1>2, <2>1, <2>2
<1>6. PICK x : x = [i \in I |-> 100 * u[i]]
  OBVIOUS
<1>7. PICK y : y = [i \in I |-> pct * t[i]]
  OBVIOUS
<1>8. AgSum(x) = 100 * AgSum(u)
  BY <1>4, <1>6, SumOfTimes
<1>9. AgSum(y) = pct * AgSum(t)
  <2>1. pct \in Int
    OBVIOUS
  <2> QED
    BY <1>4, <1>7, <2>1, SumOfTimes
<1>10. x \in [I -> Int] /\ y \in [I -> Int]
  <2>1. \A i \in I : 100 * u[i] \in Int /\ pct * t[i] \in Int
    BY <1>3
  <2> QED
    BY <1>6, <1>7, <2>1
<1>11. AgSum(x) \in Int /\ AgSum(y) \in Int
  BY <1>10, WholeTotal
<1>12. AgReaches(m, pct, c) <=> AgSum(x) >= AgSum(y)
  BY <1>5, <1>8, <1>9 DEF AgReaches
<1>13. \A i \in I : AgReaches(dists[i], pct, c) <=> x[i] >= y[i]
  BY <1>1, <1>2, <1>6, <1>7 DEF AgReaches
<1>14. ASSUME \A i \in I : AgReaches(dists[i], pct, c) PROVE AgReaches(m, pct, c)
  <2>1. \A i \in I : y[i] <= x[i]
    <3> SUFFICES ASSUME NEW i \in I PROVE y[i] <= x[i]
      OBVIOUS
    <3>1. x[i] >= y[i] /\ x[i] \in Int /\ y[i] \in Int
      BY <1>10, <1>13, <1>14
    <3> QED
      BY <3>1
  <2>2. AgSum(y) <= AgSum(x)
    BY <1>10, <2>1, SumAtMost
  <2> QED
    BY <1>11, <1>12, <2>2
<1>15. ASSUME \A i \in I : AgSum(dists[i].counts) > 0 => ~ AgReaches(dists[i], pct, c),
              NEW k \in I, AgSum(dists[k].counts) > 0
       PROVE  ~ AgReaches(m, pct, c)
  <2>1. ASSUME NEW i \in I PROVE x[i] <= y[i] /\ (t[i] > 0 => x[i] < y[i])
    <3>1. x[i] \in Int /\ y[i] \in Int
      BY <1>10
    <3>2. CASE t[i] > 0
      <4>1. ~ (x[i] >= y[i])
        BY <1>2, <1>13, <1>15, <3>2
      <4> QED
        BY <3>1, <4>1
    <3>3. CASE ~ (t[i] > 0)
      <4>1. t[i] = 0 /\ u[i] = 0
        BY <1>3, <3>3
      <4>2. x[i] = 100 * u[i] /\ y[i] = pct * t[i]
        BY <1>6, <1>7
      <4>3. x[i] = 0 /\ y[i] = 0
        BY <4>1, <4>2
      <4> QED
        BY <3>3, <4>3
    <3> QED
      BY <3>2, <3>3
  <2>2. t[k] > 0
    BY <1>2, <1>15
  <2>3. x[k] < y[k] /\ \A i \in I : x[i] <= y[i]
    BY <2>1, <2>2
  <2>4. AgSum(x) < AgSum(y)
    BY <1>10, <2>3, SumLess
  <2> QED
    BY <1>11, <1>12, <2>4
<1> QED
  BY <1>14, <1>15

(* A percentile with samples is the middle of its bucket.                  *)
LEMMA PercentileIs ==
  ASSUME NEW d \in AgDistribution, NEW pct \in 0..100
  PROVE  /\ AgPercentile(d, pct) \in AgNumber
         /\ AgSum(d.counts) > 0 => /\ AgPercentile(d, pct) = AgMiddle(AgBucket(d, pct))
                                   /\ AgBucket(d, pct) \in 1..Len(AgBounds) + 1
<1>1. AgSum(d.counts) \in Nat
  BY OneUpTo
<1>2. CASE AgSum(d.counts) = 0
  <2>1. AgPercentile(d, pct) = AgFraction(d.sum, IF d.count = 0 THEN 1 ELSE d.count)
    BY <1>2 DEF AgPercentile
  <2>2. d.sum \in Int /\ (IF d.count = 0 THEN 1 ELSE d.count) \in Nat \ {0}
    BY DistributionType
  <2> QED
    BY <1>2, <2>1, <2>2, FractionType
<1>3. CASE AgSum(d.counts) > 0
  <2>1. AgPercentile(d, pct) = AgMiddle(AgBucket(d, pct))
    BY <1>3 DEF AgPercentile
  <2>2. AgBucket(d, pct) \in 1..Len(d.counts)
    BY <1>3, BucketFound
  <2>3. Len(d.counts) <= Len(AgBounds) + 1 /\ Len(d.counts) \in Nat /\ Len(AgBounds) \in Nat
    BY DistributionType, BoundsType
  <2>4. AgBucket(d, pct) \in 1..Len(AgBounds) + 1
    BY <2>2, <2>3
  <2> QED
    BY <2>1, <2>4, MiddleGrows
<1> QED
  BY <1>1, <1>2, <1>3

(* The percentile of what is merged lies between those of what is merged   *)
(* and has samples.                                                        *)
LEMMA MergedPercentile ==
  ASSUME NEW I, IsFiniteSet(I), I # {}, NEW dists \in [I -> AgDistribution], NEW pct \in 0..100,
         NEW full, full = {i \in I : AgSum(dists[i].counts) > 0}, full # {}
  PROVE  AgBetween({AgPercentile(dists[i], pct) : i \in full}, AgPercentile(AgMerge(dists), pct))
<1>1. PICK m : m = AgMerge(dists)
  OBVIOUS
<1>2. m \in AgDistribution
  BY <1>1, MergeIs
<1>3. PICK t : t = [i \in I |-> AgSum(dists[i].counts)]
  OBVIOUS
<1>4. t \in [I -> Nat] /\ AgSum(m.counts) = AgSum(t)
  BY <1>1, <1>3, MergedSamples
<1>5. PICK f \in I : AgSum(dists[f].counts) > 0
  OBVIOUS
<1>6. AgSum(m.counts) > 0
  <2>1. f \in full /\ t[f] \in Nat /\ t[f] > 0
    BY <1>3, <1>4, <1>5
  <2>2. PICK z : z = [i \in I |-> 0]
    OBVIOUS
  <2>3. z \in [I -> Int] /\ t \in [I -> Int] /\ \A i \in I : z[i] = 0 /\ z[i] <= t[i]
    BY <1>4, <2>2
  <2>4. z[f] < t[f]
    BY <2>1, <2>3
  <2>5. AgSum(z) < AgSum(t)
    BY <2>3, <2>4, SumLess
  <2>6. AgSum(z) = 0
    BY <2>3, SumOfZeros
  <2>7. AgSum(t) \in Int
    BY <2>3, WholeTotal
  <2> QED
    BY <1>4, <2>5, <2>6, <2>7
<1>7. PICK k : k = AgBucket(m, pct)
  OBVIOUS
<1>8. /\ k \in 1..Len(AgBounds) + 1 /\ AgReaches(m, pct, k) /\ \A c \in 1..k - 1 : ~ AgReaches(m, pct, c)
      /\ AgPercentile(m, pct) = AgMiddle(k)
  BY <1>2, <1>6, <1>7, BucketFound, PercentileIs
<1>9. PICK b : b = [i \in full |-> AgBucket(dists[i], pct)]
  OBVIOUS
<1>10. ASSUME NEW i \in full
       PROVE  /\ b[i] \in 1..Len(AgBounds) + 1 /\ AgReaches(dists[i], pct, b[i])
              /\ \A c \in 1..b[i] - 1 : ~ AgReaches(dists[i], pct, c)
              /\ AgPercentile(dists[i], pct) = AgMiddle(b[i])
  <2>1. dists[i] \in AgDistribution /\ AgSum(dists[i].counts) > 0 /\ b[i] = AgBucket(dists[i], pct)
    BY <1>9
  <2> QED
    BY <2>1, BucketFound, PercentileIs
<1>11. Len(AgBounds) + 1 \in Nat
  BY BoundsType
<1>12. k \in Nat /\ k >= 1 /\ \A i \in full : b[i] \in Nat /\ b[i] >= 1
  BY <1>8, <1>10, <1>11
<1>13. \E i \in full : k <= b[i]
  <2> SUFFICES ASSUME \A i \in full : ~ (k <= b[i]) PROVE FALSE
    OBVIOUS
  <2>1. PICK c : c = k - 1
    OBVIOUS
  <2>2. c \in Int /\ \A i \in full : b[i] <= c
    BY <1>12, <2>1
  <2>3. f \in full
    BY <1>5
  <2>4. c \in 1..k - 1
    BY <1>12, <2>1, <2>2, <2>3
  <2>5. ASSUME NEW i \in I PROVE AgReaches(dists[i], pct, c)
    <3>1. PICK u, v, s : u = AgUpTo(dists[i].counts, c) /\ s = AgSum(dists[i].counts)
                         /\ v = IF i \in full THEN AgUpTo(dists[i].counts, b[i]) ELSE 0
      OBVIOUS
    <3>2. dists[i] \in AgDistribution /\ (i \in full => b[i] \in Int)
      BY <1>12
    <3>3. u \in Nat /\ s \in Nat
      BY <2>2, <3>1, <3>2, OneUpTo
    <3>4. CASE i \in full
      <4>1. v = AgUpTo(dists[i].counts, b[i]) /\ b[i] <= c
        BY <2>2, <3>1, <3>4
      <4>2. v \in Nat /\ v <= u
        BY <2>2, <3>1, <3>2, <3>4, <4>1, OneUpTo
      <4>3. 100 * v >= pct * s
        BY <1>10, <3>1, <3>4, <4>1 DEF AgReaches
      <4>4. pct * s \in Int
        BY <3>3
      <4>5. 100 * u >= pct * s
        BY <3>3, <4>2, <4>3, <4>4
      <4> QED
        BY <3>1, <4>5 DEF AgReaches
    <3>5. CASE i \notin full
      <4>1. ~ (s > 0)
        BY <3>1, <3>5
      <4>2. s = 0
        BY <3>3, <4>1
      <4>3. pct * 0 = 0 /\ 100 * u >= 0
        BY <3>3
      <4> QED
        BY <3>1, <4>2, <4>3 DEF AgReaches
    <3> QED
      BY <3>4, <3>5
  <2>6. AgReaches(m, pct, c)
    BY <1>1, <2>2, <2>5, MergedReaches
  <2> QED
    BY <1>8, <2>4, <2>6
<1>14. \E i \in full : b[i] <= k
  <2> SUFFICES ASSUME \A i \in full : ~ (b[i] <= k) PROVE FALSE
    OBVIOUS
  <2>1. ASSUME NEW i \in I, AgSum(dists[i].counts) > 0 PROVE ~ AgReaches(dists[i], pct, k)
    <3>1. i \in full
      BY <2>1
    <3>2. k \in 1..b[i] - 1
      <4>1. b[i] \in Nat /\ ~ (b[i] <= k)
        BY <1>12, <3>1
      <4> QED
        BY <1>12, <4>1
    <3> QED
      BY <1>10, <3>1, <3>2
  <2>2. k \in Int
    BY <1>12
  <2>3. ~ AgReaches(m, pct, k)
    BY <1>1, <1>5, <2>1, <2>2, MergedReaches
  <2> QED
    BY <1>8, <2>3
<1>15. PICK i \in full : k <= b[i]
  BY <1>13
<1>16. PICK j \in full : b[j] <= k
  BY <1>14
<1>17. AgLeq(AgMiddle(k), AgMiddle(b[i]))
  BY <1>8, <1>10, <1>15, MiddleGrows
<1>18. AgLeq(AgMiddle(b[j]), AgMiddle(k))
  BY <1>8, <1>10, <1>16, MiddleGrows
<1>19. PICK P : P = {AgPercentile(dists[x], pct) : x \in full}
  OBVIOUS
<1>20. AgMiddle(b[i]) \in P /\ AgMiddle(b[j]) \in P
  BY <1>10, <1>19
<1>21. AgBetween(P, AgMiddle(k))
  BY <1>17, <1>18, <1>20 DEF AgBetween
<1> QED
  BY <1>1, <1>8, <1>19, <1>21

(* What is made of distributions is sound, and a value. *)
LEMMA DistsSound ==
  ASSUME NEW D, IsFiniteSet(D), NEW I, I \subseteq D, I # {}, NEW values, DOMAIN values = D,
         NEW dists \in [I -> AgDistribution], NEW how \in AgHow, NEW v, v = AgOfDists(dists, how)
  PROVE  v \in AgValue /\ AgSoundDists(values, dists, how, v)
<1>1. IsFiniteSet(I) /\ DOMAIN dists = I
  BY FS_Subset
<1>2. PICK m : m = AgMerge(dists)
  OBVIOUS
<1>3. m \in AgDistribution /\ m.count = AgSum([i \in I |-> dists[i].count])
  BY <1>1, <1>2, MergeIs
<1>4. PICK samples : samples = [i \in I |-> AgSum(dists[i].counts)]
  OBVIOUS
<1>5. samples \in [I -> Nat] /\ AgSum(m.counts) = AgSum(samples)
  BY <1>1, <1>2, <1>4, MergedSamples
<1>6. PICK full : full = {i \in I : samples[i] > 0}
  OBVIOUS
<1>7. PICK counts : counts = [i \in I |-> dists[i].count]
  OBVIOUS
<1>8. AgSoundDists(values, dists, how, v) <=>
        IF how.op # "PERCENTILE"
          THEN /\ v.count = AgSum([i \in D |-> IF i \in I THEN counts[i] ELSE 0])
               /\ AgSum(v.counts) = AgSum([i \in D |-> IF i \in I THEN samples[i] ELSE 0])
          ELSE full # {} => AgBetween({AgPercentile(dists[i], how.pct) : i \in full}, v)
  BY <1>1, <1>4, <1>6, <1>7 DEF AgSoundDists
<1>9. CASE how.op # "PERCENTILE"
  <2>1. v = m
    BY <1>2, <1>9 DEF AgOfDists
  <2>2. counts \in [I -> Int] /\ samples \in [I -> Int]
    <3>1. \A i \in I : dists[i].count \in Int
      BY DistributionType
    <3>2. counts \in [I -> Int]
      BY <1>7, <3>1
    <3>3. samples \in [I -> Int]
      BY <1>5
    <3> QED
      BY <3>2, <3>3
  <2>3. /\ AgSum([i \in D |-> IF i \in I THEN counts[i] ELSE 0]) = AgSum(counts)
        /\ AgSum([i \in D |-> IF i \in I THEN samples[i] ELSE 0]) = AgSum(samples)
    BY <2>2, SumOver
  <2>4. AgSoundDists(values, dists, how, v)
    BY <1>3, <1>5, <1>7, <1>8, <1>9, <2>1, <2>3
  <2> QED
    BY <1>3, <2>1, <2>4 DEF AgValue
<1>10. CASE how.op = "PERCENTILE"
  <2>1. v = AgPercentile(m, how.pct) /\ how.pct \in 0..100
    BY <1>2, <1>10 DEF AgOfDists, AgHow
  <2>2. v \in AgNumber
    BY <1>3, <2>1, PercentileIs
  <2>3. full = {i \in I : AgSum(dists[i].counts) > 0}
    BY <1>4, <1>6
  <2>4. full # {} => AgBetween({AgPercentile(dists[i], how.pct) : i \in full}, v)
    BY <1>1, <1>2, <2>1, <2>3, MergedPercentile
  <2>5. AgSoundDists(values, dists, how, v)
    BY <1>8, <1>10, <2>4
  <2> QED
    BY <2>2, <2>5 DEF AgValue
<1> QED
  BY <1>9, <1>10

------------------------------------------------------------------------------
(* _combine, for all values                                                *)

(* Distributions and numbers among the values                              *)
LEMMA OnlyType ==
  ASSUME NEW D, NEW values \in [D -> AgValue]
  PROVE  /\ DOMAIN AgOnly(values, {"dist"}) \subseteq D
         /\ AgOnly(values, {"dist"}) \in [DOMAIN AgOnly(values, {"dist"}) -> AgDistribution]
         /\ DOMAIN AgOnly(values, {"int", "double"}) \subseteq D
         /\ AgOnly(values, {"int", "double"}) \in [DOMAIN AgOnly(values, {"int", "double"}) -> AgNumber]
<1>1. DOMAIN values = D
  OBVIOUS
<1>2. ASSUME NEW types
      PROVE  /\ AgOnly(values, types) = [i \in {i \in D : values[i].type \in types} |-> values[i]]
             /\ DOMAIN AgOnly(values, types) = {i \in D : values[i].type \in types}
  BY <1>1 DEF AgOnly, Restrict
<1>3. ASSUME NEW i \in D
      PROVE  /\ values[i].type \in {"dist"} => values[i] \in AgDistribution
             /\ values[i].type \in {"int", "double"} => values[i] \in AgNumber
  <2>1. values[i] \in AgNumber \/ values[i] \in AgDistribution \/ values[i] = AgText
    BY DEF AgValue
  <2>2. values[i] \in AgNumber => values[i].type \in {"int", "double"}
    BY NumberType
  <2>3. values[i] \in AgDistribution => values[i].type = "dist"
    BY DEF AgDistribution
  <2>4. AgText.type = "text"
    BY DEF AgText
  <2> QED
    BY <2>1, <2>2, <2>3, <2>4
<1>4. PICK I, f : I = {i \in D : values[i].type \in {"dist"}} /\ f = AgOnly(values, {"dist"})
  OBVIOUS
<1>5. f = [i \in I |-> values[i]] /\ DOMAIN f = I /\ I \subseteq D
  BY <1>2, <1>4
<1>6. \A i \in I : values[i] \in AgDistribution
  BY <1>3, <1>4
<1>7. f \in [I -> AgDistribution]
  BY <1>5, <1>6
<1>8. PICK J, g : J = {i \in D : values[i].type \in {"int", "double"}} /\ g = AgOnly(values, {"int", "double"})
  OBVIOUS
<1>9. g = [i \in J |-> values[i]] /\ DOMAIN g = J /\ J \subseteq D
  BY <1>2, <1>8
<1>10. \A i \in J : values[i] \in AgNumber
  BY <1>3, <1>8
<1>11. g \in [J -> AgNumber]
  BY <1>9, <1>10
<1> QED
  BY <1>4, <1>5, <1>7, <1>8, <1>9, <1>11

(* Whatever is combined, what is made of it is sound, and a value. *)
LEMMA CombineSound ==
  ASSUME NEW D, IsFiniteSet(D), NEW values \in [D -> AgValue], NEW how \in AgHow, NEW period \in Nat
  PROVE  /\ AgCombine(values, how, period) \in AgValue
         /\ AgSound(values, how, period, AgCombine(values, how, period))
<1>1. PICK dists, I : dists = AgOnly(values, {"dist"}) /\ I = DOMAIN dists
  OBVIOUS
<1>2. PICK nums, J : nums = AgOnly(values, {"int", "double"}) /\ J = DOMAIN nums
  OBVIOUS
<1>3. I \subseteq D /\ dists \in [I -> AgDistribution] /\ J \subseteq D /\ nums \in [J -> AgNumber]
  BY <1>1, <1>2, OnlyType
<1>4. IsFiniteSet(J) /\ DOMAIN values = D
  BY <1>3, FS_Subset
<1>5. PICK v : v = AgCombine(values, how, period)
  OBVIOUS
<1>6. v = IF I # {} THEN AgOfDists(dists, how)
          ELSE IF J # {} THEN AgOfNumbers(nums, how, period) ELSE AgDouble(0)
  BY <1>1, <1>2, <1>5 DEF AgCombine
<1>7. AgSound(values, how, period, v) <=>
        IF I # {} THEN AgSoundDists(values, dists, how, v)
        ELSE IF J # {} THEN AgSoundNumbers(nums, how, period, v) ELSE v.num = 0
  BY <1>1, <1>2 DEF AgSound
<1>8. CASE I # {}
  <2>1. v = AgOfDists(dists, how)
    BY <1>6, <1>8
  <2>2. v \in AgValue /\ AgSoundDists(values, dists, how, v)
    BY <1>3, <1>4, <1>8, <2>1, DistsSound
  <2> QED
    BY <1>5, <1>7, <1>8, <2>2
<1>9. CASE I = {} /\ J # {}
  <2>1. v = AgOfNumbers(nums, how, period)
    BY <1>6, <1>9
  <2>2. v \in AgNumber /\ AgSoundNumbers(nums, how, period, v)
    BY <1>3, <1>4, <1>9, <2>1, NumbersSound
  <2>3. v \in AgValue
    BY <2>2 DEF AgValue
  <2> QED
    BY <1>5, <1>7, <1>9, <2>2, <2>3
<1>10. CASE I = {} /\ J = {}
  <2>1. v = AgDouble(0)
    BY <1>6, <1>10
  <2>2. v = AgFraction(0, 1)
    BY <2>1 DEF AgDouble, AgFraction
  <2>3. v.num = 0 /\ v \in AgNumber
    BY <2>2, FractionType DEF AgFraction
  <2>4. v \in AgValue
    BY <2>3 DEF AgValue
  <2> QED
    BY <1>5, <1>7, <1>10, <2>3, <2>4
<1> QED
  BY <1>8, <1>9, <1>10

(* Numbers in order, up and down *)
LEMMA RanksUp ==
  ASSUME NEW S, S \subseteq Nat PROVE Ranks({x \in S \X S : x[1] < x[2]}, S)
<1> DEFINE R == {x \in S \X S : x[1] < x[2]}
<1>1. \A x, y \in S : <<x, y>> \in R <=> x < y
  OBVIOUS
<1> HIDE DEF R
<1>2. \A x, y \in S : x # y => x < y \/ y < x
  OBVIOUS
<1>3. \A x, y, z \in S : x < y /\ y < z => x < z
  OBVIOUS
<1>4. Ranks(R, S)
  BY <1>1, <1>2, <1>3 DEF Ranks
<1> QED
  BY <1>4 DEF R

(* The other way round                                                     *)
LEMMA RanksDown ==
  ASSUME NEW S, S \subseteq Nat PROVE Ranks({x \in S \X S : x[1] > x[2]}, S)
<1> DEFINE R == {x \in S \X S : x[1] > x[2]}
<1>1. \A x, y \in S : <<x, y>> \in R <=> x > y
  OBVIOUS
<1> HIDE DEF R
<1>2. \A x, y \in S : x # y => x > y \/ y > x
  OBVIOUS
<1>3. \A x, y, z \in S : x > y /\ y > z => x > z
  OBVIOUS
<1>4. Ranks(R, S)
  BY <1>1, <1>2, <1>3 DEF Ranks
<1> QED
  BY <1>4 DEF R

(* AgUpwards lists I strictly upwards, each member once.                   *)
LEMMA Upwards ==
  ASSUME NEW I, IsFiniteSet(I), I \subseteq Nat
  PROVE  \E n \in Nat :
           /\ n = Cardinality(I) /\ AgUpwards(I) \in [1..n -> I] /\ \A x \in I : \E i \in 1..n : AgUpwards(I)[i] = x
           /\ \A i, j \in 1..n : i < j => AgUpwards(I)[i] < AgUpwards(I)[j]
<1> DEFINE R == {x \in I \X I : x[1] < x[2]}
<1>1. PICK n : n = Cardinality(I)
  OBVIOUS
<1>2. PICK p : p = AgUpwards(I)
  OBVIOUS
<1>3. p = AgArranged(I, R)
  BY <1>2 DEF AgUpwards
<1>4. Ranks(R, I)
  BY RanksUp
<1>5. \A x, y : <<x, y>> \in R => x < y
  OBVIOUS
<1> HIDE DEF R
<1>6. Arranges(p, R, I) /\ Cardinality(I) \in Nat
  BY <1>3, <1>4, Arranged
<1>7. /\ p \in [1..n -> I] /\ \A x \in I : \E i \in 1..n : p[i] = x
      /\ \A i, j \in 1..n : i < j => <<p[i], p[j]>> \in R
  BY <1>1, <1>6 DEF Arranges
<1>8. \A i, j \in 1..n : i < j => p[i] < p[j]
  BY <1>5, <1>7
<1> QED
  BY <1>1, <1>2, <1>6, <1>7, <1>8

(* The entries of a sequence at some of its places, in order *)
LEMMA KeptType ==
  ASSUME NEW T, NEW s \in Seq(T), NEW I, I \subseteq DOMAIN s
  PROVE  /\ AgKept(s, I) \in Seq(T)
         /\ \A n \in DOMAIN AgKept(s, I) : \E i \in I : AgKept(s, I)[n] = s[i]
<1>1. Len(s) \in Nat /\ DOMAIN s = 1..Len(s)
  BY LenProperties
<1>2. IsFiniteSet(I) /\ I \subseteq Nat
  <2>1. IsFiniteSet(1..Len(s))
    BY <1>1, FS_Interval
  <2>2. \A i \in 1..Len(s) : i \in Nat
    BY <1>1
  <2> QED
    BY <1>1, <2>1, <2>2, FS_Subset
<1>3. PICK p : p = AgUpwards(I)
  OBVIOUS
<1>4. PICK n \in Nat : p \in [1..n -> I]
  BY <1>2, <1>3, Upwards
<1>5. PICK k : k = AgKept(s, I)
  OBVIOUS
<1>6. k = [j \in 1..n |-> s[p[j]]]
  BY <1>3, <1>4, <1>5 DEF AgKept
<1>7. \A j \in 1..n : p[j] \in I /\ p[j] \in DOMAIN s /\ s[p[j]] \in T
  BY <1>4, ElementOfSeq, <1>1
<1>8. k \in [1..n -> T] /\ DOMAIN k = 1..n
  BY <1>6, <1>7
<1>9. k \in Seq(T)
  BY <1>8, SeqDef
<1> QED
  BY <1>5, <1>6, <1>7, <1>8, <1>9

------------------------------------------------------------------------------
(* A point for each end time: what aligning and reducing have in common    *)

(* A point with its time, which may be 0, and its value                    *)
AgTaken == [at : Nat, value : AgValue]

(* r is a point for each end, ordered by R, sound for the points there.    *)
AgPointed(points, ends, D, how, period, R, r) ==
  /\ r \in Seq(AgTaken)
  /\ \A i, j \in DOMAIN r : i < j => <<r[i].at, r[j].at>> \in R
  /\ \A j \in DOMAIN r : \E i \in D : r[j].at = ends[i]
  /\ \A i \in D : \E j \in DOMAIN r : r[j].at = ends[i]
  /\ \A j \in DOMAIN r : AgSound(AgValues(points, {i \in D : ends[i] = r[j].at}), how, period, r[j].value)

(* The points made of those at the places D, whose ends are given *)
LEMMA PointsSound ==
  ASSUME NEW D, IsFiniteSet(D), NEW ends \in [D -> Nat], NEW points, \A i \in D : points[i].value \in AgValue,
         NEW how \in AgHow, NEW period \in Nat, NEW R, Ranks(R, Range(ends))
  PROVE  AgPointed(points, ends, D, how, period, R,
                   AgPoints(points, ends, AgArranged(Range(ends), R), how, period))
<1>1. PICK E : E = Range(ends)
  OBVIOUS
<1>2. (\A e \in E : \E i \in D : ends[i] = e) /\ (\A i \in D : ends[i] \in E) /\ E \subseteq Nat
  BY <1>1 DEF Range
<1>3. IsFiniteSet(E)
  <2>1. ends \in Surjection(D, E)
    <3>1. ends \in [D -> E]
      BY <1>2
    <3> QED
      BY <1>2, <3>1, Fun_IsSurj
  <2> QED
    BY <2>1, FS_Surjection
<1>4. PICK p : p = AgArranged(E, R)
  OBVIOUS
<1>5. PICK n \in Nat : /\ p \in [1..n -> E] /\ \A x \in E : \E i \in 1..n : p[i] = x
                       /\ \A i, j \in 1..n : i < j => <<p[i], p[j]>> \in R
  <2>1. Arranges(p, R, E) /\ Cardinality(E) \in Nat
    BY <1>1, <1>3, <1>4, Arranged
  <2> QED
    BY <2>1 DEF Arranges
<1>6. PICK r : r = AgPoints(points, ends, p, how, period)
  OBVIOUS
<1> DEFINE of(e) == AgValues(points, {i \in D : ends[i] = e})
           made(e) == AgCombine(of(e), how, period)
<1>7. r = [j \in 1..n |-> AgPoint(p[j], made(p[j]))]
  <2>1. DOMAIN p = 1..n /\ DOMAIN ends = D
    BY <1>5
  <2> QED
    BY <1>6, <2>1 DEF AgPoints
<1>8. ASSUME NEW e \in E
      PROVE  made(e) \in AgValue /\ AgSound(of(e), how, period, made(e))
  <2>1. PICK I : I = {i \in D : ends[i] = e}
    OBVIOUS
  <2>2. I \subseteq D
    BY <2>1
  <2>3. IsFiniteSet(I)
    BY <2>2, FS_Subset
  <2>4. of(e) = [i \in I |-> points[i].value]
    BY <2>1 DEF AgValues
  <2>5. of(e) \in [I -> AgValue]
    BY <2>2, <2>4
  <2> HIDE DEF of
  <2> QED
    BY <2>3, <2>5, CombineSound
<1> HIDE DEF of, made
<1>9. ASSUME NEW j \in 1..n
      PROVE  /\ r[j].at = p[j] /\ r[j].value = made(p[j]) /\ r[j] \in AgTaken
             /\ p[j] \in E /\ AgSound(of(p[j]), how, period, made(p[j]))
  <2>1. r[j] = AgPoint(p[j], made(p[j])) /\ p[j] \in E
    BY <1>5, <1>7
  <2>2. r[j] = [at |-> p[j], value |-> made(p[j])] /\ p[j] \in Nat
    BY <1>2, <2>1 DEF AgPoint
  <2>3. made(p[j]) \in AgValue /\ AgSound(of(p[j]), how, period, made(p[j]))
    BY <1>8, <2>1
  <2> QED
    BY <2>1, <2>2, <2>3 DEF AgTaken
<1>10. DOMAIN r = 1..n /\ r \in [1..n -> AgTaken]
  BY <1>7, <1>9
<1>11. r \in Seq(AgTaken)
  BY <1>10, SeqDef
<1>12. \A i, j \in DOMAIN r : i < j => <<r[i].at, r[j].at>> \in R
  BY <1>5, <1>9, <1>10
<1>13. \A j \in DOMAIN r : \E i \in D : r[j].at = ends[i]
  BY <1>2, <1>9, <1>10
<1>14. \A i \in D : \E j \in DOMAIN r : r[j].at = ends[i]
  <2>1. TAKE i \in D
  <2>2. PICK j \in 1..n : p[j] = ends[i]
    BY <1>2, <1>5
  <2> QED
    BY <2>2, <1>9, <1>10
<1>15. \A j \in DOMAIN r : AgSound(AgValues(points, {i \in D : ends[i] = r[j].at}), how, period, r[j].value)
  <2>1. TAKE j \in DOMAIN r
  <2>2. r[j].at = p[j] /\ r[j].value = made(p[j]) /\ AgSound(of(p[j]), how, period, made(p[j]))
    BY <1>9, <1>10
  <2> QED
    BY <2>2 DEF of
<1> QED
  BY <1>1, <1>4, <1>6, <1>11, <1>12, <1>13, <1>14, <1>15 DEF AgPointed

(* Aligned points come newest first.                                       *)
AgNewer(E) == {x \in E \X E : x[1] > x[2]}
LEMMA PointsAligned ==
  ASSUME NEW D, IsFiniteSet(D), NEW ends \in [D -> Nat], NEW points, \A i \in D : points[i].value \in AgValue,
         NEW how \in AgHow, NEW period \in Nat,
         NEW r, r = AgPoints(points, ends, AgDownwards(Range(ends)), how, period)
  PROVE  AgPointed(points, ends, D, how, period, AgNewer(Range(ends)), r) /\ AgNewestFirst(r)
<1>1. PICK E, R : E = Range(ends) /\ R = AgNewer(E)
  OBVIOUS
<1>2. E \subseteq Nat
  BY <1>1 DEF Range
<1>3. Ranks(R, E)
  BY <1>1, <1>2, RanksDown DEF AgNewer
<1>4. r = AgPoints(points, ends, AgArranged(Range(ends), R), how, period)
  BY <1>1 DEF AgDownwards, AgNewer
<1>5. AgPointed(points, ends, D, how, period, R, r)
  BY <1>1, <1>3, <1>4, PointsSound
<1>6. \A x, y : <<x, y>> \in R => x > y
  BY <1>1 DEF AgNewer
<1>7. \A i, j \in DOMAIN r : i < j => <<r[i].at, r[j].at>> \in R
  BY <1>5 DEF AgPointed
<1>8. AgNewestFirst(r)
  BY <1>6, <1>7 DEF AgNewestFirst
<1> QED
  BY <1>1, <1>5, <1>8

(* What div gives                                                          *)
LEMMA Division ==
  ASSUME NEW n \in Nat, NEW P \in Nat \ {0}
  PROVE  n \div P \in Nat /\ (n \div P) * P <= n /\ n < (n \div P + 1) * P
<1>1. PICK q : q = n \div P
  OBVIOUS
<1>2. q \in Nat /\ q * P <= n /\ n < q * P + P
  BY <1>1, SMTT(30)
<1>3. (q + 1) * P = q * P + P
  BY <1>2
<1> QED
  BY <1>1, <1>2, <1>3

------------------------------------------------------------------------------
(* How moments are spelled and in which order                              *)

Multiple(a, u) == \E k \in Nat : a = k * u

(* From a multiple to a later one there is room for one more.              *)
LEMMA MultiplesApart ==
  ASSUME NEW u \in Nat \ {0}, NEW a, NEW b, Multiple(a, u), Multiple(b, u), a < b
  PROVE  a + u <= b
<1>1. PICK k \in Nat, l \in Nat : a = k * u /\ b = l * u
  BY DEF Multiple
<1>2. k < l
  <2>1. l <= k => l * u <= k * u
    BY TimesKeeps
  <2>2. a \in Nat /\ b \in Nat
    BY <1>1
  <2> QED
    BY <1>1, <2>1, <2>2
<1>3. (k + 1) * u <= l * u
  BY <1>2, TimesKeeps
<1>4. (k + 1) * u = k * u + u
  OBVIOUS
<1> QED
  BY <1>1, <1>3, <1>4

LEMMA MultipleIs ==
  ASSUME NEW a \in Nat, NEW u \in Nat \ {0}, a % u = 0 PROVE Multiple(a, u)
<1>1. PICK k : k = a \div u
  OBVIOUS
<1>2. k \in Nat /\ k * u <= a /\ a < (k + 1) * u
  BY <1>1, Division
<1>3. a = k * u
  BY <1>1, <1>2, SMTT(30)
<1> QED
  BY <1>2, <1>3 DEF Multiple

LEMMA MultipleOfMore ==
  ASSUME NEW a, NEW u, NEW v \in Nat, Multiple(a, u), Multiple(u, v) PROVE Multiple(a, v)
<1>1. PICK k \in Nat, l \in Nat : a = k * u /\ u = l * v
  BY DEF Multiple
<1>2. a = k * (l * v) /\ k * l \in Nat
  BY <1>1
<1>3. k * (l * v) = (k * l) * v
  OBVIOUS
<1> QED
  BY <1>2, <1>3 DEF Multiple

(* A moment is a multiple of its unit, and a unit of every smaller one.    *)
LEMMA UnitsDivide ==
  ASSUME NEW aligned, NEW a \in Nat, NEW b \in Nat
  PROVE  /\ AgUnit(a, aligned) \in Nat \ {0} /\ Multiple(a, AgUnit(a, aligned))
         /\ AgUnit(a, aligned) >= AgUnit(b, aligned) =>
              Multiple(AgUnit(a, aligned), AgUnit(b, aligned))
<1>1. /\ AgSecond \in Nat \ {0} /\ AgMilli \in Nat \ {0} /\ AgSecond % AgMilli = 0
  BY AggregationAssumption
<1>2. PICK u, v : u = AgUnit(a, aligned) /\ v = AgUnit(b, aligned)
  OBVIOUS
<1>3. u \in {AgSecond, AgMilli, 1} /\ v \in {AgSecond, AgMilli, 1}
  BY <1>2 DEF AgUnit
<1>4. Multiple(a, u)
  <2>1. a % u = 0
    BY <1>1, <1>2 DEF AgUnit
  <2> QED
    BY <1>1, <1>3, <2>1, MultipleIs
<1>5. Multiple(AgSecond, AgMilli) /\ \A x \in Nat : Multiple(x, 1) /\ Multiple(x, x)
  <2>1. Multiple(AgSecond, AgMilli)
    BY <1>1, MultipleIs
  <2>2. ASSUME NEW x \in Nat PROVE Multiple(x, 1) /\ Multiple(x, x)
    <3>1. x = x * 1 /\ x = 1 * x
      OBVIOUS
    <3> QED
      BY <3>1 DEF Multiple
  <2> QED
    BY <2>1, <2>2
<1>6. AgSecond >= AgMilli
  BY <1>1, <1>5 DEF Multiple
<1>7. u >= v => Multiple(u, v)
  BY <1>1, <1>3, <1>5, <1>6
<1> QED
  BY <1>1, <1>2, <1>3, <1>4, <1>7

(* What a spelling is before is either later or begins as it does.         *)
LEMMA SpelledLater ==
  ASSUME NEW aligned, NEW a \in Nat, NEW b \in Nat, AgSpelledLater(a, b, aligned)
  PROVE  \/ a < b /\ b < a + AgUnit(a, aligned)
         \/ a > b /\ ~(b < a /\ a < b + AgUnit(b, aligned))
<1>1. PICK u, v : u = AgUnit(a, aligned) /\ v = AgUnit(b, aligned)
  OBVIOUS
<1>2. u \in Nat \ {0} /\ v \in Nat \ {0} /\ Multiple(a, u) /\ Multiple(b, v)
  BY <1>1, UnitsDivide
<1>3. a + u > b + v \/ (a + u = b + v /\ u > v)
  BY <1>1 DEF AgSpelledLater
<1>4. ASSUME b < a, a < b + v PROVE FALSE
  <2>1. CASE u >= v
    <3>1. Multiple(a, v)
      BY <1>1, <1>2, <2>1, UnitsDivide, MultipleOfMore
    <3> QED
      BY <1>2, <1>4, <3>1, MultiplesApart
  <2>2. CASE v > u
    <3>1. Multiple(v, u)
      BY <1>1, <1>2, <2>2, UnitsDivide
    <3>2. PICK k \in Nat, l \in Nat : b = k * v /\ v = l * u
      BY <1>2, <3>1 DEF Multiple
    <3>3. PICK m : m = k + 1
      OBVIOUS
    <3>4. m \in Nat /\ b + v = m * v
      BY <3>2, <3>3
    <3>5. Multiple(b + v, v)
      BY <3>4 DEF Multiple
    <3>6. Multiple(b + v, u)
      BY <1>2, <3>1, <3>5, MultipleOfMore
    <3>7. a + u <= b + v
      BY <1>2, <1>4, <3>6, MultiplesApart
    <3> QED
      BY <1>2, <1>3, <2>2, <3>7
  <2> QED
    BY <1>2, <2>1, <2>2
<1>5. a = b => u = v
  BY <1>1
<1> QED
  BY <1>1, <1>2, <1>3, <1>4, <1>5

AgLater(E, aligned) == {x \in E \X E : AgSpelledLater(x[1], x[2], aligned)}

LEMMA RanksSpelled ==
  ASSUME NEW E, E \subseteq Nat, NEW aligned PROVE Ranks(AgLater(E, aligned), E)
<1>1. \A x, y \in E : <<x, y>> \in AgLater(E, aligned) <=> AgSpelledLater(x, y, aligned)
  BY DEF AgLater
<1>2. ASSUME NEW x \in E, NEW y \in E, x # y
      PROVE  AgSpelledLater(x, y, aligned) \/ AgSpelledLater(y, x, aligned)
  <2>1. PICK u, v : u = AgUnit(x, aligned) /\ v = AgUnit(y, aligned)
    OBVIOUS
  <2>2. u \in Nat /\ v \in Nat /\ x \in Nat /\ y \in Nat
    BY <2>1, UnitsDivide
  <2>3. \/ x + u > y + v \/ y + v > x + u \/ (x + u = y + v /\ u > v) \/ (x + u = y + v /\ v > u)
    BY <1>2, <2>2
  <2> QED
    BY <2>1, <2>3 DEF AgSpelledLater
<1>3. ASSUME NEW x \in E, NEW y \in E, NEW z \in E,
             AgSpelledLater(x, y, aligned), AgSpelledLater(y, z, aligned)
      PROVE  AgSpelledLater(x, z, aligned)
  <2>1. PICK u, v, w : u = AgUnit(x, aligned) /\ v = AgUnit(y, aligned) /\ w = AgUnit(z, aligned)
    OBVIOUS
  <2>2. /\ u \in Nat /\ v \in Nat /\ w \in Nat /\ x \in Nat /\ y \in Nat /\ z \in Nat
    BY <2>1, UnitsDivide
  <2>3. /\ x + u > y + v \/ (x + u = y + v /\ u > v)
        /\ y + v > z + w \/ (y + v = z + w /\ v > w)
    BY <1>3, <2>1 DEF AgSpelledLater
  <2>4. x + u > z + w \/ (x + u = z + w /\ u > w)
    BY <2>2, <2>3
  <2> QED
    BY <2>1, <2>4 DEF AgSpelledLater
<1> QED
  BY <1>1, <1>2, <1>3 DEF Ranks

(* Reduced points come in the order in which their ends are spelled.       *)
LEMMA PointsSpelled ==
  ASSUME NEW D, IsFiniteSet(D), NEW ends \in [D -> Nat], NEW points, \A i \in D : points[i].value \in AgValue,
         NEW how \in AgHow, NEW period \in Nat, NEW aligned,
         NEW r, r = AgPoints(points, ends, AgBySpelling(Range(ends), aligned), how, period)
  PROVE  /\ AgPointed(points, ends, D, how, period, AgLater(Range(ends), aligned), r)
         /\ AgSpelledFirst(r, aligned)
<1>1. PICK E, R : E = Range(ends) /\ R = AgLater(E, aligned)
  OBVIOUS
<1>2. E \subseteq Nat
  BY <1>1 DEF Range
<1>3. Ranks(R, E)
  BY <1>1, <1>2, RanksSpelled
<1>4. r = AgPoints(points, ends, AgArranged(Range(ends), R), how, period)
  BY <1>1 DEF AgBySpelling, AgLater
<1>5. AgPointed(points, ends, D, how, period, R, r)
  BY <1>1, <1>3, <1>4, PointsSound
<1>6. \A i, j \in DOMAIN r : i < j => <<r[i].at, r[j].at>> \in R
  BY <1>5 DEF AgPointed
<1>7. ASSUME NEW i \in DOMAIN r, NEW j \in DOMAIN r, i < j
      PROVE  \/ r[i].at < r[j].at /\ r[j].at < r[i].at + AgUnit(r[i].at, aligned)
             \/ r[i].at > r[j].at /\ ~(r[j].at < r[i].at /\ r[i].at < r[j].at + AgUnit(r[j].at, aligned))
  <2>1. PICK a, b : a = r[i].at /\ b = r[j].at
    OBVIOUS
  <2>2. <<a, b>> \in R
    BY <1>6, <1>7, <2>1
  <2>3. a \in Nat /\ b \in Nat /\ AgSpelledLater(a, b, aligned)
    BY <1>1, <1>2, <2>2 DEF AgLater
  <2> QED
    BY <2>1, <2>3, SpelledLater
<1>8. AgSpelledFirst(r, aligned)
  BY <1>7 DEF AgSpelledFirst
<1> QED
  BY <1>1, <1>5, <1>8

------------------------------------------------------------------------------
(* Buckets                                                                 *)

(* Newest first, no end time occurs twice. *)
LEMMA OneOfEach ==
  ASSUME NEW r \in Seq(AgTaken), AgNewestFirst(r)
  PROVE  \A i, j \in DOMAIN r : r[i].at = r[j].at => i = j
<1>1. Len(r) \in Nat /\ DOMAIN r = 1..Len(r)
  BY LenProperties
<1>2. \A i \in DOMAIN r : r[i].at \in Nat
  <2>1. TAKE i \in DOMAIN r
  <2>2. r[i] \in AgTaken
    BY <1>1, ElementOfSeq
  <2> QED
    BY <2>2 DEF AgTaken
<1>3. \A i, j \in DOMAIN r : i < j => r[i].at > r[j].at
  BY DEF AgNewestFirst
<1>4. \A i, j \in DOMAIN r : i # j => i < j \/ j < i
  BY <1>1
<1> QED
  BY <1>2, <1>3, <1>4

(* The buckets: of one width, counted back from base, none overlaps.       *)
LEMMA BucketEnds ==
  ASSUME NEW P \in Nat \ {0}, NEW base \in Nat, NEW a \in Nat, a <= base
  PROVE  /\ AgBucketEnd(base, a, P) \in Nat
         /\ AgBucketEnd(base, a, P) - P < a /\ a <= AgBucketEnd(base, a, P)
         /\ (base - AgBucketEnd(base, a, P)) % P = 0
<1>1. PICK q : q = (base - a) \div P
  OBVIOUS
<1>2. base - a \in Nat
  OBVIOUS
<1>3. q \in Nat /\ q * P <= base - a /\ base - a < (q + 1) * P
  BY <1>1, <1>2, Division
<1>4. PICK m \in Nat : m = q * P
  BY <1>3
<1>5. (q + 1) * P = m + P
  BY <1>3, <1>4
<1>6. AgBucketEnd(base, a, P) = base - m
  BY <1>1, <1>4 DEF AgBucketEnd
<1>7. m % P = 0
  BY <1>3, <1>4
<1> QED
  BY <1>3, <1>4, <1>5, <1>6, <1>7

(* Moments in one bucket have one end.                                     *)
LEMMA BucketIs ==
  ASSUME NEW P \in Nat \ {0}, NEW base \in Nat, NEW a \in Nat, a <= base,
         NEW c \in Nat, c <= base, AgBucketEnd(base, c, P) - P < a, a <= AgBucketEnd(base, c, P)
  PROVE  AgBucketEnd(base, a, P) = AgBucketEnd(base, c, P)
<1>1. PICK q, k : q = (base - a) \div P /\ k = (base - c) \div P
  OBVIOUS
<1>2. base - a \in Nat /\ base - c \in Nat
  OBVIOUS
<1>3. q \in Nat /\ q * P <= base - a /\ base - a < (q + 1) * P /\ k \in Nat
  BY <1>1, <1>2, Division
<1>4. AgBucketEnd(base, a, P) = base - q * P /\ AgBucketEnd(base, c, P) = base - k * P
  BY <1>1 DEF AgBucketEnd
<1>5. PICK m, l : m = q * P /\ l = k * P /\ m \in Nat /\ l \in Nat
  BY <1>3
<1>6. (q + 1) * P = m + P /\ (k + 1) * P = l + P
  BY <1>3, <1>5
<1>7. l <= base - a /\ base - a < l + P
  BY <1>4, <1>5
<1>8. m < l + P /\ l < m + P
  BY <1>3, <1>5, <1>6, <1>7
<1>9. ~ ((k + 1) * P <= q * P) /\ ~ ((q + 1) * P <= k * P)
  BY <1>5, <1>6, <1>8
<1>10. (k + 1 <= q => (k + 1) * P <= q * P) /\ (q + 1 <= k => (q + 1) * P <= k * P)
  BY <1>3, TimesKeeps
<1>11. q = k
  BY <1>3, <1>9, <1>10
<1> QED
  BY <1>4, <1>11

------------------------------------------------------------------------------
(* Alignment: from the request to its aligned series                       *)

(* The series whose points are seen in the window of r *)
AgShown(r, i) == AgKept(r.series[i].points, {k \in DOMAIN r.series[i].points :
                                              AgInWindow(r.series[i].points[k], r.start, r.end)})
AgSeen(r, points) == \A k \in DOMAIN points : AgInWindow(points[k], r.start, r.end)

(* What a request is made of                                               *)
LEMMA RequestType ==
  ASSUME NEW r \in AgRequest
  PROVE  /\ r.series \in Seq(AgSeries) /\ r.start \in Nat /\ r.end \in Nat /\ r.aligner \in AgHow
         /\ r.period \in Nat /\ r.reducer \in AgHow /\ r.grouped \in BOOLEAN
BY DEF AgRequest

(* What is seen of a series is a sequence of its points in the window.     *)
LEMMA ShownType ==
  ASSUME NEW r \in AgRequest, NEW i \in DOMAIN r.series
  PROVE  /\ AgShown(r, i) \in Seq(AgTaken) /\ AgSeen(r, AgShown(r, i))
         /\ r.series[i].label \in STRING
<1>1. r.series[i] \in AgSeries
  <2>1. r.series \in Seq(AgSeries)
    BY RequestType
  <2> QED
    BY <2>1, ElementOfSeq, LenProperties
<1>2. PICK s : s = r.series[i].points
  OBVIOUS
<1>3. s \in Seq(AgTaken) /\ r.series[i].label \in STRING
  BY <1>1, <1>2 DEF AgSeries, AgTaken
<1>4. PICK I : I = {k \in DOMAIN s : AgInWindow(s[k], r.start, r.end)}
  OBVIOUS
<1>5. AgShown(r, i) = AgKept(s, I) /\ I \subseteq DOMAIN s
  BY <1>2, <1>4 DEF AgShown
<1>6. AgKept(s, I) \in Seq(AgTaken) /\ \A n \in DOMAIN AgKept(s, I) : \E k \in I : AgKept(s, I)[n] = s[k]
  BY <1>3, <1>5, KeptType
<1>7. PICK f : f = AgKept(s, I)
  OBVIOUS
<1>8. \A k \in I : AgInWindow(s[k], r.start, r.end)
  BY <1>4
<1>9. \A n \in DOMAIN f : \E k \in I : f[n] = s[k]
  BY <1>6, <1>7
<1>10. AgSeen(r, f)
  BY <1>8, <1>9 DEF AgSeen
<1> QED
  BY <1>3, <1>5, <1>6, <1>7, <1>10

(* A series with its label                                                 *)
AgLabelled == [label : STRING, points : Seq(AgTaken)]

(* So are the points of every series that is matched.                      *)
LEMMA MatchedType ==
  ASSUME NEW r \in AgRequest
  PROVE  /\ AgMatched(r) \in Seq(AgLabelled)
         /\ \A i \in DOMAIN AgMatched(r) : AgSeen(r, AgMatched(r)[i].points)
<1>1. PICK n : n = Len(r.series)
  OBVIOUS
<1>2. n \in Nat /\ DOMAIN r.series = 1..n
  BY <1>1, RequestType, LenProperties
<1>3. PICK all : all = [i \in 1..n |-> [label |-> r.series[i].label, points |-> AgShown(r, i)]]
  OBVIOUS
<1>4. PICK I : I = {i \in DOMAIN all : all[i].points # <<>>}
  OBVIOUS
<1>5. PICK m : m = AgMatched(r)
  OBVIOUS
<1>6. m = AgKept(all, I)
  BY <1>2, <1>3, <1>4, <1>5 DEF AgMatched, AgShown
<1>7. \A i \in 1..n : AgShown(r, i) \in Seq(AgTaken) /\ AgSeen(r, AgShown(r, i)) /\ r.series[i].label \in STRING
  BY <1>2, ShownType
<1>8. \A i \in 1..n : all[i] \in AgLabelled /\ AgSeen(r, all[i].points)
  <2>1. TAKE i \in 1..n
  <2>2. PICK f, l : f = AgShown(r, i) /\ l = r.series[i].label
    OBVIOUS
  <2>3. all[i] = [label |-> l, points |-> f]
    BY <1>3, <2>2
  <2>4. f \in Seq(AgTaken) /\ AgSeen(r, f) /\ l \in STRING
    BY <1>7, <2>2
  <2> QED
    BY <2>3, <2>4 DEF AgLabelled
<1>9. all \in [1..n -> AgLabelled]
  BY <1>3, <1>8
<1>10. all \in Seq(AgLabelled)
  BY <1>2, <1>9, SeqDef
<1>11. I \subseteq DOMAIN all /\ DOMAIN all = 1..n
  BY <1>3, <1>4
<1>12. I \subseteq DOMAIN all
  BY <1>11
<1>13. m \in Seq(AgLabelled)
  BY <1>6, <1>10, <1>12, KeptType
<1>14. \A k \in DOMAIN m : \E i \in I : m[k] = all[i]
  BY <1>6, <1>10, <1>12, KeptType
<1>15. \A k \in DOMAIN m : AgSeen(r, m[k].points)
  BY <1>8, <1>11, <1>14
<1> QED
  BY <1>5, <1>13, <1>15

(* The places of a sequence's points that have a time *)
LEMMA TimedType ==
  ASSUME NEW s \in Seq(AgTaken)
  PROVE  /\ IsFiniteSet(AgTimed(s)) /\ AgTimed(s) \subseteq DOMAIN s
         /\ \A k \in DOMAIN s : s[k].at \in Nat /\ s[k].value \in AgValue
<1>1. Len(s) \in Nat /\ DOMAIN s = 1..Len(s)
  BY LenProperties
<1>2. IsFiniteSet(1..Len(s))
  BY <1>1, FS_Interval
<1>3. AgTimed(s) \subseteq DOMAIN s
  BY DEF AgTimed
<1>4. IsFiniteSet(AgTimed(s))
  BY <1>1, <1>2, <1>3, FS_Subset
<1>5. \A k \in DOMAIN s : s[k].at \in Nat /\ s[k].value \in AgValue
  <2>1. TAKE k \in DOMAIN s
  <2>2. s[k] \in AgTaken
    BY <1>1, ElementOfSeq
  <2> QED
    BY <2>2 DEF AgTaken
<1> QED
  BY <1>3, <1>4, <1>5

(* What one series becomes: its type *)
AgEnds(r, s) == [k \in AgTimed(s) |-> IF r.end = 0 THEN s[k].at ELSE AgBucketEnd(r.end, s[k].at, r.period)]

(* No bucket of the window ends before time 0.                             *)
LEMMA EndsType ==
  ASSUME NEW r \in AgRequest, r.period # 0, NEW s \in Seq(AgTaken), AgSeen(r, s)
  PROVE  AgEnds(r, s) \in [AgTimed(s) -> Nat]
<1>1. r.period \in Nat \ {0} /\ r.end \in Nat /\ r.start \in Nat
  BY RequestType
<1>2. ASSUME NEW k \in AgTimed(s)
      PROVE  (IF r.end = 0 THEN s[k].at ELSE AgBucketEnd(r.end, s[k].at, r.period)) \in Nat
  <2>1. k \in DOMAIN s /\ s[k].at \in Nat /\ s[k].at # 0
    BY TimedType DEF AgTimed
  <2>2. AgInWindow(s[k], r.start, r.end)
    BY <2>1 DEF AgSeen
  <2>3. r.end # 0 => s[k].at <= r.end
    BY <2>1, <2>2 DEF AgInWindow
  <2>4. r.end # 0 => AgBucketEnd(r.end, s[k].at, r.period) \in Nat
    BY <1>1, <2>1, <2>3, BucketEnds
  <2> QED
    BY <2>1, <2>4
<1> QED
  BY <1>2 DEF AgEnds

(* _align_series with its ends named                                       *)
LEMMA AlignIs ==
  ASSUME NEW r \in AgRequest, NEW s \in AgLabelled
  PROVE  AgAlign(s, r.aligner, r.period, r.end) =
           IF r.aligner.op = "NONE" \/ r.period = 0 THEN s
           ELSE [label |-> s.label, points |-> AgPoints(s.points, AgEnds(r, s.points),
                                      AgDownwards(Range(AgEnds(r, s.points))), r.aligner, r.period)]
BY DEF AgAlign, AgEnds

(* Aligned series are series, one for each that is matched.                *)
LEMMA AlignedType ==
  ASSUME NEW r \in AgRequest
  PROVE  /\ AgAligned(r) \in Seq(AgLabelled) /\ DOMAIN AgAligned(r) = DOMAIN AgMatched(r)
         /\ \A i \in DOMAIN AgMatched(r) :
              AgAligned(r)[i] = AgAlign(AgMatched(r)[i], r.aligner, r.period, r.end)
<1>1. PICK m : m = AgMatched(r)
  OBVIOUS
<1>2. m \in Seq(AgLabelled) /\ \A i \in DOMAIN m : AgSeen(r, m[i].points)
  BY <1>1, MatchedType
<1>3. PICK n \in Nat : DOMAIN m = 1..n /\ \A i \in 1..n : m[i] \in AgLabelled
  <2>1. Len(m) \in Nat /\ DOMAIN m = 1..Len(m)
    BY <1>2, LenProperties
  <2>2. \A i \in 1..Len(m) : m[i] \in AgLabelled
    BY <1>2, ElementOfSeq
  <2> QED
    BY <2>1, <2>2
<1>4. PICK a : a = AgAligned(r)
  OBVIOUS
<1>5. a = [i \in 1..n |-> AgAlign(m[i], r.aligner, r.period, r.end)]
  BY <1>1, <1>3, <1>4 DEF AgAligned
<1>6. ASSUME NEW i \in 1..n
      PROVE  AgAlign(m[i], r.aligner, r.period, r.end) \in AgLabelled
  <2>1. PICK s : s = m[i]
    OBVIOUS
  <2>2. s \in AgLabelled /\ s.points \in Seq(AgTaken) /\ s.label \in STRING /\ AgSeen(r, s.points)
    BY <1>2, <1>3, <2>1 DEF AgLabelled
  <2>3. PICK p : p = s.points
    OBVIOUS
  <2>4. CASE r.aligner.op = "NONE" \/ r.period = 0
    BY <2>1, <2>2, <2>4, AlignIs
  <2>5. CASE ~ (r.aligner.op = "NONE" \/ r.period = 0)
    <3>1. AgEnds(r, p) \in [AgTimed(p) -> Nat]
      BY <2>2, <2>3, <2>5, EndsType
    <3>2. IsFiniteSet(AgTimed(p)) /\ \A k \in AgTimed(p) : p[k].value \in AgValue
      BY <2>2, <2>3, TimedType
    <3>3. PICK q : q = AgPoints(p, AgEnds(r, p), AgDownwards(Range(AgEnds(r, p))), r.aligner, r.period)
      OBVIOUS
    <3>4. r.aligner \in AgHow /\ r.period \in Nat
      BY RequestType
    <3>5. q \in Seq(AgTaken)
      <4>1. AgPointed(p, AgEnds(r, p), AgTimed(p), r.aligner, r.period, AgNewer(Range(AgEnds(r, p))), q)
        BY <3>1, <3>2, <3>3, <3>4, PointsAligned
      <4> QED
        BY <4>1 DEF AgPointed
    <3>6. AgAlign(s, r.aligner, r.period, r.end) = [label |-> s.label, points |-> q]
      BY <2>2, <2>3, <2>5, <3>3, AlignIs
    <3> QED
      BY <2>1, <2>2, <3>5, <3>6 DEF AgLabelled
  <2> QED
    BY <2>4, <2>5
<1>7. a \in [1..n -> AgLabelled]
  BY <1>5, <1>6
<1>8. a \in Seq(AgLabelled)
  BY <1>7, SeqDef
<1> QED
  BY <1>1, <1>3, <1>4, <1>5, <1>8

(* Place k is in the bucket of the width of r that ends at this time.      *)
AgInside(r, s, k, at) == at - r.period < s[k].at /\ s[k].at <= at

(* A point is in the bucket that ends at e exactly if e is its end. *)
LEMMA InsideIs ==
  ASSUME NEW r \in AgRequest, r.period # 0, r.end # 0, NEW s \in Seq(AgTaken), AgSeen(r, s),
         NEW c \in AgTimed(s)
  PROVE  /\ (r.end - AgEnds(r, s)[c]) % r.period = 0
         /\ AgInside(r, s, c, AgEnds(r, s)[c])
         /\ \A k \in AgTimed(s) : AgInside(r, s, k, AgEnds(r, s)[c]) <=> AgEnds(r, s)[k] = AgEnds(r, s)[c]
<1>1. PICK P \in Nat \ {0} : P = r.period
  BY RequestType
<1>2. PICK base \in Nat : base = r.end
  BY RequestType
<1>3. ASSUME NEW k \in AgTimed(s)
      PROVE  /\ AgEnds(r, s)[k] = AgBucketEnd(base, s[k].at, P)
             /\ s[k].at \in Nat /\ s[k].at <= base
             /\ AgInside(r, s, k, AgEnds(r, s)[k])
             /\ (base - AgEnds(r, s)[k]) % P = 0
  <2>1. k \in DOMAIN s /\ s[k].at \in Nat /\ s[k].at # 0
    BY TimedType DEF AgTimed
  <2>2. AgInWindow(s[k], r.start, r.end)
    BY <2>1 DEF AgSeen
  <2>3. s[k].at <= base
    BY <1>2, <2>1, <2>2 DEF AgInWindow
  <2>4. AgEnds(r, s)[k] = AgBucketEnd(base, s[k].at, P)
    BY <1>1, <1>2 DEF AgEnds
  <2>5. PICK a : a = s[k].at
    OBVIOUS
  <2>6. /\ AgBucketEnd(base, a, P) - P < a /\ a <= AgBucketEnd(base, a, P)
        /\ (base - AgBucketEnd(base, a, P)) % P = 0
    BY <2>1, <2>3, <2>5, BucketEnds
  <2> QED
    BY <1>1, <2>1, <2>3, <2>4, <2>5, <2>6 DEF AgInside
<1>4. ASSUME NEW k \in AgTimed(s), AgInside(r, s, k, AgEnds(r, s)[c])
      PROVE  AgEnds(r, s)[k] = AgEnds(r, s)[c]
  <2>1. PICK a, d : a = s[k].at /\ d = s[c].at
    OBVIOUS
  <2>2. a \in Nat /\ a <= base /\ d \in Nat /\ d <= base
    BY <1>3, <2>1
  <2>3. AgEnds(r, s)[k] = AgBucketEnd(base, a, P) /\ AgEnds(r, s)[c] = AgBucketEnd(base, d, P)
    BY <1>3, <2>1
  <2>4. AgBucketEnd(base, d, P) - P < a /\ a <= AgBucketEnd(base, d, P)
    BY <1>1, <1>4, <2>1, <2>3 DEF AgInside
  <2> QED
    BY <2>2, <2>3, <2>4, BucketIs
<1>5. \A k \in AgTimed(s) : AgEnds(r, s)[k] = AgEnds(r, s)[c] => AgInside(r, s, k, AgEnds(r, s)[c])
  BY <1>3
<1> QED
  BY <1>1, <1>2, <1>3, <1>4, <1>5

(* _align_series: every request keeps the law of alignment.                *)
LEMMA AlignmentHolds ==
  ASSUME NEW r \in AgRequest PROVE AlignmentLaw(r, AgAligned(r))
<1>1. SUFFICES ASSUME r.aligner.op # "NONE", r.period # 0, r.end # 0, NEW i \in DOMAIN AgAligned(r)
      PROVE LET points == AgMatched(r)[i].points
                inside(k, b) == b.at - r.period < points[k].at /\ points[k].at <= b.at
            IN /\ AgNewestFirst(AgAligned(r)[i].points)
               /\ \A k \in AgTimed(points) :
                    Cardinality({j \in DOMAIN AgAligned(r)[i].points : inside(k, AgAligned(r)[i].points[j])}) = 1
               /\ \A b \in Range(AgAligned(r)[i].points) :
                    /\ (r.end - b.at) % r.period = 0
                    /\ LET places == {k \in AgTimed(points) : inside(k, b)}
                       IN /\ places # {}
                          /\ AgSound(AgValues(points, places), r.aligner, r.period, b.value)
  BY DEF AlignmentLaw, AgAligns
<1>2. i \in DOMAIN AgMatched(r) /\ AgAligned(r)[i] = AgAlign(AgMatched(r)[i], r.aligner, r.period, r.end)
  BY AlignedType
<1>3. AgMatched(r)[i] \in AgLabelled /\ AgSeen(r, AgMatched(r)[i].points)
  <2>1. AgMatched(r) \in Seq(AgLabelled) /\ AgSeen(r, AgMatched(r)[i].points)
    BY <1>2, MatchedType
  <2> QED
    BY <1>2, <2>1, ElementOfSeq, LenProperties
<1>4. PICK s : s = AgMatched(r)[i].points
  OBVIOUS
<1>5. s \in Seq(AgTaken) /\ AgSeen(r, s)
  BY <1>3, <1>4 DEF AgLabelled
<1>6. PICK ends : ends = AgEnds(r, s)
  OBVIOUS
<1>7. PICK T : T = AgTimed(s)
  OBVIOUS
<1>8. ends \in [T -> Nat]
  BY <1>1, <1>5, <1>6, <1>7, EndsType
<1>9. IsFiniteSet(T) /\ \A k \in T : s[k].value \in AgValue
  BY <1>5, <1>7, TimedType
<1>10. PICK q : q = AgAligned(r)[i].points
  OBVIOUS
<1>11. q = AgPoints(s, ends, AgDownwards(Range(ends)), r.aligner, r.period)
  <2>1. AgAligned(r)[i] = [label |-> AgMatched(r)[i].label,
                           points |-> AgPoints(s, ends, AgDownwards(Range(ends)), r.aligner, r.period)]
    BY <1>1, <1>2, <1>3, <1>4, <1>6, AlignIs
  <2> QED
    BY <1>10, <2>1
<1>12. r.aligner \in AgHow /\ r.period \in Nat
  BY RequestType
<1>13. AgPointed(s, ends, T, r.aligner, r.period, AgNewer(Range(ends)), q) /\ AgNewestFirst(q)
  BY <1>8, <1>9, <1>11, <1>12, PointsAligned
<1>14. q \in Seq(AgTaken) /\ AgNewestFirst(q)
  BY <1>13 DEF AgPointed
<1>15. (\A j \in DOMAIN q : \E k \in T : q[j].at = ends[k]) /\ \A k \in T : \E j \in DOMAIN q : q[j].at = ends[k]
  BY <1>13 DEF AgPointed
<1>16. \A j \in DOMAIN q : AgSound(AgValues(s, {k \in T : ends[k] = q[j].at}), r.aligner, r.period, q[j].value)
  BY <1>13 DEF AgPointed
<1>17. \A j, l \in DOMAIN q : q[j].at = q[l].at => j = l
  BY <1>14, OneOfEach
<1>18. \A c \in T : /\ (r.end - ends[c]) % r.period = 0 /\ AgInside(r, s, c, ends[c])
                    /\ \A k \in T : AgInside(r, s, k, ends[c]) <=> ends[k] = ends[c]
  BY <1>1, <1>5, <1>6, <1>7, InsideIs
<1>19. ASSUME NEW k \in T
       PROVE  Cardinality({j \in DOMAIN q : AgInside(r, s, k, q[j].at)}) = 1
  <2>1. PICK j \in DOMAIN q : q[j].at = ends[k]
    BY <1>15
  <2>2. AgInside(r, s, k, q[j].at)
    BY <1>18, <2>1
  <2>3. ASSUME NEW l \in DOMAIN q, AgInside(r, s, k, q[l].at)
        PROVE  l = j
    <3>1. PICK c \in T : q[l].at = ends[c]
      BY <1>15
    <3>2. ends[k] = ends[c]
      BY <1>18, <2>3, <3>1
    <3> QED
      BY <1>17, <2>1, <3>1, <3>2
  <2>4. {l \in DOMAIN q : AgInside(r, s, k, q[l].at)} = {j}
    BY <2>2, <2>3
  <2> QED
    BY <2>4, FS_Singleton
<1>20. ASSUME NEW b \in Range(q)
       PROVE  /\ (r.end - b.at) % r.period = 0
              /\ {k \in T : AgInside(r, s, k, b.at)} # {}
              /\ AgSound(AgValues(s, {k \in T : AgInside(r, s, k, b.at)}), r.aligner, r.period, b.value)
  <2>1. PICK j \in DOMAIN q : b = q[j]
    BY DEF Range
  <2>2. PICK c \in T : b.at = ends[c]
    BY <1>15, <2>1
  <2>3. {k \in T : AgInside(r, s, k, b.at)} = {k \in T : ends[k] = b.at}
    BY <1>18, <2>2
  <2>4. AgSound(AgValues(s, {k \in T : ends[k] = b.at}), r.aligner, r.period, b.value)
    BY <1>16, <2>1
  <2>5. c \in {k \in T : ends[k] = b.at}
    BY <2>2
  <2>6. (r.end - b.at) % r.period = 0
    BY <1>18, <2>2
  <2> QED
    BY <2>3, <2>4, <2>5, <2>6
<1> QED
  BY <1>4, <1>7, <1>10, <1>14, <1>19, <1>20 DEF AgInside

------------------------------------------------------------------------------
(* Reduction: the groups, their members and the series made of each        *)

(* A set of naturals has a least member.                                   *)
LEMMA Foremost ==
  ASSUME NEW S, S \subseteq Nat, S # {} PROVE \E l \in S : \A j \in S : l <= j
<1> DEFINE P == {n \in Nat : (\E i \in S : i <= n) => \E l \in S : \A j \in S : l <= j}
<1>1. 0 \in P
  <2>1. ASSUME NEW i \in S, i <= 0 PROVE \A j \in S : i <= j
    BY <2>1
  <2> QED
    BY <2>1
<1>2. \A n \in Nat : (n \in P) => (n + 1 \in P)
  <2>1. SUFFICES ASSUME NEW n \in Nat, n \in P, NEW i \in S, i <= n + 1
        PROVE  \E l \in S : \A j \in S : l <= j
    OBVIOUS
  <2>2. CASE \E h \in S : h <= n
    BY <2>1, <2>2
  <2>3. CASE ~ \E h \in S : h <= n
    <3>1. \A j \in S : i <= j
      BY <2>1, <2>3
    <3> QED
      BY <3>1
  <2> QED
    BY <2>2, <2>3
<1> HIDE DEF P
<1>3. \A n \in Nat : n \in P
  BY <1>1, <1>2, NumberInduction
<1>4. PICK i \in S : i \in Nat
  OBVIOUS
<1>5. i \in P /\ i <= i
  BY <1>3, <1>4
<1> QED
  BY <1>5 DEF P

(* Reduction: the first member of each group *)
AgFirsts(all, grouped) ==
  {i \in DOMAIN all : \A j \in 1..i - 1 : AgGroup(all[j], grouped) # AgGroup(all[i], grouped)}

(* Each group has one first member.                                        *)
LEMMA FirstsAre ==
  ASSUME NEW all \in Seq(AgLabelled), NEW grouped \in BOOLEAN
  PROVE  /\ AgFirsts(all, grouped) \subseteq DOMAIN all /\ AgFirsts(all, grouped) \subseteq Nat
         /\ IsFiniteSet(AgFirsts(all, grouped))
         /\ \A i \in DOMAIN all : \E f \in AgFirsts(all, grouped) : AgGroup(all[f], grouped) = AgGroup(all[i], grouped)
         /\ \A f, g \in AgFirsts(all, grouped) : AgGroup(all[f], grouped) = AgGroup(all[g], grouped) => f = g
<1>1. PICK n \in Nat : DOMAIN all = 1..n
  BY LenProperties
<1>2. PICK F : F = AgFirsts(all, grouped)
  OBVIOUS
<1>3. PICK key : key = [i \in 1..n |-> AgGroup(all[i], grouped)]
  OBVIOUS
<1>4. F \subseteq 1..n /\ 1..n \subseteq Nat
  BY <1>1, <1>2 DEF AgFirsts
<1>5. IsFiniteSet(1..n)
  BY FS_Interval
<1>6. IsFiniteSet(F)
  BY <1>4, <1>5, FS_Subset
<1>7. \A i \in 1..n : key[i] = AgGroup(all[i], grouped)
  BY <1>3
<1>8. \A i \in 1..n : i \in F <=> \A j \in 1..i - 1 : key[j] # key[i]
  <2>1. TAKE i \in 1..n
  <2>2. \A j \in 1..i - 1 : j \in 1..n
    OBVIOUS
  <2>3. i \in F <=> \A j \in 1..i - 1 : AgGroup(all[j], grouped) # AgGroup(all[i], grouped)
    BY <1>1, <1>2 DEF AgFirsts
  <2> QED
    BY <1>7, <2>2, <2>3
<1>9. ASSUME NEW i \in 1..n PROVE \E f \in F : key[f] = key[i]
  <2>1. PICK S : S = {j \in 1..n : key[j] = key[i]}
    OBVIOUS
  <2>2. S \subseteq Nat /\ S # {} /\ \A j \in S : j \in 1..n /\ key[j] = key[i]
    BY <1>4, <2>1
  <2>3. PICK l \in S : \A j \in S : l <= j
    BY <2>2, Foremost
  <2>4. \A j \in 1..l - 1 : j \in 1..n /\ j < l
    BY <2>2, <2>3
  <2>5. \A j \in 1..l - 1 : key[j] # key[i]
    BY <2>1, <2>2, <2>3, <2>4
  <2>6. l \in F
    BY <1>8, <2>2, <2>3, <2>5
  <2> QED
    BY <2>2, <2>3, <2>6
<1>10. ASSUME NEW f \in F, NEW g \in F, key[f] = key[g] PROVE f = g
  <2>1. f \in 1..n /\ g \in 1..n
    BY <1>4
  <2>2. ~ (f < g) /\ ~ (g < f)
    <3>1. f < g => f \in 1..g - 1
      BY <2>1
    <3>2. g < f => g \in 1..f - 1
      BY <2>1
    <3> QED
      BY <1>8, <1>10, <2>1, <3>1, <3>2
  <2> QED
    BY <2>1, <2>2
<1> QED
  BY <1>1, <1>2, <1>4, <1>6, <1>7, <1>9, <1>10

(* The places of the points of all series *)
AgPlaces(all) == UNION {{i} \X DOMAIN all[i].points : i \in DOMAIN all}

(* The places are finitely many pairs of a series and one of its points.   *)
LEMMA PlacesAre ==
  ASSUME NEW all \in Seq(AgLabelled)
  PROVE  /\ IsFiniteSet(AgPlaces(all))
         /\ \A x \in AgPlaces(all) : /\ x = <<x[1], x[2]>> /\ x[1] \in DOMAIN all /\ x[2] \in DOMAIN all[x[1]].points
                                     /\ all[x[1]].points[x[2]].at \in Nat
                                     /\ all[x[1]].points[x[2]].value \in AgValue
         /\ \A i \in DOMAIN all : \A j \in DOMAIN all[i].points : <<i, j>> \in AgPlaces(all)
<1>1. PICK n \in Nat : DOMAIN all = 1..n /\ \A i \in 1..n : all[i] \in AgLabelled
  <2>1. Len(all) \in Nat /\ DOMAIN all = 1..Len(all) /\ \A i \in 1..Len(all) : all[i] \in AgLabelled
    BY LenProperties, ElementOfSeq
  <2> QED
    BY <2>1
<1>2. \A i \in 1..n : all[i].points \in Seq(AgTaken)
  BY <1>1 DEF AgLabelled
<1>3. PICK dom : dom = [i \in 1..n |-> {i} \X DOMAIN all[i].points]
  OBVIOUS
<1>4. PICK C : C = {{i} \X DOMAIN all[i].points : i \in 1..n}
  OBVIOUS
<1>5. IsFiniteSet(C)
  <2>1. dom \in [1..n -> C]
    BY <1>3, <1>4
  <2>2. \A c \in C : \E i \in 1..n : dom[i] = c
    BY <1>3, <1>4
  <2>3. dom \in Surjection(1..n, C)
    BY <2>1, <2>2, Fun_IsSurj
  <2>4. IsFiniteSet(1..n)
    BY FS_Interval
  <2> QED
    BY <2>3, <2>4, FS_Surjection
<1>6. \A c \in C : IsFiniteSet(c)
  <2>1. TAKE c \in C
  <2>2. PICK i \in 1..n : c = {i} \X DOMAIN all[i].points
    BY <1>4
  <2>3. PICK m : m = Len(all[i].points)
    OBVIOUS
  <2>4. m \in Nat /\ DOMAIN all[i].points = 1..m
    BY <1>2, <2>3, LenProperties
  <2>5. IsFiniteSet(1..m)
    BY <2>4, FS_Interval
  <2>6. IsFiniteSet({i})
    BY FS_Singleton
  <2> QED
    BY <2>2, <2>4, <2>5, <2>6, FS_Product
<1>7. AgPlaces(all) = UNION C
  BY <1>1, <1>4 DEF AgPlaces
<1>8. IsFiniteSet(UNION C)
  BY <1>5, <1>6, FS_UNION
<1>9. ASSUME NEW x \in AgPlaces(all)
      PROVE  /\ x = <<x[1], x[2]>> /\ x[1] \in 1..n /\ x[2] \in DOMAIN all[x[1]].points
             /\ all[x[1]].points[x[2]].at \in Nat
             /\ all[x[1]].points[x[2]].value \in AgValue
  <2>1. PICK i \in 1..n : x \in {i} \X DOMAIN all[i].points
    BY <1>4, <1>7
  <2>2. x = <<x[1], x[2]>> /\ x[1] = i /\ x[2] \in DOMAIN all[i].points
    BY <2>1
  <2>3. \A k \in DOMAIN all[i].points : all[i].points[k].at \in Nat /\ all[i].points[k].value \in AgValue
    BY <1>2, TimedType
  <2> QED
    BY <2>2, <2>3
<1>10. ASSUME NEW i \in 1..n, NEW j \in DOMAIN all[i].points
       PROVE  <<i, j>> \in AgPlaces(all)
  <2>1. <<i, j>> \in {i} \X DOMAIN all[i].points
    OBVIOUS
  <2> QED
    BY <1>4, <1>7, <2>1
<1> QED
  BY <1>1, <1>7, <1>8, <1>9, <1>10

(* The points of all series, those of a group, their ends and its series   *)
AgAll(all) == [x \in AgPlaces(all) |-> all[x[1]].points[x[2]]]
AgHere(all, grouped, k) == {x \in AgTimed(AgAll(all)) : AgGroup(all[x[1]], grouped) = k}
AgTimes(all, grouped, k) == [x \in AgHere(all, grouped, k) |-> AgAll(all)[x].at]
AgReduced(all, aligned, reducer, grouped, k) ==
  AgPoints(AgAll(all), AgTimes(all, grouped, k),
           AgBySpelling(Range(AgTimes(all, grouped, k)), aligned), reducer, 0)
AgKeys(all, grouped) == {AgGroup(s, grouped) : s \in Range(all)}

(* The places of a group that have a time, and their ends                  *)
LEMMA HereAre ==
  ASSUME NEW all \in Seq(AgLabelled), NEW grouped \in BOOLEAN, NEW k
  PROVE  /\ IsFiniteSet(AgHere(all, grouped, k))
         /\ AgHere(all, grouped, k) = {x \in AgPlaces(all) : /\ all[x[1]].points[x[2]].at # 0
                                                             /\ AgGroup(all[x[1]], grouped) = k}
         /\ \A x \in AgHere(all, grouped, k) : /\ AgAll(all)[x] = all[x[1]].points[x[2]]
                                               /\ AgTimes(all, grouped, k)[x] = all[x[1]].points[x[2]].at
         /\ AgTimes(all, grouped, k) \in [AgHere(all, grouped, k) -> Nat]
<1>1. PICK X : X = AgPlaces(all)
  OBVIOUS
<1>2. PICK f : f = AgAll(all)
  OBVIOUS
<1>3. f = [x \in X |-> all[x[1]].points[x[2]]]
  BY <1>1, <1>2 DEF AgAll
<1>4. AgTimed(f) = {x \in X : all[x[1]].points[x[2]].at # 0}
  BY <1>3 DEF AgTimed
<1>5. PICK H : H = AgHere(all, grouped, k)
  OBVIOUS
<1>6. H = {x \in X : all[x[1]].points[x[2]].at # 0 /\ AgGroup(all[x[1]], grouped) = k}
  BY <1>2, <1>4, <1>5 DEF AgHere
<1>7. H \subseteq X
  BY <1>6
<1>8. IsFiniteSet(H)
  <2>1. IsFiniteSet(X)
    BY <1>1, PlacesAre
  <2> QED
    BY <1>7, <2>1, FS_Subset
<1>9. \A x \in X : all[x[1]].points[x[2]].at \in Nat
  BY <1>1, PlacesAre
<1>10. AgTimes(all, grouped, k) = [x \in H |-> f[x].at]
  BY <1>2, <1>5 DEF AgTimes
<1>11. \A x \in H : f[x] = all[x[1]].points[x[2]] /\ f[x].at \in Nat
  BY <1>3, <1>7, <1>9
<1>12. AgTimes(all, grouped, k) \in [H -> Nat] /\ \A x \in H : AgTimes(all, grouped, k)[x] = all[x[1]].points[x[2]].at
  BY <1>10, <1>11
<1>13. \A x \in H : AgAll(all)[x] = all[x[1]].points[x[2]]
  BY <1>2, <1>11
<1>14. H = {x \in AgPlaces(all) : all[x[1]].points[x[2]].at # 0 /\ AgGroup(all[x[1]], grouped) = k}
  BY <1>1, <1>6
<1> QED
  BY <1>5, <1>8, <1>12, <1>13, <1>14

(* The points of a group's series are made of those of its members.        *)
LEMMA ReducedSound ==
  ASSUME NEW all \in Seq(AgLabelled), NEW aligned, NEW grouped \in BOOLEAN, NEW k, NEW reducer \in AgHow
  PROVE  /\ AgPointed(AgAll(all), AgTimes(all, grouped, k), AgHere(all, grouped, k), reducer, 0,
                      AgLater(Range(AgTimes(all, grouped, k)), aligned),
                      AgReduced(all, aligned, reducer, grouped, k))
         /\ AgSpelledFirst(AgReduced(all, aligned, reducer, grouped, k), aligned)
<1>1. PICK H, times, f : H = AgHere(all, grouped, k) /\ times = AgTimes(all, grouped, k) /\ f = AgAll(all)
  OBVIOUS
<1>2. IsFiniteSet(H)
  BY <1>1, HereAre
<1>3. times \in [H -> Nat]
  BY <1>1, HereAre
<1>4. \A x \in H : f[x] = all[x[1]].points[x[2]] /\ x \in AgPlaces(all)
  <2>1. H \subseteq AgPlaces(all)
    BY <1>1, HereAre
  <2> QED
    BY <1>1, <2>1, HereAre
<1>5. \A x \in AgPlaces(all) : all[x[1]].points[x[2]].value \in AgValue
  BY PlacesAre
<1>6. \A x \in H : f[x].value \in AgValue
  BY <1>4, <1>5
<1>7. 0 \in Nat
  OBVIOUS
<1> QED
  BY <1>1, <1>2, <1>3, <1>6, <1>7, PointsSpelled DEF AgReduced

(* One series for each group *)
LEMMA ReduceIs ==
  ASSUME NEW all \in Seq(AgLabelled), NEW aligned, NEW grouped \in BOOLEAN, NEW reducer \in AgHow
  PROVE  \E n \in Nat :
           /\ n = Cardinality(AgKeys(all, grouped))
           /\ DOMAIN AgReduce(all, aligned, reducer, grouped) = 1..n /\ Len(AgReduce(all, aligned, reducer, grouped)) = n
           /\ \A j \in 1..n : \E k \in AgKeys(all, grouped) :
                AgReduce(all, aligned, reducer, grouped)[j] =
                  [label |-> k, points |-> AgReduced(all, aligned, reducer, grouped, k)]
           /\ \A k \in AgKeys(all, grouped) : \E j \in 1..n :
                AgReduce(all, aligned, reducer, grouped)[j] =
                  [label |-> k, points |-> AgReduced(all, aligned, reducer, grouped, k)]
<1> DEFINE key(i) == AgGroup(all[i], grouped)
           one(k) == [label |-> k, points |-> AgReduced(all, aligned, reducer, grouped, k)]
<1>1. PICK F : F = AgFirsts(all, grouped)
  OBVIOUS
<1>2. /\ F \subseteq DOMAIN all /\ F \subseteq Nat
      /\ \A i \in DOMAIN all : \E f \in F : key(f) = key(i)
      /\ \A f, g \in F : key(f) = key(g) => f = g
  BY <1>1, FirstsAre
<1>3. IsFiniteSet(F)
  BY <1>1, FirstsAre
<1>4. PICK p : p = AgUpwards(F)
  OBVIOUS
<1>5. PICK n \in Nat : /\ n = Cardinality(F) /\ p \in [1..n -> F] /\ \A x \in F : \E j \in 1..n : p[j] = x
                       /\ \A i, j \in 1..n : i < j => p[i] < p[j]
  <2>1. F \subseteq Nat
    BY <1>2
  <2> HIDE DEF key, one
  <2> QED
    BY <1>3, <1>4, <2>1, Upwards
<1>6. PICK K : K = AgKeys(all, grouped)
  OBVIOUS
<1>7. (\A i \in DOMAIN all : key(i) \in K) /\ \A k \in K : \E i \in DOMAIN all : key(i) = k
  BY <1>6 DEF AgKeys, Range
<1>8. Cardinality(K) = n
  <2>1. PICK b : b = [f \in F |-> key(f)]
    OBVIOUS
  <2>2. b \in [F -> K] /\ \A f, g \in F : b[f] = b[g] => f = g
    BY <1>2, <1>7, <2>1
  <2>3. \A k \in K : \E f \in F : b[f] = k
    BY <1>2, <1>7, <2>1
  <2>4. b \in Bijection(F, K)
    BY <2>2, <2>3, Fun_IsBij
  <2>5. ExistsBijection(F, K)
    BY <2>4 DEF ExistsBijection
  <2> QED
    BY <1>3, <1>5, <2>5, FS_Bijection
<1>9. PICK r : r = AgReduce(all, aligned, reducer, grouped)
  OBVIOUS
<1>10. r = [j \in 1..n |-> one(key(p[j]))]
  <2>1. DOMAIN p = 1..n
    BY <1>5
  <2> QED
    BY <1>1, <1>4, <1>9, <2>1
      DEF AgReduce, AgFirsts, AgReduced, AgTimes, AgHere, AgAll, AgPlaces
<1> HIDE DEF key, one
<1>13. r \in Seq({one(k) : k \in K}) /\ Len(r) = n /\ DOMAIN r = 1..n
  <2>1. \A j \in 1..n : one(key(p[j])) \in {one(k) : k \in K}
    BY <1>2, <1>5, <1>7
  <2>2. r \in [1..n -> {one(k) : k \in K}] /\ DOMAIN r = 1..n
    BY <1>10, <2>1
  <2>3. r \in Seq({one(k) : k \in K})
    BY <2>2, SeqDef
  <2> QED
    BY <2>2, <2>3, LenProperties
<1>14. \A j \in 1..n : \E k \in K : r[j] = one(k)
  BY <1>2, <1>5, <1>7, <1>10
<1>15. \A k \in K : \E j \in 1..n : r[j] = one(k)
  <2>1. TAKE k \in K
  <2>2. PICK f \in F : key(f) = k
    BY <1>2, <1>7
  <2>3. PICK j \in 1..n : p[j] = f
    BY <1>5
  <2> QED
    BY <1>10, <2>2, <2>3
<1> QED
  BY <1>5, <1>6, <1>8, <1>9, <1>13, <1>14, <1>15 DEF one

(* The members of a group and, of these, the places with end e             *)
AgMembers(all, grouped, k) == {i \in DOMAIN all : grouped => all[i].label = k}
AgThere(all, members, e) ==
  UNION {{i} \X {j \in DOMAIN all[i].points : all[i].points[j].at = e} : i \in members}

(* The members of a group by label are those with its key.                 *)
LEMMA MembersAre ==
  ASSUME NEW all \in Seq(AgLabelled), NEW grouped \in BOOLEAN, NEW k \in AgKeys(all, grouped)
  PROVE  AgMembers(all, grouped, k) = {i \in DOMAIN all : AgGroup(all[i], grouped) = k}
<1>1. PICK i \in DOMAIN all : AgGroup(all[i], grouped) = k
  BY DEF AgKeys, Range
<1>2. CASE grouped
  BY <1>2 DEF AgMembers, AgGroup
<1>3. CASE ~ grouped
  BY <1>1, <1>3 DEF AgMembers, AgGroup
<1> QED
  BY <1>2, <1>3

(* The points with end e, by place and by member                           *)
LEMMA ThereAre ==
  ASSUME NEW all \in Seq(AgLabelled), NEW grouped \in BOOLEAN, NEW k \in AgKeys(all, grouped),
         NEW e, e # 0
  PROVE  {x \in AgHere(all, grouped, k) : AgTimes(all, grouped, k)[x] = e} =
           AgThere(all, AgMembers(all, grouped, k), e)
<1>1. PICK M : M = AgMembers(all, grouped, k)
  OBVIOUS
<1>2. M = {i \in DOMAIN all : AgGroup(all[i], grouped) = k}
  BY <1>1, MembersAre
<1>3. PICK H, times : H = AgHere(all, grouped, k) /\ times = AgTimes(all, grouped, k)
  OBVIOUS
<1>4. H = {x \in AgPlaces(all) : all[x[1]].points[x[2]].at # 0 /\ AgGroup(all[x[1]], grouped) = k}
  BY <1>3, HereAre
<1>5. \A x \in H : times[x] = all[x[1]].points[x[2]].at
  BY <1>3, HereAre
<1>6. ASSUME NEW x \in H, times[x] = e PROVE x \in AgThere(all, M, e)
  <2>1. x \in AgPlaces(all) /\ AgGroup(all[x[1]], grouped) = k /\ all[x[1]].points[x[2]].at = e
    BY <1>4, <1>5, <1>6
  <2>2. PICK i, j : i \in DOMAIN all /\ j \in DOMAIN all[i].points /\ x = <<i, j>>
    BY <2>1, PlacesAre
  <2>3. i \in M /\ x \in {i} \X {c \in DOMAIN all[i].points : all[i].points[c].at = e}
    BY <1>2, <2>1, <2>2
  <2> QED
    BY <2>3 DEF AgThere
<1>7. ASSUME NEW x \in AgThere(all, M, e) PROVE x \in H /\ times[x] = e
  <2>1. PICK i \in M : x \in {i} \X {c \in DOMAIN all[i].points : all[i].points[c].at = e}
    BY DEF AgThere
  <2>2. PICK j \in DOMAIN all[i].points : x = <<i, j>> /\ all[i].points[j].at = e
    BY <2>1
  <2>3. i \in DOMAIN all /\ AgGroup(all[i], grouped) = k
    BY <1>2
  <2>4. <<i, j>> \in AgPlaces(all)
    BY <2>2, <2>3, PlacesAre
  <2>5. x[1] = i /\ x[2] = j
    BY <2>2
  <2>6. x \in H
    BY <1>4, <2>2, <2>3, <2>4, <2>5
  <2> QED
    BY <1>5, <2>2, <2>5, <2>6
<1> QED
  BY <1>1, <1>3, <1>6, <1>7

(* What is said of one group's series *)
LEMMA GroupHolds ==
  ASSUME NEW all \in Seq(AgLabelled), NEW grouped \in BOOLEAN, NEW k \in AgKeys(all, grouped),
         NEW reducer \in AgHow, NEW aligned, NEW q, q = AgReduced(all, aligned, reducer, grouped, k),
         NEW M, M = AgMembers(all, grouped, k)
  PROVE  /\ AgSpelledFirst(q, aligned)
         /\ {p.at : p \in Range(q)} = (UNION {{p.at : p \in Range(all[i].points)} : i \in M}) \ {0}
         /\ \A b \in Range(q) :
              AgSound([x \in AgThere(all, M, b.at) |-> all[x[1]].points[x[2]].value], reducer, 0, b.value)
<1>1. PICK H, times, f : H = AgHere(all, grouped, k) /\ times = AgTimes(all, grouped, k) /\ f = AgAll(all)
  OBVIOUS
<1>2. AgPointed(f, times, H, reducer, 0, AgLater(Range(times), aligned), q)
  BY <1>1, ReducedSound
<1>3. AgSpelledFirst(q, aligned)
  BY ReducedSound
<1>4. (\A j \in DOMAIN q : \E x \in H : q[j].at = times[x]) /\ \A x \in H : \E j \in DOMAIN q : q[j].at = times[x]
  BY <1>2 DEF AgPointed
<1>5. \A j \in DOMAIN q : AgSound(AgValues(f, {x \in H : times[x] = q[j].at}), reducer, 0, q[j].value)
  BY <1>2 DEF AgPointed
<1>6. \A x \in H : times[x] = all[x[1]].points[x[2]].at /\ f[x] = all[x[1]].points[x[2]]
  BY <1>1, HereAre
<1>7. H = {x \in AgPlaces(all) : all[x[1]].points[x[2]].at # 0 /\ AgGroup(all[x[1]], grouped) = k}
  BY <1>1, HereAre
<1>8. M = {i \in DOMAIN all : AgGroup(all[i], grouped) = k}
  BY MembersAre
<1>9. PICK A : A = (UNION {{p.at : p \in Range(all[i].points)} : i \in M}) \ {0}
  OBVIOUS
<1>10. \A e : e \in A <=> e # 0 /\ \E i \in M : \E p \in Range(all[i].points) : e = p.at
  BY <1>9
<1>11. \A e : e \in A <=> e # 0 /\ \E i \in M : \E c \in DOMAIN all[i].points : e = all[i].points[c].at
  BY <1>10 DEF Range
<1>12. ASSUME NEW j \in DOMAIN q PROVE q[j].at \in A
  <2>1. PICK x \in H : q[j].at = times[x]
    BY <1>4
  <2>2. x \in AgPlaces(all) /\ all[x[1]].points[x[2]].at # 0 /\ AgGroup(all[x[1]], grouped) = k
    BY <1>7
  <2>3. x[1] \in M /\ x[2] \in DOMAIN all[x[1]].points
    BY <1>8, <2>2, PlacesAre
  <2> QED
    BY <1>6, <1>11, <2>1, <2>2, <2>3
<1>13. ASSUME NEW e \in A PROVE \E j \in DOMAIN q : q[j].at = e
  <2>1. PICK i, c : i \in M /\ c \in DOMAIN all[i].points /\ e # 0 /\ e = all[i].points[c].at
    BY <1>11
  <2>2. PICK x : x = <<i, c>>
    OBVIOUS
  <2>3. x[1] = i /\ x[2] = c
    BY <2>2
  <2>4. i \in DOMAIN all /\ AgGroup(all[i], grouped) = k
    BY <1>8, <2>1
  <2>5. x \in AgPlaces(all)
    BY <2>1, <2>2, <2>4, PlacesAre
  <2>6. x \in H
    BY <1>7, <2>1, <2>3, <2>4, <2>5
  <2>7. times[x] = e
    BY <1>6, <2>1, <2>3, <2>6
  <2> QED
    BY <1>4, <2>6, <2>7
<1>14. {p.at : p \in Range(q)} = A
  <2>1. PICK B : B = {p.at : p \in Range(q)}
    OBVIOUS
  <2>2. \A e : e \in B <=> \E j \in DOMAIN q : e = q[j].at
    BY <2>1 DEF Range
  <2>3. \A e : e \in B <=> e \in A
    BY <1>12, <1>13, <2>2
  <2> QED
    BY <2>1, <2>3
<1>15. ASSUME NEW b \in Range(q)
       PROVE  AgSound([x \in AgThere(all, M, b.at) |-> all[x[1]].points[x[2]].value], reducer, 0, b.value)
  <2>1. PICK j \in DOMAIN q : b = q[j]
    BY DEF Range
  <2>2. PICK e : e = b.at
    OBVIOUS
  <2>3. e # 0
    BY <1>11, <1>12, <2>1, <2>2
  <2>4. PICK I : I = {x \in H : times[x] = e}
    OBVIOUS
  <2>5. I = AgThere(all, M, e)
    BY <1>1, <2>3, <2>4, ThereAre
  <2>6. AgSound(AgValues(f, I), reducer, 0, b.value)
    BY <1>5, <2>1, <2>2, <2>4
  <2>7. \A x \in I : f[x].value = all[x[1]].points[x[2]].value
    BY <1>6, <2>4
  <2>8. AgValues(f, I) = [x \in I |-> all[x[1]].points[x[2]].value]
    BY <2>7 DEF AgValues
  <2> QED
    BY <2>2, <2>5, <2>6, <2>8
<1> QED
  BY <1>3, <1>9, <1>14, <1>15

(* _reduce_series: every request keeps the law of reduction.               *)
LEMMA ReductionHolds ==
  ASSUME NEW r \in AgRequest
  PROVE  /\ ReductionLaw(r, AgReduce(AgAligned(r), AgAligns(r), r.reducer, r.grouped))
         /\ \A s \in Range(AgReduce(AgAligned(r), AgAligns(r), r.reducer, r.grouped)) : s.points \in Seq(AgTaken)
<1>1. PICK all : all = AgAligned(r)
  OBVIOUS
<1>2. PICK grouped, reducer, aligned : /\ grouped = r.grouped /\ reducer = r.reducer
                                       /\ aligned = AgAligns(r)
  OBVIOUS
<1>3. all \in Seq(AgLabelled) /\ grouped \in BOOLEAN /\ reducer \in AgHow
  BY <1>1, <1>2, AlignedType, RequestType
<1>4. PICK K : K = AgKeys(all, grouped)
  OBVIOUS
<1>5. PICK red : red = AgReduce(all, aligned, reducer, grouped)
  OBVIOUS
<1> DEFINE one(k) == [label |-> k, points |-> AgReduced(all, aligned, reducer, grouped, k)]
<1>6. PICK n \in Nat :
           /\ n = Cardinality(K)
           /\ DOMAIN red = 1..n /\ Len(red) = n
           /\ \A j \in 1..n : \E k \in K : red[j] = one(k)
           /\ \A k \in K : \E j \in 1..n : red[j] = one(k)
  <2>1. \E n \in Nat :
           /\ n = Cardinality(AgKeys(all, grouped))
           /\ DOMAIN AgReduce(all, aligned, reducer, grouped) = 1..n
           /\ Len(AgReduce(all, aligned, reducer, grouped)) = n
           /\ \A j \in 1..n : \E k \in AgKeys(all, grouped) :
                AgReduce(all, aligned, reducer, grouped)[j] =
                  [label |-> k, points |-> AgReduced(all, aligned, reducer, grouped, k)]
           /\ \A k \in AgKeys(all, grouped) : \E j \in 1..n :
                AgReduce(all, aligned, reducer, grouped)[j] =
                  [label |-> k, points |-> AgReduced(all, aligned, reducer, grouped, k)]
    BY <1>3, ReduceIs
  <2> QED
    BY <1>4, <1>5, <2>1
<1>7. \A s : s \in Range(red) <=> \E k \in K : s = one(k)
  BY <1>6 DEF Range
<1>8. \A k \in K : one(k).label = k /\ one(k).points = AgReduced(all, aligned, reducer, grouped, k)
  OBVIOUS
<1> HIDE DEF one
<1>9. {s.label : s \in Range(red)} = K
  BY <1>7, <1>8
<1>10. ASSUME NEW s \in Range(red)
       PROVE  GroupLaw(r, all, s)
  <2>1. PICK k \in K : s = one(k)
    BY <1>7
  <2>2. PICK q : q = s.points
    OBVIOUS
  <2>3. s.label = k /\ q = AgReduced(all, aligned, reducer, grouped, k)
    BY <1>8, <2>1, <2>2
  <2>4. PICK M : M = AgMembers(all, grouped, k)
    OBVIOUS
  <2>5. k \in AgKeys(all, grouped)
    BY <1>4
  <2>6. /\ AgSpelledFirst(q, aligned)
        /\ {p.at : p \in Range(q)} = (UNION {{p.at : p \in Range(all[i].points)} : i \in M}) \ {0}
        /\ \A b \in Range(q) :
              AgSound([x \in AgThere(all, M, b.at) |-> all[x[1]].points[x[2]].value], reducer, 0, b.value)
    BY <1>3, <2>3, <2>4, <2>5, GroupHolds
  <2>7. M = {i \in DOMAIN all : grouped => all[i].label = s.label}
    BY <2>3, <2>4 DEF AgMembers
  <2>8. M = {i \in DOMAIN all : r.grouped => all[i].label = s.label}
    BY <1>2, <2>7
  <2> QED
    BY <1>2, <2>2, <2>6, <2>8 DEF AgThere, GroupLaw
<1>11. \A s \in Range(red) : s.points \in Seq(AgTaken)
  <2>1. TAKE s \in Range(red)
  <2>2. PICK k \in K : s.points = AgReduced(all, aligned, reducer, grouped, k)
    BY <1>7, <1>8
  <2> QED
    BY <1>3, <2>2, ReducedSound DEF AgPointed
<1>12. ReductionLaw(r, red)
  <2>1. K = {AgGroup(s, r.grouped) : s \in Range(AgAligned(r))}
    BY <1>1, <1>2, <1>4 DEF AgKeys
  <2>2. Len(red) = Cardinality(K)
    BY <1>6
  <2> QED
    BY <1>1, <1>2, <1>9, <1>10, <2>1, <2>2 DEF ReductionLaw
<1> QED
  BY <1>1, <1>2, <1>5, <1>11, <1>12

------------------------------------------------------------------------------
(* The answer is what list_time_series makes of the request.               *)
AgAnswered == request \in AgInputs /\ answer \in {<<>>, <<AgListed(request)>>}

(* Before there is an answer the laws ask for nothing. *)
LEMMA UnansweredLawful ==
  ASSUME answer = <<>> PROVE AggregationLaws
BY DEF AggregationLaws

(* Whatever is answered keeps the laws: its points are typed, aligned ones  *)
(* keep the law of alignment, those reduced the law of reduction.          *)
LEMMA AnswersLawful ==
  ASSUME AgAnswered PROVE AggregationLaws
<1>1. SUFFICES ASSUME answer # <<>> PROVE AggregationLaws
  BY DEF AggregationLaws
<1>2. request \in AgInputs /\ answer = <<AgListed(request)>>
  BY <1>1 DEF AgAnswered
<1>3. PICK r \in AgRequest : r = request
  BY <1>2, AggregationAssumption
<1>4. answer[1] = AgListed(r)
  BY <1>2, <1>3
<1>5. AlignmentLaw(r, AgAligned(r))
  BY AlignmentHolds
<1>6. r.reducer.op = "NONE" => AgListed(r) = AgAligned(r)
  BY DEF AgListed
<1>7. r.reducer.op # "NONE" => ReductionLaw(r, AgListed(r))
  BY ReductionHolds DEF AgListed
<1>8. \A s \in Range(AgListed(r)) : s.points \in Seq(AgTaken)
  <2>1. CASE r.reducer.op = "NONE"
    <3>1. PICK all : all = AgAligned(r)
      OBVIOUS
    <3>2. all \in Seq(AgLabelled)
      BY <3>1, AlignedType
    <3>3. \A i \in DOMAIN all : all[i] \in AgLabelled
      BY <3>2, ElementOfSeq, LenProperties
    <3>4. \A s \in Range(all) : s \in AgLabelled
      BY <3>3 DEF Range
    <3> QED
      BY <1>6, <2>1, <3>1, <3>4 DEF AgLabelled
  <2>2. CASE r.reducer.op # "NONE"
    BY <2>2, ReductionHolds DEF AgListed
  <2> QED
    BY <2>1, <2>2
<1>9. ASSUME NEW s \in Range(AgListed(r)), NEW p \in Range(s.points)
      PROVE  p.at \in Nat /\ p.value \in AgValue
  <2>1. PICK q : q = s.points
    OBVIOUS
  <2>2. q \in Seq(AgTaken)
    BY <1>8, <2>1
  <2>3. PICK k \in DOMAIN q : p = q[k]
    BY <2>1 DEF Range
  <2> QED
    BY <2>2, <2>3, TimedType
<1>10. AggregationTypeOK
  BY <1>4, <1>9 DEF AggregationTypeOK
<1> QED
  BY <1>3, <1>4, <1>5, <1>6, <1>7, <1>10 DEF AggregationLaws

(* What list_time_series answers keeps the laws of alignment and reduction *)
(* (_align_series, _reduce_series, _combine), whatever it was asked.       *)
THEOREM ListsAreLawful == AggregationSpec => []AggregationLaws
<1>1. AggregationInit => AgAnswered
  BY DEF AggregationInit, AgAnswered
<1>2. AgAnswered /\ [AggregationNext]_agVars => AgAnswered'
  BY DEF AgAnswered, AggregationNext, agVars
<1>3. AgAnswered => AggregationLaws
  BY AnswersLawful
<1> QED
  BY <1>1, <1>2, <1>3, PTL DEF AggregationSpec
================================================================================
