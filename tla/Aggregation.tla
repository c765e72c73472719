------------------------------ MODULE Aggregation ------------------------------
(***************************************************************************)
(* list_time_series with an aggregation: the points of each series aligned *)
(* into buckets, and the series of a group reduced to one.  Times are in   *)
(* microseconds; scalars are integers, computed values fractions [num,     *)
(* den]; a distribution is its count, the sum of its samples (count *      *)
(* mean) and its bucket counts, all with the bounds AgBounds; the          *)
(* deviation it also carries is left out.  Values that are combined are a  *)
(* function from the places of their points: in which order they are       *)
(* combined is no matter.                                                  *)
(***************************************************************************)
EXTENDS Integers, Sequences, FiniteSets, Functions

CONSTANTS AgInputs,     \* the requests listed
          AgBounds,     \* bucket bounds of the distributions
          AgSecond, AgMilli     \* microseconds in a second and in a millisecond

VARIABLES request, answer

agVars == <<request, answer>>

AgInt(n)      == [type |-> "int", num |-> n, den |-> 1]
AgDouble(n)   == [type |-> "double", num |-> n, den |-> 1]
AgFraction(n, d) == [type |-> "double", num |-> n, den |-> d]
AgDist(count, sum, counts) == [type |-> "dist", count |-> count, sum |-> sum, counts |-> counts]
AgText        == [type |-> "text"]

(* A value of a point, a point (time 0: without an end time; the others    *)
(* can all be read) and a request; how an aligner or a reducer works is    *)
(* its op and, for PERCENTILE, which.                                      *)
AgNumber  == [type : {"int"}, num : Int, den : {1}] \union
             [type : {"double"}, num : Int, den : Nat \ {0}]
AgDistribution == [type : {"dist"}, count : Nat, sum : Int,
                   counts : {c \in Seq(Nat) : Len(c) <= Len(AgBounds) + 1}]
AgValue   == AgNumber \union AgDistribution \union {AgText}
AgSeries  == [label : STRING, points : Seq([at : Nat, value : AgValue])]
AgHow     == [op : STRING, pct : 0..100]
AgRequest == [series : Seq(AgSeries), start : Nat, end : Nat, aligner : AgHow, period : Nat,
              reducer : AgHow, grouped : BOOLEAN]

ASSUME AggregationAssumption ==
  /\ AgBounds \in Seq(Int) /\ AgBounds # <<>>
  /\ \A i, j \in DOMAIN AgBounds : i <= j => AgBounds[i] <= AgBounds[j]
  /\ AgInputs \subseteq AgRequest
  /\ AgSecond \in Nat \ {0} /\ AgMilli \in Nat \ {0} /\ AgSecond % AgMilli = 0

AgLeq(a, b)  == a.num * b.den <= b.num * a.den
AgPlus(a, b) == AgFraction(a.num * b.den + b.num * a.den, a.den * b.den)

(* The sum of some values, and of some integers *)
AgTotal(values) ==
  LET sum[S \in SUBSET DOMAIN values] ==
        IF S = {} THEN AgDouble(0)
        ELSE LET i == CHOOSE i \in S : TRUE IN AgPlus(values[i], sum[S \ {i}])
  IN sum[DOMAIN values]
AgSum(numbers) == AgTotal([i \in DOMAIN numbers |-> AgInt(numbers[i])]).num

(* The members of S in an order, and the entries of s at the places I *)
AgArranged(S, before) ==
  CHOOSE p \in Bijection(1..Cardinality(S), S) :
    \A i, j \in DOMAIN p : i < j => <<p[i], p[j]>> \in before
AgUpwards(I)   == AgArranged(I, {x \in I \X I : x[1] < x[2]})
AgDownwards(I) == AgArranged(I, {x \in I \X I : x[1] > x[2]})
AgKept(s, I)   == LET places == AgUpwards(I) IN [n \in DOMAIN places |-> s[places[n]]]

AgOnly(values, types) == Restrict(values, {i \in DOMAIN values : values[i].type \in types})
AgValues(points, I)   == [i \in I |-> points[i].value]
AgTimed(points)       == {i \in DOMAIN points : points[i].at # 0}

------------------------------------------------------------------------------
(* _in_window keeps what has no time *)
AgInWindow(p, start, end) ==
  p.at # 0 => (start # 0 => p.at >= start) /\ (end # 0 => p.at <= end)

(* _quantile: between the two samples nearest to the rank *)
AgQuantile(nums, pct) ==
  LET I    == DOMAIN nums
      s    == AgArranged(I, {x \in I \X I : AgLeq(nums[x[1]], nums[x[2]])})
      rank == pct * (Cardinality(I) - 1)                  \* in hundredths
      low  == rank \div 100
      high == IF low + 1 < Cardinality(I) THEN low + 1 ELSE Cardinality(I) - 1
      lo   == nums[s[low + 1]]
      hi   == nums[s[high + 1]]
      part == rank - 100 * low
  IN AgFraction(lo.num * hi.den * (100 - part) + hi.num * lo.den * part, 100 * lo.den * hi.den)

(* _merge_distributions *)
AgMerge(dists) ==
  LET lengths == {Len(dists[i].counts) : i \in DOMAIN dists}
      longest == CHOOSE n \in lengths : \A m \in lengths : m <= n
      at(i, b) == IF b \in DOMAIN dists[i].counts THEN dists[i].counts[b] ELSE 0
  IN AgDist(AgSum([i \in DOMAIN dists |-> dists[i].count]),
            AgSum([i \in DOMAIN dists |-> dists[i].sum]),
            [b \in 1..longest |-> AgSum([i \in DOMAIN dists |-> at(i, b)])])

(* _distribution_percentile: the middle of the first bucket that reaches   *)
(* the rank; an open bucket stands for its one bound.                      *)
AgUpTo(counts, b)    == AgSum(Restrict(counts, {c \in DOMAIN counts : c <= b}))
AgReaches(d, pct, b) == 100 * AgUpTo(d.counts, b) >= pct * AgSum(d.counts)
AgBucket(d, pct)     == CHOOSE b \in DOMAIN d.counts :
                          AgReaches(d, pct, b) /\ \A c \in 1..b - 1 : ~ AgReaches(d, pct, c)
AgMiddle(b) ==
  LET lower == AgBounds[IF b \in 2..Len(AgBounds) + 1 THEN b - 1 ELSE 1]
      upper == IF b <= Len(AgBounds) THEN AgBounds[b] ELSE lower
  IN AgFraction(lower + upper, 2)
AgPercentile(d, pct) ==
  IF AgSum(d.counts) = 0 THEN AgFraction(d.sum, IF d.count = 0 THEN 1 ELSE d.count)
  ELSE AgMiddle(AgBucket(d, pct))

(* _combine: distributions if there are any, else numbers, else nothing *)
AgOfDists(dists, how) ==
  IF how.op = "PERCENTILE" THEN AgPercentile(AgMerge(dists), how.pct) ELSE AgMerge(dists)

AgOfNumbers(nums, how, period) ==
  LET typed(v) == IF \A i \in DOMAIN nums : nums[i].type = "int" THEN AgInt(v.num)
                  ELSE AgFraction(v.num, v.den)
      least == CHOOSE v \in Range(nums) : \A u \in Range(nums) : AgLeq(v, u)
      most  == CHOOSE v \in Range(nums) : \A u \in Range(nums) : AgLeq(u, v)
      sum   == AgTotal(nums)
      count == Cardinality(DOMAIN nums)
  IN CASE how.op = "PERCENTILE" -> AgQuantile(nums, how.pct)
       [] how.op = "MIN"   -> typed(least)
       [] how.op = "MAX"   -> typed(most)
       [] how.op = "COUNT" -> AgInt(count)
       [] how.op = "RATE" /\ period # 0 -> AgFraction(sum.num, sum.den * period)
       [] how.op \in {"SUM", "DELTA"} -> typed(sum)
       [] OTHER -> AgFraction(sum.num, sum.den * count)

AgCombine(values, how, period) ==
  LET dists == AgOnly(values, {"dist"})
      nums  == AgOnly(values, {"int", "double"})
  IN IF DOMAIN dists # {} THEN AgOfDists(dists, how)
     ELSE IF DOMAIN nums # {} THEN AgOfNumbers(nums, how, period)
     ELSE AgDouble(0)

(* The end of the bucket a moment falls into, counted back from base. *)
AgAhead(base, moment, period)     == base - ((base - moment + period - 1) \div period) * period   \* mutant
AgBucketEnd(base, moment, period) == base - ((base - moment) \div period) * period

AgPoint(end, value) == [at |-> end, value |-> value]
(* For each end in order, a point that combines the points with it *)
AgPoints(points, ends, order, how, period) ==
  LET of(e) == AgValues(points, {i \in DOMAIN ends : ends[i] = e})
  IN [n \in DOMAIN order |-> AgPoint(order[n], AgCombine(of(order[n]), how, period))]

(* _align_series: without an end of the window each point is its own base. *)
AgAlign(s, aligner, period, anchor) ==
  LET end(p) == IF anchor = 0 THEN p.at ELSE AgBucketEnd(anchor, p.at, period)
      ends   == [i \in AgTimed(s.points) |-> end(s.points[i])]
  IN IF aligner.op = "NONE" \/ period = 0 THEN s
     ELSE [label  |-> s.label,
           points |-> AgPoints(s.points, ends, AgDownwards(Range(ends)), aligner, period)]

(* _extract_field, _grouped_series: what a series keeps of its labels *)
AgGroup(s, grouped) == IF grouped THEN s.label ELSE ""

(* How a moment is spelled in RFC3339: to the second, the millisecond or   *)
(* the microsecond, whichever it needs; an aligned one skips the middle.   *)
AgUnit(t, aligned) ==
  IF t % AgSecond = 0 THEN AgSecond ELSE IF ~aligned /\ t % AgMilli = 0 THEN AgMilli ELSE 1
(* Strings are compared: the final "Z" comes after the point and after the *)
(* digits, so a moment sorts behind all that begin with its own digits.    *)
AgSpelledLater(a, b, aligned) ==
  LET last(t) == t + AgUnit(t, aligned)
  IN last(a) > last(b) \/ (last(a) = last(b) /\ AgUnit(a, aligned) > AgUnit(b, aligned))
AgBySpelling(I, aligned) == AgArranged(I, {x \in I \X I : AgSpelledLater(x[1], x[2], aligned)})

(* _reduce_series: by label, or all in one group; a point's place is that  *)
(* of its series and that within it.                                       *)
AgReduce(all, aligned, reducer, grouped) ==
  LET key(i)  == AgGroup(all[i], grouped)
      firsts  == AgUpwards({i \in DOMAIN all : \A j \in 1..i - 1 : key(j) # key(i)})
      points  == [x \in UNION {{i} \X DOMAIN all[i].points : i \in DOMAIN all} |->
                    all[x[1]].points[x[2]]]
      ends(k) == [x \in {x \in AgTimed(points) : key(x[1]) = k} |-> points[x].at]
      group(k) == AgPoints(points, ends(k), AgBySpelling(Range(ends(k)), aligned), reducer, 0)
  IN [n \in DOMAIN firsts |-> [label |-> key(firsts[n]), points |-> group(key(firsts[n]))]]

(* list_time_series *)
AgMatched(r) ==
  LET seen(s) == {i \in DOMAIN s.points : AgInWindow(s.points[i], r.start, r.end)}
      all     == [i \in DOMAIN r.series |->
                    [label |-> r.series[i].label,
                     points |-> AgKept(r.series[i].points, seen(r.series[i]))]]
  IN AgKept(all, {i \in DOMAIN all : all[i].points # <<>>})
AgAligned(r) ==
  LET m == AgMatched(r) IN [i \in DOMAIN m |-> AgAlign(m[i], r.aligner, r.period, r.end)]
AgAligns(r) == r.aligner.op # "NONE" /\ r.period # 0
AgListed(r) == IF r.reducer.op = "NONE" THEN AgAligned(r)
               ELSE AgReduce(AgAligned(r), AgAligns(r), r.reducer, r.grouped)

AggregationInit == request \in AgInputs /\ answer = <<>>
AggregationNext == answer = <<>> /\ answer' = <<AgListed(request)>> /\ UNCHANGED request
AggregationSpec == AggregationInit /\ [][AggregationNext]_agVars

------------------------------------------------------------------------------
AggregationTypeOK ==
  answer # <<>> => \A s \in Range(answer[1]) : \A p \in Range(s.points) :
    p.at \in Nat /\ p.value \in AgValue

(* What op makes of some values, said without saying how: of numbers,      *)
(* their sum, their rate, how many they are or something between them, of  *)
(* which the mean as many times is their sum; of distributions, one of as  *)
(* many samples, or a percentile between theirs.                           *)
AgBetween(S, v) == (\E a \in S : AgLeq(a, v)) /\ (\E b \in S : AgLeq(v, b))

AgSoundNumbers(nums, how, period, v) ==
  LET equal(a, b) == AgLeq(a, b) /\ AgLeq(b, a)
      count       == Cardinality(DOMAIN nums)
  IN CASE how.op = "SUM" \/ how.op = "DELTA" -> equal(v, AgTotal(nums))
       [] how.op = "RATE" /\ period # 0  -> equal(AgFraction(v.num * period, v.den), AgTotal(nums))
       [] how.op = "COUNT"               -> v.num = count
       [] OTHER -> /\ AgBetween(Range(nums), v)
                   /\ how.op = "MIN" => \A a \in Range(nums) : AgLeq(v, a)
                   /\ how.op = "MAX" => \A a \in Range(nums) : AgLeq(a, v)
                   /\ how.op \notin {"PERCENTILE", "MIN", "MAX"} =>
                        equal(AgFraction(v.num * count, v.den), AgTotal(nums))

AgSoundDists(values, dists, how, v) ==
  LET overall(n) == AgSum([i \in DOMAIN values |-> IF i \in DOMAIN dists THEN n[i] ELSE 0])
      samples    == [i \in DOMAIN dists |-> AgSum(dists[i].counts)]
      full       == {i \in DOMAIN dists : samples[i] > 0}
  IN IF how.op # "PERCENTILE"
       THEN /\ v.count = overall([i \in DOMAIN dists |-> dists[i].count])
            /\ AgSum(v.counts) = overall(samples)
       ELSE full # {} => AgBetween({AgPercentile(dists[i], how.pct) : i \in full}, v)

AgSound(values, how, period, v) ==
  LET dists == AgOnly(values, {"dist"})
      nums  == AgOnly(values, {"int", "double"})
  IN IF DOMAIN dists # {} THEN AgSoundDists(values, dists, how, v)
     ELSE IF DOMAIN nums # {} THEN AgSoundNumbers(nums, how, period, v)
     ELSE v.num = 0

AgNewestFirst(points) == \A i, j \in DOMAIN points : i < j => points[i].at > points[j].at

(* Alignment: with an end to the window, the buckets are of one width and  *)
(* reach back from it; every point of the window with a time is in exactly *)
(* one, and each shows what the aligner makes of exactly its points.       *)
AlignmentLaw(r, all) ==
  AgAligns(r) /\ r.end # 0 =>
    \A i \in DOMAIN all :
      LET points == AgMatched(r)[i].points
          inside(k, b) == b.at - r.period < points[k].at /\ points[k].at <= b.at
      IN /\ AgNewestFirst(all[i].points)
         /\ \A k \in AgTimed(points) :
              Cardinality({j \in DOMAIN all[i].points : inside(k, all[i].points[j])}) = 1
         /\ \A b \in Range(all[i].points) :
              /\ (r.end - b.at) % r.period = 0
              /\ LET places == {k \in AgTimed(points) : inside(k, b)}
                 IN /\ places # {}
                    /\ AgSound(AgValues(points, places), r.aligner, r.period, b.value)

(* Newest first, but a moment that others continue with more digits comes  *)
(* before those.                                                           *)
AgSpelledFirst(points, aligned) ==
  LET begins(i, j) == /\ points[i].at < points[j].at
                      /\ points[j].at < points[i].at + AgUnit(points[i].at, aligned)
  IN \A i, j \in DOMAIN points : i < j =>
       begins(i, j) \/ (points[i].at > points[j].at /\ ~begins(j, i))

(* Reduction: one series for each group, with one point for each end time  *)
(* at which a member has one, made of exactly the members' points there,   *)
(* in the order of the ends as they are spelled.                           *)
GroupLaw(r, all, s) ==
  LET members  == {i \in DOMAIN all : r.grouped => all[i].label = s.label}
      there(e) == UNION {{i} \X {j \in DOMAIN all[i].points : all[i].points[j].at = e} : i \in members}
      values(e) == [x \in there(e) |-> all[x[1]].points[x[2]].value]
  IN /\ AgSpelledFirst(s.points, AgAligns(r))
     /\ {p.at : p \in Range(s.points)} =
          (UNION {{p.at : p \in Range(all[i].points)} : i \in members}) \ {0}
     /\ \A b \in Range(s.points) : AgSound(values(b.at), r.reducer, 0, b.value)

ReductionLaw(r, reduced) ==
  LET all  == AgAligned(r)
      keys == {AgGroup(s, r.grouped) : s \in Range(all)}
  IN /\ {s.label : s \in Range(reduced)} = keys /\ Len(reduced) = Cardinality(keys)
     /\ \A s \in Range(reduced) : GroupLaw(r, all, s)

(* What list_time_series answers: points of known types that keep the laws *)
(* of alignment, and those of reduction if the request reduces.            *)
AggregationLaws ==
  answer # <<>> =>
    /\ AggregationTypeOK
    /\ AlignmentLaw(request, AgAligned(request))
    /\ IF request.reducer.op = "NONE" THEN answer[1] = AgAligned(request)
       ELSE ReductionLaw(request, answer[1])
==============================================================================
