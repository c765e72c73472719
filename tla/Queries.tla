------------------------------- MODULE Queries -------------------------------
(***************************************************************************)
(* Queries: how RunQuery of the Firestore and the Datastore emulator       *)
(* evaluates a query over the entries that list_collection or all() gave   *)
(* it: filter, one stable sort per order from the last to the first,       *)
(* offset, limit.  An entry is what it has at two paths; its number is its *)
(* place in the list.  What the client asks is chosen as it is looked at.  *)
(***************************************************************************)
EXTENDS Integers, Sequences, FiniteSets, Functions

CONSTANTS
  QyEntries,      \* what lists of entries may hold: functions from QyPaths
  QyFilters,      \* filters: [and |-> whether all parts must hold, parts |-> ...]
  QyLength,       \* bound: entries
  QyMaxOrders,    \* bound: sort criteria
  QyMaxOffset,    \* bound: offset
  QyLimits        \* limits that may be asked for

VARIABLES
  entries,        \* what is searched
  query,          \* filter, orders, offset and limit, as far as looked at
  rows,           \* the numbers of the entries that are left, in order
  qpc             \* "filter", "sort" or "done"

qyVars == <<entries, query, rows, qpc>>

QyPaths == {"a", "b"}
QyUnlimited == QyLength + 1

(* The Python value of a field: a list has elements, anything else n.      *)
QyScalar(type, n) == [type |-> type, n |-> n, elements |-> {}]
QyNone     == QyScalar("None", 0)
QyMissing  == QyScalar("missing", 0)
QyList(S)  == [type |-> "list", n |-> 0, elements |-> S]

(* Python: a bool is an int, other types are never equal and do not        *)
(* compare.                                                                *)
QyNumeric(x) == x.type \in {"bool", "int"}
QyEq(x, y) == x = y \/ (QyNumeric(x) /\ QyNumeric(y) /\ x.n = y.n)
QyIn(x, S) == \E y \in S : QyEq(x, y)

(* _safe_cmp *)
QyComparable(x, y) == (QyNumeric(x) /\ QyNumeric(y)) \/ (x.type = "str" /\ y.type = "str")

(* _match_property of the Datastore; Firestore's _match_field and           *)
(* _match_unary know arrays and null besides.                              *)
QyMatchProperty(lhs, op, rhs) ==
  CASE op = "=="     -> lhs # QyMissing /\ QyEq(lhs, rhs)
    [] op = "!="     -> lhs # QyMissing /\ ~ QyEq(lhs, rhs)
    [] op = "in"     -> lhs # QyMissing /\ QyIn(lhs, rhs.elements)
    [] op = "not_in" -> rhs.type = "list" /\ lhs # QyMissing /\ ~ QyIn(lhs, rhs.elements)
    [] OTHER -> /\ QyComparable(lhs, rhs)
                /\ CASE op = "<" -> lhs.n < rhs.n [] op = "<=" -> lhs.n <= rhs.n
                     [] op = ">" -> lhs.n > rhs.n [] op = ">=" -> lhs.n >= rhs.n
QyMatchField(lhs, op, rhs) ==
  CASE op = "array_contains"     -> QyIn(rhs, lhs.elements)
    [] op = "array_contains_any" -> \E y \in rhs.elements : QyIn(y, lhs.elements)
    [] op = "is_null"            -> lhs = QyNone
    [] op = "is_not_null"        -> lhs \notin {QyNone, QyMissing}
    [] OTHER                     -> QyMatchProperty(lhs, op, rhs)

(* _matches, _match_filter: one part, or a composite                       *)
QyPart(path, op, value) == [path |-> path, op |-> op, value |-> value]
QyMatches(e, filter) ==
  IF filter.and THEN \A p \in filter.parts : QyMatchField(e[p.path], p.op, p.value)
                ELSE \E p \in filter.parts : QyMatchField(e[p.path], p.op, p.value)

(* _rank, _order_key: an absent field sorts like None, lists all alike     *)
QyRankOf == [None |-> 0, missing |-> 0, bool |-> 1, int |-> 2, str |-> 4, list |-> 9]
QyKey(e, order) == <<QyRankOf[e[order.path].type], e[order.path].n>>
QyLess(k, l) == k[1] < l[1] \/ (k[1] = l[1] /\ k[2] < l[2])

QyOrders == [path : QyPaths, descending : BOOLEAN]

ASSUME QueriesAssumption ==
  /\ QyLength \in Nat /\ QyMaxOrders \in Nat /\ QyMaxOffset \in Nat /\ QyLimits \subseteq Nat
  /\ \A e \in QyEntries : \A p \in QyPaths : e[p].type \in DOMAIN QyRankOf /\ e[p].n \in Int

(* What there is, one before the other; before tells any two apart.        *)
QyArranged(S, before) ==
  CHOOSE p \in Bijection(1..Cardinality(S), S) :
    \A i, j \in DOMAIN p : i < j => <<p[i], p[j]>> \in before

------------------------------------------------------------------------------
QueriesInit ==
  /\ \E n \in 0..QyLength : entries \in [1..n -> QyEntries]
  /\ query = [filter |-> [and |-> TRUE, parts |-> {}], orders |-> <<>>, offset |-> 0,
              limit |-> QyUnlimited]
  /\ rows = <<>> /\ qpc = "filter"

(* Those that match stay in the order of the list. *)
QyFilter(filter) ==
  /\ qpc = "filter"
  /\ query' = [query EXCEPT !.filter = filter]
  /\ rows' = LET found == {i \in DOMAIN entries : QyMatches(entries[i], filter)}
             IN QyArranged(found, {ij \in found \X found : ij[1] < ij[2]})
  /\ qpc' = "sort" /\ UNCHANGED entries

(* list.sort(key, reverse): stable, equal keys keep their order both ways  *)
QyBelow(i, j, order) ==
  IF order.descending THEN QyLess(QyKey(entries[j], order), QyKey(entries[i], order))
                      ELSE QyLess(QyKey(entries[i], order), QyKey(entries[j], order))
QyTied(i, j, order) == QyKey(entries[i], order) = QyKey(entries[j], order)
QyReversed(s, order) ==                              \* mutant
  {ab \in (DOMAIN s) \X (DOMAIN s) :
     \/ QyBelow(s[ab[1]], s[ab[2]], order)
     \/ /\ QyTied(s[ab[1]], s[ab[2]], order)
        /\ IF order.descending THEN ab[1] > ab[2] ELSE ab[1] < ab[2]}
QyStably(s, order) ==
  {ab \in (DOMAIN s) \X (DOMAIN s) :
     \/ QyBelow(s[ab[1]], s[ab[2]], order)
     \/ QyTied(s[ab[1]], s[ab[2]], order) /\ ab[1] < ab[2]}
QySort(s, order) ==
  LET place == QyArranged(DOMAIN s, QyStably(s, order))
  IN [a \in DOMAIN s |-> s[place[a]]]

(* Orders are gone through from the last to the first. *)
QyPass(order) ==
  /\ qpc = "sort" /\ Len(query.orders) < QyMaxOrders
  /\ query' = [query EXCEPT !.orders = <<order>> \o @]
  /\ rows' = QySort(rows, order)
  /\ UNCHANGED <<entries, qpc>>

QySlice(offset, limit) ==
  /\ qpc = "sort"
  /\ query' = [query EXCEPT !.offset = offset, !.limit = limit]
  /\ rows' = LET rest == SubSeq(rows, offset + 1, Len(rows))
             IN IF limit < Len(rest) THEN SubSeq(rest, 1, limit) ELSE rest
  /\ qpc' = "done" /\ UNCHANGED entries

QueriesNext ==
  \/ \E filter \in QyFilters : QyFilter(filter)
  \/ \E order \in QyOrders : QyPass(order)
  \/ \E offset \in 0..QyMaxOffset, limit \in QyLimits \union {QyUnlimited} : QySlice(offset, limit)

QueriesSpec == QueriesInit /\ [][QueriesNext]_qyVars

------------------------------------------------------------------------------
QueriesTypeOK ==
  /\ Len(entries) <= QyLength /\ \A i \in DOMAIN entries : entries[i] \in QyEntries
  /\ \A i \in DOMAIN rows : rows[i] \in DOMAIN entries
  /\ \A i \in DOMAIN query.orders : query.orders[i] \in QyOrders
  /\ qpc \in {"filter", "sort", "done"}

(* Entry i comes before j: the first order that tells them apart decides,  *)
(* else the place they had.                                                *)
QyPrecedes(i, j) ==
  LET orders == query.orders
  IN \/ \E k \in DOMAIN orders : /\ QyBelow(i, j, orders[k])
                                 /\ \A l \in 1..(k - 1) : QyTied(i, j, orders[l])
     \/ i < j /\ \A k \in DOMAIN orders : QyTied(i, j, orders[k])

(* Several passes of a stable sort amount to one order in which the first  *)
(* criterion counts most and ties keep the list's order in both            *)
(* directions; offset and limit cut that order, after the filter.          *)
QueryAnswers ==
  qpc = "done" =>
    LET found == {i \in DOMAIN entries : QyMatches(entries[i], query.filter)}
        Rank(i) == Cardinality({j \in found : QyPrecedes(j, i)})
        cut == {i \in found : Rank(i) >= query.offset /\ Rank(i) < query.offset + query.limit}
    IN /\ {rows[i] : i \in DOMAIN rows} = cut
       /\ \A i \in DOMAIN rows : Rank(rows[i]) = query.offset + i - 1
==============================================================================
