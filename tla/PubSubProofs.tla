---------------------------- MODULE PubSubProofs -----------------------------
(***************************************************************************)
(* Theorems about PubSub for any topics, subscriptions and bounds.         *)
(***************************************************************************)
EXTENDS PubSub, SequenceTheorems, TLAPS

------------------------------------------------------------------------------
(* What the helpers return. *)

LEMMA LeasesFacts ==
  ASSUME NEW n \in Nat
  PROVE  /\ NoLeases \in Leases(n)
         /\ \A f \in Leases(n) : /\ f = [a \in DOMAIN f |-> f[a]]
                                 /\ DOMAIN f \subseteq 1..n
                                 /\ \A a \in DOMAIN f : f[a] \in 1..n
         /\ \A A : \A f \in [A -> 1..n] : A \subseteq 1..n => f \in Leases(n)
  BY DEF Leases, NoLeases

(* Types grow with the counter. *)
LEMMA Growing ==
  ASSUME NEW m \in Nat, NEW n \in Nat, m <= n
  PROVE  /\ 1..m \subseteq 1..n
         /\ \A q \in Seq(1..m) : q \in Seq(1..n)
         /\ \A f \in Leases(m) : f \in Leases(n)
<1>1. 1..m \subseteq 1..n
  OBVIOUS
<1>2. \A q \in Seq(1..m) : q \in Seq(1..n)
  BY <1>1, SeqMonotonic
<1>3. ASSUME NEW f \in Leases(m) PROVE f \in Leases(n)
  BY <1>1 DEF Leases
<1> QED
  BY <1>1, <1>2, <1>3

(* What a publish of n messages adds to a backlog: new ids, in order.      *)
LEMMA RejectedFacts ==
  ASSUME counter \in Nat, NEW n \in Nat, NEW q \in Rejected(n)
  PROVE  /\ q \in Seq((counter + 1)..(counter + n))
         /\ \A x, y \in DOMAIN q : x < y => q[x] < q[y]
<1>1. PICK k \in 0..n : q \in [1..k -> (counter + 1)..(counter + n)]
  BY DEF Rejected
<1> QED
  BY <1>1, SeqDef DEF Rejected

(* A pull takes no more than there is. *)
LEMMA TakenFacts ==
  ASSUME NEW s \in SubNames, NEW max \in Nat, backlog[s] \in Seq(1..counter)
  PROVE  Taken(s, max) \in 0..Len(backlog[s])
  BY LenProperties DEF Taken

(* Some order of a set: a sequence of its elements, each of them once.     *)
LEMMA OrdersFacts ==
  ASSUME NEW S, NEW q \in Orders(S)
  PROVE  /\ q \in Seq(S)
         /\ Values(q) = S
         /\ \A x, y \in DOMAIN q : q[x] = q[y] => x = y
<1>1. PICK k \in 0..MaxCounter : q \in [1..k -> S]
  BY DEF Orders
<1>2. k \in Nat
  BY PubSubAssumption
<1> QED
  BY <1>1, <1>2, SeqDef DEF Orders

(* What a pull leaves of a backlog. *)
LEMMA RestFacts ==
  ASSUME NEW s \in SubNames, NEW n, counter \in Nat,
         backlog[s] \in Seq(1..counter), n \in 0..Len(backlog[s])
  PROVE  /\ Rest(s, n) \in Seq(1..counter)
         /\ DOMAIN Rest(s, n) = 1..(Len(backlog[s]) - n)
         /\ \A x \in DOMAIN Rest(s, n) : /\ x + n \in DOMAIN backlog[s]
                                         /\ Rest(s, n)[x] = backlog[s][x + n]
<1> DEFINE b == backlog[s]
<1>1. Len(b) \in Nat /\ DOMAIN b = 1..Len(b) /\ \A k \in 1..Len(b) : b[k] \in 1..counter
  BY LenProperties
<1>2. \A k \in (n + 1)..Len(b) : b[k] \in 1..counter
  BY <1>1
<1>3. /\ Rest(s, n) \in Seq(1..counter)
      /\ Len(Rest(s, n)) = IF n + 1 <= Len(b) THEN Len(b) - (n + 1) + 1 ELSE 0
      /\ \A k \in 1..(Len(b) - (n + 1) + 1) : Rest(s, n)[k] = b[n + 1 + k - 1]
  BY <1>1, <1>2, SubSeqProperties DEF Rest
<1>4. DOMAIN Rest(s, n) = 1..(Len(b) - n)
  BY <1>1, <1>3, LenProperties
<1>5. ASSUME NEW x \in 1..(Len(b) - n)
      PROVE  x + n \in 1..Len(b) /\ Rest(s, n)[x] = b[x + n]
  <2>1. /\ x \in 1..(Len(b) - (n + 1) + 1) /\ n + 1 + x - 1 = x + n
        /\ x + n \in 1..Len(b)
    BY <1>1
  <2> QED
    BY <1>3, <2>1
<1> QED
  BY <1>1, <1>3, <1>4, <1>5

(* What a nack puts in front of a backlog: the messages of the leases it   *)
(* names, each of them as often as it is leased.                           *)
LEMMA BackwardsFacts ==
  ASSUME NEW s \in SubNames, NEW S, NEW order \in Orders(S), counter \in Nat,
         outstanding[s] \in Leases(counter), S \subseteq DOMAIN outstanding[s]
  PROVE  /\ Backwards(s, order) \in Seq(1..counter)
         /\ Values(Backwards(s, order)) = {outstanding[s][a] : a \in S}
         /\ (\A a, b \in S : outstanding[s][a] = outstanding[s][b] => a = b) =>
              \A x, y \in DOMAIN Backwards(s, order) :
                Backwards(s, order)[x] = Backwards(s, order)[y] => x = y
<1> DEFINE o == outstanding[s]
           l == Len(order)
           e(k) == o[order[l + 1 - k]]
<1>1. /\ l \in Nat /\ DOMAIN order = 1..l
      /\ \A k \in 1..l : order[k] \in S
      /\ \A x, y \in 1..l : order[x] = order[y] => x = y
  BY OrdersFacts, LenProperties
<1>2. \A a \in S : o[a] \in 1..counter
  BY LeasesFacts
<1>3. \A k \in 1..l : l + 1 - k \in 1..l
  BY <1>1
<1>4. Backwards(s, order) = [k \in 1..l |-> e(k)]
  BY DEF Backwards
<1>5. Backwards(s, order) \in [1..l -> 1..counter]
  BY <1>1, <1>2, <1>3, <1>4
<1>6. Backwards(s, order) \in Seq(1..counter)
  BY <1>1, <1>5, SeqDef
<1>7. ASSUME NEW a \in S PROVE \E k \in 1..l : Backwards(s, order)[k] = o[a]
  <2>1. PICK j \in 1..l : order[j] = a
    BY <1>1, OrdersFacts DEF Values
  <2> QED
    BY <1>1, <1>3, <1>4, <2>1
<1>8. DOMAIN Backwards(s, order) = 1..l /\ \A k \in 1..l : Backwards(s, order)[k] = e(k)
  BY <1>4
<1> HIDE DEF o, l
<1>9. \A k \in 1..l : e(k) \in {o[a] : a \in S}
  BY <1>1, <1>3
<1>10. Values(Backwards(s, order)) = {Backwards(s, order)[k] : k \in 1..l}
  BY <1>8 DEF Values
<1>11. Values(Backwards(s, order)) = {o[a] : a \in S}
  BY <1>7, <1>8, <1>9, <1>10
<1>12. ASSUME \A a, b \in S : o[a] = o[b] => a = b,
             NEW x \in 1..l, NEW y \in 1..l, e(x) = e(y)
      PROVE  x = y
  <2>1. order[l + 1 - x] = order[l + 1 - y]
    BY <1>1, <1>3, <1>12
  <2>2. l + 1 - x = l + 1 - y
    BY <1>1, <1>3, <2>1
  <2> QED
    BY <1>1, <2>2
<1> QED
  BY <1>6, <1>8, <1>11, <1>12 DEF o

------------------------------------------------------------------------------
(* Type correctness *)

LEMMA InitType == Init => TypeOK
<1>1. /\ <<>> \in Seq(1..0) /\ NoLeases \in Leases(0)
  BY EmptySeq, LeasesFacts
<1> QED
  BY <1>1 DEF Init, TypeOK

LEMMA PublishType ==
  ASSUME TypeOK, NEW t \in TopicNames, NEW n \in Nat, Publish(t, n)
  PROVE  TypeOK'
<1>1. /\ counter \in Nat /\ counter' = counter + n /\ counter' \in Nat
      /\ counter <= counter'
  BY DEF Publish, Draw, TypeOK
<1>2. PICK part \in [SubNames -> Rejected(n)] :
        backlog' = [s \in SubNames |->
          IF Subscribed(s, t) THEN backlog[s] \o part[s] ELSE backlog[s]]
  BY DEF Publish
<1>3. ASSUME NEW s \in SubNames
      PROVE  /\ backlog[s] \in Seq(1..counter')
             /\ part[s] \in Seq(1..counter')
  <2>1. part[s] \in Seq((counter + 1)..(counter + n))
    BY <1>1, <1>2, RejectedFacts
  <2>2. (counter + 1)..(counter + n) \subseteq 1..counter'
    BY <1>1
  <2>3. backlog[s] \in Seq(1..counter)
    BY DEF TypeOK
  <2> QED
    BY <1>1, <2>1, <2>2, <2>3, SeqMonotonic, Growing
<1>4. backlog' \in [SubNames -> Seq(1..counter')]
  BY <1>2, <1>3, ConcatProperties
<1>5. outstanding' \in [SubNames -> Leases(counter')]
  BY <1>1, Growing DEF Publish, TypeOK
<1>6. 1..counter \subseteq 1..counter' /\ (counter + 1)..(counter + n) \subseteq 1..counter'
  BY <1>1
<1>7. published' \subseteq (1..counter') \X TopicNames
  BY <1>6 DEF Publish, TypeOK
<1>8. leases' \subseteq SubNames \X (1..counter') \X (1..counter')
  BY <1>6 DEF Publish, TypeOK
<1> QED
  BY <1>1, <1>4, <1>5, <1>7, <1>8 DEF Publish, TypeOK

LEMMA PullType ==
  ASSUME TypeOK, NEW s \in SubNames, NEW max \in Nat, Pull(s, max)
  PROVE  TypeOK'
<1> DEFINE n    == Taken(s, max)
           acks == (counter + 1)..(counter + n)
           new  == [a \in DOMAIN outstanding[s] \union acks |->
                      IF a \in acks THEN backlog[s][a - counter]
                                    ELSE outstanding[s][a]]
<1>1. /\ counter \in Nat /\ backlog[s] \in Seq(1..counter)
      /\ outstanding[s] \in Leases(counter)
  BY DEF TypeOK
<1>2. n \in 0..Len(backlog[s]) /\ Len(backlog[s]) \in Nat /\ n \in Nat
  <2>1. Len(backlog[s]) \in Nat
    BY <1>1, LenProperties
  <2>2. n \in 0..Len(backlog[s])
    BY <1>1, TakenFacts
  <2> QED
    BY <2>1, <2>2
<1>3. counter' = counter + n /\ counter' \in Nat /\ counter <= counter'
  BY <1>1, <1>2 DEF Pull, Draw
<1>4. /\ backlog' = [backlog EXCEPT ![s] = Rest(s, n)]
      /\ outstanding' = [outstanding EXCEPT ![s] = new]
      /\ leases' = leases \union {<<s, a, backlog[s][a - counter]>> : a \in acks}
  BY DEF Pull
<1> HIDE DEF n
<1>5. \A a \in acks : a \in 1..counter' /\ backlog[s][a - counter] \in 1..counter'
  <2> SUFFICES ASSUME NEW a \in acks
               PROVE  a \in 1..counter' /\ backlog[s][a - counter] \in 1..counter'
    OBVIOUS
  <2>1. a - counter \in 1..Len(backlog[s]) /\ a \in 1..counter'
    BY <1>1, <1>2, <1>3
  <2> QED
    BY <1>1, <1>3, <2>1, ElementOfSeq
<1>6. new \in Leases(counter')
  <2>1. /\ DOMAIN outstanding[s] \subseteq 1..counter'
        /\ \A a \in DOMAIN outstanding[s] : outstanding[s][a] \in 1..counter'
    BY <1>1, <1>3, LeasesFacts
  <2>2. new \in [DOMAIN outstanding[s] \union acks -> 1..counter']
    BY <1>5, <2>1
  <2> QED
    BY <1>3, <1>5, <2>1, <2>2, LeasesFacts
<1>7. outstanding' \in [SubNames -> Leases(counter')]
  BY <1>1, <1>3, <1>4, <1>6, Growing DEF TypeOK
<1>8. Rest(s, n) \in Seq(1..counter')
  BY <1>1, <1>2, <1>3, RestFacts, Growing
<1>9. backlog' \in [SubNames -> Seq(1..counter')]
  BY <1>1, <1>3, <1>4, <1>8, Growing DEF TypeOK
<1>10. 1..counter \subseteq 1..counter'
  BY <1>1, <1>3
<1>11. leases' \subseteq SubNames \X (1..counter') \X (1..counter')
  BY <1>4, <1>5, <1>10 DEF TypeOK
<1>12. published' \subseteq (1..counter') \X TopicNames
  BY <1>10 DEF Pull, TypeOK
<1> QED
  BY <1>3, <1>7, <1>9, <1>11, <1>12 DEF Pull, TypeOK

(* Ending leases leaves leases of the same type. *)
LEMMA EndLeasesType ==
  ASSUME TypeOK, NEW s \in SubNames, NEW ids, EndLeases(s, ids)
  PROVE  outstanding' \in [SubNames -> Leases(counter)]
<1> DEFINE f == outstanding[s]
           g == [a \in DOMAIN f \ ids |-> f[a]]
<1>1. f \in Leases(counter) /\ counter \in Nat
  BY DEF TypeOK
<1>2. g \in [DOMAIN f \ ids -> 1..counter] /\ DOMAIN f \ ids \subseteq 1..counter
  BY <1>1, LeasesFacts
<1>3. g \in Leases(counter)
  BY <1>1, <1>2, LeasesFacts
<1> QED
  BY <1>3 DEF EndLeases, TypeOK

LEMMA NackType ==
  ASSUME TypeOK, NEW s \in SubNames, NEW ids, Nack(s, ids)
  PROVE  TypeOK'
<1>1. PICK order \in Orders(ids \intersect DOMAIN outstanding[s]) :
        PutFirst(s, order)
  BY DEF Nack
<1>2. Backwards(s, order) \in Seq(1..counter)
  BY BackwardsFacts DEF TypeOK
<1>3. backlog' \in [SubNames -> Seq(1..counter)]
  BY <1>1, <1>2, ConcatProperties DEF PutFirst, TypeOK
<1> QED
  BY <1>3, EndLeasesType DEF Nack, TypeOK

(* Every step keeps the types. *)
LEMMA StepType == TypeOK /\ [Next]_vars => TypeOK'
<1> SUFFICES ASSUME TypeOK, [Next]_vars PROVE TypeOK'
  OBVIOUS
<1>0. /\ counter \in Nat /\ <<>> \in Seq(1..counter) /\ <<>> \in Seq(1..0)
      /\ NoLeases \in Leases(counter) /\ NoLeases \in Leases(0)
  BY EmptySeq, LeasesFacts DEF TypeOK
<1>1. ASSUME NEW t \in TopicNames, CreateTopic(t) \/ DeleteTopic(t) PROVE TypeOK'
  BY <1>1 DEF CreateTopic, DeleteTopic, TypeOK
<1>2. ASSUME NEW s \in SubNames, NEW t \in TopicNames, CreateSubscription(s, t)
      PROVE  TypeOK'
  BY <1>0, <1>2 DEF CreateSubscription, TypeOK
<1>3. ASSUME NEW s \in SubNames, DeleteSubscription(s) PROVE TypeOK'
  BY <1>0, <1>3 DEF DeleteSubscription, TypeOK
<1>4. ASSUME NEW s \in SubNames, RegisterHandler(s) PROVE TypeOK'
  BY <1>4 DEF RegisterHandler, TypeOK
<1>5. ASSUME NEW t \in TopicNames, NEW n \in 0..MaxBatch, Publish(t, n)
      PROVE  TypeOK'
  BY <1>5, PublishType, PubSubAssumption
<1>6. ASSUME NEW s \in SubNames, NEW max \in 0..MaxPull, Pull(s, max)
      PROVE  TypeOK'
  BY <1>6, PullType, PubSubAssumption
<1>7. ASSUME NEW s \in SubNames, NEW ids, Acknowledge(s, ids) PROVE TypeOK'
  <2>1. outstanding' \in [SubNames -> Leases(counter)]
    BY <1>7, EndLeasesType DEF Acknowledge
  <2> QED
    BY <1>7, <2>1 DEF Acknowledge, TypeOK
<1>8. ASSUME NEW s \in SubNames, NEW ids, Nack(s, ids) PROVE TypeOK'
  BY <1>8, NackType
<1>9. CASE Reset
  BY <1>0, <1>9 DEF Reset, TypeOK
<1>10. CASE UNCHANGED vars
  BY <1>10 DEF vars, state, TypeOK
<1> QED
  BY <1>1, <1>2, <1>3, <1>4, <1>5, <1>6, <1>7, <1>8, <1>9, <1>10 DEF Next

(* Every state of the backend is well formed. *)
THEOREM TypeCorrect == Spec => []TypeOK
  BY InitType, StepType, PTL DEF Spec

------------------------------------------------------------------------------
(* Ack ids *)

(* A pull issues ack ids that no lease has ever had. *)
LEMMA PullAcks ==
  ASSUME TypeOK, AckIdNamesOneLease,
         NEW s \in SubNames, NEW max \in Nat, Pull(s, max)
  PROVE  AckIdNamesOneLease'
<1> DEFINE acks == (counter + 1)..(counter + Taken(s, max))
           lease(a) == <<s, a, backlog[s][a - counter]>>
<1>1. /\ leases' = leases \union {lease(a) : a \in acks}
      /\ outstanding' = [outstanding EXCEPT ![s] =
           [a \in DOMAIN outstanding[s] \union acks |->
              IF a \in acks THEN backlog[s][a - counter] ELSE outstanding[s][a]]]
  BY DEF Pull
<1>2. \A l \in leases : l[2] \notin acks
  <2>1. \A l \in leases : l[2] \in 1..counter /\ counter \in Nat
    BY DEF TypeOK
  <2>2. \A a \in acks : a \notin 1..counter
    BY DEF TypeOK
  <2> QED
    BY <2>1, <2>2
<1> HIDE DEF acks
<1>3. ASSUME NEW l1 \in leases', NEW l2 \in leases', l1[2] = l2[2] PROVE l1 = l2
  <2>1. CASE l1 \in leases /\ l2 \in leases
    BY <1>3, <2>1 DEF AckIdNamesOneLease
  <2>2. CASE l1 \notin leases
    <3>1. PICK a \in acks : l1 = lease(a)
      BY <1>1, <2>2
    <3>2. l2 \notin leases
      BY <1>2, <1>3, <3>1
    <3>3. PICK b \in acks : l2 = lease(b)
      BY <1>1, <3>2
    <3> QED
      BY <1>3, <3>1, <3>3
  <2>3. CASE l2 \notin leases
    <3>1. PICK b \in acks : l2 = lease(b)
      BY <1>1, <2>3
    <3>2. l1 \notin leases
      BY <1>2, <1>3, <3>1
    <3> QED
      BY <2>2, <3>2
  <2> QED
    BY <2>1, <2>2, <2>3
<1>4. ASSUME NEW r \in SubNames, NEW a \in DOMAIN outstanding'[r]
      PROVE  <<r, a, outstanding'[r][a]>> \in leases'
  <2>1. CASE r = s /\ a \in acks
    <3>1. outstanding'[r][a] = backlog[s][a - counter]
      BY <1>1, <1>4, <2>1 DEF TypeOK
    <3> QED
      BY <1>1, <2>1, <3>1
  <2>2. CASE ~(r = s /\ a \in acks)
    <3>1. a \in DOMAIN outstanding[r] /\ outstanding'[r][a] = outstanding[r][a]
      BY <1>1, <1>4, <2>2 DEF TypeOK
    <3> QED
      BY <1>1, <3>1 DEF AckIdNamesOneLease
  <2> QED
    BY <2>1, <2>2
<1> QED
  BY <1>3, <1>4 DEF AckIdNamesOneLease

(* Where no lease is issued it is enough that none is invented. *)
LEMMA KeptAcks ==
  ASSUME TypeOK, AckIdNamesOneLease, leases' = leases,
         \A s \in SubNames : \A a \in DOMAIN outstanding'[s] :
           a \in DOMAIN outstanding[s] /\ outstanding'[s][a] = outstanding[s][a]
  PROVE  AckIdNamesOneLease'
  BY DEF AckIdNamesOneLease

LEMMA StepAcks == TypeOK /\ AckIdNamesOneLease /\ [Next]_vars => AckIdNamesOneLease'
<1> SUFFICES ASSUME TypeOK, AckIdNamesOneLease, [Next]_vars
             PROVE  AckIdNamesOneLease'
  OBVIOUS
<1>1. DOMAIN NoLeases = {}
  BY DEF NoLeases
<1>2. CASE UNCHANGED <<outstanding, leases>>
  BY <1>2, KeptAcks
<1>3. ASSUME NEW s \in SubNames, leases' = leases,
             outstanding' = [outstanding EXCEPT ![s] = NoLeases]
      PROVE  AckIdNamesOneLease'
  BY <1>1, <1>3, KeptAcks DEF TypeOK
<1>4. ASSUME NEW s \in SubNames, NEW ids, leases' = leases, EndLeases(s, ids)
      PROVE  AckIdNamesOneLease'
  <2>1. \A r \in SubNames : \A a \in DOMAIN outstanding'[r] :
          a \in DOMAIN outstanding[r] /\ outstanding'[r][a] = outstanding[r][a]
    BY <1>4 DEF EndLeases, TypeOK
  <2> QED
    BY <1>4, <2>1, KeptAcks
<1>5. CASE Reset
  BY <1>1, <1>5 DEF Reset, AckIdNamesOneLease
<1>6. ASSUME NEW s \in SubNames, NEW max \in 0..MaxPull, Pull(s, max)
      PROVE  AckIdNamesOneLease'
  BY <1>6, PullAcks, PubSubAssumption
<1> QED
  BY <1>2, <1>3, <1>4, <1>5, <1>6
  DEF Next, CreateTopic, DeleteTopic, CreateSubscription, DeleteSubscription,
      RegisterHandler, Publish, Acknowledge, Nack, vars, state

(* An ack id names one lease for as long as the state lives, so a late ack *)
(* or nack hits the lease it was issued for or nothing.                    *)
THEOREM AckIdsNameOneLease == Spec => []AckIdNamesOneLease
<1>1. Init => AckIdNamesOneLease
  BY DEF Init, AckIdNamesOneLease, NoLeases
<1> QED
  BY <1>1, StepAcks, TypeCorrect, PTL DEF Spec

------------------------------------------------------------------------------
(* One copy of each message *)

Once(q) == \A x, y \in DOMAIN q : q[x] = q[y] => x = y

(* Two sequences without repetitions and without a common element have a   *)
(* concatenation without repetitions.                                      *)
LEMMA ConcatOnce ==
  ASSUME NEW S, NEW p \in Seq(S), NEW q \in Seq(S)
  PROVE  /\ Values(p \o q) = Values(p) \union Values(q)
         /\ Once(p) /\ Once(q) /\ Values(p) \intersect Values(q) = {} => Once(p \o q)
<1> DEFINE m == Len(p)
           n == Len(q)
<1>1. /\ m \in Nat /\ n \in Nat /\ DOMAIN p = 1..m /\ DOMAIN q = 1..n
      /\ DOMAIN (p \o q) = 1..(m + n)
      /\ \A k \in 1..(m + n) : (p \o q)[k] = IF k <= m THEN p[k] ELSE q[k - m]
  BY ConcatProperties, LenProperties
<1> HIDE DEF m, n
<1>2. \A k \in 1..(m + n) : IF k <= m THEN k \in 1..m ELSE k - m \in 1..n
  BY <1>1
<1>3. Values(p \o q) \subseteq Values(p) \union Values(q)
  BY <1>1, <1>2 DEF Values
<1>4. Values(p) \subseteq Values(p \o q)
  <2>1. \A k \in 1..m : k \in 1..(m + n) /\ (p \o q)[k] = p[k]
    BY <1>1
  <2> QED
    BY <1>1, <2>1 DEF Values
<1>5. Values(q) \subseteq Values(p \o q)
  <2>1. \A k \in 1..n : k + m \in 1..(m + n) /\ (p \o q)[k + m] = q[k]
    BY <1>1
  <2> QED
    BY <1>1, <2>1 DEF Values
<1>6. ASSUME Once(p), Once(q), Values(p) \intersect Values(q) = {},
             NEW x \in 1..(m + n), NEW y \in 1..(m + n), (p \o q)[x] = (p \o q)[y]
      PROVE  x = y
  <2>1. CASE x <= m /\ y <= m
    BY <1>1, <1>2, <1>6, <2>1 DEF Once
  <2>2. CASE x > m /\ y > m
    <3>1. q[x - m] = q[y - m] /\ x - m \in 1..n /\ y - m \in 1..n
      BY <1>1, <1>2, <1>6, <2>2
    <3>2. x - m = y - m
      BY <1>1, <1>6, <3>1 DEF Once
    <3> QED
      BY <1>1, <3>2
  <2>3. CASE x <= m /\ y > m
    <3>1. p[x] = q[y - m] /\ x \in 1..m /\ y - m \in 1..n
      BY <1>1, <1>2, <1>6, <2>3
    <3> QED
      BY <1>1, <1>6, <3>1 DEF Values
  <2>4. CASE x > m /\ y <= m
    <3>1. p[y] = q[x - m] /\ y \in 1..m /\ x - m \in 1..n
      BY <1>1, <1>2, <1>6, <2>4
    <3> QED
      BY <1>1, <1>6, <3>1 DEF Values
  <2> QED
    BY <1>1, <2>1, <2>2, <2>3, <2>4
<1> QED
  BY <1>1, <1>3, <1>4, <1>5, <1>6 DEF Once

(* OneCopy, one subscription at a time. *)
OneCopyIn(q, f) == Once(q) /\ Once(f) /\ Values(q) \intersect Values(f) = {}

LEMMA OneCopySplit == OneCopy <=> \A s \in SubNames : OneCopyIn(backlog[s], outstanding[s])
  BY DEF OneCopy, OneCopyIn, Once, Values

LEMMA NothingTwice == OneCopyIn(<<>>, NoLeases)
  BY DEF OneCopyIn, Once, Values, NoLeases

(* New ids are above the counter, so none of them is held already. *)
LEMMA PublishOnce ==
  ASSUME TypeOK, OneCopy, NEW t \in TopicNames, NEW n \in Nat, Publish(t, n)
  PROVE  OneCopy'
<1>1. PICK part \in [SubNames -> Rejected(n)] :
        backlog' = [s \in SubNames |->
          IF Subscribed(s, t) THEN backlog[s] \o part[s] ELSE backlog[s]]
  BY DEF Publish
<1>2. outstanding' = outstanding
  BY DEF Publish
<1>3. ASSUME NEW s \in SubNames PROVE OneCopyIn(backlog'[s], outstanding'[s])
  <2>1. OneCopyIn(backlog[s], outstanding[s])
    BY OneCopySplit
  <2>2. CASE ~Subscribed(s, t)
    BY <1>1, <1>2, <2>1, <2>2
  <2>3. CASE Subscribed(s, t)
    <3> DEFINE New == (counter + 1)..(counter + n)
    <3>1. /\ counter \in Nat /\ backlog[s] \in Seq(1..counter)
          /\ outstanding[s] \in Leases(counter)
      BY DEF TypeOK
    <3>2. part[s] \in Seq(New) /\ \A x, y \in DOMAIN part[s] : x < y => part[s][x] < part[s][y]
      BY <1>1, <3>1, RejectedFacts
    <3>3. Values(part[s]) \subseteq New /\ DOMAIN part[s] \subseteq Int
      <4> DEFINE q == part[s]
      <4>1. q \in Seq(New)
        BY <3>2
      <4> HIDE DEF q, New
      <4>2. Len(q) \in Nat /\ DOMAIN q = 1..Len(q) /\ \A x \in DOMAIN q : q[x] \in New
        BY <4>1, LenProperties
      <4> QED
        BY <4>2 DEF q, Values
    <3>4. Once(part[s])
      <4> SUFFICES ASSUME NEW x \in DOMAIN part[s], NEW y \in DOMAIN part[s],
                          part[s][x] = part[s][y]
                   PROVE  x = y
        BY DEF Once
      <4>1. part[s][x] \in Int /\ part[s][y] \in Int
        BY <3>1, <3>3 DEF Values
      <4> QED
        BY <3>2, <3>3, <4>1
    <3>5. Values(backlog[s]) \subseteq 1..counter /\ Values(outstanding[s]) \subseteq 1..counter
      BY <3>1, LenProperties, LeasesFacts DEF Values
    <3>6. New \intersect 1..counter = {}
      BY <3>1
    <3>7. backlog[s] \in Seq(1..(counter + n)) /\ part[s] \in Seq(1..(counter + n))
      <4>1. 1..counter \subseteq 1..(counter + n) /\ New \subseteq 1..(counter + n)
        BY <3>1
      <4> QED
        BY <3>1, <3>2, <4>1, SeqMonotonic
    <3>8. /\ Once(backlog[s] \o part[s])
          /\ Values(backlog[s] \o part[s]) = Values(backlog[s]) \union Values(part[s])
      <4> HIDE DEF New
      <4>1. Values(backlog[s]) \intersect Values(part[s]) = {}
        BY <3>3, <3>5, <3>6
      <4>2. Once(backlog[s])
        BY <2>1 DEF OneCopyIn
      <4> QED
        BY <3>4, <3>7, <4>1, <4>2, ConcatOnce
    <3> QED
      BY <1>1, <1>2, <2>1, <2>3, <3>3, <3>5, <3>6, <3>8 DEF OneCopyIn
  <2> QED
    BY <2>2, <2>3
<1> QED
  BY <1>3, OneCopySplit DEF OneCopy, OneCopyIn, Once, Values

(* A pull moves messages: what it leases is no longer in the backlog. *)
LEMMA PullOnce ==
  ASSUME TypeOK, OneCopy, NEW s \in SubNames, NEW max \in Nat, Pull(s, max)
  PROVE  OneCopy'
<1> DEFINE n    == Taken(s, max)
           acks == (counter + 1)..(counter + n)
           b    == backlog[s]
           f    == outstanding[s]
           g    == [a \in DOMAIN f \union acks |->
                      IF a \in acks THEN b[a - counter] ELSE f[a]]
<1>1. /\ counter \in Nat /\ b \in Seq(1..counter) /\ f \in Leases(counter)
  BY DEF TypeOK
<1>2. /\ n \in 0..Len(b) /\ Len(b) \in Nat /\ DOMAIN b = 1..Len(b)
  BY <1>1, TakenFacts, LenProperties
<1>3. /\ backlog' = [backlog EXCEPT ![s] = Rest(s, n)]
      /\ outstanding' = [outstanding EXCEPT ![s] = g]
  BY DEF Pull
<1>4. /\ DOMAIN Rest(s, n) = 1..(Len(b) - n)
      /\ \A x \in DOMAIN Rest(s, n) : x + n \in DOMAIN b /\ Rest(s, n)[x] = b[x + n]
  BY <1>1, <1>2, RestFacts
<1>5. OneCopyIn(b, f)
  BY OneCopySplit
<1> HIDE DEF n, b, f
<1>6. \A a \in acks : a - counter \in 1..n /\ a - counter \in DOMAIN b
  BY <1>1, <1>2
<1>7. Once(Rest(s, n))
  <2> SUFFICES ASSUME NEW x \in DOMAIN Rest(s, n), NEW y \in DOMAIN Rest(s, n),
                      Rest(s, n)[x] = Rest(s, n)[y]
               PROVE  x = y
    BY DEF Once
  <2>1. x + n = y + n
    BY <1>4, <1>5 DEF OneCopyIn, Once
  <2> QED
    BY <1>2, <1>4, <2>1
<1>8. Once(g)
  <2> SUFFICES ASSUME NEW x \in DOMAIN f \union acks, NEW y \in DOMAIN f \union acks,
                      g[x] = g[y]
               PROVE  x = y
    BY DEF Once
  <2>1. CASE x \in acks /\ y \in acks
    <3>1. x - counter = y - counter
      BY <1>5, <1>6, <2>1 DEF OneCopyIn, Once
    <3> QED
      BY <1>1, <2>1, <3>1
  <2>2. CASE x \notin acks /\ y \notin acks
    BY <1>5, <2>2 DEF OneCopyIn, Once
  <2>3. CASE x \in acks /\ y \notin acks
    <3>1. b[x - counter] \in Values(b) /\ f[y] \in Values(f)
      BY <1>6, <2>3 DEF Values
    <3> QED
      BY <1>5, <2>3, <3>1 DEF OneCopyIn
  <2>4. CASE x \notin acks /\ y \in acks
    <3>1. b[y - counter] \in Values(b) /\ f[x] \in Values(f)
      BY <1>6, <2>4 DEF Values
    <3> QED
      BY <1>5, <2>4, <3>1 DEF OneCopyIn
  <2> QED
    BY <2>1, <2>2, <2>3, <2>4
<1>9. Values(Rest(s, n)) \intersect Values(g) = {}
  <2> SUFFICES ASSUME NEW x \in DOMAIN Rest(s, n), NEW y \in DOMAIN g,
                      Rest(s, n)[x] = g[y]
               PROVE  FALSE
    BY DEF Values
  <2>1. x + n \in DOMAIN b /\ b[x + n] = g[y] /\ x \in 1..(Len(b) - n)
    BY <1>4
  <2>2. CASE y \in acks
    <3>1. x + n = y - counter
      BY <1>5, <1>6, <2>1, <2>2 DEF OneCopyIn, Once
    <3>2. y - counter \in 1..n
      BY <1>6, <2>2
    <3> QED
      BY <1>2, <2>1, <3>1, <3>2
  <2>3. CASE y \notin acks
    <3>1. b[x + n] \in Values(b) /\ f[y] \in Values(f) /\ b[x + n] = f[y]
      BY <2>1, <2>3 DEF Values
    <3> QED
      BY <1>5, <3>1 DEF OneCopyIn
  <2> QED
    BY <2>2, <2>3
<1>10. ASSUME NEW r \in SubNames PROVE OneCopyIn(backlog'[r], outstanding'[r])
  <2>1. CASE r = s
    BY <1>3, <1>7, <1>8, <1>9, <2>1 DEF OneCopyIn, TypeOK
  <2>2. CASE r # s
    BY <1>3, <2>2, OneCopySplit DEF TypeOK
  <2> QED
    BY <2>1, <2>2
<1> QED
  BY <1>10 DEF OneCopy, OneCopyIn, Once, Values

(* Ending leases takes messages away. *)
LEMMA EndLeasesOnce ==
  ASSUME TypeOK, NEW s \in SubNames, NEW ids, EndLeases(s, ids),
         Once(outstanding[s])
  PROVE  /\ Once(outstanding'[s])
         /\ Values(outstanding'[s]) =
              {outstanding[s][a] : a \in DOMAIN outstanding[s] \ ids}
         /\ \A r \in SubNames \ {s} : outstanding'[r] = outstanding[r]
<1>1. /\ outstanding'[s] = [a \in DOMAIN outstanding[s] \ ids |-> outstanding[s][a]]
      /\ \A r \in SubNames \ {s} : outstanding'[r] = outstanding[r]
  BY DEF EndLeases, TypeOK
<1>2. Once(outstanding'[s])
  BY <1>1 DEF Once
<1>3. Values(outstanding'[s]) =
        {outstanding[s][a] : a \in DOMAIN outstanding[s] \ ids}
  BY <1>1 DEF Values
<1> QED
  BY <1>1, <1>2, <1>3

LEMMA AcknowledgeOnce ==
  ASSUME TypeOK, OneCopy, NEW s \in SubNames, NEW ids, Acknowledge(s, ids)
  PROVE  OneCopy'
<1>1. \A r \in SubNames : OneCopyIn(backlog[r], outstanding[r])
  BY OneCopySplit
<1>2. /\ Once(outstanding'[s])
      /\ Values(outstanding'[s]) \subseteq Values(outstanding[s])
      /\ \A r \in SubNames \ {s} : outstanding'[r] = outstanding[r]
  BY <1>1, EndLeasesOnce DEF Acknowledge, OneCopyIn, Values
<1>3. \A r \in SubNames : OneCopyIn(backlog'[r], outstanding'[r])
  BY <1>1, <1>2 DEF Acknowledge, OneCopyIn
<1> QED
  BY <1>3 DEF OneCopy, OneCopyIn, Once, Values

(* A nack moves messages back: what it queues is no longer leased. *)
LEMMA NackOnce ==
  ASSUME TypeOK, OneCopy, NEW s \in SubNames, NEW ids, Nack(s, ids)
  PROVE  OneCopy'
<1> DEFINE f == outstanding[s]
           S == ids \intersect DOMAIN f
<1>1. PICK order \in Orders(S) : PutFirst(s, order)
  BY DEF Nack
<1> DEFINE back == Backwards(s, order)
<1>2. \A r \in SubNames : OneCopyIn(backlog[r], outstanding[r])
  BY OneCopySplit
<1>3. /\ back \in Seq(1..counter) /\ Values(back) = {f[a] : a \in S}
      /\ (\A a, b \in S : f[a] = f[b] => a = b) => Once(back)
  BY BackwardsFacts DEF TypeOK, Once
<1>4. Once(back) /\ Values(back) \subseteq Values(f)
  BY <1>2, <1>3 DEF OneCopyIn, Once, Values
<1>5. /\ Once(outstanding'[s])
      /\ Values(outstanding'[s]) = {f[a] : a \in DOMAIN f \ ids}
      /\ \A r \in SubNames \ {s} : outstanding'[r] = outstanding[r]
  BY <1>2, EndLeasesOnce DEF Nack, OneCopyIn
<1>6. /\ backlog'[s] = back \o backlog[s]
      /\ \A r \in SubNames \ {s} : backlog'[r] = backlog[r]
  BY <1>1 DEF PutFirst, TypeOK
<1>7. backlog[s] \in Seq(1..counter)
  BY DEF TypeOK
<1> HIDE DEF back
<1>8. /\ Once(backlog'[s])
      /\ Values(backlog'[s]) = Values(back) \union Values(backlog[s])
  <2>1. Values(back) \intersect Values(backlog[s]) = {} /\ Once(backlog[s])
    BY <1>2, <1>4 DEF OneCopyIn
  <2> QED
    BY <1>3, <1>4, <1>6, <1>7, <2>1, ConcatOnce
<1>9. Values(outstanding'[s]) \intersect Values(back) = {}
  BY <1>2, <1>3, <1>5 DEF OneCopyIn, Once
<1>10. Values(outstanding'[s]) \intersect Values(backlog[s]) = {}
  BY <1>2, <1>5 DEF OneCopyIn, Values
<1>11. OneCopyIn(backlog'[s], outstanding'[s])
  BY <1>5, <1>8, <1>9, <1>10 DEF OneCopyIn
<1>12. \A r \in SubNames : OneCopyIn(backlog'[r], outstanding'[r])
  BY <1>2, <1>5, <1>6, <1>11
<1> QED
  BY <1>12 DEF OneCopy, OneCopyIn, Once, Values

LEMMA StepOnce == TypeOK /\ OneCopy /\ [Next]_vars => OneCopy'
<1> SUFFICES ASSUME TypeOK, OneCopy, [Next]_vars PROVE OneCopy'
  OBVIOUS
<1>1. CASE UNCHANGED <<backlog, outstanding>>
  BY <1>1 DEF OneCopy
<1>2. ASSUME NEW s \in SubNames,
             backlog' = [backlog EXCEPT ![s] = <<>>],
             outstanding' = [outstanding EXCEPT ![s] = NoLeases]
      PROVE  OneCopy'
  <2>1. ASSUME NEW r \in SubNames PROVE OneCopyIn(backlog'[r], outstanding'[r])
    BY <1>2, NothingTwice, OneCopySplit DEF TypeOK
  <2> QED
    BY <2>1 DEF OneCopy, OneCopyIn, Once, Values
<1>3. CASE Reset
  <2>1. ASSUME NEW r \in SubNames PROVE OneCopyIn(backlog'[r], outstanding'[r])
    BY <1>3, NothingTwice DEF Reset
  <2> QED
    BY <2>1 DEF OneCopy, OneCopyIn, Once, Values
<1>4. ASSUME NEW t \in TopicNames, NEW n \in 0..MaxBatch, Publish(t, n)
      PROVE  OneCopy'
  BY <1>4, PublishOnce, PubSubAssumption
<1>5. ASSUME NEW s \in SubNames, NEW max \in 0..MaxPull, Pull(s, max)
      PROVE  OneCopy'
  BY <1>5, PullOnce, PubSubAssumption
<1> QED
  BY <1>1, <1>2, <1>3, <1>4, <1>5, AcknowledgeOnce, NackOnce
  DEF Next, CreateTopic, DeleteTopic, CreateSubscription, DeleteSubscription,
      RegisterHandler, vars, state

(* A subscription never holds a message twice: not queued in two places,   *)
(* not leased under two ack ids, not queued and leased.                    *)
THEOREM MessagesHeldOnce == Spec => []OneCopy
<1>1. Init => OneCopy
  <2> SUFFICES ASSUME Init PROVE OneCopy
    OBVIOUS
  <2>1. \A s \in SubNames : OneCopyIn(backlog[s], outstanding[s])
    BY NothingTwice DEF Init
  <2> QED
    BY <2>1, OneCopySplit
<1> QED
  BY <1>1, StepOnce, TypeCorrect, PTL DEF Spec

------------------------------------------------------------------------------
(* The backend implements MessageQueues *)

Queued(s) == Values(backlog[s])
Leased(s) == Values(outstanding[s])

AllQueued == [s \in SubNames |-> Values(backlog[s])]
AllLeased == [s \in SubNames |-> Values(outstanding[s])]

(* What is left of the mapping when one subscription changes. *)
LEMMA QueueFrame ==
  ASSUME NEW s \in SubNames
  PROVE  /\ AllQueued[s] = Queued(s) /\ AllLeased[s] = Leased(s)
         /\ (\A r \in SubNames \ {s} : backlog'[r] = backlog[r]) =>
              AllQueued' = [AllQueued EXCEPT ![s] = Queued(s)']
         /\ (\A r \in SubNames \ {s} : outstanding'[r] = outstanding[r]) =>
              AllLeased' = [AllLeased EXCEPT ![s] = Leased(s)']
  BY DEF Queued, Leased, AllQueued, AllLeased

LEMMA ManageRefines ==
  ASSUME TypeOK, NEW s \in SubNames, counter' = counter,
         subs' = subs \union {s} \/ subs' = subs \ {s},
         backlog' = [backlog EXCEPT ![s] = <<>>],
         outstanding' = [outstanding EXCEPT ![s] = NoLeases]
  PROVE  Queue!Manage
<1>1. /\ Queued(s)' = {} /\ \A r \in SubNames \ {s} : backlog'[r] = backlog[r]
      /\ Leased(s)' = {} /\ \A r \in SubNames \ {s} : outstanding'[r] = outstanding[r]
  BY DEF Queued, Leased, Values, NoLeases, TypeOK
<1> QED
  BY <1>1, QueueFrame DEF Queue!Manage, AllQueued, AllLeased

(* What a publish adds: to the subscriptions of its topic, new ids. *)
LEMMA PublishAdds ==
  ASSUME TypeOK, NEW t \in TopicNames, NEW n \in Nat, Publish(t, n)
  PROVE  \A s \in SubNames :
           /\ Queued(s) \subseteq Queued(s)'
           /\ Queued(s)' \ Queued(s) \subseteq (counter + 1)..(counter + n)
           /\ ~Subscribed(s, t) => Queued(s)' = Queued(s)
<1> DEFINE New == (counter + 1)..(counter + n)
<1>1. PICK part \in [SubNames -> Rejected(n)] :
        backlog' = [s \in SubNames |->
          IF Subscribed(s, t) THEN backlog[s] \o part[s] ELSE backlog[s]]
  BY DEF Publish
<1>2. counter \in Nat
  BY DEF TypeOK
<1>3. ASSUME NEW s \in SubNames
      PROVE  /\ Queued(s) \subseteq Queued(s)'
             /\ Queued(s)' \ Queued(s) \subseteq New
             /\ ~Subscribed(s, t) => Queued(s)' = Queued(s)
  <2>1. CASE ~Subscribed(s, t)
    BY <1>1, <2>1 DEF Queued
  <2>2. CASE Subscribed(s, t)
    <3> DEFINE q == part[s]
    <3>1. q \in Seq(New) /\ backlog[s] \in Seq(1..counter)
      BY <1>1, <1>2, RejectedFacts DEF TypeOK
    <3>2. New \subseteq Nat /\ 1..counter \subseteq Nat
      BY <1>2
    <3>3. backlog'[s] = backlog[s] \o q
      BY <1>1, <2>2
    <3> HIDE DEF New, q
    <3>4. q \in Seq(Nat) /\ backlog[s] \in Seq(Nat)
      BY <3>1, <3>2, SeqMonotonic
    <3>5. Queued(s)' = Queued(s) \union Values(q)
      BY <3>3, <3>4, ConcatOnce DEF Queued
    <3>6. Values(q) \subseteq New
      <4>1. DOMAIN q = 1..Len(q) /\ \A x \in DOMAIN q : q[x] \in New
        BY <3>1, LenProperties
      <4> QED
        BY <4>1 DEF Values
    <3> QED
      BY <2>2, <3>5, <3>6
  <2> QED
    BY <2>1, <2>2
<1> QED
  BY <1>3

LEMMA PublishRefines ==
  ASSUME TypeOK, NEW t \in TopicNames, NEW n \in Nat, Publish(t, n)
  PROVE  Queue!Deliver \/ UNCHANGED Queue!queueVars
<1> DEFINE New == (counter + 1)..(counter + n)
<1>1. /\ counter \in Nat /\ counter' = counter + n
      /\ outstanding' = outstanding /\ subTopic' = subTopic
  BY DEF Publish, Draw, TypeOK
<1>2. \A s \in SubNames : /\ Queued(s) \subseteq Queued(s)'
                          /\ Queued(s)' \ Queued(s) \subseteq New
                          /\ s \notin subs => Queued(s)' = Queued(s)
  BY PublishAdds DEF Subscribed
<1>3. UNCHANGED <<subs, [r \in SubNames |-> Leased(r)]>>
  BY <1>1 DEF subs, Leased
<1>4. CASE n = 0
  <2>1. \A s \in SubNames : Queued(s)' = Queued(s)
    BY <1>1, <1>2, <1>4
  <2> QED
    BY <1>1, <1>3, <1>4, <2>1 DEF Queue!queueVars, Queued, Leased
<1>5. CASE n > 0
  <2>1. counter' \in Nat /\ counter' > counter
    BY <1>1, <1>5
  <2>2. \A s \in SubNames :
          /\ Queued(s) \subseteq Queued(s)'
          /\ Queued(s)' # Queued(s) => s \in subs
          /\ Queued(s)' \ Queued(s) \subseteq (counter + 1)..counter'
    BY <1>1, <1>2
  <2> QED
    BY <1>3, <2>1, <2>2 DEF Queue!Deliver, Queued, Leased
<1> QED
  BY <1>4, <1>5

LEMMA PullRefines ==
  ASSUME TypeOK, OneCopy, NEW s \in SubNames, NEW max \in Nat, Pull(s, max)
  PROVE  Queue!Lease
<1> DEFINE n    == Taken(s, max)
           acks == (counter + 1)..(counter + n)
           b    == backlog[s]
           f    == outstanding[s]
           M    == {b[k] : k \in 1..n}
           g    == [a \in DOMAIN f \union acks |->
                      IF a \in acks THEN b[a - counter] ELSE f[a]]
<1>1. /\ counter \in Nat /\ b \in Seq(1..counter) /\ f \in Leases(counter)
  BY DEF TypeOK
<1>2. n \in 0..Len(b) /\ Len(b) \in Nat /\ DOMAIN b = 1..Len(b)
  BY <1>1, TakenFacts, LenProperties
<1>3. /\ backlog'[s] = Rest(s, n) /\ outstanding'[s] = g
      /\ \A r \in SubNames \ {s} : backlog'[r] = backlog[r]
      /\ \A r \in SubNames \ {s} : outstanding'[r] = outstanding[r]
      /\ s \in subs /\ subs' = subs /\ counter' = counter + n
  BY DEF Pull, Draw, TypeOK, subs
<1>4. /\ DOMAIN Rest(s, n) = 1..(Len(b) - n)
      /\ \A x \in DOMAIN Rest(s, n) : x + n \in DOMAIN b /\ Rest(s, n)[x] = b[x + n]
  BY <1>1, <1>2, RestFacts
<1>5. OneCopyIn(b, f)
  BY OneCopySplit
<1> HIDE DEF n, b, f
<1>6. M \subseteq Values(b)
  BY <1>2 DEF Values
<1>7. Values(Rest(s, n)) = Values(b) \ M
  <2>1. ASSUME NEW x \in DOMAIN Rest(s, n) PROVE Rest(s, n)[x] \in Values(b) \ M
    <3>1. x + n \in DOMAIN b /\ Rest(s, n)[x] = b[x + n] /\ x \in 1..(Len(b) - n)
      BY <1>4
    <3>2. \A k \in 1..n : k \in DOMAIN b /\ k # x + n
      BY <1>2, <3>1
    <3>3. b[x + n] \notin M
      BY <1>5, <3>1, <3>2 DEF OneCopyIn, Once
    <3> QED
      BY <3>1, <3>3 DEF Values
  <2>2. ASSUME NEW k \in DOMAIN b, b[k] \notin M PROVE b[k] \in Values(Rest(s, n))
    <3>1. k \in (n + 1)..Len(b)
      BY <1>2, <2>2
    <3>2. k - n \in DOMAIN Rest(s, n) /\ (k - n) + n = k
      BY <1>2, <1>4, <3>1
    <3>3. Rest(s, n)[k - n] = b[k]
      BY <1>4, <3>2
    <3> QED
      BY <3>2, <3>3 DEF Values
  <2> QED
    BY <2>1, <2>2 DEF Values
<1>8. Values(g) = Values(f) \union M
  <2>1. \A a \in acks : a - counter \in 1..n
    BY <1>1, <1>2
  <2>2. \A k \in 1..n : counter + k \in acks /\ (counter + k) - counter = k
    BY <1>1, <1>2
  <2>3. \A a \in DOMAIN f : a \notin acks
    BY <1>1, LeasesFacts
  <2>4. Values(g) \subseteq Values(f) \union M
    BY <2>1 DEF Values
  <2>5. Values(f) \subseteq Values(g)
    BY <2>3 DEF Values
  <2>6. \A k \in 1..n : g[counter + k] = b[k] /\ counter + k \in DOMAIN g
    BY <2>2
  <2>7. M \subseteq Values(g)
    BY <2>6 DEF Values
  <2> QED
    BY <2>4, <2>5, <2>7
<1>9. counter' \in Nat /\ counter' >= counter
  BY <1>1, <1>2, <1>3
<1>10. Queued(s)' = Queued(s) \ M /\ Leased(s)' = Leased(s) \union M
  BY <1>3, <1>7, <1>8 DEF Queued, Leased, b, f
<1>11. M \in SUBSET Queued(s)
  BY <1>6 DEF Queued, b
<1> HIDE DEF M
<1> QED
  <2>1. /\ AllQueued' = [AllQueued EXCEPT ![s] = @ \ M]
        /\ AllLeased' = [AllLeased EXCEPT ![s] = @ \union M]
        /\ M \in SUBSET AllQueued[s]
    BY <1>3, <1>10, <1>11, QueueFrame
  <2> QED
    BY <1>3, <1>9, <2>1 DEF Queue!Lease, AllQueued, AllLeased

(* The messages of leases that end are leased no more. *)
LEMMA EndLeasesRefines ==
  ASSUME TypeOK, OneCopy, NEW s \in SubNames, NEW ids, EndLeases(s, ids)
  PROVE  LET M == {outstanding[s][a] : a \in ids \intersect DOMAIN outstanding[s]}
         IN  /\ M \subseteq Leased(s)
             /\ Leased(s)' = Leased(s) \ M
             /\ \A r \in SubNames \ {s} : outstanding'[r] = outstanding[r]
<1> DEFINE f == outstanding[s]
           M == {f[a] : a \in ids \intersect DOMAIN f}
<1>1. Once(f)
  BY OneCopySplit DEF OneCopyIn
<1>2. /\ Values(outstanding'[s]) = {f[a] : a \in DOMAIN f \ ids}
      /\ \A r \in SubNames \ {s} : outstanding'[r] = outstanding[r]
  BY <1>1, EndLeasesOnce
<1>3. {f[a] : a \in DOMAIN f \ ids} = Values(f) \ M
  BY <1>1 DEF Once, Values
<1>4. M \subseteq Values(f)
  BY DEF Values
<1> QED
  BY <1>2, <1>3, <1>4 DEF Leased

LEMMA AcknowledgeRefines ==
  ASSUME TypeOK, OneCopy, NEW s \in SubNames, NEW ids, Acknowledge(s, ids)
  PROVE  Queue!Settle
<1>1. s \in subs /\ subs' = subs /\ backlog' = backlog /\ counter' = counter
  BY DEF Acknowledge, subs
<1>2. PICK M : /\ M \subseteq Leased(s) /\ Leased(s)' = Leased(s) \ M
               /\ \A r \in SubNames \ {s} : outstanding'[r] = outstanding[r]
  BY EndLeasesRefines DEF Acknowledge
<1> QED
  <2>1. /\ AllQueued' = AllQueued
        /\ AllLeased' = [AllLeased EXCEPT ![s] = @ \ M]
        /\ M \in SUBSET AllLeased[s]
    BY <1>1, <1>2, QueueFrame DEF AllQueued
  <2> QED
    BY <1>1, <2>1 DEF Queue!Settle, AllQueued, AllLeased

LEMMA NackRefines ==
  ASSUME TypeOK, OneCopy, NEW s \in SubNames, NEW ids, Nack(s, ids)
  PROVE  Queue!Return
<1> DEFINE f == outstanding[s]
           S == ids \intersect DOMAIN f
           M == {f[a] : a \in S}
<1>1. s \in subs /\ subs' = subs /\ counter' = counter /\ EndLeases(s, ids)
  BY DEF Nack, subs
<1>2. /\ M \subseteq Leased(s) /\ Leased(s)' = Leased(s) \ M
      /\ \A r \in SubNames \ {s} : outstanding'[r] = outstanding[r]
  BY <1>1, EndLeasesRefines
<1>3. PICK order \in Orders(S) : PutFirst(s, order)
  BY DEF Nack
<1>4. /\ backlog'[s] = Backwards(s, order) \o backlog[s]
      /\ \A r \in SubNames \ {s} : backlog'[r] = backlog[r]
  BY <1>3 DEF PutFirst, TypeOK
<1>5. /\ Backwards(s, order) \in Seq(1..counter)
      /\ Values(Backwards(s, order)) = M
      /\ backlog[s] \in Seq(1..counter)
  BY BackwardsFacts DEF TypeOK
<1>6. Queued(s)' = Queued(s) \union M
  BY <1>4, <1>5, ConcatOnce DEF Queued
<1> HIDE DEF M
<1> QED
  <2>1. /\ AllQueued' = [AllQueued EXCEPT ![s] = @ \union M]
        /\ AllLeased' = [AllLeased EXCEPT ![s] = @ \ M]
        /\ M \in SUBSET AllLeased[s]
    BY <1>2, <1>4, <1>6, QueueFrame
  <2> QED
    BY <1>1, <2>1 DEF Queue!Return, AllQueued, AllLeased

LEMMA InitRefines == Init => Queue!Init
  BY DEF Init, Queue!Init, subs, Values, NoLeases

LEMMA StepRefines ==
  TypeOK /\ OneCopy /\ [Next]_vars => [Queue!Next]_(Queue!queueVars)
<1> SUFFICES ASSUME TypeOK, OneCopy, [Next]_vars
             PROVE  Queue!Next \/ UNCHANGED Queue!queueVars
  OBVIOUS
<1>1. CASE UNCHANGED <<subTopic, backlog, outstanding, counter>>
  BY <1>1 DEF Queue!queueVars, subs, Values
<1>2. ASSUME NEW s \in SubNames, NEW t \in TopicNames, CreateSubscription(s, t)
      PROVE  Queue!Manage
  <2>1. subs' = subs \union {s}
    BY <1>2, PubSubAssumption DEF CreateSubscription, subs, TypeOK
  <2> QED
    BY <1>2, <2>1, ManageRefines DEF CreateSubscription
<1>3. ASSUME NEW s \in SubNames, DeleteSubscription(s) PROVE Queue!Manage
  <2>1. subs' = subs \ {s}
    BY <1>3 DEF DeleteSubscription, subs, TypeOK
  <2> QED
    BY <1>3, <2>1, ManageRefines DEF DeleteSubscription
<1>4. ASSUME NEW t \in TopicNames, NEW n \in 0..MaxBatch, Publish(t, n)
      PROVE  Queue!Deliver \/ UNCHANGED Queue!queueVars
  BY <1>4, PublishRefines, PubSubAssumption
<1>5. ASSUME NEW s \in SubNames, NEW max \in 0..MaxPull, Pull(s, max)
      PROVE  Queue!Lease
  BY <1>5, PullRefines, PubSubAssumption
<1>6. CASE Reset
  BY <1>6 DEF Reset, Queue!Forget, Queue!Next, subs, Values, NoLeases
<1> QED
  BY <1>1, <1>2, <1>3, <1>4, <1>5, <1>6, AcknowledgeRefines, NackRefines
  DEF Next, CreateTopic, DeleteTopic, RegisterHandler, vars, state, Queue!Next

(* For any number of topics, subscriptions and messages the backend is a   *)
(* set of message queues: what is queued once is leased and returned and   *)
(* gone for good once settled.                                             *)
THEOREM BackendIsQueues == Spec => ImplementsQueue
  BY InitRefines, StepRefines, TypeCorrect, MessagesHeldOnce, PTL
  DEF Spec, ImplementsQueue, Queue!Spec

------------------------------------------------------------------------------
(* What a subscription holds was published to its topic, and stays *)

(* In terms of queues: outside Publish nothing new is held, and what is    *)
(* queued stays held by a subscription that is neither made nor removed.   *)
NothingNew   == \A s \in SubNames : Held(s)' \subseteq Held(s)
NothingLost  == \A s \in SubNames : Queued(s) \subseteq Held(s)'

LEMMA HeldIs == \A s \in SubNames : Held(s) = AllQueued[s] \union AllLeased[s]
  BY DEF Held, AllQueued, AllLeased

LEMMA HeldIsNext ==
  \A s \in SubNames : Held(s)' = AllQueued'[s] \union AllLeased'[s]
  BY DEF Held, AllQueued, AllLeased

LEMMA MovesKeep ==
  ASSUME Queue!Lease \/ Queue!Settle \/ Queue!Return
  PROVE  NothingNew /\ NothingLost
<1>1. PICK q \in subs : \E M :
        \/ /\ M \subseteq AllQueued[q]
           /\ AllQueued' = [AllQueued EXCEPT ![q] = @ \ M]
           /\ AllLeased' = [AllLeased EXCEPT ![q] = @ \union M]
        \/ /\ M \subseteq AllLeased[q]
           /\ AllLeased' = [AllLeased EXCEPT ![q] = @ \ M]
           /\ AllQueued' = AllQueued
        \/ /\ M \subseteq AllLeased[q]
           /\ AllLeased' = [AllLeased EXCEPT ![q] = @ \ M]
           /\ AllQueued' = [AllQueued EXCEPT ![q] = @ \union M]
  BY DEF Queue!Lease, Queue!Settle, Queue!Return, AllQueued, AllLeased
<1>2. DOMAIN AllQueued = SubNames /\ DOMAIN AllLeased = SubNames
  BY DEF AllQueued, AllLeased
<1>3. ASSUME NEW s \in SubNames
      PROVE  /\ AllQueued'[s] \union AllLeased'[s] \subseteq
                  AllQueued[s] \union AllLeased[s]
             /\ AllQueued[s] \subseteq AllQueued'[s] \union AllLeased'[s]
  <2>1. CASE s = q
    BY <1>1, <1>2, <2>1
  <2>2. CASE s # q
    BY <1>1, <1>2, <2>2
  <2> QED
    BY <2>1, <2>2
<1> QED
  BY <1>3, HeldIs, HeldIsNext DEF NothingNew, NothingLost, Queued, AllQueued

LEMMA KeptTopics ==
  ASSUME RightTopic, NothingNew, UNCHANGED <<subTopic, published>>
  PROVE  RightTopic'
  BY DEF RightTopic, NothingNew

LEMMA EmptiedTopics ==
  ASSUME TypeOK, RightTopic, NEW s \in SubNames, published' = published,
         backlog' = [backlog EXCEPT ![s] = <<>>],
         outstanding' = [outstanding EXCEPT ![s] = NoLeases],
         \A r \in SubNames \ {s} : subTopic'[r] = subTopic[r]
  PROVE  RightTopic'
<1>1. /\ Held(s)' = {}
      /\ \A r \in SubNames \ {s} : Held(r)' = Held(r)
  BY DEF Held, Values, NoLeases, TypeOK
<1> QED
  BY <1>1 DEF RightTopic

LEMMA PublishTopics ==
  ASSUME TypeOK, RightTopic, NEW t \in TopicNames, NEW n \in Nat, Publish(t, n)
  PROVE  RightTopic'
<1>1. /\ published' = published \union
                        {<<m, t>> : m \in (counter + 1)..(counter + n)}
      /\ outstanding' = outstanding /\ subTopic' = subTopic
  BY DEF Publish
<1>2. ASSUME NEW s \in SubNames, NEW m \in Held(s)'
      PROVE  <<m, subTopic'[s]>> \in published'
  <2>1. CASE m \in Held(s)
    BY <1>1, <2>1 DEF RightTopic
  <2>2. CASE m \notin Held(s)
    <3>1. m \in Queued(s)' \ Queued(s)
      BY <1>1, <1>2, <2>2 DEF Held, Queued
    <3> QED
      BY <1>1, <3>1, PublishAdds DEF Subscribed
  <2> QED
    BY <2>1, <2>2
<1> QED
  BY <1>2 DEF RightTopic

LEMMA StepTopics == TypeOK /\ OneCopy /\ RightTopic /\ [Next]_vars => RightTopic'
<1> SUFFICES ASSUME TypeOK, OneCopy, RightTopic, [Next]_vars PROVE RightTopic'
  OBVIOUS
<1>1. CASE UNCHANGED <<subTopic, backlog, outstanding, published>>
  BY <1>1 DEF RightTopic, Held
<1>2. ASSUME NEW s \in SubNames, NEW t \in TopicNames, CreateSubscription(s, t)
      PROVE  RightTopic'
  BY <1>2, EmptiedTopics DEF CreateSubscription, TypeOK
<1>3. ASSUME NEW s \in SubNames, DeleteSubscription(s) PROVE RightTopic'
  BY <1>3, EmptiedTopics DEF DeleteSubscription, TypeOK
<1>4. ASSUME NEW t \in TopicNames, NEW n \in 0..MaxBatch, Publish(t, n)
      PROVE  RightTopic'
  BY <1>4, PublishTopics, PubSubAssumption
<1>5. ASSUME NEW s \in SubNames, NEW max \in 0..MaxPull, Pull(s, max)
      PROVE  RightTopic'
  <2>1. NothingNew
    BY <1>5, PullRefines, MovesKeep, PubSubAssumption
  <2> QED
    BY <1>5, <2>1, KeptTopics DEF Pull
<1>6. ASSUME NEW s \in SubNames, NEW ids, Acknowledge(s, ids) \/ Nack(s, ids)
      PROVE  RightTopic'
  <2>1. NothingNew
    BY <1>6, AcknowledgeRefines, NackRefines, MovesKeep
  <2> QED
    BY <1>6, <2>1, KeptTopics DEF Acknowledge, Nack
<1>7. CASE Reset
  BY <1>7 DEF Reset, RightTopic, Held, Values, NoLeases
<1> QED
  BY <1>1, <1>2, <1>3, <1>4, <1>5, <1>6, <1>7
  DEF Next, CreateTopic, DeleteTopic, RegisterHandler, vars, state

(* A subscription never holds a message of another topic, though topics    *)
(* and subscriptions are removed and created again under their names.      *)
THEOREM HeldFromTopic == Spec => []RightTopic
<1>1. Init => RightTopic
  BY DEF Init, RightTopic, Held, Values, NoLeases
<1> QED
  BY <1>1, StepTopics, TypeCorrect, MessagesHeldOnce, PTL DEF Spec

LEMMA StepKeeps ==
  TypeOK /\ OneCopy /\ [Next]_vars =>
    \A s \in subs \intersect subs' : Values(backlog[s]) \subseteq Held(s)'
<1> SUFFICES ASSUME TypeOK, OneCopy, [Next]_vars, NEW s \in subs \intersect subs'
             PROVE  Values(backlog[s]) \subseteq Held(s)'
  OBVIOUS
<1>1. s \in SubNames
  BY DEF subs
<1>2. CASE UNCHANGED <<backlog, outstanding>>
  BY <1>2 DEF Held
<1>3. ASSUME NEW r \in SubNames, NEW t \in TopicNames, CreateSubscription(r, t)
      PROVE  Values(backlog[s]) \subseteq Held(s)'
  <2>1. r # s
    BY <1>3 DEF CreateSubscription, subs, TypeOK
  <2>2. backlog'[s] = backlog[s]
    BY <1>1, <1>3, <2>1 DEF CreateSubscription, TypeOK
  <2> QED
    BY <2>2 DEF Held
<1>4. ASSUME NEW t \in TopicNames, NEW n \in 0..MaxBatch, Publish(t, n)
      PROVE  Values(backlog[s]) \subseteq Held(s)'
  <2>1. n \in Nat
    BY PubSubAssumption
  <2>2. Queued(s) \subseteq Queued(s)'
    BY <1>1, <1>4, <2>1, PublishAdds
  <2> QED
    BY <2>2 DEF Queued, Held
<1>5. CASE NothingLost
  BY <1>1, <1>5 DEF NothingLost, Queued
<1>6. ASSUME NEW r \in SubNames, NEW max \in 0..MaxPull, Pull(r, max)
      PROVE  NothingLost
  BY <1>6, PullRefines, MovesKeep, PubSubAssumption
<1>7. ASSUME NEW r \in SubNames, NEW ids, Acknowledge(r, ids) \/ Nack(r, ids)
      PROVE  NothingLost
  BY <1>7, AcknowledgeRefines, NackRefines, MovesKeep
<1>8. CASE Reset
  BY <1>8 DEF Reset, subs
<1>9. ASSUME NEW r \in SubNames, DeleteSubscription(r)
      PROVE  Values(backlog[s]) \subseteq Held(s)'
  <2>1. r # s
    BY <1>9 DEF DeleteSubscription, subs, TypeOK
  <2>2. backlog'[s] = backlog[s]
    BY <1>1, <1>9, <2>1 DEF DeleteSubscription, TypeOK
  <2> QED
    BY <2>2 DEF Held
<1> QED
  BY <1>2, <1>3, <1>4, <1>5, <1>6, <1>7, <1>8, <1>9
  DEF Next, CreateTopic, DeleteTopic, RegisterHandler, vars, state

(* No step loses a queued message: while its subscription lives it stays   *)
(* queued or becomes leased.                                               *)
THEOREM NoMessageLost == Spec => QueuedNeverDropped
  BY StepKeeps, TypeCorrect, MessagesHeldOnce, PTL DEF Spec, QueuedNeverDropped

------------------------------------------------------------------------------
(* Fresh messages are pulled in order *)

FreshOf(s) == {m \in 1..counter : Fresh(s, m)}

(* From the first element of F on, q is increasing and all in F. *)
Rising(q, F) ==
  \A x, y \in DOMAIN q : x < y /\ q[x] \in F => q[y] \in F /\ q[x] < q[y]

LEMMA FreshMeans ==
  ASSUME TypeOK, NEW s \in SubNames
  PROVE  FreshOf(s) = {m \in 1..counter : \A a : <<s, a, m>> \notin leases}
<1>1. \A a, m : <<s, a, m>> \in leases => a \in 1..counter
  BY DEF TypeOK
<1> QED
  BY <1>1 DEF FreshOf, Fresh

LEMMA FreshMeansNext ==
  ASSUME TypeOK', NEW s \in SubNames
  PROVE  FreshOf(s)' = {m \in 1..counter' : \A a : <<s, a, m>> \notin leases'}
<1>1. \A a, m : <<s, a, m>> \in leases' => a \in 1..counter'
  BY DEF TypeOK
<1> QED
  BY <1>1 DEF FreshOf, Fresh

LEMMA RisingSplit ==
  ASSUME TypeOK
  PROVE  FreshInOrder <=> \A s \in SubNames : Rising(backlog[s], FreshOf(s))
<1>1. \A s \in SubNames : \A x \in DOMAIN backlog[s] : backlog[s][x] \in 1..counter
  BY LenProperties DEF TypeOK
<1> QED
  BY <1>1 DEF FreshInOrder, FreshOf, Rising

LEMMA RisingJoin ==
  ASSUME TypeOK', \A s \in SubNames : Rising(backlog'[s], FreshOf(s)')
  PROVE  FreshInOrder'
<1>1. \A s \in SubNames : \A x \in DOMAIN backlog'[s] : backlog'[s][x] \in 1..counter'
  BY LenProperties DEF TypeOK
<1> QED
  BY <1>1 DEF FreshInOrder, FreshOf, Rising

LEMMA ConcatRising ==
  ASSUME NEW F, NEW p \in Seq(Nat), NEW q \in Seq(Nat), Rising(p, F), Rising(q, F),
         \A x \in DOMAIN p, y \in DOMAIN q : p[x] \in F => q[y] \in F /\ p[x] < q[y]
  PROVE  Rising(p \o q, F)
<1> DEFINE m == Len(p)
           n == Len(q)
<1>1. /\ m \in Nat /\ n \in Nat /\ DOMAIN p = 1..m /\ DOMAIN q = 1..n
      /\ DOMAIN (p \o q) = 1..(m + n)
      /\ \A k \in 1..(m + n) : (p \o q)[k] = IF k <= m THEN p[k] ELSE q[k - m]
  BY ConcatProperties, LenProperties
<1> HIDE DEF m, n
<1>2. \A k \in 1..(m + n) : IF k <= m THEN k \in 1..m ELSE k - m \in 1..n
  BY <1>1
<1> SUFFICES ASSUME NEW x \in 1..(m + n), NEW y \in 1..(m + n), x < y,
                    (p \o q)[x] \in F
             PROVE  (p \o q)[y] \in F /\ (p \o q)[x] < (p \o q)[y]
  BY <1>1 DEF Rising
<1>3. CASE y <= m
  <2>1. x <= m /\ x \in 1..m /\ y \in 1..m
    BY <1>1, <1>3
  <2> QED
    BY <1>1, <1>3, <2>1 DEF Rising
<1>4. CASE x <= m /\ ~(y <= m)
  BY <1>1, <1>2, <1>4
<1>5. CASE ~(x <= m)
  <2>1. ~(y <= m) /\ x - m \in 1..n /\ y - m \in 1..n /\ x - m < y - m
    BY <1>1, <1>2, <1>5
  <2>2. (p \o q)[x] = q[x - m] /\ (p \o q)[y] = q[y - m]
    BY <1>1, <1>5, <2>1
  <2> QED
    BY <1>1, <2>1, <2>2 DEF Rising
<1> QED
  BY <1>3, <1>4, <1>5

(* A message in a backlog is a number. *)
LEMMA BacklogNat ==
  ASSUME TypeOK, NEW s \in SubNames
  PROVE  /\ backlog[s] \in Seq(Nat) /\ counter \in Nat
         /\ \A x \in DOMAIN backlog[s] : backlog[s][x] \in 1..counter
<1>1. backlog[s] \in Seq(1..counter) /\ counter \in Nat /\ 1..counter \subseteq Nat
  BY DEF TypeOK
<1> QED
  BY <1>1, SeqMonotonic, LenProperties

LEMMA PublishRising ==
  ASSUME TypeOK, TypeOK', FreshInOrder,
         NEW t \in TopicNames, NEW n \in Nat, Publish(t, n)
  PROVE  FreshInOrder'
<1> DEFINE New == (counter + 1)..(counter + n)
<1>1. PICK part \in [SubNames -> Rejected(n)] :
        backlog' = [s \in SubNames |->
          IF Subscribed(s, t) THEN backlog[s] \o part[s] ELSE backlog[s]]
  BY DEF Publish
<1>2. counter \in Nat /\ counter' = counter + n /\ leases' = leases
  BY DEF Publish, Draw, TypeOK
<1>3. \A a, s, m : <<s, a, m>> \in leases => m \in 1..counter
  BY DEF TypeOK
<1>4. ASSUME NEW s \in SubNames PROVE Rising(backlog'[s], FreshOf(s)')
  <2> DEFINE F == FreshOf(s)'
             b == backlog[s]
             q == part[s]
  <2>1. /\ b \in Seq(Nat) /\ \A x \in DOMAIN b : b[x] \in 1..counter
        /\ Rising(b, FreshOf(s))
    BY RisingSplit, BacklogNat
  <2>2. New \subseteq F /\ \A m \in 1..counter : m \in F <=> m \in FreshOf(s)
    <3>1. F = {m \in 1..counter' : \A a : <<s, a, m>> \notin leases'}
      BY FreshMeansNext
    <3>2. FreshOf(s) = {m \in 1..counter : \A a : <<s, a, m>> \notin leases}
      BY FreshMeans
    <3>3. /\ \A m \in 1..counter : m \in 1..counter'
          /\ \A m \in New : m \in 1..counter' /\ m \notin 1..counter
      BY <1>2
    <3> HIDE DEF New, F
    <3> QED
      BY <1>2, <1>3, <3>1, <3>2, <3>3
  <2>3. Rising(b, F)
    BY <2>1, <2>2 DEF Rising
  <2>4. q \in Seq(New) /\ \A x, y \in DOMAIN q : x < y => q[x] < q[y]
    BY <1>1, <1>2, RejectedFacts
  <2> HIDE DEF New, F, b, q
  <2>5. \A x \in DOMAIN q : q[x] \in New
    BY <2>4, LenProperties
  <2>6. q \in Seq(Nat)
    <3>1. New \subseteq Nat
      BY <1>2 DEF New
    <3> QED
      BY <2>4, <3>1, SeqMonotonic
  <2>7. Rising(q, F)
    BY <2>2, <2>4, <2>5 DEF Rising
  <2>8. \A x \in DOMAIN b, y \in DOMAIN q : q[y] \in F /\ b[x] < q[y]
    <3>1. \A i \in 1..counter, j \in New : i < j
      BY <1>2 DEF New
    <3> QED
      BY <2>1, <2>2, <2>5, <3>1
  <2>9. Rising(b \o q, F)
    BY <2>1, <2>3, <2>6, <2>7, <2>8, ConcatRising
  <2> QED
    BY <1>1, <2>3, <2>9 DEF b, q, F
<1> QED
  BY <1>4, RisingJoin

LEMMA PullRising ==
  ASSUME TypeOK, TypeOK', OneCopy, FreshInOrder,
         NEW s \in SubNames, NEW max \in Nat, Pull(s, max)
  PROVE  FreshInOrder'
<1> DEFINE n    == Taken(s, max)
           b    == backlog[s]
           acks == (counter + 1)..(counter + n)
<1>1. /\ counter \in Nat /\ b \in Seq(1..counter) /\ Once(b) /\ Rising(b, FreshOf(s))
      /\ DOMAIN b = 1..Len(b) /\ Len(b) \in Nat
  BY OneCopySplit, RisingSplit, LenProperties DEF TypeOK, OneCopyIn
<1>2. n \in 0..Len(b)
  BY <1>1, TakenFacts
<1>3. /\ backlog'[s] = Rest(s, n) /\ counter' = counter + n
      /\ \A r \in SubNames \ {s} : backlog'[r] = backlog[r]
      /\ leases' = leases \union {<<s, a, b[a - counter]>> : a \in acks}
  BY DEF Pull, Draw, TypeOK
<1>4. /\ DOMAIN Rest(s, n) = 1..(Len(b) - n)
      /\ \A x \in DOMAIN Rest(s, n) : x + n \in DOMAIN b /\ Rest(s, n)[x] = b[x + n]
  BY <1>1, <1>2, RestFacts
<1>5. \A a \in acks : a - counter \in 1..n
  BY <1>1, <1>2
<1>6. \A m \in 1..counter : m \in 1..counter'
  BY <1>1, <1>2, <1>3
<1>7. ASSUME NEW r \in SubNames \ {s} PROVE Rising(backlog'[r], FreshOf(r)')
  <2>1. \A m \in 1..counter : m \in FreshOf(r)' <=> m \in FreshOf(r)
    BY <1>3, <1>6, FreshMeans, FreshMeansNext
  <2>2. /\ \A x \in DOMAIN backlog[r] : backlog[r][x] \in 1..counter
        /\ Rising(backlog[r], FreshOf(r))
    BY BacklogNat, RisingSplit
  <2> QED
    BY <1>3, <2>1, <2>2 DEF Rising
<1>8. Rising(backlog'[s], FreshOf(s)')
  <2> HIDE DEF n, b, acks
  <2>1. ASSUME NEW k \in DOMAIN b, k > n
        PROVE  b[k] \in FreshOf(s)' <=> b[k] \in FreshOf(s)
    <3>1. b[k] \in 1..counter
      BY <1>1, LenProperties
    <3>2. \A a \in acks : b[a - counter] # b[k]
      <4>1. \A j \in 1..n : j \in DOMAIN b /\ j # k
        BY <1>1, <1>2, <2>1
      <4> QED
        BY <1>1, <1>5, <4>1 DEF Once
    <3>3. \A a : <<s, a, b[k]>> \in leases' <=> <<s, a, b[k]>> \in leases
      BY <1>3, <3>2
    <3> QED
      BY <1>6, <3>1, <3>3, FreshMeans, FreshMeansNext
  <2>2. ASSUME NEW x \in DOMAIN Rest(s, n), NEW y \in DOMAIN Rest(s, n), x < y,
               Rest(s, n)[x] \in FreshOf(s)'
        PROVE  Rest(s, n)[y] \in FreshOf(s)' /\ Rest(s, n)[x] < Rest(s, n)[y]
    <3>1. /\ x + n \in DOMAIN b /\ y + n \in DOMAIN b /\ x + n < y + n
          /\ x + n > n /\ y + n > n
          /\ Rest(s, n)[x] = b[x + n] /\ Rest(s, n)[y] = b[y + n]
      BY <1>1, <1>2, <1>4, <2>2
    <3> QED
      BY <1>1, <2>1, <2>2, <3>1 DEF Rising
  <2> QED
    BY <1>3, <2>2 DEF Rising
<1> QED
  BY <1>7, <1>8, RisingJoin

(* What a nack returns has been leased, so it may come before fresh ones. *)
LEMMA NackRising ==
  ASSUME TypeOK, TypeOK', AckIdNamesOneLease, FreshInOrder,
         NEW s \in SubNames, NEW ids, Nack(s, ids)
  PROVE  FreshInOrder'
<1> DEFINE S == ids \intersect DOMAIN outstanding[s]
<1>1. PICK order \in Orders(S) : PutFirst(s, order)
  BY DEF Nack
<1> DEFINE back == Backwards(s, order)
<1>2. /\ back \in Seq(1..counter) /\ counter \in Nat
      /\ Values(back) = {outstanding[s][a] : a \in S}
  BY BackwardsFacts DEF TypeOK
<1>3. /\ backlog'[s] = back \o backlog[s]
      /\ \A r \in SubNames \ {s} : backlog'[r] = backlog[r]
      /\ leases' = leases /\ counter' = counter
  BY <1>1 DEF PutFirst, Nack, TypeOK
<1>4. \A r \in SubNames : FreshOf(r)' = FreshOf(r)
  BY <1>3, FreshMeans, FreshMeansNext
<1>5. \A r \in SubNames : Rising(backlog[r], FreshOf(r))
  BY RisingSplit
<1>6. \A m \in Values(back) : m \notin FreshOf(s)
  BY <1>2, FreshMeans DEF AckIdNamesOneLease
<1> HIDE DEF back
<1>7. back \in Seq(Nat) /\ backlog[s] \in Seq(Nat)
  <2>1. 1..counter \subseteq Nat
    BY <1>2
  <2> QED
    BY <1>2, <2>1, SeqMonotonic, BacklogNat
<1>8. \A x \in DOMAIN back : back[x] \notin FreshOf(s)
  BY <1>6 DEF Values
<1>9. Rising(back, FreshOf(s))
  BY <1>8 DEF Rising
<1>10. Rising(backlog'[s], FreshOf(s)')
  BY <1>3, <1>4, <1>5, <1>7, <1>8, <1>9, ConcatRising
<1> QED
  BY <1>3, <1>4, <1>5, <1>10, RisingJoin

LEMMA StepRising ==
  TypeOK /\ TypeOK' /\ OneCopy /\ AckIdNamesOneLease /\ FreshInOrder /\ [Next]_vars =>
    FreshInOrder'
<1> SUFFICES ASSUME TypeOK, TypeOK', OneCopy, AckIdNamesOneLease, FreshInOrder,
                    [Next]_vars
             PROVE  FreshInOrder'
  OBVIOUS
<1>1. CASE UNCHANGED <<backlog, leases, counter>>
  BY <1>1 DEF FreshInOrder, Fresh
<1>2. ASSUME NEW s \in SubNames, backlog' = [backlog EXCEPT ![s] = <<>>],
             UNCHANGED <<leases, counter>>
      PROVE  FreshInOrder'
  BY <1>2 DEF FreshInOrder, Fresh, TypeOK
<1>3. ASSUME NEW t \in TopicNames, NEW n \in 0..MaxBatch, Publish(t, n)
      PROVE  FreshInOrder'
  BY <1>3, PublishRising, PubSubAssumption
<1>4. ASSUME NEW s \in SubNames, NEW max \in 0..MaxPull, Pull(s, max)
      PROVE  FreshInOrder'
  BY <1>4, PullRising, PubSubAssumption
<1>5. CASE Reset
  BY <1>5 DEF Reset, FreshInOrder
<1> QED
  BY <1>1, <1>2, <1>3, <1>4, <1>5, NackRising
  DEF Next, CreateTopic, DeleteTopic, CreateSubscription, DeleteSubscription,
      RegisterHandler, Acknowledge, vars, state

(* Messages nobody has pulled come in the order of their publication, and  *)
(* behind everything that was nacked, whatever handlers refused and        *)
(* whatever was returned.                                                  *)
THEOREM FreshMessagesInOrder == Spec => []FreshInOrder
<1>1. Init => FreshInOrder
  BY DEF Init, FreshInOrder
<1> QED
  BY <1>1, StepRising, TypeCorrect, MessagesHeldOnce, AckIdsNameOneLease, PTL DEF Spec
==============================================================================
