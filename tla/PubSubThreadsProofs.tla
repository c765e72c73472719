------------------------- MODULE PubSubThreadsProofs -------------------------
(***************************************************************************)
(* What PubSubThreads promises, for any pool of workers, any names and any *)
(* bounds: type correctness with the counter inside its bound, no message  *)
(* lost or doubled however the workers interleave (CopiesConserved), and   *)
(* no lease in two responses (NoLeaseTwice).                               *)
(*                                                                         *)
(* None of the three is inductive alone.  A message is queued once because *)
(* a publish has not passed an object twice; it has not because the places *)
(* ahead of its iterator hold objects it has not delivered to (Undone);    *)
(* and they do, whatever other workers insert, delete and rebuild, because *)
(* the live places hold objects of different names (OneEntryPerName) and   *)
(* two publishes never carry the same message.                             *)
(***************************************************************************)
EXTENDS PubSubThreads, FiniteSetTheorems, FunctionTheorems, SequenceTheorems, TLAPS

Fanning == {"next subscription", "deliver"}
Holding == {"lease", "requeue"}
Owning  == {"deliver", "look", "pop", "lease", "acknowledge", "nack", "requeue"}
Control == {"idle", "next message", "insert", "delete"} \union Fanning \union Owning

(* The local variables of a worker: objects and numbers that were made.    *)
LeaseSet  == Made \X (1..counter) \X (1..counter)
LocalVars == [object : Made \union {Tomb}, message : 0..counter,
              left : 0..MaxCounter, pos : Nat, size : Nat, got : Nat,
              taken : SUBSET LeaseSet, ack : Nat, name : Names \union {"none"}]

WorkersInv ==
  /\ pc \in [Workers -> Control]
  /\ at \in [Workers -> LocalVars]
  /\ \A w \in Workers :
       /\ pc[w] \in Fanning \union Holding => at[w].message # 0
       /\ pc[w] \in Owning => at[w].object \in Made
       /\ pc[w] \in {"pop", "lease"} => at[w].left # 0
       /\ pc[w] = "insert" => at[w].name \in Names

(* No object and no number beyond the bounds: what the calls in progress   *)
(* may still want was there when they began.                               *)
ObjectsInv ==
  /\ entries \in Seq(Made \union {Tomb})
  /\ name \in Seq(Names)
  /\ Len(name) + Cardinality(Inserting) <= MaxObject

NumbersInv ==
  /\ counter \in Nat
  /\ counter + Cardinality(Reserved) <= MaxCounter

StoreInv ==
  /\ backlog \in [Objects -> Seq(1..counter)]
  /\ DOMAIN outstanding = Objects
  /\ \A o \in Objects : /\ outstanding[o] \in [DOMAIN outstanding[o] -> 1..counter]
                        /\ DOMAIN outstanding[o] \subseteq 1..counter
  /\ delivered \subseteq Made \X (1..counter)
  /\ settled \subseteq Made \X (1..counter)
  /\ reported \subseteq LeaseSet

TypeInv == WorkersInv /\ ObjectsInv /\ NumbersInv /\ StoreInv

(* Two places of the dict never hold subscriptions of one name. *)
OneEntryPerName ==
  \A x, y \in DOMAIN entries :
    /\ entries[x] # Tomb /\ entries[y] # Tomb
    /\ name[entries[x]] = name[entries[y]]
    => x = y

(* A publish has not delivered its message to any object ahead of it, nor  *)
(* to the one it is about to deliver to, which is not ahead of it.         *)
Fresh(e, d, m, p)     == \A x \in DOMAIN e : x > p => <<e[x], m>> \notin d
Apart(e, d, m, p, o)  == /\ <<o, m>> \notin d
                         /\ \A x \in DOMAIN e : x > p => e[x] # o

Undone ==
  \A w \in Workers :
    /\ pc[w] \in Fanning => Fresh(entries, delivered, at[w].message, at[w].pos)
    /\ pc[w] = "deliver" =>
         Apart(entries, delivered, at[w].message, at[w].pos, at[w].object)

OwnMessage ==
  \A v, w \in Workers :
    v # w /\ pc[v] \in Fanning /\ pc[w] \in Fanning => at[v].message # at[w].message

Fanout == OneEntryPerName /\ Undone /\ OwnMessage

(* CopiesConserved, place by place. *)
Given(o) == {m \in 1..counter : <<o, m>> \in delivered}

Once(f) == \A x, y \in DOMAIN f : f[x] = f[y] => x = y

FourPlaces(Q, L, H, S, G) ==
  /\ Q \union L \union H \union S = G
  /\ Q \intersect L = {} /\ Q \intersect H = {} /\ Q \intersect S = {}
  /\ L \intersect H = {} /\ L \intersect S = {} /\ H \intersect S = {}

OneHolder(o) ==
  \A v, w \in Workers :
    /\ v # w /\ at[v].object = o /\ at[w].object = o
    /\ pc[v] \in Holding /\ pc[w] \in Holding
    => at[v].message # at[w].message

CopiesOf(o) ==
  /\ FourPlaces(Queued(o), Leased(o), InHand(o), Settled(o), Given(o))
  /\ Once(backlog[o]) /\ Once(outstanding[o])
  /\ OneHolder(o)

Copies == \A o \in Objects : CopiesOf(o)

IInv == TypeInv /\ Fanout /\ Copies

------------------------------------------------------------------------------
(* Lemmas: finite sets of workers and of reserved numbers *)

(* Any set of workers is finite: a pool has a number of threads. *)
LEMMA FiniteWorkers ==
  ASSUME NEW S \in SUBSET Workers
  PROVE  IsFiniteSet(S) /\ Cardinality(S) \in Nat
BY ThreadsAssumption, FS_Subset, FS_CardinalityType

(* So is any set of numbers that workers may still draw. *)
LEMMA FiniteReserved ==
  ASSUME NEW S \in SUBSET (Workers \X (1..MaxCounter))
  PROVE  IsFiniteSet(S) /\ Cardinality(S) \in Nat
<1>1. IsFiniteSet(Workers) /\ IsFiniteSet(1..MaxCounter)
  BY ThreadsAssumption, FS_Interval
<1>2. IsFiniteSet(Workers \X (1..MaxCounter))
  BY <1>1, FS_Product
<1> QED
  BY <1>2, FS_Subset, FS_CardinalityType

(* A worker that gives up numbers, or keeps what it has, reserves no more. *)
LEMMA ReservedShrinks ==
  ASSUME NumbersInv, WorkersInv, NEW w \in Workers, NEW l,
         at' = [at EXCEPT ![w] = l], l.left \in 0..at[w].left
  PROVE  Cardinality(Reserved') \in Nat /\ Cardinality(Reserved') <= Cardinality(Reserved)
<1>1. \A v \in Workers : at'[v].left <= at[v].left /\ at[v].left \in Nat /\ at'[v].left \in Nat
  BY DEF WorkersInv, LocalVars
<1>2. Reserved' \subseteq Reserved
  BY <1>1 DEF Reserved
<1>3. Reserved \subseteq Workers \X (1..MaxCounter)
  BY DEF Reserved
<1> QED
  BY <1>2, <1>3, FiniteReserved, FS_Subset

(* Drawing one of its numbers, a worker reserves one less. *)
LEMMA ReservedDrawn ==
  ASSUME NumbersInv, WorkersInv, NEW w \in Workers, NEW l, at[w].left # 0,
         at' = [at EXCEPT ![w] = l], l.left = at[w].left - 1
  PROVE  /\ Cardinality(Reserved) \in Nat /\ Cardinality(Reserved') \in Nat
         /\ Cardinality(Reserved') + 1 = Cardinality(Reserved)
<1> DEFINE drawn == <<w, at[w].left>>
<1>1. \A v \in Workers : at[v].left \in 0..MaxCounter
  BY DEF WorkersInv, LocalVars
<1>2. \A v \in Workers : v # w => at'[v].left = at[v].left
  BY DEF WorkersInv
<1>3. at'[w].left = at[w].left - 1
  BY DEF WorkersInv
<1>4. drawn \in Reserved
  BY <1>1, ThreadsAssumption DEF Reserved
<1>5. ASSUME NEW v \in Workers, NEW k \in 1..MaxCounter
      PROVE  <<v, k>> \in Reserved' <=> <<v, k>> \in Reserved \ {drawn}
  BY <1>1, <1>2, <1>3, <1>5, ThreadsAssumption DEF Reserved
<1>6. Reserved' = Reserved \ {drawn}
  BY <1>5 DEF Reserved
<1>7. IsFiniteSet(Reserved) /\ Cardinality(Reserved) \in Nat
  BY FiniteReserved DEF Reserved
<1>8. IsFiniteSet(Reserved') /\ Cardinality(Reserved') \in Nat
  BY FiniteReserved DEF Reserved
<1> HIDE DEF drawn
<1> QED
  BY <1>4, <1>6, <1>7, <1>8, FS_RemoveElement

(* A call that begins reserves what it was granted and nothing beside it. *)
LEMMA ReservedGrows ==
  ASSUME NumbersInv, WorkersInv, NEW w \in Workers, NEW l, NEW n \in Nat,
         at' = [at EXCEPT ![w] = l], l.left = n, NumbersLeft(n)
  PROVE  /\ counter + Cardinality(Reserved') <= MaxCounter
         /\ Cardinality(Reserved') \in Nat
         /\ n \in 0..MaxCounter
<1> DEFINE granted == {w} \X (1..n)
<1>1. \A v \in Workers : v # w => at'[v].left = at[v].left
  BY DEF WorkersInv
<1>2. at'[w].left = n
  BY DEF WorkersInv
<1>3. Reserved' \subseteq Reserved \union granted
  BY <1>1, <1>2 DEF Reserved
<1>4. IsFiniteSet(Reserved) /\ Cardinality(Reserved) \in Nat
  BY FiniteReserved DEF Reserved
<1>5. IsFiniteSet(Reserved') /\ Cardinality(Reserved') \in Nat
  BY FiniteReserved DEF Reserved
<1>6. IsFiniteSet({w}) /\ Cardinality({w}) = 1
  BY FS_Singleton
<1>7. IsFiniteSet(1..n) /\ Cardinality(1..n) = n
  BY FS_Interval
<1>8. IsFiniteSet(granted) /\ Cardinality(granted) = n
  <2>1. IsFiniteSet(granted) /\ Cardinality(granted) = Cardinality({w}) * Cardinality(1..n)
    BY <1>6, <1>7, FS_Product
  <2> QED
    BY <2>1, <1>6, <1>7
<1> HIDE DEF granted
<1>9. /\ IsFiniteSet(Reserved \union granted)
      /\ Cardinality(Reserved \union granted) <= Cardinality(Reserved) + n
  <2>1. IsFiniteSet(Reserved \intersect granted)
    BY <1>4, FS_Intersection
  <2>2. Cardinality(Reserved \intersect granted) \in Nat
    BY <2>1, FS_CardinalityType
  <2>3. /\ IsFiniteSet(Reserved \union granted)
        /\ Cardinality(Reserved \union granted) = Cardinality(Reserved) + n
              - Cardinality(Reserved \intersect granted)
    BY <1>4, <1>8, FS_Union
  <2> QED
    BY <1>4, <2>2, <2>3
<1>10. Cardinality(Reserved') <= Cardinality(Reserved \union granted)
  BY <1>3, <1>9, FS_Subset
<1>11. Cardinality(Reserved \union granted) \in Nat
  BY <1>9, FS_CardinalityType
<1>12. counter \in Nat /\ MaxCounter \in Nat
  BY ThreadsAssumption DEF NumbersInv
<1> QED
  BY <1>4, <1>5, <1>9, <1>10, <1>11, <1>12 DEF NumbersLeft

------------------------------------------------------------------------------
(* Lemmas: types *)

(* Objects and numbers are only ever added. *)
Growing == /\ counter \in Nat /\ counter' \in Nat /\ counter <= counter'
           /\ Len(name) \in Nat /\ Len(name') \in Nat /\ Len(name) <= Len(name')

LEMMA Widening ==
  ASSUME Growing
  PROVE  /\ Made \subseteq Made' /\ 1..counter \subseteq 1..counter'
         /\ 0..counter \subseteq 0..counter'
         /\ LeaseSet \subseteq LeaseSet' /\ LocalVars \subseteq LocalVars'
<1>1. Made \subseteq Made' /\ 1..counter \subseteq 1..counter' /\ 0..counter \subseteq 0..counter'
  BY DEF Growing, Made
<1>2. LeaseSet \subseteq LeaseSet'
  BY <1>1 DEF LeaseSet
<1>3. Made \union {Tomb} \subseteq Made' \union {Tomb}
  BY <1>1
<1>4. SUBSET LeaseSet \subseteq SUBSET LeaseSet'
  BY <1>2
<1> HIDE DEF Made, LeaseSet, Tomb
<1>5. LocalVars \subseteq LocalVars'
  BY <1>1, <1>3, <1>4 DEF LocalVars
<1> QED
  BY <1>1, <1>2, <1>5

(* What a worker that moves has to establish. *)
Proper(to, l, made) ==
  /\ to \in Control
  /\ to \in Fanning \union Holding => l.message # 0
  /\ to \in Owning => l.object \in made
  /\ to \in {"pop", "lease"} => l.left # 0
  /\ to = "insert" => l.name \in Names

LEMMA WorkerMoves ==
  ASSUME WorkersInv, Growing, NEW w \in Workers, NEW to, NEW l \in LocalVars',
         pc' = [pc EXCEPT ![w] = to], at' = [at EXCEPT ![w] = l],
         Proper(to, l, Made')
  PROVE  WorkersInv'
<1>1. LocalVars \subseteq LocalVars' /\ Made \subseteq Made'
  BY Widening
<1>2. pc' \in [Workers -> Control]
  BY DEF WorkersInv, Proper
<1>3. at' \in [Workers -> LocalVars']
  BY <1>1 DEF WorkersInv
<1>4. ASSUME NEW v \in Workers
      PROVE  /\ pc'[v] \in Fanning \union Holding => at'[v].message # 0
             /\ pc'[v] \in Owning => at'[v].object \in Made'
             /\ pc'[v] \in {"pop", "lease"} => at'[v].left # 0
             /\ pc'[v] = "insert" => at'[v].name \in Names
  <2>1. CASE v = w
    <3>1. pc'[v] = to /\ at'[v] = l
      BY <2>1 DEF WorkersInv
    <3> QED
      BY <3>1 DEF Proper
  <2>2. CASE v # w
    <3>1. pc'[v] = pc[v] /\ at'[v] = at[v]
      BY <2>2 DEF WorkersInv
    <3> QED
      BY <1>1, <3>1 DEF WorkersInv
  <2> QED
    BY <2>1, <2>2
<1> QED
  BY <1>2, <1>3, <1>4 DEF WorkersInv

LEMMA WorkersStay ==
  ASSUME WorkersInv, UNCHANGED <<pc, at, counter, name>>
  PROVE  WorkersInv'
BY DEF WorkersInv, Made, LeaseSet, LocalVars

(* The record every returning call leaves. *)
LEMMA LocalsTyped ==
  ASSUME NEW n \in Names \union {"none"}, NEW o \in Made' \union {Tomb},
         NEW m \in 0..counter', NEW k \in 0..MaxCounter, counter' \in Nat
  PROVE  /\ Locals \in LocalVars'
         /\ [Locals EXCEPT !.name = n] \in LocalVars'
         /\ [Locals EXCEPT !.left = k] \in LocalVars'
         /\ [Locals EXCEPT !.object = o, !.left = k] \in LocalVars'
         /\ [Locals EXCEPT !.object = o, !.message = m] \in LocalVars'
<1>1. Locals \in LocalVars'
  BY ThreadsAssumption DEF Locals, LocalVars
<1> HIDE DEF Made, LeaseSet, Tomb
<1> QED
  BY <1>1 DEF LocalVars

(* The record a worker leaves when it moves on inside a call. *)
LEMMA Updated ==
  ASSUME NEW r \in LocalVars', NEW m \in 0..counter', NEW k \in 0..MaxCounter,
         NEW x \in Nat, NEW y \in Nat, NEW z \in Nat, NEW o \in Made' \union {Tomb},
         NEW t \in SUBSET LeaseSet'
  PROVE  /\ [r EXCEPT !.message = m, !.left = k, !.pos = x, !.size = y, !.got = z]
              \in LocalVars'
         /\ [r EXCEPT !.pos = x, !.got = y, !.object = o] \in LocalVars'
         /\ [r EXCEPT !.message = m] \in LocalVars'
         /\ [r EXCEPT !.taken = t, !.left = k, !.message = m] \in LocalVars'
<1> HIDE DEF Made, LeaseSet, Tomb
<1> QED
  BY DEF LocalVars

(* The parts of the state most steps leave alone. *)
LEMMA ObjectsStay ==
  ASSUME TypeInv, NEW w \in Workers, NEW to, to # "insert",
         pc' = [pc EXCEPT ![w] = to] \/ pc' = pc, UNCHANGED <<entries, name>>
  PROVE  ObjectsInv'
<1>1. Inserting' \subseteq Inserting
  BY DEF TypeInv, WorkersInv, Inserting
<1>2. IsFiniteSet(Inserting) /\ Cardinality(Inserting) \in Nat
  BY FiniteWorkers DEF Inserting
<1>3. Cardinality(Inserting') <= Cardinality(Inserting) /\ Cardinality(Inserting') \in Nat
  BY <1>1, <1>2, FS_Subset, FiniteWorkers DEF Inserting
<1>4. Len(name) \in Nat /\ MaxObject \in Nat
  BY ThreadsAssumption DEF TypeInv, ObjectsInv
<1>5. Len(name) + Cardinality(Inserting') <= MaxObject
  BY <1>2, <1>3, <1>4 DEF TypeInv, ObjectsInv
<1> QED
  BY <1>5 DEF TypeInv, ObjectsInv, Made

LEMMA NumbersStay ==
  ASSUME TypeInv, NEW w \in Workers, NEW l, counter' = counter,
         (at' = [at EXCEPT ![w] = l] /\ l.left \in 0..at[w].left) \/ at' = at
  PROVE  NumbersInv'
<1>1. Cardinality(Reserved) \in Nat /\ counter \in Nat /\ MaxCounter \in Nat
  BY FiniteReserved, ThreadsAssumption DEF Reserved, TypeInv, NumbersInv
<1>2. Cardinality(Reserved') \in Nat /\ Cardinality(Reserved') <= Cardinality(Reserved)
  <2>1. CASE at' = at
    BY <1>1, <2>1 DEF Reserved
  <2>2. CASE at' = [at EXCEPT ![w] = l] /\ l.left \in 0..at[w].left
    BY <2>2, ReservedShrinks DEF TypeInv
  <2> QED
    BY <2>1, <2>2
<1> QED
  BY <1>1, <1>2 DEF TypeInv, NumbersInv

LEMMA StoreStays ==
  ASSUME TypeInv, Growing, UNCHANGED <<backlog, outstanding, delivered, settled, reported>>
  PROVE  StoreInv'
<1>1. 1..counter \subseteq 1..counter' /\ Made \subseteq Made' /\ LeaseSet \subseteq LeaseSet'
  BY Widening
<1>2. ASSUME NEW o \in Objects PROVE backlog[o] \in Seq(1..counter')
  <2>1. backlog[o] \in Seq(1..counter)
    BY DEF TypeInv, StoreInv
  <2> QED
    BY <1>1, <2>1, SeqMonotonic
<1>3. backlog' \in [Objects -> Seq(1..counter')]
  BY <1>2 DEF TypeInv, StoreInv
<1>4. /\ delivered' \subseteq Made' \X (1..counter')
      /\ settled' \subseteq Made' \X (1..counter')
      /\ reported' \subseteq LeaseSet'
  BY <1>1 DEF TypeInv, StoreInv
<1>5. ASSUME NEW o \in Objects
      PROVE  /\ outstanding'[o] \in [DOMAIN outstanding'[o] -> 1..counter']
             /\ DOMAIN outstanding'[o] \subseteq 1..counter'
  BY <1>1 DEF TypeInv, StoreInv
<1> QED
  BY <1>3, <1>4, <1>5 DEF TypeInv, StoreInv

LEMMA SameNumbers ==
  ASSUME TypeInv, UNCHANGED <<counter, name>>
  PROVE  Growing
BY DEF TypeInv, NumbersInv, ObjectsInv, Growing

(* A step that moves one worker and changes nothing it shares. *)
LEMMA MoveTyped ==
  ASSUME TypeInv, NEW w \in Workers, NEW to, NEW l \in LocalVars', to # "insert",
         pc' = [pc EXCEPT ![w] = to], at' = [at EXCEPT ![w] = l],
         l.left \in 0..at[w].left, Proper(to, l, Made'), UNCHANGED <<entries, name, counter>>
  PROVE  WorkersInv' /\ ObjectsInv' /\ NumbersInv' /\ Growing
<1>1. Growing
  BY SameNumbers
<1> QED
  BY <1>1, WorkerMoves, ObjectsStay, NumbersStay DEF TypeInv

LEMMA NumbersOf ==
  ASSUME TypeInv, NEW w \in Workers
  PROVE  /\ at[w].left \in 0..MaxCounter /\ at[w].left \in Nat
         /\ at[w].message \in 0..counter /\ at[w].message \in Nat
         /\ at[w].pos \in Nat /\ at[w].got \in Nat /\ at[w].size \in Nat
         /\ counter \in Nat /\ Len(name) \in Nat
<1>1. at[w] \in LocalVars /\ counter \in Nat /\ Len(name) \in Nat
  BY DEF TypeInv, WorkersInv, NumbersInv, ObjectsInv
<1> HIDE DEF Made, LeaseSet, Tomb
<1>2. /\ at[w].left \in 0..MaxCounter /\ at[w].message \in 0..counter
      /\ at[w].pos \in Nat /\ at[w].got \in Nat /\ at[w].size \in Nat
  BY <1>1 DEF LocalVars
<1>3. at[w].left \in Nat /\ at[w].message \in Nat
  BY <1>1, <1>2, ThreadsAssumption
<1> QED
  BY <1>1, <1>2, <1>3

LEMMA LocalsOf ==
  ASSUME TypeInv, NEW w \in Workers
  PROVE  /\ at[w] \in LocalVars /\ at[w].left \in 0..MaxCounter
         /\ at[w].message \in 0..counter /\ at[w].taken \in SUBSET LeaseSet
         /\ at[w].pos \in Nat /\ at[w].got \in Nat /\ at[w].size \in Nat
         /\ at[w].object \in Made \union {Tomb}
         /\ counter \in Nat /\ Len(name) \in Nat /\ Made \subseteq Objects
         /\ at[w] = [at[w] EXCEPT !.left = at[w].left]
         /\ at = [at EXCEPT ![w] = at[w]]
<1>1. at \in [Workers -> LocalVars] /\ counter \in Nat /\ Len(name) \in Nat
  BY DEF TypeInv, WorkersInv, NumbersInv, ObjectsInv
<1>2. at[w] \in LocalVars /\ at = [at EXCEPT ![w] = at[w]]
  BY <1>1
<1>3. Made \subseteq Objects
  <2>1. Cardinality(Inserting) \in Nat /\ MaxObject \in Nat
    BY FiniteWorkers, ThreadsAssumption DEF Inserting
  <2>2. Len(name) <= MaxObject
    BY <1>1, <2>1 DEF TypeInv, ObjectsInv
  <2> QED
    BY <1>1, <2>1, <2>2 DEF Made, Objects
<1> HIDE DEF Made, LeaseSet, Tomb
<1>4. /\ at[w].left \in 0..MaxCounter
      /\ at[w].message \in 0..counter /\ at[w].taken \in SUBSET LeaseSet
      /\ at[w].pos \in Nat /\ at[w].got \in Nat /\ at[w].size \in Nat
      /\ at[w].object \in Made \union {Tomb}
      /\ at[w] = [at[w] EXCEPT !.left = at[w].left]
  BY <1>2 DEF LocalVars
<1> QED
  BY <1>1, <1>2, <1>3, <1>4

(* A call that returns forgets its local variables. *)
LEMMA ReturnTyped ==
  ASSUME TypeInv, NEW w \in Workers, NEW from, Return(w, from),
         UNCHANGED <<entries, name, counter>>
  PROVE  WorkersInv' /\ ObjectsInv' /\ NumbersInv' /\ Growing
<1>1. counter' \in Nat /\ at[w].left \in 0..MaxCounter
  BY LocalsOf
<1>2. Locals \in LocalVars' /\ Locals.left = 0
  <2>1. 0 \in 0..counter' /\ 0 \in 0..MaxCounter
    BY <1>1, ThreadsAssumption
  <2> QED
    BY <1>1, <2>1, LocalsTyped DEF Locals
<1>3. Locals.left \in 0..at[w].left
  BY <1>1, <1>2
<1>4. Proper("idle", Locals, Made')
  BY DEF Proper, Control, Fanning, Holding, Owning
<1>5. pc' = [pc EXCEPT ![w] = "idle"] /\ at' = [at EXCEPT ![w] = Locals]
  BY DEF Return, Goto, Set
<1> QED
  BY <1>2, <1>3, <1>4, <1>5, MoveTyped

(* A step inside a call that keeps the local variables. *)
LEMMA GotoTyped ==
  ASSUME TypeInv, NEW w \in Workers, NEW from, NEW to, Goto(w, from, to),
         at' = at, to # "insert", Proper(to, at[w], Made), UNCHANGED <<entries, name, counter>>
  PROVE  WorkersInv' /\ ObjectsInv' /\ NumbersInv' /\ Growing
<1>1. at[w] \in LocalVars /\ at' = [at EXCEPT ![w] = at[w]] /\ at[w].left \in 0..at[w].left
  <2>1. at[w] \in LocalVars /\ at' = [at EXCEPT ![w] = at[w]]
    BY LocalsOf
  <2>2. at[w].left \in Nat
    BY NumbersOf
  <2>3. at[w].left \in 0..at[w].left
    BY <2>2
  <2> QED
    BY <2>1, <2>3
<1>2. at[w] \in LocalVars'
  BY <1>1, SameNumbers, Widening
<1>3. Proper(to, at[w], Made')
  BY DEF Proper, Made
<1> QED
  BY <1>1, <1>2, <1>3, MoveTyped DEF Goto

------------------------------------------------------------------------------
(* Types: publish *)

LEMMA CallPublishTyped ==
  ASSUME TypeInv, NEW w \in Workers, NEW n \in 0..MaxBatch, CallPublish(w, n)
  PROVE  TypeInv'
<1> DEFINE l == [Locals EXCEPT !.left = n]
<1>1. /\ pc' = [pc EXCEPT ![w] = "next message"] /\ at' = [at EXCEPT ![w] = l]
      /\ UNCHANGED <<shared, ghosts>> /\ NumbersLeft(n)
  BY DEF CallPublish, Goto, Set
<1>0. n \in Nat
  BY ThreadsAssumption
<1>2. Growing /\ counter' \in Nat
  BY <1>1, SameNumbers DEF shared, Growing
<1>3. l.left = n /\ Proper("next message", l, Made')
  BY DEF Locals, Proper, Control, Fanning, Holding, Owning
<1> HIDE DEF l
<1>4. /\ counter + Cardinality(Reserved') <= MaxCounter
      /\ n \in 0..MaxCounter
  BY <1>0, <1>1, <1>3, ReservedGrows DEF TypeInv
<1>5. l \in LocalVars'
  <2>1. 0 \in 0..counter'
    BY <1>2
  <2> QED
    BY <1>2, <1>4, <2>1, LocalsTyped DEF l
<1>6. WorkersInv'
  BY <1>1, <1>2, <1>3, <1>5, WorkerMoves DEF TypeInv
<1>7. ObjectsInv'
  BY <1>1, ObjectsStay DEF shared
<1>8. NumbersInv'
  BY <1>1, <1>2, <1>4 DEF NumbersInv, shared
<1>9. StoreInv'
  BY <1>1, <1>2, StoreStays DEF shared, ghosts
<1> QED
  BY <1>6, <1>7, <1>8, <1>9 DEF TypeInv

LEMMA NextMessageTyped ==
  ASSUME TypeInv, NEW w \in Workers, NextMessage(w)
  PROVE  TypeInv'
<1> DEFINE k == at[w].left - 1
           m == counter + 1
           l == [at[w] EXCEPT !.message = m, !.left = k, !.pos = 0, !.size = Size, !.got = 0]
<1>1. /\ pc' = [pc EXCEPT ![w] = "next subscription"] /\ at' = [at EXCEPT ![w] = l]
      /\ counter' = m /\ at[w].left > 0
      /\ UNCHANGED <<entries, name, backlog, outstanding, delivered, settled, reported>>
  BY DEF NextMessage, Goto, Set, Draw
<1> HIDE DEF l
<1>2. Growing /\ m \in 0..counter' /\ m # 0
  <2>1. counter \in Nat /\ Len(name) \in Nat /\ counter' = counter + 1 /\ name' = name
    BY <1>1, NumbersOf
  <2> QED
    BY <2>1 DEF Growing
<1>3. k \in 0..MaxCounter /\ at[w].left # 0
  <2>1. at[w].left > 0
    BY <1>1
  <2>2. at[w].left \in 0..MaxCounter /\ MaxCounter \in Nat
    BY NumbersOf, ThreadsAssumption
  <2> QED
    BY <2>1, <2>2
<1>4. Size \in Nat
  <2>1. IsFiniteSet(1..Len(name))
    BY <1>2, FS_Interval DEF Growing
  <2>2. Live \subseteq 1..Len(name)
    BY DEF TypeInv, ObjectsInv, Live, Made, Tomb
  <2> QED
    BY <2>1, <2>2, FS_Subset, FS_CardinalityType DEF Size
<1>5. at[w] \in LocalVars'
  BY <1>2, LocalsOf, Widening
<1> HIDE DEF k, m
<1>6. l.left = k /\ l.message = m
  BY <1>5 DEF LocalVars, l
<1>7. l \in LocalVars'
  BY <1>2, <1>3, <1>4, <1>5, Updated DEF l
<1>8. Proper("next subscription", l, Made')
  BY <1>2, <1>6 DEF Proper, Control, Fanning, Holding, Owning
<1>9. WorkersInv'
  BY <1>1, <1>2, <1>7, <1>8, WorkerMoves DEF TypeInv
<1>10. ObjectsInv'
  BY <1>1, ObjectsStay
<1>11. NumbersInv'
  <2>1. /\ Cardinality(Reserved) \in Nat /\ Cardinality(Reserved') \in Nat
        /\ Cardinality(Reserved') + 1 = Cardinality(Reserved)
    BY <1>1, <1>3, <1>6, ReservedDrawn DEF TypeInv, k
  <2>2. counter \in Nat /\ counter' = counter + 1 /\ MaxCounter \in Nat
    BY <1>1, NumbersOf, ThreadsAssumption DEF m
  <2> QED
    BY <2>1, <2>2 DEF TypeInv, NumbersInv
<1>12. StoreInv'
  BY <1>1, <1>2, StoreStays
<1> QED
  BY <1>9, <1>10, <1>11, <1>12 DEF TypeInv

LEMMA NextSubscriptionTyped ==
  ASSUME TypeInv, NEW w \in Workers, NextSubscription(w)
  PROVE  TypeInv'
<1> DEFINE g == at[w].got + 1
<1>1. PICK x \in Ahead(w) :
         at' = [at EXCEPT ![w] = [at[w] EXCEPT !.pos = x, !.got = g, !.object = entries[x]]]
  BY DEF NextSubscription, Set
<1>2. /\ pc' = [pc EXCEPT ![w] = "deliver"] /\ pc[w] = "next subscription"
      /\ UNCHANGED <<shared, ghosts>>
  BY DEF NextSubscription, Goto
<1>3. Growing
  BY <1>2, SameNumbers DEF shared
<1>4. x \in Nat /\ entries[x] \in Made
  BY DEF Ahead, TypeInv, ObjectsInv
<1>5. g \in Nat
  BY NumbersOf
<1> HIDE DEF g
<1> DEFINE l == [at[w] EXCEPT !.pos = x, !.got = g, !.object = entries[x]]
<1>6. at[w] \in LocalVars'
  BY <1>3, LocalsOf, Widening
<1>7. entries[x] \in Made' \union {Tomb} /\ Made' = Made
  BY <1>2, <1>4 DEF shared, Made
<1>8. l \in LocalVars'
  <2> HIDE DEF Made, Tomb, LeaseSet
  <2> QED
    BY <1>4, <1>5, <1>6, <1>7 DEF LocalVars
<1>9. l.left = at[w].left /\ l.object = entries[x] /\ l.message = at[w].message
  BY <1>6 DEF LocalVars
<1> HIDE DEF l
<1>10. l.left \in 0..at[w].left
  <2>1. at[w].left \in Nat
    BY NumbersOf
  <2> QED
    BY <2>1, <1>9
<1>11. Proper("deliver", l, Made')
  <2>1. at[w].message # 0
    BY <1>2 DEF TypeInv, WorkersInv, Fanning
  <2> QED
    BY <2>1, <1>4, <1>7, <1>9 DEF Proper, Control, Fanning, Holding, Owning
<1>12. WorkersInv' /\ ObjectsInv' /\ NumbersInv'
  BY <1>1, <1>2, <1>8, <1>10, <1>11, MoveTyped DEF l, shared
<1>13. StoreInv'
  BY <1>2, <1>3, StoreStays DEF shared, ghosts
<1> QED
  BY <1>12, <1>13 DEF TypeInv

(* Every other end of a publish. *)
LEMMA PublishEndsTyped ==
  ASSUME TypeInv, NEW w \in Workers, PublishReturns(w) \/ FannedOut(w) \/ PublishFails(w)
  PROVE  TypeInv'
<1>1. UNCHANGED <<entries, name, counter, backlog, outstanding, delivered, settled, reported>>
  BY DEF PublishReturns, FannedOut, PublishFails, shared, ghosts
<1>2. WorkersInv' /\ ObjectsInv' /\ NumbersInv' /\ Growing
  <2>1. CASE PublishReturns(w) \/ PublishFails(w)
    BY <1>1, <2>1, ReturnTyped DEF PublishReturns, PublishFails
  <2>2. CASE FannedOut(w)
    <3>1. Proper("next message", at[w], Made)
      BY DEF Proper, Control, Fanning, Holding, Owning
    <3>2. Goto(w, "next subscription", "next message") /\ at' = at
      BY <2>2 DEF FannedOut
    <3> QED
      BY <1>1, <3>1, <3>2, GotoTyped
  <2> QED
    BY <2>1, <2>2
<1>3. StoreInv'
  BY <1>1, <1>2, StoreStays
<1> QED
  BY <1>2, <1>3 DEF TypeInv

(* What a worker that owns an object and a message may do with them. *)
LEMMA Owned ==
  ASSUME TypeInv, NEW w \in Workers, pc[w] \in Owning
  PROVE  /\ at[w].object \in Made /\ at[w].object \in Objects
         /\ pc[w] \in Fanning \union Holding => at[w].message \in 1..counter
<1>1. at[w].object \in Made /\ Made \subseteq Objects
  BY LocalsOf DEF TypeInv, WorkersInv
<1>2. at[w].message \in 0..counter /\ counter \in Nat
  BY NumbersOf
<1>3. pc[w] \in Fanning \union Holding => at[w].message # 0
  BY DEF TypeInv, WorkersInv
<1> QED
  BY <1>1, <1>2, <1>3

LEMMA DeliverTyped ==
  ASSUME TypeInv, NEW w \in Workers, Deliver(w)
  PROVE  TypeInv'
<1> DEFINE o == at[w].object
           m == at[w].message
<1>1. /\ Goto(w, "deliver", "next subscription") /\ at' = at
      /\ delivered' = delivered \union {<<o, m>>}
      /\ UNCHANGED <<entries, name, outstanding, counter, reported>>
  BY DEF Deliver
<1>2. \/ backlog' = [backlog EXCEPT ![o] = Append(@, m)] /\ settled' = settled
      \/ backlog' = backlog /\ settled' = settled \union {<<o, m>>}
  BY DEF Deliver
<1>3. o \in Made /\ o \in Objects /\ m \in 1..counter
  BY <1>1, Owned DEF Goto, Owning, Fanning
<1>4. WorkersInv' /\ ObjectsInv' /\ NumbersInv'
  <2>1. m # 0
    BY <1>3
  <2>2. Proper("next subscription", at[w], Made)
    BY <2>1 DEF Proper, Control, Fanning, Holding, Owning
  <2> QED
    BY <1>1, <2>2, GotoTyped
<1> HIDE DEF o, m
<1>5. backlog' \in [Objects -> Seq(1..counter)]
  <2>1. backlog \in [Objects -> Seq(1..counter)]
    BY DEF TypeInv, StoreInv
  <2>2. Append(backlog[o], m) \in Seq(1..counter)
    BY <1>3, <2>1, AppendProperties
  <2> QED
    BY <1>2, <1>3, <2>1, <2>2
<1>6. Made' = Made /\ LeaseSet' = LeaseSet
  BY <1>1 DEF Made, LeaseSet
<1>7. delivered' \subseteq Made \X (1..counter) /\ settled' \subseteq Made \X (1..counter)
  <2>1. <<o, m>> \in Made \X (1..counter)
    BY <1>3
  <2>2. delivered \subseteq Made \X (1..counter) /\ settled \subseteq Made \X (1..counter)
    BY DEF TypeInv, StoreInv
  <2> QED
    BY <1>1, <1>2, <2>1, <2>2
<1>8. StoreInv'
  BY <1>1, <1>5, <1>6, <1>7 DEF TypeInv, StoreInv
<1> QED
  BY <1>4, <1>8 DEF TypeInv

------------------------------------------------------------------------------
(* Types: create and delete *)

LEMMA KeptFinite ==
  ASSUME NEW E, entries \in Seq(E)
  PROVE  /\ Kept \subseteq 1..Len(entries) /\ Len(entries) \in Nat
         /\ DOMAIN entries = 1..Len(entries)
         /\ IsFiniteSet(Kept) /\ Cardinality(Kept) \in Nat
<1>1. Kept \subseteq 1..Len(entries) /\ Len(entries) \in Nat /\ DOMAIN entries = 1..Len(entries)
  BY DEF Kept
<1>2. IsFiniteSet(1..Len(entries))
  BY <1>1, FS_Interval
<1>3. IsFiniteSet(Kept)
  BY <1>1, <1>2, FS_Subset
<1> QED
  BY <1>1, <1>3, FS_CardinalityType

(* Rebuilding the dict keeps its live keys in order, so that a key never   *)
(* moves away from the front.                                              *)
LEMMA Rebuilt ==
  ASSUME NEW E, entries \in Seq(E)
  PROVE  \A k \in 1..Cardinality(Kept) :
           /\ Place(k) \in DOMAIN entries /\ k <= Place(k)
           /\ \A l \in 1..Cardinality(Kept) : Place(k) = Place(l) => k = l
<1> DEFINE Below(x) == {y \in Kept : y <= x}
           Rank(x)  == Cardinality(Below(x))
<1>1. Kept \subseteq 1..Len(entries) /\ Len(entries) \in Nat /\ DOMAIN entries = 1..Len(entries)
  BY KeptFinite
<1>2. IsFiniteSet(Kept) /\ Cardinality(Kept) \in Nat
  BY KeptFinite
<1>3. ASSUME NEW x \in Kept PROVE /\ IsFiniteSet(Below(x)) /\ Rank(x) \in 1..Cardinality(Kept)
                                  /\ Rank(x) <= x
  <2>1. Below(x) \subseteq Kept /\ Below(x) # {} /\ x \in Nat
    BY <1>1
  <2>2. /\ IsFiniteSet(Below(x)) /\ Rank(x) \in Nat /\ Rank(x) <= Cardinality(Kept)
        /\ Rank(x) # 0
    BY <1>2, <2>1, FS_Subset, FS_CardinalityType, FS_EmptySet
  <2>3. Below(x) \subseteq 1..x
    <3> SUFFICES ASSUME NEW z \in Kept, z <= x PROVE z \in 1..x
      OBVIOUS
    <3>1. z \in Nat /\ 1 <= z
      BY <1>1
    <3> QED
      BY <2>1, <3>1
  <2>4. IsFiniteSet(1..x) /\ Cardinality(1..x) = x
    BY <2>1, FS_Interval, <1>1
  <2>5. Rank(x) <= x
    BY <2>3, <2>4, FS_Subset
  <2> QED
    BY <1>2, <2>2, <2>5
<1>4. ASSUME NEW x \in Kept, NEW y \in Kept, x < y PROVE Rank(x) # Rank(y)
  <2>1. x \in Nat /\ y \in Nat /\ \A z \in Kept : z \in Nat
    BY <1>1
  <2>3. \A z \in Kept : z <= x => z <= y
    BY <1>4, <2>1
  <2>4. y <= y /\ ~(y <= x)
    BY <1>4, <2>1
  <2>5. Below(x) \subseteq Below(y) /\ y \in Below(y) /\ y \notin Below(x)
    BY <2>3, <2>4
  <2>2. IsFiniteSet(Below(y))
    BY <1>3
  <2> QED
    BY <2>2, <2>5, FS_Subset
<1>5. \A x, y \in Kept : Rank(x) = Rank(y) => x = y
  <2> SUFFICES ASSUME NEW x \in Kept, NEW y \in Kept, Rank(x) = Rank(y), x # y
               PROVE  FALSE
    OBVIOUS
  <2>1. x < y \/ y < x
    BY <1>1
  <2> HIDE DEF Rank
  <2> QED
    BY <1>4, <2>1
<1> DEFINE f == [x \in Kept |-> Rank(x)]
<1>6. f \in Injection(Kept, 1..Cardinality(Kept))
  <2> HIDE DEF Rank
  <2> QED
    BY <1>3, <1>5 DEF Injection, IsInjective
<1>7. IsFiniteSet(1..Cardinality(Kept)) /\ Cardinality(1..Cardinality(Kept)) = Cardinality(Kept)
  BY <1>2, FS_Interval
<1>8. f \in Surjection(Kept, 1..Cardinality(Kept))
  BY <1>6, <1>7, FS_Injection
<1>9. ASSUME NEW k \in 1..Cardinality(Kept) PROVE \E x \in Kept : Rank(x) = k
  <2> HIDE DEF Rank
  <2> QED
    BY <1>8, <1>9 DEF Surjection
<1>10. ASSUME NEW k \in 1..Cardinality(Kept) PROVE Place(k) \in Kept /\ Rank(Place(k)) = k
  BY <1>9 DEF Place
<1> HIDE DEF Rank
<1> QED
  BY <1>1, <1>2, <1>3, <1>10

(* The dict with a new key at its end: each old place holds what a place   *)
(* at or after it held, and no two the same one.                           *)
LEMMA Extended ==
  ASSUME NEW E, entries \in Seq(E), NEW o \in E, NEW next, next = Append(Room, o)
  PROVE  /\ next \in Seq(E)
         /\ \E old \in [DOMAIN next -> Nat] :
              /\ \A k \in DOMAIN next : k < Len(next) =>
                   /\ old[k] \in DOMAIN entries /\ k <= old[k]
                   /\ next[k] = entries[old[k]]
              /\ \A k, l \in DOMAIN next :
                   k < Len(next) /\ l < Len(next) /\ old[k] = old[l] => k = l
         /\ next[Len(next)] = o
<1> DEFINE from == IF Len(entries) < Slots THEN [k \in 1..Len(entries) |-> k]
                   ELSE [k \in 1..Cardinality(Kept) |-> Place(k)]
<1>1. DOMAIN entries = 1..Len(entries) /\ Len(entries) \in Nat /\ \A x \in DOMAIN entries : entries[x] \in E
  BY LenProperties, ElementOfSeq
<1>3. Cardinality(Kept) \in Nat
  BY KeptFinite
<1>4. PICK n \in Nat : /\ Room \in Seq(E) /\ Len(Room) = n
                       /\ from \in [1..n -> DOMAIN entries]
                       /\ \A k \in 1..n : k <= from[k] /\ Room[k] = entries[from[k]]
                       /\ \A k, l \in 1..n : from[k] = from[l] => k = l
  <2>1. CASE Len(entries) < Slots
    BY <1>1, <2>1 DEF Room
  <2>2. CASE ~(Len(entries) < Slots)
    <3>1. Room = [k \in 1..Cardinality(Kept) |-> entries[Place(k)]]
      BY <2>2 DEF Room
    <3>2. from = [k \in 1..Cardinality(Kept) |-> Place(k)]
      BY <2>2
    <3>3. \A k \in 1..Cardinality(Kept) :
             /\ Place(k) \in DOMAIN entries /\ k <= Place(k)
             /\ \A l \in 1..Cardinality(Kept) : Place(k) = Place(l) => k = l
      BY Rebuilt
    <3>4. Room \in Seq(E) /\ Len(Room) = Cardinality(Kept)
      BY <1>1, <1>3, <3>1, <3>3
    <3> HIDE DEF from
    <3> QED
      BY <1>3, <3>1, <3>2, <3>3, <3>4
  <2> QED
    BY <2>1, <2>2
<1> HIDE DEF from
<1>5. /\ next \in Seq(E) /\ Len(next) = n + 1 /\ next[Len(next)] = o
      /\ DOMAIN next = 1..(n + 1) /\ \A k \in 1..n : next[k] = Room[k]
  BY <1>4, AppendProperties
<1> DEFINE old == [k \in 1..(n + 1) |-> IF k \in 1..n THEN from[k] ELSE 0]
<1>6. old \in [DOMAIN next -> Nat]
  BY <1>1, <1>4, <1>5
<1>7. \A k \in DOMAIN next : k < Len(next) => k \in 1..n /\ old[k] = from[k]
  BY <1>5
<1> HIDE DEF old
<1>8. \A k \in DOMAIN next : k < Len(next) =>
        /\ old[k] \in DOMAIN entries /\ k <= old[k] /\ next[k] = entries[old[k]]
  BY <1>4, <1>5, <1>7
<1>9. \A k, l \in DOMAIN next : k < Len(next) /\ l < Len(next) /\ old[k] = old[l] => k = l
  BY <1>4, <1>7
<1> QED
  BY <1>5, <1>6, <1>8, <1>9

(* A name takes the next object; the call that wanted it is over. *)
LEMMA InsertTyped ==
  ASSUME TypeInv, NEW w \in Workers, Insert(w)
  PROVE  TypeInv'
<1> DEFINE o   == Len(name) + 1
           old == Find(at[w].name)
<1>1. /\ pc[w] = "insert" /\ pc' = [pc EXCEPT ![w] = "idle"]
      /\ at' = [at EXCEPT ![w] = Locals] /\ name' = Append(name, at[w].name)
      /\ UNCHANGED <<backlog, outstanding, counter, delivered, settled, reported>>
  BY DEF Insert, Return, Goto, Set
<1>2. entries' = IF old = {} THEN Append(Room, o)
                 ELSE [x \in DOMAIN entries |-> IF entries[x] \in old THEN o ELSE entries[x]]
  BY DEF Insert
<1>3. at[w].name \in Names
  BY <1>1 DEF TypeInv, WorkersInv
<1>4. name' \in Seq(Names) /\ Len(name') = o /\ Len(name) \in Nat
  BY <1>1, <1>3, AppendProperties DEF TypeInv, ObjectsInv
<1>5. Growing
  <2>1. counter \in Nat /\ counter' = counter
    BY <1>1 DEF TypeInv, NumbersInv
  <2> QED
    BY <2>1, <1>4 DEF Growing
<1>6. Made \subseteq Made' /\ o \in Made'
  BY <1>4 DEF Made
<1> HIDE DEF o, old
<1>7. entries' \in Seq(Made' \union {Tomb})
  <2>1. entries \in Seq(Made' \union {Tomb})
    <3>1. entries \in Seq(Made \union {Tomb}) /\ Made \union {Tomb} \subseteq Made' \union {Tomb}
      BY <1>6 DEF TypeInv, ObjectsInv
    <3> QED
      BY <3>1, SeqMonotonic
  <2>2. CASE old = {}
    <3>1. o \in Made' \union {Tomb}
      BY <1>6
    <3> HIDE DEF Made, Tomb
    <3> QED
      BY <1>2, <2>1, <2>2, <3>1, Extended
  <2>3. CASE old # {}
    <3>1. entries' = [x \in 1..Len(entries) |-> IF entries[x] \in old THEN o ELSE entries[x]]
      BY <1>2, <2>1, <2>3
    <3>2. Len(entries) \in Nat /\ \A x \in 1..Len(entries) : entries[x] \in Made' \union {Tomb}
      BY <2>1
    <3> HIDE DEF Made, Tomb
    <3> QED
      BY <1>6, <3>1, <3>2
  <2> QED
    BY <2>2, <2>3
<1>8. Len(name') + Cardinality(Inserting') <= MaxObject
  <2>1. IsFiniteSet(Inserting) /\ Cardinality(Inserting) \in Nat
    BY FiniteWorkers DEF Inserting
  <2>2. Inserting' = Inserting \ {w} /\ w \in Inserting
    BY <1>1 DEF Inserting, TypeInv, WorkersInv
  <2>3. Cardinality(Inserting') = Cardinality(Inserting) - 1
    BY <2>1, <2>2, FS_RemoveElement
  <2>4. Len(name) + Cardinality(Inserting) <= MaxObject /\ MaxObject \in Nat
    BY ThreadsAssumption DEF TypeInv, ObjectsInv
  <2>5. Len(name') = Len(name) + 1
    BY <1>4 DEF o
  <2> QED
    BY <1>4, <2>1, <2>3, <2>4, <2>5
<1>9. ObjectsInv'
  BY <1>4, <1>7, <1>8 DEF ObjectsInv
<1>10. WorkersInv' /\ NumbersInv'
  <2>1. counter' \in Nat /\ 0 \in 0..counter' /\ 0 \in 0..MaxCounter
    BY <1>5, ThreadsAssumption DEF Growing
  <2>2. Locals \in LocalVars'
    BY <2>1, LocalsTyped
  <2>3. Locals.left \in 0..at[w].left
    BY NumbersOf DEF Locals
  <2>4. Proper("idle", Locals, Made')
    BY DEF Proper, Control, Fanning, Holding, Owning
  <2>5. WorkersInv'
    BY <1>1, <1>5, <2>2, <2>4, WorkerMoves DEF TypeInv
  <2> QED
    BY <1>1, <2>3, <2>5, NumbersStay
<1>11. StoreInv'
  BY <1>1, <1>5, StoreStays
<1> QED
  BY <1>9, <1>10, <1>11 DEF TypeInv

LEMMA CallCreateTyped ==
  ASSUME TypeInv, NEW w \in Workers, NEW n \in Names, CallCreate(w, n)
  PROVE  TypeInv'
<1> DEFINE l == [Locals EXCEPT !.name = n]
<1>1. /\ pc[w] = "idle" /\ pc' = [pc EXCEPT ![w] = "insert"] /\ at' = [at EXCEPT ![w] = l]
      /\ UNCHANGED <<shared, ghosts>> /\ ObjectLeft
  BY DEF CallCreate, Goto, Set
<1>2. Growing
  BY <1>1, SameNumbers DEF shared
<1>3. l \in LocalVars'
  <2>1. counter' \in Nat /\ 0 \in 0..counter' /\ 0 \in 0..MaxCounter
    BY <1>2, ThreadsAssumption DEF Growing
  <2> QED
    BY <2>1, LocalsTyped
<1>4. l.left = 0 /\ l.name = n
  BY DEF Locals
<1> HIDE DEF l
<1>5. WorkersInv'
  <2>1. Proper("insert", l, Made')
    BY <1>4 DEF Proper, Control, Fanning, Holding, Owning
  <2> QED
    BY <1>1, <1>2, <1>3, <2>1, WorkerMoves DEF TypeInv
<1>6. NumbersInv'
  <2>1. l.left \in 0..at[w].left
    BY <1>4, NumbersOf
  <2> QED
    BY <1>1, <2>1, NumbersStay DEF shared
<1>7. ObjectsInv'
  <2>1. IsFiniteSet(Inserting) /\ Cardinality(Inserting) \in Nat
    BY FiniteWorkers DEF Inserting
  <2>2. Inserting' = Inserting \union {w} /\ w \notin Inserting
    BY <1>1 DEF Inserting, TypeInv, WorkersInv
  <2>3. Cardinality(Inserting') = Cardinality(Inserting) + 1
    BY <2>1, <2>2, FS_AddElement
  <2>4. Len(name) + Cardinality(Inserting) < MaxObject /\ MaxObject \in Nat /\ Len(name) \in Nat
    BY <1>1, NumbersOf, ThreadsAssumption DEF ObjectLeft
  <2>5. Len(name) + Cardinality(Inserting') <= MaxObject
    BY <2>1, <2>3, <2>4
  <2> QED
    BY <1>1, <2>5 DEF TypeInv, ObjectsInv, shared, Made
<1>8. StoreInv'
  BY <1>1, <1>2, StoreStays DEF shared, ghosts
<1> QED
  BY <1>5, <1>6, <1>7, <1>8 DEF TypeInv

LEMMA CallDeleteTyped ==
  ASSUME TypeInv, NEW w \in Workers, NEW n \in Names, CallDelete(w, n)
  PROVE  TypeInv'
<1> DEFINE l == [Locals EXCEPT !.name = n]
<1>1. /\ pc' = [pc EXCEPT ![w] = "delete"] /\ at' = [at EXCEPT ![w] = l]
      /\ UNCHANGED <<shared, ghosts>>
  BY DEF CallDelete, Goto, Set
<1>2. Growing
  BY <1>1, SameNumbers DEF shared
<1>3. l \in LocalVars'
  <2>1. counter' \in Nat /\ 0 \in 0..counter' /\ 0 \in 0..MaxCounter
    BY <1>2, ThreadsAssumption DEF Growing
  <2> QED
    BY <2>1, LocalsTyped
<1>4. l.left = 0
  BY DEF Locals
<1> HIDE DEF l
<1>5. Proper("delete", l, Made')
  BY DEF Proper, Control, Fanning, Holding, Owning
<1>6. l.left \in 0..at[w].left
  BY <1>4, NumbersOf
<1>7. WorkersInv' /\ ObjectsInv' /\ NumbersInv'
  BY <1>1, <1>3, <1>5, <1>6, MoveTyped DEF shared
<1>8. StoreInv'
  BY <1>1, <1>2, StoreStays DEF shared, ghosts
<1> QED
  BY <1>7, <1>8 DEF TypeInv

LEMMA DeleteTyped ==
  ASSUME TypeInv, NEW w \in Workers, Delete(w)
  PROVE  TypeInv'
<1> DEFINE old == Find(at[w].name)
<1>1. /\ Return(w, "delete")
      /\ UNCHANGED <<name, backlog, outstanding, counter, delivered, settled, reported>>
      /\ entries' = [x \in DOMAIN entries |-> IF entries[x] \in old THEN Tomb ELSE entries[x]]
  BY DEF Delete
<1> HIDE DEF old
<1>2. entries' \in Seq(Made' \union {Tomb})
  <2>1. Len(entries) \in Nat /\ DOMAIN entries = 1..Len(entries)
    BY DEF TypeInv, ObjectsInv
  <2>2. \A x \in DOMAIN entries : entries[x] \in Made \union {Tomb}
    BY DEF TypeInv, ObjectsInv
  <2>3. Made' = Made
    BY <1>1 DEF Made
  <2> HIDE DEF Made, Tomb
  <2> QED
    BY <1>1, <2>1, <2>2, <2>3
<1>3. Growing
  BY <1>1, SameNumbers
<1>4. /\ pc' = [pc EXCEPT ![w] = "idle"] /\ at' = [at EXCEPT ![w] = Locals]
  BY <1>1 DEF Return, Goto, Set
<1>5. counter' \in Nat /\ 0 \in 0..counter' /\ 0 \in 0..MaxCounter
  BY <1>3, ThreadsAssumption DEF Growing
<1>6. Locals \in LocalVars' /\ Locals.left = 0
  BY <1>5, LocalsTyped DEF Locals
<1>7. WorkersInv'
  <2>1. Proper("idle", Locals, Made')
    BY DEF Proper, Control, Fanning, Holding, Owning
  <2> QED
    BY <1>3, <1>4, <1>6, <2>1, WorkerMoves DEF TypeInv
<1>8. NumbersInv'
  <2>1. Locals.left \in 0..at[w].left
    BY <1>6, NumbersOf
  <2> QED
    BY <1>1, <1>4, <2>1, NumbersStay
<1>9. ObjectsInv'
  <2>1. Inserting' \subseteq Inserting
    BY <1>4 DEF TypeInv, WorkersInv, Inserting
  <2>2. IsFiniteSet(Inserting) /\ Cardinality(Inserting) \in Nat /\ Cardinality(Inserting') \in Nat
    BY FiniteWorkers DEF Inserting
  <2>3. Cardinality(Inserting') <= Cardinality(Inserting)
    BY <2>1, <2>2, FS_Subset
  <2>4. Len(name) \in Nat /\ MaxObject \in Nat /\ Len(name) + Cardinality(Inserting) <= MaxObject
    BY NumbersOf, ThreadsAssumption DEF TypeInv, ObjectsInv
  <2>5. Len(name) + Cardinality(Inserting') <= MaxObject
    BY <2>2, <2>3, <2>4
  <2> QED
    BY <1>1, <1>2, <2>5 DEF TypeInv, ObjectsInv
<1>10. StoreInv'
  BY <1>1, <1>3, StoreStays
<1> QED
  BY <1>7, <1>8, <1>9, <1>10 DEF TypeInv

------------------------------------------------------------------------------
(* Types: pull *)

LEMMA LiveMade == TypeInv => Live \subseteq Made
BY DEF TypeInv, ObjectsInv, Live, Tomb

LEMMA CallPullTyped ==
  ASSUME TypeInv, NEW w \in Workers, NEW n \in Names, NEW limit \in 1..MaxPull,
         CallPull(w, n, limit)
  PROVE  TypeInv'
<1>1. PICK o \in Find(n) : at' = [at EXCEPT ![w] = [Locals EXCEPT !.object = o, !.left = limit]]
  BY DEF CallPull, Set
<1> DEFINE l == [Locals EXCEPT !.object = o, !.left = limit]
<1>2. /\ pc' = [pc EXCEPT ![w] = "look"] /\ at' = [at EXCEPT ![w] = l]
      /\ UNCHANGED <<shared, ghosts>> /\ NumbersLeft(limit)
  BY <1>1 DEF CallPull, Goto
<1>3. limit \in Nat
  BY ThreadsAssumption
<1>4. l.left = limit /\ l.object = o
  BY DEF Locals
<1>5. o \in Made /\ o \in Made' \union {Tomb} /\ Made' = Made
  BY <1>2, LiveMade DEF Find, shared, Made
<1>6. Growing
  BY <1>2, SameNumbers DEF shared
<1> HIDE DEF l
<1>7. /\ counter + Cardinality(Reserved') <= MaxCounter
      /\ limit \in 0..MaxCounter
  BY <1>2, <1>3, <1>4, ReservedGrows DEF TypeInv
<1>8. l \in LocalVars'
  <2>1. counter' \in Nat /\ 0 \in 0..counter'
    BY <1>6 DEF Growing
  <2> QED
    BY <1>5, <1>7, <2>1, LocalsTyped DEF l
<1>9. WorkersInv'
  <2>1. Proper("look", l, Made')
    BY <1>4, <1>5 DEF Proper, Control, Fanning, Holding, Owning
  <2> QED
    BY <1>2, <1>6, <1>8, <2>1, WorkerMoves DEF TypeInv
<1>10. ObjectsInv'
  BY <1>2, ObjectsStay DEF shared
<1>11. NumbersInv'
  BY <1>2, <1>6, <1>7 DEF NumbersInv, shared, Growing
<1>12. StoreInv'
  BY <1>2, <1>6, StoreStays DEF shared, ghosts
<1> QED
  BY <1>9, <1>10, <1>11, <1>12 DEF TypeInv

LEMMA LookTyped ==
  ASSUME TypeInv, NEW w \in Workers, Look(w)
  PROVE  TypeInv'
<1>1. Goto(w, "look", "pop") /\ at' = at /\ UNCHANGED <<shared, ghosts>> /\ at[w].left > 0
  BY DEF Look, More
<1>2. Proper("pop", at[w], Made)
  <2>1. at[w].left # 0
    BY <1>1, NumbersOf
  <2>2. at[w].object \in Made
    BY <1>1 DEF Goto, TypeInv, WorkersInv, Owning
  <2> QED
    BY <2>1, <2>2 DEF Proper, Control, Fanning, Holding, Owning
<1>3. WorkersInv' /\ ObjectsInv' /\ NumbersInv' /\ Growing
  BY <1>1, <1>2, GotoTyped DEF shared
<1>4. StoreInv'
  BY <1>1, <1>3, StoreStays DEF shared, ghosts
<1> QED
  BY <1>3, <1>4 DEF TypeInv

LEMMA PullReturnsTyped ==
  ASSUME TypeInv, NEW w \in Workers, PullReturns(w)
  PROVE  TypeInv'
<1>1. /\ Return(w, "look") /\ reported' = reported \union at[w].taken
      /\ UNCHANGED <<shared, delivered, settled>>
  BY DEF PullReturns
<1>2. WorkersInv' /\ ObjectsInv' /\ NumbersInv' /\ Growing
  BY <1>1, ReturnTyped DEF shared
<1>3. Made' = Made /\ LeaseSet' = LeaseSet
  BY <1>1 DEF shared, Made, LeaseSet
<1>4. reported' \subseteq LeaseSet
  <2>1. at[w].taken \subseteq LeaseSet
    BY LocalsOf
  <2> QED
    BY <1>1, <2>1 DEF TypeInv, StoreInv
<1>5. StoreInv'
  BY <1>1, <1>3, <1>4 DEF TypeInv, StoreInv, shared
<1> QED
  BY <1>2, <1>5 DEF TypeInv

LEMMA PullFailsTyped ==
  ASSUME TypeInv, NEW w \in Workers, PullFails(w)
  PROVE  TypeInv'
<1>1. Return(w, "pop") /\ UNCHANGED <<shared, ghosts>>
  BY DEF PullFails
<1>2. WorkersInv' /\ ObjectsInv' /\ NumbersInv' /\ Growing
  BY <1>1, ReturnTyped DEF shared
<1>3. StoreInv'
  BY <1>1, <1>2, StoreStays DEF shared, ghosts
<1> QED
  BY <1>2, <1>3 DEF TypeInv

LEMMA PopTyped ==
  ASSUME TypeInv, NEW w \in Workers, Pop(w)
  PROVE  TypeInv'
<1> DEFINE o == at[w].object
           m == Head(backlog[o])
           l == [at[w] EXCEPT !.message = m]
<1>1. /\ pc[w] = "pop" /\ pc' = [pc EXCEPT ![w] = "lease"] /\ at' = [at EXCEPT ![w] = l]
      /\ backlog[o] # <<>> /\ backlog' = [backlog EXCEPT ![o] = Tail(@)]
      /\ UNCHANGED <<entries, name, outstanding, counter, ghosts>>
  BY DEF Pop, Goto, Set
<1>2. o \in Made /\ o \in Objects
  BY <1>1, Owned DEF Owning
<1>3. backlog[o] \in Seq(1..counter)
  BY <1>2 DEF TypeInv, StoreInv
<1>4. m \in 1..counter /\ Tail(backlog[o]) \in Seq(1..counter)
  BY <1>1, <1>3, HeadTailProperties
<1> HIDE DEF m
<1>5. Growing /\ Made' = Made /\ LeaseSet' = LeaseSet
  BY <1>1, SameNumbers DEF Made, LeaseSet
<1>6. m \in 0..counter' /\ m # 0 /\ counter \in Nat
  <2>1. counter \in Nat /\ counter' = counter
    BY <1>1, NumbersOf
  <2> QED
    BY <1>4, <2>1
<1>7. at[w] \in LocalVars' /\ at[w].left # 0
  BY <1>1, <1>5, LocalsOf, Widening DEF TypeInv, WorkersInv
<1>8. l \in LocalVars' /\ l.left = at[w].left /\ l.message = m /\ l.object = o
  <2> HIDE DEF Made, LeaseSet, Tomb
  <2> QED
    BY <1>6, <1>7 DEF LocalVars
<1>9. WorkersInv' /\ ObjectsInv' /\ NumbersInv'
  <2> HIDE DEF l
  <2>1. l.left \in 0..at[w].left
    <3>1. at[w].left \in Nat
      BY NumbersOf
    <3> QED
      BY <3>1, <1>8
  <2>2. Proper("lease", l, Made')
    BY <1>2, <1>5, <1>6, <1>7, <1>8 DEF Proper, Control, Fanning, Holding, Owning
  <2>3. l \in LocalVars'
    BY <1>8
  <2> QED
    BY <1>1, <2>1, <2>2, <2>3, MoveTyped
<1> HIDE DEF o
<1>10. backlog' \in [Objects -> Seq(1..counter)]
  <2>1. backlog \in [Objects -> Seq(1..counter)]
    BY DEF TypeInv, StoreInv
  <2> QED
    BY <1>1, <1>2, <1>4, <2>1
<1>11. StoreInv'
  BY <1>1, <1>5, <1>10 DEF TypeInv, StoreInv, ghosts
<1> QED
  BY <1>9, <1>11 DEF TypeInv

LEMMA LeaseTyped ==
  ASSUME TypeInv, NEW w \in Workers, Lease(w)
  PROVE  TypeInv'
<1> DEFINE o == at[w].object
           m == at[w].message
           a == counter + 1
           k == at[w].left - 1
           t == at[w].taken \union {<<o, a, m>>}
           f == [b \in DOMAIN outstanding[o] \union {a} |-> IF b = a THEN m ELSE outstanding[o][b]]
           l == [at[w] EXCEPT !.taken = t, !.left = k, !.message = 0]
<1>1. /\ pc[w] = "lease" /\ pc' = [pc EXCEPT ![w] = "look"] /\ at' = [at EXCEPT ![w] = l]
      /\ counter' = a
      /\ UNCHANGED <<entries, name, backlog, ghosts>>
  BY DEF Lease, Goto, Set, Draw
<1>2. outstanding' = [outstanding EXCEPT ![o] = f]
  BY DEF Lease
<1>3. o \in Made /\ o \in Objects /\ m \in 1..counter
  BY <1>1, Owned DEF Owning, Holding
<1> HIDE DEF l, f, o, m
<1>4. Growing /\ a \in 1..counter' /\ counter \in Nat /\ 0 \in 0..counter'
  <2>1. counter \in Nat /\ Len(name) \in Nat /\ counter' = counter + 1 /\ name' = name
    BY <1>1, NumbersOf
  <2> QED
    BY <2>1 DEF Growing
<1>5. at[w].left # 0
  BY <1>1 DEF TypeInv, WorkersInv
<1>6. k \in 0..MaxCounter
  <2>1. at[w].left \in 0..MaxCounter /\ MaxCounter \in Nat
    BY NumbersOf, ThreadsAssumption
  <2> QED
    BY <1>5, <2>1
<1> HIDE DEF a, k
<1>7. /\ Made \subseteq Made' /\ LeaseSet \subseteq LeaseSet' /\ 1..counter \subseteq 1..counter'
      /\ at[w] \in LocalVars'
  BY <1>4, Widening, LocalsOf
<1>8. t \in SUBSET LeaseSet'
  <2>1. at[w].taken \subseteq LeaseSet'
    BY <1>7, LocalsOf
  <2>2. <<o, a, m>> \in LeaseSet'
    BY <1>3, <1>4, <1>7 DEF LeaseSet
  <2> QED
    BY <2>1, <2>2
<1> HIDE DEF t
<1>9. l \in LocalVars' /\ l.left = k /\ l.object = o
  <2> HIDE DEF Made, LeaseSet, Tomb
  <2> QED
    BY <1>4, <1>6, <1>7, <1>8 DEF LocalVars, l, o
<1>10. WorkersInv'
  <2>1. Proper("look", l, Made')
    BY <1>3, <1>7, <1>9 DEF Proper, Control, Fanning, Holding, Owning
  <2> QED
    BY <1>1, <1>4, <1>9, <2>1, WorkerMoves DEF TypeInv
<1>11. ObjectsInv'
  BY <1>1, ObjectsStay
<1>12. NumbersInv'
  <2>1. /\ Cardinality(Reserved) \in Nat /\ Cardinality(Reserved') \in Nat
        /\ Cardinality(Reserved') + 1 = Cardinality(Reserved)
    BY <1>1, <1>5, <1>9, ReservedDrawn DEF TypeInv, k
  <2>2. counter' = counter + 1 /\ MaxCounter \in Nat
    BY <1>1, ThreadsAssumption DEF a
  <2> QED
    BY <1>4, <2>1, <2>2 DEF TypeInv, NumbersInv
<1>13. StoreInv'
  <2>1. ASSUME NEW p \in Objects
        PROVE  /\ outstanding'[p] \in [DOMAIN outstanding'[p] -> 1..counter']
               /\ DOMAIN outstanding'[p] \subseteq 1..counter'
    <3>1. /\ outstanding[p] \in [DOMAIN outstanding[p] -> 1..counter]
          /\ DOMAIN outstanding[p] \subseteq 1..counter /\ DOMAIN outstanding = Objects
      BY DEF TypeInv, StoreInv
    <3>2. CASE p = o
      <4>1. outstanding'[p] = f
        BY <1>2, <3>1, <3>2
      <4> QED
        BY <1>3, <1>4, <1>7, <3>1, <3>2, <4>1 DEF f
    <3>3. CASE p # o
      <4>1. outstanding'[p] = outstanding[p]
        BY <1>2, <3>1, <3>3
      <4> QED
        BY <1>7, <3>1, <4>1
    <3> QED
      BY <3>2, <3>3
  <2>2. DOMAIN outstanding' = Objects
    BY <1>2 DEF TypeInv, StoreInv
  <2>3. backlog' \in [Objects -> Seq(1..counter')]
    <3>1. ASSUME NEW p \in Objects PROVE backlog[p] \in Seq(1..counter')
      <4>1. backlog[p] \in Seq(1..counter)
        BY DEF TypeInv, StoreInv
      <4> QED
        BY <1>7, <4>1, SeqMonotonic
    <3> QED
      BY <1>1, <3>1 DEF TypeInv, StoreInv
  <2>4. /\ delivered' \subseteq Made' \X (1..counter')
        /\ settled' \subseteq Made' \X (1..counter')
        /\ reported' \subseteq LeaseSet'
    BY <1>1, <1>7 DEF TypeInv, StoreInv, ghosts
  <2> QED
    BY <2>1, <2>2, <2>3, <2>4 DEF StoreInv
<1> QED
  BY <1>10, <1>11, <1>12, <1>13 DEF TypeInv

------------------------------------------------------------------------------
(* Types: acknowledge and modify_ack_deadline *)

LEMMA LeaseOf ==
  ASSUME TypeInv, NEW o \in Made, NEW a \in DOMAIN outstanding[o]
  PROVE  o \in Objects /\ outstanding[o][a] \in 1..counter
<1>2. Made \subseteq Objects
  <2>1. Cardinality(Inserting) \in Nat /\ MaxObject \in Nat /\ Len(name) \in Nat
    BY FiniteWorkers, ThreadsAssumption DEF Inserting, TypeInv, ObjectsInv
  <2>2. Len(name) + Cardinality(Inserting) <= MaxObject
    BY DEF TypeInv, ObjectsInv
  <2>3. Len(name) <= MaxObject
    BY <2>1, <2>2
  <2> QED
    BY <2>1, <2>3 DEF Made, Objects
<1> QED
  BY <1>2 DEF TypeInv, StoreInv

(* A lease taken off an object: the others stay. *)
LEMMA Dropped ==
  ASSUME TypeInv, NEW o \in Made, NEW a \in DOMAIN outstanding[o],
         outstanding' = [outstanding EXCEPT ![o] = Drop(outstanding[o], a)]
  PROVE  /\ DOMAIN outstanding' = Objects
         /\ \A p \in Objects : p # o => outstanding'[p] = outstanding[p]
         /\ outstanding'[o] = [b \in DOMAIN outstanding[o] \ {a} |-> outstanding[o][b]]
         /\ \A p \in Objects : /\ outstanding'[p] \in [DOMAIN outstanding'[p] -> 1..counter]
                               /\ DOMAIN outstanding'[p] \subseteq 1..counter
<1> DEFINE f == [b \in DOMAIN outstanding[o] \ {a} |-> outstanding[o][b]]
<1>1. o \in Objects
  BY LeaseOf
<1>2. /\ DOMAIN outstanding = Objects
      /\ \A p \in Objects : /\ outstanding[p] \in [DOMAIN outstanding[p] -> 1..counter]
                            /\ DOMAIN outstanding[p] \subseteq 1..counter
  BY DEF TypeInv, StoreInv
<1>3. outstanding' = [outstanding EXCEPT ![o] = f]
  BY DEF Drop
<1>4. f \in [DOMAIN f -> 1..counter] /\ DOMAIN f \subseteq 1..counter
  BY <1>1, <1>2
<1> HIDE DEF f
<1>5. /\ DOMAIN outstanding' = Objects /\ outstanding'[o] = f
      /\ \A p \in Objects : p # o => outstanding'[p] = outstanding[p]
  BY <1>1, <1>2, <1>3
<1>6. ASSUME NEW p \in Objects
      PROVE  /\ outstanding'[p] \in [DOMAIN outstanding'[p] -> 1..counter]
             /\ DOMAIN outstanding'[p] \subseteq 1..counter
  BY <1>2, <1>4, <1>5
<1> QED
  BY <1>1, <1>4, <1>5, <1>6 DEF f

LEMMA CallSettleTyped ==
  ASSUME TypeInv, NEW w \in Workers, NEW lease \in reported, NEW to \in {"acknowledge", "nack"},
         CallSettle(w, lease, to)
  PROVE  TypeInv'
<1>1. PICK a : a = lease[2]
  OBVIOUS
<1>2. PICK o \in Find(name[lease[1]]) :
        at' = [at EXCEPT ![w] = [Locals EXCEPT !.object = o, !.ack = a]]
  BY <1>1 DEF CallSettle, Set
<1> DEFINE l == [Locals EXCEPT !.object = o, !.ack = a]
<1>3. pc' = [pc EXCEPT ![w] = to] /\ at' = [at EXCEPT ![w] = l] /\ UNCHANGED <<shared, ghosts>>
  BY <1>2 DEF CallSettle, Goto
<1>4. l.left = 0 /\ l.object = o
  BY DEF Locals
<1>5. o \in Made /\ o \in Made' \union {Tomb}
  BY <1>3, LiveMade DEF Find, shared, Made
<1>6. a \in Nat
  <2>1. lease \in LeaseSet /\ counter \in Nat
    BY DEF TypeInv, StoreInv, NumbersInv
  <2> HIDE DEF Made
  <2>2. lease[2] \in 1..counter
    BY <2>1 DEF LeaseSet
  <2> QED
    BY <1>1, <2>1, <2>2
<1>7. Growing
  BY <1>3, SameNumbers DEF shared
<1>8. l \in LocalVars'
  <2>1. Locals \in LocalVars'
    <3>1. counter' \in Nat /\ 0 \in 0..counter' /\ 0 \in 0..MaxCounter
      BY <1>7, ThreadsAssumption DEF Growing
    <3> QED
      BY <1>5, <3>1, LocalsTyped
  <2> HIDE DEF Made, LeaseSet, Tomb
  <2> QED
    BY <1>5, <1>6, <2>1 DEF LocalVars
<1> HIDE DEF l
<1>9. Proper(to, l, Made')
  <2>1. o \in Made'
    BY <1>3, <1>5 DEF shared, Made
  <2> QED
    BY <1>4, <2>1 DEF Proper, Control, Fanning, Holding, Owning
<1>10. WorkersInv' /\ ObjectsInv' /\ NumbersInv'
  <2>1. l.left \in 0..at[w].left
    BY <1>4, NumbersOf
  <2> QED
    BY <1>3, <1>8, <1>9, <2>1, MoveTyped DEF shared
<1>11. StoreInv'
  BY <1>3, <1>7, StoreStays DEF shared, ghosts
<1> QED
  BY <1>10, <1>11 DEF TypeInv

LEMMA NoLeaseTyped ==
  ASSUME TypeInv, NEW w \in Workers, NoLease(w)
  PROVE  TypeInv'
<1>1. (Return(w, "acknowledge") \/ Return(w, "nack")) /\ UNCHANGED <<shared, ghosts>>
  BY DEF NoLease
<1>2. WorkersInv' /\ ObjectsInv' /\ NumbersInv' /\ Growing
  BY <1>1, ReturnTyped DEF shared
<1>3. StoreInv'
  BY <1>1, <1>2, StoreStays DEF shared, ghosts
<1> QED
  BY <1>2, <1>3 DEF TypeInv

LEMMA AcknowledgeTyped ==
  ASSUME TypeInv, NEW w \in Workers, Acknowledge(w)
  PROVE  TypeInv'
<1> DEFINE o == at[w].object
           a == at[w].ack
           m == outstanding[o][a]
<1>1. /\ Return(w, "acknowledge") /\ pc[w] = "acknowledge" /\ a \in DOMAIN outstanding[o]
      /\ outstanding' = [outstanding EXCEPT ![o] = Drop(outstanding[o], a)]
      /\ settled' = settled \union {<<o, m>>}
      /\ UNCHANGED <<entries, name, backlog, counter, delivered, reported>>
  BY DEF Acknowledge, Return, Goto
<1>0. o \in Made
  BY <1>1, Owned DEF Owning
<1> HIDE DEF o, a
<1>2. /\ DOMAIN outstanding' = Objects
      /\ \A p \in Objects : /\ outstanding'[p] \in [DOMAIN outstanding'[p] -> 1..counter]
                            /\ DOMAIN outstanding'[p] \subseteq 1..counter
  BY <1>0, <1>1, Dropped
<1>8. m \in 1..counter
  BY <1>0, <1>1, LeaseOf
<1> HIDE DEF m
<1>3. Made' = Made /\ LeaseSet' = LeaseSet
  BY <1>1 DEF Made, LeaseSet
<1>4. settled' \subseteq Made \X (1..counter)
  <2>1. <<o, m>> \in Made \X (1..counter)
    BY <1>0, <1>8
  <2> QED
    BY <1>1, <2>1 DEF TypeInv, StoreInv
<1>5. StoreInv'
  BY <1>1, <1>2, <1>3, <1>4 DEF TypeInv, StoreInv
<1>6. WorkersInv' /\ ObjectsInv' /\ NumbersInv'
  BY <1>1, ReturnTyped
<1> QED
  BY <1>5, <1>6 DEF TypeInv

LEMMA NackPopTyped ==
  ASSUME TypeInv, NEW w \in Workers, NackPop(w)
  PROVE  TypeInv'
<1> DEFINE o == at[w].object
           a == at[w].ack
           m == outstanding[o][a]
           l == [Locals EXCEPT !.object = o, !.message = m]
<1>1. /\ pc[w] = "nack" /\ a \in DOMAIN outstanding[o]
      /\ outstanding' = [outstanding EXCEPT ![o] = Drop(outstanding[o], a)]
      /\ pc' = [pc EXCEPT ![w] = "requeue"] /\ at' = [at EXCEPT ![w] = l]
      /\ UNCHANGED <<entries, name, backlog, counter, ghosts>>
  BY DEF NackPop, Goto, Set
<1>9. o \in Made
  BY <1>1, Owned DEF Owning
<1>2. l.left = 0 /\ l.object = o /\ l.message = m
  BY DEF Locals
<1> HIDE DEF o, a, l
<1>0. /\ DOMAIN outstanding' = Objects
      /\ \A p \in Objects : /\ outstanding'[p] \in [DOMAIN outstanding'[p] -> 1..counter]
                            /\ DOMAIN outstanding'[p] \subseteq 1..counter
  BY <1>1, <1>9, Dropped
<1>3. m \in 1..counter
  BY <1>1, <1>9, LeaseOf
<1> HIDE DEF m
<1>4. Made' = Made /\ LeaseSet' = LeaseSet /\ Growing
  BY <1>1, SameNumbers DEF Made, LeaseSet
<1>5. m \in 0..counter' /\ m # 0 /\ counter' \in Nat /\ 0 \in 0..MaxCounter
  <2>1. counter \in Nat /\ counter' = counter /\ MaxCounter \in Nat
    BY <1>1, NumbersOf, ThreadsAssumption
  <2> QED
    BY <1>3, <2>1
<1>6. l \in LocalVars'
  <2>1. o \in Made' \union {Tomb}
    BY <1>4, <1>9
  <2> QED
    BY <1>5, <2>1, LocalsTyped DEF l
<1>7. WorkersInv' /\ ObjectsInv' /\ NumbersInv'
  <2>1. l.left \in 0..at[w].left
    BY <1>2, NumbersOf
  <2>2. Proper("requeue", l, Made')
    BY <1>2, <1>4, <1>5, <1>9 DEF Proper, Control, Fanning, Holding, Owning
  <2> QED
    BY <1>1, <1>6, <2>1, <2>2, MoveTyped
<1>8. StoreInv'
  BY <1>0, <1>1, <1>4 DEF TypeInv, StoreInv, ghosts
<1> QED
  BY <1>7, <1>8 DEF TypeInv

LEMMA RequeueTyped ==
  ASSUME TypeInv, NEW w \in Workers, Requeue(w)
  PROVE  TypeInv'
<1> DEFINE o == at[w].object
           m == at[w].message
<1>1. /\ Return(w, "requeue") /\ pc[w] = "requeue"
      /\ backlog' = [backlog EXCEPT ![o] = <<m>> \o @]
      /\ UNCHANGED <<entries, name, outstanding, counter, ghosts>>
  BY DEF Requeue, Return, Goto
<1>2. o \in Objects /\ m \in 1..counter
  BY <1>1, Owned DEF Owning, Holding
<1> HIDE DEF o, m
<1>3. WorkersInv' /\ ObjectsInv' /\ NumbersInv'
  BY <1>1, ReturnTyped
<1>4. backlog' \in [Objects -> Seq(1..counter)]
  <2>1. backlog \in [Objects -> Seq(1..counter)]
    BY DEF TypeInv, StoreInv
  <2>2. <<m>> \in Seq(1..counter) /\ backlog[o] \in Seq(1..counter)
    BY <1>2, <2>1
  <2>3. <<m>> \o backlog[o] \in Seq(1..counter)
    BY <2>2, ConcatProperties
  <2> QED
    BY <1>1, <2>1, <2>3
<1>5. Made' = Made /\ LeaseSet' = LeaseSet
  BY <1>1 DEF Made, LeaseSet
<1>6. StoreInv'
  BY <1>1, <1>4, <1>5 DEF TypeInv, StoreInv, ghosts
<1> QED
  BY <1>3, <1>6 DEF TypeInv

------------------------------------------------------------------------------
(* Types: the specification *)

LEMMA InitTyped == Init => TypeInv
<1> SUFFICES ASSUME Init PROVE TypeInv
  OBVIOUS
<1>1. Len(name) = 0 /\ counter = 0 /\ entries = <<>> /\ name = <<>>
  BY DEF Init
<1>2. Inserting = {} /\ Reserved = {}
  <2>1. \A w \in Workers : pc[w] = "idle" /\ at[w].left = 0
    BY DEF Init, Locals
  <2> QED
    BY <2>1 DEF Inserting, Reserved
<1>3. Cardinality(Inserting) = 0 /\ Cardinality(Reserved) = 0
  BY <1>2, FS_EmptySet
<1>4. ObjectsInv /\ NumbersInv
  BY <1>1, <1>3, ThreadsAssumption DEF ObjectsInv, NumbersInv
<1>5. Locals \in LocalVars
  <2>1. 0 \in 0..counter /\ 0 \in 0..MaxCounter /\ 0 \in Nat
    BY <1>1, ThreadsAssumption
  <2> HIDE DEF Made, LeaseSet
  <2> QED
    BY <2>1 DEF Locals, LocalVars
<1>6. WorkersInv
  <2>1. pc = [w \in Workers |-> "idle"] /\ at = [w \in Workers |-> Locals]
    BY DEF Init
  <2> QED
    BY <1>5, <2>1 DEF WorkersInv, Control, Fanning, Holding, Owning
<1>7. StoreInv
  BY DEF Init, StoreInv
<1> QED
  BY <1>4, <1>6, <1>7 DEF TypeInv

(* No step leaves the types, nor the bounds. *)
LEMMA StepTyped == TypeInv /\ [Next]_vars => TypeInv'
<1> SUFFICES ASSUME TypeInv, [Next]_vars PROVE TypeInv'
  OBVIOUS
<1>1. ASSUME NEW w \in Workers, Publishing(w) PROVE TypeInv'
  BY <1>1, CallPublishTyped, NextMessageTyped, NextSubscriptionTyped, PublishEndsTyped,
     DeliverTyped DEF Publishing
<1>2. ASSUME NEW w \in Workers, Managing(w) PROVE TypeInv'
  BY <1>2, CallCreateTyped, InsertTyped, CallDeleteTyped, DeleteTyped DEF Managing
<1>3. ASSUME NEW w \in Workers, Pulling(w) PROVE TypeInv'
  BY <1>3, CallPullTyped, LookTyped, PullReturnsTyped, PullFailsTyped, PopTyped, LeaseTyped
  DEF Pulling
<1>4. ASSUME NEW w \in Workers, Settling(w) PROVE TypeInv'
  BY <1>4, CallSettleTyped, AcknowledgeTyped, NackPopTyped, NoLeaseTyped, RequeueTyped
  DEF Settling
<1>5. CASE UNCHANGED vars
  BY <1>5 DEF vars, shared, ghosts, TypeInv, WorkersInv, ObjectsInv, NumbersInv, StoreInv,
     Made, LeaseSet, LocalVars, Inserting, Reserved
<1> QED
  BY <1>1, <1>2, <1>3, <1>4, <1>5 DEF Next

LEMMA TypesImply == TypeInv => TypeOK
<1> SUFFICES ASSUME TypeInv PROVE TypeOK
  OBVIOUS
<1>1. counter \in 0..MaxCounter
  <2>1. Cardinality(Reserved) \in Nat /\ counter \in Nat /\ MaxCounter \in Nat
    BY FiniteReserved, ThreadsAssumption DEF Reserved, TypeInv, NumbersInv
  <2> QED
    BY <2>1 DEF TypeInv, NumbersInv
<1>2. ASSUME NEW o \in Objects
      PROVE  DOMAIN outstanding[o] \subseteq 1..counter /\ Values(outstanding[o]) \subseteq 1..counter
  BY DEF TypeInv, StoreInv, Values
<1> QED
  BY <1>1, <1>2 DEF TypeOK, TypeInv, WorkersInv, ObjectsInv, StoreInv

(* Every worker holds what its place in the code says, the dict holds      *)
(* objects that were made, and no call draws a number beyond the bound.    *)
THEOREM TypeCorrect == Spec => []TypeOK
<1>1. Spec => []TypeInv
  BY InitTyped, StepTyped, PTL DEF Spec
<1> QED
  BY <1>1, TypesImply, PTL

------------------------------------------------------------------------------
(* Leases: one response each *)

(* No step but a lease lets a worker hold more; a worker that forgets what *)
(* it has leased reports it nowhere.                                       *)
LEMMA FewerLeases ==
  ASSUME NoLeaseTwice, \A v \in Workers : at'[v].taken \subseteq at[v].taken,
         reported' = reported
  PROVE  NoLeaseTwice'
<1>1. Handed' \subseteq Handed
  BY DEF Handed
<1> QED
  BY <1>1 DEF NoLeaseTwice

LEMMA TakenKept ==
  ASSUME TypeInv, NEW w \in Workers, NEW l, at' = [at EXCEPT ![w] = l],
         l.taken \subseteq at[w].taken
  PROVE  \A v \in Workers : at'[v].taken \subseteq at[v].taken
BY DEF TypeInv, WorkersInv

LEMMA LocalsTakeNothing ==
  /\ Locals.taken = {}
  /\ \A n : [Locals EXCEPT !.name = n].taken = {}
  /\ \A n : [Locals EXCEPT !.left = n].taken = {}
  /\ \A o, n : [Locals EXCEPT !.object = o, !.left = n].taken = {}
  /\ \A o, m : [Locals EXCEPT !.object = o, !.message = m].taken = {}
BY DEF Locals

LEMMA UpdatesTakeNothing ==
  ASSUME NEW r \in LocalVars
  PROVE  /\ \A m, k, x, y, z :
              [r EXCEPT !.message = m, !.left = k, !.pos = x, !.size = y, !.got = z].taken = r.taken
         /\ \A x, y, o : [r EXCEPT !.pos = x, !.got = y, !.object = o].taken = r.taken
         /\ \A m : [r EXCEPT !.message = m].taken = r.taken
<1> HIDE DEF Made, LeaseSet, Tomb
<1> QED
  BY DEF LocalVars

LEMMA ReturnTakes ==
  ASSUME TypeInv, NEW w \in Workers, NEW from, Return(w, from)
  PROVE  \A v \in Workers : at'[v].taken \subseteq at[v].taken
BY TakenKept, LocalsTakeNothing DEF Return, Set

(* The lease made is under a number nobody has seen. *)
LEMMA LeaseOnce ==
  ASSUME TypeInv, NoLeaseTwice, NEW w \in Workers, Lease(w)
  PROVE  NoLeaseTwice'
<1> DEFINE o == at[w].object
           m == at[w].message
           a == counter + 1
           k == at[w].left - 1
           t == at[w].taken \union {<<o, a, m>>}
           l == [at[w] EXCEPT !.taken = t, !.left = k, !.message = 0]
<1>1. at' = [at EXCEPT ![w] = l] /\ reported' = reported
  BY DEF Lease, Set, ghosts
<1>2. l.taken = t
  <2> HIDE DEF t, k
  <2>1. at[w] \in LocalVars
    BY LocalsOf
  <2> HIDE DEF Made, LeaseSet, Tomb
  <2> QED
    BY <2>1 DEF LocalVars
<1> HIDE DEF l
<1>3. at'[w].taken = t /\ \A v \in Workers : v # w => at'[v].taken = at[v].taken
  BY <1>1, <1>2 DEF TypeInv, WorkersInv
<1> DEFINE new == <<o, a, m>>
<1>4. new[2] = a /\ t = at[w].taken \union {new}
  OBVIOUS
<1> HIDE DEF t, new
<1>5. Handed' = Handed \union {new}
  <2>1. ASSUME NEW x
        PROVE  (\E v \in Workers : x \in at'[v].taken)
                 <=> (x = new \/ \E v \in Workers : x \in at[v].taken)
    BY <1>3, <1>4
  <2>2. ASSUME NEW x PROVE x \in Handed' <=> x \in Handed \union {new}
    BY <1>1, <2>1 DEF Handed
  <2> QED
    BY <2>2
<1>6. \A x \in Handed : x[2] # a
  <2>1. Handed \subseteq LeaseSet
    <3>1. \A v \in Workers : at[v].taken \subseteq LeaseSet
      BY LocalsOf
    <3> QED
      BY <3>1 DEF Handed, TypeInv, StoreInv
  <2>2. \A x \in LeaseSet : x[2] \in 1..counter
    BY DEF LeaseSet
  <2>3. counter \in Nat
    BY NumbersOf
  <2> QED
    BY <2>1, <2>2, <2>3
<1> HIDE DEF a
<1>7. new \notin Handed
  BY <1>4, <1>6
<1>8. \A x, y \in Handed' : x[2] = y[2] => x = y
  BY <1>4, <1>5, <1>6 DEF NoLeaseTwice
<1>9. ASSUME NEW u \in Workers, NEW v \in Workers
      PROVE  /\ u # v => at'[u].taken \intersect at'[v].taken = {}
             /\ at'[u].taken \intersect reported' = {}
  <2>1. /\ new \notin at[u].taken /\ new \notin at[v].taken /\ new \notin reported
    BY <1>7 DEF Handed
  <2>2. /\ u # v => at[u].taken \intersect at[v].taken = {}
        /\ at[u].taken \intersect reported = {}
    BY DEF NoLeaseTwice
  <2> QED
    BY <1>1, <1>3, <1>4, <2>1, <2>2
<1> QED
  BY <1>8, <1>9 DEF NoLeaseTwice

(* A response takes the leases of the pull that returns, and no other's. *)
LEMMA PullReturnsOnce ==
  ASSUME TypeInv, NoLeaseTwice, NEW w \in Workers, PullReturns(w)
  PROVE  NoLeaseTwice'
<1>1. at' = [at EXCEPT ![w] = Locals] /\ reported' = reported \union at[w].taken
  BY DEF PullReturns, Return, Set
<1>2. at'[w].taken = {} /\ \A v \in Workers : v # w => at'[v].taken = at[v].taken
  BY <1>1, LocalsTakeNothing DEF TypeInv, WorkersInv
<1>3. Handed' \subseteq Handed
  <2>1. reported' \subseteq Handed
    BY <1>1 DEF Handed
  <2>2. ASSUME NEW v \in Workers PROVE at'[v].taken \subseteq Handed
    BY <1>2, <2>2 DEF Handed
  <2> QED
    BY <2>1, <2>2 DEF Handed
<1>4. ASSUME NEW u \in Workers, NEW v \in Workers
      PROVE  /\ u # v => at'[u].taken \intersect at'[v].taken = {}
             /\ at'[u].taken \intersect reported' = {}
  <2>1. /\ u # v => at[u].taken \intersect at[v].taken = {}
        /\ at[u].taken \intersect reported = {}
        /\ u # w => at[u].taken \intersect at[w].taken = {}
    BY DEF NoLeaseTwice
  <2>2. u # w => at'[u].taken = at[u].taken
    BY <1>2
  <2>3. v # w => at'[v].taken = at[v].taken
    BY <1>2
  <2>4. u = w => at'[u].taken = {}
    BY <1>2
  <2>5. v = w => at'[v].taken = {}
    BY <1>2
  <2> QED
    BY <1>1, <2>1, <2>2, <2>3, <2>4, <2>5
<1> QED
  BY <1>3, <1>4 DEF NoLeaseTwice

LEMMA LeasesStep == TypeInv /\ NoLeaseTwice /\ [Next]_vars => NoLeaseTwice'
<1> SUFFICES ASSUME TypeInv, NoLeaseTwice, [Next]_vars PROVE NoLeaseTwice'
  OBVIOUS
<1> DEFINE Fewer == (\A v \in Workers : at'[v].taken \subseteq at[v].taken) /\ reported' = reported
<1>0. Fewer => NoLeaseTwice'
  BY FewerLeases
<1>1. ASSUME NEW w \in Workers, Publishing(w) PROVE Fewer
  <2>1. reported' = reported
    BY <1>1 DEF Publishing, CallPublish, NextMessage, PublishReturns, NextSubscription, FannedOut,
       PublishFails, Deliver, ghosts
  <2>2. ASSUME NEW n \in 0..MaxBatch, CallPublish(w, n)
        PROVE  \A v \in Workers : at'[v].taken \subseteq at[v].taken
    BY <2>2, TakenKept, LocalsTakeNothing DEF CallPublish, Set
  <2>3. ASSUME NextMessage(w)
        PROVE  \A v \in Workers : at'[v].taken \subseteq at[v].taken
    <3> DEFINE m == counter + 1
               k == at[w].left - 1
    <3>1. at' = [at EXCEPT ![w] = [at[w] EXCEPT !.message = m, !.left = k, !.pos = 0,
                                                !.size = Size, !.got = 0]]
      BY <2>3 DEF NextMessage, Set
    <3> HIDE DEF m, k
    <3> QED
      BY <3>1, TakenKept, LocalsOf, UpdatesTakeNothing
  <2>4. ASSUME NextSubscription(w)
        PROVE  \A v \in Workers : at'[v].taken \subseteq at[v].taken
    <3> DEFINE g == at[w].got + 1
    <3>1. PICK x \in Ahead(w) :
            at' = [at EXCEPT ![w] = [at[w] EXCEPT !.pos = x, !.got = g, !.object = entries[x]]]
      BY <2>4 DEF NextSubscription, Set
    <3> HIDE DEF g
    <3> QED
      BY <3>1, TakenKept, LocalsOf, UpdatesTakeNothing
  <2>5. ASSUME PublishReturns(w) \/ PublishFails(w)
        PROVE  \A v \in Workers : at'[v].taken \subseteq at[v].taken
    BY <2>5, ReturnTakes DEF PublishReturns, PublishFails
  <2>6. ASSUME FannedOut(w) \/ Deliver(w)
        PROVE  \A v \in Workers : at'[v].taken \subseteq at[v].taken
    BY <2>6 DEF FannedOut, Deliver
  <2> QED
    BY <1>1, <2>1, <2>2, <2>3, <2>4, <2>5, <2>6 DEF Publishing
<1>2. ASSUME NEW w \in Workers, Managing(w) PROVE Fewer
  <2>1. reported' = reported
    BY <1>2 DEF Managing, CallCreate, Insert, CallDelete, Delete, ghosts
  <2>2. ASSUME NEW n \in Names, CallCreate(w, n) \/ CallDelete(w, n)
        PROVE  \A v \in Workers : at'[v].taken \subseteq at[v].taken
    BY <2>2, TakenKept, LocalsTakeNothing DEF CallCreate, CallDelete, Set
  <2>3. ASSUME Insert(w) \/ Delete(w)
        PROVE  \A v \in Workers : at'[v].taken \subseteq at[v].taken
    BY <2>3, ReturnTakes DEF Insert, Delete
  <2> QED
    BY <1>2, <2>1, <2>2, <2>3 DEF Managing
<1>3. ASSUME NEW w \in Workers, Settling(w) PROVE Fewer
  <2>1. reported' = reported
    BY <1>3 DEF Settling, CallSettle, Acknowledge, NackPop, NoLease, Requeue, ghosts
  <2>2. ASSUME NackPop(w)
        PROVE  \A v \in Workers : at'[v].taken \subseteq at[v].taken
    BY <2>2, TakenKept, LocalsTakeNothing DEF NackPop, Set
  <2>3. ASSUME NEW lease, NEW to, CallSettle(w, lease, to)
        PROVE  \A v \in Workers : at'[v].taken \subseteq at[v].taken
    <3>1. PICK o, a : at' = [at EXCEPT ![w] = [Locals EXCEPT !.object = o, !.ack = a]]
      BY <2>3 DEF CallSettle, Set
    <3>2. [Locals EXCEPT !.object = o, !.ack = a].taken = {}
      BY DEF Locals
    <3> QED
      BY <3>1, <3>2, TakenKept
  <2>4. ASSUME Acknowledge(w) \/ NoLease(w) \/ Requeue(w)
        PROVE  \A v \in Workers : at'[v].taken \subseteq at[v].taken
    BY <2>4, ReturnTakes DEF Acknowledge, NoLease, Requeue
  <2> QED
    BY <1>3, <2>1, <2>2, <2>3, <2>4 DEF Settling
<1>4. ASSUME NEW w \in Workers, Pulling(w) PROVE NoLeaseTwice'
  <2>1. ASSUME NEW n \in Names, NEW limit \in 1..MaxPull, CallPull(w, n, limit) PROVE Fewer
    <3>1. PICK o \in Find(n) : at' = [at EXCEPT ![w] = [Locals EXCEPT !.object = o, !.left = limit]]
      BY <2>1 DEF CallPull, Set
    <3>2. reported' = reported
      BY <2>1 DEF CallPull, ghosts
    <3> QED
      BY <3>1, <3>2, TakenKept, LocalsTakeNothing
  <2>2. ASSUME Look(w) PROVE Fewer
    BY <2>2 DEF Look, ghosts
  <2>3. ASSUME PullFails(w) PROVE Fewer
    BY <2>3, ReturnTakes DEF PullFails, ghosts
  <2>4. ASSUME Pop(w) PROVE Fewer
    <3>1. reported' = reported
      BY <2>4 DEF Pop, ghosts
    <3>2. at' = [at EXCEPT ![w] = [at[w] EXCEPT !.message = Head(backlog[at[w].object])]]
      BY <2>4 DEF Pop, Set
    <3> QED
      BY <3>1, <3>2, TakenKept, LocalsOf, UpdatesTakeNothing
  <2> QED
    BY <1>0, <1>4, <2>1, <2>2, <2>3, <2>4, LeaseOnce, PullReturnsOnce DEF Pulling
<1>5. CASE UNCHANGED vars
  BY <1>0, <1>5 DEF vars, ghosts
<1> QED
  BY <1>0, <1>1, <1>2, <1>3, <1>4, <1>5 DEF Next

LEMMA InitLeases == Init => NoLeaseTwice
<1> SUFFICES ASSUME Init PROVE NoLeaseTwice
  OBVIOUS
<1>1. \A w \in Workers : at[w].taken = {}
  BY LocalsTakeNothing DEF Init
<1>2. reported = {}
  BY DEF Init
<1>3. Handed = {}
  BY <1>1, <1>2 DEF Handed
<1> QED
  BY <1>1, <1>2, <1>3 DEF NoLeaseTwice

(* However pulls interleave, an ack id names one lease, and that lease is  *)
(* in one pull's response.                                                 *)
THEOREM LeasesAreHandedOnce == Spec => []NoLeaseTwice
<1>1. TypeInv /\ NoLeaseTwice /\ [Next]_vars => (TypeInv /\ NoLeaseTwice)'
  BY StepTyped, LeasesStep
<1> QED
  BY <1>1, InitTyped, InitLeases, PTL DEF Spec

------------------------------------------------------------------------------
(* Fan-out: what a publish has not yet done *)

LEMMA Elsewhere ==
  ASSUME TypeInv, NEW w \in Workers, NEW to, pc' = [pc EXCEPT ![w] = to],
         at' = at \/ (\E l : at' = [at EXCEPT ![w] = l])
  PROVE  pc'[w] = to /\ \A v \in Workers : v # w => pc'[v] = pc[v] /\ at'[v] = at[v]
BY DEF TypeInv, WorkersInv

(* No other call concerns a publish. *)
LEMMA FanoutStays ==
  ASSUME TypeInv, Fanout, UNCHANGED <<entries, name, delivered>>,
         \A v \in Workers : pc'[v] \in Fanning => pc'[v] = pc[v] /\ at'[v] = at[v]
  PROVE  Fanout'
<1>1. OneEntryPerName'
  BY DEF Fanout, OneEntryPerName
<1>2. OwnMessage'
  BY DEF Fanout, OwnMessage
<1>3. Undone'
  BY DEF Fanout, Undone, Fanning
<1> QED
  BY <1>1, <1>2, <1>3 DEF Fanout

LEMMA FanoutApart ==
  ASSUME TypeInv, Fanout, NEW w \in Workers, NEW to, to \notin Fanning,
         pc' = [pc EXCEPT ![w] = to], at' = at \/ (\E l : at' = [at EXCEPT ![w] = l]),
         UNCHANGED <<entries, name, delivered>>
  PROVE  Fanout'
<1>1. pc'[w] = to /\ \A v \in Workers : v # w => pc'[v] = pc[v] /\ at'[v] = at[v]
  BY Elsewhere
<1>2. \A v \in Workers : pc'[v] \in Fanning => pc'[v] = pc[v] /\ at'[v] = at[v]
  BY <1>1
<1> QED
  BY <1>2, FanoutStays

(* What the step of one worker has to show for Fanout. *)
LEMMA FanoutMoves ==
  ASSUME Fanout, NEW w \in Workers, OneEntryPerName',
         \A v \in Workers : v # w => pc'[v] = pc[v] /\ at'[v] = at[v],
         \A v \in Workers : v # w /\ pc[v] \in Fanning =>
           Fresh(entries', delivered', at[v].message, at[v].pos),
         \A v \in Workers : v # w /\ pc[v] = "deliver" =>
           Apart(entries', delivered', at[v].message, at[v].pos, at[v].object),
         pc'[w] \in Fanning =>
           /\ Fresh(entries', delivered', at'[w].message, at'[w].pos)
           /\ \A v \in Workers : v # w /\ pc[v] \in Fanning => at[v].message # at'[w].message,
         pc'[w] = "deliver" =>
           Apart(entries', delivered', at'[w].message, at'[w].pos, at'[w].object)
  PROVE  Fanout'
<1>1. ASSUME NEW u \in Workers, NEW v \in Workers, u # v,
             pc'[u] \in Fanning, pc'[v] \in Fanning
      PROVE  at'[u].message # at'[v].message
  <2>1. CASE u = w
    BY <1>1, <2>1
  <2>2. CASE v = w
    BY <1>1, <2>2
  <2>3. CASE u # w /\ v # w
    BY <1>1, <2>3 DEF Fanout, OwnMessage
  <2> QED
    BY <2>1, <2>2, <2>3
<1>2. ASSUME NEW v \in Workers
      PROVE  /\ pc'[v] \in Fanning => Fresh(entries', delivered', at'[v].message, at'[v].pos)
             /\ pc'[v] = "deliver" =>
                  Apart(entries', delivered', at'[v].message, at'[v].pos, at'[v].object)
  BY <1>2
<1>3. OwnMessage' /\ Undone'
  BY <1>1, <1>2 DEF OwnMessage, Undone
<1> QED
  BY <1>3 DEF Fanout

(* What Fanout says of one worker. *)
LEMMA FanoutOf ==
  ASSUME Fanout, NEW w \in Workers
  PROVE  /\ pc[w] \in Fanning => Fresh(entries, delivered, at[w].message, at[w].pos)
         /\ pc[w] = "deliver" =>
              Apart(entries, delivered, at[w].message, at[w].pos, at[w].object)
         /\ pc[w] \in Fanning => \A v \in Workers : v # w /\ pc[v] \in Fanning =>
              at[v].message # at[w].message
BY DEF Fanout, Undone, OwnMessage

(* A new message has been delivered to nobody, and nobody else carries it. *)
LEMMA NextMessageFanout ==
  ASSUME TypeInv, Fanout, NEW w \in Workers, NextMessage(w)
  PROVE  Fanout'
<1> DEFINE m == counter + 1
           k == at[w].left - 1
           l == [at[w] EXCEPT !.message = m, !.left = k, !.pos = 0, !.size = Size, !.got = 0]
<1>1. /\ pc' = [pc EXCEPT ![w] = "next subscription"] /\ at' = [at EXCEPT ![w] = l]
      /\ UNCHANGED <<entries, name, delivered>>
  BY DEF NextMessage, Goto, Set
<1> HIDE DEF k, m
<1>2. l.message = m
  <2>1. at[w] \in LocalVars
    BY LocalsOf
  <2> HIDE DEF Made, LeaseSet, Tomb
  <2> QED
    BY <2>1 DEF LocalVars
<1> HIDE DEF l
<1>3. /\ pc'[w] = "next subscription"
      /\ \A v \in Workers : v # w => pc'[v] = pc[v] /\ at'[v] = at[v]
  BY <1>1, Elsewhere
<1>4. at'[w].message = m
  BY <1>1, <1>2 DEF TypeInv, WorkersInv
<1>5. \A o : <<o, m>> \notin delivered
  <2>1. counter \in Nat /\ delivered \subseteq Made \X (1..counter)
    BY NumbersOf DEF TypeInv, StoreInv
  <2> QED
    BY <2>1 DEF m
<1>6. \A v \in Workers : at[v].message # m
  BY NumbersOf DEF m
<1>7. OneEntryPerName'
  BY <1>1 DEF Fanout, OneEntryPerName
<1>8. Fresh(entries', delivered', at'[w].message, at'[w].pos)
  <2>1. \A e, p : Fresh(e, delivered, m, p)
    BY <1>5 DEF Fresh
  <2>2. delivered' = delivered
    BY <1>1
  <2> QED
    BY <1>4, <2>1, <2>2
<1>9. ASSUME NEW v \in Workers
      PROVE  /\ pc[v] \in Fanning => Fresh(entries', delivered', at[v].message, at[v].pos)
             /\ pc[v] = "deliver" =>
                  Apart(entries', delivered', at[v].message, at[v].pos, at[v].object)
  BY <1>1, FanoutOf
<1>10. pc'[w] # "deliver"
  BY <1>3
<1> QED
  BY <1>3, <1>4, <1>6, <1>7, <1>8, <1>9, <1>10, FanoutMoves

(* The iterator moves on to an object it has not been at. *)
LEMMA NextSubscriptionFanout ==
  ASSUME TypeInv, Fanout, NEW w \in Workers, NextSubscription(w)
  PROVE  Fanout'
<1> DEFINE g == at[w].got + 1
<1>1. PICK x \in Ahead(w) :
         at' = [at EXCEPT ![w] = [at[w] EXCEPT !.pos = x, !.got = g, !.object = entries[x]]]
  BY DEF NextSubscription, Set
<1> DEFINE l == [at[w] EXCEPT !.pos = x, !.got = g, !.object = entries[x]]
<1>2. /\ pc' = [pc EXCEPT ![w] = "deliver"] /\ at' = [at EXCEPT ![w] = l]
      /\ pc[w] = "next subscription" /\ UNCHANGED <<entries, name, delivered>>
  BY <1>1 DEF NextSubscription, Goto, shared, ghosts
<1> HIDE DEF g
<1>3. l.message = at[w].message /\ l.pos = x /\ l.object = entries[x]
  <2>1. at[w] \in LocalVars
    BY LocalsOf
  <2> HIDE DEF Made, LeaseSet, Tomb
  <2> QED
    BY <2>1 DEF LocalVars
<1> HIDE DEF l
<1>4. /\ pc'[w] = "deliver"
      /\ \A v \in Workers : v # w => pc'[v] = pc[v] /\ at'[v] = at[v]
  BY <1>2, Elsewhere
<1>5. at'[w].message = at[w].message /\ at'[w].pos = x /\ at'[w].object = entries[x]
  BY <1>2, <1>3 DEF TypeInv, WorkersInv
<1>6. x \in DOMAIN entries /\ x > at[w].pos /\ entries[x] # Tomb
  BY DEF Ahead
<1>7. DOMAIN entries \subseteq Nat /\ at[w].pos \in Nat /\ x \in Nat
  BY <1>6, NumbersOf DEF TypeInv, ObjectsInv
<1>8. \A y \in DOMAIN entries : y > x => y > at[w].pos /\ entries[y] # entries[x]
  <2> SUFFICES ASSUME NEW y \in DOMAIN entries, y > x
               PROVE  y > at[w].pos /\ entries[y] # entries[x]
    OBVIOUS
  <2>1. y > at[w].pos /\ y # x
    BY <1>6, <1>7
  <2> QED
    BY <1>6, <2>1 DEF Fanout, OneEntryPerName
<1>9. Fresh(entries, delivered, at[w].message, at[w].pos)
  BY <1>2, FanoutOf DEF Fanning
<1>10. OneEntryPerName'
  BY <1>2 DEF Fanout, OneEntryPerName
<1>11. /\ Fresh(entries', delivered', at'[w].message, at'[w].pos)
       /\ Apart(entries', delivered', at'[w].message, at'[w].pos, at'[w].object)
  <2>1. /\ Fresh(entries, delivered, at[w].message, x)
        /\ Apart(entries, delivered, at[w].message, x, entries[x])
    BY <1>6, <1>8, <1>9 DEF Fresh, Apart
  <2>2. entries' = entries /\ delivered' = delivered
    BY <1>2
  <2> QED
    BY <1>5, <2>1, <2>2
<1>12. ASSUME NEW v \in Workers
       PROVE  /\ pc[v] \in Fanning => Fresh(entries', delivered', at[v].message, at[v].pos)
              /\ pc[v] = "deliver" =>
                   Apart(entries', delivered', at[v].message, at[v].pos, at[v].object)
  BY <1>2, FanoutOf
<1>13. \A v \in Workers : v # w /\ pc[v] \in Fanning => at[v].message # at'[w].message
  BY <1>2, <1>5, FanoutOf DEF Fanning
<1> QED
  BY <1>4, <1>10, <1>11, <1>12, <1>13, FanoutMoves

(* A delivery is one publish's: it touches no other's message, and its own *)
(* iterator is past the object.                                            *)
LEMMA DeliverFanout ==
  ASSUME TypeInv, Fanout, NEW w \in Workers, Deliver(w)
  PROVE  Fanout'
<1> DEFINE o == at[w].object
           m == at[w].message
<1>1. /\ pc[w] = "deliver" /\ pc' = [pc EXCEPT ![w] = "next subscription"] /\ at' = at
      /\ UNCHANGED <<entries, name>> /\ delivered' = delivered \union {<<o, m>>}
  BY DEF Deliver, Goto
<1>2. /\ pc'[w] = "next subscription" /\ \A v \in Workers : v # w => pc'[v] = pc[v]
  BY <1>1, Elsewhere
<1>3. OneEntryPerName'
  BY <1>1 DEF Fanout, OneEntryPerName
<1>4. ASSUME NEW v \in Workers, v # w
      PROVE  /\ pc[v] \in Fanning => Fresh(entries', delivered', at[v].message, at[v].pos)
             /\ pc[v] = "deliver" =>
                  Apart(entries', delivered', at[v].message, at[v].pos, at[v].object)
  <2>1. pc[v] \in Fanning => at[v].message # m
    BY <1>1, <1>4, FanoutOf DEF Fanning
  <2>2. /\ pc[v] \in Fanning => Fresh(entries, delivered, at[v].message, at[v].pos)
        /\ pc[v] = "deliver" =>
             Apart(entries, delivered, at[v].message, at[v].pos, at[v].object)
    BY FanoutOf
  <2> QED
    BY <1>1, <2>1, <2>2 DEF Fresh, Apart, Fanning
<1>5. Fresh(entries', delivered', at'[w].message, at'[w].pos)
  <2>1. Fresh(entries, delivered, m, at[w].pos) /\ Apart(entries, delivered, m, at[w].pos, o)
    BY <1>1, FanoutOf DEF Fanning
  <2> QED
    BY <1>1, <2>1 DEF Fresh, Apart
<1>6. \A v \in Workers : v # w /\ pc[v] \in Fanning => at[v].message # at'[w].message
  BY <1>1, FanoutOf DEF Fanning
<1>7. pc'[w] # "deliver"
  BY <1>2
<1>8. \A v \in Workers : v # w => pc'[v] = pc[v] /\ at'[v] = at[v]
  BY <1>1, <1>2
<1> QED
  BY <1>3, <1>4, <1>5, <1>6, <1>7, <1>8, FanoutMoves

(* A dict whose places hold what places at or after them held, or nothing, *)
(* or an object nothing was delivered to, puts nothing done ahead again.   *)
LEMMA Reshaped ==
  ASSUME NEW e, NEW f, NEW d, NEW m, NEW p \in Nat, NEW o, NEW q,
         DOMAIN e \subseteq Nat, DOMAIN f \subseteq Nat,
         \A x \in DOMAIN f : \/ f[x] \in {o, Tomb}
                             \/ \E y \in DOMAIN e : x <= y /\ f[x] = e[y],
         <<o, m>> \notin d, <<Tomb, m>> \notin d
  PROVE  /\ Fresh(e, d, m, p) => Fresh(f, d, m, p)
         /\ Apart(e, d, m, p, q) /\ q \notin {o, Tomb} => Apart(f, d, m, p, q)
<1>1. ASSUME NEW x \in DOMAIN f, x > p, f[x] \notin {o, Tomb}
      PROVE  \E y \in DOMAIN e : y > p /\ f[x] = e[y]
  BY <1>1
<1> QED
  BY <1>1 DEF Fresh, Apart

LEMMA NewEntry ==
  ASSUME TypeInv, Fanout, NEW w \in Workers, Insert(w)
  PROVE  /\ OneEntryPerName'
         /\ DOMAIN entries \subseteq Nat /\ DOMAIN entries' \subseteq Nat
         /\ \A x \in DOMAIN entries' :
              \/ entries'[x] \in {Len(name) + 1, Tomb}
              \/ \E y \in DOMAIN entries : x <= y /\ entries'[x] = entries[y]
<1> DEFINE o   == Len(name) + 1
           n   == at[w].name
           old == Find(n)
<1>1. name' = Append(name, n) /\ n \in Names
  BY DEF Insert, Return, Goto, TypeInv, WorkersInv
<1>2. entries' = IF old = {} THEN Append(Room, o)
                 ELSE [x \in DOMAIN entries |-> IF entries[x] \in old THEN o ELSE entries[x]]
  BY DEF Insert
<1>3. /\ name \in Seq(Names) /\ Len(name) \in Nat
      /\ entries \in Seq(Made \union {Tomb})
  BY DEF TypeInv, ObjectsInv
<1>4. name'[o] = n /\ \A p \in Made : name'[p] = name[p]
  BY <1>1, <1>3, AppendProperties DEF Made
<1>5. o \notin Made /\ o # Tomb /\ Tomb \notin Made /\ o \in Nat
  BY <1>3 DEF Made, Tomb
<1> HIDE DEF o, n
<1>6. /\ \A p \in old : p \in Live /\ name[p] = n
      /\ \A p \in Live : name[p] = n => p \in old
  BY DEF Find
<1>7. /\ \A x \in DOMAIN entries : entries[x] = Tomb \/ entries[x] \in Made
      /\ \A x \in DOMAIN entries : entries[x] # Tomb => entries[x] \in Live
  BY <1>3 DEF Live
<1>8. DOMAIN entries = 1..Len(entries) /\ Len(entries) \in Nat
  BY <1>3
<1> HIDE DEF old, Made, Tomb
<1>9. CASE old = {}
  <2> DEFINE E == Made \union {Tomb, o}
  <2>1. entries \in Seq(E) /\ o \in E
    BY <1>3, SeqMonotonic
  <2> HIDE DEF E
  <2>2. entries' = Append(Room, o)
    BY <1>2, <1>9
  <2>3. /\ entries' \in Seq(E)
        /\ entries'[Len(entries')] = o
        /\ \E from \in [DOMAIN entries' -> Nat] :
              /\ \A k \in DOMAIN entries' : k < Len(entries') =>
                   /\ from[k] \in DOMAIN entries /\ k <= from[k]
                   /\ entries'[k] = entries[from[k]]
              /\ \A k, l \in DOMAIN entries' :
                   k < Len(entries') /\ l < Len(entries') /\ from[k] = from[l] => k = l
    BY <2>1, <2>2, Extended
  <2>4. PICK from \in [DOMAIN entries' -> Nat] :
              /\ \A k \in DOMAIN entries' : k < Len(entries') =>
                   /\ from[k] \in DOMAIN entries /\ k <= from[k]
                   /\ entries'[k] = entries[from[k]]
              /\ \A k, l \in DOMAIN entries' :
                   k < Len(entries') /\ l < Len(entries') /\ from[k] = from[l] => k = l
    BY <2>3
  <2>5. DOMAIN entries' = 1..Len(entries') /\ Len(entries') \in Nat
    BY <2>3
  <2>6. \A k \in DOMAIN entries' : k < Len(entries') \/ k = Len(entries')
    BY <2>5
  <2>7. ASSUME NEW k \in DOMAIN entries', k < Len(entries'), entries'[k] # Tomb
        PROVE  entries'[k] \in Made /\ entries'[k] \in Live /\ name'[entries'[k]] = name[entries'[k]]
    BY <1>4, <1>7, <2>4, <2>7
  <2>8. ASSUME NEW k \in DOMAIN entries', NEW l \in DOMAIN entries',
               entries'[k] # Tomb, entries'[l] # Tomb, name'[entries'[k]] = name'[entries'[l]]
        PROVE  k = l
    <3>1. CASE k < Len(entries') /\ l < Len(entries')
      <4>1. name[entries'[k]] = name[entries'[l]]
        BY <2>7, <2>8, <3>1
      <4>2. from[k] = from[l]
        BY <2>4, <2>8, <3>1, <4>1 DEF Fanout, OneEntryPerName
      <4> QED
        BY <2>4, <3>1, <4>2
    <3>2. CASE k < Len(entries') /\ l = Len(entries')
      <4>1. name[entries'[k]] = n /\ entries'[k] \in Live
        BY <1>4, <2>3, <2>7, <2>8, <3>2
      <4> QED
        BY <1>6, <1>9, <4>1
    <3>3. CASE k = Len(entries') /\ l < Len(entries')
      <4>1. name[entries'[l]] = n /\ entries'[l] \in Live
        BY <1>4, <2>3, <2>7, <2>8, <3>3
      <4> QED
        BY <1>6, <1>9, <4>1
    <3>4. CASE k = Len(entries') /\ l = Len(entries')
      BY <3>4
    <3> QED
      BY <2>6, <3>1, <3>2, <3>3, <3>4
  <2>9. OneEntryPerName'
    BY <2>8 DEF OneEntryPerName, Tomb
  <2>10. ASSUME NEW x \in DOMAIN entries'
         PROVE  \/ entries'[x] = o
                \/ \E y \in DOMAIN entries : x <= y /\ entries'[x] = entries[y]
    <3>1. CASE x < Len(entries')
      BY <2>4, <3>1
    <3>2. CASE x = Len(entries')
      BY <2>3, <3>2
    <3> QED
      BY <2>6, <3>1, <3>2
  <2> QED
    BY <1>8, <2>5, <2>9, <2>10 DEF o
<1>10. CASE old # {}
  <2>1. /\ DOMAIN entries' = DOMAIN entries
        /\ \A x \in DOMAIN entries : /\ entries[x] \in old => entries'[x] = o
                                     /\ entries[x] \notin old => entries'[x] = entries[x]
    BY <1>2, <1>10
  <2>2. ASSUME NEW x \in DOMAIN entries, entries'[x] # Tomb
        PROVE  /\ entries[x] # Tomb
               /\ name'[entries'[x]] = name[entries[x]]
    <3>1. CASE entries[x] \in old
      <4>1. entries[x] \in Live /\ name[entries[x]] = n /\ entries'[x] = o
        BY <1>6, <2>1, <3>1
      <4>2. entries[x] # Tomb
        BY <4>1 DEF Live
      <4> QED
        BY <1>4, <4>1, <4>2
    <3>2. CASE entries[x] \notin old
      <4>1. entries'[x] = entries[x] /\ entries[x] # Tomb /\ entries[x] \in Made
        BY <1>7, <2>1, <2>2, <3>2
      <4> QED
        BY <1>4, <4>1
    <3> QED
      BY <3>1, <3>2
  <2>3. OneEntryPerName'
    BY <2>1, <2>2 DEF OneEntryPerName, Fanout, Tomb
  <2>4. ASSUME NEW x \in DOMAIN entries'
        PROVE  \/ entries'[x] = o
               \/ \E y \in DOMAIN entries : x <= y /\ entries'[x] = entries[y]
    <3>1. x \in DOMAIN entries /\ x <= x
      BY <1>8, <2>1
    <3> QED
      BY <2>1, <3>1
  <2> QED
    BY <1>8, <2>1, <2>3, <2>4 DEF o
<1> QED
  BY <1>9, <1>10

(* What a reshaped dict has to show for Fanout: everything else is above. *)
LEMMA ReshapedFanout ==
  ASSUME TypeInv, Fanout, NEW w \in Workers, NEW from, Return(w, from), OneEntryPerName',
         NEW o, o \notin Made, delivered' = delivered,
         DOMAIN entries \subseteq Nat, DOMAIN entries' \subseteq Nat,
         \A x \in DOMAIN entries' :
           \/ entries'[x] \in {o, Tomb}
           \/ \E y \in DOMAIN entries : x <= y /\ entries'[x] = entries[y]
  PROVE  Fanout'
<1>1. /\ pc'[w] = "idle" /\ \A v \in Workers : v # w => pc'[v] = pc[v] /\ at'[v] = at[v]
  BY Elsewhere DEF Return, Goto, Set
<1>2. \A m : <<o, m>> \notin delivered /\ <<Tomb, m>> \notin delivered
  BY DEF TypeInv, StoreInv, Made, Tomb
<1>3. ASSUME NEW v \in Workers
      PROVE  /\ pc[v] \in Fanning => Fresh(entries', delivered', at[v].message, at[v].pos)
             /\ pc[v] = "deliver" =>
                  Apart(entries', delivered', at[v].message, at[v].pos, at[v].object)
  <2>1. at[v].pos \in Nat
    BY NumbersOf
  <2>2. pc[v] = "deliver" => at[v].object \notin {o, Tomb}
    BY Owned DEF Owning, Made, Tomb
  <2> HIDE DEF Made, Tomb
  <2>3. /\ Fresh(entries, delivered, at[v].message, at[v].pos) =>
              Fresh(entries', delivered, at[v].message, at[v].pos)
        /\ /\ Apart(entries, delivered, at[v].message, at[v].pos, at[v].object)
           /\ at[v].object \notin {o, Tomb}
           => Apart(entries', delivered, at[v].message, at[v].pos, at[v].object)
    BY <1>2, <2>1, Reshaped
  <2> QED
    BY <2>2, <2>3, FanoutOf
<1>4. pc'[w] \notin Fanning /\ pc'[w] # "deliver"
  BY <1>1 DEF Fanning
<1> QED
  BY <1>1, <1>3, <1>4, FanoutMoves

LEMMA InsertFanout ==
  ASSUME TypeInv, Fanout, NEW w \in Workers, Insert(w)
  PROVE  Fanout'
<1>1. Len(name) + 1 \notin Made
  BY NumbersOf DEF Made
<1>2. Return(w, "insert") /\ delivered' = delivered
  BY DEF Insert
<1> HIDE DEF Made, Tomb
<1> QED
  BY <1>1, <1>2, NewEntry, ReshapedFanout

LEMMA DeleteFanout ==
  ASSUME TypeInv, Fanout, NEW w \in Workers, Delete(w)
  PROVE  Fanout'
<1> DEFINE old == Find(at[w].name)
<1>1. /\ Return(w, "delete") /\ delivered' = delivered /\ name' = name
      /\ entries' = [x \in DOMAIN entries |-> IF entries[x] \in old THEN Tomb ELSE entries[x]]
  BY DEF Delete
<1> HIDE DEF old
<1>2. Tomb \notin Made /\ DOMAIN entries \subseteq Nat
  BY DEF Made, Tomb, TypeInv, ObjectsInv
<1>3. DOMAIN entries' = DOMAIN entries
  BY <1>1
<1> HIDE DEF Tomb, Made
<1>4. ASSUME NEW x \in DOMAIN entries, entries'[x] # Tomb
      PROVE  entries'[x] = entries[x]
  BY <1>1, <1>4
<1>5. OneEntryPerName'
  BY <1>1, <1>3, <1>4 DEF Fanout, OneEntryPerName
<1>6. ASSUME NEW x \in DOMAIN entries'
      PROVE  \/ entries'[x] \in {Tomb, Tomb}
             \/ \E y \in DOMAIN entries : x <= y /\ entries'[x] = entries[y]
  BY <1>2, <1>3, <1>4
<1> QED
  BY <1>1, <1>2, <1>3, <1>5, <1>6, ReshapedFanout

LEMMA FanoutStep == TypeInv /\ Fanout /\ [Next]_vars => Fanout'
<1> SUFFICES ASSUME TypeInv, Fanout, [Next]_vars PROVE Fanout'
  OBVIOUS
<1>0. /\ "idle" \notin Fanning /\ "next message" \notin Fanning /\ "insert" \notin Fanning
      /\ "delete" \notin Fanning /\ "look" \notin Fanning /\ "pop" \notin Fanning
      /\ "lease" \notin Fanning /\ "requeue" \notin Fanning
  BY DEF Fanning
<1>1. ASSUME NEW w \in Workers, Publishing(w) PROVE Fanout'
  <2>1. ASSUME NEW n \in 0..MaxBatch, CallPublish(w, n) PROVE Fanout'
    BY <1>0, <2>1, FanoutApart DEF CallPublish, Goto, Set, shared, ghosts
  <2>2. ASSUME PublishReturns(w) \/ PublishFails(w) PROVE Fanout'
    BY <1>0, <2>2, FanoutApart DEF PublishReturns, PublishFails, Return, Goto, Set, shared, ghosts
  <2>3. ASSUME FannedOut(w) PROVE Fanout'
    BY <1>0, <2>3, FanoutApart DEF FannedOut, Goto, shared
  <2> QED
    BY <1>1, <2>1, <2>2, <2>3, NextMessageFanout, NextSubscriptionFanout, DeliverFanout
    DEF Publishing
<1>2. ASSUME NEW w \in Workers, Managing(w) PROVE Fanout'
  <2>1. ASSUME NEW n \in Names, CallCreate(w, n) \/ CallDelete(w, n) PROVE Fanout'
    BY <1>0, <2>1, FanoutApart DEF CallCreate, CallDelete, Goto, Set, shared, ghosts
  <2> QED
    BY <1>2, <2>1, InsertFanout, DeleteFanout DEF Managing
<1>3. ASSUME NEW w \in Workers, Pulling(w) PROVE Fanout'
  <2>1. ASSUME NEW n \in Names, NEW limit \in 1..MaxPull, CallPull(w, n, limit) PROVE Fanout'
    BY <1>0, <2>1, FanoutApart DEF CallPull, Goto, Set, shared, ghosts
  <2>2. ASSUME Look(w) PROVE Fanout'
    BY <1>0, <2>2, FanoutApart DEF Look, Goto, shared, ghosts
  <2>3. ASSUME PullReturns(w) \/ PullFails(w) PROVE Fanout'
    BY <1>0, <2>3, FanoutApart DEF PullReturns, PullFails, Return, Goto, Set, shared, ghosts
  <2>4. ASSUME Pop(w) PROVE Fanout'
    BY <1>0, <2>4, FanoutApart DEF Pop, Goto, Set, ghosts
  <2>5. ASSUME Lease(w) PROVE Fanout'
    BY <1>0, <2>5, FanoutApart DEF Lease, Goto, Set, ghosts
  <2> QED
    BY <1>3, <2>1, <2>2, <2>3, <2>4, <2>5 DEF Pulling
<1>4. ASSUME NEW w \in Workers, Settling(w) PROVE Fanout'
  <2>1. ASSUME NEW lease, NEW to \in {"acknowledge", "nack"}, CallSettle(w, lease, to)
        PROVE  Fanout'
    <3>1. to \notin Fanning /\ \E l : at' = [at EXCEPT ![w] = l]
      BY <2>1 DEF CallSettle, Set, Fanning
    <3> QED
      BY <2>1, <3>1, FanoutApart DEF CallSettle, Goto, shared, ghosts
  <2>2. ASSUME NackPop(w) PROVE Fanout'
    BY <1>0, <2>2, FanoutApart DEF NackPop, Goto, Set, ghosts
  <2>3. ASSUME Requeue(w) PROVE Fanout'
    BY <1>0, <2>3, FanoutApart DEF Requeue, Return, Goto, Set, ghosts
  <2>4. ASSUME Acknowledge(w) PROVE Fanout'
    BY <1>0, <2>4, FanoutApart DEF Acknowledge, Return, Goto, Set
  <2>5. ASSUME NoLease(w) PROVE Fanout'
    <3>1. UNCHANGED <<entries, name, delivered>>
      BY <2>5 DEF NoLease, shared, ghosts
    <3>2. pc' = [pc EXCEPT ![w] = "idle"] /\ at' = [at EXCEPT ![w] = Locals]
      BY <2>5 DEF NoLease, Return, Goto, Set
    <3> QED
      BY <1>0, <3>1, <3>2, FanoutApart
  <2> QED
    BY <1>4, <2>1, <2>2, <2>3, <2>4, <2>5 DEF Settling
<1>5. CASE UNCHANGED vars
  <2>1. UNCHANGED <<entries, name, delivered, pc, at>>
    BY <1>5 DEF vars, shared, ghosts
  <2> QED
    BY <2>1, FanoutStays
<1> QED
  BY <1>1, <1>2, <1>3, <1>4, <1>5 DEF Next

LEMMA InitFanout == Init => Fanout
<1> SUFFICES ASSUME Init PROVE Fanout
  OBVIOUS
<1>1. entries = <<>> /\ \A w \in Workers : pc[w] = "idle"
  BY DEF Init
<1>2. DOMAIN entries = {}
  BY <1>1
<1> QED
  BY <1>1, <1>2 DEF Fanout, OneEntryPerName, Undone, OwnMessage, Fanning

------------------------------------------------------------------------------
(* Copies: the four places of a message *)

LEMMA ValuesAppend ==
  ASSUME NEW E, NEW s \in Seq(E), NEW m \in E
  PROVE  /\ Values(Append(s, m)) = Values(s) \union {m}
         /\ Once(s) /\ m \notin Values(s) => Once(Append(s, m))
<1> DEFINE t == Append(s, m)
<1>1. /\ DOMAIN s = 1..Len(s) /\ Len(s) \in Nat /\ DOMAIN t = 1..(Len(s) + 1)
      /\ (\A i \in 1..Len(s) : t[i] = s[i]) /\ t[Len(s) + 1] = m
  BY AppendProperties, LenProperties
<1> HIDE DEF t
<1>2. \A i \in DOMAIN t : i \in DOMAIN s \/ i = Len(s) + 1
  BY <1>1
<1>3. /\ DOMAIN s \subseteq DOMAIN t /\ Len(s) + 1 \in DOMAIN t
      /\ \A i \in DOMAIN s : t[i] = s[i]
  BY <1>1
<1>4. Values(t) = Values(s) \union {m}
  BY <1>1, <1>2, <1>3 DEF Values
<1>5. Once(s) /\ m \notin Values(s) => Once(t)
  BY <1>1, <1>2, <1>3 DEF Values, Once
<1> QED
  BY <1>4, <1>5 DEF t

LEMMA ValuesTail ==
  ASSUME NEW E, NEW s \in Seq(E), s # <<>>, Once(s)
  PROVE  /\ Values(Tail(s)) = Values(s) \ {Head(s)} /\ Head(s) \in Values(s)
         /\ Once(Tail(s))
<1> DEFINE t == Tail(s)
<1>1. /\ DOMAIN s = 1..Len(s) /\ Len(s) \in Nat /\ Len(s) >= 1 /\ DOMAIN t = 1..(Len(s) - 1)
      /\ Head(s) = s[1]
      /\ \A i \in 1..(Len(s) - 1) : t[i] = s[i + 1]
  BY HeadTailProperties, LenProperties, EmptySeq
<1> HIDE DEF t
<1>2. \A i \in DOMAIN t : t[i] = s[i + 1] /\ i + 1 \in DOMAIN s /\ i + 1 # 1
  BY <1>1
<1>3. \A i \in DOMAIN s : i # 1 => i - 1 \in DOMAIN t /\ t[i - 1] = s[i]
  BY <1>1
<1>4. 1 \in DOMAIN s
  BY <1>1
<1>5. Once(t)
  <2> SUFFICES ASSUME NEW i \in DOMAIN t, NEW j \in DOMAIN t, t[i] = t[j] PROVE i = j
    BY DEF Once
  <2>1. i + 1 = j + 1
    BY <1>2 DEF Once
  <2>2. i \in Nat /\ j \in Nat
    BY <1>1
  <2> QED
    BY <2>1, <2>2
<1>6. Values(t) = Values(s) \ {s[1]}
  <2>1. ASSUME NEW i \in DOMAIN t PROVE t[i] \in Values(s) /\ t[i] # s[1]
    BY <1>2, <1>4 DEF Once, Values
  <2>2. ASSUME NEW i \in DOMAIN s, s[i] # s[1] PROVE s[i] \in Values(t)
    <3>1. i # 1
      BY <2>2
    <3> QED
      BY <1>3, <3>1 DEF Values
  <2> QED
    BY <2>1, <2>2 DEF Values
<1> QED
  BY <1>1, <1>4, <1>5, <1>6 DEF Values, t

LEMMA ValuesFront ==
  ASSUME NEW E, NEW s \in Seq(E), NEW m \in E
  PROVE  /\ Values(<<m>> \o s) = Values(s) \union {m}
         /\ Once(s) /\ m \notin Values(s) => Once(<<m>> \o s)
<1> DEFINE t == <<m>> \o s
<1>1. <<m>> \in Seq(E) /\ Len(<<m>>) = 1 /\ <<m>>[1] = m
  OBVIOUS
<1>2. /\ t \in Seq(E) /\ Len(t) = 1 + Len(s) /\ Len(s) \in Nat
      /\ \A i \in 1..(1 + Len(s)) : t[i] = IF i <= 1 THEN <<m>>[i] ELSE s[i - 1]
  BY <1>1, ConcatProperties, LenProperties
<1>3. DOMAIN t = 1..(1 + Len(s)) /\ DOMAIN s = 1..Len(s)
  BY <1>2, LenProperties
<1> HIDE DEF t
<1>4. t[1] = m /\ 1 \in DOMAIN t
  BY <1>1, <1>2, <1>3
<1>5. \A i \in DOMAIN t : i # 1 => i - 1 \in DOMAIN s /\ t[i] = s[i - 1]
  BY <1>2, <1>3
<1>6. \A i \in DOMAIN s : i + 1 \in DOMAIN t /\ t[i + 1] = s[i]
  BY <1>2, <1>3
<1>7. Values(t) = Values(s) \union {m}
  <2>1. \A i \in DOMAIN t : t[i] \in Values(s) \union {m}
    BY <1>4, <1>5 DEF Values
  <2>2. \A i \in DOMAIN s : s[i] \in Values(t)
    BY <1>6 DEF Values
  <2>3. m \in Values(t)
    BY <1>4 DEF Values
  <2> QED
    BY <2>1, <2>2, <2>3 DEF Values
<1>8. ASSUME Once(s), m \notin Values(s) PROVE Once(t)
  <2> SUFFICES ASSUME NEW i \in DOMAIN t, NEW j \in DOMAIN t, t[i] = t[j] PROVE i = j
    BY DEF Once
  <2>1. CASE i = 1 \/ j = 1
    BY <1>4, <1>5, <1>8, <2>1 DEF Values
  <2>2. CASE i # 1 /\ j # 1
    <3>1. i - 1 = j - 1
      BY <1>5, <1>8, <2>2 DEF Once
    <3>2. i \in Nat /\ j \in Nat
      BY <1>2, <1>3
    <3> QED
      BY <3>1, <3>2
  <2> QED
    BY <2>1, <2>2
<1> QED
  BY <1>7, <1>8 DEF t

LEMMA ValuesDrop ==
  ASSUME NEW f, NEW a \in DOMAIN f, Once(f),
         NEW g, g = [b \in DOMAIN f \ {a} |-> f[b]]
  PROVE  Values(g) = Values(f) \ {f[a]} /\ Once(g) /\ f[a] \in Values(f)
BY DEF Values, Once

(* What is in a worker's hands when one worker moves. *)
Holds(w, o, m) == pc[w] \in Holding /\ at[w].object = o /\ at[w].message = m

LEMMA HandOf ==
  /\ \A o, m : m \in InHand(o) <=> \E w \in Workers : Holds(w, o, m)
  /\ \A o : OneHolder(o) <=>
       \A v, w \in Workers : \A m : Holds(v, o, m) /\ Holds(w, o, m) => v = w
BY DEF InHand, Holds, Holding, OneHolder

LEMMA HandNext ==
  /\ \A o, m : m \in InHand(o)' <=> \E w \in Workers : Holds(w, o, m)'
  /\ \A o : OneHolder(o)' <=>
       \A v, w \in Workers : \A m : Holds(v, o, m)' /\ Holds(w, o, m)' => v = w
BY DEF InHand, Holds, Holding, OneHolder

LEMMA HandsStay ==
  ASSUME \A v \in Workers : \A o, m : Holds(v, o, m)' <=> Holds(v, o, m)
  PROVE  \A o : InHand(o)' = InHand(o) /\ (OneHolder(o) => OneHolder(o)')
<1> SUFFICES ASSUME NEW o PROVE InHand(o)' = InHand(o) /\ (OneHolder(o) => OneHolder(o)')
  OBVIOUS
<1> HIDE DEF Holds
<1>1. \A m : m \in InHand(o)' <=> m \in InHand(o)
  BY HandOf, HandNext
<1> QED
  BY <1>1, HandOf, HandNext

(* A worker takes message m of object o. *)
LEMMA HandTakes ==
  ASSUME NEW w \in Workers, NEW o, NEW m,
         \A v \in Workers : \A p, k : v # w => (Holds(v, p, k)' <=> Holds(v, p, k)),
         \A p, k : ~Holds(w, p, k),
         \A p, k : Holds(w, p, k)' <=> p = o /\ k = m
  PROVE  /\ InHand(o)' = InHand(o) \union {m}
         /\ m \notin InHand(o) /\ OneHolder(o) => OneHolder(o)'
         /\ \A p : p # o => InHand(p)' = InHand(p) /\ (OneHolder(p) => OneHolder(p)')
<1>1. \A p, k : k \in InHand(p)' <=> k \in InHand(p) \/ (p = o /\ k = m)
  BY HandOf, HandNext
<1>2. InHand(o)' = InHand(o) \union {m}
  BY <1>1
<1>3. \A p : p # o => InHand(p)' = InHand(p)
  BY <1>1
<1>4. ASSUME NEW p, OneHolder(p), p = o => m \notin InHand(o) PROVE OneHolder(p)'
  <2> SUFFICES ASSUME NEW u \in Workers, NEW v \in Workers, NEW k, Holds(u, p, k)', Holds(v, p, k)'
               PROVE  u = v
    BY HandNext
  <2>1. CASE u # w /\ v # w
    BY <1>4, <2>1, HandOf
  <2>2. CASE u = w /\ v # w
    <3>1. p = o /\ k = m /\ Holds(v, p, k)
      BY <2>2
    <3> QED
      BY <1>4, <3>1, HandOf
  <2>3. CASE u # w /\ v = w
    <3>1. p = o /\ k = m /\ Holds(u, p, k)
      BY <2>3
    <3> QED
      BY <1>4, <3>1, HandOf
  <2>4. CASE u = w /\ v = w
    BY <2>4
  <2> QED
    BY <2>1, <2>2, <2>3, <2>4
<1> QED
  BY <1>2, <1>3, <1>4

(* A worker lets go of message m of object o. *)
LEMMA HandGives ==
  ASSUME NEW w \in Workers, NEW o, NEW m, OneHolder(o),
         \A v \in Workers : \A p, k : v # w => (Holds(v, p, k)' <=> Holds(v, p, k)),
         \A p, k : ~Holds(w, p, k)',
         \A p, k : Holds(w, p, k) <=> p = o /\ k = m
  PROVE  /\ m \in InHand(o) /\ InHand(o)' = InHand(o) \ {m} /\ OneHolder(o)'
         /\ \A p : p # o => InHand(p)' = InHand(p) /\ (OneHolder(p) => OneHolder(p)')
<1>1. m \in InHand(o)
  BY HandOf
<1>2. ASSUME NEW p, NEW k PROVE k \in InHand(p)' <=> k \in InHand(p) /\ ~(p = o /\ k = m)
  <2>1. CASE p = o /\ k = m
    <3>1. \A v \in Workers : v # w => ~Holds(v, o, m)
      BY HandOf
    <3> QED
      BY <2>1, <3>1, HandNext
  <2>2. CASE ~(p = o /\ k = m)
    <3>1. \A v \in Workers : Holds(v, p, k)' <=> Holds(v, p, k)
      BY <2>2
    <3> QED
      BY <2>2, <3>1, HandOf, HandNext
  <2> QED
    BY <2>1, <2>2
<1>3. InHand(o)' = InHand(o) \ {m}
  BY <1>2
<1>4. \A p : p # o => InHand(p)' = InHand(p)
  BY <1>2
<1>5. ASSUME NEW p, OneHolder(p) PROVE OneHolder(p)'
  <2>1. \A v \in Workers : \A k : Holds(v, p, k)' => Holds(v, p, k)
    OBVIOUS
  <2> QED
    BY <1>5, <2>1, HandOf, HandNext
<1> QED
  BY <1>1, <1>3, <1>4, <1>5

(* Settled and Given, in the state before a step and after it. *)
LEMMA SetsOf ==
  ASSUME TypeInv, NEW o
  PROVE  /\ \A m : m \in Settled(o) <=> <<o, m>> \in settled
         /\ \A m : m \in Given(o) <=> <<o, m>> \in delivered
BY DEF TypeInv, StoreInv, Settled, Given

LEMMA SetsNext ==
  ASSUME TypeInv', NEW o
  PROVE  /\ \A m : m \in Settled(o)' <=> <<o, m>> \in settled'
         /\ \A m : m \in Given(o)' <=> <<o, m>> \in delivered'
BY DEF TypeInv, StoreInv, Settled, Given

LEMMA SetsStay ==
  ASSUME TypeInv, TypeInv', NEW o
  PROVE  /\ settled' = settled => Settled(o)' = Settled(o)
         /\ delivered' = delivered => Given(o)' = Given(o)
         /\ \A p, m : settled' = settled \union {<<p, m>>} =>
              Settled(o)' = IF o = p THEN Settled(o) \union {m} ELSE Settled(o)
         /\ \A p, m : delivered' = delivered \union {<<p, m>>} =>
              Given(o)' = IF o = p THEN Given(o) \union {m} ELSE Given(o)
<1>1. /\ \A m : m \in Settled(o) <=> <<o, m>> \in settled
      /\ \A m : m \in Given(o) <=> <<o, m>> \in delivered
  BY SetsOf
<1>2. /\ \A m : m \in Settled(o)' <=> <<o, m>> \in settled'
      /\ \A m : m \in Given(o)' <=> <<o, m>> \in delivered'
  BY SetsNext
<1> QED
  BY <1>1, <1>2

(* Nothing about an object changes. *)
LEMMA CopiesSame ==
  ASSUME NEW p, CopiesOf(p),
         backlog'[p] = backlog[p], outstanding'[p] = outstanding[p],
         InHand(p)' = InHand(p), OneHolder(p) => OneHolder(p)',
         Settled(p)' = Settled(p), Given(p)' = Given(p)
  PROVE  CopiesOf(p)'
<1>1. Queued(p)' = Queued(p) /\ Leased(p)' = Leased(p)
  BY DEF Queued, Leased
<1> QED
  BY <1>1 DEF CopiesOf

(* Most steps move no message. *)
LEMMA CopiesStay ==
  ASSUME TypeInv, TypeInv', Copies, UNCHANGED <<backlog, outstanding, delivered, settled>>,
         \A v \in Workers : \A o, m : Holds(v, o, m)' <=> Holds(v, o, m)
  PROVE  Copies'
<1>1. ASSUME NEW p \in Objects PROVE CopiesOf(p)'
  BY HandsStay, SetsStay, CopiesSame DEF Copies
<1> QED
  BY <1>1 DEF Copies

LEMMA CopiesApart ==
  ASSUME TypeInv, TypeInv', Copies, NEW w \in Workers, NEW to,
         pc[w] \notin Holding, to \notin Holding,
         pc' = [pc EXCEPT ![w] = to], at' = at \/ (\E l : at' = [at EXCEPT ![w] = l]),
         UNCHANGED <<backlog, outstanding, delivered, settled>>
  PROVE  Copies'
<1>1. pc'[w] = to /\ \A v \in Workers : v # w => pc'[v] = pc[v] /\ at'[v] = at[v]
  BY Elsewhere
<1>2. \A v \in Workers : \A o, m : Holds(v, o, m)' <=> Holds(v, o, m)
  BY <1>1 DEF Holds
<1> QED
  BY <1>2, CopiesStay

(* A step that moves message m of object o keeps all copies, if it keeps   *)
(* those of o and leaves the other objects alone.                          *)
LEMMA CopiesElsewhere ==
  ASSUME Copies, NEW o \in Objects,
         \A p \in Objects : p # o =>
           /\ backlog'[p] = backlog[p] /\ outstanding'[p] = outstanding[p]
           /\ InHand(p)' = InHand(p) /\ (OneHolder(p) => OneHolder(p)')
           /\ Settled(p)' = Settled(p) /\ Given(p)' = Given(p),
         CopiesOf(o)'
  PROVE  Copies'
<1>1. ASSUME NEW p \in Objects, p # o PROVE CopiesOf(p)'
  <2>1. CopiesOf(p)
    BY DEF Copies
  <2> QED
    BY <1>1, <2>1, CopiesSame
<1> QED
  BY <1>1 DEF Copies

(* Delivered, a message that was nowhere is queued or settled. *)
LEMMA DeliverCopies ==
  ASSUME TypeInv, TypeInv', Fanout, Copies, NEW w \in Workers, Deliver(w),
         NEW o, o = at[w].object, NEW m, m = at[w].message
  PROVE  Copies'
<1>1. /\ pc[w] = "deliver" /\ pc' = [pc EXCEPT ![w] = "next subscription"] /\ at' = at
      /\ outstanding' = outstanding /\ delivered' = delivered \union {<<o, m>>}
      /\ \/ backlog' = [backlog EXCEPT ![o] = Append(@, m)] /\ settled' = settled
         \/ backlog' = backlog /\ settled' = settled \union {<<o, m>>}
  BY DEF Deliver, Goto
<1>2. o \in Objects /\ m \in 1..counter
  BY <1>1, Owned DEF Owning, Fanning
<1>3. <<o, m>> \notin delivered
  BY <1>1, FanoutOf DEF Apart
<1>4. pc'[w] = "next subscription" /\ \A v \in Workers : v # w => pc'[v] = pc[v]
  BY <1>1, Elsewhere
<1>5. \A v \in Workers : \A p, k : Holds(v, p, k)' <=> Holds(v, p, k)
  BY <1>1, <1>4 DEF Holds, Holding
<1>6. \A p : InHand(p)' = InHand(p) /\ (OneHolder(p) => OneHolder(p)')
  BY <1>5, HandsStay
<1>7. backlog \in [Objects -> Seq(1..counter)]
  BY DEF TypeInv, StoreInv
<1>8. ASSUME NEW p \in Objects, p # o
      PROVE  /\ backlog'[p] = backlog[p] /\ outstanding'[p] = outstanding[p]
             /\ Settled(p)' = Settled(p) /\ Given(p)' = Given(p)
  <2>1. Settled(p)' = Settled(p) /\ Given(p)' = Given(p)
    BY <1>1, <1>8, SetsStay
  <2>2. backlog'[p] = backlog[p] /\ outstanding'[p] = outstanding[p]
    BY <1>1, <1>2, <1>7, <1>8
  <2> QED
    BY <2>1, <2>2
<1>9. CopiesOf(o)'
  <2>1. CopiesOf(o)
    BY <1>2 DEF Copies
  <2>2. m \notin Given(o)
    BY <1>3, SetsOf
  <2>3. m \notin Queued(o)
    BY <2>1, <2>2 DEF CopiesOf, FourPlaces
  <2>4. Given(o)' = Given(o) \union {m}
    BY <1>1, SetsStay
  <2>5. Leased(o)' = Leased(o) /\ Once(outstanding'[o])
    BY <1>1, <2>1 DEF Leased, CopiesOf
  <2>6. CASE backlog' = [backlog EXCEPT ![o] = Append(@, m)] /\ settled' = settled
    <3>1. backlog'[o] = Append(backlog[o], m) /\ backlog[o] \in Seq(1..counter)
      BY <1>2, <1>7, <2>6
    <3>2. Queued(o)' = Queued(o) \union {m} /\ Once(backlog'[o])
      <4>1. Once(backlog[o]) /\ m \notin Values(backlog[o])
        BY <2>1, <2>3 DEF Queued, CopiesOf
      <4>2. /\ Values(Append(backlog[o], m)) = Values(backlog[o]) \union {m}
            /\ Once(Append(backlog[o], m))
        <5>1. PICK E : E = 1..counter
          OBVIOUS
        <5>2. backlog[o] \in Seq(E) /\ m \in E
          BY <1>2, <3>1, <5>1
        <5> QED
          BY <4>1, <5>2, ValuesAppend
      <4> QED
        BY <3>1, <4>2 DEF Queued
    <3>3. Settled(o)' = Settled(o)
      BY <2>6, SetsStay
    <3>4. FourPlaces(Queued(o) \union {m}, Leased(o), InHand(o), Settled(o), Given(o) \union {m})
      BY <2>1, <2>2 DEF CopiesOf, FourPlaces
    <3> QED
      BY <1>6, <2>1, <2>4, <2>5, <3>2, <3>3, <3>4 DEF CopiesOf
  <2>7. CASE backlog' = backlog /\ settled' = settled \union {<<o, m>>}
    <3>1. Queued(o)' = Queued(o) /\ Once(backlog'[o])
      BY <2>1, <2>7 DEF Queued, CopiesOf
    <3>2. Settled(o)' = Settled(o) \union {m}
      BY <2>7, SetsStay
    <3>3. FourPlaces(Queued(o), Leased(o), InHand(o), Settled(o) \union {m}, Given(o) \union {m})
      BY <2>1, <2>2 DEF CopiesOf, FourPlaces
    <3> QED
      BY <1>6, <2>1, <2>4, <2>5, <3>1, <3>2, <3>3 DEF CopiesOf
  <2> QED
    BY <1>1, <2>6, <2>7
<1> QED
  BY <1>2, <1>6, <1>8, <1>9, CopiesElsewhere

(* Popped, a message leaves the backlog for the hands of its worker. *)
LEMMA PopCopies ==
  ASSUME TypeInv, TypeInv', Copies, NEW w \in Workers, Pop(w),
         NEW o, o = at[w].object, NEW m, m = Head(backlog[o])
  PROVE  Copies'
<1> DEFINE l == [at[w] EXCEPT !.message = m]
<1>1. /\ pc[w] = "pop" /\ pc' = [pc EXCEPT ![w] = "lease"] /\ at' = [at EXCEPT ![w] = l]
      /\ backlog[o] # <<>> /\ backlog' = [backlog EXCEPT ![o] = Tail(@)]
      /\ UNCHANGED <<outstanding, delivered, settled>>
  BY DEF Pop, Goto, Set, ghosts
<1>2. o \in Objects
  BY <1>1, Owned DEF Owning
<1>3. l.object = o /\ l.message = m
  <2>1. at[w] \in LocalVars
    BY LocalsOf
  <2> HIDE DEF Made, LeaseSet, Tomb
  <2> QED
    BY <2>1 DEF LocalVars
<1> HIDE DEF l
<1>4. /\ pc'[w] = "lease" /\ at'[w] = l
      /\ \A v \in Workers : v # w => pc'[v] = pc[v] /\ at'[v] = at[v]
  BY <1>1, Elsewhere DEF TypeInv, WorkersInv
<1>5. /\ \A v \in Workers : \A p, k : v # w => (Holds(v, p, k)' <=> Holds(v, p, k))
      /\ \A p, k : ~Holds(w, p, k)
      /\ \A p, k : Holds(w, p, k)' <=> p = o /\ k = m
  BY <1>1, <1>3, <1>4 DEF Holds, Holding
<1>6. /\ InHand(o)' = InHand(o) \union {m}
      /\ m \notin InHand(o) /\ OneHolder(o) => OneHolder(o)'
      /\ \A p : p # o => InHand(p)' = InHand(p) /\ (OneHolder(p) => OneHolder(p)')
  BY <1>5, HandTakes
<1>7. backlog \in [Objects -> Seq(1..counter)]
  BY DEF TypeInv, StoreInv
<1>8. \A p : Settled(p)' = Settled(p) /\ Given(p)' = Given(p)
  BY <1>1, SetsStay
<1>9. \A p \in Objects : p # o => backlog'[p] = backlog[p] /\ outstanding'[p] = outstanding[p]
  BY <1>1, <1>2, <1>7
<1>10. CopiesOf(o)'
  <2>1. CopiesOf(o)
    BY <1>2 DEF Copies
  <2>2. backlog'[o] = Tail(backlog[o]) /\ backlog[o] \in Seq(1..counter)
    BY <1>1, <1>2, <1>7
  <2>3. Queued(o)' = Queued(o) \ {m} /\ m \in Queued(o) /\ Once(backlog'[o])
    BY <1>1, <2>1, <2>2, ValuesTail DEF Queued, CopiesOf
  <2>4. Leased(o)' = Leased(o) /\ Once(outstanding'[o])
    BY <1>1, <2>1 DEF Leased, CopiesOf
  <2>5. /\ FourPlaces(Queued(o) \ {m}, Leased(o), InHand(o) \union {m}, Settled(o), Given(o))
        /\ m \notin InHand(o)
    BY <2>1, <2>3 DEF CopiesOf, FourPlaces
  <2> QED
    BY <1>6, <1>8, <2>1, <2>3, <2>4, <2>5 DEF CopiesOf
<1> QED
  BY <1>2, <1>6, <1>8, <1>9, <1>10, CopiesElsewhere

(* Leased, a message passes from its worker's hands to a new ack id. *)
LEMMA LeaseCopies ==
  ASSUME TypeInv, TypeInv', Copies, NEW w \in Workers, Lease(w),
         NEW o, o = at[w].object, NEW m, m = at[w].message
  PROVE  Copies'
<1> DEFINE l == [at[w] EXCEPT !.taken = @ \union {<<o, counter + 1, m>>},
                              !.left = @ - 1, !.message = 0]
           g == [b \in DOMAIN outstanding[o] \union {counter + 1} |->
                   IF b = counter + 1 THEN m ELSE outstanding[o][b]]
<1>1. /\ pc[w] = "lease" /\ pc' = [pc EXCEPT ![w] = "look"] /\ at' = [at EXCEPT ![w] = l]
      /\ outstanding' = [outstanding EXCEPT ![o] = g]
      /\ UNCHANGED <<backlog, delivered, settled>>
  BY DEF Lease, Goto, Set, ghosts
<1> HIDE DEF l, g
<1>2. o \in Objects
  BY <1>1, Owned DEF Owning
<1>3. pc'[w] = "look" /\ \A v \in Workers : v # w => pc'[v] = pc[v] /\ at'[v] = at[v]
  BY <1>1, Elsewhere
<1>4. /\ \A v \in Workers : \A p, k : v # w => (Holds(v, p, k)' <=> Holds(v, p, k))
      /\ \A p, k : ~Holds(w, p, k)'
      /\ \A p, k : Holds(w, p, k) <=> p = o /\ k = m
  BY <1>1, <1>3 DEF Holds, Holding
<1>5. CopiesOf(o) /\ OneHolder(o)
  BY <1>2 DEF Copies, CopiesOf
<1>6. /\ m \in InHand(o) /\ InHand(o)' = InHand(o) \ {m} /\ OneHolder(o)'
      /\ \A p : p # o => InHand(p)' = InHand(p) /\ (OneHolder(p) => OneHolder(p)')
  BY <1>4, <1>5, HandGives
<1>7. DOMAIN outstanding = Objects /\ DOMAIN outstanding[o] \subseteq 1..counter /\ counter \in Nat
  BY <1>2 DEF TypeInv, StoreInv, NumbersInv
<1>8. \A p : Settled(p)' = Settled(p) /\ Given(p)' = Given(p)
  BY <1>1, SetsStay
<1>9. \A p \in Objects : p # o => backlog'[p] = backlog[p] /\ outstanding'[p] = outstanding[p]
  BY <1>1, <1>2, <1>7
<1>10. CopiesOf(o)'
  <2>1. outstanding'[o] = g
    BY <1>1, <1>2, <1>7
  <2>2. counter + 1 \notin DOMAIN outstanding[o]
    BY <1>7
  <2>3. m \notin Leased(o)
    BY <1>5, <1>6 DEF CopiesOf, FourPlaces
  <2>4. Leased(o)' = Leased(o) \union {m} /\ Once(outstanding'[o])
    <3>1. Values(g) = Values(outstanding[o]) \union {m} /\ Once(g)
      <4>1. Once(outstanding[o]) /\ m \notin Values(outstanding[o])
        BY <1>5, <2>3 DEF Leased, CopiesOf
      <4>2. PICK f, a : f = outstanding[o] /\ a = counter + 1
        OBVIOUS
      <4>3. g = [b \in DOMAIN f \union {a} |-> IF b = a THEN m ELSE f[b]]
        BY <4>2 DEF g
      <4>4. Values(g) = Values(f) \union {m} /\ Once(g)
        <5>1. a \notin DOMAIN f /\ m \notin Values(f) /\ Once(f)
          BY <2>2, <4>1, <4>2
        <5>2. /\ DOMAIN g = DOMAIN f \union {a} /\ g[a] = m
              /\ \A b \in DOMAIN f : g[b] = f[b]
          BY <4>3, <5>1
        <5> QED
          BY <5>1, <5>2 DEF Values, Once
      <4> QED
        BY <4>2, <4>4
    <3> QED
      BY <2>1, <3>1 DEF Leased
  <2>5. Queued(o)' = Queued(o) /\ Once(backlog'[o])
    BY <1>1, <1>5 DEF Queued, CopiesOf
  <2>6. FourPlaces(Queued(o), Leased(o) \union {m}, InHand(o) \ {m}, Settled(o), Given(o))
    BY <1>5, <1>6 DEF CopiesOf, FourPlaces
  <2> QED
    BY <1>6, <1>8, <2>4, <2>5, <2>6 DEF CopiesOf
<1> QED
  BY <1>2, <1>6, <1>8, <1>9, <1>10, CopiesElsewhere

(* Taken off its ack id, the message of a lease is in no other lease. *)
LEMMA DropLease ==
  ASSUME TypeInv, Copies, NEW o \in Made, NEW a \in DOMAIN outstanding[o],
         outstanding' = [outstanding EXCEPT ![o] = Drop(outstanding[o], a)],
         NEW m, m = outstanding[o][a]
  PROVE  /\ o \in Objects /\ m \in Leased(o)
         /\ Leased(o)' = Leased(o) \ {m} /\ Once(outstanding'[o])
         /\ \A p \in Objects : p # o => outstanding'[p] = outstanding[p]
<1>1. o \in Objects
  BY LeaseOf
<1>2. /\ outstanding'[o] = [b \in DOMAIN outstanding[o] \ {a} |-> outstanding[o][b]]
      /\ \A p \in Objects : p # o => outstanding'[p] = outstanding[p]
  <2>1. /\ DOMAIN outstanding = Objects
        /\ Drop(outstanding[o], a) = [b \in DOMAIN outstanding[o] \ {a} |-> outstanding[o][b]]
    BY DEF TypeInv, StoreInv, Drop
  <2> QED
    BY <1>1, <2>1
<1>3. Once(outstanding[o])
  BY <1>1 DEF Copies, CopiesOf
<1>4. /\ Values(outstanding'[o]) = Values(outstanding[o]) \ {m} /\ Once(outstanding'[o])
      /\ m \in Values(outstanding[o])
  BY <1>2, <1>3, ValuesDrop
<1> QED
  BY <1>1, <1>2, <1>4 DEF Leased

(* Acknowledged, a leased message is settled. *)
LEMMA AcknowledgeCopies ==
  ASSUME TypeInv, TypeInv', Copies, NEW w \in Workers, Acknowledge(w),
         NEW o, o = at[w].object, NEW a, a = at[w].ack, NEW m, m = outstanding[o][a]
  PROVE  Copies'
<1>1. /\ a \in DOMAIN outstanding[o] /\ pc[w] = "acknowledge"
      /\ outstanding' = [outstanding EXCEPT ![o] = Drop(outstanding[o], a)]
      /\ settled' = settled \union {<<o, m>>}
      /\ pc' = [pc EXCEPT ![w] = "idle"] /\ at' = [at EXCEPT ![w] = Locals]
      /\ UNCHANGED <<backlog, delivered>>
  BY DEF Acknowledge, Return, Goto, Set
<1>8. o \in Made
  BY <1>1, Owned DEF Owning
<1>2. /\ o \in Objects /\ m \in Leased(o)
      /\ Leased(o)' = Leased(o) \ {m} /\ Once(outstanding'[o])
      /\ \A p \in Objects : p # o => outstanding'[p] = outstanding[p]
  BY <1>1, <1>8, DropLease
<1>9. pc'[w] = "idle" /\ \A v \in Workers : v # w => pc'[v] = pc[v] /\ at'[v] = at[v]
  BY <1>1, Elsewhere
<1>3. \A v \in Workers : \A p, k : Holds(v, p, k)' <=> Holds(v, p, k)
  BY <1>1, <1>9 DEF Holds, Holding
<1>4. \A p : InHand(p)' = InHand(p) /\ (OneHolder(p) => OneHolder(p)')
  BY <1>3, HandsStay
<1>5. /\ \A p : Given(p)' = Given(p) /\ (p # o => Settled(p)' = Settled(p))
      /\ Settled(o)' = Settled(o) \union {m}
  BY <1>1, SetsStay
<1>6. \A p \in Objects : backlog'[p] = backlog[p]
  BY <1>1
<1>7. CopiesOf(o)'
  <2>1. CopiesOf(o)
    BY <1>2 DEF Copies
  <2>2. Queued(o)' = Queued(o) /\ Once(backlog'[o])
    BY <1>1, <2>1 DEF Queued, CopiesOf
  <2>3. FourPlaces(Queued(o), Leased(o) \ {m}, InHand(o), Settled(o) \union {m}, Given(o))
    BY <1>2, <2>1 DEF CopiesOf, FourPlaces
  <2> QED
    BY <1>2, <1>4, <1>5, <2>1, <2>2, <2>3 DEF CopiesOf
<1> QED
  BY <1>2, <1>4, <1>5, <1>6, <1>7, CopiesElsewhere

(* The first half of a nack: the lease is in the worker's hands. *)
LEMMA NackPopCopies ==
  ASSUME TypeInv, TypeInv', Copies, NEW w \in Workers, NackPop(w),
         NEW o, o = at[w].object, NEW a, a = at[w].ack, NEW m, m = outstanding[o][a]
  PROVE  Copies'
<1> DEFINE l == [Locals EXCEPT !.object = o, !.message = m]
<1>1. /\ a \in DOMAIN outstanding[o] /\ pc[w] = "nack"
      /\ outstanding' = [outstanding EXCEPT ![o] = Drop(outstanding[o], a)]
      /\ pc' = [pc EXCEPT ![w] = "requeue"] /\ at' = [at EXCEPT ![w] = l]
      /\ UNCHANGED <<backlog, delivered, settled>>
  BY DEF NackPop, Goto, Set, ghosts
<1>0. o \in Made
  BY <1>1, Owned DEF Owning
<1>2. l.object = o /\ l.message = m
  BY DEF Locals
<1> HIDE DEF l
<1>3. /\ o \in Objects /\ m \in Leased(o)
      /\ Leased(o)' = Leased(o) \ {m} /\ Once(outstanding'[o])
      /\ \A p \in Objects : p # o => outstanding'[p] = outstanding[p]
  BY <1>0, <1>1, DropLease
<1>4. /\ pc'[w] = "requeue" /\ at'[w] = l
      /\ \A v \in Workers : v # w => pc'[v] = pc[v] /\ at'[v] = at[v]
  BY <1>1, Elsewhere DEF TypeInv, WorkersInv
<1>5. /\ \A v \in Workers : \A p, k : v # w => (Holds(v, p, k)' <=> Holds(v, p, k))
      /\ \A p, k : ~Holds(w, p, k)
      /\ \A p, k : Holds(w, p, k)' <=> p = o /\ k = m
  BY <1>1, <1>2, <1>4 DEF Holds, Holding
<1>6. /\ InHand(o)' = InHand(o) \union {m}
      /\ m \notin InHand(o) /\ OneHolder(o) => OneHolder(o)'
      /\ \A p : p # o => InHand(p)' = InHand(p) /\ (OneHolder(p) => OneHolder(p)')
  BY <1>5, HandTakes
<1>7. \A p : Settled(p)' = Settled(p) /\ Given(p)' = Given(p)
  BY <1>1, SetsStay
<1>8. \A p \in Objects : backlog'[p] = backlog[p]
  BY <1>1
<1>9. CopiesOf(o)'
  <2>1. CopiesOf(o)
    BY <1>3 DEF Copies
  <2>2. Queued(o)' = Queued(o) /\ Once(backlog'[o])
    BY <1>1, <2>1 DEF Queued, CopiesOf
  <2>3. /\ FourPlaces(Queued(o), Leased(o) \ {m}, InHand(o) \union {m}, Settled(o), Given(o))
        /\ m \notin InHand(o)
    BY <1>3, <2>1 DEF CopiesOf, FourPlaces
  <2> QED
    BY <1>3, <1>6, <1>7, <2>1, <2>2, <2>3 DEF CopiesOf
<1> QED
  BY <1>3, <1>6, <1>7, <1>8, <1>9, CopiesElsewhere

(* The second half: the message is back in the backlog. *)
LEMMA RequeueCopies ==
  ASSUME TypeInv, TypeInv', Copies, NEW w \in Workers, Requeue(w),
         NEW o, o = at[w].object, NEW m, m = at[w].message
  PROVE  Copies'
<1>1. /\ pc[w] = "requeue" /\ pc' = [pc EXCEPT ![w] = "idle"] /\ at' = [at EXCEPT ![w] = Locals]
      /\ backlog' = [backlog EXCEPT ![o] = <<m>> \o @]
      /\ UNCHANGED <<outstanding, delivered, settled>>
  BY DEF Requeue, Return, Goto, Set, ghosts
<1>2. o \in Objects /\ m \in 1..counter
  BY <1>1, Owned DEF Owning, Holding
<1>3. pc'[w] = "idle" /\ \A v \in Workers : v # w => pc'[v] = pc[v] /\ at'[v] = at[v]
  BY <1>1, Elsewhere
<1>4. /\ \A v \in Workers : \A p, k : v # w => (Holds(v, p, k)' <=> Holds(v, p, k))
      /\ \A p, k : ~Holds(w, p, k)'
      /\ \A p, k : Holds(w, p, k) <=> p = o /\ k = m
  BY <1>1, <1>3 DEF Holds, Holding
<1>5. CopiesOf(o) /\ OneHolder(o)
  BY <1>2 DEF Copies, CopiesOf
<1>6. /\ m \in InHand(o) /\ InHand(o)' = InHand(o) \ {m} /\ OneHolder(o)'
      /\ \A p : p # o => InHand(p)' = InHand(p) /\ (OneHolder(p) => OneHolder(p)')
  BY <1>4, <1>5, HandGives
<1>7. backlog \in [Objects -> Seq(1..counter)]
  BY DEF TypeInv, StoreInv
<1>8. \A p : Settled(p)' = Settled(p) /\ Given(p)' = Given(p)
  BY <1>1, SetsStay
<1>9. \A p \in Objects : p # o => backlog'[p] = backlog[p] /\ outstanding'[p] = outstanding[p]
  BY <1>1, <1>2, <1>7
<1>10. CopiesOf(o)'
  <2>1. backlog'[o] = <<m>> \o backlog[o] /\ backlog[o] \in Seq(1..counter)
    BY <1>1, <1>2, <1>7
  <2>2. m \notin Queued(o)
    BY <1>5, <1>6 DEF CopiesOf, FourPlaces
  <2>3. Queued(o)' = Queued(o) \union {m} /\ Once(backlog'[o])
    <3>1. Once(backlog[o]) /\ m \notin Values(backlog[o])
      BY <1>5, <2>2 DEF Queued, CopiesOf
    <3>2. /\ Values(<<m>> \o backlog[o]) = Values(backlog[o]) \union {m}
          /\ Once(<<m>> \o backlog[o])
      <4>1. PICK E : E = 1..counter
        OBVIOUS
      <4>2. backlog[o] \in Seq(E) /\ m \in E
        BY <1>2, <2>1, <4>1
      <4> QED
        BY <3>1, <4>2, ValuesFront
    <3> QED
      BY <2>1, <3>2 DEF Queued
  <2>4. Leased(o)' = Leased(o) /\ Once(outstanding'[o])
    BY <1>1, <1>5 DEF Leased, CopiesOf
  <2>5. FourPlaces(Queued(o) \union {m}, Leased(o), InHand(o) \ {m}, Settled(o), Given(o))
    BY <1>5, <1>6 DEF CopiesOf, FourPlaces
  <2> QED
    BY <1>6, <1>8, <2>3, <2>4, <2>5 DEF CopiesOf
<1> QED
  BY <1>2, <1>6, <1>8, <1>9, <1>10, CopiesElsewhere

(* No step loses a copy or makes a second one. *)
LEMMA CopiesStep == TypeInv /\ Fanout /\ Copies /\ [Next]_vars => Copies'
<1> SUFFICES ASSUME TypeInv, Fanout, Copies, [Next]_vars PROVE Copies'
  OBVIOUS
<1>0. /\ TypeInv'
      /\ "idle" \notin Holding /\ "next message" \notin Holding /\ "insert" \notin Holding
      /\ "delete" \notin Holding /\ "next subscription" \notin Holding
      /\ "deliver" \notin Holding /\ "look" \notin Holding /\ "pop" \notin Holding
  BY StepTyped DEF Holding
<1>1. ASSUME NEW w \in Workers, Publishing(w) PROVE Copies'
  <2>1. ASSUME NEW n \in 0..MaxBatch, CallPublish(w, n) PROVE Copies'
    BY <1>0, <2>1, CopiesApart DEF CallPublish, Goto, Set, shared, ghosts
  <2>2. ASSUME NextMessage(w) PROVE Copies'
    BY <1>0, <2>2, CopiesApart DEF NextMessage, Goto, Set
  <2>3. ASSUME NextSubscription(w) PROVE Copies'
    <3>1. \E l : at' = [at EXCEPT ![w] = l]
      BY <2>3 DEF NextSubscription, Set
    <3> QED
      BY <1>0, <2>3, <3>1, CopiesApart DEF NextSubscription, Goto, shared, ghosts
  <2>4. ASSUME PublishReturns(w) \/ PublishFails(w) PROVE Copies'
    BY <1>0, <2>4, CopiesApart DEF PublishReturns, PublishFails, Return, Goto, Set, shared, ghosts
  <2>5. ASSUME FannedOut(w) PROVE Copies'
    BY <1>0, <2>5, CopiesApart DEF FannedOut, Goto, shared
  <2>6. ASSUME Deliver(w) PROVE Copies'
    <3>1. PICK o, m : o = at[w].object /\ m = at[w].message
      OBVIOUS
    <3> QED
      BY <1>0, <2>6, <3>1, DeliverCopies
  <2> QED
    BY <1>1, <2>1, <2>2, <2>3, <2>4, <2>5, <2>6 DEF Publishing
<1>2. ASSUME NEW w \in Workers, Managing(w) PROVE Copies'
  <2>1. ASSUME NEW n \in Names, CallCreate(w, n) \/ CallDelete(w, n) PROVE Copies'
    BY <1>0, <2>1, CopiesApart DEF CallCreate, CallDelete, Goto, Set, shared, ghosts
  <2>2. ASSUME Insert(w) \/ Delete(w) PROVE Copies'
    BY <1>0, <2>2, CopiesApart DEF Insert, Delete, Return, Goto, Set
  <2> QED
    BY <1>2, <2>1, <2>2 DEF Managing
<1>3. ASSUME NEW w \in Workers, Pulling(w) PROVE Copies'
  <2>1. ASSUME NEW n \in Names, NEW limit \in 1..MaxPull, CallPull(w, n, limit) PROVE Copies'
    <3>1. \E l : at' = [at EXCEPT ![w] = l]
      BY <2>1 DEF CallPull, Set
    <3> QED
      BY <1>0, <2>1, <3>1, CopiesApart DEF CallPull, Goto, shared, ghosts
  <2>2. ASSUME Look(w) PROVE Copies'
    BY <1>0, <2>2, CopiesApart DEF Look, Goto, shared, ghosts
  <2>3. ASSUME PullReturns(w) \/ PullFails(w) PROVE Copies'
    BY <1>0, <2>3, CopiesApart DEF PullReturns, PullFails, Return, Goto, Set, shared, ghosts
  <2>4. ASSUME Pop(w) PROVE Copies'
    <3>1. PICK o, m : o = at[w].object /\ m = Head(backlog[o])
      OBVIOUS
    <3> QED
      BY <1>0, <2>4, <3>1, PopCopies
  <2>5. ASSUME Lease(w) PROVE Copies'
    <3>1. PICK o, m : o = at[w].object /\ m = at[w].message
      OBVIOUS
    <3> QED
      BY <1>0, <2>5, <3>1, LeaseCopies
  <2> QED
    BY <1>3, <2>1, <2>2, <2>3, <2>4, <2>5 DEF Pulling
<1>4. ASSUME NEW w \in Workers, Settling(w) PROVE Copies'
  <2>1. ASSUME Acknowledge(w) \/ NackPop(w) PROVE Copies'
    <3>1. PICK o, a, m : o = at[w].object /\ a = at[w].ack /\ m = outstanding[o][a]
      OBVIOUS
    <3> QED
      BY <1>0, <2>1, <3>1, AcknowledgeCopies, NackPopCopies
  <2>2. ASSUME Requeue(w) PROVE Copies'
    <3>1. PICK o, m : o = at[w].object /\ m = at[w].message
      OBVIOUS
    <3> QED
      BY <1>0, <2>2, <3>1, RequeueCopies
  <2>3. ASSUME NEW lease, NEW to \in {"acknowledge", "nack"}, CallSettle(w, lease, to)
        PROVE  Copies'
    <3>1. to \notin Holding /\ \E l : at' = [at EXCEPT ![w] = l]
      BY <2>3 DEF CallSettle, Set, Holding
    <3> QED
      BY <1>0, <2>3, <3>1, CopiesApart DEF CallSettle, Goto, shared, ghosts
  <2>4. ASSUME NoLease(w) PROVE Copies'
    <3>1. /\ pc[w] \in {"acknowledge", "nack"} /\ pc' = [pc EXCEPT ![w] = "idle"]
          /\ at' = [at EXCEPT ![w] = Locals]
          /\ UNCHANGED <<backlog, outstanding, delivered, settled>>
      BY <2>4 DEF NoLease, Return, Goto, Set, shared, ghosts
    <3>2. pc[w] \notin Holding
      BY <3>1 DEF Holding
    <3> QED
      BY <1>0, <3>1, <3>2, CopiesApart
  <2> QED
    BY <1>4, <2>1, <2>2, <2>3, <2>4 DEF Settling
<1>5. CASE UNCHANGED vars
  <2>1. UNCHANGED <<backlog, outstanding, delivered, settled, pc, at>>
    BY <1>5 DEF vars, shared, ghosts
  <2>2. \A v \in Workers : \A p, k : Holds(v, p, k)' <=> Holds(v, p, k)
    BY <2>1 DEF Holds
  <2> QED
    BY <1>0, <2>1, <2>2, CopiesStay
<1> QED
  BY <1>1, <1>2, <1>3, <1>4, <1>5 DEF Next

(* At first nothing was delivered and nothing is anywhere. *)
LEMMA InitCopies == Init => Copies
<1> SUFFICES ASSUME Init, NEW o \in Objects PROVE CopiesOf(o)
  BY DEF Copies
<1>1. /\ backlog[o] = <<>> /\ outstanding[o] = [a \in {} |-> 0]
      /\ delivered = {} /\ settled = {} /\ \A w \in Workers : pc[w] = "idle"
  BY DEF Init
<1>2. DOMAIN backlog[o] = {} /\ DOMAIN outstanding[o] = {}
  BY <1>1
<1>3. Queued(o) = {} /\ Leased(o) = {} /\ Once(backlog[o]) /\ Once(outstanding[o])
  BY <1>2 DEF Queued, Leased, Values, Once
<1>4. InHand(o) = {} /\ OneHolder(o)
  BY <1>1 DEF InHand, OneHolder, Holding
<1>5. Settled(o) = {} /\ Given(o) = {}
  BY <1>1 DEF Settled, Given
<1> QED
  BY <1>3, <1>4, <1>5 DEF CopiesOf, FourPlaces

(* A function with a finite domain has as many values as arguments if no   *)
(* two arguments share a value.                                            *)
LEMMA OnceCounted ==
  ASSUME NEW f, IsFiniteSet(DOMAIN f), Once(f)
  PROVE  Cardinality(Values(f)) = Cardinality(DOMAIN f)
<1> DEFINE g == [x \in DOMAIN f |-> f[x]]
<1>1. g \in Bijection(DOMAIN f, Values(f))
  <2>1. g \in [DOMAIN f -> Values(f)]
    BY DEF Values
  <2>2. \A x, y \in DOMAIN f : g[x] = g[y] => x = y
    BY DEF Once
  <2>3. \A v \in Values(f) : \E x \in DOMAIN f : g[x] = v
    BY DEF Values
  <2> HIDE DEF g
  <2> QED
    BY <2>1, <2>2, <2>3 DEF Bijection, Injection, Surjection, IsInjective
<1> QED
  BY <1>1, FS_Bijection DEF ExistsBijection

(* Place by place, the copies of an object are what the property says.     *)
LEMMA CopiesImply == TypeInv /\ Copies => CopiesConserved
<1> SUFFICES ASSUME TypeInv, Copies, NEW o \in Objects
             PROVE  LET places == <<Queued(o), Leased(o), InHand(o), Settled(o)>>
                    IN /\ UNION Values(places) = {m \in 1..counter : <<o, m>> \in delivered}
                       /\ \A x, y \in DOMAIN places : x # y => places[x] \intersect places[y] = {}
                       /\ Cardinality(Queued(o)) = Len(backlog[o])
                       /\ Cardinality(Leased(o)) = Cardinality(DOMAIN outstanding[o])
                       /\ OneHolder(o)
  BY DEF CopiesConserved, OneHolder, Holding
<1> DEFINE places == <<Queued(o), Leased(o), InHand(o), Settled(o)>>
<1>1. CopiesOf(o)
  BY DEF Copies
<1>2. FourPlaces(Queued(o), Leased(o), InHand(o), Settled(o), Given(o))
  BY <1>1 DEF CopiesOf
<1>3. UNION Values(places) = {m \in 1..counter : <<o, m>> \in delivered}
  <2>1. Values(places) = {Queued(o), Leased(o), InHand(o), Settled(o)}
    BY DEF Values
  <2> QED
    BY <1>2, <2>1 DEF FourPlaces, Given
<1>4. \A x, y \in DOMAIN places : x # y => places[x] \intersect places[y] = {}
  <2>1. DOMAIN places = {1, 2, 3, 4}
    OBVIOUS
  <2>2. /\ places[1] = Queued(o) /\ places[2] = Leased(o)
        /\ places[3] = InHand(o) /\ places[4] = Settled(o)
    OBVIOUS
  <2> HIDE DEF places
  <2> QED
    BY <1>2, <2>1, <2>2 DEF FourPlaces
<1>5. Cardinality(Queued(o)) = Len(backlog[o])
  <2>1. /\ DOMAIN backlog[o] = 1..Len(backlog[o]) /\ Len(backlog[o]) \in Nat
    BY DEF TypeInv, StoreInv
  <2>2. IsFiniteSet(DOMAIN backlog[o]) /\ Cardinality(DOMAIN backlog[o]) = Len(backlog[o])
    BY <2>1, FS_Interval
  <2> QED
    BY <1>1, <2>2, OnceCounted DEF CopiesOf, Queued
<1>6. Cardinality(Leased(o)) = Cardinality(DOMAIN outstanding[o])
  <2>1. counter \in Nat /\ DOMAIN outstanding[o] \subseteq 1..counter
    BY DEF TypeInv, StoreInv, NumbersInv
  <2>2. IsFiniteSet(1..counter)
    BY <2>1, FS_Interval
  <2>3. IsFiniteSet(DOMAIN outstanding[o])
    BY <2>1, <2>2, FS_Subset
  <2> QED
    BY <1>1, <2>3, OnceCounted DEF CopiesOf, Leased
<1> QED
  BY <1>1, <1>3, <1>4, <1>5, <1>6 DEF CopiesOf

(* However the workers interleave, and whichever of their calls fail, each *)
(* message handed to a subscription is in exactly one place: its backlog,  *)
(* one lease, one worker's hands, or among the settled.                    *)
THEOREM CopiesAreConserved == Spec => []CopiesConserved
<1>1. Init => IInv
  BY InitTyped, InitFanout, InitCopies DEF IInv
<1>2. IInv /\ [Next]_vars => IInv'
  BY StepTyped, FanoutStep, CopiesStep DEF IInv
<1>3. IInv => CopiesConserved
  BY CopiesImply DEF IInv
<1> QED
  BY <1>1, <1>2, <1>3, PTL DEF Spec
==============================================================================
