---------------------------- MODULE PubSubThreads ----------------------------
(***************************************************************************)
(* The Pub/Sub emulator's worker threads.  services/pubsub/emulator.py     *)
(* serves each RPC on one of the threads of a pool; all of them call the   *)
(* one PubSubBackend, which takes no lock.  The interpreter may switch     *)
(* threads at every call and every loop iteration of models.py, so a       *)
(* method is split there; what lies between two such points, one bytecode  *)
(* on a built-in list or dict among it, is one action.                     *)
(*                                                                         *)
(* Subscriptions are objects: a worker that holds one keeps using it after *)
(* the dict has lost it.  There is one topic, and all subscriptions are    *)
(* on it; it exists from the start, in the backend that every worker has   *)
(* found: no thread is still creating one.                                 *)
(***************************************************************************)
EXTENDS Naturals, Sequences, FiniteSets

CONSTANTS
  Workers,        \* threads of the pool
  Names,          \* subscription names
  Handled,        \* names with a registered handler
  MaxObject,      \* bound: Subscription objects ever made
  MaxCounter,     \* bound: numbers drawn from _next
  MaxBatch,       \* bound: messages in one publish
  MaxPull,        \* bound: max_messages of one pull
  Slots           \* places in the table of a dict of at most two keys

ASSUME ThreadsAssumption ==
  /\ IsFiniteSet(Workers) /\ Handled \subseteq Names /\ Slots \in Nat
  /\ MaxObject \in Nat /\ MaxCounter \in Nat
  /\ MaxBatch \in Nat /\ MaxPull \in Nat

Objects == 1..MaxObject
Tomb    == 0        \* the place of a deleted key in a dict

VARIABLES
  entries,        \* the dict self.subscriptions, in insertion order
  name,           \* Subscription.name of each object made so far
  backlog,        \* Subscription.backlog of each object
  outstanding,    \* Subscription.outstanding of each object
  counter,        \* self._counter
  pc,             \* where each worker is
  at,             \* the local variables of each worker
  delivered,      \* ghost: <<object, message>> handed over by _deliver
  settled,        \* ghost: <<object, message>> acknowledged
  reported,       \* ghost: <<object, ack id, message>> in a pull's response
  since,          \* ghost: subscriptions live since a publish began iterating
  skipped         \* ghost: <<outcome, object, message>> publish left out

shared == <<entries, name, backlog, outstanding, counter>>
ghosts == <<delivered, settled, reported, since, skipped>>
vars   == <<shared, pc, at, ghosts>>

Made      == 1..Len(name)
Live      == {entries[x] : x \in DOMAIN entries} \ {Tomb}
Size      == Cardinality(Live)
Find(n)   == {o \in Live : name[o] = n}
Values(f) == {f[x] : x \in DOMAIN f}

Locals == [object |-> Tomb, message |-> 0, left |-> 0, pos |-> 0, size |-> 0,
           got |-> 0, taken |-> {}, ack |-> 0, name |-> "none"]

Init ==
  /\ entries = <<>> /\ name = <<>> /\ counter = 0
  /\ backlog = [o \in Objects |-> <<>>]
  /\ outstanding = [o \in Objects |-> [a \in {} |-> 0]]
  /\ pc = [w \in Workers |-> "idle"]
  /\ at = [w \in Workers |-> Locals]
  /\ delivered = {} /\ settled = {} /\ reported = {} /\ skipped = {}
  /\ since = [w \in Workers |-> {}]

Goto(w, from, to) == pc[w] = from /\ pc' = [pc EXCEPT ![w] = to]
Set(w, l)         == at' = [at EXCEPT ![w] = l]
Return(w, from)   == Goto(w, from, "idle") /\ Set(w, Locals)

(* self._next() *)
Peek == counter' = counter          \* mutant
Draw == counter' = counter + 1

(* A call starts only if the bounds leave it the numbers and the object it *)
(* may want: no worker is ever stuck on a bound.                           *)
Reserved == {x \in Workers \X (1..MaxCounter) : x[2] <= at[x[1]].left}

NumbersLeft(n) == counter + Cardinality(Reserved) + n <= MaxCounter

Inserting  == {w \in Workers : pc[w] = "insert"}
ObjectLeft == Len(name) + Cardinality(Inserting) < MaxObject

------------------------------------------------------------------------------
(* publish: the topic was found; left messages are still to be fanned out *)

CallPublish(w, n) ==
  /\ NumbersLeft(n)
  /\ Goto(w, "idle", "next message")
  /\ Set(w, [Locals EXCEPT !.left = n])
  /\ UNCHANGED <<shared, ghosts>>

(* Draw the message id and make the iterator over subscriptions.values(). *)
NextMessage(w) ==
  /\ Goto(w, "next message", "next subscription")
  /\ at[w].left > 0
  /\ Draw
  /\ Set(w, [at[w] EXCEPT !.message = counter + 1, !.left = @ - 1,
                          !.pos = 0, !.size = Size, !.got = 0])
  /\ since' = [since EXCEPT ![w] = Live]
  /\ UNCHANGED <<entries, name, backlog, outstanding, delivered, settled,
                 reported, skipped>>

PublishReturns(w) ==
  /\ Return(w, "next message")
  /\ at[w].left = 0
  /\ UNCHANGED <<shared, ghosts>>

(* The iterator raises RuntimeError if the dict has another size than when *)
(* it was made, moves on to the next place that holds a key otherwise, and *)
(* raises as well if it has already yielded as many keys as there were.    *)
Ahead(w) == {x \in DOMAIN entries : x > at[w].pos /\ entries[x] # Tomb}

Left(w, outcome) ==
  {<<outcome, o, at[w].message>> : o \in
     {s \in since[w] : <<s, at[w].message>> \notin delivered}}

NextSubscription(w) ==
  /\ Goto(w, "next subscription", "deliver")
  /\ at[w].size = Size /\ at[w].got < at[w].size
  /\ \E x \in Ahead(w) :
       /\ \A y \in Ahead(w) : x <= y
       /\ Set(w, [at[w] EXCEPT !.pos = x, !.got = @ + 1,
                               !.object = entries[x]])
  /\ UNCHANGED <<shared, ghosts>>

FannedOut(w) ==
  /\ Goto(w, "next subscription", "next message")
  /\ at[w].size = Size /\ Ahead(w) = {}
  /\ skipped' = skipped \union Left(w, "ok")
  /\ since' = [since EXCEPT ![w] = {}]
  /\ UNCHANGED <<shared, at, delivered, settled, reported>>

PublishFails(w) ==
  /\ Return(w, "next subscription")
  /\ \/ at[w].size # Size
     \/ at[w].got = at[w].size /\ Ahead(w) # {}
  /\ skipped' = skipped \union Left(w, "error")
  /\ since' = [since EXCEPT ![w] = {}]
  /\ UNCHANGED <<shared, delivered, settled, reported>>

(* _deliver: a handler that returns normally settles the message, one that *)
(* nacks or raises leaves it in the backlog, as having no handler does.    *)
Deliver(w) ==
  LET o == at[w].object
      m == at[w].message
  IN /\ Goto(w, "deliver", "next subscription")
     /\ delivered' = delivered \union {<<o, m>>}
     /\ \/ /\ backlog' = [backlog EXCEPT ![o] = Append(@, m)]
           /\ UNCHANGED settled
        \/ /\ name[o] \in Handled
           /\ settled' = settled \union {<<o, m>>}
           /\ UNCHANGED backlog
     /\ UNCHANGED <<entries, name, outstanding, counter, at, reported, since,
                    skipped>>

------------------------------------------------------------------------------
(* create_subscription, delete_subscription *)

(* Passed the 409 and the 404 check: the name was free. *)
CallCreate(w, n) ==
  /\ Goto(w, "idle", "insert")
  /\ Find(n) = {} /\ ObjectLeft
  /\ Set(w, [Locals EXCEPT !.name = n])
  /\ UNCHANGED <<shared, ghosts>>

(* The assignment replaces the value of a key that is there by now.  A new *)
(* key takes the next place; a table without one is first rebuilt without  *)
(* the places of deleted keys, under the feet of any iterator.             *)
Kept     == {x \in DOMAIN entries : entries[x] # Tomb}
Place(k) == CHOOSE x \in Kept : Cardinality({y \in Kept : y <= x}) = k

Room == IF Len(entries) < Slots THEN entries
        ELSE [k \in 1..Cardinality(Kept) |-> entries[Place(k)]]

Insert(w) ==
  LET o   == Len(name) + 1
      old == Find(at[w].name)
  IN /\ Return(w, "insert")
     /\ name' = Append(name, at[w].name)
     /\ entries' = IF old = {} THEN Append(Room, o)
                   ELSE [x \in DOMAIN entries |->
                           IF entries[x] \in old THEN o ELSE entries[x]]
     /\ since' = [v \in Workers |-> since[v] \ old]
     /\ UNCHANGED <<backlog, outstanding, counter, delivered, settled, reported,
                    skipped>>

CallDelete(w, n) ==
  /\ Goto(w, "idle", "delete")
  /\ Find(n) # {}
  /\ Set(w, [Locals EXCEPT !.name = n])
  /\ UNCHANGED <<shared, ghosts>>

(* del raises KeyError when another worker has deleted the name meanwhile. *)
Delete(w) ==
  LET old == Find(at[w].name)
  IN /\ Return(w, "delete")
     /\ entries' = [x \in DOMAIN entries |->
                      IF entries[x] \in old THEN Tomb ELSE entries[x]]
     /\ since' = [v \in Workers |-> since[v] \ old]
     /\ UNCHANGED <<name, backlog, outstanding, counter, delivered, settled,
                    reported, skipped>>

------------------------------------------------------------------------------
(* pull *)

CallPull(w, n, limit) ==
  /\ Goto(w, "idle", "look")
  /\ NumbersLeft(limit)
  /\ \E o \in Find(n) :
       Set(w, [Locals EXCEPT !.object = o, !.left = limit])
  /\ UNCHANGED <<shared, ghosts>>

(* The loop condition, and the end of the loop: the response is sent. *)
More(w) == /\ backlog[at[w].object] # <<>>
           /\ at[w].left > 0

Look(w) ==
  /\ Goto(w, "look", "pop")
  /\ More(w)
  /\ UNCHANGED <<shared, at, ghosts>>

PullReturns(w) ==
  /\ Return(w, "look")
  /\ ~More(w)
  /\ reported' = reported \union at[w].taken
  /\ UNCHANGED <<shared, delivered, settled, since, skipped>>

Pop(w) ==
  LET o == at[w].object
  IN /\ Goto(w, "pop", "lease")
     /\ backlog[o] # <<>>
     /\ backlog' = [backlog EXCEPT ![o] = Tail(@)]
     /\ Set(w, [at[w] EXCEPT !.message = Head(backlog[o])])
     /\ UNCHANGED <<entries, name, outstanding, counter, ghosts>>

(* pop(0) raises IndexError: another pull has emptied the backlog since    *)
(* the loop looked.  What this pull has leased is in no response.          *)
PullFails(w) ==
  /\ Return(w, "pop")
  /\ backlog[at[w].object] = <<>>
  /\ UNCHANGED <<shared, ghosts>>

Lease(w) ==
  LET o == at[w].object
      m == at[w].message
      a == counter + 1
  IN /\ Goto(w, "lease", "look")
     /\ Draw
     /\ outstanding' = [outstanding EXCEPT ![o] =
          [b \in DOMAIN @ \union {a} |-> IF b = a THEN m ELSE @[b]]]
     /\ Set(w, [at[w] EXCEPT !.taken = @ \union {<<o, a, m>>}, !.left = @ - 1,
                           !.message = 0])
     /\ UNCHANGED <<entries, name, backlog, ghosts>>

------------------------------------------------------------------------------
(* acknowledge and modify_ack_deadline(0), for one ack id a client has:    *)
(* get_subscription, then outstanding.pop on what it found, be it another  *)
(* subscription of that name, or one that is deleted by now                *)

CallSettle(w, lease, to) ==
  /\ Goto(w, "idle", to)
  /\ \E o \in Find(name[lease[1]]) :
       Set(w, [Locals EXCEPT !.object = o, !.ack = lease[2]])
  /\ UNCHANGED <<shared, ghosts>>

Keep(f, a) == f                     \* mutant
Drop(f, a) == [b \in DOMAIN f \ {a} |-> f[b]]

Acknowledge(w) ==
  LET o == at[w].object
      a == at[w].ack
  IN /\ Return(w, "acknowledge")
     /\ a \in DOMAIN outstanding[o]
     /\ outstanding' = [outstanding EXCEPT ![o] = Drop(@, a)]
     /\ settled' = settled \union {<<o, outstanding[o][a]>>}
     /\ UNCHANGED <<entries, name, backlog, counter, delivered, reported, since,
                    skipped>>

(* The message is popped first and inserted at the front afterwards. *)
NackPop(w) ==
  LET o == at[w].object
      a == at[w].ack
  IN /\ Goto(w, "nack", "requeue")
     /\ a \in DOMAIN outstanding[o]
     /\ outstanding' = [outstanding EXCEPT ![o] = Drop(@, a)]
     /\ Set(w, [Locals EXCEPT !.object = o, !.message = outstanding[o][a]])
     /\ UNCHANGED <<entries, name, backlog, counter, ghosts>>

(* pop(ack_id, None): another worker has taken the lease off, or the ack   *)
(* id is of a subscription that was replaced.                              *)
NoLease(w) ==
  /\ Return(w, "acknowledge") \/ Return(w, "nack")
  /\ at[w].ack \notin DOMAIN outstanding[at[w].object]
  /\ UNCHANGED <<shared, ghosts>>

Requeue(w) ==
  LET o == at[w].object
  IN /\ Return(w, "requeue")
     /\ backlog' = [backlog EXCEPT ![o] = <<at[w].message>> \o @]
     /\ UNCHANGED <<entries, name, outstanding, counter, ghosts>>

------------------------------------------------------------------------------
Publishing(w) == \/ \E n \in 0..MaxBatch : CallPublish(w, n)
                 \/ NextMessage(w) \/ PublishReturns(w)
                 \/ NextSubscription(w) \/ FannedOut(w) \/ PublishFails(w)
                 \/ Deliver(w)

Managing(w) == \/ \E n \in Names : CallCreate(w, n) \/ CallDelete(w, n)
               \/ Insert(w) \/ Delete(w)

Pulling(w) == \/ \E n \in Names, limit \in 1..MaxPull : CallPull(w, n, limit)
              \/ Look(w) \/ PullReturns(w) \/ Pop(w) \/ PullFails(w) \/ Lease(w)

Settling(w) == \/ \E lease \in reported, to \in {"acknowledge", "nack"} :
                    CallSettle(w, lease, to)
               \/ Acknowledge(w) \/ NackPop(w) \/ NoLease(w) \/ Requeue(w)

Next == \E w \in Workers :
          Publishing(w) \/ Managing(w) \/ Pulling(w) \/ Settling(w)

Spec == Init /\ [][Next]_vars

------------------------------------------------------------------------------
TypeOK ==
  /\ entries \in Seq(Made \union {Tomb}) /\ name \in Seq(Names)
  /\ counter \in 0..MaxCounter
  /\ backlog \in [Objects -> Seq(1..counter)]
  /\ \A o \in Objects : /\ DOMAIN outstanding[o] \subseteq 1..counter
                        /\ Values(outstanding[o]) \subseteq 1..counter
  /\ DOMAIN pc = Workers /\ DOMAIN at = Workers

(* Where a message that was delivered to object o can be. *)
Queued(o)  == Values(backlog[o])
Leased(o)  == Values(outstanding[o])
InHand(o)  == {at[w].message : w \in
                {v \in Workers : pc[v] \in {"lease", "requeue"} /\ at[v].object = o}}
Settled(o) == {m \in 1..counter : <<o, m>> \in settled}

(* However the workers interleave, and whichever of them fail, a message   *)
(* handed to a subscription is afterwards in exactly one of four places:   *)
(* queued, leased, on its way in one worker's hands, or settled.           *)
CopiesConserved ==
  \A o \in Objects :
    LET places == <<Queued(o), Leased(o), InHand(o), Settled(o)>>
    IN /\ UNION Values(places) = {m \in 1..counter : <<o, m>> \in delivered}
       /\ \A x, y \in DOMAIN places : x # y => places[x] \intersect places[y] = {}
       /\ Cardinality(Queued(o)) = Len(backlog[o])
       /\ Cardinality(Leased(o)) = Cardinality(DOMAIN outstanding[o])
       /\ \A v, w \in Workers :
            /\ v # w /\ at[v].object = o /\ at[w].object = o
            /\ pc[v] \in {"lease", "requeue"} /\ pc[w] \in {"lease", "requeue"}
            => at[v].message # at[w].message

(* No lease is handed out twice: an ack id a client has, or is about to    *)
(* get, names one lease, and that lease is in one pull's response.         *)
Handed == reported \union UNION {at[w].taken : w \in Workers}

NoLeaseTwice ==
  /\ \A l1, l2 \in Handed : l1[2] = l2[2] => l1 = l2
  /\ \A v, w \in Workers :
       /\ v # w => at[v].taken \intersect at[w].taken = {}
       /\ at[v].taken \intersect reported = {}

(* A publish that succeeds has reached every subscription that was there   *)
(* from the moment it drew the message id until it was done with it, in    *)
(* spite of those created and deleted meanwhile (docs/services/pubsub.md:  *)
(* a published message is delivered to every subscription on the topic).   *)
SuccessMeansFannedOut == \A x \in skipped : x[1] # "ok"

(* pull "delivers up to max_messages from the backlog": what leaves the    *)
(* backlog is in the response of the pull that took it.                    *)
TakenIsReported ==
  \A o \in Live : \A a \in DOMAIN outstanding[o] :
    LET lease == <<o, a, outstanding[o][a]>>
    IN  lease \in reported \/ \E w \in Workers : lease \in at[w].taken
==============================================================================
