------------------------------- MODULE PubSub --------------------------------
(***************************************************************************)
(* PubSubBackend of services/pubsub/models.py, one action per method: the  *)
(* view of a client whose calls are answered one after the other, over the *)
(* gRPC emulator or over REST (both are thin adapters of these methods).   *)
(* PubSubThreads takes the methods apart.                                  *)
(*                                                                         *)
(* A message is its message id.  Message ids and ack ids are drawn from    *)
(* the one counter of _next.  A call that raises a 404 or 409 leaves the   *)
(* state alone; those are the guards.                                      *)
(***************************************************************************)
EXTENDS Naturals, Sequences

CONSTANTS
  TopicNames, SubNames,
  NoTopic,        \* not the name of a topic
  MaxCounter,     \* bound: numbers drawn from _next
  MaxBatch,       \* bound: messages in one publish
  MaxPull         \* bound: max_messages of one pull

ASSUME PubSubAssumption ==
  /\ MaxCounter \in Nat /\ MaxBatch \in Nat /\ MaxPull \in Nat
  /\ NoTopic \notin TopicNames

VARIABLES
  topics,         \* keys of backend.topics
  subTopic,       \* Subscription.topic, NoTopic if there is no such subscription
  backlog,        \* Subscription.backlog
  outstanding,    \* Subscription.outstanding: ack id -> message
  handlers,       \* keys of backend.handlers
  counter,        \* backend._counter
  published,      \* ghost: every <<message, topic>> accepted by publish
  leases          \* ghost: every <<subscription, ack id, message>> pulled

state == <<topics, subTopic, backlog, outstanding, handlers, counter>>
vars  == <<state, published, leases>>

(* keys of backend.subscriptions *)
subs == {s \in SubNames : subTopic[s] # NoTopic}

(* n calls of _next. *)
DrawOnce(n) ==                      \* mutant
  /\ counter + n <= MaxCounter
  /\ counter' = IF n = 0 THEN counter ELSE counter + 1

Draw(n) ==
  /\ counter + n <= MaxCounter
  /\ counter' = counter + n

NoLeases == [a \in {} |-> 0]
Values(f) == {f[x] : x \in DOMAIN f}
Held(s)   == Values(backlog[s]) \union Values(outstanding[s])

Init ==
  /\ topics = {} /\ handlers = {} /\ counter = 0
  /\ subTopic = [s \in SubNames |-> NoTopic]
  /\ backlog = [s \in SubNames |-> <<>>]
  /\ outstanding = [s \in SubNames |-> NoLeases]
  /\ published = {} /\ leases = {}

(* mutant: the counter starts over and the subscriptions stay *)
ResetCounterOnly ==
  /\ counter' = 0
  /\ UNCHANGED <<topics, subTopic, backlog, outstanding, handlers, published,
                 leases>>

(* Every reset runs setup() again: ids and ack ids start over from 1. *)
Reset ==
  /\ topics' = {} /\ handlers' = {} /\ counter' = 0
  /\ subTopic' = [s \in SubNames |-> NoTopic]
  /\ backlog' = [s \in SubNames |-> <<>>]
  /\ outstanding' = [s \in SubNames |-> NoLeases]
  /\ published' = {} /\ leases' = {}

------------------------------------------------------------------------------
CreateTopic(t) ==
  /\ t \notin topics
  /\ topics' = topics \union {t}
  /\ UNCHANGED <<subTopic, backlog, outstanding, handlers, counter,
                 published, leases>>

(* The subscriptions of the topic stay, and a topic created again under    *)
(* its name feeds them again.                                              *)
DeleteTopic(t) ==
  /\ t \in topics
  /\ topics' = topics \ {t}
  /\ UNCHANGED <<subTopic, backlog, outstanding, handlers, counter,
                 published, leases>>

CreateSubscription(s, t) ==
  /\ s \notin subs /\ t \in topics
  /\ subTopic' = [subTopic EXCEPT ![s] = t]
  /\ backlog' = [backlog EXCEPT ![s] = <<>>]
  /\ outstanding' = [outstanding EXCEPT ![s] = NoLeases]
  /\ UNCHANGED <<topics, handlers, counter, published, leases>>

(* The handler stays bound to the name. *)
DeleteSubscription(s) ==
  /\ s \in subs
  /\ subTopic' = [subTopic EXCEPT ![s] = NoTopic]
  /\ backlog' = [backlog EXCEPT ![s] = <<>>]
  /\ outstanding' = [outstanding EXCEPT ![s] = NoLeases]
  /\ UNCHANGED <<topics, handlers, counter, published, leases>>

RegisterHandler(s) ==
  /\ handlers' = handlers \union {s}
  /\ UNCHANGED <<topics, subTopic, backlog, outstanding, counter,
                 published, leases>>

------------------------------------------------------------------------------
(* publish and _deliver *)

(* The parts of a batch of n messages that may reach a backlog: all of it, *)
(* or, behind a handler, the messages it nacks or raises on, in order.     *)
Batch(n) == [k \in 1..n |-> counter + k]

Rejected(n) ==
  {q \in UNION {[1..k -> (counter + 1)..(counter + n)] : k \in 0..n} :
     \A x, y \in DOMAIN q : x < y => q[x] < q[y]}

Everywhere(s, t) == s \in subs      \* mutant
Subscribed(s, t) == s \in subs /\ subTopic[s] = t

Publish(t, n) ==
  /\ t \in topics
  /\ Draw(n)
  /\ \E part \in [SubNames -> Rejected(n)] :
       /\ \A s \in SubNames \ handlers : part[s] = Batch(n)
       /\ backlog' = [s \in SubNames |->
            IF Subscribed(s, t) THEN backlog[s] \o part[s] ELSE backlog[s]]
  /\ published' = published \union
                    {<<m, t>> : m \in (counter + 1)..(counter + n)}
  /\ UNCHANGED <<topics, subTopic, outstanding, handlers, leases>>

------------------------------------------------------------------------------
(* pull, acknowledge, modify_ack_deadline *)

(* Messages a pull takes; max_messages = 0 means 100. *)
Taken(s, max) ==
  LET limit == IF max = 0 THEN 100 ELSE max
  IN  IF Len(backlog[s]) < limit THEN Len(backlog[s]) ELSE limit

(* What n pops leave of the backlog. *)
RestButOne(s, n) == SubSeq(backlog[s], n + 2, Len(backlog[s]))    \* mutant
Rest(s, n)       == SubSeq(backlog[s], n + 1, Len(backlog[s]))

Pull(s, max) ==
  LET n    == Taken(s, max)
      acks == (counter + 1)..(counter + n)
  IN /\ s \in subs
     /\ Draw(n)
     /\ backlog' = [backlog EXCEPT ![s] = Rest(s, n)]
     /\ outstanding' = [outstanding EXCEPT ![s] =
          [a \in DOMAIN @ \union acks |->
             IF a \in acks THEN backlog[s][a - counter] ELSE @[a]]]
     /\ leases' = leases \union {<<s, a, backlog[s][a - counter]>> : a \in acks}
     /\ UNCHANGED <<topics, subTopic, handlers, published>>

(* Ack ids the subscription does not hold are ignored. *)
KeepLeases(s, ids) == UNCHANGED outstanding      \* mutant
EndLeases(s, ids) ==
  outstanding' = [outstanding EXCEPT ![s] = [a \in DOMAIN @ \ ids |-> @[a]]]

Acknowledge(s, ids) ==
  /\ s \in subs
  /\ EndLeases(s, ids)
  /\ UNCHANGED <<topics, subTopic, backlog, handlers, counter, published,
                 leases>>

(* A deadline of 0: each message in turn goes to the front of the backlog, *)
(* so the last one named is the first one pulled.  order is the request's  *)
(* list without the ids that are not (or no longer) outstanding.  Any      *)
(* other deadline changes nothing.                                         *)
Orders(S) == {q \in UNION {[1..k -> S] : k \in 0..MaxCounter} :
                /\ Values(q) = S
                /\ \A x, y \in DOMAIN q : q[x] = q[y] => x = y}

Backwards(s, order) ==
  [k \in 1..Len(order) |-> outstanding[s][order[Len(order) + 1 - k]]]

PutLast(s, order) ==                \* mutant
  backlog' = [backlog EXCEPT ![s] = @ \o Backwards(s, order)]

PutFirst(s, order) ==
  backlog' = [backlog EXCEPT ![s] = Backwards(s, order) \o @]

Nack(s, ids) ==
  /\ s \in subs
  /\ \E order \in Orders(ids \intersect DOMAIN outstanding[s]) :
       PutFirst(s, order)
  /\ EndLeases(s, ids)
  /\ UNCHANGED <<topics, subTopic, handlers, counter, published, leases>>

------------------------------------------------------------------------------
Next ==
  \/ \E t \in TopicNames : CreateTopic(t) \/ DeleteTopic(t)
  \/ \E s \in SubNames, t \in TopicNames : CreateSubscription(s, t)
  \/ \E s \in SubNames : DeleteSubscription(s) \/ RegisterHandler(s)
  \/ \E t \in TopicNames, n \in 0..MaxBatch : Publish(t, n)
  \/ \E s \in SubNames, max \in 0..MaxPull : Pull(s, max)
  \/ \E s \in SubNames, ids \in SUBSET (1..counter) :
       Acknowledge(s, ids) \/ Nack(s, ids)
  \/ Reset

Spec == Init /\ [][Next]_vars

------------------------------------------------------------------------------
Leases(n) == UNION {[A -> 1..n] : A \in SUBSET (1..n)}

TypeOK ==
  /\ topics \subseteq TopicNames
  /\ handlers \subseteq SubNames
  /\ subTopic \in [SubNames -> TopicNames \union {NoTopic}]
  /\ counter \in Nat
  /\ backlog \in [SubNames -> Seq(1..counter)]
  /\ outstanding \in [SubNames -> Leases(counter)]
  /\ published \subseteq (1..counter) \X TopicNames
  /\ leases \subseteq SubNames \X (1..counter) \X (1..counter)

(* A subscription holds each message at most once: queued in one place, or *)
(* leased under one ack id, never both and never twice, whatever mix of    *)
(* pulls, nacks and handler rejections put it there.                       *)
OneCopy ==
  \A s \in SubNames :
    /\ \A x, y \in DOMAIN backlog[s] : backlog[s][x] = backlog[s][y] => x = y
    /\ \A a, b \in DOMAIN outstanding[s] :
         outstanding[s][a] = outstanding[s][b] => a = b
    /\ \A x \in DOMAIN backlog[s], a \in DOMAIN outstanding[s] :
         backlog[s][x] # outstanding[s][a]

(* An ack id names one lease for as long as the state lives: an ack or a   *)
(* nack that arrives late, after the message was redelivered or the        *)
(* subscription replaced, can only hit the lease it was issued for.        *)
AckIdNamesOneLease ==
  /\ \A l1, l2 \in leases : l1[2] = l2[2] => l1 = l2
  /\ \A s \in SubNames : \A a \in DOMAIN outstanding[s] :
       <<s, a, outstanding[s][a]>> \in leases

(* Nothing reaches a subscription but what was published to its topic. *)
RightTopic ==
  \A s \in SubNames : \A m \in Held(s) : <<m, subTopic[s]>> \in published

Fresh(s, m) == \A a \in 1..counter : <<s, a, m>> \notin leases

(* Messages no client has seen are pulled in the order they were published *)
(* and after everything that was nacked.                                   *)
FreshInOrder ==
  \A s \in SubNames : \A x, y \in DOMAIN backlog[s] :
    x < y /\ Fresh(s, backlog[s][x]) =>
      Fresh(s, backlog[s][y]) /\ backlog[s][x] < backlog[s][y]

(* While a subscription lives, what is queued in it stays queued or        *)
(* becomes leased; only a leased message can leave.                        *)
QueuedNeverDropped ==
  [][\A s \in subs \intersect subs' : Values(backlog[s]) \subseteq Held(s)']_vars

Queue == INSTANCE MessageQueues WITH
  Queues <- SubNames,
  open   <- subs,
  queued <- [s \in SubNames |-> Values(backlog[s])],
  leased <- [s \in SubNames |-> Values(outstanding[s])],
  clock  <- counter

(* Each subscription implements the queue above: in particular a message   *)
(* whose lease was settled never comes back.                               *)
ImplementsQueue == Queue!Spec
==============================================================================
