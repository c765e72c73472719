---------------------------- MODULE MessageQueues ----------------------------
(***************************************************************************)
(* What a Pub/Sub subscription promises, without order, ack ids or names   *)
(* of operations: a message is queued once, leased and returned any number *)
(* of times, and gone for good once its lease is settled.                  *)
(***************************************************************************)
EXTENDS Naturals

CONSTANT Queues

VARIABLES
  open,     \* the queues that exist
  queued,   \* queued[q]: messages ready to be pulled
  leased,   \* leased[q]: messages pulled and not settled
  clock     \* numbers up to here have been used as message names

queueVars == <<open, queued, leased, clock>>

Init ==
  /\ open = {}
  /\ queued = [q \in Queues |-> {}]
  /\ leased = [q \in Queues |-> {}]
  /\ clock = 0

(* A queue appears or disappears together with its contents. *)
Manage ==
  /\ \E q \in Queues :
       /\ open' \in {open \union {q}, open \ {q}}
       /\ queued' = [queued EXCEPT ![q] = {}]
       /\ leased' = [leased EXCEPT ![q] = {}]
  /\ UNCHANGED clock

(* New messages, never seen before by any queue, enter some open queues. *)
Deliver ==
  /\ clock' \in Nat /\ clock' > clock
  /\ \A q \in Queues :
       /\ queued[q] \subseteq queued'[q]
       /\ queued'[q] # queued[q] => q \in open
       /\ queued'[q] \ queued[q] \subseteq (clock + 1)..clock'
  /\ UNCHANGED <<open, leased>>

Lease ==
  /\ \E q \in open : \E M \in SUBSET queued[q] :
       /\ queued' = [queued EXCEPT ![q] = @ \ M]
       /\ leased' = [leased EXCEPT ![q] = @ \union M]
  /\ clock' \in Nat /\ clock' >= clock
  /\ UNCHANGED open

Settle ==
  /\ \E q \in open : \E M \in SUBSET leased[q] :
       leased' = [leased EXCEPT ![q] = @ \ M]
  /\ UNCHANGED <<open, queued, clock>>

Return ==
  /\ \E q \in open : \E M \in SUBSET leased[q] :
       /\ leased' = [leased EXCEPT ![q] = @ \ M]
       /\ queued' = [queued EXCEPT ![q] = @ \union M]
  /\ UNCHANGED <<open, clock>>

(* Everything is forgotten when the backends are reset. *)
Forget ==
  /\ open' = {}
  /\ queued' = [q \in Queues |-> {}]
  /\ leased' = [q \in Queues |-> {}]
  /\ clock' = 0

Next == Manage \/ Deliver \/ Lease \/ Settle \/ Return \/ Forget

Spec == Init /\ [][Next]_queueVars
==============================================================================
