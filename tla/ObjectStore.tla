----------------------------- MODULE ObjectStore -----------------------------
(***************************************************************************)
(* What Cloud Storage promises its readers, whatever road an object takes  *)
(* into it: an object appears whole, under a generation no object had      *)
(* before, and its metageneration counts what was changed about it since.  *)
(***************************************************************************)
EXTENDS Naturals

CONSTANTS
  Places,       \* where an object can be: bucket and name
  Contents      \* whole contents a client may store

VARIABLES
  objects,      \* place -> [data, generation, metageneration]
  used          \* generations below this have been given out

storeVars == <<objects, used>>

Init ==
  /\ objects = [p \in {} |-> 0]
  /\ used = 1

(* Numbers may be spent on other things than objects. *)
Spend ==
  /\ used' \in Nat /\ used' >= used
  /\ UNCHANGED objects

Store ==
  /\ \E p \in Places, d \in Contents, g \in used..(used' - 1) :
       objects' = [q \in DOMAIN objects \union {p} |->
                     IF q = p THEN [data |-> d, generation |-> g, metageneration |-> 1]
                              ELSE objects[q]]
  /\ used' \in Nat /\ used' > used

Touch ==
  /\ \E p \in DOMAIN objects :
       objects' = [objects EXCEPT ![p].metageneration = @ + 1]
  /\ UNCHANGED used

Remove ==
  /\ \E p \in DOMAIN objects :
       objects' = [q \in DOMAIN objects \ {p} |-> objects[q]]
  /\ UNCHANGED used

(* Everything is forgotten when the backends are reset, and numbers start *)
(* over.                                                                   *)
Forget ==
  /\ objects' = [p \in {} |-> 0]
  /\ used' = 1

Next == Spend \/ Store \/ Touch \/ Remove \/ Forget

Spec == Init /\ [][Next]_storeVars
==============================================================================
