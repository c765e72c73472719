---------------------------- MODULE SerialService ----------------------------
(***************************************************************************)
(* What the standalone server's lock is for (server.py, "serialise request *)
(* handling so the threading server stays correct"): requests act on the   *)
(* shared backends one at a time, each of them at once, and a client that  *)
(* has its answer can rely on the effect.  The effect of a request whose   *)
(* handler raises is what it did before, and it gets no answer.            *)
(***************************************************************************)
CONSTANTS
  Writers,      \* requests that put something into the backends
  Resets,       \* requests that empty them
  Requests      \* all requests

VARIABLES
  store,        \* what the backends hold: the writers in force
  applied,      \* requests that have had their effect
  answered      \* requests whose client has its answer

serialVars == <<store, applied, answered>>

Init == store = {} /\ applied = {} /\ answered = {}

Apply ==
  /\ \E r \in Writers \ applied :
       store' = store \union {r} /\ applied' = applied \union {r}
  /\ UNCHANGED answered

Clear ==
  /\ \E r \in Resets \ applied : store' = {} /\ applied' = applied \union {r}
  /\ UNCHANGED answered

Answer ==
  /\ \E r \in Requests \ answered :
       /\ r \in Writers \union Resets => r \in applied
       /\ answered' = answered \union {r}
  /\ UNCHANGED <<store, applied>>

Next == Apply \/ Clear \/ Answer

Spec == Init /\ [][Next]_serialVars
==============================================================================
