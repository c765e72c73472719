------------------------------ MODULE MockScope ------------------------------
(***************************************************************************)
(* What mock_gcp promises its users (core/decorator.py, module docstring   *)
(* and docs/architecture.md): scopes nest, every scope body runs mocked,   *)
(* all nested scopes share one store, and the store is empty whenever an   *)
(* outermost scope opens and again once it has closed.                     *)
(*                                                                         *)
(* How the mocks get installed and removed is left to Controller, which    *)
(* implements this module.                                                 *)
(***************************************************************************)
EXTENDS Naturals

CONSTANT Item       \* what a scope body may put into the mocked services

VARIABLES
  nest,             \* scopes that are open
  mocked,           \* is Google intercepted for the code that runs now?
  store             \* what the mocked services hold

scopeVars == <<nest, mocked, store>>

Init ==
  /\ nest = 0
  /\ mocked = FALSE
  /\ store = {}

(* Opening an inner scope changes neither the mocks nor the store. *)
Enter ==
  /\ nest' = nest + 1
  /\ mocked' = TRUE
  /\ store' = IF nest = 0 THEN {} ELSE store

Write ==
  /\ nest > 0
  /\ \E item \in Item : store' = store \union {item}
  /\ UNCHANGED <<nest, mocked>>

(* Only closing the outermost scope ends the interception and the store. *)
Leave ==
  /\ nest > 0
  /\ nest' = nest - 1
  /\ mocked' = (nest > 1)
  /\ store' = IF nest = 1 THEN {} ELSE store

Next == Enter \/ Write \/ Leave

Spec == Init /\ [][Next]_scopeVars
==============================================================================
