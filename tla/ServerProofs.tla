----------------------------- MODULE ServerProofs ----------------------------
(***************************************************************************)
(* The standalone server's lock serialises every set of requests: the      *)
(* theorems behind LockGuardsStore and ImplementsSerial.                   *)
(***************************************************************************)
EXTENDS Server, TLAPS

(* The thread that works on a request, or has worked on it and still has   *)
(* the answer to write, holds the lock.                                    *)
Holding == {"handle", "locked write", "no route"}

(* What is known of a request from where its thread is: which kind it is,  *)
(* what it has read, and that its effect happens on the way from "handle", *)
(* or for a reset from "acquire", and at no other time.                    *)
Consistent(r) ==
  /\ pc[r] \in Holding => lock = r
  /\ pc[r] = "handle" => seen[r] = store
  /\ pc[r] = "acquire" => r \notin Healths
  /\ pc[r] \in {"handle", "locked write"} => r \in Api
  /\ pc[r] = "no route" => r \in Unmatched
  /\ pc[r] = "write" => r \notin Api
  /\ pc[r] \in {"unsent", "acquire", "handle"} => r \notin applied
  /\ pc[r] \in {"locked write", "write", "stalled", "answered"} =>
       (r \in Api \union Resets => r \in applied)

IInv == TypeOK /\ \A r \in Requests : Consistent(r)

------------------------------------------------------------------------------
(* The initial state satisfies the inductive invariant. *)
LEMMA InitInv == Init => IInv
  BY ServerAssumption
  DEF Init, IInv, TypeOK, Consistent, Requests, Holding, Finished

(* Each action preserves it. *)
LEMMA StepInv == IInv /\ [Next]_vars => IInv'
<1> SUFFICES ASSUME TypeOK, \A r \in Requests : Consistent(r), [Next]_vars
             PROVE  IInv'
  BY DEF IInv
<1> USE DEF IInv
<1>1. ASSUME NEW r \in Requests, Arrive(r) PROVE IInv'
  <2>1. TypeOK'
    BY <1>1 DEF Arrive, Goto, FirstStop, TypeOK, Requests, Finished
  <2>2. ASSUME NEW x \in Requests PROVE Consistent(x)'
    BY <1>1, Consistent(x), Consistent(r), ServerAssumption
    DEF Arrive, Goto, FirstStop, Consistent, Holding, TypeOK, Requests, Finished
  <2> QED
    BY <2>1, <2>2
<1>2. ASSUME NEW r \in Requests, Handle(r) PROVE IInv'
  <2>1. TypeOK'
    BY <1>2 DEF Handle, Goto, Acquire, Matched, TypeOK, Requests, Finished
  <2>2. ASSUME NEW x \in Requests PROVE Consistent(x)'
    BY <1>2, Consistent(x), Consistent(r), ServerAssumption
    DEF Handle, Goto, Acquire, Matched, Consistent, Holding, TypeOK, Requests, Finished
  <2> QED
    BY <2>1, <2>2
<1>3. ASSUME NEW r \in Requests, CallBack(r) PROVE IInv'
  <2>1. TypeOK'
    BY <1>3 DEF CallBack, Goto, TypeOK, Requests, Finished
  <2>2. ASSUME NEW x \in Requests PROVE Consistent(x)'
    BY <1>3, Consistent(x), Consistent(r), ServerAssumption
    DEF CallBack, Goto, Consistent, Holding, TypeOK, Requests, Finished
  <2> QED
    BY <2>1, <2>2
<1>4. ASSUME NEW r \in Requests, Update(r) PROVE IInv'
  <2>1. TypeOK'
    BY <1>4, Consistent(r) DEF Update, Goto, Consistent, TypeOK, Requests, Finished
  <2>2. ASSUME NEW x \in Requests PROVE Consistent(x)'
    BY <1>4, Consistent(x), Consistent(r), ServerAssumption
    DEF Update, Goto, Consistent, Holding, TypeOK, Requests, Finished
  <2> QED
    BY <2>1, <2>2
<1>5. ASSUME NEW r \in Requests, HandleRaises(r) PROVE IInv'
  <2>1. TypeOK'
    BY <1>5, Consistent(r) DEF Consistent, HandleRaises, Goto, Release, TypeOK, Requests, Finished
  <2>2. ASSUME NEW x \in Requests PROVE Consistent(x)'
    BY <1>5, Consistent(x), Consistent(r), ServerAssumption
    DEF HandleRaises, Goto, Release, Consistent, Holding, TypeOK, Requests, Finished
  <2> QED
    BY <2>1, <2>2
<1>6. ASSUME NEW r \in Requests, WriteLocked(r) PROVE IInv'
  <2>1. TypeOK'
    BY <1>6 DEF WriteLocked, Goto, Release, TypeOK, Requests, Finished
  <2>2. ASSUME NEW x \in Requests PROVE Consistent(x)'
    BY <1>6, Consistent(x), Consistent(r), ServerAssumption
    DEF WriteLocked, Goto, Release, Consistent, Holding, TypeOK, Requests, Finished
  <2> QED
    BY <2>1, <2>2
<1>7. ASSUME NEW r \in Requests, NoRoute(r) PROVE IInv'
  <2>1. TypeOK'
    BY <1>7 DEF NoRoute, Goto, Release, TypeOK, Requests, Finished
  <2>2. ASSUME NEW x \in Requests PROVE Consistent(x)'
    BY <1>7, Consistent(x), Consistent(r), ServerAssumption
    DEF NoRoute, Goto, Release, Consistent, Holding, TypeOK, Requests, Finished
  <2> QED
    BY <2>1, <2>2
<1>8. ASSUME NEW r \in Requests, ResetBackends(r) PROVE IInv'
  <2>1. TypeOK'
    BY <1>8 DEF ResetBackends, Goto, TypeOK, Requests, Finished
  <2>2. ASSUME NEW x \in Requests PROVE Consistent(x)'
    BY <1>8, Consistent(x), Consistent(r), ServerAssumption
    DEF ResetBackends, Goto, Consistent, Holding, TypeOK, Requests, Finished
  <2> QED
    BY <2>1, <2>2
<1>9. ASSUME NEW r \in Requests, Write(r) PROVE IInv'
  <2>1. TypeOK'
    BY <1>9 DEF Write, Goto, TypeOK, Requests, Finished
  <2>2. ASSUME NEW x \in Requests PROVE Consistent(x)'
    BY <1>9, Consistent(x), Consistent(r), ServerAssumption
    DEF Write, Goto, Consistent, Holding, TypeOK, Requests, Finished
  <2> QED
    BY <2>1, <2>2
<1>10. ASSUME NEW r \in Requests, Stall(r) PROVE IInv'
  <2>0. /\ pc[r] \in {"write", "locked write"}
        /\ pc' = [pc EXCEPT ![r] = "stalled"]
        /\ UNCHANGED <<lock, seen, store, applied>>
    BY <1>10 DEF Stall, Goto
  <2>1. TypeOK'
    BY <2>0 DEF TypeOK, Finished
  <2>2. ASSUME NEW x \in Requests PROVE Consistent(x)'
    BY <2>0, Consistent(x), Consistent(r)
    DEF Consistent, Holding, TypeOK, Finished
  <2> QED
    BY <2>1, <2>2
<1>11. ASSUME NEW r \in Requests, WriteRaises(r) PROVE IInv'
  <2>0. /\ pc' = [pc EXCEPT ![r] = "dropped"]
        /\ UNCHANGED <<seen, store, applied>>
    BY <1>11 DEF WriteRaises, Goto
  <2>1. CASE pc[r] = "locked write"
    <3>1. lock = r /\ lock' = NoOne
      BY <1>11, <2>1, Consistent(r) DEF WriteRaises, Goto, Release, Consistent, Holding
    <3>2. TypeOK'
      BY <2>0, <3>1 DEF TypeOK, Finished
    <3>3. ASSUME NEW x \in Requests PROVE Consistent(x)'
      BY <2>0, <2>1, <3>1, Consistent(x), Consistent(r), ServerAssumption
      DEF Consistent, Holding, TypeOK, Finished
    <3> QED
      BY <3>2, <3>3
  <2>2. CASE pc[r] # "locked write"
    <3>1. pc[r] = "write" /\ UNCHANGED lock
      BY <1>11, <2>2 DEF WriteRaises, Goto, Release
    <3>2. TypeOK'
      BY <2>0, <3>1 DEF TypeOK, Finished
    <3>3. ASSUME NEW x \in Requests PROVE Consistent(x)'
      BY <2>0, <3>1, Consistent(x), Consistent(r)
      DEF Consistent, Holding, TypeOK, Finished
    <3> QED
      BY <3>2, <3>3
  <2> QED
    BY <2>1, <2>2
<1>12. CASE UNCHANGED vars
  BY <1>12 DEF vars, TypeOK, Consistent
<1> QED
  BY <1>1, <1>2, <1>3, <1>4, <1>5, <1>6, <1>7, <1>8, <1>9, <1>10, <1>11, <1>12
  DEF Next, Thread

(* It holds in every state the server reaches. *)
THEOREM Invariant == Spec => []IInv
  BY InitInv, StepInv, PTL DEF Spec

(* Every thread is at a place of its code, and the lock has no holder or   *)
(* one of the requests, whatever the requests are.                         *)
THEOREM TypeCorrect == Spec => []TypeOK
<1>1. IInv => TypeOK
  BY DEF IInv
<1> QED
  BY Invariant, <1>1, PTL

(* No request and no reset changes the backends between the moment a       *)
(* request first looks at them and its update (server.py, _LOCK).          *)
THEOREM LockCorrect == Spec => []LockGuardsStore
<1>1. IInv => LockGuardsStore
  BY DEF IInv, Consistent, Holding, LockGuardsStore
<1> QED
  BY Invariant, <1>1, PTL

------------------------------------------------------------------------------
(* A server that has heard no request is a serial service without history. *)
LEMMA InitRefines == Init => Serial!Init
  BY DEF Init, Serial!Init

(* Every step of a thread is one step of the serial service, or none.      *)
LEMMA StepRefines == IInv /\ [Next]_vars => [Serial!Next]_(Serial!serialVars)
<1> SUFFICES ASSUME IInv, [Next]_vars
             PROVE  Serial!Next \/ UNCHANGED Serial!serialVars
  OBVIOUS
<1> DEFINE answered == {r \in Requests : pc[r] = "answered"}
<1>0. pc \in [Requests -> {"unsent", "acquire", "handle", "locked write",
                          "no route", "write", "stalled"} \union Finished]
  BY DEF IInv, TypeOK
<1>1. ASSUME NEW r \in Requests, NEW from, NEW to,
             Goto(r, from, to), from # "answered", to # "answered",
             UNCHANGED <<store, applied>>
      PROVE  UNCHANGED Serial!serialVars
  <2>1. pc[r] # "answered" /\ pc' = [pc EXCEPT ![r] = to]
    BY <1>1 DEF Goto
  <2>2. answered' = answered
    BY <1>0, <1>1, <2>1
  <2> QED
    BY <1>1, <2>2 DEF Serial!serialVars
<1>2. ASSUME NEW r \in Requests, NEW from \in {"write", "locked write"},
             Goto(r, from, "answered"), UNCHANGED <<store, applied>>
      PROVE  Serial!Next
  <2>1. answered' = answered \union {r} /\ r \notin answered
    BY <1>0, <1>2 DEF Goto
  <2>2. r \in Api \union Resets => r \in applied
    BY <1>2 DEF Goto, IInv, Consistent
  <2> QED
    BY <1>2, <2>1, <2>2 DEF Serial!Next, Serial!Answer
<1>3. ASSUME NEW r \in Requests, Update(r) PROVE Serial!Next
  <2>1. r \in Api \ applied /\ store' = store \union {r}
    BY <1>3 DEF Update, Goto, IInv, Consistent
  <2>2. answered' = answered
    BY <1>0, <1>3 DEF Update, Goto
  <2> QED
    BY <1>3, <2>1, <2>2 DEF Update, Serial!Next, Serial!Apply
<1>4. ASSUME NEW r \in Requests, ResetBackends(r) PROVE Serial!Next
  <2>1. r \in Resets \ applied
    BY <1>4 DEF ResetBackends, Goto, IInv, Consistent
  <2>2. answered' = answered
    BY <1>0, <1>4 DEF ResetBackends, Goto
  <2> QED
    BY <1>4, <2>1, <2>2 DEF ResetBackends, Serial!Next, Serial!Clear
<1>5. ASSUME NEW r \in Requests,
             Arrive(r) \/ Handle(r) \/ CallBack(r) \/ NoRoute(r) \/ Stall(r)
               \/ WriteRaises(r)
      PROVE  UNCHANGED Serial!serialVars
  BY <1>1, <1>5
  DEF Arrive, Handle, CallBack, NoRoute, Stall, WriteRaises, FirstStop
<1>6. ASSUME NEW r \in Requests, WriteLocked(r) \/ Write(r) PROVE Serial!Next
  BY <1>2, <1>6 DEF WriteLocked, Write
<1>7. ASSUME NEW r \in Requests, HandleRaises(r)
      PROVE  Serial!Next \/ UNCHANGED Serial!serialVars
  <2>1. CASE UNCHANGED <<store, applied>>
    BY <1>1, <1>7, <2>1 DEF HandleRaises
  <2>2. CASE store' = seen[r] \union {r} /\ applied' = applied \union {r}
    <3>1. r \in Api \ applied /\ store' = store \union {r}
      BY <1>7, <2>2 DEF HandleRaises, Goto, IInv, Consistent
    <3>2. answered' = answered
      BY <1>0, <1>7 DEF HandleRaises, Goto
    <3> QED
      BY <2>2, <3>1, <3>2 DEF Serial!Next, Serial!Apply
  <2> QED
    BY <1>7, <2>1, <2>2 DEF HandleRaises
<1>8. CASE UNCHANGED vars
  BY <1>8 DEF vars, Serial!serialVars
<1> QED
  BY <1>3, <1>4, <1>5, <1>6, <1>7, <1>8 DEF Next, Thread

(* The threaded server implements the serial one: requests act on the      *)
(* backends one at a time and no answer precedes its effect.               *)
THEOREM ServerIsSerial == Spec => ImplementsSerial
  BY Invariant, InitRefines, StepRefines, PTL
  DEF Spec, ImplementsSerial, Serial!Spec
==============================================================================
