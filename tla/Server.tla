------------------------------- MODULE Server --------------------------------
(***************************************************************************)
(* The standalone server, server.py: a ThreadingHTTPServer gives every     *)
(* request a thread, which runs DrongoHTTPRequestHandler._dispatch.  A     *)
(* request to a service is handled, and its answer written to the socket,  *)
(* while the thread holds the module's one non-reentrant _LOCK.            *)
(*                                                                         *)
(* Handling reads the backends and writes them back in two steps, as any   *)
(* method of models.py does that checks before it changes something.  A    *)
(* handler the test registered (cloudtasks.task_handler and its likes)     *)
(* runs inside; it may send a request of its own and wait for the answer.  *)
(***************************************************************************)
CONSTANTS
  Api,          \* requests a service's routes match
  Resets,       \* POST /drongo/reset
  Healths,      \* GET /drongo/health
  Unmatched,    \* requests no route matches
  Nested,       \* subset of Api: sent by a handler, see parent
  parent,       \* parent[c]: the request whose handler sends c
  Stalling,     \* requests whose client may stop reading, or hang up
  NoOne         \* the lock is free

Requests == Api \union Resets \union Healths \union Unmatched

ASSUME ServerAssumption ==
  /\ NoOne \notin Requests
  /\ Api \intersect Resets = {} /\ Healths \intersect (Api \union Resets) = {}
  /\ Unmatched \intersect (Api \union Resets \union Healths) = {}
  /\ Stalling \subseteq Requests /\ Nested \subseteq Api
  /\ parent \in [Nested -> Api \ Nested]
  /\ \A c, d \in Nested : parent[c] = parent[d] => c = d

VARIABLES
  lock,         \* the thread that holds _LOCK
  pc,           \* where the thread of each request is
  seen,         \* what a thread has read from the backends
  store,        \* the backends: the Api requests in force
  applied       \* ghost: requests whose effect has happened

vars == <<lock, pc, seen, store, applied>>

Init ==
  /\ lock = NoOne
  /\ pc = [r \in Requests |-> "unsent"]
  /\ seen = [r \in Requests |-> {}]
  /\ store = {} /\ applied = {}

Goto(r, from, to) == pc[r] = from /\ pc' = [pc EXCEPT ![r] = to]

Finished == {"answered", "dropped"}

AcquireAnyway(r) == lock' = r       \* mutant
Acquire(r) == lock = NoOne /\ lock' = r

KeepLock == UNCHANGED lock          \* mutant
Release  == lock' = NoOne

(* Health checks never ask for the lock; some router takes what matches. *)
AlwaysAcquire(r) == "acquire"       \* mutant
FirstStop(r) == IF r \in Healths THEN "write" ELSE "acquire"

TakesAll(r)  == TRUE                \* mutant
Matched(r)   == r \notin Unmatched

------------------------------------------------------------------------------
(* A client's request is decoded and routed; a health check and an unknown *)
(* management route never ask for the lock.                                *)
Arrive(r) ==
  /\ r \notin Nested
  /\ Goto(r, "unsent", FirstStop(r))
  /\ UNCHANGED <<lock, seen, store, applied>>

(* with _LOCK: the routers are tried, the matching one begins. *)
Handle(r) ==
  /\ r \notin Resets
  /\ Goto(r, "acquire", IF Matched(r) THEN "handle" ELSE "no route")
  /\ Acquire(r)
  /\ seen' = [seen EXCEPT ![r] = store]
  /\ UNCHANGED <<store, applied>>

(* A registered handler runs as part of the call and sends its request.    *)
CallBack(c) ==
  /\ c \in Nested
  /\ pc[parent[c]] = "handle"
  /\ Goto(c, "unsent", "acquire")
  /\ UNCHANGED <<lock, seen, store, applied>>

(* The handler has sent nothing, or has its answer. *)
NoCallBack(r) ==
  \A c \in Nested : parent[c] = r => pc[c] \in Finished \union {"unsent"}

Update(r) ==
  /\ Goto(r, "handle", "locked write")
  /\ NoCallBack(r)
  /\ store' = seen[r] \union {r}
  /\ applied' = applied \union {r}
  /\ UNCHANGED <<lock, seen>>

(* Anything but a DrongoHttpError leaves _dispatch, after some changes to  *)
(* the backends or before any: the lock is released and the connection     *)
(* closed without an answer.                                               *)
HandleRaises(r) ==
  /\ Goto(r, "handle", "dropped")
  /\ NoCallBack(r)
  /\ Release
  /\ \/ store' = seen[r] \union {r} /\ applied' = applied \union {r}
     \/ UNCHANGED <<store, applied>>
  /\ UNCHANGED seen

(* The answer goes out before the lock is released. *)
WriteLocked(r) ==
  /\ Goto(r, "locked write", "answered")
  /\ Release
  /\ UNCHANGED <<seen, store, applied>>

NoRoute(r) ==
  /\ Goto(r, "no route", "write")
  /\ Release
  /\ UNCHANGED <<seen, store, applied>>

(* mutant: the lock is not asked for *)
ResetUnlocked(r) ==
  /\ r \in Resets
  /\ Goto(r, "acquire", "write")
  /\ store' = {}
  /\ applied' = applied \union {r}
  /\ UNCHANGED <<lock, seen>>

(* reset_all_backends under the lock; its answer is written after it. *)
ResetBackends(r) ==
  /\ r \in Resets
  /\ Goto(r, "acquire", "write")
  /\ lock = NoOne
  /\ store' = {}
  /\ applied' = applied \union {r}
  /\ UNCHANGED <<lock, seen>>

Write(r) ==
  /\ Goto(r, "write", "answered")
  /\ UNCHANGED <<lock, seen, store, applied>>

(* The client reads no more and keeps the connection open: the thread      *)
(* stays in wfile.write for good, with the lock if it has it.              *)
Stall(r) ==
  /\ r \in Stalling
  /\ Goto(r, "locked write", "stalled") \/ Goto(r, "write", "stalled")
  /\ UNCHANGED <<lock, seen, store, applied>>

(* The client has hung up: writing raises. *)
WriteRaises(r) ==
  /\ r \in Stalling
  /\ \/ Goto(r, "locked write", "dropped") /\ Release
     \/ Goto(r, "write", "dropped") /\ UNCHANGED lock
  /\ UNCHANGED <<seen, store, applied>>

Thread(r) ==
  \/ Handle(r) \/ CallBack(r) \/ Update(r) \/ WriteLocked(r) \/ NoRoute(r)
  \/ ResetBackends(r) \/ Write(r)

Next == \E r \in Requests : Arrive(r) \/ Thread(r) \/ HandleRaises(r) \/ Stall(r) \/ WriteRaises(r)

(* A thread that can take a step takes it: the operating system schedules  *)
(* every thread, and each contends for the lock only once.  Clients may    *)
(* send nothing, and a handler need not raise nor a client stall.          *)
Spec == Init /\ [][Next]_vars /\ \A r \in Requests : WF_vars(Thread(r))

------------------------------------------------------------------------------
TypeOK ==
  /\ lock \in Requests \union {NoOne}
  /\ pc \in [Requests -> {"unsent", "acquire", "handle", "locked write",
                          "no route", "write", "stalled"} \union Finished]
  /\ seen \in [Requests -> SUBSET Api]
  /\ store \subseteq Api
  /\ applied \subseteq Api \union Resets

(* The lock serialises: the threaded server is the serial one, no effect   *)
(* of one request is lost under another's and no answer precedes its       *)
(* effect.                                                                 *)
Serial == INSTANCE SerialService WITH
  Writers <- Api,
  answered <- {r \in Requests : pc[r] = "answered"}

ImplementsSerial == Serial!Spec

(* Every request that reaches the server is finished: nobody waits for the *)
(* lock for ever.                                                          *)
EveryRequestFinishes ==
  \A r \in Requests : pc[r] # "unsent" ~> pc[r] \in Finished \union {"stalled"}

(* The holder of the lock waits for somebody outside the server: for a     *)
(* client to read, or for the answer to a request of its own handler.      *)
HolderWaits ==
  \E r \in Requests :
    /\ lock = r
    /\ \/ pc[r] = "stalled"
       \/ \E c \in Nested : parent[c] = r /\ pc[c] = "acquire"

(* That is the only way to starve: with threads scheduled fairly no order  *)
(* of requests, resets and raising handlers loses the lock.                *)
FinishesUnlessHolderWaits == []~HolderWaits => EveryRequestFinishes

(* The health check answers even while the lock is held for good. *)
HealthAlwaysAnswers ==
  \A r \in Healths \ Stalling : pc[r] # "unsent" ~> pc[r] = "answered"

(* A request is handled by the holder of the lock, and neither another     *)
(* request nor a reset changes the backends between its first look at them *)
(* and its update.                                                         *)
LockGuardsStore ==
  \A r \in Requests : pc[r] = "handle" => lock = r /\ seen[r] = store
==============================================================================
