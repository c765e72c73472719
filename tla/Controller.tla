----------------------------- MODULE Controller ------------------------------
(***************************************************************************)
(* The mock_gcp scope: DrongoController.start/stop of core/decorator.py    *)
(* with the backends it resets (core/backend.py), the interception layers  *)
(* it installs and the gRPC emulators whose *_EMULATOR_HOST variable it    *)
(* swaps (services/*/emulator.py).                                         *)
(*                                                                         *)
(* start and stop are taken one statement at a time: between two of them   *)
(* an RPC that an emulator's worker thread is still executing may write    *)
(* to the backends, and start may raise.  The code under test runs while   *)
(* pc = "user".  Test code on one thread opens and closes the scopes.      *)
(***************************************************************************)
EXTENDS Naturals

CONSTANTS
  NumPatchers,    \* patchers build_patchers and the services provide
  NumEmulators,   \* emulators of the registry, in start order
  Hosts,          \* values the user may give an emulator variable
  Unset,          \* the variable is not in os.environ
  Local,          \* "localhost:<port>" of the emulator's own server
  MaxDepth,       \* bound: scopes open at once
  MaxEpoch,       \* bound: outermost scopes opened
  MayFail,        \* which of "patcher", "emulator", "setup" may raise
  StrayCalls,     \* may an RPC outlive the scope that issued it?
  AsyncBodies     \* is mock_gcp put on coroutine functions?

Patchers  == 1..NumPatchers
Emulators == 1..NumEmulators
EnvValue  == Hosts \union {Unset, Local}

ASSUME ControllerAssumption ==
  /\ NumPatchers \in Nat
  /\ NumEmulators \in Nat
  /\ MaxDepth \in Nat
  /\ MaxEpoch \in Nat
  /\ StrayCalls \in BOOLEAN
  /\ AsyncBodies \in BOOLEAN

VARIABLES
  depth,      \* DrongoController._depth
  pc,         \* the next statement of start or stop, or "user"
  i,          \* loop index of start and stop
  http,       \* the requests mock is started (and _responses is set)
  aio,        \* aiohttp is patched (and _aiohttp is set)
  patchers,   \* length of _patchers
  patched,    \* patchers in force
  emulators,  \* length of _emulators
  booted,     \* emulators whose gRPC server runs; it is never stopped
  available,  \* emulators whose client library can be imported
  env,        \* the *_EMULATOR_HOST variable of each emulator
  prev,       \* PubSubEmulator._prev_host and its likes
  data,       \* contents of the backends: the epochs that wrote them
  calls,      \* epochs with an RPC still being executed by a worker
  frame,      \* kind of function whose scope is on top: "sync", "async"
  coro,       \* a decorated coroutine function's body: not yet run, running
  scopes,     \* scopes the test code has entered and not left
  epoch,      \* outermost scopes the test code has opened so far
  userEnv,    \* env as it would be had drongo never run
  touched,    \* variables the user set inside the current scope
  faults      \* what has gone wrong so far: "start", "setup", "stray"

mocks == <<http, aio, patchers, patched>>
emus  == <<emulators, booted, env, prev>>
ghost == <<epoch, userEnv, touched, faults>>
asyn  == <<frame, coro>>
vars  == <<depth, pc, i, mocks, emus, available, data, calls, asyn, scopes, ghost>>

Init ==
  /\ depth = 0 /\ pc = "user" /\ i = 0
  /\ http = FALSE /\ aio = FALSE /\ patchers = 0 /\ patched = {}
  /\ emulators = 0 /\ booted = {} /\ available \in SUBSET Emulators
  /\ env \in [Emulators -> Hosts \union {Unset}]
  /\ prev = [e \in Emulators |-> Unset]
  /\ data = {} /\ calls = {} /\ frame = "sync" /\ coro = "none"
  /\ scopes = 0 /\ epoch = 0 /\ userEnv = env /\ touched = {}
  /\ faults = {}

(* registry.reset_all_backends: global backends are set up again in place, *)
(* per-project ones are dropped, and all of them are empty afterwards.     *)
KeepBackends  == data' = data       \* mutant
ResetBackends == data' = {}

PatchSkipped   == aio' = aio        \* mutant
PatchAiohttp   == aio' = TRUE

RestoreSkipped == aio' = aio        \* mutant
RestoreAiohttp == aio' = FALSE

(* BaseEmulator.available: can the client library be imported? *)
Assumed(e)    == TRUE               \* mutant
Importable(e) == e \in available

(* Is the scope that closes the outermost one? *)
AnyScope  == depth > 0              \* mutant
Outermost == depth = 1

UserCode == pc = "user" /\ frame = "sync" /\ coro # "running"

------------------------------------------------------------------------------
(* start() *)

(* __enter__, or the wrapper of a decorated function, calls start: count   *)
(* the scope, and return at once when one is open already.                 *)
Open(kind) ==
  /\ UserCode /\ scopes < MaxDepth /\ depth < MaxDepth
  /\ scopes = 0 => epoch < MaxEpoch
  /\ depth' = depth + 1
  /\ frame' = kind
  /\ epoch' = IF scopes = 0 THEN epoch + 1 ELSE epoch
  /\ \/ depth > 0 /\ scopes' = scopes + 1 /\ UNCHANGED pc
     \/ depth = 0 /\ pc' = "reset_on_open" /\ UNCHANGED scopes
  /\ UNCHANGED <<i, mocks, emus, available, data, calls, coro, userEnv, touched,
                 faults>>

ResetOnOpen ==
  /\ pc = "reset_on_open"
  /\ ResetBackends
  /\ pc' = "install_http"
  /\ UNCHANGED <<depth, i, mocks, emus, available, calls, asyn, scopes, ghost>>

InstallHttp ==
  /\ pc = "install_http"
  /\ http' = TRUE
  /\ pc' = "install_aiohttp"
  /\ UNCHANGED <<depth, i, aio, patchers, patched, emus, available, data, calls,
                 asyn, scopes, ghost>>

(* ... and the whole list of patchers is built before the first starts. *)
InstallAiohttp ==
  /\ pc = "install_aiohttp"
  /\ PatchAiohttp
  /\ patchers' = NumPatchers
  /\ i' = 1
  /\ pc' = "start_patchers"
  /\ UNCHANGED <<depth, http, patched, emus, available, data, calls, asyn,
                 scopes, ghost>>

StartPatcher ==
  /\ pc = "start_patchers" /\ i <= NumPatchers
  /\ patched' = patched \union {i}
  /\ i' = i + 1
  /\ UNCHANGED <<depth, pc, http, aio, patchers, emus, available, data, calls,
                 asyn, scopes, ghost>>

PatchersStarted ==
  /\ pc = "start_patchers" /\ i > NumPatchers
  /\ emulators' = 0
  /\ i' = 1
  /\ pc' = "start_emulators"
  /\ UNCHANGED <<depth, mocks, booted, env, prev, available, data, calls, asyn,
                 scopes, ghost>>

(* BaseEmulator.start: boot the server the first time, remember the user's *)
(* variable, redirect it.  Without its library an emulator does nothing,   *)
(* and it is appended to _emulators all the same.                          *)
StartEmulator ==
  /\ pc = "start_emulators" /\ i <= NumEmulators
  /\ IF Importable(i)
       THEN /\ booted' = booted \union {i}
            /\ prev' = [prev EXCEPT ![i] = env[i]]
            /\ env' = [env EXCEPT ![i] = Local]
       ELSE UNCHANGED <<booted, prev, env>>
  /\ emulators' = i
  /\ i' = i + 1
  /\ UNCHANGED <<depth, pc, mocks, available, data, calls, asyn, scopes, ghost>>

(* start returns, the scope's body begins. *)
Opened ==
  /\ pc = "start_emulators" /\ i > NumEmulators
  /\ pc' = "user"
  /\ scopes' = scopes + 1
  /\ touched' = {}
  /\ UNCHANGED <<depth, i, mocks, emus, available, data, calls, asyn, epoch,
                 userEnv, faults>>

(* A patcher's or an emulator's start raises.  Nothing in start catches    *)
(* it, and __exit__ is not called for a scope that was never entered.      *)
OpenRaises ==
  /\ \/ "patcher" \in MayFail /\ pc = "start_patchers" /\ i <= NumPatchers
     \/ /\ "emulator" \in MayFail /\ pc = "start_emulators"
        /\ i \in available \ booted
  /\ pc' = "user"
  /\ frame' = "sync"
  /\ faults' = faults \union {"start"}
  /\ UNCHANGED <<depth, i, mocks, emus, available, data, calls, coro, scopes,
                 epoch, userEnv, touched>>

------------------------------------------------------------------------------
(* stop() *)

(* The counter goes down; closing an inner scope does nothing else.  The   *)
(* scope of a decorated coroutine function closes as soon as the call has  *)
(* produced the coroutine object.                                          *)
Close ==
  /\ pc = "user" /\ coro # "running" /\ scopes > 0 /\ depth > 0
  /\ depth' = depth - 1
  /\ scopes' = scopes - 1
  /\ frame' = "sync"
  /\ coro' = IF frame = "async" THEN "pending" ELSE coro
  /\ IF Outermost THEN pc' = "stop_emulators" /\ i' = emulators
                  ELSE UNCHANGED <<pc, i>>
  /\ UNCHANGED <<mocks, emus, available, data, calls, ghost>>

(* BaseEmulator.stop gives the variable back; the server keeps running. *)
StopEmulator ==
  /\ pc = "stop_emulators" /\ i > 0
  /\ IF i \in booted
       THEN /\ env' = [env EXCEPT ![i] = prev[i]]
            /\ prev' = [prev EXCEPT ![i] = Unset]
       ELSE UNCHANGED <<env, prev>>
  /\ i' = i - 1
  /\ UNCHANGED <<depth, pc, mocks, emulators, booted, available, data, calls,
                 asyn, scopes, ghost>>

EmulatorsStopped ==
  /\ pc = "stop_emulators" /\ i = 0
  /\ emulators' = 0
  /\ i' = patchers
  /\ pc' = "stop_patchers"
  /\ UNCHANGED <<depth, mocks, booted, env, prev, available, data, calls, asyn,
                 scopes, ghost>>

StopPatcher ==
  /\ pc = "stop_patchers" /\ i > 0
  /\ patched' = patched \ {i}
  /\ i' = i - 1
  /\ UNCHANGED <<depth, pc, http, aio, patchers, emus, available, data, calls,
                 asyn, scopes, ghost>>

PatchersStopped ==
  /\ pc = "stop_patchers" /\ i = 0
  /\ patchers' = 0
  /\ pc' = "remove_aiohttp"
  /\ UNCHANGED <<depth, i, http, aio, patched, emus, available, data, calls,
                 asyn, scopes, ghost>>

RemoveAiohttp ==
  /\ pc = "remove_aiohttp"
  /\ RestoreAiohttp
  /\ pc' = "remove_http"
  /\ UNCHANGED <<depth, i, http, patchers, patched, emus, available, data,
                 calls, asyn, scopes, ghost>>

RemoveHttp ==
  /\ pc = "remove_http"
  /\ http' = FALSE
  /\ pc' = "reset_on_close"
  /\ UNCHANGED <<depth, i, aio, patchers, patched, emus, available, data, calls,
                 asyn, scopes, ghost>>

(* An RPC still executing now is a stray one: its scope is gone. *)
ResetOnClose ==
  /\ pc = "reset_on_close"
  /\ ResetBackends
  /\ pc' = "user"
  /\ faults' = IF calls = {} THEN faults ELSE faults \union {"stray"}
  /\ UNCHANGED <<depth, i, mocks, emus, available, calls, asyn, scopes, epoch,
                 userEnv, touched>>

------------------------------------------------------------------------------
(* The code under test *)

(* A call answered inside the scope, over any transport. *)
Call ==
  /\ UserCode /\ scopes > 0
  /\ data' = data \union {epoch}
  /\ UNCHANGED <<depth, pc, i, mocks, emus, available, calls, asyn, scopes, ghost>>

(* A gRPC call whose caller does not wait for the answer: a publish future *)
(* nobody asks for its result, a client-side deadline.                     *)
IssueCall ==
  /\ StrayCalls /\ UserCode /\ scopes > 0 /\ booted # {}
  /\ calls' = calls \union {epoch}
  /\ UNCHANGED <<depth, pc, i, mocks, emus, available, data, asyn, scopes, ghost>>

(* A worker of the emulator's thread pool executes it, whenever it gets to. *)
ExecuteCall ==
  /\ \E e \in calls : data' = data \union {e} /\ calls' = calls \ {e}
  /\ UNCHANGED <<depth, pc, i, mocks, emus, available, asyn, scopes, ghost>>

(* The test changes an emulator variable itself.  Inside a scope that      *)
(* change lasts until stop puts back what start found.                     *)
SetEnv ==
  /\ UserCode
  /\ \E e \in Emulators, host \in Hosts \union {Unset} :
       /\ env' = [env EXCEPT ![e] = host]
       /\ userEnv' = IF scopes = 0 \/ e \notin available
                       THEN [userEnv EXCEPT ![e] = host] ELSE userEnv
       /\ touched' = IF scopes = 0 THEN touched ELSE touched \union {e}
  /\ UNCHANGED <<depth, pc, i, mocks, emulators, booted, prev, available, data,
                 calls, asyn, scopes, epoch, faults>>

(* _decorate_unittest: the wrapped setUp has started the scope and the     *)
(* class's own setUp raises; unittest then never calls tearDown.           *)
SetUpRaises ==
  /\ "setup" \in MayFail /\ UserCode /\ scopes > 0
  /\ scopes' = scopes - 1
  /\ faults' = faults \union {"setup"}
  /\ UNCHANGED <<depth, pc, i, mocks, emus, available, data, calls, asyn, epoch,
                 userEnv, touched>>

(* The body of a decorated coroutine function runs when it is awaited. *)
AwaitBody ==
  /\ UserCode /\ coro = "pending"
  /\ coro' = "running"
  /\ UNCHANGED <<depth, pc, i, mocks, emus, available, data, calls, frame,
                 scopes, ghost>>

BodyEnds ==
  /\ coro = "running"
  /\ coro' = "none"
  /\ UNCHANGED <<depth, pc, i, mocks, emus, available, data, calls, frame,
                 scopes, ghost>>

------------------------------------------------------------------------------
Start == \/ ResetOnOpen \/ InstallHttp \/ InstallAiohttp \/ StartPatcher
         \/ PatchersStarted \/ StartEmulator \/ Opened \/ OpenRaises

Stop  == \/ StopEmulator \/ EmulatorsStopped \/ StopPatcher \/ PatchersStopped
         \/ RemoveAiohttp \/ RemoveHttp \/ ResetOnClose

User  == \/ Open("sync")
         \/ AsyncBodies /\ coro = "none" /\ Open("async")
         \/ Close \/ Call \/ IssueCall \/ SetEnv \/ SetUpRaises
         \/ AwaitBody \/ BodyEnds

Next == Start \/ Stop \/ User \/ ExecuteCall

Spec == Init /\ [][Next]_vars

------------------------------------------------------------------------------
(* Everything that stands between the test and Google is in place, but for *)
(* variables the test has overwritten itself.                              *)
Mocked ==
  /\ http /\ aio /\ patched = Patchers
  /\ \A e \in available \ touched : env[e] = Local

Unmocked == ~http /\ ~aio /\ patched = {}

TypeOK ==
  /\ depth \in Nat /\ scopes \in Nat /\ epoch \in Nat
  /\ pc \in {"user", "reset_on_open", "install_http", "install_aiohttp",
             "start_patchers", "start_emulators", "stop_emulators",
             "stop_patchers", "remove_aiohttp", "remove_http", "reset_on_close"}
  /\ i \in Nat
  /\ http \in BOOLEAN /\ aio \in BOOLEAN
  /\ patchers \in Nat /\ patched \subseteq Patchers
  /\ emulators \in 0..NumEmulators
  /\ booted \subseteq available /\ available \subseteq Emulators
  /\ env \in [Emulators -> EnvValue] /\ prev \in [Emulators -> EnvValue]
  /\ userEnv \in [Emulators -> EnvValue]
  /\ data \subseteq 1..epoch /\ calls \subseteq 1..epoch
  /\ frame \in {"sync", "async"} /\ coro \in {"none", "pending", "running"}
  /\ touched \subseteq Emulators
  /\ faults \subseteq {"start", "setup", "stray"}

(* Whenever code runs inside a scope it runs against the mocks: no scope   *)
(* body ever starts, or resumes after an inner scope has closed, with part *)
(* of the interception missing (decorator.py, "nesting mock_gcp scopes     *)
(* shares one set of backends").  Only a start or a setUp that raised      *)
(* takes that away, for good: _depth stays above 0 and no scope is ever    *)
(* the outermost one again.                                                *)
ScopeMocked ==
  faults \subseteq {"stray"} /\ pc = "user" /\ scopes > 0 => Mocked

(* What a test finds in the backends was written since its own outermost   *)
(* scope opened (docs/architecture.md, "state is reset between scopes").   *)
(* Three things break that: a start that raised, a setUp that raised, an   *)
(* RPC a worker executes after its scope has closed.                       *)
Isolated == faults = {} /\ pc = "user" /\ scopes > 0 => data \subseteq {epoch}

(* Once the outermost scope is closed the process is as if drongo had not  *)
(* run: nothing intercepted, no state kept, and every emulator variable    *)
(* holds what the user last gave it outside a scope.                       *)
Restored ==
  faults = {} /\ pc = "user" /\ scopes = 0 =>
    Unmocked /\ data = {} /\ env = userEnv

(* A coroutine function under mock_gcp runs its body mocked, as the async  *)
(* example of docs/services/pubsub.md expects.                             *)
AsyncBodyMocked == coro = "running" => Mocked

(* Even after a start that raised or a scope that was never closed, no     *)
(* step of start or stop touches the scopes that are still open: their     *)
(* mocks stay in place and nothing they have stored is wiped ("Closing the *)
(* inner scope must not wipe the outer scope's state", tests/test_core.py). *)
OpenScopesUndisturbed ==
  [][scopes > 0 /\ scopes' > 0 => (Mocked => Mocked') /\ data \subseteq data']_vars

(* The scope contract, seen from the code under test: while start and stop *)
(* run the scope counts as closed.                                         *)
Contract == INSTANCE MockScope WITH
  Item   <- 1..MaxEpoch,
  nest   <- scopes,
  mocked <- scopes > 0 /\ Mocked,
  store  <- IF scopes = 0 THEN {} ELSE data

(* Until something goes wrong Controller implements MockScope: nesting,    *)
(* one shared store, one reset.                                            *)
ImplementsScope ==
  Contract!Init /\ [][Contract!Next \/ faults' # {}]_(Contract!scopeVars)
==============================================================================
