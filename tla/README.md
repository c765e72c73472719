# drongo in TLA+

drongo mocks Google Cloud in the process that runs the tests: `mock_gcp` opens a
scope, everything a client library sends inside it is answered from memory, and
closing the scope puts the process back as it was. This directory models the parts
of drongo where order matters: the scope controller, Pub/Sub and its worker threads,
the standalone server, Cloud Storage, and the state of every other service but
BigQuery. TLC checks small instances; TLAPS proves nearly all of the safety properties
for every value of the constants.

Paths below are relative to the repository; `drongo/` stands for `src/drongo/`.

## Inventory

| component | state | operations | interacts with | hard part |
| --- | --- | --- | --- | --- |
| scope controller, `drongo/core/decorator.py` | `_depth`, `_responses`, `_aiohttp`, `_patchers`, `_emulators` | `start`, `stop`; `with`, function, class and `TestCase` decorators | resets all backends, starts the interceptors, patchers and emulators | nesting, a `start` or `setUp` that raises half-way, coroutine functions, RPCs that outlive a scope |
| backends, `core/backend.py`, `core/registry.py` | one backend per project or one for all | `__getitem__` (lazy creation), `reset` | called by services, controller, server | creation by two threads at once |
| interception, `core/aiohttp_intercept.py`, `core/responses.py` | the original `ClientSession._request` | patch, restore, `handle` | routes of the services | errors other than `DrongoHttpError` |
| emulators, `services/*/emulator.py` | gRPC server, previous `*_EMULATOR_HOST` | `start`, `stop`, RPC handlers | 8 worker threads call the backends without a lock | everything concurrent; servers are never stopped |
| Pub/Sub, `services/pubsub/` | topics, subscriptions with backlog and leases, handlers, one counter | publish, pull, acknowledge, modify ack deadline, create and delete | user handlers run inside `publish` | order, redelivery, races of pull, publish and create |
| standalone server, `drongo/server.py` | `_LOCK` | route a request, reset, health | every REST service; handlers may call back | lock held over handlers and socket writes |
| Storage, `drongo/services/storage/` | buckets, objects with generation and metageneration, upload sessions, HMAC keys, one counter | upload, resumable upload, copy, rewrite, patch, delete | | lost answers, repeated chunks, sessions that outlive their bucket or a reset |
| Storage Transfer | jobs, operations, agent pools | create, update, run, delete | none: a run only records a finished operation, Storage is not touched | deleted jobs stay and run |
| Cloud Tasks, Scheduler, Run | queues, tasks, jobs, executions, operations, handlers | create, dispatch, pause, run, purge, delete | run user handlers inside the call | re-entrant handlers that change what is being dispatched |
| Firestore, Datastore, Bigtable | documents, entities with versions, tables with rows | commit, mutate, queries, streaming reads | worker threads | commits that fail half-way, reads during writes, multi-pass sorting |
| Secret Manager, KMS | versions and their states | add, enable, disable, destroy, latest | | sequences of state changes |
| IAM | accounts by email, emails by unique id, keys | create, delete, disable, keys | worker threads | two tables changed one after the other |
| Logging | one list of entries | write, list, delete a log | worker threads | a list rebuilt while others append |
| Monitoring | time series and their index, descriptors, policies, channels, groups, ... | write and list points, aggregate, create, update, delete | worker threads | index and list changed one after the other; bucket boundaries |
| BigQuery | datasets, tables, DuckDB | DDL, queries, load | DuckDB | SQL (external) |
| Memorystore, Functions, Vertex AI, Artifact Registry, Document AI, Resource Manager | named resources, a counter, operations | create, update, delete, deploy, cancel | | operations that embed, and share parts of, resources that change later |
| seed, CLI, accessors, pytest plugin | none | | | none |

What makes each of them correct:

* controller: code in a scope runs against all mocks; it sees its own scope's data;
  nothing is left behind; no step harms a scope that is still open.
* Pub/Sub: a subscription neither loses nor doubles a message, keeps order among
  fresh messages, gets only its topic's messages; an ack id names one lease; a
  publish reaches every subscription; what a pull takes it reports.
* server: requests act as if one after the other; everyone is answered.
* Storage: an upload stores what was sent, whole; a generation and metageneration name
  one content.
* task services: a handler that changes its own queue or job leaves a state the API
  can explain: errors and executions are filed where they belong.
* document stores: what no two writers contest is as its writes say, and is reported
  so, whatever happens to its neighbours; a query's answer is one order, cut once.
* resource services: an operation replays what its call returned.
* Secret Manager, KMS: a number names one payload, nothing destroyed is served,
  *latest* is enabled; a ciphertext opens with its own key and data only.
* IAM, Logging, Monitoring: tables agree, nothing written is lost, nothing deleted
  comes back, one series for an identity; aggregation counts every point once.

PROJECT.json lists every component with its status, and the hazards line by line.

## Modules

| module | what it is |
| --- | --- |
| `MockScope` | abstract: nested scopes share one store, empty when the outermost opens and gone when it closes |
| `Controller` | `start` and `stop` one statement at a time, the code under test, faults; implements `MockScope` |
| `ControllerProofs` | theorems about `Controller` |
| `MessageQueues` | abstract: queue, lease, return, settle |
| `PubSub` | `PubSubBackend`, one action per method; implements `MessageQueues` |
| `PubSubProofs` | theorems about `PubSub` |
| `PubSubThreads` | the same methods taken apart, run by several worker threads |
| `PubSubThreadsProofs` | theorems about `PubSubThreads` |
| `SerialService` | abstract: requests act one at a time, answers follow effects |
| `Server` | request threads and `_LOCK`; implements `SerialService` |
| `ServerProofs` | theorems about `Server` |
| `ObjectStore` | abstract: objects appear whole under new generations |
| `Storage` | `StorageBackend` and its handlers, one action per request, and the clients of resumable uploads; implements `ObjectStore` |
| `StorageProofs` | theorems about `Storage` |
| `Firestore`, `Datastore`, `Bigtable` | the stores with worker threads, each write taken apart |
| `Queries` | RunQuery of Firestore and Datastore over a list of entries |
| `DataServices` | these four side by side |
| `DataProofs` | theorems about Firestore, Datastore and Bigtable |
| `CloudTasks`, `CloudScheduler`, `CloudRun` | services whose calls run handlers that may call back |
| `Resources` | seven services that keep named resources and finished operations |
| `Secrets` | Secret Manager and Cloud KMS |
| `ServiceAccounts`, `Logs`, `Monitoring` | IAM, Logging and Monitoring with worker threads |
| `Aggregation` | alignment and reduction of time series, as operators |
| `AggregationProofs` | theorems about `Aggregation` |
| `ControlServices` | these nine side by side |
| `ControlProofs` | theorems about Tasks, Scheduler and Run and about `ControlServices` |
| `MCController`, `MCPubSub`, `MCPubSubThreads`, `MCServer`, `MCStorage`, `MCDataServices`, `MCControlServices` | model values and sets for TLC |

An operator marked `\* mutant` is a plausible bug in the definition that follows it.
Nothing uses it; it is there to see that each property can fail.

### Controller

`depth` is `_depth`; `pc` names the statement `start` or `stop` is about to execute,
`"user"` means the test's code runs. One loop iteration over patchers or emulators is
one action. `http`, `aio`, `patched` and `env` are what is installed in the process;
`patchers` and `emulators` are the lengths of the lists `stop` walks; `prev` is
`_prev_host`. Backends are reduced to `data`, the set of outermost scopes (`epoch`)
that have written something: isolation asks whose data it is, not what it is.
`calls` are RPCs a worker has yet to execute; a worker may do so at any time,
in the middle of `stop` or in a later scope. `userEnv`, `touched` and `faults` are
ghosts. `faults` records what has gone wrong: a `start` that raised, a `setUp` that
raised, an RPC still running when its scope had closed. The properties say which of
these excuse them. Assumed: scopes are opened and closed by one thread, and never
closed more often than opened.

### PubSub and PubSubThreads

In `PubSub` a message is its id, and message and ack ids are numbers of the one
counter `_next` draws from. 404s and 409s are guards. A handler is the choice, per
message, of accepting it or rejecting it (`nack()` or an exception); rejected
messages reach the backlog in order.

`PubSubThreads` splits each method where CPython may switch threads (calls and loop
iterations); one operation on a built-in list or dict is one action. The dict
`subscriptions` is its table of entries in insertion order, with places of deleted
keys, because the iteration in `publish` depends on it: it raises when the number of
keys has changed or more keys come than there were, and a rebuild of the table moves
entries under it. `Slots` is the table's size; 5 is CPython's for up to two keys.
In the passing run `Slots = 1` makes every insertion rebuild, the worst case. A settling
looks its subscription up first (`CallSettle`) and pops the lease afterwards
(`Acknowledge`, `NackPop`), if another worker has not done so and the subscription found
is the one that leased it (`NoLease`). The module begins with the topic there, hence
with one backend: two workers that create it at once are in the modules of the other
services.

### Server

A request goes from `unsent` through `acquire` to `handle` (it has the lock and has read
the backends), `locked write` (it has written them and sends its answer), and is
`answered`, or `dropped` if the handler raised something that is no `DrongoHttpError`,
whether it had changed the backends by then or not, or if writing the answer raised
because the client had hung up. Resets hold the lock for the reset only, health checks
never ask for it. `Nested` requests are sent by a registered handler, which waits for
the answer. A client in `Stalling` may stop reading, or hang up.

### Storage

A *place* is a bucket and a name; `blobs` flattens `Bucket.blobs`. Bytes are a sequence
of numbers: `File` is what resumable uploads send, `Small` what all others send. `clock`
is `_clock`, from which generations, upload ids and HMAC access ids are drawn, and
which a reset sets back to 1. 404s and 409s are guards. A client of a resumable upload
(`client`) is modelled from the protocol google-cloud-storage follows: its position in
the file, whether its last request or the answer to it was lost (`doubt`), whether it
began before a reset (`stale`). With a loss it may send the chunk again or ask with
`bytes */*`; it stops when an answer's `Range` is not what it has sent. The final chunk
pops the session first and stores second, so `Complete` has a case in which the bucket
is gone and nothing is stored.

`clean` is a ghost of sessions and objects. It is lost when a chunk that had arrived
arrives again, when a client is told that byte 0 arrived though nothing did
(`responses.py:198`), when `bytes */N` is taken for a last chunk
(`responses.py:362`), and when a client from before a reset writes into a session whose
id came back. In these four cases the code stores something that is no client's file;
`WholeObjects` says that there is no fifth.

### DataServices

No service calls another, so `DataServices` and `ControlServices` compose theirs side by
side and a behaviour is one of a single service, `subject`, chosen at the start; the
variables of the others stay as they were. That keeps the state spaces a sum and not a
product.

`Firestore`, `Datastore` and `Bigtable` give every worker of the gRPC server a `pc`
(`fw`, `dw`, `bw`). Threads may be switched at calls and loop iterations; one operation
on a built-in dict is one action. Objects that handlers hold on to are numbered, because
identity matters: a `StoredDocument` that a merge changes in place while a stream has it
in hand, a `Table` that was deleted under a mutation, a `DatastoreBackend` that two
workers created at once (`DsCreate`).

No service with worker threads has a backend at first. `BackendDict.__getitem__` tests
whether there is one and assigns a new one in a later step, so that several workers can be
between the two; the last assignment takes everything from those before it, the store and
the calls that go on with it (`FsCall`, `FsCreate`, `FsLost` and their like in
`Bigtable`, `ServiceAccounts`, `Logs` and `Monitoring`). A creation that had another one
at work beside it is a `race`, and when its backend takes the place of one, the ghosts
begin anew with it: that is what the properties excuse. In `Datastore` the backends are
told apart by number. These modules are one scope: resets, which empty every backend or
drop it, are in `Controller` and `Server`.

The ghosts `serial`, `dsSerial`, `btSerial` hold what the writes say, one after the
other, and `contested`, `dsContested`, `btContested` the keys two workers have been at
at one time. The properties speak of all others: a key nobody contests holds what
`serial` holds, also when the commit failed later, and streams and lookups that began
when it was quiet report it so. Firestore's listing iterates over the dict one entry at
a time (`FsNext`), by the places of its table. It raises when the size has changed or
more entries come than there were (`FsListFails`); where as many came as went it goes
on, and if an insertion has meanwhile rebuilt the table without the places of deleted
names (`FsFile`, for a table of any size) it may pass over a document nobody has
touched. `FirestoreIsolated` excuses that one omission. A row deleted under ReadRows
raises (`BtStreamFails`). `BtSetCell` keeps cells newest first, one for each timestamp.

`Queries` takes a list of entries, filters it, applies one stable pass for each order
from the last to the first, then offset and limit, as `_run_query` does.
`QueryAnswers` says what that amounts to without passes: the lexicographic order with
the place in the list as the last criterion. A value is a type and a number; `True`
equals 1, other types never compare, an absent field is matched by nothing and sorts
like null.

Abstracted: a transaction's id (begin and rollback change nothing anyone looks at);
timestamps, bytes, references and `__name__` as values of a query; the versions that
Datastore's RunQuery reports, which are always 1. A Bigtable mutation is one step once
its table is found, though `list.sort` empties a list while it sorts.

### ControlServices

`CloudTasks`, `CloudScheduler` and `CloudRun` run one call at a time; while a handler
runs (`ctStack`, `csStack`, `crStack`) any call may come, from inside it, and handlers
nest. All tasks, jobs and executions ever made are kept by number, so that one can tell
a name from the object it led to when the handler started. A task without a handler
that is run counts as dispatched.

`Resources` has one store for seven services; `service` says which one a behaviour is
about. Resources are dicts copied shallowly when filed and when an operation embeds
them; `heap` holds the parts that are then shared. `rsTold` is what each operation said
when its call returned. `OperationsReplay` says a poll at any later time says the same,
except for the one list that is changed in place: `deployedModels` of an endpoint that
was created with such a list. `set_operation_status` of Storage Transfer rewrites an
operation on request, and the ghost with it.

`ServiceAccounts`, `Logs` and `Monitoring` cut each method at its calls. All three
properties excuse a backend created while another one was (see DataServices). Besides
that, `AccountsAgree` excuses two creations or deletions of one email at once,
`LogsKept` entries written while a log is being deleted, and `SeriesKept` two first
writes of one series; `NoPointLost`, part of `SeriesKept`, speaks of every point written
to the backend there is. The generic resource services and those of policies and
channels are the same actions over different `MnCollections`, with the code's
exceptions: descriptors are replaced when created again and cannot be updated, snoozes
cannot be deleted.

`Aggregation` evaluates `list_time_series` in one step: times are microseconds and
values are integers, fractions or distributions, so that the code's floats become exact
numbers. Values that are combined are a function from the places of their points, sums
run over its places in any order, and points, series and samples are put in order by
choosing an arrangement: nothing in the definitions depends on how long a list is. A
reducer groups and sorts the ends of points as strings, in which the final `Z` comes
behind all digits and the point before them: `AgUnit` is how finely a moment is spelled
(to the second, the millisecond or the microsecond by a client library, without the
milliseconds by `_rfc3339`), and by `AgSpelledLater` a moment comes before those that
continue it. So `10:00:00Z` is listed before the later `10:00:00.500Z`:
`AggregationLaws` does not promise newest first there but the order of the spellings
(`AgSpelledFirst`); aligned series are ordered by time. Left out: ends finer than a
microsecond, spellings no client library makes, and ends that cannot be read.
`AggregationLaws` states the result differently: with an end to the window every point
that has a time is in exactly one bucket, buckets reach back from the end in steps of
the period, and each shows what the operation makes of exactly its points; a reduction
has one series for each group and one point for each time a member has one. What an
operation makes of values is again said without saying how: their sum, their rate, their
number, or something between them (the mean, as many times, is their sum), and for
distributions as many samples, or a percentile between theirs.

## Runs

Passing:

* `Controller`: 2 patchers, 2 emulators (each with or without its library, each
  variable preset or not), nesting 3, 2 outermost scopes, all faults, stray RPCs and
  coroutine functions. Two of everything gives an order to get wrong and a partial
  failure to survive; a second outermost scope is what can inherit something; three
  levels distinguish closing an inner scope from closing the outermost. 211,388
  states.
* `PubSub`: 2 topics, 2 subscriptions, 4 drawn numbers, batches and pulls up to 2;
  names are symmetric. Four numbers suffice for two messages to be pulled and pulled
  again after a nack, or for one message to be leased three times. 45,847 states.
* `PubSubThreads`: 2 workers, 2 names of which one has a handler, 2 subscription
  objects, 3 numbers; workers are symmetric. Two workers suffice, since each race is
  between two calls. The bounds are checked when a call starts, for all it may need,
  so no worker is ever stuck on a bound. 270,153 states.
* `Server`: three service requests of which one is sent by the handler of another,
  two resets, a health check, an unmatched request, one client that may stall or hang up.
  30,144 states. It stops when every request is done, or stuck: deadlock is not
  checked, the liveness properties say who may be stuck.

* `Storage`: a bucket with two names, two clients, a file of 2 chunks, 3 drawn
  numbers, metageneration up to 2; names and clients are symmetric. Three numbers
  allow two uploads at once and a third object, or an upload, its object and a copy;
  a reset gives the numbers again. One bucket is enough to delete it and create it
  again under a session. 1,198,032 states.

* `DataServices`: two workers each. Firestore: two documents, two updates of which one
  deletes a masked field, commits of up to two writes, three RPCs: two commits that
  meet and a stream, or a commit that is read while another fails; nine numbers for
  objects, one for every place a reference may be. Datastore: one named
  and one numbered key, three RPCs, so that two can create the backend at once and a
  third finds it. Bigtable: two rows, one column, two timestamps, four RPCs, since a
  table has to be created first; with one column deleting it is deleting its family.
  Queries: lists of up to three entries of 7 kinds and 11 filters, two orders in each
  direction, of which both may be of one path, an offset of up to one and a limit of one or none;
  three entries can tie pairwise and be cut. Three RPCs are enough for two creations of a
  backend at once and a call on the one that is lost. 2,489,391 states, about 180 s.
* `ControlServices`: Tasks, Scheduler and Run with two names, handlers two deep, six
  calls: create, register, run, and inside the handler delete, create and run again.
  Resources: two ids, four calls: file, change, change, and one more. Secrets: two
  secrets, two versions, six calls. IAM: two workers, two emails, five RPCs. Logging:
  two workers, two logs, batches of two, four RPCs. Monitoring: two workers, two
  identities, four RPCs. Aggregation: some 9,000 requests, one to three points in and
  around a window, all kinds of values, all operations, with four microseconds to the
  second and two to the millisecond, so that there are ends of all three spellings.
  959,946 states, about 70 s.

Neither checks deadlock: the calls are used up in the end.

Each of the other runs shows one sentence of the documentation or of a comment that
the code does not keep:

* `ControllerAsync`: `docs/services/pubsub.md:124` puts `@mock_gcp` on an `async def`.
  `_decorate_callable` closes the scope as soon as the coroutine object exists.
* `PubSubThreadsPull`: `models.py:220` delivers "up to max_messages from the
  backlog". Two pulls race between the loop test and `pop(0)`; the loser raises
  `IndexError` and what it had leased is in no response.
* `PubSubThreadsRebuild`: `docs/services/pubsub.md:53` delivers a message "to every
  subscription on the topic". If a deletion and a creation during the iteration
  rebuild the dict, `publish` succeeds and skips a live subscription.
* `MonitoringSeries`: the docstring of `create_time_series` (`monitoring/models.py:73`)
  has repeated writes accumulate on one series "rather than piling up duplicates". Two
  threads that write an identity for the first time both find no series and append one.
* `ServerCallback`: `server.py:30` has a lock so "the threading server stays
  correct"; a handler that calls its own server waits for the lock its request holds,
  and so does everybody after it.

Met on the way and in the models, but not runs of their own: a `start` that raises
leaves `_depth` too high for good; a `setUp` that raises leaves the scope open;
an RPC that outlives its scope writes into the next one; of two concurrent creates of
one name both succeed; a publish whose iterator raises fails in the middle of its
batch. The properties of `Controller` exclude the first three by `faults`, and
`PubSubThreads` contains the last two. Further: two first calls to a project can each
create its backend and one loses its data, or gives its unique ids again; a stream whose
dict was rebuilt under it can pass over a document nobody wrote; a reduction lists
`…:00Z` before the newer `…:00.500Z`; two commits that meet at a document can mix;
`deploy_model` changes what the operation of an earlier `create_endpoint` replays;
entries written while a log is being deleted can be lost; two creations of one account
leave a unique id that leads to another's account. The properties of these services
name each of them as the excuse.

## Fairness

Only `Server` has liveness properties. Each request's thread has weak fairness on its
own steps: the operating system schedules every thread, and a thread asks for the
lock once. That is weak fairness on taking a lock others hold in between, which does
not promise a turn under endless contention; the requests are finitely many, so
contention ends. A client need not send, a handler need not raise and a client need
not stall: no fairness there. `FinishesUnlessHolderWaits` says the lock starves
nobody unless its holder waits for a client or for its own handler's request.

## Proofs

All proofs are checked by TLAPS from nothing; they assume the named ASSUMEs of the
modules, which the runs evaluate.

`ControllerProofs` proves all six properties of the run `Controller` for any number
of patchers, emulators and scopes. The invariant `IInv` strengthens them: by the
statement reached it says what is installed so far (`Installed`, `PatchersInForce`,
`EmulatorsInForce`), that `depth` equals the open scopes (`Counted`), and whose data
there may be (`OwnDataOnly`). `ScopeMocked` and `Restored` are not inductive because
they speak about `pc = "user"` only: the loops in between need to know how far they
are. `OpenScopesKeepState` needs none of that, only that `depth` never falls below the
number of open scopes (`Nested`), and therefore holds under every fault. For
`ControllerIsScope`, the end of `start` and an inner `Open` map to `Enter`, `Close` to
`Leave`, calls in a scope to `Write`, all else to a stutter.

`PubSubProofs` proves all properties of the run `PubSub`. A lease's ack id is never
above the counter and every outstanding lease is among those issued; a drawn number is
new, hence messages and ack ids never collide. The refinement needs `OneCopy`: without
it settling a lease would not remove the message. `RightTopic` and
`QueuedNeverDropped` follow from the same classification of steps: a step of an
existing subscription is one of `MessageQueues`' moves, which bring nothing new and lose
nothing, or a publish, which adds what its topic was given. `FreshInOrder` is inductive
once put for one backlog: from the first fresh message on, everything is fresh and
increasing (`Rising`), so that returned leases, which are not fresh, may only stand
before.

`PubSubThreadsProofs` proves `TypeOK`, `CopiesConserved` and `NoLeaseTwice` for any
pool of workers. The properties speak about one message and the places it can be, but
not about the publish that is about to append it once more. `IInv` adds that: the
places of the dict ahead of a publish's iterator hold no object it has delivered to
(`Undone`), which insertions, deletions and rebuilds by others preserve because no two
places hold one name (`OneEntryPerName`) and no two publishes one message
(`OwnMessage`). `CopiesOf` is `CopiesConserved` with the four places told apart, the
worker's hand among them. The bounds are part of `TypeOK`: a call reserves what it may
draw when it starts (`Reserved`, `Inserting`). Counting them is why `Workers` is
assumed finite, as the pool of eight is.

`ServerProofs` proves `LockGuardsStore`, `TypeOK` and `ImplementsSerial` for any set of
requests, from what is known of a request by the place of its thread (`Consistent`).

`StorageProofs` proves all properties of the run `Storage`. `WholeObjects` needs to know
what a session holds that is not finished: a clean one the file up to where its client
is (`CleanPrefix`, and `InStep` unless the client is in doubt about an answer).
`NoSharedNumbers` needs that numbers in use are below the clock, until a reset forgets
all of them. `VersionNamesContent` needs that an object has the latest of the versions
of its generation. For `BackendIsStore` every request is mapped to a put, a change of
metadata, a deletion, a reset or a stutter.

`ControlProofs` begins with type correctness and the properties of `CloudTasks`,
`CloudScheduler` and `CloudRun`, from their own specifications and for any depth of
handlers in handlers. For tasks, the counter is past every number drawn (`DrawnNames`)
and a task on the stack has been dispatched (`HandlersInv`). For runs, the number of one
on the stack is filed nowhere yet and no other's (`RunningInv`); what is finished is
listed with one job, the one it began with, though the job's name may have passed to
another (`FinishedInv`).

The services with worker threads start without a backend. Until one is there all workers
are idle or creating it and the ghosts are empty, and a creation that is no `race` is the
only one and finds none (`LogStartInv`, `SaStartInv`, `MnStartInv`; in `DataProofs`
`FsStartInv`, `BtStartInv`). So a creation either begins at the empty ghosts or makes them
empty, and the other invariants hold of the new backend whatever held of the old.

`ControlProofs` carries these to `ControlSpec` (a step of the whole is a step of one
service or stutters for it, `OneService`) and proves the other services' properties:

* `OperationsReplay`: every resource has its nested part to itself (`StoreInv`), and an
  operation shares its part with no endpoint (`OpInv`), the one kind changed in place.
* `SecretsKept`: a version holds what was added under its number unless destroyed
  (`VersionsInv`). That *latest* finds the greatest enabled number uses that a nonempty
  set of numbers below a bound has a maximum.
* `AccountsAgree`: for an email nobody races for, how far the two tables agree depends on
  the statement the one thread at it has reached (`StageInv`).
* `LogsKept`: a deletion under way has, kept or still ahead of it, everything that must
  stay and nothing that is gone (`DeletionInv`); a write that counts holds the current
  list while no deletion runs (`WriteInv`).
* `SeriesKept`: each point is in one place of one series (`PointsOf`); an identity not
  raced for has one series or one thread about to file it (`IdentityInv`).

`AggregationProofs` proves `AggregationLaws` for requests of any number of series and
points, any window, period and operation, and any bounds of the buckets that do not
decrease (`AggregationAssumption`); `ControlProofs` carries it to `ControlSpec`. The
invariant is small: an answer is `AgListed` of the request (`AgAnswered`). The work is in
what `AgListed` computes, and rests on induction over the subsets of a finite set with
the statement's extension as a set (`SetInduction`), which the well-founded order of
strict inclusion gives:

* The recursion behind `AgTotal` has a value for every subset of places (`SumsExist`),
  and though it takes the places in an order nobody chose, the sum splits at any place
  (`SumSplits`), adds up place by place (`SumOfPlus`) and over two indices in either order
  (`SumsSwap`). A total is as many times a bound at least as its summands are
  (`TotalAtLeast`), so that a mean lies between its numbers (`MeanBetween`).
* Whatever a relation ranks can be arranged (`ArrangementOfRanks`), so that `AgArranged`
  is an arrangement; a quantile lies between two neighbours in it (`QuantileBetween`).
* Of merged distributions as many samples are in the first buckets as of all of them
  together (`MergeIs`). If each reaches its rank by some bucket, so does the merged one,
  and not before the first that one of them reaches (`MergedReaches`); middles of buckets
  do not decrease (`MiddleGrows`), so the merged percentile is between theirs
  (`MergedPercentile`). Those without samples must be left out of the statement.
* A bucket ends less than a period after, and not before, the moments in it
  (`BucketEnds`), and moments in one bucket have one end (`BucketIs`). So the points with
  one end are those inside the bucket, which is what the law speaks about (`InsideIs`).
* Each group has one first member (`FirstsAre`), from which the series of the answer and
  the keys are in bijection (`ReduceIs`); the points of a group by place are those by
  member (`ThereAre`).

`DataProofs` does the same as `ControlProofs` for `DataSpec`. `DatastoreIsolated`,
`FirestoreIsolated` and `BigtableIsolated` compare what is stored with the ghost at
rest. The strengthening says, for a key that is not contested, that one worker at most
is writing it, what the store holds at each of that worker's statements, and what a
reader that relies on the key has collected so far:

* Datastore: `KeyInv` and `WriterInv`, and `OneBackend`: while any key is not contested
  there is at most one backend.
* Firestore: a merge works in place, so a document is the ghost's with the masked paths
  dealt with so far replaced (`MergesInv`), in an object of its own (`ObjectsInv`).
  Names have places of their own in the dict's table, in use (`PlaceInv`), so that until
  a rebuild all an iterator has yet to list is ahead of it. That there is a free number
  for a new object is `FirestoreAssumption` on the model's bound.
* Bigtable: an uncontested row is that of the current table, and so is the table its
  writer has found (`RowInv`). That sorting a column puts a new cell in its place uses
  that there is such a place, behind the newer cells (`OrderExists`).
  Timestamps are integers (`BigtableAssumption`).

`QueryAnswers` holds for lists, filters and orders of any length. Each pass of the sort
lists what was found and leaves it ordered by the criteria dealt with so far
(`Ordered`): of two entries the new criterion comes first, and where they tie the order
they had, which is the criteria's before. That there is a sorted list at all is because
an entry's place is after all that belong before it (`ArrangementExists`), counted by
`CountBefore`. That ranks are what the property says is counting again.
`QueriesAssumption` keeps values to numbers and the types the code compares.

Types: `TypeOK` of `DataServices` needs, beyond what isolation needs, that the objects
in the Firestore heap are exactly those referred to (`HeapInv`), so that none is missing
when a document, a worker or a stream leads to it: a worker refers to one only while it
merges and lists some only while it streams. `TypeOK` of `ControlServices` needs little
beyond the other invariants: that states of resources are the known ones (`StateInv`),
that a name of Monitoring leads to a dict there is, and that every thread stands at one
of its statements.

The assumptions are on constants only: bounds are natural numbers, special values differ
from ordinary ones, and what is said above of workers, objects and timestamps.

Only model-checked: liveness (`FinishesUnlessHolderWaits`, `HealthAlwaysAnswers`), which
the prover cannot do.

Every invariant and every action property of a passing run is a theorem. What the
runs that expect a violation check is false, and has none.

## Not modelled

BigQuery: SQL is rewritten and executed by DuckDB, outside the repository; what is left
in drongo is conversion of rows and types around it. The CLI, the seed file and the
accessors of backends: sequential input and output. The handlers of Vertex AI's
`predict` and Document AI's `process` store nothing, and a call one of them makes is a
call like any other.

Inside the modelled parts: formats, names, routing by regular expression, conversion
between protobuf, JSON and Python objects; labels, policies and ordering keys, which the
code stores and never reads; scopes opened by several threads; `stop()` called more
often than `start()`; Logging's filter language; Firestore's range filters on lists and
its `IS_NAN`; deviations of distributions; list and get calls, except where a read is
taken apart because others write meanwhile.

## Plan

Done: the modules for documents, tasks and life cycles, under the names `DataServices`
and `ControlServices` and in two runs, since related services share one. At most twelve
questions are asked of the system in all, and all twelve are taken.

Proved, as planned: `Storage` with its refinement, `PubSub` whole, the services each
with its own invariant, `QueryAnswers`, and the types of `DataServices` and
`ControlServices`; and, though not on the plan, `PubSubThreads` and `AggregationLaws`.

Left, within the existing runs:

1. `WorkerPool`: re-entrant handlers against the pool's limit of eight threads.
2. Scopes opened by two threads.
