------------------------------- MODULE CloudRun -------------------------------
(***************************************************************************)
(* Cloud Run Jobs: CloudRunBackend with job handlers, run one call at a    *)
(* time.  run_job keeps the Job across its handler, which may delete that  *)
(* job, create another of its name, and run jobs itself.                   *)
(***************************************************************************)
EXTENDS Naturals, Sequences

CONSTANTS
  CrJobs,
  CrMaxDepth,     \* bound: handlers inside handlers
  CrMaxCalls      \* bound: calls

VARIABLES
  runJobs,        \* backend.jobs: name -> number of a Job
  jobObjects,     \* all Jobs there have been: [name, executions: number -> succeeded]
  runOps,         \* backend.operations: number -> what it replays
  crBound,        \* names with a handler
  crCounter,
  crStack,        \* [name, job, number]: runs whose handlers are at work
  crCalls,
  crRuns          \* ghost: finished runs, [name, job, number, ok, deleted]

crVars == <<runJobs, jobObjects, runOps, crBound, crCounter, crStack, crCalls, crRuns>>

CloudRunInit ==
  /\ runJobs = [n \in {} |-> 0] /\ jobObjects = <<>> /\ runOps = [n \in {} |-> 0]
  /\ crBound = {} /\ crCounter = 0 /\ crStack = <<>> /\ crCalls = 0 /\ crRuns = {}

CrWith(f, x, v) == [y \in DOMAIN f \union {x} |-> IF y = x THEN v ELSE f[y]]
CrDrop(f, x)    == [y \in DOMAIN f \ {x} |-> f[y]]
CrCall == crCalls < CrMaxCalls /\ crCalls' = crCalls + 1

(* _operation: draws the next number and files a done operation *)
CrOperation(counter, resource) ==
  /\ crCounter' = counter + 1
  /\ runOps' = CrWith(runOps, counter + 1, resource)

(* A Job; and an Execution, until its outcome is known *)
CrJob(n) == [name |-> n, executions |-> [e \in {} |-> TRUE]]
CrExecution(n, number) == [name |-> n, job |-> runJobs[n], number |-> number]

CrCreateJob(n) ==
  /\ CrCall /\ n \notin DOMAIN runJobs
  /\ jobObjects' = Append(jobObjects, CrJob(n))
  /\ runJobs' = CrWith(runJobs, n, Len(jobObjects'))
  /\ CrOperation(crCounter, <<"Job", Len(jobObjects')>>)
  /\ UNCHANGED <<crBound, crStack, crRuns>>

CrDeleteJob(n) ==
  /\ CrCall /\ n \in DOMAIN runJobs
  /\ runJobs' = CrDrop(runJobs, n)
  /\ CrOperation(crCounter, <<"Job", runJobs[n]>>)
  /\ UNCHANGED <<jobObjects, crBound, crStack, crRuns>>

CrRegisterHandler(n) ==
  /\ CrCall /\ crBound' = crBound \union {n}
  /\ UNCHANGED <<runJobs, jobObjects, runOps, crCounter, crStack, crRuns>>

(* The Job an execution is filed on: the one the run began with. *)
CrByName(run) == IF run.name \in DOMAIN runJobs THEN runJobs[run.name]   \* mutant
                 ELSE run.job
CrFiled(run) == run.job

(* run_job after the handler, if there was one *)
CrFinish(run, counter, ok) ==
  /\ jobObjects' = [jobObjects EXCEPT ![CrFiled(run)].executions = CrWith(@, run.number, ok)]
  /\ CrOperation(counter, <<"Execution", run.number, ok>>)
  /\ crRuns' = crRuns \union {[name |-> run.name, job |-> run.job, number |-> run.number,
                               ok |-> ok, deleted |-> FALSE]}

(* run_job up to the handler; without one the run succeeds at once *)
CrRunJob(n) ==
  /\ CrCall /\ n \in DOMAIN runJobs
  /\ LET run == CrExecution(n, crCounter + 1)
     IN IF n \in crBound
          THEN /\ Len(crStack) < CrMaxDepth /\ crStack' = Append(crStack, run)
               /\ crCounter' = crCounter + 1
               /\ UNCHANGED <<jobObjects, runOps, crRuns>>
          ELSE CrFinish(run, crCounter + 1, TRUE) /\ UNCHANGED crStack
  /\ UNCHANGED <<runJobs, crBound>>

(* The handler returned or raised: either way the run ends normally. *)
CrHandlerDone(ok) ==
  /\ crStack # <<>> /\ crStack' = SubSeq(crStack, 1, Len(crStack) - 1)
  /\ CrFinish(crStack[Len(crStack)], crCounter, ok)
  /\ UNCHANGED <<runJobs, crBound, crCalls>>

CrDeleteExecution(n, e) ==
  /\ CrCall /\ n \in DOMAIN runJobs /\ e \in DOMAIN jobObjects[runJobs[n]].executions
  /\ CrOperation(crCounter, <<"Execution", e, jobObjects[runJobs[n]].executions[e]>>)
  /\ jobObjects' = [jobObjects EXCEPT ![runJobs[n]].executions = CrDrop(@, e)]
  /\ crRuns' = {[r EXCEPT !.deleted = r.deleted \/ r.number = e] : r \in crRuns}
  /\ UNCHANGED <<runJobs, crBound, crStack>>

CloudRunNext ==
  \/ \E n \in CrJobs :
       \/ CrCreateJob(n) \/ CrDeleteJob(n) \/ CrRegisterHandler(n) \/ CrRunJob(n)
       \/ \E e \in 1..crCounter : CrDeleteExecution(n, e)
  \/ \E ok \in BOOLEAN : CrHandlerDone(ok)

CloudRunSpec == CloudRunInit /\ [][CloudRunNext]_crVars

------------------------------------------------------------------------------
CloudRunTypeOK ==
  /\ DOMAIN runJobs \subseteq CrJobs /\ crBound \subseteq CrJobs
  /\ \A n \in DOMAIN runJobs : runJobs[n] \in DOMAIN jobObjects
  /\ \A j \in DOMAIN jobObjects :
       /\ jobObjects[j].name \in CrJobs
       /\ jobObjects[j].executions \in [DOMAIN jobObjects[j].executions -> BOOLEAN]
  /\ DOMAIN runOps \subseteq 1..crCounter
  /\ \A i \in DOMAIN crStack : crStack[i].job \in DOMAIN jobObjects

(* However handlers nest and whatever they do to their own job: a finished *)
(* run is listed, with the outcome of its own handler, under the Job it    *)
(* began with and under no other, also one created under the name since,   *)
(* until it is deleted there; its operation replays that outcome for good; *)
(* and no number names both an execution and an operation.                 *)
RunsRecorded ==
  /\ \A r \in crRuns :
       LET listed == {j \in DOMAIN jobObjects : r.number \in DOMAIN jobObjects[j].executions}
       IN /\ listed = IF r.deleted THEN {} ELSE {r.job}
          /\ \A j \in listed : jobObjects[j].executions[r.number] = r.ok
          /\ \E o \in DOMAIN runOps : runOps[o] = <<"Execution", r.number, r.ok>>
          /\ r.number \notin DOMAIN runOps
  /\ \A j \in DOMAIN jobObjects : \A e \in DOMAIN jobObjects[j].executions :
       \E r \in crRuns : r.number = e /\ r.job = j
==============================================================================
