---------------------------- MODULE CloudScheduler ----------------------------
(***************************************************************************)
(* Cloud Scheduler: SchedulerBackend with handlers, run one call at a      *)
(* time.  run_job keeps the Job across its handler, which may delete it    *)
(* and create another of the name.                                         *)
(***************************************************************************)
EXTENDS Naturals, Sequences

CONSTANTS
  CsJobs, CsSpecs,
  CsMaxDepth,     \* bound: handlers inside handlers
  CsMaxCalls      \* bound: calls

VARIABLES
  schedule,       \* backend.jobs: name -> number of a Job
  schedJobs,      \* all Jobs there have been
  csBound,        \* names with a handler
  csStack,        \* [name, job, given]: runs whose handlers are at work
  csCalls,
  csRaised        \* ghost: Jobs one of whose runs raised

csVars == <<schedule, schedJobs, csBound, csStack, csCalls, csRaised>>

CloudSchedulerInit ==
  /\ schedule = [n \in {} |-> 0] /\ schedJobs = <<>> /\ csBound = {}
  /\ csStack = <<>> /\ csCalls = 0 /\ csRaised = {}

CsCall == csCalls < CsMaxCalls /\ csCalls' = csCalls + 1

CsJob(n, spec) == [name |-> n, spec |-> spec, state |-> "ENABLED", failed |-> FALSE]
CsCreateJob(n, spec) ==
  /\ CsCall /\ n \notin DOMAIN schedule
  /\ schedJobs' = Append(schedJobs, CsJob(n, spec))
  /\ schedule' = [m \in DOMAIN schedule \union {n} |->
                    IF m = n THEN Len(schedJobs') ELSE schedule[m]]
  /\ UNCHANGED <<csBound, csStack, csRaised>>

CsDeleteJob(n) ==
  /\ CsCall /\ n \in DOMAIN schedule
  /\ schedule' = [m \in DOMAIN schedule \ {n} |-> schedule[m]]
  /\ UNCHANGED <<schedJobs, csBound, csStack, csRaised>>

(* update_job, set_state *)
CsChange(n, jobs) ==
  /\ CsCall /\ n \in DOMAIN schedule /\ schedJobs' = jobs
  /\ UNCHANGED <<schedule, csBound, csStack, csRaised>>
CsUpdateJob(n, spec)  == n \in DOMAIN schedule
  /\ CsChange(n, [schedJobs EXCEPT ![schedule[n]].spec = spec])
CsSetState(n, state)  == n \in DOMAIN schedule
  /\ CsChange(n, [schedJobs EXCEPT ![schedule[n]].state = state])

CsRegisterHandler(n) ==
  /\ CsCall /\ csBound' = csBound \union {n}
  /\ UNCHANGED <<schedule, schedJobs, csStack, csRaised>>

(* _request: what a handler is given *)
CsRequest(j) == schedJobs[j].spec

(* run_job, up to the handler: a paused job runs as well *)
CsRunJob(n) ==
  /\ CsCall /\ n \in DOMAIN schedule
  /\ IF n \in csBound
       THEN /\ Len(csStack) < CsMaxDepth
            /\ csStack' = Append(csStack, [name |-> n, job |-> schedule[n],
                                           given |-> CsRequest(schedule[n])])
       ELSE UNCHANGED csStack
  /\ UNCHANGED <<schedule, schedJobs, csBound, csRaised>>

CsTop == csStack[Len(csStack)]
CsPop == csStack # <<>> /\ csStack' = SubSeq(csStack, 1, Len(csStack) - 1)

CsReturns == CsPop /\ UNCHANGED <<schedule, schedJobs, csBound, csCalls, csRaised>>

(* The Job an error is filed on. *)
CsByName == IF CsTop.name \in DOMAIN schedule THEN schedule[CsTop.name]
            ELSE CsTop.job                           \* mutant
CsFiled == CsTop.job
CsRaises ==
  /\ CsPop
  /\ schedJobs' = [schedJobs EXCEPT ![CsFiled].failed = TRUE]
  /\ csRaised' = csRaised \union {CsTop.job}
  /\ UNCHANGED <<schedule, csBound, csCalls>>

CloudSchedulerNext ==
  \/ \E n \in CsJobs :
       \/ \E spec \in CsSpecs : CsCreateJob(n, spec) \/ CsUpdateJob(n, spec)
       \/ \E state \in {"PAUSED", "ENABLED"} : CsSetState(n, state)
       \/ CsDeleteJob(n) \/ CsRegisterHandler(n) \/ CsRunJob(n)
  \/ CsReturns \/ CsRaises

CloudSchedulerSpec == CloudSchedulerInit /\ [][CloudSchedulerNext]_csVars

------------------------------------------------------------------------------
CloudSchedulerTypeOK ==
  /\ DOMAIN schedule \subseteq CsJobs /\ csBound \subseteq CsJobs
  /\ \A n \in DOMAIN schedule : schedule[n] \in DOMAIN schedJobs
  /\ \A j \in DOMAIN schedJobs :
       schedJobs[j] \in [name : CsJobs, spec : CsSpecs, state : {"ENABLED", "PAUSED"},
                         failed : BOOLEAN]
  /\ \A i \in DOMAIN csStack : csStack[i].job \in DOMAIN schedJobs

(* However handlers nest and whatever they do to the jobs: a name leads to *)
(* a Job created under it, a Job shows an error exactly if one of its own  *)
(* runs raised, and a handler is only ever at work for a Job of its name.  *)
SchedulerSettled ==
  /\ \A n \in DOMAIN schedule : schedJobs[schedule[n]].name = n
  /\ \A j \in DOMAIN schedJobs : schedJobs[j].failed <=> j \in csRaised
  /\ \A i \in DOMAIN csStack :
       csStack[i].name = schedJobs[csStack[i].job].name /\ csStack[i].name \in csBound
==============================================================================
