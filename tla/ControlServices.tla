---------------------------- MODULE ControlServices ----------------------------
(***************************************************************************)
(* The services that keep jobs, resources, secrets, accounts, logs and     *)
(* time series, side by side.  Each has its backends and emulator to       *)
(* itself and none calls another, so a behavior is one of a single         *)
(* service, the subject, chosen at the start.                              *)
(***************************************************************************)
EXTENDS CloudTasks, CloudScheduler, CloudRun, Resources, Secrets, ServiceAccounts, Logs,
        Monitoring, Aggregation

VARIABLE subject

Subjects == {"tasks", "scheduler", "run", "resources", "secrets", "iam", "logging",
             "monitoring", "aggregation"}

ControlInit ==
  /\ subject \in Subjects
  /\ CloudTasksInit /\ CloudSchedulerInit /\ CloudRunInit /\ SecretsInit
  /\ ServiceAccountsInit /\ LogsInit /\ MonitoringInit
  /\ ResourcesInit /\ (subject # "resources" => service = CHOOSE s \in RsServices : TRUE)
  /\ IF subject = "aggregation" THEN AggregationInit ELSE request = {} /\ answer = <<>>

ControlNext ==
  /\ UNCHANGED subject
  /\ \/ /\ subject = "tasks" /\ CloudTasksNext
        /\ UNCHANGED <<csVars, crVars, rsVars, smVars, saVars, lgVars, mnVars, agVars>>
     \/ /\ subject = "scheduler" /\ CloudSchedulerNext
        /\ UNCHANGED <<ctVars, crVars, rsVars, smVars, saVars, lgVars, mnVars, agVars>>
     \/ /\ subject = "run" /\ CloudRunNext
        /\ UNCHANGED <<ctVars, csVars, rsVars, smVars, saVars, lgVars, mnVars, agVars>>
     \/ /\ subject = "resources" /\ ResourcesNext
        /\ UNCHANGED <<ctVars, csVars, crVars, smVars, saVars, lgVars, mnVars, agVars>>
     \/ /\ subject = "secrets" /\ SecretsNext
        /\ UNCHANGED <<ctVars, csVars, crVars, rsVars, saVars, lgVars, mnVars, agVars>>
     \/ /\ subject = "iam" /\ ServiceAccountsNext
        /\ UNCHANGED <<ctVars, csVars, crVars, rsVars, smVars, lgVars, mnVars, agVars>>
     \/ /\ subject = "logging" /\ LogsNext
        /\ UNCHANGED <<ctVars, csVars, crVars, rsVars, smVars, saVars, mnVars, agVars>>
     \/ /\ subject = "monitoring" /\ MonitoringNext
        /\ UNCHANGED <<ctVars, csVars, crVars, rsVars, smVars, saVars, lgVars, agVars>>
     \/ /\ subject = "aggregation" /\ AggregationNext
        /\ UNCHANGED <<ctVars, csVars, crVars, rsVars, smVars, saVars, lgVars, mnVars>>

ControlSpec == ControlInit /\ [][ControlNext]_<<subject, ctVars, csVars, crVars, rsVars, smVars,
                                              saVars, lgVars, mnVars, agVars>>

(* The type invariant of every service that stores something. *)
TypeOK ==
  /\ subject \in Subjects
  /\ CloudTasksTypeOK /\ CloudSchedulerTypeOK /\ CloudRunTypeOK /\ ResourcesTypeOK /\ SecretsTypeOK
  /\ ServiceAccountsTypeOK /\ LogsTypeOK /\ MonitoringTypeOK

(* Cloud Tasks and Cloud Scheduler: handlers called back from inside a     *)
(* call leave names, errors and counts on the right tasks and jobs.        *)
HandlersSettled == TasksSettled /\ SchedulerSettled
==============================================================================
