------------------------------ MODULE CloudTasks ------------------------------
(***************************************************************************)
(* Cloud Tasks: CloudTasksBackend with handlers, run one call at a time.   *)
(* A handler runs inside create_task or run_task and may itself make any   *)
(* call: create and run tasks, purge, delete and create queues.            *)
(***************************************************************************)
EXTENDS Naturals, Sequences

CONSTANTS
  CtQueues,
  CtNames,        \* last parts of the names clients choose: numbers, as drawn
  CtMaxDepth,     \* bound: handlers inside handlers
  CtMaxCalls      \* bound: calls

ASSUME CloudTasksAssumption ==
  CtNames \subseteq Nat /\ CtMaxDepth \in Nat /\ CtMaxCalls \in Nat

VARIABLES
  queues,         \* name -> [state, tasks: last part of a name -> number]
  tasks,          \* all Tasks there have been
  ctBound,        \* queues with a handler
  ctCounter,
  ctStack,        \* the tasks whose handlers are running
  ctCalls,
  ctRaised        \* ghost: tasks one of whose deliveries raised

ctVars == <<queues, tasks, ctBound, ctCounter, ctStack, ctCalls, ctRaised>>

CtWith(f, x, v) == [y \in DOMAIN f \union {x} |-> IF y = x THEN v ELSE f[y]]
CtDrop(f, x)    == [y \in DOMAIN f \ {x} |-> f[y]]

CtTask == [name : CtQueues \X Nat, auto : BOOLEAN, dispatched : Nat, failed : BOOLEAN,
           due : Nat]                       \* due is a ghost: deliveries asked for

CloudTasksInit ==
  /\ queues = [q \in {} |-> 0] /\ tasks = <<>> /\ ctBound = {} /\ ctCounter = 0
  /\ ctStack = <<>> /\ ctCalls = 0 /\ ctRaised = {}

CtCall == ctCalls < CtMaxCalls /\ ctCalls' = ctCalls + 1

CtManage(q, there, now) ==
  /\ CtCall /\ q \in there
  /\ queues' = now
  /\ UNCHANGED <<tasks, ctBound, ctCounter, ctStack, ctRaised>>

CtCreateQueue(q) == CtManage(q, CtQueues \ DOMAIN queues,
                             CtWith(queues, q, [state |-> "RUNNING", tasks |-> [n \in {} |-> 0]]))
CtDeleteQueue(q) == CtManage(q, DOMAIN queues, CtDrop(queues, q))
CtPurgeQueue(q)  == CtManage(q, DOMAIN queues, [queues EXCEPT ![q].tasks = [n \in {} |-> 0]])
CtSetQueueState(q, state) == CtManage(q, DOMAIN queues, [queues EXCEPT ![q].state = state])
CtDeleteTask(q, n) ==
  /\ q \in DOMAIN queues /\ n \in DOMAIN queues[q].tasks
  /\ CtManage(q, DOMAIN queues, [queues EXCEPT ![q].tasks = CtDrop(@, n)])

(* Bound to the name: it outlives the queue. *)
CtRegisterHandler(q) ==
  /\ CtCall /\ ctBound' = ctBound \union {q}
  /\ UNCHANGED <<queues, tasks, ctCounter, ctStack, ctRaised>>

(* _dispatch, up to the handler - or to a body that is not base64, which   *)
(* fails the call.                                                         *)
CtDispatch(all, t, q) ==
  /\ tasks' = [all EXCEPT ![t].dispatched = @ + 1, ![t].due = @ + 1]
  /\ \/ q \in ctBound /\ Len(ctStack) < CtMaxDepth /\ ctStack' = Append(ctStack, t)
     \/ UNCHANGED ctStack

(* _next *)
CtCount(q) == IF q \in DOMAIN queues                 \* mutant
              THEN Len(SelectSeq(tasks, LAMBDA t : t.name \in {q} \X DOMAIN queues[q].tasks)) + 1
              ELSE 0
CtNext(q) == ctCounter + 1

(* create_task with number n, drawn or chosen *)
CtCreateTask(q, n, auto) ==
  /\ CtCall /\ q \in DOMAIN queues
  /\ ctCounter' = IF auto THEN CtNext(q) ELSE ctCounter
  /\ LET new == Append(tasks, [name |-> <<q, n>>, auto |-> auto, dispatched |-> 0,
                               failed |-> FALSE, due |-> 0])
         due == queues[q].state = "RUNNING" /\ q \in ctBound
     IN IF n \in DOMAIN queues[q].tasks              \* 409, and the number is spent
          THEN UNCHANGED <<queues, tasks, ctStack>>
          ELSE /\ queues' = [queues EXCEPT ![q].tasks = CtWith(@, n, Len(new))]
               /\ IF due THEN CtDispatch(new, Len(new), q)
                         ELSE tasks' = new /\ UNCHANGED ctStack
  /\ UNCHANGED <<ctBound, ctRaised>>

(* run_task: whatever the queue's state *)
CtRunTask(q, n) ==
  /\ CtCall /\ q \in DOMAIN queues /\ n \in DOMAIN queues[q].tasks
  /\ CtDispatch(tasks, queues[q].tasks[n], q)
  /\ UNCHANGED <<queues, ctBound, ctCounter, ctRaised>>

CtTop == ctStack[Len(ctStack)]

(* _dispatch, the handler returned *)
CtReturns ==
  /\ ctStack # <<>> /\ ctStack' = SubSeq(ctStack, 1, Len(ctStack) - 1)
  /\ UNCHANGED <<queues, tasks, ctBound, ctCounter, ctCalls, ctRaised>>

(* ... or raised, which is filed on the task and goes no further *)
CtRaises ==
  /\ ctStack # <<>> /\ ctStack' = SubSeq(ctStack, 1, Len(ctStack) - 1)
  /\ tasks' = [tasks EXCEPT ![CtTop].failed = TRUE]
  /\ ctRaised' = ctRaised \union {CtTop}
  /\ UNCHANGED <<queues, ctBound, ctCounter, ctCalls>>

CloudTasksNext ==
  \/ \E q \in CtQueues :
       \/ CtCreateQueue(q) \/ CtDeleteQueue(q) \/ CtPurgeQueue(q)
       \/ \E state \in {"PAUSED", "RUNNING"} : CtSetQueueState(q, state)
       \/ CtRegisterHandler(q)
       \/ CtCreateTask(q, CtNext(q), TRUE)
       \/ \E n \in CtNames : CtCreateTask(q, n, FALSE)
       \/ \E n \in 1..CtMaxCalls : CtRunTask(q, n) \/ CtDeleteTask(q, n)
  \/ CtReturns \/ CtRaises

CloudTasksSpec == CloudTasksInit /\ [][CloudTasksNext]_ctVars

------------------------------------------------------------------------------
CloudTasksTypeOK ==
  /\ DOMAIN queues \subseteq CtQueues
  /\ \A q \in DOMAIN queues :
       /\ queues[q].state \in {"RUNNING", "PAUSED"}
       /\ \A n \in DOMAIN queues[q].tasks : queues[q].tasks[n] \in DOMAIN tasks
  /\ \A t \in DOMAIN tasks : tasks[t] \in CtTask
  /\ ctBound \subseteq CtQueues /\ ctCounter \in 0..CtMaxCalls
  /\ \A i \in DOMAIN ctStack : ctStack[i] \in DOMAIN tasks

(* Whatever handlers do to the queue they are called from: a name leads to *)
(* the task created under it; a drawn name is never drawn again, even once *)
(* its task or queue is gone; a task shows an error exactly if one of its  *)
(* own deliveries raised, though its name may have passed to another       *)
(* meanwhile; and only a delivered task can.                               *)
TasksSettled ==
  /\ \A q \in DOMAIN queues : \A n \in DOMAIN queues[q].tasks :
       tasks[queues[q].tasks[n]].name = <<q, n>>
  /\ \A s, t \in DOMAIN tasks :
       tasks[s].auto /\ tasks[t].auto /\ tasks[s].name[2] = tasks[t].name[2] => s = t
  /\ \A t \in DOMAIN tasks :
       /\ tasks[t].failed <=> t \in ctRaised
       /\ tasks[t].failed => tasks[t].dispatched > 0
       /\ tasks[t].dispatched = tasks[t].due
==============================================================================
