---------------------------- MODULE ControlProofs ----------------------------
(***************************************************************************)
(* Theorems about the services of ControlServices, first Cloud Tasks,      *)
(* Cloud Scheduler and Cloud Run from their own specifications, then all   *)
(* side by side, for any names, any depth of handlers inside handlers, any *)
(* number of calls and any number of worker threads.                       *)
(***************************************************************************)
EXTENDS ControlServices, AggregationProofs

------------------------------------------------------------------------------
(* Cloud Tasks: the inductive invariant.  That drawn names differ rests on *)
(* the counter being past every number drawn (DrawnNames); that only a     *)
(* delivered task shows an error, on every running handler having been     *)
(* given a delivery (HandlersInv).                                         *)

TaskMaps == UNION {[S -> Nat] : S \in SUBSET Nat}
Queue    == [state : {"RUNNING", "PAUSED"}, tasks : TaskMaps]

QueuesInv ==
  /\ queues \in [DOMAIN queues -> Queue]
  /\ DOMAIN queues \subseteq CtQueues
  /\ \A q \in DOMAIN queues : \A n \in DOMAIN queues[q].tasks :
       /\ queues[q].tasks[n] \in DOMAIN tasks
       /\ tasks[queues[q].tasks[n]].name = <<q, n>>

DrawnNames ==
  /\ \A t \in DOMAIN tasks : tasks[t].auto => tasks[t].name[2] <= ctCounter
  /\ \A s, t \in DOMAIN tasks :
       tasks[s].auto /\ tasks[t].auto /\ tasks[s].name[2] = tasks[t].name[2] => s = t

ErrorsInv ==
  /\ ctRaised \subseteq DOMAIN tasks
  /\ \A t \in DOMAIN tasks :
       /\ tasks[t].failed <=> t \in ctRaised
       /\ tasks[t].failed => tasks[t].dispatched > 0
       /\ tasks[t].dispatched = tasks[t].due

HandlersInv ==
  /\ ctStack \in Seq(DOMAIN tasks)
  /\ \A i \in DOMAIN ctStack : tasks[ctStack[i]].dispatched > 0

CountersInv ==
  /\ ctCounter \in Nat /\ ctCalls \in Nat
  /\ ctCounter <= ctCalls /\ ctCalls <= CtMaxCalls

TasksInv ==
  /\ tasks \in Seq(CtTask) /\ ctBound \subseteq CtQueues
  /\ QueuesInv /\ DrawnNames /\ ErrorsInv /\ HandlersInv /\ CountersInv

------------------------------------------------------------------------------
(* Cloud Tasks: lemmas about the operators *)

LEMMA MapDrop ==
  ASSUME NEW f \in TaskMaps, NEW n
  PROVE  /\ CtDrop(f, n) \in TaskMaps /\ DOMAIN CtDrop(f, n) = DOMAIN f \ {n}
         /\ \A m \in DOMAIN f : m # n => CtDrop(f, n)[m] = f[m]
<1> DEFINE S == DOMAIN f \ {n}
           g == [m \in S |-> f[m]]
<1>1. PICK T \in SUBSET Nat : f \in [T -> Nat]
  BY DEF TaskMaps
<1>2. g \in [S -> Nat] /\ S \in SUBSET Nat
  BY <1>1
<1>3. g \in TaskMaps
  BY <1>2 DEF TaskMaps
<1> QED
  BY <1>3 DEF CtDrop

LEMMA NoTasks == [n \in {} |-> 0] \in TaskMaps
<1>1. [n \in {} |-> 0] \in [{} -> Nat] /\ {} \in SUBSET Nat
  OBVIOUS
<1> QED
  BY <1>1 DEF TaskMaps

(* A delivery counts on its task and changes nothing else of it; an error  *)
(* is filed on its task and changes nothing else of it.                    *)
LEMMA Delivered ==
  ASSUME NEW task \in CtTask, NEW r, r = [task EXCEPT !.dispatched = @ + 1, !.due = @ + 1]
  PROVE  /\ r \in CtTask /\ r.name = task.name /\ r.auto = task.auto
         /\ r.failed = task.failed /\ r.dispatched = task.dispatched + 1
         /\ r.due = task.due + 1 /\ r.dispatched > 0
<1> DEFINE k == task.dispatched + 1
           m == task.due + 1
<1>1. k \in Nat /\ m \in Nat /\ k > 0
  BY DEF CtTask
<1>2. r = [task EXCEPT !.dispatched = k, !.due = m]
  BY DEF CtTask
<1> HIDE DEF k, m
<1>3. /\ r \in CtTask /\ r.name = task.name /\ r.auto = task.auto
      /\ r.failed = task.failed /\ r.dispatched = k /\ r.due = m
  BY <1>1, <1>2 DEF CtTask
<1> QED
  BY <1>1, <1>3 DEF k, m

LEMMA Failed ==
  ASSUME NEW task \in CtTask, NEW r, r = [task EXCEPT !.failed = TRUE]
  PROVE  /\ r \in CtTask /\ r.name = task.name /\ r.auto = task.auto
         /\ r.failed = TRUE /\ r.dispatched = task.dispatched /\ r.due = task.due
BY DEF CtTask

LEMMA Replaced ==
  ASSUME NEW S, NEW all \in Seq(S), NEW t \in DOMAIN all, NEW r \in S
  PROVE  /\ all[t] \in S
         /\ [all EXCEPT ![t] = r] \in Seq(S) /\ DOMAIN [all EXCEPT ![t] = r] = DOMAIN all
         /\ [all EXCEPT ![t] = r][t] = r
         /\ \A s \in DOMAIN all : s # t => [all EXCEPT ![t] = r][s] = all[s]
<1>1. t \in 1..Len(all)
  BY LenProperties
<1>2. [all EXCEPT ![t] = r] \in Seq(S) /\ all[t] \in S
  BY <1>1, ExceptSeq, ElementOfSeq
<1> QED
  BY <1>2

(* The first of the running handlers but the last one. *)
LEMMA Popped ==
  ASSUME NEW S, NEW stack \in Seq(S), stack # <<>>
  PROVE  /\ stack[Len(stack)] \in S /\ Len(stack) \in DOMAIN stack
         /\ SubSeq(stack, 1, Len(stack) - 1) \in Seq(S)
         /\ \A i \in DOMAIN SubSeq(stack, 1, Len(stack) - 1) :
              /\ i \in DOMAIN stack /\ i # Len(stack)
              /\ SubSeq(stack, 1, Len(stack) - 1)[i] = stack[i]
<1>1. Len(stack) \in Nat /\ Len(stack) >= 1 /\ DOMAIN stack = 1..Len(stack)
  BY EmptySeq, LenProperties
<1>2. \A i \in 1..(Len(stack) - 1) : stack[i] \in S
  BY <1>1, ElementOfSeq
<1>3. /\ SubSeq(stack, 1, Len(stack) - 1) \in Seq(S)
      /\ Len(SubSeq(stack, 1, Len(stack) - 1)) = Len(stack) - 1
      /\ \A i \in 1..(Len(stack) - 1) : SubSeq(stack, 1, Len(stack) - 1)[i] = stack[i]
  BY <1>1, <1>2, SubSeqProperties
<1>4. DOMAIN SubSeq(stack, 1, Len(stack) - 1) = 1..(Len(stack) - 1)
  BY <1>1, <1>3, LenProperties
<1> QED
  BY <1>1, <1>3, <1>4, ElementOfSeq

------------------------------------------------------------------------------
(* Cloud Tasks: each action preserves the invariant *)

(* A call that changes the table of queues and nothing else. *)
LEMMA QueuesChange ==
  ASSUME TasksInv, CtCall, UNCHANGED <<tasks, ctBound, ctCounter, ctStack, ctRaised>>,
         queues' \in [DOMAIN queues' -> Queue], DOMAIN queues' \subseteq CtQueues,
         \A q \in DOMAIN queues' : \A n \in DOMAIN queues'[q].tasks :
           /\ q \in DOMAIN queues /\ n \in DOMAIN queues[q].tasks
           /\ queues'[q].tasks[n] = queues[q].tasks[n]
  PROVE  TasksInv'
<1>1. QueuesInv'
  BY DEF TasksInv, QueuesInv
<1>2. DrawnNames' /\ ErrorsInv' /\ HandlersInv'
  BY DEF TasksInv, DrawnNames, ErrorsInv, HandlersInv
<1>3. CountersInv'
  BY CloudTasksAssumption DEF TasksInv, CountersInv, CtCall
<1> QED
  BY <1>1, <1>2, <1>3 DEF TasksInv

(* A queue with another set of tasks or in another state. *)
LEMMA QueueExcept ==
  ASSUME QueuesInv, NEW q \in DOMAIN queues
  PROVE  /\ queues[q] \in Queue
         /\ \A f \in TaskMaps :
              LET now == [queues EXCEPT ![q].tasks = f]
              IN /\ now \in [DOMAIN queues -> Queue]
                 /\ now[q].state = queues[q].state /\ now[q].tasks = f
                 /\ \A p \in DOMAIN queues : p # q => now[p] = queues[p]
         /\ \A state \in {"RUNNING", "PAUSED"} :
              LET now == [queues EXCEPT ![q].state = state]
              IN /\ now \in [DOMAIN queues -> Queue]
                 /\ \A p \in DOMAIN queues : now[p].tasks = queues[p].tasks
<1>1. queues \in [DOMAIN queues -> Queue] /\ queues[q] \in Queue
  BY DEF QueuesInv
<1>2. ASSUME NEW f \in TaskMaps
      PROVE  LET now == [queues EXCEPT ![q].tasks = f]
             IN /\ now \in [DOMAIN queues -> Queue]
                /\ now[q].state = queues[q].state /\ now[q].tasks = f
                /\ \A p \in DOMAIN queues : p # q => now[p] = queues[p]
  BY <1>1 DEF Queue
<1>3. ASSUME NEW state \in {"RUNNING", "PAUSED"}
      PROVE  LET now == [queues EXCEPT ![q].state = state]
             IN /\ now \in [DOMAIN queues -> Queue]
                /\ \A p \in DOMAIN queues : now[p].tasks = queues[p].tasks
  BY <1>1 DEF Queue
<1> QED
  BY <1>1, <1>2, <1>3

LEMMA CreateQueueInv ==
  ASSUME TasksInv, NEW q \in CtQueues, CtCreateQueue(q)
  PROVE  TasksInv'
<1> DEFINE new == [state |-> "RUNNING", tasks |-> [n \in {} |-> 0]]
<1>1. /\ CtCall /\ q \notin DOMAIN queues
      /\ queues' = [p \in DOMAIN queues \union {q} |-> IF p = q THEN new ELSE queues[p]]
      /\ UNCHANGED <<tasks, ctBound, ctCounter, ctStack, ctRaised>>
  BY DEF CtCreateQueue, CtManage, CtWith
<1>2. new \in Queue /\ DOMAIN new.tasks = {}
  BY NoTasks DEF Queue
<1> HIDE DEF new
<1>3. queues \in [DOMAIN queues -> Queue] /\ DOMAIN queues \subseteq CtQueues
  BY DEF TasksInv, QueuesInv
<1>4. queues' \in [DOMAIN queues' -> Queue] /\ DOMAIN queues' \subseteq CtQueues
  BY <1>1, <1>2, <1>3
<1>5. queues'[q] = new /\ \A p \in DOMAIN queues : queues'[p] = queues[p]
  BY <1>1
<1> QED
  BY <1>1, <1>2, <1>4, <1>5, QueuesChange

LEMMA DeleteQueueInv ==
  ASSUME TasksInv, NEW q \in CtQueues, CtDeleteQueue(q)
  PROVE  TasksInv'
<1>1. /\ CtCall /\ queues' = [p \in DOMAIN queues \ {q} |-> queues[p]]
      /\ UNCHANGED <<tasks, ctBound, ctCounter, ctStack, ctRaised>>
  BY DEF CtDeleteQueue, CtManage, CtDrop
<1>2. queues \in [DOMAIN queues -> Queue] /\ DOMAIN queues \subseteq CtQueues
  BY DEF TasksInv, QueuesInv
<1> QED
  BY <1>1, <1>2, QueuesChange

LEMMA PurgeQueueInv ==
  ASSUME TasksInv, NEW q \in CtQueues, CtPurgeQueue(q)
  PROVE  TasksInv'
<1> DEFINE f == [n \in {} |-> 0]
<1>1. /\ CtCall /\ q \in DOMAIN queues /\ queues' = [queues EXCEPT ![q].tasks = f]
      /\ UNCHANGED <<tasks, ctBound, ctCounter, ctStack, ctRaised>>
  BY DEF CtPurgeQueue, CtManage
<1>2. f \in TaskMaps /\ DOMAIN f = {}
  BY NoTasks
<1> HIDE DEF f
<1>3. /\ queues' \in [DOMAIN queues -> Queue] /\ queues'[q].tasks = f
      /\ \A p \in DOMAIN queues : p # q => queues'[p] = queues[p]
  BY <1>1, <1>2, QueueExcept DEF TasksInv
<1>4. DOMAIN queues' = DOMAIN queues /\ DOMAIN queues \subseteq CtQueues
  BY <1>3 DEF TasksInv, QueuesInv
<1> QED
  BY <1>1, <1>2, <1>3, <1>4, QueuesChange

LEMMA SetQueueStateInv ==
  ASSUME TasksInv, NEW q \in CtQueues, NEW state \in {"PAUSED", "RUNNING"},
         CtSetQueueState(q, state)
  PROVE  TasksInv'
<1>1. /\ CtCall /\ q \in DOMAIN queues /\ queues' = [queues EXCEPT ![q].state = state]
      /\ UNCHANGED <<tasks, ctBound, ctCounter, ctStack, ctRaised>>
  BY DEF CtSetQueueState, CtManage
<1>2. /\ queues' \in [DOMAIN queues -> Queue]
      /\ \A p \in DOMAIN queues : queues'[p].tasks = queues[p].tasks
  BY <1>1, QueueExcept DEF TasksInv
<1>3. DOMAIN queues' = DOMAIN queues /\ DOMAIN queues \subseteq CtQueues
  BY <1>2 DEF TasksInv, QueuesInv
<1> QED
  BY <1>1, <1>2, <1>3, QueuesChange

LEMMA DeleteTaskInv ==
  ASSUME TasksInv, NEW q \in CtQueues, NEW n, CtDeleteTask(q, n)
  PROVE  TasksInv'
<1> DEFINE f == CtDrop(queues[q].tasks, n)
<1>1. /\ CtCall /\ q \in DOMAIN queues /\ queues' = [queues EXCEPT ![q].tasks = f]
      /\ UNCHANGED <<tasks, ctBound, ctCounter, ctStack, ctRaised>>
  BY DEF CtDeleteTask, CtManage
<1>2. queues[q].tasks \in TaskMaps
  BY <1>1, QueueExcept DEF TasksInv, Queue
<1>3. /\ f \in TaskMaps /\ DOMAIN f \subseteq DOMAIN queues[q].tasks
      /\ \A m \in DOMAIN f : f[m] = queues[q].tasks[m]
  BY <1>2, MapDrop DEF CtDrop
<1> HIDE DEF f
<1>4. /\ queues' \in [DOMAIN queues -> Queue] /\ queues'[q].tasks = f
      /\ \A p \in DOMAIN queues : p # q => queues'[p] = queues[p]
  BY <1>1, <1>3, QueueExcept DEF TasksInv
<1>5. DOMAIN queues' = DOMAIN queues /\ DOMAIN queues \subseteq CtQueues
  BY <1>4 DEF TasksInv, QueuesInv
<1>6. ASSUME NEW p \in DOMAIN queues', NEW m \in DOMAIN queues'[p].tasks
      PROVE  /\ p \in DOMAIN queues /\ m \in DOMAIN queues[p].tasks
             /\ queues'[p].tasks[m] = queues[p].tasks[m]
  BY <1>3, <1>4, <1>5
<1> QED
  BY <1>1, <1>4, <1>5, <1>6, QueuesChange

LEMMA RegisterHandlerInv ==
  ASSUME TasksInv, NEW q \in CtQueues, CtRegisterHandler(q)
  PROVE  TasksInv'
<1>1. /\ CtCall /\ ctBound' = ctBound \union {q}
      /\ UNCHANGED <<queues, tasks, ctCounter, ctStack, ctRaised>>
  BY DEF CtRegisterHandler
<1>2. QueuesInv' /\ DrawnNames' /\ ErrorsInv' /\ HandlersInv'
  BY <1>1 DEF TasksInv, QueuesInv, DrawnNames, ErrorsInv, HandlersInv
<1>3. CountersInv'
  BY <1>1, CloudTasksAssumption DEF TasksInv, CountersInv, CtCall
<1> QED
  BY <1>1, <1>2, <1>3 DEF TasksInv

(* run_task: the delivery is on its task before the handler has it. *)
LEMMA RunTaskInv ==
  ASSUME TasksInv, NEW q \in CtQueues, NEW n, CtRunTask(q, n)
  PROVE  TasksInv'
<1> DEFINE t == queues[q].tasks[n]
<1>1. /\ CtCall /\ q \in DOMAIN queues /\ n \in DOMAIN queues[q].tasks
      /\ UNCHANGED <<queues, ctBound, ctCounter, ctRaised>>
  BY DEF CtRunTask
<1>11. tasks' = [tasks EXCEPT ![t].dispatched = @ + 1, ![t].due = @ + 1]
  BY DEF CtRunTask, CtDispatch
<1>12. ctStack' = Append(ctStack, t) \/ ctStack' = ctStack
  BY DEF CtRunTask, CtDispatch
<1>2. t \in DOMAIN tasks /\ tasks \in Seq(CtTask)
  BY <1>1 DEF TasksInv, QueuesInv
<1> HIDE DEF t
<1> DEFINE r == [tasks[t] EXCEPT !.dispatched = @ + 1, !.due = @ + 1]
<1>3. tasks[t] \in CtTask /\ tasks' = [tasks EXCEPT ![t] = r]
  <2>1. tasks[t] \in CtTask
    BY <1>2, ElementOfSeq
  <2> QED
    BY <1>11, <1>2, <2>1 DEF CtTask
<1>4. /\ r \in CtTask /\ r.name = tasks[t].name /\ r.auto = tasks[t].auto
      /\ r.failed = tasks[t].failed /\ r.dispatched = tasks[t].dispatched + 1
      /\ r.due = tasks[t].due + 1 /\ r.dispatched > 0
  BY <1>3, Delivered
<1> HIDE DEF r
<1>10. /\ tasks' \in Seq(CtTask) /\ DOMAIN tasks' = DOMAIN tasks /\ tasks'[t] = r
       /\ \A s \in DOMAIN tasks : s # t => tasks'[s] = tasks[s]
  BY <1>2, <1>3, <1>4, Replaced
<1>5. QueuesInv'
  BY <1>1, <1>4, <1>10 DEF TasksInv, QueuesInv
<1>6. DrawnNames'
  BY <1>1, <1>4, <1>10 DEF TasksInv, DrawnNames
<1>7. ErrorsInv'
  BY <1>1, <1>2, <1>4, <1>10 DEF TasksInv, ErrorsInv
<1>8. HandlersInv'
  <2>1. ctStack \in Seq(DOMAIN tasks) /\ \A i \in DOMAIN ctStack : tasks[ctStack[i]].dispatched > 0
    BY DEF TasksInv, HandlersInv
  <2>2. \A i \in DOMAIN ctStack : ctStack[i] \in DOMAIN tasks /\ tasks'[ctStack[i]].dispatched > 0
    BY <1>4, <1>10, <2>1, ElementOfSeq
  <2>3. CASE ctStack' = ctStack
    BY <1>10, <2>1, <2>2, <2>3 DEF HandlersInv
  <2>4. CASE ctStack' = Append(ctStack, t)
    <3>1. /\ ctStack' \in Seq(DOMAIN tasks) /\ ctStack'[Len(ctStack) + 1] = t
          /\ \A i \in 1..Len(ctStack) : ctStack'[i] = ctStack[i]
          /\ DOMAIN ctStack' = 1..(Len(ctStack) + 1) /\ DOMAIN ctStack = 1..Len(ctStack)
          /\ Len(ctStack) \in Nat
      BY <1>2, <2>1, <2>4, AppendProperties, LenProperties
    <3>2. \A i \in DOMAIN ctStack' : i \in DOMAIN ctStack \/ i = Len(ctStack) + 1
      BY <3>1
    <3> QED
      BY <1>4, <1>10, <2>2, <3>1, <3>2 DEF HandlersInv
  <2> QED
    BY <1>12, <2>3, <2>4
<1>9. CountersInv'
  BY <1>1, CloudTasksAssumption DEF TasksInv, CountersInv, CtCall
<1> QED
  BY <1>1, <1>10, <1>5, <1>6, <1>7, <1>8, <1>9 DEF TasksInv

(* The tasks of a queue there is. *)
LEMMA QueueKnown ==
  ASSUME TasksInv, NEW q \in DOMAIN queues
  PROVE  queues[q].tasks \in TaskMaps
<1>1. queues[q] \in Queue
  BY DEF TasksInv, QueuesInv
<1> QED
  BY <1>1 DEF Queue

(* A task put after all others, under a name that is free. *)
LEMMA TaskAdded ==
  ASSUME TasksInv, NEW q \in DOMAIN queues, NEW n \in Nat, NEW auto \in BOOLEAN,
         ctCounter' \in {ctCounter, ctCounter + 1},
         auto = TRUE => n = ctCounter + 1 /\ ctCounter' = ctCounter + 1, CtCall,
         n \notin DOMAIN queues[q].tasks,
         queues' = [queues EXCEPT ![q].tasks = CtWith(queues[q].tasks, n, Len(tasks) + 1)],
         UNCHANGED <<ctBound, ctRaised>>,
         tasks' \in Seq(CtTask), DOMAIN tasks' = DOMAIN tasks \union {Len(tasks) + 1},
         \A s \in DOMAIN tasks : tasks'[s] = tasks[s],
         tasks'[Len(tasks) + 1].name = <<q, n>>, tasks'[Len(tasks) + 1].auto = auto,
         tasks'[Len(tasks) + 1].failed = FALSE,
         tasks'[Len(tasks) + 1].dispatched = tasks'[Len(tasks) + 1].due,
         HandlersInv'
  PROVE  TasksInv'
<1>0. PICK k : k = Len(tasks) + 1
  OBVIOUS
<1>1. /\ k \notin DOMAIN tasks /\ k \in Nat /\ tasks \in Seq(CtTask)
      /\ DOMAIN tasks' = DOMAIN tasks \union {k}
      /\ tasks'[k].name = <<q, n>> /\ tasks'[k].auto = auto /\ tasks'[k].failed = FALSE
      /\ tasks'[k].dispatched = tasks'[k].due
  BY <1>0, LenProperties DEF TasksInv
<1>2. QueuesInv'
  <2> DEFINE f == [m \in DOMAIN queues[q].tasks \union {n} |->
                     IF m = n THEN k ELSE queues[q].tasks[m]]
  <2>1. queues[q].tasks \in TaskMaps
    BY QueueKnown
  <2>2. PICK T \in SUBSET Nat : queues[q].tasks \in [T -> Nat]
    BY <2>1 DEF TaskMaps
  <2>3. queues' = [queues EXCEPT ![q].tasks = f]
    BY <1>0 DEF CtWith
  <2>4. f \in [T \union {n} -> Nat] /\ T \union {n} \in SUBSET Nat
    BY <1>1, <2>2
  <2>5. /\ DOMAIN f = DOMAIN queues[q].tasks \union {n} /\ f[n] = k
        /\ \A m \in DOMAIN queues[q].tasks : f[m] = queues[q].tasks[m]
    OBVIOUS
  <2> HIDE DEF f
  <2>6. f \in TaskMaps
    <3>1. PICK S : S = T \union {n}
      OBVIOUS
    <3>2. S \in SUBSET Nat /\ f \in [S -> Nat]
      BY <2>4, <3>1
    <3> QED
      BY <3>2 DEF TaskMaps
  <2>7. /\ queues' \in [DOMAIN queues -> Queue] /\ queues'[q].tasks = f
        /\ \A p \in DOMAIN queues : p # q => queues'[p] = queues[p]
    <3>1. QueuesInv
      BY DEF TasksInv
    <3>2. LET now == [queues EXCEPT ![q].tasks = f]
          IN /\ now \in [DOMAIN queues -> Queue] /\ now[q].tasks = f
             /\ \A p \in DOMAIN queues : p # q => now[p] = queues[p]
      BY <2>6, <3>1, QueueExcept
    <3> QED
      BY <2>3, <3>2
  <2>8. DOMAIN queues' = DOMAIN queues /\ DOMAIN queues \subseteq CtQueues
    BY <2>7 DEF TasksInv, QueuesInv
  <2>9. ASSUME NEW p \in DOMAIN queues, NEW m \in DOMAIN queues[p].tasks
        PROVE  queues[p].tasks[m] \in DOMAIN tasks /\ tasks[queues[p].tasks[m]].name = <<p, m>>
    BY DEF TasksInv, QueuesInv
  <2>10. ASSUME NEW p \in DOMAIN queues', NEW m \in DOMAIN queues'[p].tasks
         PROVE  /\ queues'[p].tasks[m] \in DOMAIN tasks'
                /\ tasks'[queues'[p].tasks[m]].name = <<p, m>>
    <3>1. CASE p # q
      BY <1>1, <2>7, <2>8, <2>9, <3>1
    <3>2. CASE p = q /\ m # n
      <4>1. m \in DOMAIN queues[p].tasks /\ queues'[p].tasks[m] = queues[p].tasks[m]
        BY <2>5, <2>7, <3>2
      <4> QED
        BY <1>1, <2>8, <2>9, <3>2, <4>1
    <3>3. CASE p = q /\ m = n
      BY <1>1, <2>5, <2>7, <3>3
    <3> QED
      BY <3>1, <3>2, <3>3
  <2> QED
    BY <2>7, <2>8, <2>10 DEF QueuesInv
<1>3. DrawnNames'
  <2>1. /\ ctCounter \in Nat /\ ctCounter' \in Nat /\ ctCounter <= ctCounter'
        /\ auto = TRUE => n <= ctCounter' /\ n > ctCounter
    BY DEF TasksInv, CountersInv
  <2>2. ASSUME NEW t \in DOMAIN tasks, tasks[t].auto
        PROVE  tasks[t].name[2] \in Nat /\ tasks[t].name[2] <= ctCounter
    <3>1. tasks[t] \in CtTask
      BY <1>1, ElementOfSeq
    <3>2. tasks[t].name \in CtQueues \X Nat
      BY <3>1 DEF CtTask
    <3> QED
      BY <2>2, <3>2 DEF TasksInv, DrawnNames
  <2>3. tasks'[k].name[2] = n
    BY <1>1
  <2>4. \A t \in DOMAIN tasks' : tasks'[t].auto => tasks'[t].name[2] <= ctCounter'
    BY <1>1, <2>1, <2>2, <2>3
  <2>5. ASSUME NEW s \in DOMAIN tasks', NEW t \in DOMAIN tasks', tasks'[s].auto, tasks'[t].auto,
               tasks'[s].name[2] = tasks'[t].name[2]
        PROVE  s = t
    <3>1. CASE s # k /\ t # k
      BY <1>1, <2>5, <3>1 DEF TasksInv, DrawnNames
    <3>2. CASE s = k /\ t # k
      BY <1>1, <2>1, <2>2, <2>3, <2>5, <3>2
    <3>3. CASE s # k /\ t = k
      BY <1>1, <2>1, <2>2, <2>3, <2>5, <3>3
    <3> QED
      BY <3>1, <3>2, <3>3
  <2> QED
    BY <2>4, <2>5 DEF DrawnNames
<1>4. ErrorsInv'
  BY <1>1 DEF TasksInv, ErrorsInv
<1>5. CountersInv'
  <2>1. ctCounter \in Nat /\ ctCalls \in Nat /\ ctCounter <= ctCalls /\ ctCalls <= CtMaxCalls
    BY DEF TasksInv, CountersInv
  <2>2. ctCalls' = ctCalls + 1 /\ ctCalls < CtMaxCalls
    BY DEF CtCall
  <2>3. ctCounter' = ctCounter \/ ctCounter' = ctCounter + 1
    OBVIOUS
  <2> QED
    BY <2>1, <2>2, <2>3, CloudTasksAssumption DEF CountersInv
<1> QED
  BY <1>1, <1>2, <1>3, <1>4, <1>5 DEF TasksInv

LEMMA CreateTaskInv ==
  ASSUME TasksInv, NEW q \in CtQueues, NEW n \in Nat, NEW auto \in BOOLEAN,
         auto = TRUE => n = CtNext(q), CtCreateTask(q, n, auto)
  PROVE  TasksInv'
<1>1. /\ CtCall /\ q \in DOMAIN queues /\ UNCHANGED <<ctBound, ctRaised>>
      /\ ctCounter' \in {ctCounter, ctCounter + 1}
      /\ auto = TRUE => n = ctCounter + 1 /\ ctCounter' = ctCounter + 1
  BY DEF CtCreateTask, CtNext
<1>2. CASE n \in DOMAIN queues[q].tasks
  <2>1. UNCHANGED <<queues, tasks, ctStack>>
    BY <1>2 DEF CtCreateTask
  <2>2. /\ ctCounter \in Nat /\ ctCounter' \in Nat /\ ctCounter <= ctCounter'
        /\ ctCounter' <= ctCounter + 1
    BY <1>1 DEF TasksInv, CountersInv
  <2>3. QueuesInv' /\ ErrorsInv' /\ HandlersInv'
    BY <1>1, <2>1 DEF TasksInv, QueuesInv, ErrorsInv, HandlersInv
  <2>4. DrawnNames'
    <3>1. ASSUME NEW t \in DOMAIN tasks, tasks[t].auto PROVE tasks[t].name[2] <= ctCounter'
      <4>1. tasks[t] \in CtTask
        BY ElementOfSeq DEF TasksInv
      <4>2. tasks[t].name \in CtQueues \X Nat
        BY <4>1 DEF CtTask
      <4>3. tasks[t].name[2] \in Nat /\ tasks[t].name[2] <= ctCounter
        BY <3>1, <4>2 DEF TasksInv, DrawnNames
      <4> QED
        BY <2>2, <4>3
    <3> QED
      BY <2>1, <3>1 DEF TasksInv, DrawnNames
  <2>5. CountersInv'
    <3>1. ctCounter \in Nat /\ ctCalls \in Nat /\ ctCounter <= ctCalls /\ ctCalls <= CtMaxCalls
      BY DEF TasksInv, CountersInv
    <3>2. ctCalls' = ctCalls + 1 /\ ctCalls < CtMaxCalls
      BY <1>1 DEF CtCall
    <3> QED
      BY <2>2, <3>1, <3>2, CloudTasksAssumption DEF CountersInv
  <2> QED
    BY <1>1, <2>1, <2>3, <2>4, <2>5 DEF TasksInv
<1>3. CASE n \notin DOMAIN queues[q].tasks
  <2> DEFINE task == [name |-> <<q, n>>, auto |-> auto, dispatched |-> 0,
                      failed |-> FALSE, due |-> 0]
             new  == Append(tasks, task)
             k    == Len(tasks) + 1
  <2>1. task \in CtTask
    BY DEF CtTask
  <2>2. /\ task.name = <<q, n>> /\ task.auto = auto /\ task.failed = FALSE
        /\ task.dispatched = 0 /\ task.due = 0
    OBVIOUS
  <2> HIDE DEF task
  <2>3. /\ new \in Seq(CtTask) /\ Len(new) = k /\ DOMAIN new = DOMAIN tasks \union {k}
        /\ k \in DOMAIN new /\ new[k] = task /\ \A s \in DOMAIN tasks : new[s] = tasks[s]
        /\ k \notin DOMAIN tasks
    <3>1. tasks \in Seq(CtTask) /\ Len(tasks) \in Nat /\ DOMAIN tasks = 1..Len(tasks)
      BY LenProperties DEF TasksInv
    <3>2. /\ new \in Seq(CtTask) /\ Len(new) = k /\ new[k] = task
          /\ \A s \in 1..Len(tasks) : new[s] = tasks[s]
      BY <2>1, <3>1, AppendProperties
    <3>3. DOMAIN new = 1..k
      BY <3>2, LenProperties
    <3> QED
      BY <3>1, <3>2, <3>3
  <2>4. /\ queues' = [queues EXCEPT ![q].tasks = CtWith(queues[q].tasks, n, k)]
        /\ \/ /\ tasks' = [new EXCEPT ![k].dispatched = @ + 1, ![k].due = @ + 1]
              /\ ctStack' = Append(ctStack, k) \/ ctStack' = ctStack
           \/ tasks' = new /\ ctStack' = ctStack
    <3>1. Len(Append(tasks, [name |-> <<q, n>>, auto |-> auto, dispatched |-> 0,
                             failed |-> FALSE, due |-> 0])) = k
      BY <2>3 DEF task
    <3> QED
      BY <1>3, <3>1 DEF CtCreateTask, CtDispatch, task
  <2> HIDE DEF new
  <2> DEFINE r == [task EXCEPT !.dispatched = @ + 1, !.due = @ + 1]
  <2>5. /\ r \in CtTask /\ r.name = task.name /\ r.auto = task.auto
        /\ r.failed = task.failed /\ r.dispatched = task.dispatched + 1
        /\ r.due = task.due + 1 /\ r.dispatched > 0
    BY <2>1, Delivered
  <2>6. [new EXCEPT ![k].dispatched = @ + 1, ![k].due = @ + 1] = [new EXCEPT ![k] = r]
    BY <2>1, <2>3 DEF CtTask
  <2> HIDE DEF r
  <2>7. /\ tasks' \in Seq(CtTask) /\ DOMAIN tasks' = DOMAIN tasks \union {k}
        /\ tasks'[k] = task \/ tasks'[k] = r
        /\ \A s \in DOMAIN tasks : tasks'[s] = tasks[s]
        /\ ctStack' = ctStack \/ (ctStack' = Append(ctStack, k) /\ tasks'[k] = r)
    <3> HIDE DEF k
    <3>1. CASE tasks' = new /\ ctStack' = ctStack
      BY <2>3, <3>1
    <3>2. CASE /\ tasks' = [new EXCEPT ![k].dispatched = @ + 1, ![k].due = @ + 1]
               /\ ctStack' = Append(ctStack, k) \/ ctStack' = ctStack
      <4>0. tasks' = [new EXCEPT ![k] = r] /\ new \in Seq(CtTask) /\ k \in DOMAIN new /\ r \in CtTask
        BY <2>3, <2>5, <2>6, <3>2
      <4>1. /\ tasks' \in Seq(CtTask) /\ DOMAIN tasks' = DOMAIN new /\ tasks'[k] = r
            /\ \A s \in DOMAIN new : s # k => tasks'[s] = new[s]
        BY <4>0, Replaced
      <4> QED
        BY <2>3, <3>2, <4>1
    <3> QED
      BY <2>4, <3>1, <3>2
  <2>8. HandlersInv'
    <3>1. ctStack \in Seq(DOMAIN tasks) /\ \A i \in DOMAIN ctStack : tasks[ctStack[i]].dispatched > 0
      BY DEF TasksInv, HandlersInv
    <3>2. \A i \in DOMAIN ctStack : ctStack[i] \in DOMAIN tasks /\ tasks'[ctStack[i]].dispatched > 0
      BY <2>7, <3>1, ElementOfSeq
    <3>3. ctStack \in Seq(DOMAIN tasks')
      BY <2>7, <3>1, SeqMonotonic
    <3> HIDE DEF k
    <3>4. CASE ctStack' = ctStack
      BY <3>2, <3>3, <3>4 DEF HandlersInv
    <3>5. CASE ctStack' = Append(ctStack, k) /\ tasks'[k] = r
      <4>1. /\ ctStack' \in Seq(DOMAIN tasks') /\ ctStack'[Len(ctStack) + 1] = k
            /\ \A i \in 1..Len(ctStack) : ctStack'[i] = ctStack[i]
            /\ DOMAIN ctStack' = 1..(Len(ctStack) + 1) /\ DOMAIN ctStack = 1..Len(ctStack)
            /\ Len(ctStack) \in Nat
        BY <2>7, <3>3, <3>5, AppendProperties, LenProperties
      <4>2. \A i \in DOMAIN ctStack' : i \in DOMAIN ctStack \/ i = Len(ctStack) + 1
        BY <4>1
      <4> QED
        BY <2>5, <3>2, <3>5, <4>1, <4>2 DEF HandlersInv
    <3> QED
      BY <2>7, <3>4, <3>5
  <2>9. /\ tasks'[k].name = <<q, n>> /\ tasks'[k].auto = auto /\ tasks'[k].failed = FALSE
        /\ tasks'[k].dispatched = tasks'[k].due
    BY <2>2, <2>5, <2>7
  <2>10. /\ queues' = [queues EXCEPT ![q].tasks = CtWith(queues[q].tasks, n, Len(tasks) + 1)]
         /\ tasks' \in Seq(CtTask) /\ DOMAIN tasks' = DOMAIN tasks \union {Len(tasks) + 1}
         /\ \A s \in DOMAIN tasks : tasks'[s] = tasks[s]
         /\ tasks'[Len(tasks) + 1].name = <<q, n>> /\ tasks'[Len(tasks) + 1].auto = auto
         /\ tasks'[Len(tasks) + 1].failed = FALSE
         /\ tasks'[Len(tasks) + 1].dispatched = tasks'[Len(tasks) + 1].due
    BY <2>4, <2>7, <2>9
  <2> HIDE DEF k
  <2> QED
    BY <1>1, <1>3, <2>8, <2>10, TaskAdded
<1> QED
  BY <1>2, <1>3

(* The handler's end takes its task off the stack. *)
LEMMA CtReturnsInv ==
  ASSUME TasksInv, CtReturns
  PROVE  TasksInv'
<1>1. /\ ctStack # <<>> /\ ctStack' = SubSeq(ctStack, 1, Len(ctStack) - 1)
      /\ UNCHANGED <<queues, tasks, ctBound, ctCounter, ctCalls, ctRaised>>
  BY DEF CtReturns
<1>2. QueuesInv' /\ DrawnNames' /\ ErrorsInv' /\ CountersInv'
  BY <1>1 DEF TasksInv, QueuesInv, DrawnNames, ErrorsInv, CountersInv
<1>3. ctStack \in Seq(DOMAIN tasks) /\ \A i \in DOMAIN ctStack : tasks[ctStack[i]].dispatched > 0
  BY DEF TasksInv, HandlersInv
<1>4. /\ ctStack' \in Seq(DOMAIN tasks)
      /\ \A i \in DOMAIN ctStack' : i \in DOMAIN ctStack /\ ctStack'[i] = ctStack[i]
  BY <1>1, <1>3, Popped
<1>5. HandlersInv'
  BY <1>1, <1>3, <1>4 DEF HandlersInv
<1> QED
  BY <1>1, <1>2, <1>5 DEF TasksInv

(* An error is filed on the task whose handler raised. *)
LEMMA CtRaisesInv ==
  ASSUME TasksInv, CtRaises
  PROVE  TasksInv'
<1>1. PICK t : t = CtTop
  OBVIOUS
<1>2. /\ ctStack # <<>> /\ ctStack' = SubSeq(ctStack, 1, Len(ctStack) - 1)
      /\ tasks' = [tasks EXCEPT ![t].failed = TRUE] /\ ctRaised' = ctRaised \union {t}
      /\ UNCHANGED <<queues, ctBound, ctCounter, ctCalls>>
  BY <1>1 DEF CtRaises
<1>3. ctStack \in Seq(DOMAIN tasks) /\ \A i \in DOMAIN ctStack : tasks[ctStack[i]].dispatched > 0
  BY DEF TasksInv, HandlersInv
<1>4. /\ t \in DOMAIN tasks /\ tasks[t].dispatched > 0
      /\ ctStack' \in Seq(DOMAIN tasks)
      /\ \A i \in DOMAIN ctStack' : i \in DOMAIN ctStack /\ ctStack'[i] = ctStack[i]
  <2>1. t = ctStack[Len(ctStack)]
    BY <1>1 DEF CtTop
  <2> QED
    BY <1>2, <1>3, <2>1, Popped
<1>5. tasks \in Seq(CtTask) /\ tasks[t] \in CtTask
  BY <1>4, ElementOfSeq DEF TasksInv
<1> DEFINE r == [tasks[t] EXCEPT !.failed = TRUE]
<1>6. tasks' = [tasks EXCEPT ![t] = r]
  BY <1>2
<1>7. /\ r \in CtTask /\ r.name = tasks[t].name /\ r.auto = tasks[t].auto
      /\ r.failed = TRUE /\ r.dispatched = tasks[t].dispatched /\ r.due = tasks[t].due
  BY <1>5, Failed
<1> HIDE DEF r
<1>8. /\ tasks' \in Seq(CtTask) /\ DOMAIN tasks' = DOMAIN tasks /\ tasks'[t] = r
      /\ \A s \in DOMAIN tasks : s # t => tasks'[s] = tasks[s]
  BY <1>4, <1>5, <1>6, <1>7, Replaced
<1>9. QueuesInv'
  BY <1>2, <1>7, <1>8 DEF TasksInv, QueuesInv
<1>10. DrawnNames'
  BY <1>2, <1>7, <1>8 DEF TasksInv, DrawnNames
<1>11. ErrorsInv'
  BY <1>2, <1>4, <1>7, <1>8 DEF TasksInv, ErrorsInv
<1>12. HandlersInv'
  <2>1. ASSUME NEW i \in DOMAIN ctStack'
        PROVE  tasks'[ctStack'[i]].dispatched > 0
    <3>1. i \in DOMAIN ctStack /\ ctStack'[i] = ctStack[i]
      BY <1>4
    <3>2. ctStack[i] \in DOMAIN tasks /\ tasks[ctStack[i]].dispatched > 0
      BY <1>3, <3>1, ElementOfSeq
    <3> QED
      BY <1>7, <1>8, <3>1, <3>2
  <2> QED
    BY <1>4, <1>8, <2>1 DEF HandlersInv
<1>13. CountersInv'
  BY <1>2 DEF TasksInv, CountersInv
<1> QED
  BY <1>2, <1>8, <1>9, <1>10, <1>11, <1>12, <1>13 DEF TasksInv

LEMMA TasksInitInv == CloudTasksInit => TasksInv
<1> SUFFICES ASSUME CloudTasksInit PROVE TasksInv
  OBVIOUS
<1>1. /\ queues = [q \in {} |-> 0] /\ tasks = <<>> /\ ctBound = {} /\ ctCounter = 0
      /\ ctStack = <<>> /\ ctCalls = 0 /\ ctRaised = {}
  BY DEF CloudTasksInit
<1>2. tasks \in Seq(CtTask) /\ DOMAIN tasks = {} /\ DOMAIN ctStack = {} /\ ctStack \in Seq(DOMAIN tasks)
  BY <1>1
<1>3. QueuesInv
  BY <1>1 DEF QueuesInv
<1>4. DrawnNames /\ ErrorsInv /\ HandlersInv
  BY <1>1, <1>2 DEF DrawnNames, ErrorsInv, HandlersInv
<1>5. CountersInv
  BY <1>1, CloudTasksAssumption DEF CountersInv
<1> QED
  BY <1>1, <1>2, <1>3, <1>4, <1>5 DEF TasksInv

LEMMA TasksStepInv == TasksInv /\ [CloudTasksNext]_ctVars => TasksInv'
<1> SUFFICES ASSUME TasksInv, [CloudTasksNext]_ctVars PROVE TasksInv'
  OBVIOUS
<1>1. ASSUME NEW q \in CtQueues, CtCreateQueue(q) PROVE TasksInv'
  BY <1>1, CreateQueueInv
<1>2. ASSUME NEW q \in CtQueues, CtDeleteQueue(q) PROVE TasksInv'
  BY <1>2, DeleteQueueInv
<1>3. ASSUME NEW q \in CtQueues, CtPurgeQueue(q) PROVE TasksInv'
  BY <1>3, PurgeQueueInv
<1>4. ASSUME NEW q \in CtQueues, NEW state \in {"PAUSED", "RUNNING"}, CtSetQueueState(q, state)
      PROVE  TasksInv'
  BY <1>4, SetQueueStateInv
<1>5. ASSUME NEW q \in CtQueues, CtRegisterHandler(q) PROVE TasksInv'
  BY <1>5, RegisterHandlerInv
<1>6. ASSUME NEW q \in CtQueues, CtCreateTask(q, CtNext(q), TRUE) PROVE TasksInv'
  <2>1. PICK n : n = CtNext(q) /\ CtCreateTask(q, n, TRUE)
    BY <1>6
  <2>2. n \in Nat
    BY <2>1 DEF TasksInv, CountersInv, CtNext
  <2> QED
    BY <2>1, <2>2, CreateTaskInv
<1>7. ASSUME NEW q \in CtQueues, NEW n \in CtNames, CtCreateTask(q, n, FALSE) PROVE TasksInv'
  BY <1>7, CreateTaskInv, CloudTasksAssumption
<1>8. ASSUME NEW q \in CtQueues, NEW n \in 1..CtMaxCalls, CtRunTask(q, n) PROVE TasksInv'
  BY <1>8, RunTaskInv
<1>9. ASSUME NEW q \in CtQueues, NEW n \in 1..CtMaxCalls, CtDeleteTask(q, n) PROVE TasksInv'
  BY <1>9, DeleteTaskInv
<1>10. CASE CtReturns
  BY <1>10, CtReturnsInv
<1>11. CASE CtRaises
  BY <1>11, CtRaisesInv
<1>12. CASE UNCHANGED ctVars
  <2>1. UNCHANGED <<queues, tasks, ctBound, ctCounter, ctStack, ctCalls, ctRaised>>
    BY <1>12 DEF ctVars
  <2> QED
    BY <2>1 DEF TasksInv, QueuesInv, DrawnNames, ErrorsInv, HandlersInv, CountersInv
<1> QED
  BY <1>1, <1>2, <1>3, <1>4, <1>5, <1>6, <1>7, <1>8, <1>9, <1>10, <1>11, <1>12 DEF CloudTasksNext

(* What the invariant says of types and of names, errors and deliveries. *)
LEMMA TasksInvMeans == TasksInv => CloudTasksTypeOK /\ TasksSettled
<1> SUFFICES ASSUME TasksInv PROVE CloudTasksTypeOK /\ TasksSettled
  OBVIOUS
<1>1. ASSUME NEW q \in DOMAIN queues
      PROVE  queues[q].state \in {"RUNNING", "PAUSED"}
  <2>1. queues[q] \in Queue
    BY DEF TasksInv, QueuesInv
  <2> QED
    BY <2>1 DEF Queue
<1>2. \A t \in DOMAIN tasks : tasks[t] \in CtTask
  BY ElementOfSeq DEF TasksInv
<1>3. \A i \in DOMAIN ctStack : ctStack[i] \in DOMAIN tasks
  BY ElementOfSeq DEF TasksInv, HandlersInv
<1>4. ctCounter \in 0..CtMaxCalls
  BY CloudTasksAssumption DEF TasksInv, CountersInv
<1>5. /\ DOMAIN queues \subseteq CtQueues /\ ctBound \subseteq CtQueues
      /\ \A q \in DOMAIN queues : \A n \in DOMAIN queues[q].tasks :
           /\ queues[q].tasks[n] \in DOMAIN tasks
           /\ tasks[queues[q].tasks[n]].name = <<q, n>>
  BY DEF TasksInv, QueuesInv
<1>6. CloudTasksTypeOK
  BY <1>1, <1>2, <1>3, <1>4, <1>5 DEF CloudTasksTypeOK
<1>7. TasksSettled
  BY <1>5 DEF TasksInv, DrawnNames, ErrorsInv, TasksSettled
<1> QED
  BY <1>6, <1>7

(* Whatever handlers do to the queue they are called from, a name leads to *)
(* the task created under it, a drawn name is never drawn again, and a     *)
(* task shows an error exactly if one of its own deliveries raised.        *)
THEOREM TasksSettle == CloudTasksSpec => [](CloudTasksTypeOK /\ TasksSettled)
<1>1. CloudTasksInit => TasksInv
  BY TasksInitInv
<1>2. TasksInv /\ [CloudTasksNext]_ctVars => TasksInv'
  BY TasksStepInv
<1>3. TasksInv => CloudTasksTypeOK /\ TasksSettled
  BY TasksInvMeans
<1> QED
  BY <1>1, <1>2, <1>3, PTL DEF CloudTasksSpec

------------------------------------------------------------------------------
(* Cloud Scheduler: the inductive invariant.  The stack keeps the Job a    *)
(* run began with, which stays a Job of its name when the name passes to   *)
(* another.                                                                *)

JobRecord == [name : CsJobs, spec : CsSpecs, state : {"ENABLED", "PAUSED"}, failed : BOOLEAN]
RunRecord == [name : CsJobs, job : Nat, given : CsSpecs]

ScheduleInv ==
  /\ DOMAIN schedule \subseteq CsJobs
  /\ \A n \in DOMAIN schedule :
       schedule[n] \in DOMAIN schedJobs /\ schedJobs[schedule[n]].name = n

FailedInv ==
  /\ csRaised \subseteq DOMAIN schedJobs
  /\ \A j \in DOMAIN schedJobs : schedJobs[j].failed <=> j \in csRaised

AtWorkInv ==
  /\ csStack \in Seq(RunRecord)
  /\ \A i \in DOMAIN csStack :
       /\ csStack[i].job \in DOMAIN schedJobs
       /\ csStack[i].name = schedJobs[csStack[i].job].name /\ csStack[i].name \in csBound

SchedInv ==
  /\ schedJobs \in Seq(JobRecord) /\ csBound \subseteq CsJobs
  /\ ScheduleInv /\ FailedInv /\ AtWorkInv

(* A Job changed in place, its name and error as they were. *)
LEMMA JobChanged ==
  ASSUME SchedInv, NEW j \in DOMAIN schedJobs, NEW r \in JobRecord,
         r.name = schedJobs[j].name, r.failed = schedJobs[j].failed,
         schedJobs' = [schedJobs EXCEPT ![j] = r],
         UNCHANGED <<schedule, csBound, csStack, csRaised>>
  PROVE  SchedInv'
<1>1. /\ schedJobs' \in Seq(JobRecord) /\ DOMAIN schedJobs' = DOMAIN schedJobs
      /\ schedJobs'[j] = r /\ \A s \in DOMAIN schedJobs : s # j => schedJobs'[s] = schedJobs[s]
  BY Replaced DEF SchedInv
<1>2. \A s \in DOMAIN schedJobs :
        schedJobs'[s].name = schedJobs[s].name /\ schedJobs'[s].failed = schedJobs[s].failed
  BY <1>1
<1>3. ScheduleInv'
  BY <1>1, <1>2 DEF SchedInv, ScheduleInv
<1>4. FailedInv'
  BY <1>1, <1>2 DEF SchedInv, FailedInv
<1>5. AtWorkInv'
  BY <1>1, <1>2 DEF SchedInv, AtWorkInv
<1> QED
  BY <1>1, <1>3, <1>4, <1>5 DEF SchedInv

LEMMA CreateJobInv ==
  ASSUME SchedInv, NEW n \in CsJobs, NEW spec \in CsSpecs, CsCreateJob(n, spec)
  PROVE  SchedInv'
<1> DEFINE job == CsJob(n, spec)
           k   == Len(schedJobs) + 1
<1>1. /\ schedJobs' = Append(schedJobs, job) /\ n \notin DOMAIN schedule
      /\ schedule' = [m \in DOMAIN schedule \union {n} |->
                        IF m = n THEN Len(schedJobs') ELSE schedule[m]]
      /\ UNCHANGED <<csBound, csStack, csRaised>>
  BY DEF CsCreateJob
<1>2. job \in JobRecord /\ job.name = n /\ job.failed = FALSE
  BY DEF CsJob, JobRecord
<1> HIDE DEF job
<1>3. /\ schedJobs' \in Seq(JobRecord) /\ Len(schedJobs') = k /\ schedJobs'[k] = job
      /\ DOMAIN schedJobs' = DOMAIN schedJobs \union {k} /\ k \notin DOMAIN schedJobs
      /\ \A s \in DOMAIN schedJobs : schedJobs'[s] = schedJobs[s]
  <2>1. schedJobs \in Seq(JobRecord) /\ Len(schedJobs) \in Nat /\ DOMAIN schedJobs = 1..Len(schedJobs)
    BY LenProperties DEF SchedInv
  <2>2. /\ schedJobs' \in Seq(JobRecord) /\ Len(schedJobs') = k /\ schedJobs'[k] = job
        /\ \A s \in 1..Len(schedJobs) : schedJobs'[s] = schedJobs[s]
    BY <1>1, <1>2, <2>1, AppendProperties
  <2>3. DOMAIN schedJobs' = 1..k
    BY <2>2, LenProperties
  <2> QED
    BY <2>1, <2>2, <2>3
<1> HIDE DEF k
<1>4. ScheduleInv'
  <2>1. DOMAIN schedule' = DOMAIN schedule \union {n} /\ schedule'[n] = k
    BY <1>1, <1>3
  <2>2. \A m \in DOMAIN schedule : schedule'[m] = schedule[m]
    BY <1>1
  <2> QED
    BY <1>2, <1>3, <2>1, <2>2 DEF SchedInv, ScheduleInv
<1>5. FailedInv'
  BY <1>1, <1>2, <1>3 DEF SchedInv, FailedInv
<1>6. AtWorkInv'
  BY <1>1, <1>3 DEF SchedInv, AtWorkInv
<1> QED
  BY <1>1, <1>3, <1>4, <1>5, <1>6 DEF SchedInv

LEMMA DeleteJobInv ==
  ASSUME SchedInv, NEW n \in CsJobs, CsDeleteJob(n)
  PROVE  SchedInv'
<1>1. /\ schedule' = [m \in DOMAIN schedule \ {n} |-> schedule[m]]
      /\ UNCHANGED <<schedJobs, csBound, csStack, csRaised>>
  BY DEF CsDeleteJob
<1>2. ScheduleInv'
  BY <1>1 DEF SchedInv, ScheduleInv
<1> QED
  BY <1>1, <1>2 DEF SchedInv, FailedInv, AtWorkInv

LEMMA UpdateJobInv ==
  ASSUME SchedInv, NEW n \in CsJobs, NEW spec \in CsSpecs, CsUpdateJob(n, spec)
  PROVE  SchedInv'
<1>1. PICK j : j = schedule[n]
  OBVIOUS
<1>2. /\ n \in DOMAIN schedule /\ schedJobs' = [schedJobs EXCEPT ![j].spec = spec]
      /\ UNCHANGED <<schedule, csBound, csStack, csRaised>>
  BY <1>1 DEF CsUpdateJob, CsChange
<1>3. j \in DOMAIN schedJobs /\ schedJobs[j] \in JobRecord
  BY <1>1, <1>2, ElementOfSeq DEF SchedInv, ScheduleInv
<1>4. PICK r : r = [schedJobs[j] EXCEPT !.spec = spec]
  OBVIOUS
<1>5. r \in JobRecord /\ r.name = schedJobs[j].name /\ r.failed = schedJobs[j].failed
  BY <1>3, <1>4 DEF JobRecord
<1>6. schedJobs' = [schedJobs EXCEPT ![j] = r]
  BY <1>2, <1>4
<1> QED
  BY <1>2, <1>3, <1>5, <1>6, JobChanged

LEMMA SetStateInv ==
  ASSUME SchedInv, NEW n \in CsJobs, NEW state \in {"PAUSED", "ENABLED"}, CsSetState(n, state)
  PROVE  SchedInv'
<1>1. PICK j : j = schedule[n]
  OBVIOUS
<1>2. /\ n \in DOMAIN schedule /\ schedJobs' = [schedJobs EXCEPT ![j].state = state]
      /\ UNCHANGED <<schedule, csBound, csStack, csRaised>>
  BY <1>1 DEF CsSetState, CsChange
<1>3. j \in DOMAIN schedJobs /\ schedJobs[j] \in JobRecord
  BY <1>1, <1>2, ElementOfSeq DEF SchedInv, ScheduleInv
<1>4. PICK r : r = [schedJobs[j] EXCEPT !.state = state]
  OBVIOUS
<1>5. r \in JobRecord /\ r.name = schedJobs[j].name /\ r.failed = schedJobs[j].failed
  BY <1>3, <1>4 DEF JobRecord
<1>6. schedJobs' = [schedJobs EXCEPT ![j] = r]
  BY <1>2, <1>4
<1> QED
  BY <1>2, <1>3, <1>5, <1>6, JobChanged

LEMMA CsRegisterHandlerInv ==
  ASSUME SchedInv, NEW n \in CsJobs, CsRegisterHandler(n)
  PROVE  SchedInv'
<1>1. csBound' = csBound \union {n} /\ UNCHANGED <<schedule, schedJobs, csStack, csRaised>>
  BY DEF CsRegisterHandler
<1> QED
  BY <1>1 DEF SchedInv, ScheduleInv, FailedInv, AtWorkInv

LEMMA RunJobInv ==
  ASSUME SchedInv, NEW n \in CsJobs, CsRunJob(n)
  PROVE  SchedInv'
<1>1. PICK run : run = [name |-> n, job |-> schedule[n], given |-> CsRequest(schedule[n])]
  OBVIOUS
<1>2. /\ n \in DOMAIN schedule /\ UNCHANGED <<schedule, schedJobs, csBound, csRaised>>
      /\ (n \in csBound /\ csStack' = Append(csStack, run)) \/ csStack' = csStack
  BY <1>1 DEF CsRunJob
<1>3. /\ schedule[n] \in DOMAIN schedJobs /\ schedJobs[schedule[n]].name = n
      /\ schedJobs[schedule[n]] \in JobRecord
  BY <1>2, ElementOfSeq DEF SchedInv, ScheduleInv
<1>4. schedule[n] \in Nat
  BY <1>3, LenProperties DEF SchedInv
<1>5. run \in RunRecord /\ run.job = schedule[n] /\ run.name = n
  BY <1>1, <1>3, <1>4 DEF RunRecord, JobRecord, CsRequest
<1>6. AtWorkInv'
  <2>1. CASE csStack' = csStack
    BY <1>2, <2>1 DEF SchedInv, AtWorkInv
  <2>2. CASE n \in csBound /\ csStack' = Append(csStack, run)
    <3>1. csStack \in Seq(RunRecord) /\ Len(csStack) \in Nat /\ DOMAIN csStack = 1..Len(csStack)
      BY LenProperties DEF SchedInv, AtWorkInv
    <3>2. /\ csStack' \in Seq(RunRecord) /\ Len(csStack') = Len(csStack) + 1
          /\ csStack'[Len(csStack) + 1] = run
          /\ \A i \in 1..Len(csStack) : csStack'[i] = csStack[i]
      BY <1>5, <2>2, <3>1, AppendProperties
    <3>3. \A i \in DOMAIN csStack' : i \in DOMAIN csStack \/ i = Len(csStack) + 1
      BY <3>1, <3>2, LenProperties
    <3>4. PICK k : k = Len(csStack) + 1
      OBVIOUS
    <3>5. ASSUME NEW i \in DOMAIN csStack'
          PROVE  /\ csStack'[i].job \in DOMAIN schedJobs
                 /\ csStack'[i].name = schedJobs[csStack'[i].job].name /\ csStack'[i].name \in csBound
      <4>1. CASE i \in DOMAIN csStack
        BY <3>1, <3>2, <4>1 DEF SchedInv, AtWorkInv
      <4>2. CASE i = k
        BY <1>3, <1>5, <2>2, <3>2, <3>4, <4>2
      <4> QED
        BY <3>3, <3>4, <4>1, <4>2
    <3> QED
      BY <1>2, <3>2, <3>5 DEF AtWorkInv
  <2> QED
    BY <1>2, <2>1, <2>2
<1> QED
  BY <1>2, <1>6 DEF SchedInv, ScheduleInv, FailedInv

LEMMA CsReturnsInv ==
  ASSUME SchedInv, CsReturns
  PROVE  SchedInv'
<1>1. /\ csStack # <<>> /\ csStack' = SubSeq(csStack, 1, Len(csStack) - 1)
      /\ UNCHANGED <<schedule, schedJobs, csBound, csRaised>>
  BY DEF CsReturns, CsPop
<1>2. /\ csStack' \in Seq(RunRecord)
      /\ \A i \in DOMAIN csStack' : i \in DOMAIN csStack /\ csStack'[i] = csStack[i]
  BY <1>1, Popped DEF SchedInv, AtWorkInv
<1>3. AtWorkInv'
  BY <1>1, <1>2 DEF SchedInv, AtWorkInv
<1> QED
  BY <1>1, <1>3 DEF SchedInv, ScheduleInv, FailedInv

(* The error goes to the Job the run began with, by whatever name. *)
LEMMA CsRaisesInv ==
  ASSUME SchedInv, CsRaises
  PROVE  SchedInv'
<1>1. PICK j : j = CsTop.job
  OBVIOUS
<1>2. /\ csStack # <<>> /\ csStack' = SubSeq(csStack, 1, Len(csStack) - 1)
      /\ schedJobs' = [schedJobs EXCEPT ![j].failed = TRUE] /\ csRaised' = csRaised \union {j}
      /\ UNCHANGED <<schedule, csBound>>
  BY <1>1 DEF CsRaises, CsPop, CsFiled
<1>3. /\ csStack' \in Seq(RunRecord) /\ Len(csStack) \in DOMAIN csStack
      /\ \A i \in DOMAIN csStack' : i \in DOMAIN csStack /\ csStack'[i] = csStack[i]
  BY <1>2, Popped DEF SchedInv, AtWorkInv
<1>4. j \in DOMAIN schedJobs
  BY <1>1, <1>3 DEF SchedInv, AtWorkInv, CsTop
<1>5. schedJobs \in Seq(JobRecord) /\ schedJobs[j] \in JobRecord
  BY <1>4, ElementOfSeq DEF SchedInv
<1>6. PICK r : r = [schedJobs[j] EXCEPT !.failed = TRUE]
  OBVIOUS
<1>7. r \in JobRecord /\ r.name = schedJobs[j].name /\ r.failed = TRUE
  BY <1>5, <1>6 DEF JobRecord
<1>8. schedJobs' = [schedJobs EXCEPT ![j] = r]
  BY <1>2, <1>6
<1>9. /\ schedJobs' \in Seq(JobRecord) /\ DOMAIN schedJobs' = DOMAIN schedJobs /\ schedJobs'[j] = r
      /\ \A s \in DOMAIN schedJobs : s # j => schedJobs'[s] = schedJobs[s]
  BY <1>4, <1>5, <1>7, <1>8, Replaced
<1>10. \A s \in DOMAIN schedJobs : schedJobs'[s].name = schedJobs[s].name
  BY <1>7, <1>9
<1>11. ScheduleInv'
  BY <1>2, <1>9, <1>10 DEF SchedInv, ScheduleInv
<1>12. FailedInv'
  BY <1>2, <1>4, <1>7, <1>9 DEF SchedInv, FailedInv
<1>13. AtWorkInv'
  BY <1>2, <1>3, <1>9, <1>10 DEF SchedInv, AtWorkInv
<1> QED
  BY <1>2, <1>9, <1>11, <1>12, <1>13 DEF SchedInv

LEMMA SchedInitInv == CloudSchedulerInit => SchedInv
<1> SUFFICES ASSUME CloudSchedulerInit PROVE SchedInv
  OBVIOUS
<1>1. /\ schedule = [n \in {} |-> 0] /\ schedJobs = <<>> /\ csBound = {}
      /\ csStack = <<>> /\ csRaised = {}
  BY DEF CloudSchedulerInit
<1>2. /\ schedJobs \in Seq(JobRecord) /\ DOMAIN schedJobs = {}
      /\ csStack \in Seq(RunRecord) /\ DOMAIN csStack = {}
  BY <1>1
<1> QED
  BY <1>1, <1>2 DEF SchedInv, ScheduleInv, FailedInv, AtWorkInv

LEMMA SchedStepInv == SchedInv /\ [CloudSchedulerNext]_csVars => SchedInv'
<1> SUFFICES ASSUME SchedInv, [CloudSchedulerNext]_csVars PROVE SchedInv'
  OBVIOUS
<1>1. ASSUME NEW n \in CsJobs, NEW spec \in CsSpecs, CsCreateJob(n, spec) PROVE SchedInv'
  BY <1>1, CreateJobInv
<1>2. ASSUME NEW n \in CsJobs, NEW spec \in CsSpecs, CsUpdateJob(n, spec) PROVE SchedInv'
  BY <1>2, UpdateJobInv
<1>3. ASSUME NEW n \in CsJobs, NEW state \in {"PAUSED", "ENABLED"}, CsSetState(n, state)
      PROVE  SchedInv'
  BY <1>3, SetStateInv
<1>4. ASSUME NEW n \in CsJobs, CsDeleteJob(n) PROVE SchedInv'
  BY <1>4, DeleteJobInv
<1>5. ASSUME NEW n \in CsJobs, CsRegisterHandler(n) PROVE SchedInv'
  BY <1>5, CsRegisterHandlerInv
<1>6. ASSUME NEW n \in CsJobs, CsRunJob(n) PROVE SchedInv'
  BY <1>6, RunJobInv
<1>7. CASE CsReturns
  BY <1>7, CsReturnsInv
<1>8. CASE CsRaises
  BY <1>8, CsRaisesInv
<1>9. CASE UNCHANGED csVars
  <2>1. UNCHANGED <<schedule, schedJobs, csBound, csStack, csRaised>>
    BY <1>9 DEF csVars
  <2> QED
    BY <2>1 DEF SchedInv, ScheduleInv, FailedInv, AtWorkInv
<1> QED
  BY <1>1, <1>2, <1>3, <1>4, <1>5, <1>6, <1>7, <1>8, <1>9 DEF CloudSchedulerNext

LEMMA SchedInvMeans == SchedInv => CloudSchedulerTypeOK /\ SchedulerSettled
<1> SUFFICES ASSUME SchedInv PROVE CloudSchedulerTypeOK /\ SchedulerSettled
  OBVIOUS
<1>1. \A j \in DOMAIN schedJobs : schedJobs[j] \in JobRecord
  BY ElementOfSeq DEF SchedInv
<1>2. CloudSchedulerTypeOK
  BY <1>1 DEF SchedInv, ScheduleInv, AtWorkInv, CloudSchedulerTypeOK, JobRecord
<1>3. SchedulerSettled
  BY DEF SchedInv, ScheduleInv, FailedInv, AtWorkInv, SchedulerSettled
<1> QED
  BY <1>2, <1>3

(* Whatever handlers do to the jobs, a name leads to a Job created under   *)
(* it, a Job shows an error exactly if one of its own runs raised, and a   *)
(* handler is only ever at work for a Job of its name.                     *)
THEOREM SchedulerSettles == CloudSchedulerSpec => [](CloudSchedulerTypeOK /\ SchedulerSettled)
<1>1. CloudSchedulerInit => SchedInv
  BY SchedInitInv
<1>2. SchedInv /\ [CloudSchedulerNext]_csVars => SchedInv'
  BY SchedStepInv
<1>3. SchedInv => CloudSchedulerTypeOK /\ SchedulerSettled
  BY SchedInvMeans
<1> QED
  BY <1>1, <1>2, <1>3, PTL DEF CloudSchedulerSpec

------------------------------------------------------------------------------
(* Cloud Run: the inductive invariant.  That an outcome is filed under the *)
(* Job its run began with, and nowhere else, rests on numbers being drawn  *)
(* once: no number past the counter names anything (FinishedInv, the       *)
(* domain of runOps), and the number of a run at work names nothing yet    *)
(* and no other run (RunningInv).                                          *)

ExecMaps  == UNION {[S -> BOOLEAN] : S \in SUBSET Nat}
JobObject == [name : CrJobs, executions : ExecMaps]
Running   == [name : CrJobs, job : Nat, number : Nat]
Finished  == [name : CrJobs, job : Nat, number : Nat, ok : BOOLEAN, deleted : BOOLEAN]

TablesInv ==
  /\ jobObjects \in Seq(JobObject) /\ crBound \subseteq CrJobs /\ crCounter \in Nat
  /\ DOMAIN runJobs \subseteq CrJobs
  /\ \A n \in DOMAIN runJobs : runJobs[n] \in DOMAIN jobObjects
  /\ DOMAIN runOps \subseteq 1..crCounter

RunningInv ==
  /\ crStack \in Seq(Running)
  /\ \A i \in DOMAIN crStack :
       /\ crStack[i].job \in DOMAIN jobObjects
       /\ crStack[i].number \in 1..crCounter /\ crStack[i].number \notin DOMAIN runOps
       /\ \A j \in DOMAIN jobObjects : crStack[i].number \notin DOMAIN jobObjects[j].executions
       /\ \A r \in crRuns : r.number # crStack[i].number
  /\ \A i, k \in DOMAIN crStack : crStack[i].number = crStack[k].number => i = k

RunFinished(r) ==
  /\ r.job \in DOMAIN jobObjects
  /\ r.number \in 1..crCounter /\ r.number \notin DOMAIN runOps
  /\ \A j \in DOMAIN jobObjects :
       r.number \in DOMAIN jobObjects[j].executions <=> r.deleted = FALSE /\ j = r.job
  /\ r.deleted = FALSE => jobObjects[r.job].executions[r.number] = r.ok
  /\ \E o \in DOMAIN runOps : runOps[o] = <<"Execution", r.number, r.ok>>

FinishedInv == crRuns \subseteq Finished /\ \A r \in crRuns : RunFinished(r)

ListedInv ==
  \A j \in DOMAIN jobObjects : \A e \in DOMAIN jobObjects[j].executions :
    \E r \in crRuns : r.number = e /\ r.job = j

RunInv == TablesInv /\ RunningInv /\ FinishedInv /\ ListedInv

(* Operations are filed under a number of their own. *)
LEMMA OperationFiled ==
  ASSUME RunInv, NEW c \in Nat, crCounter <= c, NEW resource, CrOperation(c, resource)
  PROVE  /\ crCounter' = c + 1 /\ crCounter' \in Nat /\ c + 1 > crCounter
         /\ DOMAIN runOps' = DOMAIN runOps \union {c + 1} /\ runOps'[c + 1] = resource
         /\ \A o \in DOMAIN runOps : runOps'[o] = runOps[o]
         /\ DOMAIN runOps' \subseteq 1..crCounter'
         /\ \A m \in 1..crCounter : m \in 1..crCounter' /\ m # c + 1
<1>1. PICK k : k = c + 1
  OBVIOUS
<1>2. crCounter' = k /\ runOps' = CrWith(runOps, k, resource)
  BY <1>1 DEF CrOperation
<1>3. crCounter \in Nat /\ DOMAIN runOps \subseteq 1..crCounter
  BY DEF RunInv, TablesInv
<1>4. /\ k \in Nat /\ k > crCounter /\ k \in 1..k
      /\ \A m \in 1..crCounter : m \in 1..k /\ m # k
  BY <1>1, <1>3
<1>5. /\ DOMAIN runOps' = DOMAIN runOps \union {k} /\ runOps'[k] = resource
      /\ \A o \in DOMAIN runOps : o # k => runOps'[o] = runOps[o]
  BY <1>2 DEF CrWith
<1>6. \A o \in DOMAIN runOps : o # k
  BY <1>3, <1>4
<1> QED
  BY <1>1, <1>2, <1>3, <1>4, <1>5, <1>6

(* A call that files an operation and touches no execution. *)
LEMMA OperationOnly ==
  ASSUME RunInv, NEW resource, CrOperation(crCounter, resource),
         jobObjects' \in Seq(JobObject), DOMAIN jobObjects \subseteq DOMAIN jobObjects',
         \A j \in DOMAIN jobObjects : jobObjects'[j] = jobObjects[j],
         \A j \in DOMAIN jobObjects' :
           j \notin DOMAIN jobObjects => DOMAIN jobObjects'[j].executions = {},
         DOMAIN runJobs' \subseteq CrJobs,
         \A n \in DOMAIN runJobs' : runJobs'[n] \in DOMAIN jobObjects',
         UNCHANGED <<crBound, crStack, crRuns>>
  PROVE  RunInv'
<1>0. crCounter \in Nat /\ crCounter <= crCounter
  BY DEF RunInv, TablesInv
<1>1. /\ crCounter' = crCounter + 1 /\ crCounter' \in Nat
      /\ DOMAIN runOps' = DOMAIN runOps \union {crCounter + 1}
      /\ \A o \in DOMAIN runOps : runOps'[o] = runOps[o]
      /\ DOMAIN runOps' \subseteq 1..crCounter'
      /\ \A m \in 1..crCounter : m \in 1..crCounter' /\ m # crCounter + 1
  BY <1>0, OperationFiled
<1>2. TablesInv'
  BY <1>1 DEF RunInv, TablesInv
<1>3. RunningInv'
  <2>1. ASSUME NEW i \in DOMAIN crStack
        PROVE  /\ crStack[i].job \in DOMAIN jobObjects'
               /\ crStack[i].number \in 1..crCounter' /\ crStack[i].number \notin DOMAIN runOps'
               /\ \A j \in DOMAIN jobObjects' :
                    crStack[i].number \notin DOMAIN jobObjects'[j].executions
               /\ \A r \in crRuns : r.number # crStack[i].number
    BY <1>1 DEF RunInv, RunningInv
  <2> QED
    BY <2>1 DEF RunInv, RunningInv
<1>4. FinishedInv'
  <2>1. ASSUME NEW r \in crRuns
        PROVE  /\ r.job \in DOMAIN jobObjects'
               /\ r.number \in 1..crCounter' /\ r.number \notin DOMAIN runOps'
    BY <1>1 DEF RunInv, FinishedInv, RunFinished
  <2>2. ASSUME NEW r \in crRuns
        PROVE  /\ \A j \in DOMAIN jobObjects' :
                    r.number \in DOMAIN jobObjects'[j].executions <=> r.deleted = FALSE /\ j = r.job
               /\ r.deleted = FALSE => jobObjects'[r.job].executions[r.number] = r.ok
    BY DEF RunInv, FinishedInv, RunFinished
  <2>3. ASSUME NEW r \in crRuns
        PROVE  \E o \in DOMAIN runOps' : runOps'[o] = <<"Execution", r.number, r.ok>>
    <3>1. PICK o \in DOMAIN runOps : runOps[o] = <<"Execution", r.number, r.ok>>
      BY DEF RunInv, FinishedInv, RunFinished
    <3> QED
      BY <1>1, <3>1
  <2> QED
    BY <2>1, <2>2, <2>3 DEF RunInv, FinishedInv, RunFinished
<1>5. ListedInv'
  BY DEF RunInv, ListedInv
<1> QED
  BY <1>2, <1>3, <1>4, <1>5 DEF RunInv

LEMMA CrCreateJobInv ==
  ASSUME RunInv, NEW n \in CrJobs, CrCreateJob(n)
  PROVE  RunInv'
<1>1. PICK k : k = Len(jobObjects) + 1
  OBVIOUS
<1>2. PICK job : job = CrJob(n)
  OBVIOUS
<1>3. /\ jobObjects' = Append(jobObjects, job) /\ n \notin DOMAIN runJobs
      /\ runJobs' = CrWith(runJobs, n, Len(jobObjects'))
      /\ CrOperation(crCounter, <<"Job", Len(jobObjects')>>)
      /\ UNCHANGED <<crBound, crStack, crRuns>>
  BY <1>2 DEF CrCreateJob
<1>4. job \in JobObject /\ DOMAIN job.executions = {}
  <2>1. PICK none : none = [e \in {} |-> TRUE]
    OBVIOUS
  <2>2. none \in [{} -> BOOLEAN] /\ {} \in SUBSET Nat
    BY <2>1
  <2>3. none \in ExecMaps
    BY <2>2 DEF ExecMaps
  <2>4. job = [name |-> n, executions |-> none]
    BY <1>2, <2>1 DEF CrJob
  <2> QED
    BY <2>2, <2>3, <2>4 DEF JobObject
<1>5. /\ jobObjects' \in Seq(JobObject) /\ Len(jobObjects') = k /\ jobObjects'[k] = job
      /\ DOMAIN jobObjects' = DOMAIN jobObjects \union {k}
      /\ \A j \in DOMAIN jobObjects : jobObjects'[j] = jobObjects[j]
  <2>1. /\ jobObjects \in Seq(JobObject) /\ Len(jobObjects) \in Nat
        /\ DOMAIN jobObjects = 1..Len(jobObjects)
    BY LenProperties DEF RunInv, TablesInv
  <2>2. /\ jobObjects' \in Seq(JobObject) /\ Len(jobObjects') = k /\ jobObjects'[k] = job
        /\ \A s \in 1..Len(jobObjects) : jobObjects'[s] = jobObjects[s]
    BY <1>1, <1>3, <1>4, <2>1, AppendProperties
  <2>3. DOMAIN jobObjects' = 1..k
    BY <2>2, LenProperties
  <2> QED
    BY <1>1, <2>1, <2>2, <2>3
<1>6. DOMAIN runJobs' \subseteq CrJobs /\ \A m \in DOMAIN runJobs' : runJobs'[m] \in DOMAIN jobObjects'
  <2>1. DOMAIN runJobs' = DOMAIN runJobs \union {n}
    BY <1>3 DEF CrWith
  <2>2. \A m \in DOMAIN runJobs' : runJobs'[m] = IF m = n THEN k ELSE runJobs[m]
    BY <1>3, <1>5 DEF CrWith
  <2> QED
    BY <1>5, <2>1, <2>2 DEF RunInv, TablesInv
<1> QED
  BY <1>3, <1>4, <1>5, <1>6, OperationOnly

LEMMA CrDeleteJobInv ==
  ASSUME RunInv, NEW n \in CrJobs, CrDeleteJob(n)
  PROVE  RunInv'
<1>1. /\ n \in DOMAIN runJobs /\ runJobs' = CrDrop(runJobs, n)
      /\ CrOperation(crCounter, <<"Job", runJobs[n]>>)
      /\ UNCHANGED <<jobObjects, crBound, crStack, crRuns>>
  BY DEF CrDeleteJob
<1>2. /\ jobObjects' \in Seq(JobObject) /\ DOMAIN runJobs' \subseteq CrJobs
      /\ \A m \in DOMAIN runJobs' : runJobs'[m] \in DOMAIN jobObjects'
  BY <1>1 DEF RunInv, TablesInv, CrDrop
<1> QED
  BY <1>1, <1>2, OperationOnly

LEMMA CrRegisterHandlerInv ==
  ASSUME RunInv, NEW n \in CrJobs, CrRegisterHandler(n)
  PROVE  RunInv'
<1>1. /\ crBound' = crBound \union {n}
      /\ UNCHANGED <<runJobs, jobObjects, runOps, crCounter, crStack, crRuns>>
  BY DEF CrRegisterHandler
<1>2. TablesInv'
  BY <1>1 DEF RunInv, TablesInv
<1> QED
  BY <1>1, <1>2 DEF RunInv, RunningInv, FinishedInv, RunFinished, ListedInv

(* A number just drawn names nothing. *)
LEMMA NumberFresh ==
  ASSUME RunInv
  PROVE  /\ crCounter \in Nat /\ crCounter + 1 \in Nat
         /\ crCounter + 1 \notin DOMAIN runOps
         /\ \A j \in DOMAIN jobObjects : crCounter + 1 \notin DOMAIN jobObjects[j].executions
         /\ \A r \in crRuns : r.number # crCounter + 1
         /\ \A i \in DOMAIN crStack : crStack[i].number # crCounter + 1
<1>1. crCounter \in Nat /\ DOMAIN runOps \subseteq 1..crCounter
  BY DEF RunInv, TablesInv
<1>2. PICK k : k = crCounter + 1
  OBVIOUS
<1>3. k \in Nat /\ \A m \in 1..crCounter : m # k
  BY <1>1, <1>2
<1>4. \A r \in crRuns : r.number # k
  BY <1>3 DEF RunInv, FinishedInv, RunFinished
<1>5. \A i \in DOMAIN crStack : crStack[i].number # k
  BY <1>3 DEF RunInv, RunningInv
<1>6. \A j \in DOMAIN jobObjects : k \notin DOMAIN jobObjects[j].executions
  BY <1>4 DEF RunInv, ListedInv
<1> QED
  BY <1>1, <1>2, <1>3, <1>4, <1>5, <1>6

(* run_job, up to a handler: the run takes a number nothing has. *)
LEMMA RunStarts ==
  ASSUME RunInv, NEW run \in Running, run.job \in DOMAIN jobObjects,
         run.number = crCounter + 1, crStack' = Append(crStack, run),
         crCounter' = crCounter + 1, UNCHANGED <<runJobs, jobObjects, runOps, crBound, crRuns>>
  PROVE  RunInv'
<1>1. /\ crCounter \in Nat /\ crCounter' \in Nat /\ run.number \in 1..crCounter'
      /\ \A m \in 1..crCounter : m \in 1..crCounter'
  BY NumberFresh
<1>2. TablesInv'
  BY <1>1 DEF RunInv, TablesInv
<1>3. FinishedInv' /\ ListedInv'
  BY <1>1 DEF RunInv, FinishedInv, RunFinished, ListedInv
<1>4. RunningInv'
  <2>1. crStack \in Seq(Running) /\ Len(crStack) \in Nat /\ DOMAIN crStack = 1..Len(crStack)
    BY LenProperties DEF RunInv, RunningInv
  <2>2. PICK k : k = Len(crStack) + 1
    OBVIOUS
  <2>3. /\ crStack' \in Seq(Running) /\ Len(crStack') = k /\ crStack'[k] = run
        /\ \A i \in DOMAIN crStack : crStack'[i] = crStack[i]
    BY <2>1, <2>2, AppendProperties
  <2>4. \A i \in DOMAIN crStack' : i \in DOMAIN crStack \/ i = k
    BY <2>1, <2>2, <2>3, LenProperties
  <2>5. ASSUME NEW i \in DOMAIN crStack
        PROVE  /\ crStack[i].job \in DOMAIN jobObjects
               /\ crStack[i].number \in 1..crCounter' /\ crStack[i].number \notin DOMAIN runOps
               /\ \A j \in DOMAIN jobObjects : crStack[i].number \notin DOMAIN jobObjects[j].executions
               /\ \A r \in crRuns : r.number # crStack[i].number
               /\ crStack[i].number # run.number
    BY <1>1, NumberFresh DEF RunInv, RunningInv
  <2>6. /\ run.number \in 1..crCounter' /\ run.number \notin DOMAIN runOps
        /\ \A j \in DOMAIN jobObjects : run.number \notin DOMAIN jobObjects[j].executions
        /\ \A r \in crRuns : r.number # run.number
    BY <1>1, NumberFresh
  <2>7. ASSUME NEW i \in DOMAIN crStack'
        PROVE  /\ crStack'[i].job \in DOMAIN jobObjects
               /\ crStack'[i].number \in 1..crCounter' /\ crStack'[i].number \notin DOMAIN runOps
               /\ \A j \in DOMAIN jobObjects : crStack'[i].number \notin DOMAIN jobObjects[j].executions
               /\ \A r \in crRuns : r.number # crStack'[i].number
    <3>1. CASE i \in DOMAIN crStack
      BY <2>3, <2>5, <3>1
    <3>2. CASE i = k
      BY <2>3, <2>6, <3>2
    <3> QED
      BY <2>4, <3>1, <3>2
  <2>8. ASSUME NEW i \in DOMAIN crStack', NEW j \in DOMAIN crStack',
               crStack'[i].number = crStack'[j].number
        PROVE  i = j
    <3>1. CASE i \in DOMAIN crStack /\ j \in DOMAIN crStack
      BY <2>3, <2>8, <3>1 DEF RunInv, RunningInv
    <3>2. CASE i \in DOMAIN crStack /\ j = k
      BY <2>3, <2>5, <2>8, <3>2
    <3>3. CASE i = k /\ j \in DOMAIN crStack
      BY <2>3, <2>5, <2>8, <3>3
    <3> QED
      BY <2>4, <3>1, <3>2, <3>3
  <2> QED
    BY <2>3, <2>7, <2>8 DEF RunningInv
<1> QED
  BY <1>2, <1>3, <1>4 DEF RunInv

(* The end of a run whose number names nothing but the run: the outcome    *)
(* goes under the Job it began with, the operation under the next number.  *)
LEMMA RunEnds ==
  ASSUME RunInv, NEW run \in Running, NEW c \in Nat, NEW ok \in BOOLEAN,
         run.job \in DOMAIN jobObjects, crCounter <= c, run.number \in 1..c,
         run.number \notin DOMAIN runOps,
         \A j \in DOMAIN jobObjects : run.number \notin DOMAIN jobObjects[j].executions,
         \A r \in crRuns : r.number # run.number,
         CrFinish(run, c, ok), crStack' \in Seq(Running),
         \A i \in DOMAIN crStack' :
           /\ i \in DOMAIN crStack /\ crStack'[i] = crStack[i]
           /\ crStack[i].number # run.number,
         UNCHANGED <<runJobs, crBound>>
  PROVE  RunInv'
<1>1. PICK j : j = run.job
  OBVIOUS
<1>2. PICK done : done = [name |-> run.name, job |-> run.job, number |-> run.number,
                          ok |-> ok, deleted |-> FALSE]
  OBVIOUS
<1>3. /\ jobObjects' = [jobObjects EXCEPT ![j].executions = CrWith(@, run.number, ok)]
      /\ CrOperation(c, <<"Execution", run.number, ok>>) /\ crRuns' = crRuns \union {done}
  BY <1>1, <1>2 DEF CrFinish, CrFiled
<1>4. /\ run.name \in CrJobs /\ run.job \in Nat /\ run.number \in Nat
      /\ done \in Finished /\ done.job = j /\ done.number = run.number
      /\ done.ok = ok /\ done.deleted = FALSE
  BY <1>1, <1>2 DEF Running, Finished
<1>5. /\ crCounter' = c + 1 /\ crCounter' \in Nat
      /\ DOMAIN runOps' = DOMAIN runOps \union {c + 1}
      /\ runOps'[c + 1] = <<"Execution", run.number, ok>>
      /\ \A o \in DOMAIN runOps : runOps'[o] = runOps[o]
      /\ DOMAIN runOps' \subseteq 1..crCounter'
      /\ \A m \in 1..crCounter : m \in 1..crCounter' /\ m # c + 1
  BY <1>3, OperationFiled
<1>6. run.number \in 1..crCounter' /\ run.number # c + 1
  BY <1>5
<1>7. j \in DOMAIN jobObjects /\ jobObjects \in Seq(JobObject) /\ jobObjects[j] \in JobObject
  BY <1>1, ElementOfSeq DEF RunInv, TablesInv
<1>8. PICK f, now : /\ f = CrWith(jobObjects[j].executions, run.number, ok)
                    /\ now = [jobObjects[j] EXCEPT !.executions = f]
  OBVIOUS
<1>9. /\ now \in JobObject
      /\ DOMAIN now.executions = DOMAIN jobObjects[j].executions \union {run.number}
      /\ now.executions[run.number] = ok
      /\ \A m \in DOMAIN jobObjects[j].executions :
           m # run.number => now.executions[m] = jobObjects[j].executions[m]
  <2>1. PICK S \in SUBSET Nat : jobObjects[j].executions \in [S -> BOOLEAN]
    BY <1>7 DEF JobObject, ExecMaps
  <2>2. PICK T : T = S \union {run.number}
    OBVIOUS
  <2>3. T \in SUBSET Nat /\ f \in [T -> BOOLEAN]
    BY <1>4, <1>8, <2>1, <2>2 DEF CrWith
  <2>4. f \in ExecMaps
    BY <2>3 DEF ExecMaps
  <2>5. now \in JobObject /\ now.executions = f
    BY <1>7, <1>8, <2>4 DEF JobObject
  <2> QED
    BY <1>8, <2>5 DEF CrWith
<1>10. jobObjects' = [jobObjects EXCEPT ![j] = now]
  BY <1>3, <1>8
<1>11. /\ jobObjects' \in Seq(JobObject) /\ DOMAIN jobObjects' = DOMAIN jobObjects
       /\ jobObjects'[j] = now
       /\ \A s \in DOMAIN jobObjects : s # j => jobObjects'[s] = jobObjects[s]
  BY <1>7, <1>9, <1>10, Replaced
<1>12. \A s \in DOMAIN jobObjects : \A m : m # run.number =>
         /\ m \in DOMAIN jobObjects'[s].executions <=> m \in DOMAIN jobObjects[s].executions
         /\ m \in DOMAIN jobObjects[s].executions =>
              jobObjects'[s].executions[m] = jobObjects[s].executions[m]
  BY <1>9, <1>11
<1>13. \A s \in DOMAIN jobObjects : run.number \in DOMAIN jobObjects'[s].executions <=> s = j
  BY <1>9, <1>11
<1>14. TablesInv'
  BY <1>5, <1>11 DEF RunInv, TablesInv
<1>15. RunningInv'
  <2>1. ASSUME NEW i \in DOMAIN crStack'
        PROVE  /\ crStack'[i].job \in DOMAIN jobObjects'
               /\ crStack'[i].number \in 1..crCounter' /\ crStack'[i].number \notin DOMAIN runOps'
               /\ \A s \in DOMAIN jobObjects' : crStack'[i].number \notin DOMAIN jobObjects'[s].executions
               /\ \A r \in crRuns' : r.number # crStack'[i].number
    <3>1. PICK w : w = crStack[i]
      OBVIOUS
    <3>2. /\ crStack'[i] = w /\ w.number # run.number
          /\ w.job \in DOMAIN jobObjects /\ w.number \in 1..crCounter
          /\ w.number \notin DOMAIN runOps
          /\ \A s \in DOMAIN jobObjects : w.number \notin DOMAIN jobObjects[s].executions
          /\ \A r \in crRuns : r.number # w.number
      BY <3>1 DEF RunInv, RunningInv
    <3>3. \A s \in DOMAIN jobObjects' : w.number \notin DOMAIN jobObjects'[s].executions
      BY <1>11, <1>12, <3>2
    <3> QED
      BY <1>3, <1>4, <1>5, <1>11, <3>2, <3>3
  <2>2. \A i, k \in DOMAIN crStack' : crStack'[i].number = crStack'[k].number => i = k
    BY DEF RunInv, RunningInv
  <2> QED
    BY <2>1, <2>2 DEF RunningInv
<1>16. FinishedInv'
  <2>1. ASSUME NEW r \in crRuns
        PROVE  RunFinished(r)'
    <3>1. /\ r.job \in DOMAIN jobObjects /\ r.number \in 1..crCounter
          /\ r.number \notin DOMAIN runOps /\ r.number # run.number
          /\ \A s \in DOMAIN jobObjects :
               r.number \in DOMAIN jobObjects[s].executions <=> r.deleted = FALSE /\ s = r.job
          /\ r.deleted = FALSE => jobObjects[r.job].executions[r.number] = r.ok
      BY DEF RunInv, FinishedInv, RunFinished
    <3>2. PICK o \in DOMAIN runOps : runOps[o] = <<"Execution", r.number, r.ok>>
      BY DEF RunInv, FinishedInv, RunFinished
    <3>3. o \in DOMAIN runOps' /\ runOps'[o] = <<"Execution", r.number, r.ok>>
      BY <1>5, <3>2
    <3>4. \A s \in DOMAIN jobObjects' :
            r.number \in DOMAIN jobObjects'[s].executions <=> r.deleted = FALSE /\ s = r.job
      BY <1>11, <1>12, <3>1
    <3>5. r.deleted = FALSE => jobObjects'[r.job].executions[r.number] = r.ok
      BY <1>12, <3>1
    <3> QED
      BY <1>5, <1>11, <3>1, <3>3, <3>4, <3>5 DEF RunFinished
  <2>2. RunFinished(done)'
    <3>1. runOps'[c + 1] = <<"Execution", done.number, done.ok>> /\ c + 1 \in DOMAIN runOps'
      BY <1>4, <1>5
    <3>2. \A s \in DOMAIN jobObjects' :
            done.number \in DOMAIN jobObjects'[s].executions <=> done.deleted = FALSE /\ s = done.job
      BY <1>4, <1>11, <1>13
    <3>3. jobObjects'[done.job].executions[done.number] = done.ok
      BY <1>4, <1>9, <1>11
    <3> QED
      BY <1>4, <1>5, <1>6, <1>7, <1>11, <3>1, <3>2, <3>3 DEF RunFinished
  <2>3. crRuns' \subseteq Finished
    BY <1>3, <1>4 DEF RunInv, FinishedInv, RunFinished
  <2> QED
    BY <1>3, <2>1, <2>2, <2>3 DEF FinishedInv
<1>17. ListedInv'
  <2>1. ASSUME NEW s \in DOMAIN jobObjects', NEW e \in DOMAIN jobObjects'[s].executions
        PROVE  \E r \in crRuns' : r.number = e /\ r.job = s
    <3>1. CASE e = run.number
      BY <1>3, <1>4, <1>11, <1>13, <3>1
    <3>2. CASE e # run.number
      <4>1. s \in DOMAIN jobObjects /\ e \in DOMAIN jobObjects[s].executions
        BY <1>11, <1>12, <3>2
      <4>2. PICK r \in crRuns : r.number = e /\ r.job = s
        BY <4>1 DEF RunInv, ListedInv
      <4> QED
        BY <1>3, <4>2
    <3> QED
      BY <3>1, <3>2
  <2> QED
    BY <2>1 DEF ListedInv
<1> QED
  BY <1>14, <1>15, <1>16, <1>17 DEF RunInv

LEMMA CrRunJobInv ==
  ASSUME RunInv, NEW n \in CrJobs, CrRunJob(n)
  PROVE  RunInv'
<1>1. PICK run, c : run = CrExecution(n, crCounter + 1) /\ c = crCounter + 1
  OBVIOUS
<1>2. n \in DOMAIN runJobs /\ UNCHANGED <<runJobs, crBound>>
  BY DEF CrRunJob
<1>3. runJobs[n] \in DOMAIN jobObjects /\ runJobs[n] \in Nat
  BY <1>2, LenProperties DEF RunInv, TablesInv
<1>4. run \in Running /\ run.job = runJobs[n] /\ run.number = crCounter + 1
  BY <1>1, <1>3, NumberFresh DEF CrExecution, Running
<1>5. CASE n \in crBound
  <2>1. /\ crStack' = Append(crStack, run) /\ crCounter' = crCounter + 1
        /\ UNCHANGED <<runJobs, jobObjects, runOps, crBound, crRuns>>
    BY <1>1, <1>5 DEF CrRunJob
  <2> QED
    BY <1>3, <1>4, <2>1, RunStarts
<1>6. CASE n \notin crBound
  <2>1. CrFinish(run, c, TRUE) /\ crStack' = crStack
    BY <1>1, <1>6 DEF CrRunJob
  <2>2. /\ c \in Nat /\ crCounter <= c /\ run.number \in 1..c /\ run.number \notin DOMAIN runOps
        /\ \A j \in DOMAIN jobObjects : run.number \notin DOMAIN jobObjects[j].executions
        /\ \A r \in crRuns : r.number # run.number
    BY <1>1, <1>4, NumberFresh
  <2>3. \A i \in DOMAIN crStack : crStack[i].number # run.number
    BY <1>4, NumberFresh
  <2>4. crStack \in Seq(Running)
    BY DEF RunInv, RunningInv
  <2> QED
    BY <1>2, <1>3, <1>4, <2>1, <2>2, <2>3, <2>4, RunEnds
<1> QED
  BY <1>5, <1>6

LEMMA CrHandlerDoneInv ==
  ASSUME RunInv, NEW ok \in BOOLEAN, CrHandlerDone(ok)
  PROVE  RunInv'
<1>1. PICK run : run = crStack[Len(crStack)]
  OBVIOUS
<1>2. PICK c : c = crCounter
  OBVIOUS
<1>3. /\ crStack # <<>> /\ crStack' = SubSeq(crStack, 1, Len(crStack) - 1)
      /\ CrFinish(run, c, ok) /\ UNCHANGED <<runJobs, crBound>>
  BY <1>1, <1>2 DEF CrHandlerDone
<1>4. /\ run \in Running /\ Len(crStack) \in DOMAIN crStack /\ crStack' \in Seq(Running)
      /\ \A i \in DOMAIN crStack' :
           i \in DOMAIN crStack /\ i # Len(crStack) /\ crStack'[i] = crStack[i]
  BY <1>1, <1>3, Popped DEF RunInv, RunningInv
<1>5. \A i \in DOMAIN crStack' : crStack[i].number # run.number
  BY <1>1, <1>4 DEF RunInv, RunningInv
<1>6. /\ run.job \in DOMAIN jobObjects /\ run.number \in 1..c /\ run.number \notin DOMAIN runOps
      /\ \A j \in DOMAIN jobObjects : run.number \notin DOMAIN jobObjects[j].executions
      /\ \A r \in crRuns : r.number # run.number
  BY <1>1, <1>2, <1>4 DEF RunInv, RunningInv
<1>7. c \in Nat /\ crCounter <= c
  BY <1>2 DEF RunInv, TablesInv
<1> QED
  BY <1>3, <1>4, <1>5, <1>6, <1>7, RunEnds

LEMMA CrDeleteExecutionInv ==
  ASSUME RunInv, NEW n \in CrJobs, NEW e \in 1..crCounter, CrDeleteExecution(n, e)
  PROVE  RunInv'
<1>1. PICK j : j = runJobs[n]
  OBVIOUS
<1>2. PICK f, now : /\ f = CrDrop(jobObjects[j].executions, e)
                    /\ now = [jobObjects[j] EXCEPT !.executions = f]
  OBVIOUS
<1>3. /\ n \in DOMAIN runJobs /\ e \in DOMAIN jobObjects[j].executions
      /\ CrOperation(crCounter, <<"Execution", e, jobObjects[j].executions[e]>>)
      /\ jobObjects' = [jobObjects EXCEPT ![j] = now]
      /\ crRuns' = {[r EXCEPT !.deleted = r.deleted \/ r.number = e] : r \in crRuns}
      /\ UNCHANGED <<runJobs, crBound, crStack>>
  BY <1>1, <1>2 DEF CrDeleteExecution
<1>4. crCounter \in Nat /\ crCounter <= crCounter
  BY DEF RunInv, TablesInv
<1>5. /\ crCounter' = crCounter + 1 /\ crCounter' \in Nat
      /\ DOMAIN runOps' = DOMAIN runOps \union {crCounter + 1}
      /\ \A o \in DOMAIN runOps : runOps'[o] = runOps[o]
      /\ DOMAIN runOps' \subseteq 1..crCounter'
      /\ \A m \in 1..crCounter : m \in 1..crCounter' /\ m # crCounter + 1
  BY <1>3, <1>4, OperationFiled
<1>6. j \in DOMAIN jobObjects /\ jobObjects \in Seq(JobObject) /\ jobObjects[j] \in JobObject
  BY <1>1, <1>3, ElementOfSeq DEF RunInv, TablesInv
<1>7. /\ now \in JobObject /\ DOMAIN now.executions = DOMAIN jobObjects[j].executions \ {e}
      /\ \A m \in DOMAIN jobObjects[j].executions :
           m # e => now.executions[m] = jobObjects[j].executions[m]
  <2>1. PICK S \in SUBSET Nat : jobObjects[j].executions \in [S -> BOOLEAN]
    BY <1>6 DEF JobObject, ExecMaps
  <2>2. PICK T : T = S \ {e}
    OBVIOUS
  <2>3. T \in SUBSET Nat /\ f \in [T -> BOOLEAN]
    BY <1>2, <2>1, <2>2 DEF CrDrop
  <2>4. f \in ExecMaps
    BY <2>3 DEF ExecMaps
  <2>5. now \in JobObject /\ now.executions = f
    BY <1>2, <1>6, <2>4 DEF JobObject
  <2> QED
    BY <1>2, <2>5 DEF CrDrop
<1>8. /\ jobObjects' \in Seq(JobObject) /\ DOMAIN jobObjects' = DOMAIN jobObjects
      /\ jobObjects'[j] = now
      /\ \A s \in DOMAIN jobObjects : s # j => jobObjects'[s] = jobObjects[s]
  BY <1>3, <1>6, <1>7, Replaced
<1>9. \A s \in DOMAIN jobObjects : \A m : m # e =>
        /\ m \in DOMAIN jobObjects'[s].executions <=> m \in DOMAIN jobObjects[s].executions
        /\ m \in DOMAIN jobObjects[s].executions =>
             jobObjects'[s].executions[m] = jobObjects[s].executions[m]
  BY <1>7, <1>8
<1>10. \A s \in DOMAIN jobObjects : \A m \in DOMAIN jobObjects'[s].executions :
         m \in DOMAIN jobObjects[s].executions
  BY <1>7, <1>8

(* The execution is listed under its own Job only, so nowhere any more. *)
<1>11. \A s \in DOMAIN jobObjects : e \notin DOMAIN jobObjects'[s].executions
  <2>1. PICK r \in crRuns : r.number = e /\ r.job = j
    BY <1>3, <1>6 DEF RunInv, ListedInv
  <2>2. RunFinished(r)
    BY DEF RunInv, FinishedInv
  <2>3. \A s \in DOMAIN jobObjects : e \in DOMAIN jobObjects[s].executions => s = j
    BY <2>1, <2>2 DEF RunFinished
  <2> QED
    BY <1>7, <1>8, <2>3
<1>12. TablesInv'
  BY <1>3, <1>5, <1>8 DEF RunInv, TablesInv
<1>13. ASSUME NEW r \in crRuns
       PROVE  LET now2 == [r EXCEPT !.deleted = r.deleted \/ r.number = e]
              IN /\ now2 \in Finished /\ now2.job = r.job /\ now2.number = r.number
                 /\ now2.ok = r.ok
                 /\ now2.deleted = FALSE <=> r.deleted = FALSE /\ r.number # e
  BY DEF RunInv, FinishedInv, Finished
<1>14. ASSUME NEW d \in crRuns'
       PROVE  \E r \in crRuns :
                /\ d \in Finished /\ d.job = r.job /\ d.number = r.number /\ d.ok = r.ok
                /\ d.deleted = FALSE <=> r.deleted = FALSE /\ r.number # e
  <2>1. PICK r \in crRuns : d = [r EXCEPT !.deleted = r.deleted \/ r.number = e]
    BY <1>3
  <2>2. r \in Finished
    BY DEF RunInv, FinishedInv
  <2> QED
    BY <2>1, <2>2 DEF Finished
<1>15. RunningInv'
  <2>1. ASSUME NEW i \in DOMAIN crStack
        PROVE  /\ crStack[i].job \in DOMAIN jobObjects'
               /\ crStack[i].number \in 1..crCounter' /\ crStack[i].number \notin DOMAIN runOps'
               /\ \A s \in DOMAIN jobObjects' : crStack[i].number \notin DOMAIN jobObjects'[s].executions
    BY <1>5, <1>8, <1>10 DEF RunInv, RunningInv
  <2>2. ASSUME NEW i \in DOMAIN crStack, NEW d \in crRuns'
        PROVE  d.number # crStack[i].number
    BY <1>14 DEF RunInv, RunningInv
  <2> QED
    BY <1>3, <2>1, <2>2 DEF RunInv, RunningInv
<1>16. FinishedInv'
  <2>1. ASSUME NEW d \in crRuns'
        PROVE  d \in Finished /\ RunFinished(d)'
    <3>1. PICK r \in crRuns :
            /\ d \in Finished /\ d.job = r.job /\ d.number = r.number /\ d.ok = r.ok
            /\ d.deleted = FALSE <=> r.deleted = FALSE /\ r.number # e
      BY <1>14
    <3>2. RunFinished(r)
      BY DEF RunInv, FinishedInv
    <3>3. PICK o \in DOMAIN runOps : runOps[o] = <<"Execution", r.number, r.ok>>
      BY <3>2 DEF RunFinished
    <3>4. \E p \in DOMAIN runOps' : runOps'[p] = <<"Execution", d.number, d.ok>>
      BY <1>5, <3>1, <3>3
    <3>5. \A s \in DOMAIN jobObjects' :
            d.number \in DOMAIN jobObjects'[s].executions <=> d.deleted = FALSE /\ s = d.job
      BY <1>8, <1>9, <1>11, <3>1, <3>2 DEF RunFinished
    <3>6. d.deleted = FALSE => jobObjects'[d.job].executions[d.number] = d.ok
      <4>1. SUFFICES ASSUME d.deleted = FALSE PROVE jobObjects'[d.job].executions[d.number] = d.ok
        OBVIOUS
      <4>2. /\ r.deleted = FALSE /\ r.number # e /\ r.job \in DOMAIN jobObjects
            /\ r.number \in DOMAIN jobObjects[r.job].executions
            /\ jobObjects[r.job].executions[r.number] = r.ok
        BY <3>1, <3>2, <4>1 DEF RunFinished
      <4> QED
        BY <1>9, <3>1, <4>2
    <3>7. /\ d.job \in DOMAIN jobObjects' /\ d.number \in 1..crCounter'
          /\ d.number \notin DOMAIN runOps'
      BY <1>5, <1>8, <3>1, <3>2 DEF RunFinished
    <3> QED
      BY <3>1, <3>4, <3>5, <3>6, <3>7 DEF RunFinished
  <2> QED
    BY <2>1 DEF FinishedInv
<1>17. ListedInv'
  <2>1. ASSUME NEW s \in DOMAIN jobObjects', NEW m \in DOMAIN jobObjects'[s].executions
        PROVE  \E d \in crRuns' : d.number = m /\ d.job = s
    <3>1. s \in DOMAIN jobObjects /\ m \in DOMAIN jobObjects[s].executions
      BY <1>8, <1>10
    <3>2. PICK r \in crRuns : r.number = m /\ r.job = s
      BY <3>1 DEF RunInv, ListedInv
    <3>3. PICK d : d = [r EXCEPT !.deleted = r.deleted \/ r.number = e]
      OBVIOUS
    <3>4. d \in crRuns'
      BY <1>3, <3>3
    <3>5. d.number = r.number /\ d.job = r.job
      BY <1>13, <3>3
    <3> QED
      BY <3>2, <3>4, <3>5
  <2> QED
    BY <2>1 DEF ListedInv
<1> QED
  BY <1>12, <1>15, <1>16, <1>17 DEF RunInv

LEMMA RunInitInv == CloudRunInit => RunInv
<1> SUFFICES ASSUME CloudRunInit PROVE RunInv
  OBVIOUS
<1>1. /\ runJobs = [n \in {} |-> 0] /\ jobObjects = <<>> /\ runOps = [n \in {} |-> 0]
      /\ crBound = {} /\ crCounter = 0 /\ crStack = <<>> /\ crRuns = {}
  BY DEF CloudRunInit
<1>2. /\ jobObjects \in Seq(JobObject) /\ DOMAIN jobObjects = {}
      /\ crStack \in Seq(Running) /\ DOMAIN crStack = {}
  BY <1>1
<1> QED
  BY <1>1, <1>2 DEF RunInv, TablesInv, RunningInv, FinishedInv, ListedInv

LEMMA RunStepInv == RunInv /\ [CloudRunNext]_crVars => RunInv'
<1> SUFFICES ASSUME RunInv, [CloudRunNext]_crVars PROVE RunInv'
  OBVIOUS
<1>1. ASSUME NEW n \in CrJobs, CrCreateJob(n) PROVE RunInv'
  BY <1>1, CrCreateJobInv
<1>2. ASSUME NEW n \in CrJobs, CrDeleteJob(n) PROVE RunInv'
  BY <1>2, CrDeleteJobInv
<1>3. ASSUME NEW n \in CrJobs, CrRegisterHandler(n) PROVE RunInv'
  BY <1>3, CrRegisterHandlerInv
<1>4. ASSUME NEW n \in CrJobs, CrRunJob(n) PROVE RunInv'
  BY <1>4, CrRunJobInv
<1>5. ASSUME NEW n \in CrJobs, NEW e \in 1..crCounter, CrDeleteExecution(n, e) PROVE RunInv'
  BY <1>5, CrDeleteExecutionInv
<1>6. ASSUME NEW ok \in BOOLEAN, CrHandlerDone(ok) PROVE RunInv'
  BY <1>6, CrHandlerDoneInv
<1>7. CASE UNCHANGED crVars
  <2>1. UNCHANGED <<runJobs, jobObjects, runOps, crBound, crCounter, crStack, crRuns>>
    BY <1>7 DEF crVars
  <2> QED
    BY <2>1 DEF RunInv, TablesInv, RunningInv, FinishedInv, RunFinished, ListedInv
<1> QED
  BY <1>1, <1>2, <1>3, <1>4, <1>5, <1>6, <1>7 DEF CloudRunNext

LEMMA RunInvMeans == RunInv => CloudRunTypeOK /\ RunsRecorded
<1> SUFFICES ASSUME RunInv PROVE CloudRunTypeOK /\ RunsRecorded
  OBVIOUS
<1>1. ASSUME NEW j \in DOMAIN jobObjects
      PROVE  /\ jobObjects[j].name \in CrJobs
             /\ jobObjects[j].executions \in [DOMAIN jobObjects[j].executions -> BOOLEAN]
  <2>1. jobObjects[j] \in JobObject
    BY ElementOfSeq DEF RunInv, TablesInv
  <2> QED
    BY <2>1 DEF JobObject, ExecMaps
<1>2. CloudRunTypeOK
  BY <1>1 DEF RunInv, TablesInv, RunningInv, CloudRunTypeOK
<1>3. ASSUME NEW r \in crRuns
      PROVE  LET listed == {j \in DOMAIN jobObjects : r.number \in DOMAIN jobObjects[j].executions}
             IN /\ listed = IF r.deleted THEN {} ELSE {r.job}
                /\ \A j \in listed : jobObjects[j].executions[r.number] = r.ok
                /\ \E o \in DOMAIN runOps : runOps[o] = <<"Execution", r.number, r.ok>>
                /\ r.number \notin DOMAIN runOps
  <2>1. RunFinished(r) /\ r \in Finished
    BY DEF RunInv, FinishedInv
  <2>2. r.deleted \in BOOLEAN
    BY <2>1 DEF Finished
  <2> DEFINE listed == {j \in DOMAIN jobObjects : r.number \in DOMAIN jobObjects[j].executions}
  <2>3. CASE r.deleted = TRUE
    <3>1. listed = {}
      BY <2>1, <2>3 DEF RunFinished
    <3> QED
      BY <2>1, <2>3, <3>1 DEF RunFinished
  <2>4. CASE r.deleted = FALSE
    <3>1. listed = {r.job}
      BY <2>1, <2>4 DEF RunFinished
    <3> QED
      BY <2>1, <2>4, <3>1 DEF RunFinished
  <2> QED
    BY <2>2, <2>3, <2>4
<1>4. RunsRecorded
  BY <1>3 DEF RunInv, ListedInv, RunsRecorded
<1> QED
  BY <1>2, <1>4

(* A finished run is listed, with the outcome of its own handler, under    *)
(* the Job it began with and no other, until it is deleted there; its      *)
(* operation replays that outcome for good; and no number names both an    *)
(* execution and an operation.                                             *)
THEOREM RunsAreRecorded == CloudRunSpec => [](CloudRunTypeOK /\ RunsRecorded)
<1>1. CloudRunInit => RunInv
  BY RunInitInv
<1>2. RunInv /\ [CloudRunNext]_crVars => RunInv'
  BY RunStepInv
<1>3. RunInv => CloudRunTypeOK /\ RunsRecorded
  BY RunInvMeans
<1> QED
  BY <1>1, <1>2, <1>3, PTL DEF CloudRunSpec

------------------------------------------------------------------------------
(* A step of the whole is a step of one service and leaves the others be.  *)

controlVars == <<subject, ctVars, csVars, crVars, rsVars, smVars, saVars, lgVars, mnVars, agVars>>

LEMMA OneService ==
  ASSUME [ControlNext]_controlVars
  PROVE  /\ [CloudTasksNext]_ctVars /\ [CloudSchedulerNext]_csVars /\ [CloudRunNext]_crVars
         /\ [ResourcesNext]_rsVars /\ [SecretsNext]_smVars /\ [ServiceAccountsNext]_saVars
         /\ [LogsNext]_lgVars /\ [MonitoringNext]_mnVars
<1>1. CASE UNCHANGED controlVars
  BY <1>1 DEF controlVars
<1>2. CASE ControlNext
  BY <1>2 DEF ControlNext
<1> QED
  BY <1>1, <1>2

LEMMA ControlInits ==
  ASSUME ControlInit
  PROVE  /\ CloudTasksInit /\ CloudSchedulerInit /\ CloudRunInit /\ ResourcesInit /\ SecretsInit
         /\ ServiceAccountsInit /\ LogsInit /\ MonitoringInit
BY DEF ControlInit

------------------------------------------------------------------------------
(* Services that call handlers *)

(* Cloud Tasks and Cloud Scheduler: handlers called back from inside a     *)
(* call leave names, errors and counts on the right tasks and jobs.        *)
THEOREM HandlersSettle == ControlSpec => []HandlersSettled
<1>1. ControlInit => TasksInv /\ SchedInv
  BY ControlInits, TasksInitInv, SchedInitInv
<1>2. (TasksInv /\ SchedInv) /\ [ControlNext]_controlVars => (TasksInv /\ SchedInv)'
  BY OneService, TasksStepInv, SchedStepInv
<1>3. TasksInv /\ SchedInv => HandlersSettled
  BY TasksInvMeans, SchedInvMeans DEF HandlersSettled
<1> QED
  BY <1>1, <1>2, <1>3, PTL DEF ControlSpec, controlVars

(* Cloud Run: a finished run is listed, with the outcome of its own        *)
(* handler, under the Job it began with, and its operation replays it.     *)
THEOREM RunsStayRecorded == ControlSpec => []RunsRecorded
<1>1. ControlInit => RunInv
  BY ControlInits, RunInitInv
<1>2. RunInv /\ [ControlNext]_controlVars => RunInv'
  BY OneService, RunStepInv
<1>3. RunInv => RunsRecorded
  BY RunInvMeans
<1> QED
  BY <1>1, <1>2, <1>3, PTL DEF ControlSpec, controlVars

------------------------------------------------------------------------------
(* Cloud Logging: the inductive invariant.  Lists only grow, and the list  *)
(* of entries is replaced by what a deletion kept.  So a deletion at work  *)
(* must have, kept or still ahead of it, all that must stay listed, and    *)
(* nothing that is gone (DeletionInv); a write that counts must hold the   *)
(* list of entries itself, with no deletion at work (WriteInv); and a      *)
(* number drawn is on no list yet and drawn by nobody else.                *)

LogEntry == [seq : Nat, log : LgLogs]
Writing  == [at : {"write"}, todo : Seq(LgLogs)]
Loaded   == [at : {"loaded"}, todo : Seq(LgLogs), list : Nat, alone : BOOLEAN]
Drawn    == [at : {"drawn"}, todo : Seq(LgLogs), list : Nat, alone : BOOLEAN, seq : Nat]
Deletion == [at : {"filter"}, log : LgLogs, list : Nat, next : Nat, kept : Seq(LogEntry),
             before : SUBSET LogEntry, alone : BOOLEAN]
LogListed(e) == \E l \in DOMAIN lists : \E i \in DOMAIN lists[l] : lists[l][i] = e

ListsInv ==
  /\ lists \in Seq(Seq(LogEntry)) /\ entries \in DOMAIN lists /\ lgSeq \in Nat
  /\ \A l \in DOMAIN lists :
       /\ \A i \in DOMAIN lists[l] : lists[l][i].seq \in 1..lgSeq
       /\ \A i, j \in DOMAIN lists[l] : lists[l][i].seq = lists[l][j].seq => i = j

StayInv ==
  /\ lgWritten \subseteq LogEntry
  /\ \A e \in lgWritten : \E i \in DOMAIN lists[entries] : lists[entries][i] = e
  /\ \A i \in DOMAIN lists[entries] : lists[entries][i] \notin lgGone
  /\ \A e \in lgGone : LogListed(e)

WriteInv(c) ==
  /\ c.at = "write" => c \in Writing
  /\ c.at = "loaded" => c \in Loaded
  /\ c.at = "drawn" => c \in Drawn
  /\ c.at \in {"write", "loaded", "drawn"} => c.todo # <<>>
  /\ c.at \in {"loaded", "drawn"} =>
       /\ c.list \in DOMAIN lists
       /\ c.alone = TRUE => c.list = entries /\ \A v \in LgWorkers : lgw[v].at # "filter"
  /\ c.at = "drawn" =>
       /\ c.seq \in 1..lgSeq
       /\ \A l \in DOMAIN lists : \A i \in DOMAIN lists[l] : lists[l][i].seq # c.seq

DeletionInv(c) ==
  c.at = "filter" =>
    /\ c \in Deletion
    /\ c.list \in DOMAIN lists /\ c.next \in 1..(Len(lists[c.list]) + 1)
    /\ \A k \in DOMAIN c.kept :
         /\ c.kept[k].log # c.log
         /\ \E i \in DOMAIN lists[c.list] : i < c.next /\ lists[c.list][i] = c.kept[k]
    /\ \A k, m \in DOMAIN c.kept : c.kept[k].seq = c.kept[m].seq => k = m
    /\ \A e \in lgWritten :
         /\ e.log # c.log
         /\ \/ \E k \in DOMAIN c.kept : c.kept[k] = e
            \/ \E i \in DOMAIN lists[c.list] : i >= c.next /\ lists[c.list][i] = e
    /\ \A i \in DOMAIN lists[c.list] : lists[c.list][i] \notin lgGone
    /\ \A e \in c.before : e.log = c.log /\ LogListed(e)

ThreadsInv ==
  /\ DOMAIN lgw = LgWorkers
  /\ \A w \in LgWorkers : WriteInv(lgw[w]) /\ DeletionInv(lgw[w])
  /\ \A w, v \in LgWorkers : w # v =>
       /\ lgw[w].at = "drawn" /\ lgw[v].at = "drawn" => lgw[w].seq # lgw[v].seq
       /\ lgw[w].at = "filter" /\ lgw[v].at = "filter" => lgw[w].alone = FALSE

LogsInv == ListsInv /\ StayInv /\ ThreadsInv

LEMMA LogsInitInv == LogsInit => LogsInv
<1> SUFFICES ASSUME LogsInit PROVE LogsInv
  OBVIOUS
<1>1. /\ lists = << <<>> >> /\ entries = 1 /\ lgSeq = 0
      /\ lgw = [w \in LgWorkers |-> [at |-> "idle"]] /\ lgWritten = {} /\ lgGone = {}
  BY DEF LogsInit, LgIdle
<1>2. <<>> \in Seq(LogEntry) /\ DOMAIN <<>> = {}
  OBVIOUS
<1>3. /\ lists \in Seq(Seq(LogEntry)) /\ DOMAIN lists = {1} /\ lists[1] = <<>>
  BY <1>1, <1>2
<1>4. ListsInv /\ StayInv
  BY <1>1, <1>2, <1>3 DEF ListsInv, StayInv
<1>5. \A w \in LgWorkers : lgw[w].at = "idle"
  BY <1>1
<1>6. ThreadsInv
  BY <1>1, <1>5 DEF ThreadsInv, WriteInv, DeletionInv
<1> QED
  BY <1>4, <1>6 DEF LogsInv

(* A thread goes on with call c while lists and tables stay as they are. *)
LEMMA ThreadGoesOn ==
  ASSUME LogsInv, NEW w \in LgWorkers, NEW c, lgw' = [lgw EXCEPT ![w] = c],
         UNCHANGED <<lists, entries, lgWritten, lgGone>>, lgSeq' \in Nat, lgSeq <= lgSeq',
         c.at = "filter" => lgw[w].at = "filter" /\ c.alone = lgw[w].alone,
         WriteInv(c)', DeletionInv(c)',
         c.at = "drawn" => \A v \in LgWorkers : v # w /\ lgw[v].at = "drawn" => lgw[v].seq # c.seq
  PROVE  LogsInv'
<1>1. /\ DOMAIN lgw' = LgWorkers /\ lgw'[w] = c
      /\ \A v \in LgWorkers : v # w => lgw'[v] = lgw[v]
  BY DEF LogsInv, ThreadsInv
<1>2. lgSeq \in Nat /\ \A n \in 1..lgSeq : n \in 1..lgSeq'
  BY DEF LogsInv, ListsInv
<1>3. ListsInv'
  BY <1>2 DEF LogsInv, ListsInv
<1>4. StayInv'
  BY DEF LogsInv, StayInv, LogListed
<1>5. ASSUME NEW v \in LgWorkers, v # w
      PROVE  WriteInv(lgw[v])' /\ DeletionInv(lgw[v])'
  <2>1. PICK d : d = lgw[v]
    OBVIOUS
  <2>2. lgw'[v] = d
    BY <1>1, <1>5, <2>1
  <2>3. WriteInv(d) /\ DeletionInv(d)
    BY <2>1 DEF LogsInv, ThreadsInv
  <2>4. \A u \in LgWorkers : lgw[u].at # "filter" => lgw'[u].at # "filter"
    BY <1>1
  <2>5. WriteInv(d)'
    BY <1>2, <2>3, <2>4 DEF WriteInv
  <2>6. DeletionInv(d)'
    BY <2>3 DEF DeletionInv, LogListed
  <2> QED
    BY <2>2, <2>5, <2>6
<1>6. \A v \in LgWorkers : WriteInv(lgw[v])' /\ DeletionInv(lgw[v])'
  <2>1. WriteInv(lgw[w])' /\ DeletionInv(lgw[w])'
    BY <1>1
  <2> QED
    BY <1>5, <2>1
<1>7. ASSUME NEW u \in LgWorkers, NEW v \in LgWorkers, u # v
      PROVE  /\ lgw'[u].at = "drawn" /\ lgw'[v].at = "drawn" => lgw'[u].seq # lgw'[v].seq
             /\ lgw'[u].at = "filter" /\ lgw'[v].at = "filter" => lgw'[u].alone = FALSE
  BY <1>1, <1>7 DEF LogsInv, ThreadsInv
<1>8. ThreadsInv'
  BY <1>1, <1>6, <1>7 DEF ThreadsInv
<1> QED
  BY <1>3, <1>4, <1>8 DEF LogsInv

LEMMA LgWriteEntriesInv ==
  ASSUME LogsInv, NEW w \in LgWorkers, NEW n \in 1..LgMaxBatch, NEW logs \in [1..n -> LgLogs],
         LgWriteEntries(w, logs)
  PROVE  LogsInv'
<1>1. PICK c : c = [at |-> "write", todo |-> logs]
  OBVIOUS
<1>2. lgw' = [lgw EXCEPT ![w] = c] /\ UNCHANGED <<lists, entries, lgSeq, lgWritten, lgGone>>
  BY <1>1 DEF LgWriteEntries, LgBegin
<1>3. n \in Nat /\ n >= 1
  OBVIOUS
<1>4. logs \in Seq(LgLogs) /\ logs # <<>>
  <2>1. logs \in Seq(LgLogs)
    BY <1>3, SeqDef
  <2>2. 1 \in DOMAIN logs
    BY <1>3
  <2> QED
    BY <2>1, <2>2
<1>5. c.at = "write" /\ c.todo = logs /\ c \in Writing
  BY <1>1, <1>4 DEF Writing
<1>6. WriteInv(c)' /\ DeletionInv(c)'
  BY <1>4, <1>5 DEF WriteInv, DeletionInv
<1>7. lgSeq' \in Nat /\ lgSeq <= lgSeq'
  BY <1>2 DEF LogsInv, ListsInv
<1> QED
  BY <1>2, <1>5, <1>6, <1>7, ThreadGoesOn

LEMMA LgLoadInv ==
  ASSUME LogsInv, NEW w \in LgWorkers, LgLoad(w)
  PROVE  LogsInv'
<1>0. PICK alone \in BOOLEAN : alone = (LgDeleting = {})
  OBVIOUS
<1>1. PICK c : c = [at |-> "loaded", todo |-> lgw[w].todo, list |-> entries, alone |-> alone]
  OBVIOUS
<1>2. /\ lgw[w].at = "write" /\ lgw' = [lgw EXCEPT ![w] = c]
      /\ UNCHANGED <<lists, entries, lgSeq, lgWritten, lgGone>>
  BY <1>0, <1>1 DEF LgLoad
<1>3. /\ c.at = "loaded" /\ c.todo = lgw[w].todo /\ c.list = entries /\ c.alone = alone
      /\ c.alone \in BOOLEAN
  BY <1>1
<1>9. c.alone = TRUE => LgDeleting = {}
  BY <1>0, <1>3, Zenon
<1>4. c.todo \in Seq(LgLogs) /\ c.todo # <<>>
  <2>1. WriteInv(lgw[w])
    BY DEF LogsInv, ThreadsInv
  <2> QED
    BY <1>2, <1>3, <2>1 DEF WriteInv, Writing
<1>5. c.alone = TRUE => \A v \in LgWorkers : lgw'[v].at # "filter"
  <2>1. /\ lgw'[w] = c /\ \A v \in LgWorkers : v # w => lgw'[v] = lgw[v]
    BY <1>2 DEF LogsInv, ThreadsInv
  <2> QED
    BY <1>3, <1>9, <2>1 DEF LgDeleting
<1>10. c \in Loaded
  <2>1. entries \in Nat
    BY LenProperties DEF LogsInv, ListsInv
  <2> QED
    BY <1>1, <1>3, <1>4, <2>1 DEF Loaded
<1>6. WriteInv(c)' /\ DeletionInv(c)'
  BY <1>2, <1>3, <1>4, <1>5, <1>10 DEF LogsInv, ListsInv, WriteInv, DeletionInv
<1>7. lgSeq' \in Nat /\ lgSeq <= lgSeq'
  BY <1>2 DEF LogsInv, ListsInv
<1> QED
  BY <1>2, <1>3, <1>6, <1>7, ThreadGoesOn

LEMMA LgDrawInv ==
  ASSUME LogsInv, NEW w \in LgWorkers, LgDraw(w)
  PROVE  LogsInv'
<1>1. PICK c : c = [at |-> "drawn", todo |-> lgw[w].todo, list |-> lgw[w].list,
                    alone |-> lgw[w].alone, seq |-> LgNext]
  OBVIOUS
<1>2. /\ lgw[w].at = "loaded" /\ lgw' = [lgw EXCEPT ![w] = c] /\ lgSeq' = lgSeq + 1
      /\ UNCHANGED <<lists, entries, lgWritten, lgGone>>
  BY <1>1 DEF LgDraw
<1>3. /\ c.at = "drawn" /\ c.todo = lgw[w].todo /\ c.list = lgw[w].list
      /\ c.alone = lgw[w].alone /\ c.seq = lgSeq'
  BY <1>1, <1>2 DEF LgNext
<1>4. /\ lgSeq \in Nat /\ lgSeq' \in Nat /\ lgSeq <= lgSeq' /\ c.seq \in 1..lgSeq'
      /\ \A m \in 1..lgSeq : m # c.seq
  BY <1>2, <1>3 DEF LogsInv, ListsInv
<1>5. WriteInv(lgw[w])
  BY DEF LogsInv, ThreadsInv
<1>6. \A l \in DOMAIN lists : \A i \in DOMAIN lists[l] : lists[l][i].seq # c.seq
  BY <1>4 DEF LogsInv, ListsInv
<1>7. \A v \in LgWorkers : lgw[v].at = "drawn" => lgw[v].seq # c.seq
  BY <1>4 DEF LogsInv, ThreadsInv, WriteInv
<1>8. c.alone = TRUE => \A v \in LgWorkers : lgw'[v].at # "filter"
  <2>1. /\ lgw'[w] = c /\ \A v \in LgWorkers : v # w => lgw'[v] = lgw[v]
    BY <1>2 DEF LogsInv, ThreadsInv
  <2> QED
    BY <1>2, <1>3, <1>5, <2>1 DEF WriteInv
<1>9. c \in Drawn
  <2>1. lgw[w] \in Loaded
    BY <1>2, <1>5 DEF WriteInv
  <2>2. c.seq \in Nat
    BY <1>4
  <2> QED
    BY <1>1, <2>1, <2>2 DEF Loaded, Drawn
<1>10. WriteInv(c)' /\ DeletionInv(c)'
  BY <1>2, <1>3, <1>4, <1>5, <1>6, <1>8, <1>9 DEF WriteInv, DeletionInv
<1> QED
  BY <1>2, <1>3, <1>4, <1>7, <1>10, ThreadGoesOn

(* A deletion looks at one more entry of its list. *)
LEMMA LgFilterInv ==
  ASSUME LogsInv, NEW w \in LgWorkers, LgFilter(w)
  PROVE  LogsInv'
<1>1. PICK b, n, L, e :
        /\ b = lgw[w] /\ n = b.next /\ L = lists[b.list] /\ e = L[n]
  OBVIOUS
<1>2. /\ b.at = "filter" /\ n <= Len(L)
      /\ UNCHANGED <<lists, entries, lgSeq, lgWritten, lgGone>>
  BY <1>1 DEF LgFilter
<1>3. WriteInv(b) /\ DeletionInv(b)
  BY <1>1 DEF LogsInv, ThreadsInv
<1>4. PICK kept : kept = IF e.log # b.log THEN Append(b.kept, e) ELSE b.kept
  OBVIOUS
<1>5. PICK c : c = [b EXCEPT !.next = n + 1, !.kept = kept]
  OBVIOUS
<1>6. lgw' = [lgw EXCEPT ![w] = c]
  BY <1>1, <1>4, <1>5 DEF LgFilter, LgKeeps
<1>7. e \in LogEntry /\ n \in DOMAIN L /\ n \in 1..Len(L)
  <2>1. b.list \in DOMAIN lists /\ n \in 1..(Len(L) + 1) /\ lists \in Seq(Seq(LogEntry))
    BY <1>1, <1>2, <1>3 DEF DeletionInv, LogsInv, ListsInv
  <2>2. L \in Seq(LogEntry)
    BY <1>1, <2>1, ElementOfSeq
  <2>3. n \in 1..Len(L) /\ DOMAIN L = 1..Len(L)
    BY <1>2, <2>1, <2>2, LenProperties
  <2> QED
    BY <1>1, <2>2, <2>3, ElementOfSeq
<1>13. L \in Seq(LogEntry) /\ DOMAIN L = 1..Len(L) /\ Len(L) \in Nat
  <2>1. b.list \in DOMAIN lists /\ lists \in Seq(Seq(LogEntry))
    BY <1>1, <1>2, <1>3 DEF DeletionInv, LogsInv, ListsInv
  <2> QED
    BY <1>1, <2>1, ElementOfSeq, LenProperties
<1>8. /\ c.at = "filter" /\ c.log = b.log /\ c.list = b.list /\ c.alone = b.alone
      /\ c.before = b.before /\ c.next = n + 1 /\ c.kept = kept
  <2>1. b \in Deletion
    BY <1>2, <1>3 DEF DeletionInv
  <2> QED
    BY <1>2, <1>5, <2>1 DEF Deletion
<1>9. ASSUME NEW k \in DOMAIN kept
      PROVE  /\ kept[k] \in LogEntry /\ kept[k].log # b.log
             /\ \E i \in DOMAIN L : i < n + 1 /\ L[i] = kept[k]
             /\ k \in DOMAIN b.kept => /\ kept[k] = b.kept[k]
                                      /\ \E i \in DOMAIN L : i < n /\ L[i] = kept[k]
             /\ k \notin DOMAIN b.kept => kept[k] = e
  <2>1. /\ b.kept \in Seq(LogEntry) /\ DOMAIN b.kept = 1..Len(b.kept) /\ Len(b.kept) \in Nat
    BY <1>2, <1>3, LenProperties DEF DeletionInv, Deletion
  <2>2. CASE k \in DOMAIN b.kept
    <3>1. kept[k] = b.kept[k] /\ kept[k] \in LogEntry
      BY <1>4, <1>7, <2>1, <2>2, AppendProperties, ElementOfSeq
    <3>2. b.kept[k].log # b.log /\ \E i \in DOMAIN L : i < n /\ L[i] = b.kept[k]
      BY <1>1, <1>2, <1>3, <2>2 DEF DeletionInv
    <3>3. PICK i \in DOMAIN L : i < n /\ L[i] = b.kept[k]
      BY <3>2
    <3>4. i < n + 1
      BY <1>7, <3>3, LenProperties
    <3> QED
      BY <2>2, <3>1, <3>2, <3>3, <3>4
  <2>3. CASE k \notin DOMAIN b.kept
    <3>1. e.log # b.log /\ kept = Append(b.kept, e)
      BY <1>4, <2>3
    <3>2. k = Len(b.kept) + 1 /\ kept[k] = e
      BY <1>7, <2>1, <2>3, <3>1, AppendProperties, LenProperties
    <3>3. n < n + 1
      BY <1>7
    <3> QED
      BY <1>1, <1>7, <2>3, <3>1, <3>2, <3>3
  <2> QED
    BY <2>2, <2>3
<1>10. DeletionInv(c)'
  <2>1. /\ b \in Deletion /\ b.list \in DOMAIN lists
        /\ \A k, m \in DOMAIN b.kept : b.kept[k].seq = b.kept[m].seq => k = m
        /\ \A f \in lgWritten :
             /\ f.log # b.log
             /\ \/ \E k \in DOMAIN b.kept : b.kept[k] = f
                \/ \E i \in DOMAIN L : i >= n /\ L[i] = f
        /\ \A i \in DOMAIN L : L[i] \notin lgGone
        /\ \A f \in b.before : f.log = b.log /\ LogListed(f)
    BY <1>1, <1>2, <1>3 DEF DeletionInv
  <2>2. kept \in Seq(LogEntry)
    BY <1>4, <1>7, <2>1, AppendProperties DEF Deletion
  <2>3. c \in Deletion /\ c.next \in 1..(Len(L) + 1)
    <3>1. n \in Nat /\ n + 1 \in Nat /\ n + 1 \in 1..(Len(L) + 1)
      BY <1>7
    <3>2. PICK m : m = n + 1
      OBVIOUS
    <3>3. c = [b EXCEPT !.next = m, !.kept = kept]
      BY <1>5, <3>2
    <3>4. c \in Deletion
      BY <2>1, <2>2, <3>1, <3>2, <3>3 DEF Deletion
    <3> QED
      BY <1>8, <3>1, <3>4
  <2>4. \A i, j \in DOMAIN L : L[i].seq = L[j].seq => i = j
    BY <1>1, <2>1 DEF LogsInv, ListsInv
  <2>7. /\ \A k \in DOMAIN kept : k \in DOMAIN b.kept \/ k = Len(b.kept) + 1
        /\ \A k \in DOMAIN b.kept : k \in DOMAIN kept /\ kept[k] = b.kept[k]
        /\ e.log # b.log => \E k \in DOMAIN kept : kept[k] = e
    <3>1. /\ b.kept \in Seq(LogEntry) /\ DOMAIN b.kept = 1..Len(b.kept)
          /\ Len(b.kept) \in Nat
      BY <2>1, LenProperties DEF Deletion
    <3>2. CASE e.log = b.log
      BY <1>4, <3>2
    <3>3. CASE e.log # b.log
      <4>1. /\ kept[Len(b.kept) + 1] = e /\ DOMAIN kept = 1..(Len(b.kept) + 1)
            /\ \A k \in 1..Len(b.kept) : kept[k] = b.kept[k]
        BY <1>4, <1>7, <2>2, <3>1, <3>3, AppendProperties, LenProperties
      <4>2. Len(b.kept) + 1 \in DOMAIN kept
        BY <3>1, <4>1
      <4> QED
        BY <3>1, <4>1, <4>2
    <3> QED
      BY <3>2, <3>3
  <2>8. ASSUME NEW k \in DOMAIN b.kept, NEW m \in DOMAIN kept, m \notin DOMAIN b.kept
        PROVE  kept[k].seq # kept[m].seq
    <3>1. k \in DOMAIN kept
      BY <2>7
    <3>2. PICK i \in DOMAIN L : i < n /\ L[i] = kept[k]
      BY <1>9, <3>1
    <3>3. i # n
      BY <1>7, <1>13, <3>2
    <3>4. kept[m] = L[n] /\ n \in DOMAIN L
      BY <1>1, <1>7, <1>9, <2>8
    <3> QED
      BY <2>4, <3>2, <3>3, <3>4
  <2>5. ASSUME NEW k \in DOMAIN kept, NEW m \in DOMAIN kept, kept[k].seq = kept[m].seq
        PROVE  k = m
    <3>1. CASE k \in DOMAIN b.kept /\ m \in DOMAIN b.kept
      BY <1>9, <2>1, <2>5, <3>1
    <3>2. CASE k \notin DOMAIN b.kept /\ m \notin DOMAIN b.kept
      BY <2>7, <3>2
    <3>3. CASE k \in DOMAIN b.kept /\ m \notin DOMAIN b.kept
      BY <2>5, <2>8, <3>3
    <3>4. CASE k \notin DOMAIN b.kept /\ m \in DOMAIN b.kept
      BY <2>5, <2>8, <3>4
    <3> QED
      BY <3>1, <3>2, <3>3, <3>4
  <2>6. ASSUME NEW f \in lgWritten
        PROVE  \/ \E k \in DOMAIN kept : kept[k] = f
               \/ \E i \in DOMAIN L : i >= n + 1 /\ L[i] = f
    <3>1. CASE \E k \in DOMAIN b.kept : b.kept[k] = f
      BY <2>7, <3>1
    <3>2. CASE \E i \in DOMAIN L : i >= n /\ L[i] = f
      <4>1. PICK i \in DOMAIN L : i >= n /\ L[i] = f
        BY <3>2
      <4>2. CASE i = n
        BY <1>1, <2>1, <2>7, <4>1, <4>2
      <4>3. CASE i # n
        <5>1. i \in Nat /\ n \in Nat
          BY <1>7, <1>13
        <5> QED
          BY <4>1, <4>3, <5>1
      <4> QED
        BY <4>2, <4>3
    <3> QED
      BY <2>1, <3>1, <3>2
  <2> QED
    BY <1>1, <1>2, <1>8, <1>9, <2>1, <2>3, <2>5, <2>6 DEF DeletionInv, LogListed
<1>11. WriteInv(c)'
  BY <1>8 DEF WriteInv
<1>12. lgSeq' \in Nat /\ lgSeq <= lgSeq'
  BY <1>2 DEF LogsInv, ListsInv
<1> QED
  BY <1>1, <1>2, <1>6, <1>8, <1>10, <1>11, <1>12, ThreadGoesOn

(* A deletion begins: no write and no other deletion is alone any more,    *)
(* and the log's entries need not stay.                                    *)
LEMMA LgDeleteLogInv ==
  ASSUME LogsInv, NEW w \in LgWorkers, NEW log \in LgLogs, LgDeleteLog(w, log)
  PROVE  LogsInv'
<1>0. PICK alone \in BOOLEAN : alone = (LgDeleting = {})
  OBVIOUS
<1>1. PICK c : c = [at |-> "filter", log |-> log, list |-> entries, next |-> 1, kept |-> <<>>,
                    before |-> {e \in lgWritten : e.log = log}, alone |-> alone]
  OBVIOUS
<1>2. /\ lgw' = [v \in LgWorkers |->
           IF v = w THEN c
           ELSE IF lgw[v].at \in {"loaded", "drawn", "filter"} THEN [lgw[v] EXCEPT !.alone = FALSE]
           ELSE lgw[v]]
      /\ lgWritten' = {e \in lgWritten : e.log # log}
      /\ UNCHANGED <<lists, entries, lgSeq, lgGone>>
  BY <1>0, <1>1 DEF LgDeleteLog, LgBegin
<1>3. /\ DOMAIN lgw' = LgWorkers /\ lgw'[w] = c
      /\ \A v \in LgWorkers : v # w /\ lgw[v].at \notin {"loaded", "drawn", "filter"} =>
           lgw'[v] = lgw[v]
      /\ \A v \in LgWorkers : v # w /\ lgw[v].at \in {"loaded", "drawn", "filter"} =>
           lgw'[v] = [lgw[v] EXCEPT !.alone = FALSE]
  BY <1>2
<1>4. ListsInv'
  BY <1>2 DEF LogsInv, ListsInv
<1>5. StayInv'
  BY <1>2 DEF LogsInv, StayInv, LogListed
<1>6. c.at = "filter" /\ WriteInv(c)' /\ DeletionInv(c)'
  <2>1. /\ c.at = "filter" /\ c.log = log /\ c.list = entries /\ c.next = 1 /\ c.kept = <<>>
        /\ c.before = {e \in lgWritten : e.log = log}
    BY <1>1
  <2>2. /\ entries \in DOMAIN lists /\ entries \in Nat /\ lgWritten \subseteq LogEntry
        /\ lists[entries] \in Seq(LogEntry)
    BY LenProperties, ElementOfSeq DEF LogsInv, ListsInv, StayInv
  <2>3. c \in Deletion
    BY <1>0, <1>1, <2>2 DEF Deletion
  <2>4. Len(lists[entries]) \in Nat /\ DOMAIN lists[entries] = 1..Len(lists[entries])
    BY <2>2, LenProperties
  <2>5. \A e \in lgWritten' :
          e.log # log /\ \E i \in DOMAIN lists[entries] : i >= 1 /\ lists[entries][i] = e
    BY <1>2, <2>4 DEF LogsInv, StayInv
  <2>6. \A e \in c.before : e.log = log /\ LogListed(e)
    BY <2>1, <2>2 DEF LogsInv, StayInv, LogListed
  <2>7. 1 \in 1..(Len(lists[entries]) + 1) /\ DOMAIN c.kept = {}
    BY <2>1, <2>4
  <2>8. \A i \in DOMAIN lists[entries] : lists[entries][i] \notin lgGone
    BY DEF LogsInv, StayInv
  <2> QED
    BY <1>2, <2>1, <2>2, <2>3, <2>5, <2>6, <2>7, <2>8 DEF WriteInv, DeletionInv, LogListed
<1>7. ASSUME NEW v \in LgWorkers, v # w
      PROVE  /\ WriteInv(lgw[v])' /\ DeletionInv(lgw[v])'
             /\ lgw'[v].at = lgw[v].at
             /\ lgw[v].at = "drawn" => lgw'[v].seq = lgw[v].seq
             /\ lgw[v].at = "filter" => lgw'[v].alone = FALSE
  <2>1. PICK b : b = lgw[v]
    OBVIOUS
  <2>2. WriteInv(b) /\ DeletionInv(b)
    BY <2>1 DEF LogsInv, ThreadsInv
  <2>3. CASE b.at \notin {"loaded", "drawn", "filter"}
    <3>1. lgw'[v] = b
      BY <1>3, <1>7, <2>1, <2>3
    <3>2. WriteInv(b)' /\ DeletionInv(b)'
      BY <1>2, <2>2, <2>3 DEF WriteInv, DeletionInv
    <3> QED
      BY <2>1, <2>3, <3>1, <3>2
  <2>4. PICK d : d = [b EXCEPT !.alone = FALSE]
    OBVIOUS
  <2>5. CASE b.at = "loaded"
    <3>1. lgw'[v] = d /\ b \in Loaded
      BY <1>3, <1>7, <2>1, <2>2, <2>4, <2>5 DEF WriteInv
    <3>2. d \in Loaded /\ d.at = "loaded" /\ d.todo = b.todo /\ d.list = b.list /\ d.alone = FALSE
      BY <2>4, <3>1 DEF Loaded
    <3>3. WriteInv(d)' /\ DeletionInv(d)'
      BY <1>2, <2>2, <2>5, <3>2 DEF WriteInv, DeletionInv
    <3> QED
      BY <2>1, <2>5, <3>1, <3>2, <3>3
  <2>6. CASE b.at = "drawn"
    <3>1. lgw'[v] = d /\ b \in Drawn
      BY <1>3, <1>7, <2>1, <2>2, <2>4, <2>6 DEF WriteInv
    <3>2. /\ d \in Drawn /\ d.at = "drawn" /\ d.todo = b.todo /\ d.list = b.list
          /\ d.alone = FALSE /\ d.seq = b.seq
      BY <2>4, <3>1 DEF Drawn
    <3>3. WriteInv(d)' /\ DeletionInv(d)'
      BY <1>2, <2>2, <2>6, <3>2 DEF WriteInv, DeletionInv
    <3> QED
      BY <2>1, <2>6, <3>1, <3>2, <3>3
  <2>7. CASE b.at = "filter"
    <3>1. lgw'[v] = d /\ b \in Deletion
      BY <1>3, <1>7, <2>1, <2>2, <2>4, <2>7 DEF DeletionInv
    <3>2. /\ d \in Deletion /\ d.at = "filter" /\ d.log = b.log /\ d.list = b.list
          /\ d.next = b.next /\ d.kept = b.kept /\ d.before = b.before /\ d.alone = FALSE
      BY <2>4, <3>1 DEF Deletion
    <3>3. WriteInv(d)'
      BY <3>2 DEF WriteInv
    <3>4. DeletionInv(d)'
      BY <1>2, <2>2, <2>7, <3>2 DEF DeletionInv, LogListed
    <3> QED
      BY <2>1, <2>7, <3>1, <3>2, <3>3, <3>4
  <2> QED
    BY <2>3, <2>5, <2>6, <2>7
<1>8. LgDeleting = {} => \A v \in LgWorkers : lgw[v].at # "filter"
  BY DEF LgDeleting
<1>9. \A v \in LgWorkers : c.alone = FALSE \/ lgw[v].at # "filter"
  BY <1>0, <1>1, <1>8
<1>10. ThreadsInv'
  <2>1. \A v \in LgWorkers : WriteInv(lgw[v])' /\ DeletionInv(lgw[v])'
    <3>1. WriteInv(lgw[w])' /\ DeletionInv(lgw[w])'
      BY <1>3, <1>6
    <3> QED
      BY <1>7, <3>1
  <2>2. ASSUME NEW u \in LgWorkers, NEW v \in LgWorkers, u # v
        PROVE  /\ lgw'[u].at = "drawn" /\ lgw'[v].at = "drawn" => lgw'[u].seq # lgw'[v].seq
               /\ lgw'[u].at = "filter" /\ lgw'[v].at = "filter" => lgw'[u].alone = FALSE
    <3>1. CASE u = w
      <4>1. lgw'[u] = c /\ c.at = "filter" /\ lgw'[v].at = lgw[v].at
        BY <1>3, <1>6, <1>7, <2>2, <3>1
      <4>2. lgw[v].at = "filter" => c.alone = FALSE
        BY <1>9, Zenon
      <4> QED
        BY <4>1, <4>2
    <3>2. CASE v = w
      BY <1>3, <1>6, <1>7, <2>2, <3>2
    <3>3. CASE u # w /\ v # w
      <4>1. /\ lgw'[u].at = lgw[u].at /\ lgw'[v].at = lgw[v].at
            /\ lgw[u].at = "drawn" => lgw'[u].seq = lgw[u].seq
            /\ lgw[v].at = "drawn" => lgw'[v].seq = lgw[v].seq
            /\ lgw[u].at = "filter" => lgw'[u].alone = FALSE
        BY <1>7, <3>3
      <4>2. lgw[u].at = "drawn" /\ lgw[v].at = "drawn" => lgw[u].seq # lgw[v].seq
        BY <2>2 DEF LogsInv, ThreadsInv
      <4> QED
        BY <4>1, <4>2
    <3> QED
      BY <3>1, <3>2, <3>3
  <2> QED
    BY <1>3, <2>1, <2>2 DEF ThreadsInv
<1> QED
  BY <1>4, <1>5, <1>10 DEF LogsInv

(* One list has grown by an entry whose number was on no list. *)
LEMMA ListGrows ==
  ASSUME LogsInv, NEW l \in DOMAIN lists, NEW entry \in LogEntry,
         lists' = [lists EXCEPT ![l] = Append(@, entry)]
  PROVE  /\ lists' \in Seq(Seq(LogEntry)) /\ DOMAIN lists' = DOMAIN lists
         /\ Len(lists[l]) \in Nat /\ Len(lists'[l]) = Len(lists[l]) + 1
         /\ lists'[l][Len(lists[l]) + 1] = entry /\ Len(lists[l]) + 1 \in DOMAIN lists'[l]
         /\ \A m \in DOMAIN lists : m # l => lists'[m] = lists[m]
         /\ \A m \in DOMAIN lists : \A i \in DOMAIN lists[m] :
              i \in DOMAIN lists'[m] /\ lists'[m][i] = lists[m][i]
         /\ \A m \in DOMAIN lists : \A i \in DOMAIN lists'[m] :
              i \in DOMAIN lists[m] \/ (m = l /\ i = Len(lists[l]) + 1)
         /\ \A m \in DOMAIN lists : \A n \in 1..(Len(lists[m]) + 1) : n \in 1..(Len(lists'[m]) + 1)
         /\ \A m \in DOMAIN lists : Len(lists[m]) \in Nat /\ DOMAIN lists[m] = 1..Len(lists[m])
<1>1. lists \in Seq(Seq(LogEntry)) /\ \A m \in DOMAIN lists : lists[m] \in Seq(LogEntry)
  BY ElementOfSeq DEF LogsInv, ListsInv
<1>2. PICK s : s = Append(lists[l], entry)
  OBVIOUS
<1>3. \A m \in DOMAIN lists : Len(lists[m]) \in Nat /\ DOMAIN lists[m] = 1..Len(lists[m])
  BY <1>1, LenProperties
<1>4. /\ s \in Seq(LogEntry) /\ Len(s) = Len(lists[l]) + 1 /\ s[Len(lists[l]) + 1] = entry
      /\ \A i \in 1..Len(lists[l]) : s[i] = lists[l][i]
  BY <1>1, <1>2, AppendProperties
<1>5. DOMAIN s = 1..(Len(lists[l]) + 1)
  BY <1>4, LenProperties
<1>6. /\ lists' \in Seq(Seq(LogEntry)) /\ DOMAIN lists' = DOMAIN lists /\ lists'[l] = s
      /\ \A m \in DOMAIN lists : m # l => lists'[m] = lists[m]
  BY <1>1, <1>2, <1>4, Replaced
<1>7. Len(lists[l]) \in Nat /\ Len(lists[l]) + 1 \in DOMAIN s
  BY <1>3, <1>5
<1>8. \A m \in DOMAIN lists : \A i \in DOMAIN lists[m] :
        i \in DOMAIN lists'[m] /\ lists'[m][i] = lists[m][i]
  BY <1>3, <1>4, <1>5, <1>6
<1>9. \A m \in DOMAIN lists : \A i \in DOMAIN lists'[m] :
        i \in DOMAIN lists[m] \/ (m = l /\ i = Len(lists[l]) + 1)
  BY <1>3, <1>5, <1>6
<1>10. \A m \in DOMAIN lists : \A n \in 1..(Len(lists[m]) + 1) : n \in 1..(Len(lists'[m]) + 1)
  <2>1. \A n \in 1..(Len(lists[l]) + 1) : n \in 1..(Len(s) + 1)
    BY <1>3, <1>4
  <2> QED
    BY <1>6, <2>1
<1> QED
  BY <1>3, <1>4, <1>6, <1>7, <1>8, <1>9, <1>10

LEMMA LgAppendInv ==
  ASSUME LogsInv, NEW w \in LgWorkers, LgAppend(w)
  PROVE  LogsInv'
<1>1. PICK b, entry, rest : /\ b = lgw[w] /\ entry = LgEntry(b.seq, Head(b.todo))
                            /\ rest = Tail(b.todo)
  OBVIOUS
<1>2. PICK c : c = IF rest = <<>> THEN LgIdle ELSE [at |-> "write", todo |-> rest]
  OBVIOUS
<1>3. /\ b.at = "drawn" /\ lists' = [lists EXCEPT ![b.list] = Append(@, entry)]
      /\ lgWritten' = (IF b.alone THEN lgWritten \union {entry} ELSE lgWritten)
      /\ lgw' = [lgw EXCEPT ![w] = c] /\ UNCHANGED <<entries, lgSeq, lgGone>>
  BY <1>1, <1>2 DEF LgAppend
<1>4. /\ b \in Drawn /\ b.todo # <<>> /\ b.list \in DOMAIN lists /\ b.seq \in 1..lgSeq
      /\ \A l \in DOMAIN lists : \A i \in DOMAIN lists[l] : lists[l][i].seq # b.seq
      /\ b.alone = TRUE => b.list = entries /\ \A v \in LgWorkers : lgw[v].at # "filter"
  BY <1>1, <1>3 DEF LogsInv, ThreadsInv, WriteInv
<1>5. entry \in LogEntry /\ entry.seq = b.seq /\ rest \in Seq(LgLogs)
  <2>1. b.todo \in Seq(LgLogs) /\ b.seq \in Nat
    BY <1>4 DEF Drawn
  <2>2. Head(b.todo) \in LgLogs /\ rest \in Seq(LgLogs)
    BY <1>1, <1>4, <2>1, HeadTailProperties
  <2> QED
    BY <1>1, <2>1, <2>2 DEF LgEntry, LogEntry
<1>6. PICK L, k : L = b.list /\ k = Len(lists[L]) + 1
  OBVIOUS
<1>7. L \in DOMAIN lists /\ lists' = [lists EXCEPT ![L] = Append(@, entry)]
  BY <1>3, <1>4, <1>6
<1>8. /\ lists' \in Seq(Seq(LogEntry)) /\ DOMAIN lists' = DOMAIN lists
      /\ lists'[L][k] = entry /\ k \in DOMAIN lists'[L]
      /\ \A m \in DOMAIN lists : m # L => lists'[m] = lists[m]
      /\ \A m \in DOMAIN lists : \A i \in DOMAIN lists[m] :
           i \in DOMAIN lists'[m] /\ lists'[m][i] = lists[m][i]
      /\ \A m \in DOMAIN lists : \A i \in DOMAIN lists'[m] :
           i \in DOMAIN lists[m] \/ (m = L /\ i = k)
      /\ \A m \in DOMAIN lists : \A n \in 1..(Len(lists[m]) + 1) : n \in 1..(Len(lists'[m]) + 1)
  BY <1>5, <1>6, <1>7, ListGrows
<1>9. b.alone \in BOOLEAN
  BY <1>4 DEF Drawn
<1>10. /\ b.alone = TRUE => lgWritten' = lgWritten \union {entry}
       /\ b.alone # TRUE => lgWritten' = lgWritten
  BY <1>3, <1>9
<1>11. \A m \in DOMAIN lists : \A i \in DOMAIN lists[m] : lists[m][i].seq # entry.seq
  BY <1>4, <1>5
<1>12. ListsInv'
  <2>1. ASSUME NEW m \in DOMAIN lists, NEW i \in DOMAIN lists'[m]
        PROVE  lists'[m][i].seq \in 1..lgSeq
    <3>1. CASE i \in DOMAIN lists[m]
      BY <1>8, <3>1 DEF LogsInv, ListsInv
    <3>2. CASE m = L /\ i = k
      BY <1>4, <1>5, <1>8, <3>2
    <3> QED
      BY <1>8, <3>1, <3>2
  <2>2. ASSUME NEW m \in DOMAIN lists, NEW i \in DOMAIN lists'[m], NEW j \in DOMAIN lists'[m],
               lists'[m][i].seq = lists'[m][j].seq
        PROVE  i = j
    <3>1. CASE i \in DOMAIN lists[m] /\ j \in DOMAIN lists[m]
      BY <1>8, <2>2, <3>1 DEF LogsInv, ListsInv
    <3>2. CASE i \in DOMAIN lists[m] /\ j \notin DOMAIN lists[m]
      BY <1>8, <1>11, <2>2, <3>2
    <3>3. CASE i \notin DOMAIN lists[m] /\ j \in DOMAIN lists[m]
      BY <1>8, <1>11, <2>2, <3>3
    <3>4. CASE i \notin DOMAIN lists[m] /\ j \notin DOMAIN lists[m]
      BY <1>8, <3>4
    <3> QED
      BY <3>1, <3>2, <3>3, <3>4
  <2>3. entries' \in DOMAIN lists' /\ lgSeq' \in Nat /\ lgSeq' = lgSeq
    BY <1>3, <1>8 DEF LogsInv, ListsInv
  <2>4. \A m \in DOMAIN lists' :
          /\ \A i \in DOMAIN lists'[m] : lists'[m][i].seq \in 1..lgSeq'
          /\ \A i, j \in DOMAIN lists'[m] : lists'[m][i].seq = lists'[m][j].seq => i = j
    BY <1>8, <2>1, <2>2, <2>3
  <2> QED
    BY <1>8, <2>3, <2>4 DEF ListsInv

(* What is gone is on some list, so the entry is none of it. *)
<1>13. entry \notin lgGone /\ \A e \in lgGone : LogListed(e)'
  <2>1. ASSUME NEW e \in lgGone
        PROVE  e # entry /\ LogListed(e)'
    <3>1. PICK m \in DOMAIN lists : \E i \in DOMAIN lists[m] : lists[m][i] = e
      BY DEF LogsInv, StayInv, LogListed
    <3>2. PICK i \in DOMAIN lists[m] : lists[m][i] = e
      BY <3>1
    <3>3. m \in DOMAIN lists' /\ i \in DOMAIN lists'[m] /\ lists'[m][i] = e
      BY <1>8, <3>2
    <3>4. e.seq # entry.seq
      BY <1>11, <3>2
    <3> QED
      BY <3>3, <3>4 DEF LogListed
  <2> QED
    BY <2>1
<1>14. \A l \in DOMAIN lists : (\A i \in DOMAIN lists[l] : lists[l][i] \notin lgGone) =>
         \A i \in DOMAIN lists'[l] : lists'[l][i] \notin lgGone
  BY <1>8, <1>13
<1>15. StayInv'
  <2>1. ASSUME NEW e \in lgWritten' PROVE \E i \in DOMAIN lists'[entries] : lists'[entries][i] = e
    <3>1. CASE e \in lgWritten
      BY <1>8, <3>1 DEF LogsInv, ListsInv, StayInv
    <3>2. CASE e \notin lgWritten
      <4>1. b.alone = TRUE /\ e = entry
        BY <1>10, <2>1, <3>2
      <4>2. b.list = entries
        BY <1>4, <4>1
      <4>3. L = entries
        BY <1>6, <4>2
      <4> QED
        BY <1>8, <4>1, <4>3
    <3> QED
      BY <3>1, <3>2
  <2>2. \A i \in DOMAIN lists'[entries] : lists'[entries][i] \notin lgGone
    BY <1>14 DEF LogsInv, ListsInv, StayInv
  <2>3. lgWritten' \subseteq LogEntry
    BY <1>5, <1>10 DEF LogsInv, StayInv
  <2> QED
    BY <1>3, <1>13, <2>1, <2>2, <2>3 DEF StayInv
<1>16. /\ DOMAIN lgw' = LgWorkers /\ lgw'[w] = c
       /\ \A v \in LgWorkers : v # w => lgw'[v] = lgw[v]
  BY <1>3 DEF LogsInv, ThreadsInv
<1>17. c.at \in {"idle", "write"} /\ WriteInv(c)' /\ DeletionInv(c)'
  <2>1. CASE rest = <<>>
    BY <1>2, <2>1 DEF LgIdle, WriteInv, DeletionInv
  <2>2. CASE rest # <<>>
    BY <1>2, <1>5, <2>2 DEF WriteInv, DeletionInv, Writing
  <2> QED
    BY <2>1, <2>2
<1>18. ASSUME NEW v \in LgWorkers, v # w
       PROVE  WriteInv(lgw[v])' /\ DeletionInv(lgw[v])'
  <2>1. PICK d : d = lgw[v]
    OBVIOUS
  <2>2. lgw'[v] = d /\ WriteInv(d) /\ DeletionInv(d)
    BY <1>16, <1>18, <2>1 DEF LogsInv, ThreadsInv
  <2>3. d.at = "drawn" => d.seq # entry.seq
    BY <1>1, <1>3, <1>5, <1>18, <2>1 DEF LogsInv, ThreadsInv
  <2>4. d.at = "drawn" => \A l \in DOMAIN lists' : \A i \in DOMAIN lists'[l] : lists'[l][i].seq # d.seq
    BY <1>8, <2>2, <2>3 DEF WriteInv
  <2>5. (\A u \in LgWorkers : lgw[u].at # "filter") => \A u \in LgWorkers : lgw'[u].at # "filter"
    BY <1>16, <1>17
  <2>6. WriteInv(d)'
    BY <1>3, <1>8, <2>2, <2>4, <2>5 DEF WriteInv
  <2>7. DeletionInv(d)'
    <3>1. SUFFICES ASSUME d.at = "filter" PROVE DeletionInv(d)'
      BY DEF DeletionInv
    <3>2. b.alone # TRUE /\ lgWritten' = lgWritten
      BY <1>4, <1>10, <2>1, <3>1
    <3>3. /\ d \in Deletion /\ d.list \in DOMAIN lists' /\ d.next \in 1..(Len(lists'[d.list]) + 1)
      <4>1. d \in Deletion /\ d.list \in DOMAIN lists /\ d.next \in 1..(Len(lists[d.list]) + 1)
        BY <2>2, <3>1 DEF DeletionInv
      <4> QED
        BY <1>8, <4>1
    <3>4. \A m \in DOMAIN d.kept :
            /\ d.kept[m].log # d.log
            /\ \E i \in DOMAIN lists'[d.list] : i < d.next /\ lists'[d.list][i] = d.kept[m]
      BY <1>8, <2>2, <3>1 DEF DeletionInv
    <3>5. \A e \in lgWritten :
            /\ e.log # d.log
            /\ \/ \E m \in DOMAIN d.kept : d.kept[m] = e
               \/ \E i \in DOMAIN lists'[d.list] : i >= d.next /\ lists'[d.list][i] = e
      <4>1. d.list \in DOMAIN lists
        BY <2>2, <3>1 DEF DeletionInv
      <4>2. \A i \in DOMAIN lists[d.list] :
              i \in DOMAIN lists'[d.list] /\ lists'[d.list][i] = lists[d.list][i]
        BY <1>8, <4>1
      <4>3. \A e \in lgWritten :
              /\ e.log # d.log
              /\ \/ \E m \in DOMAIN d.kept : d.kept[m] = e
                 \/ \E i \in DOMAIN lists[d.list] : i >= d.next /\ lists[d.list][i] = e
        BY <2>2, <3>1 DEF DeletionInv
      <4> QED
        BY <4>2, <4>3
    <3>6. \A i \in DOMAIN lists'[d.list] : lists'[d.list][i] \notin lgGone
      BY <1>14, <2>2, <3>1 DEF DeletionInv
    <3>7. \A e \in d.before : e.log = d.log /\ LogListed(e)'
      BY <1>8, <2>2, <3>1 DEF DeletionInv, LogListed
    <3>8. \A i, j \in DOMAIN d.kept : d.kept[i].seq = d.kept[j].seq => i = j
      BY <2>2, <3>1 DEF DeletionInv
    <3> QED
      BY <1>3, <3>2, <3>3, <3>4, <3>5, <3>6, <3>7, <3>8 DEF DeletionInv
  <2> QED
    BY <2>2, <2>6, <2>7
<1>19. ThreadsInv'
  <2>1. \A v \in LgWorkers : WriteInv(lgw[v])' /\ DeletionInv(lgw[v])'
    <3>1. WriteInv(lgw[w])' /\ DeletionInv(lgw[w])'
      BY <1>16, <1>17
    <3> QED
      BY <1>18, <3>1
  <2>2. ASSUME NEW u \in LgWorkers, NEW v \in LgWorkers, u # v
        PROVE  /\ lgw'[u].at = "drawn" /\ lgw'[v].at = "drawn" => lgw'[u].seq # lgw'[v].seq
               /\ lgw'[u].at = "filter" /\ lgw'[v].at = "filter" => lgw'[u].alone = FALSE
    BY <1>16, <1>17, <2>2 DEF LogsInv, ThreadsInv
  <2> QED
    BY <1>16, <2>1, <2>2 DEF ThreadsInv
<1> QED
  BY <1>12, <1>15, <1>19 DEF LogsInv

(* A deletion puts what it kept in place of the list. *)
LEMMA LgReplaceInv ==
  ASSUME LogsInv, NEW w \in LgWorkers, LgReplace(w)
  PROVE  LogsInv'
<1>1. PICK b, L, n : b = lgw[w] /\ L = lists[b.list] /\ n = Len(lists) + 1
  OBVIOUS
<1>2. PICK c : c = LgIdle
  OBVIOUS
<1>3. /\ b.at = "filter" /\ b.next > Len(L)
      /\ lists' = Append(lists, b.kept) /\ entries' = Len(lists')
      /\ lgGone' = (IF b.alone THEN lgGone \union b.before ELSE lgGone)
      /\ lgw' = [lgw EXCEPT ![w] = c] /\ UNCHANGED <<lgSeq, lgWritten>>
  BY <1>1, <1>2 DEF LgReplace, LgThrough
<1>4. DeletionInv(b)
  BY <1>1 DEF LogsInv, ThreadsInv
<1>5. /\ b \in Deletion /\ b.kept \in Seq(LogEntry) /\ b.alone \in BOOLEAN
      /\ b.list \in DOMAIN lists
      /\ \A e \in b.before : e.log = b.log /\ LogListed(e)
  BY <1>3, <1>4 DEF DeletionInv, Deletion
<1>6. /\ \A k \in DOMAIN b.kept : b.kept[k].log # b.log /\ \E i \in DOMAIN L : L[i] = b.kept[k]
      /\ \A k, m \in DOMAIN b.kept : b.kept[k].seq = b.kept[m].seq => k = m
      /\ \A i \in DOMAIN L : L[i] \notin lgGone
  BY <1>1, <1>3, <1>4 DEF DeletionInv
<1>7. \A e \in lgWritten : \E k \in DOMAIN b.kept : b.kept[k] = e
  <2>1. lists \in Seq(Seq(LogEntry)) /\ b.next \in Nat
    BY <1>5 DEF LogsInv, ListsInv, Deletion
  <2>2. DOMAIN L = 1..Len(L) /\ Len(L) \in Nat
    BY <1>1, <1>5, <2>1, ElementOfSeq, LenProperties
  <2>3. \A i \in DOMAIN L : ~(i >= b.next)
    BY <1>3, <2>1, <2>2
  <2>4. \A e \in lgWritten : \/ \E k \in DOMAIN b.kept : b.kept[k] = e
                             \/ \E i \in DOMAIN L : i >= b.next /\ L[i] = e
    BY <1>1, <1>3, <1>4 DEF DeletionInv
  <2> QED
    BY <2>3, <2>4
<1>8. /\ lists' \in Seq(Seq(LogEntry)) /\ DOMAIN lists' = DOMAIN lists \union {n}
      /\ n \notin DOMAIN lists /\ lists'[n] = b.kept /\ entries' = n
      /\ \A m \in DOMAIN lists : lists'[m] = lists[m]
  <2>1. lists \in Seq(Seq(LogEntry))
    BY DEF LogsInv, ListsInv
  <2>2. /\ Len(lists) \in Nat /\ DOMAIN lists = 1..Len(lists)
        /\ lists' \in Seq(Seq(LogEntry)) /\ Len(lists') = n /\ lists'[n] = b.kept
        /\ \A m \in 1..Len(lists) : lists'[m] = lists[m]
    BY <1>1, <1>3, <1>5, <2>1, AppendProperties, LenProperties
  <2>3. DOMAIN lists' = 1..n
    BY <2>2, LenProperties
  <2>4. 1..n = (1..Len(lists)) \union {n} /\ n \notin 1..Len(lists)
    BY <1>1, <2>2
  <2> QED
    BY <1>3, <2>2, <2>3, <2>4
<1>9. /\ b.alone = TRUE => lgGone' = lgGone \union b.before
      /\ b.alone # TRUE => lgGone' = lgGone
  BY <1>3, <1>5
<1>10. \A e : LogListed(e) => LogListed(e)'
  BY <1>8 DEF LogListed
<1>11. ListsInv'
  <2>1. \A k \in DOMAIN b.kept : b.kept[k].seq \in 1..lgSeq
    BY <1>1, <1>5, <1>6 DEF LogsInv, ListsInv
  <2>2. \A m \in DOMAIN lists :
          /\ \A i \in DOMAIN lists[m] : lists[m][i].seq \in 1..lgSeq
          /\ \A i, j \in DOMAIN lists[m] : lists[m][i].seq = lists[m][j].seq => i = j
    BY DEF LogsInv, ListsInv
  <2>3. \A m \in DOMAIN lists' :
          /\ \A i \in DOMAIN lists'[m] : lists'[m][i].seq \in 1..lgSeq
          /\ \A i, j \in DOMAIN lists'[m] : lists'[m][i].seq = lists'[m][j].seq => i = j
    BY <1>6, <1>8, <2>1, <2>2
  <2>4. lgSeq' = lgSeq /\ lgSeq \in Nat
    BY <1>3 DEF LogsInv, ListsInv
  <2> QED
    BY <1>8, <2>3, <2>4 DEF ListsInv
<1>12. StayInv'
  <2>1. lgWritten' \subseteq LogEntry /\ lgWritten' = lgWritten
    BY <1>3 DEF LogsInv, StayInv
  <2>2. \A k \in DOMAIN b.kept : b.kept[k] \notin lgGone /\ b.kept[k] \notin b.before
    BY <1>5, <1>6
  <2>3. \A k \in DOMAIN b.kept : b.kept[k] \notin lgGone'
    BY <1>5, <1>9, <2>2
  <2>4. \A e \in lgGone' : LogListed(e)'
    <3>1. \A e \in lgGone : LogListed(e)
      BY DEF LogsInv, StayInv
    <3>2. \A e \in lgGone' : e \in lgGone \/ e \in b.before
      BY <1>5, <1>9
    <3> QED
      BY <1>5, <1>10, <3>1, <3>2
  <2> QED
    BY <1>7, <1>8, <2>1, <2>3, <2>4 DEF StayInv
<1>13. /\ DOMAIN lgw' = LgWorkers /\ lgw'[w] = c /\ c.at = "idle"
       /\ \A v \in LgWorkers : v # w => lgw'[v] = lgw[v]
  BY <1>2, <1>3 DEF LogsInv, ThreadsInv, LgIdle
<1>14. WriteInv(c)' /\ DeletionInv(c)'
  BY <1>13 DEF WriteInv, DeletionInv
<1>15. ASSUME NEW v \in LgWorkers, v # w
       PROVE  WriteInv(lgw[v])' /\ DeletionInv(lgw[v])'
  <2>1. PICK d : d = lgw[v]
    OBVIOUS
  <2>2. lgw'[v] = d /\ WriteInv(d) /\ DeletionInv(d)
    BY <1>13, <1>15, <2>1 DEF LogsInv, ThreadsInv
  <2>3. d.at \in {"loaded", "drawn"} => d.alone # TRUE
    BY <1>1, <1>3, <2>2 DEF WriteInv
  <2>4. d.at = "drawn" => \A l \in DOMAIN lists' : \A i \in DOMAIN lists'[l] : lists'[l][i].seq # d.seq
    <3>1. SUFFICES ASSUME d.at = "drawn"
                   PROVE  \A l \in DOMAIN lists' : \A i \in DOMAIN lists'[l] : lists'[l][i].seq # d.seq
      OBVIOUS
    <3>2. \A l \in DOMAIN lists : \A i \in DOMAIN lists[l] : lists[l][i].seq # d.seq
      BY <2>2, <3>1 DEF WriteInv
    <3>3. \A k \in DOMAIN b.kept : b.kept[k].seq # d.seq
      BY <1>1, <1>5, <1>6, <3>2
    <3> QED
      BY <1>8, <3>2, <3>3
  <2>5. WriteInv(d)'
    BY <1>3, <1>8, <2>2, <2>3, <2>4 DEF WriteInv
  <2>6. DeletionInv(d)'
    <3>1. SUFFICES ASSUME d.at = "filter" PROVE DeletionInv(d)'
      BY DEF DeletionInv
    <3>2. b.alone = FALSE
      BY <1>1, <1>3, <1>15, <2>1, <3>1 DEF LogsInv, ThreadsInv
    <3>3. lgGone' = lgGone
      BY <1>9, <3>2
    <3>4. d.list \in DOMAIN lists /\ d.list \in DOMAIN lists' /\ lists'[d.list] = lists[d.list]
      BY <1>8, <2>2, <3>1 DEF DeletionInv
    <3>5. \A e \in d.before : e.log = d.log /\ LogListed(e)'
      BY <1>10, <2>2, <3>1 DEF DeletionInv
    <3> QED
      BY <1>3, <2>2, <3>1, <3>3, <3>4, <3>5 DEF DeletionInv
  <2> QED
    BY <2>2, <2>5, <2>6
<1>16. ThreadsInv'
  <2>1. \A v \in LgWorkers : WriteInv(lgw[v])' /\ DeletionInv(lgw[v])'
    <3>1. WriteInv(lgw[w])' /\ DeletionInv(lgw[w])'
      BY <1>13, <1>14
    <3> QED
      BY <1>15, <3>1
  <2>2. ASSUME NEW u \in LgWorkers, NEW v \in LgWorkers, u # v
        PROVE  /\ lgw'[u].at = "drawn" /\ lgw'[v].at = "drawn" => lgw'[u].seq # lgw'[v].seq
               /\ lgw'[u].at = "filter" /\ lgw'[v].at = "filter" => lgw'[u].alone = FALSE
    BY <1>13, <2>2 DEF LogsInv, ThreadsInv
  <2> QED
    BY <1>13, <2>1, <2>2 DEF ThreadsInv
<1> QED
  BY <1>11, <1>12, <1>16 DEF LogsInv

(* The rest of a call on a backend that is lost changes nothing. *)
LEMMA LgLostInv ==
  ASSUME LogsInv, NEW w \in LgWorkers, LgLost(w)
  PROVE  LogsInv'
<1>1. PICK c : c = LgIdle
  OBVIOUS
<1>2. /\ lgw' = [lgw EXCEPT ![w] = c] /\ c.at = "idle"
      /\ UNCHANGED <<lists, entries, lgSeq, lgWritten, lgGone>>
  BY <1>1 DEF LgLost, LgIdle
<1>3. WriteInv(c)' /\ DeletionInv(c)'
  BY <1>2 DEF WriteInv, DeletionInv
<1>4. lgSeq' \in Nat /\ lgSeq <= lgSeq'
  BY <1>2 DEF LogsInv, ListsInv
<1> QED
  BY <1>2, <1>3, <1>4, ThreadGoesOn

(* No thread that only creates a backend, or has none, holds a list. *)
LEMMA LgCallInv ==
  ASSUME LogsInv, NEW w \in LgWorkers, LgCall(w)
  PROVE  LogsInv'
<1>1. PICK c : c = [at |-> IF LgCreators = {} THEN "create" ELSE "race"]
  OBVIOUS
<1>2. /\ lgw' = [v \in LgWorkers |-> IF v \in LgCreators \union {w} THEN c ELSE lgw[v]]
      /\ UNCHANGED <<lists, entries, lgSeq, lgWritten, lgGone>>
  BY <1>1 DEF LgCall
<1>3. c.at \in {"create", "race"}
  BY <1>1
<1>4. ListsInv' /\ StayInv'
  BY <1>2 DEF LogsInv, ListsInv, StayInv, LogListed
<1>5. \A v \in LgWorkers : lgw'[v] = c \/ lgw'[v] = lgw[v]
  BY <1>2
<1>6. ASSUME NEW v \in LgWorkers PROVE WriteInv(lgw[v])' /\ DeletionInv(lgw[v])'
  <2>1. CASE lgw'[v] = c
    BY <1>3, <2>1 DEF WriteInv, DeletionInv
  <2>2. CASE lgw'[v] = lgw[v]
    <3>1. PICK d : d = lgw[v]
      OBVIOUS
    <3>2. lgw'[v] = d /\ WriteInv(d) /\ DeletionInv(d)
      BY <2>2, <3>1 DEF LogsInv, ThreadsInv
    <3>3. (\A u \in LgWorkers : lgw[u].at # "filter") => \A u \in LgWorkers : lgw'[u].at # "filter"
      BY <1>3, <1>5
    <3>4. WriteInv(d)'
      BY <1>2, <3>2, <3>3 DEF WriteInv
    <3>5. DeletionInv(d)'
      BY <1>2, <3>2 DEF DeletionInv, LogListed
    <3> QED
      BY <3>2, <3>4, <3>5
  <2> QED
    BY <1>5, <2>1, <2>2
<1>7. ASSUME NEW u \in LgWorkers, NEW v \in LgWorkers, u # v
      PROVE  /\ lgw'[u].at = "drawn" /\ lgw'[v].at = "drawn" => lgw'[u].seq # lgw'[v].seq
             /\ lgw'[u].at = "filter" /\ lgw'[v].at = "filter" => lgw'[u].alone = FALSE
  <2>1. lgw'[u].at \in {"drawn", "filter"} => lgw'[u] = lgw[u]
    BY <1>3, <1>5
  <2>2. lgw'[v].at \in {"drawn", "filter"} => lgw'[v] = lgw[v]
    BY <1>3, <1>5
  <2> QED
    BY <1>7, <2>1, <2>2 DEF LogsInv, ThreadsInv
<1>8. ThreadsInv'
  BY <1>2, <1>6, <1>7 DEF ThreadsInv
<1> QED
  BY <1>4, <1>8 DEF LogsInv

(* Until BackendDict has a backend nothing but its creation is under way,  *)
(* and a creation that saw no other one is the only one.                   *)
LogStartInv ==
  /\ \A w \in LgWorkers : lgw[w].at = "create" => lgBackend # TRUE /\ LgCreators = {w}
  /\ lgBackend # TRUE => /\ lgWritten = {} /\ lgGone = {}
                         /\ \A w \in LgWorkers : lgw[w].at \in {"idle", "create", "race"}

(* A new backend is empty, and nothing is expected of it. *)
LEMMA LgCreateInv ==
  ASSUME LogsInv, LogStartInv, NEW w \in LgWorkers, LgCreate(w)
  PROVE  LogsInv' /\ LogStartInv'
<1>1. /\ lists' = << <<>> >> /\ entries' = 1 /\ lgSeq' = 0 /\ lgBackend' = TRUE
      /\ lgw[w].at \in {"create", "race"}
      /\ lgw' = [v \in LgWorkers |->
           IF v = w THEN [at |-> "ready"]
           ELSE IF lgw[v].at \in {"idle", "create", "race", "ready"} THEN lgw[v]
           ELSE [at |-> "lost"]]
  BY DEF LgCreate, LgCreators
<1>2. lgWritten' = {} /\ lgGone' = {}
  <2>1. CASE lgw[w].at = "race"
    BY <2>1 DEF LgCreate
  <2>2. CASE lgw[w].at = "create"
    BY <2>2 DEF LgCreate, LogStartInv
  <2> QED
    BY <1>1, <2>1, <2>2
<1>3. \A v \in LgWorkers : lgw'[v].at \in {"idle", "create", "race", "ready", "lost"}
  BY <1>1
<1>4. <<>> \in Seq(LogEntry) /\ DOMAIN <<>> = {}
  OBVIOUS
<1>5. /\ lists' \in Seq(Seq(LogEntry)) /\ DOMAIN lists' = {1} /\ lists'[1] = <<>>
  BY <1>1, <1>4
<1>6. ListsInv' /\ StayInv'
  BY <1>1, <1>2, <1>4, <1>5 DEF ListsInv, StayInv
<1>7. ThreadsInv'
  BY <1>1, <1>3 DEF ThreadsInv, WriteInv, DeletionInv
<1>8. \A v \in LgWorkers : lgw'[v].at # "create"
  <2>1. \A v \in LgWorkers : v # w => lgw[v].at # "create"
    BY <1>1 DEF LogStartInv, LgCreators
  <2> QED
    BY <1>1, <2>1
<1>9. LogStartInv'
  BY <1>1, <1>8 DEF LogStartInv
<1> QED
  BY <1>6, <1>7, <1>9 DEF LogsInv

LEMMA LgCallStart ==
  ASSUME LogsInv, LogStartInv, NEW w \in LgWorkers, LgCall(w)
  PROVE  LogStartInv'
<1>1. PICK c : c = [at |-> IF LgCreators = {} THEN "create" ELSE "race"]
  OBVIOUS
<1>2. /\ lgw' = [v \in LgWorkers |-> IF v \in LgCreators \union {w} THEN c ELSE lgw[v]]
      /\ ~lgBackend /\ lgw[w].at = "idle"
      /\ UNCHANGED <<lgBackend, lgWritten, lgGone>>
  BY <1>1 DEF LgCall, LgIdle
<1>3. c.at \in {"create", "race"} /\ (c.at = "create" => LgCreators = {})
  BY <1>1
<1>4. lgBackend # TRUE
  BY <1>2
<1>5. \A v \in LgWorkers : lgw'[v].at \in {"idle", "create", "race"}
  BY <1>2, <1>3, <1>4 DEF LogStartInv
<1>6. ASSUME NEW v \in LgWorkers, lgw'[v].at = "create"
      PROVE  LgCreators' = {v}
  <2>1. LgCreators = {} => v = w /\ \A u \in LgWorkers : lgw'[u].at \in {"create", "race"} => u = w
    BY <1>2, <1>6 DEF LgCreators
  <2>2. LgCreators # {} => FALSE
    BY <1>2, <1>3, <1>6 DEF LgCreators
  <2> QED
    BY <1>6, <2>1, <2>2 DEF LgCreators
<1> QED
  BY <1>2, <1>4, <1>5, <1>6 DEF LogStartInv

(* A thread that works on the backend has one, so none is being created    *)
(* by the only creator.                                                    *)
LEMMA LgWorkStart ==
  ASSUME LogStartInv, NEW w \in LgWorkers,
         lgw[w].at \notin {"idle", "create", "race"} \/ lgBackend,
         \A v \in LgWorkers : lgw'[v].at = "create" => lgw[v].at = "create",
         UNCHANGED lgBackend
  PROVE  LogStartInv'
<1>1. lgBackend = TRUE
  <2>1. CASE lgw[w].at \notin {"idle", "create", "race"}
    <3>1. ~(lgBackend # TRUE)
      BY <2>1, Zenon DEF LogStartInv
    <3> QED
      BY <3>1
  <2>2. CASE lgBackend
    BY <2>2
  <2> QED
    BY <2>1, <2>2
<1>2. \A v \in LgWorkers : lgw[v].at # "create"
  BY <1>1 DEF LogStartInv
<1> QED
  BY <1>1, <1>2 DEF LogStartInv

LEMMA LogsStepInv ==
  LogsInv /\ LogStartInv /\ [LogsNext]_lgVars => LogsInv' /\ LogStartInv'
<1>1. ASSUME LogsInv, UNCHANGED lgVars PROVE LogsInv'
  BY <1>1 DEF lgVars, LogsInv, ListsInv, StayInv, ThreadsInv, WriteInv, DeletionInv, LogListed
<1>2. ASSUME LogStartInv, UNCHANGED lgVars PROVE LogStartInv'
  BY <1>2 DEF lgVars, LogStartInv, LgCreators
<1>3. ASSUME LogsInv, LogStartInv, LogsNext PROVE LogsInv' /\ LogStartInv'
  <2>1. PICK w \in LgWorkers :
          \/ LgCall(w) \/ LgCreate(w) \/ LgLost(w)
          \/ \E n \in 1..LgMaxBatch : \E logs \in [1..n -> LgLogs] : LgWriteEntries(w, logs)
          \/ LgLoad(w) \/ LgDraw(w) \/ LgAppend(w)
          \/ \E log \in LgLogs : LgDeleteLog(w, log)
          \/ LgFilter(w) \/ LgReplace(w)
    BY <1>3 DEF LogsNext
  <2>2. DOMAIN lgw = LgWorkers
    BY <1>3 DEF LogsInv, ThreadsInv
  <2>3. CASE LgCreate(w)
    BY <1>3, <2>3, LgCreateInv
  <2>4. CASE LgCall(w)
    BY <1>3, <2>4, LgCallInv, LgCallStart
  <2>5. CASE LgLost(w)
    <3>1. LogsInv'
      BY <1>3, <2>5, LgLostInv
    <3>2. lgw[w].at = "lost" /\ lgw' = [lgw EXCEPT ![w] = LgIdle] /\ UNCHANGED lgBackend
      BY <2>5 DEF LgLost
    <3>3. \A v \in LgWorkers : lgw'[v].at = "create" => lgw[v].at = "create"
      BY <2>2, <3>2 DEF LgIdle
    <3> QED
      BY <1>3, <3>1, <3>2, <3>3, LgWorkStart
  <2>6. ASSUME NEW n \in 1..LgMaxBatch, NEW logs \in [1..n -> LgLogs], LgWriteEntries(w, logs)
        PROVE  LogsInv' /\ LogStartInv'
    <3>1. LogsInv'
      BY <1>3, <2>6, LgWriteEntriesInv
    <3>2. /\ lgw[w].at = "ready" \/ lgBackend
          /\ lgw' = [lgw EXCEPT ![w] = [at |-> "write", todo |-> logs]] /\ UNCHANGED lgBackend
      BY <2>6 DEF LgWriteEntries, LgBegin
    <3>3. \A v \in LgWorkers : lgw'[v].at = "create" => lgw[v].at = "create"
      BY <2>2, <3>2
    <3> QED
      BY <1>3, <3>1, <3>2, <3>3, LgWorkStart
  <2>7. CASE LgLoad(w)
    <3>1. LogsInv'
      BY <1>3, <2>7, LgLoadInv
    <3>2. lgw[w].at = "write" /\ UNCHANGED lgBackend
      BY <2>7 DEF LgLoad
    <3>3. \A v \in LgWorkers : lgw'[v].at = "create" => lgw[v].at = "create"
      BY <2>2, <2>7 DEF LgLoad
    <3> QED
      BY <1>3, <3>1, <3>2, <3>3, LgWorkStart
  <2>8. CASE LgDraw(w)
    <3>1. LogsInv'
      BY <1>3, <2>8, LgDrawInv
    <3>2. lgw[w].at = "loaded" /\ UNCHANGED lgBackend
      BY <2>8 DEF LgDraw
    <3>3. \A v \in LgWorkers : lgw'[v].at = "create" => lgw[v].at = "create"
      BY <2>2, <2>8 DEF LgDraw
    <3> QED
      BY <1>3, <3>1, <3>2, <3>3, LgWorkStart
  <2>9. CASE LgAppend(w)
    <3>1. LogsInv'
      BY <1>3, <2>9, LgAppendInv
    <3>2. PICK c : c = IF Tail(lgw[w].todo) = <<>> THEN LgIdle
                       ELSE [at |-> "write", todo |-> Tail(lgw[w].todo)]
      OBVIOUS
    <3>3. lgw[w].at = "drawn" /\ lgw' = [lgw EXCEPT ![w] = c] /\ UNCHANGED lgBackend
      BY <2>9, <3>2 DEF LgAppend
    <3>4. c.at # "create"
      BY <3>2 DEF LgIdle
    <3>5. \A v \in LgWorkers : lgw'[v].at = "create" => lgw[v].at = "create"
      BY <2>2, <3>3, <3>4
    <3> QED
      BY <1>3, <3>1, <3>3, <3>5, LgWorkStart
  <2>10. ASSUME NEW log \in LgLogs, LgDeleteLog(w, log)
         PROVE  LogsInv' /\ LogStartInv'
    <3>1. LogsInv'
      BY <1>3, <2>10, LgDeleteLogInv
    <3>2. (lgw[w].at = "ready" \/ lgBackend) /\ UNCHANGED lgBackend
      BY <2>10 DEF LgDeleteLog, LgBegin
    <3>3. ASSUME NEW v \in LgWorkers, lgw'[v].at = "create" PROVE lgw[v].at = "create"
      <4>1. lgw'[v] = IF v = w
               THEN [at |-> "filter", log |-> log, list |-> entries, next |-> 1, kept |-> <<>>,
                     before |-> {e \in lgWritten : e.log = log}, alone |-> LgDeleting = {}]
               ELSE IF lgw[v].at \in {"loaded", "drawn", "filter"} THEN [lgw[v] EXCEPT !.alone = FALSE]
               ELSE lgw[v]
        BY <2>10 DEF LgDeleteLog
      <4>2. CASE lgw[v].at \in {"loaded", "drawn", "filter"}
        <5>1. lgw[v] \in Loaded \union Drawn \union Deletion
          BY <1>3, <4>2 DEF LogsInv, ThreadsInv, WriteInv, DeletionInv
        <5>2. [lgw[v] EXCEPT !.alone = FALSE].at = lgw[v].at
          BY <5>1 DEF Loaded, Drawn, Deletion
        <5> QED
          BY <3>3, <4>1, <4>2, <5>2
      <4>3. CASE lgw[v].at \notin {"loaded", "drawn", "filter"}
        BY <3>3, <4>1, <4>3
      <4> QED
        BY <4>2, <4>3
    <3> QED
      BY <1>3, <3>1, <3>2, <3>3, LgWorkStart
  <2>11. CASE LgFilter(w)
    <3>1. LogsInv'
      BY <1>3, <2>11, LgFilterInv
    <3>2. lgw[w].at = "filter" /\ UNCHANGED lgBackend
      BY <2>11 DEF LgFilter
    <3>3. \A v \in LgWorkers : lgw'[v].at = "create" => lgw[v].at = "create"
      <4>1. lgw[w] \in Deletion
        BY <1>3, <3>2 DEF LogsInv, ThreadsInv, DeletionInv
      <4>2. \A v \in LgWorkers : v # w => lgw'[v] = lgw[v]
        BY <2>2, <2>11 DEF LgFilter
      <4>3. lgw'[w].at = lgw[w].at
        BY <2>2, <2>11, <4>1 DEF LgFilter, Deletion
      <4> QED
        BY <4>2, <4>3
    <3> QED
      BY <1>3, <3>1, <3>2, <3>3, LgWorkStart
  <2>12. CASE LgReplace(w)
    <3>1. LogsInv'
      BY <1>3, <2>12, LgReplaceInv
    <3>2. lgw[w].at = "filter" /\ lgw' = [lgw EXCEPT ![w] = LgIdle] /\ UNCHANGED lgBackend
      BY <2>12 DEF LgReplace
    <3>3. \A v \in LgWorkers : lgw'[v].at = "create" => lgw[v].at = "create"
      BY <2>2, <3>2 DEF LgIdle
    <3> QED
      BY <1>3, <3>1, <3>2, <3>3, LgWorkStart
  <2> QED
    BY <2>1, <2>3, <2>4, <2>5, <2>6, <2>7, <2>8, <2>9, <2>10, <2>11, <2>12
<1> QED
  BY <1>1, <1>2, <1>3

LEMMA LogStartInit == LogsInit => LogStartInv
<1> SUFFICES ASSUME LogsInit PROVE LogStartInv
  OBVIOUS
<1>1. \A w \in LgWorkers : lgw[w].at = "idle"
  BY DEF LogsInit, LgIdle
<1>2. lgWritten = {} /\ lgGone = {}
  BY DEF LogsInit
<1> QED
  BY <1>1, <1>2 DEF LogStartInv

LEMMA LogsInvMeans == LogsInv => LogsKept
<1> SUFFICES ASSUME LogsInv PROVE LogsKept
  OBVIOUS
<1>1. lgWritten \subseteq LgItems
  BY DEF LogsInv, StayInv, LgItems
<1>2. lgGone \intersect LgItems = {}
  BY DEF LogsInv, StayInv, LgItems
<1>3. \A i, j \in DOMAIN lists[entries] :
        lists[entries][i].seq = lists[entries][j].seq => i = j
  BY DEF LogsInv, ListsInv
<1> QED
  BY <1>1, <1>2, <1>3 DEF LogsKept

(* Cloud Logging, for any number of worker threads, from the first RPC on: *)
(* an entry written while no deletion is at work stays until its own log   *)
(* is deleted, one that a deletion found alone removed never comes back,   *)
(* and no entry is listed twice, nor two under one number, whatever the    *)
(* threads do, but create a backend while another one creates it.          *)
THEOREM LogsAreKept == ControlSpec => []LogsKept
<1>1. ControlInit => LogsInv /\ LogStartInv
  BY ControlInits, LogsInitInv, LogStartInit
<1>2. (LogsInv /\ LogStartInv) /\ [ControlNext]_controlVars => (LogsInv /\ LogStartInv)'
  BY OneService, LogsStepInv
<1>3. LogsInv /\ LogStartInv => LogsKept
  BY LogsInvMeans
<1> QED
  BY <1>1, <1>2, <1>3, PTL DEF ControlSpec, controlVars

------------------------------------------------------------------------------
(* Sets of numbers.  Intervals are ordered well by strict inclusion, so    *)
(* among the numbers of any set of naturals one is least; and a finite set *)
(* that is not empty has a greatest.                                       *)

------------------------------------------------------------------------------
(* Secret Manager and Cloud KMS: the inductive invariant.  A version holds *)
(* what was added under its number unless it is among the destroyed, and   *)
(* only versions there are have been destroyed.                            *)

VersionsInv(s, versions, added, gone) ==
  /\ versions \in Seq(SmVersion) /\ added \in Seq(SmData) /\ Len(versions) = Len(added)
  /\ \A n \in DOMAIN versions :
       versions[n].data = IF <<s, n>> \in gone THEN SmDestroyed ELSE added[n]

PayloadsInv ==
  /\ DOMAIN smAdded = DOMAIN secrets
  /\ \A s \in DOMAIN secrets : VersionsInv(s, secrets[s], smAdded[s], smGone)
  /\ \A v \in smGone : /\ v = <<v[1], v[2]>>
                       /\ v[1] \in DOMAIN secrets /\ v[2] \in DOMAIN secrets[v[1]]

TokensInv ==
  /\ tokens \subseteq [k : KmKeys, p : SmData, a : KmAads]
  /\ \A t \in tokens : t.k \in cryptoKeys

SecretsInv == PayloadsInv /\ TokensInv

LEMMA SecretsInitInv == SecretsInit => SecretsInv
BY DEF SecretsInit, SecretsInv, PayloadsInv, TokensInv

(* What _resolve_version finds: the version with the number, or the newest *)
(* one that is enabled.                                                    *)
LEMMA Resolved ==
  ASSUME PayloadsInv, NEW s \in DOMAIN secrets, NEW label, NEW n, n = SmResolve(s, label)
  PROVE  /\ n # 0 => n \in DOMAIN secrets[s] /\ (label # 0 => n = label)
         /\ label = 0 => \A m \in DOMAIN secrets[s] :
              secrets[s][m].state = "ENABLED" => n # 0 /\ secrets[s][n].state = "ENABLED" /\ m <= n
<1>1. PICK L : L = secrets[s]
  OBVIOUS
<1>2. L \in Seq(SmVersion) /\ Len(L) \in Nat /\ DOMAIN L = 1..Len(L)
  BY <1>1, LenProperties DEF PayloadsInv, VersionsInv
<1>3. CASE label # 0
  BY <1>3 DEF SmResolve
<1>4. CASE label = 0
  <2>1. PICK enabled : enabled = {m \in DOMAIN L : L[m].state = "ENABLED"}
    OBVIOUS
  <2>2. n = IF enabled = {} THEN 0 ELSE CHOOSE k \in enabled : \A m \in enabled : m <= k
    BY <1>1, <1>4, <2>1 DEF SmResolve
  <2>3. CASE enabled = {}
    BY <1>1, <1>4, <2>1, <2>2, <2>3
  <2>4. CASE enabled # {}
    <3>1. enabled \subseteq 1..Len(L)
      BY <1>2, <2>1
    <3>2. \E k \in enabled : \A m \in enabled : m <= k
      BY <1>2, <2>4, <3>1, GreatestNumber
    <3>3. n \in enabled /\ \A m \in enabled : m <= n
      BY <2>2, <2>4, <3>2
    <3>4. n # 0
      BY <1>2, <3>1, <3>3
    <3> QED
      BY <1>1, <1>4, <2>1, <3>3, <3>4
  <2> QED
    BY <2>3, <2>4
<1> QED
  BY <1>3, <1>4

LEMMA SmCreateSecretInv ==
  ASSUME PayloadsInv, NEW s \in SmSecrets, SmCreateSecret(s)
  PROVE  PayloadsInv'
<1>1. /\ s \notin DOMAIN secrets /\ UNCHANGED smGone
      /\ DOMAIN secrets' = DOMAIN secrets \union {s} /\ DOMAIN smAdded' = DOMAIN smAdded \union {s}
      /\ secrets'[s] = <<>> /\ smAdded'[s] = <<>>
      /\ \A t \in DOMAIN secrets : secrets'[t] = secrets[t] /\ smAdded'[t] = smAdded[t]
  BY DEF SmCreateSecret, SmWith, PayloadsInv
<1>2. <<>> \in Seq(SmVersion) /\ <<>> \in Seq(SmData) /\ DOMAIN <<>> = {} /\ Len(<<>>) = Len(<<>>)
  OBVIOUS
<1>3. VersionsInv(s, <<>>, <<>>, smGone)
  BY <1>2 DEF VersionsInv
<1>4. \A t \in DOMAIN secrets : VersionsInv(t, secrets[t], smAdded[t], smGone)
  BY DEF PayloadsInv
<1>5. \A t \in DOMAIN secrets' : VersionsInv(t, secrets'[t], smAdded'[t], smGone')
  BY <1>1, <1>3, <1>4
<1>6. \A g \in smGone' : g = <<g[1], g[2]>> /\ g[1] \in DOMAIN secrets' /\ g[2] \in DOMAIN secrets'[g[1]]
  BY <1>1 DEF PayloadsInv
<1>7. DOMAIN smAdded' = DOMAIN secrets'
  BY <1>1 DEF PayloadsInv
<1> QED
  BY <1>5, <1>6, <1>7 DEF PayloadsInv

LEMMA SmDeleteSecretInv ==
  ASSUME PayloadsInv, NEW s \in SmSecrets, SmDeleteSecret(s)
  PROVE  PayloadsInv'
<1>1. /\ DOMAIN secrets' = DOMAIN secrets \ {s} /\ DOMAIN smAdded' = DOMAIN smAdded \ {s}
      /\ \A t \in DOMAIN secrets : t # s => secrets'[t] = secrets[t] /\ smAdded'[t] = smAdded[t]
      /\ smGone' = {v \in smGone : v[1] # s}
  BY DEF SmDeleteSecret, SmDrop, PayloadsInv
<1>2. ASSUME NEW t \in DOMAIN secrets, t # s
      PROVE  VersionsInv(t, secrets[t], smAdded[t], smGone')
  <2>1. \A n : <<t, n>>[1] = t
    OBVIOUS
  <2>2. \A n : <<t, n>> \in smGone' <=> <<t, n>> \in smGone
    BY <1>1, <1>2, <2>1
  <2> QED
    BY <2>2 DEF PayloadsInv, VersionsInv
<1>3. \A t \in DOMAIN secrets' : VersionsInv(t, secrets'[t], smAdded'[t], smGone')
  BY <1>1, <1>2
<1>4. \A g \in smGone' : g = <<g[1], g[2]>> /\ g[1] \in DOMAIN secrets' /\ g[2] \in DOMAIN secrets'[g[1]]
  BY <1>1 DEF PayloadsInv
<1>5. DOMAIN smAdded' = DOMAIN secrets'
  BY <1>1 DEF PayloadsInv
<1> QED
  BY <1>3, <1>4, <1>5 DEF PayloadsInv

LEMMA SmAddVersionInv ==
  ASSUME PayloadsInv, NEW s \in SmSecrets, NEW data \in SmData, SmAddVersion(s, data)
  PROVE  PayloadsInv'
<1>1. PICK L, A, v : L = secrets[s] /\ A = smAdded[s] /\ v = [data |-> data, state |-> "ENABLED"]
  OBVIOUS
<1>2. /\ s \in DOMAIN secrets /\ UNCHANGED smGone
      /\ secrets' = [secrets EXCEPT ![s] = Append(L, v)]
      /\ smAdded' = [smAdded EXCEPT ![s] = Append(A, data)]
  BY <1>1 DEF SmAddVersion
<1>3. /\ DOMAIN secrets' = DOMAIN secrets /\ DOMAIN smAdded' = DOMAIN secrets
      /\ secrets'[s] = Append(L, v) /\ smAdded'[s] = Append(A, data)
      /\ \A t \in DOMAIN secrets : t # s => secrets'[t] = secrets[t] /\ smAdded'[t] = smAdded[t]
  BY <1>2 DEF PayloadsInv, VersionsInv
<1>4. /\ L \in Seq(SmVersion) /\ A \in Seq(SmData) /\ Len(L) = Len(A) /\ Len(L) \in Nat
      /\ DOMAIN L = 1..Len(L) /\ v \in SmVersion /\ v.data = data
      /\ \A n \in DOMAIN L : L[n].data = IF <<s, n>> \in smGone THEN SmDestroyed ELSE A[n]
  BY <1>1, <1>2, LenProperties DEF PayloadsInv, VersionsInv, SmVersion
<1>5. PICK M, B : M = Append(L, v) /\ B = Append(A, data)
  OBVIOUS
<1>6. /\ M \in Seq(SmVersion) /\ B \in Seq(SmData) /\ Len(M) = Len(B) /\ Len(M) = Len(L) + 1
      /\ M[Len(L) + 1] = v /\ B[Len(L) + 1] = data
      /\ \A n \in 1..Len(L) : M[n] = L[n] /\ B[n] = A[n]
  BY <1>4, <1>5, AppendProperties
<1>7. /\ DOMAIN M = 1..(Len(L) + 1)
      /\ \A n \in DOMAIN M : n \in DOMAIN L \/ (n = Len(L) + 1 /\ n \notin DOMAIN L)
      /\ \A n \in DOMAIN L : n \in DOMAIN M
  BY <1>4, <1>6, LenProperties
<1>8. \A n \in DOMAIN M : M[n].data = IF <<s, n>> \in smGone THEN SmDestroyed ELSE B[n]
  <2>1. ASSUME NEW n \in DOMAIN M, n \notin DOMAIN L
        PROVE  M[n].data = B[n] /\ <<s, n>> \notin smGone
    <3>1. n = Len(L) + 1
      BY <1>7, <2>1
    <3>2. M[n].data = B[n]
      BY <1>4, <1>6, <3>1
    <3>3. <<s, n>>[1] = s /\ <<s, n>>[2] = n
      OBVIOUS
    <3> QED
      BY <1>1, <2>1, <3>2, <3>3 DEF PayloadsInv, VersionsInv
  <2> QED
    BY <1>4, <1>6, <1>7, <2>1
<1>9. VersionsInv(s, M, B, smGone)
  BY <1>6, <1>8 DEF VersionsInv
<1>10. ASSUME NEW t \in DOMAIN secrets', t # s
       PROVE  VersionsInv(t, secrets[t], smAdded[t], smGone)
  BY <1>3 DEF PayloadsInv
<1>11. \A t \in DOMAIN secrets' : VersionsInv(t, secrets'[t], smAdded'[t], smGone')
  BY <1>2, <1>3, <1>5, <1>9, <1>10
<1>12. \A g \in smGone' : g = <<g[1], g[2]>> /\ g[1] \in DOMAIN secrets' /\ g[2] \in DOMAIN secrets'[g[1]]
  BY <1>1, <1>2, <1>3, <1>5, <1>7 DEF PayloadsInv
<1> QED
  BY <1>3, <1>11, <1>12 DEF PayloadsInv

LEMMA SmSetStateInv ==
  ASSUME PayloadsInv, NEW s \in SmSecrets, NEW label, NEW state \in {"ENABLED", "DISABLED", "DESTROYED"},
         SmSetState(s, label, state)
  PROVE  PayloadsInv'
<1>1. PICK n, L, v : /\ n = SmResolve(s, label) /\ L = secrets[s]
                     /\ v = [data |-> IF state = "DESTROYED" THEN SmDestroyed ELSE L[n].data,
                             state |-> state]
  OBVIOUS
<1>2. /\ s \in DOMAIN secrets /\ n # 0 /\ UNCHANGED smAdded
      /\ secrets' = [secrets EXCEPT ![s] = [L EXCEPT ![n] = v]]
      /\ smGone' = IF state = "DESTROYED" THEN smGone \union {<<s, n>>} ELSE smGone
  BY <1>1 DEF SmSetState
<1>3. n \in DOMAIN L
  BY <1>1, <1>2, Resolved
<1>4. /\ L \in Seq(SmVersion) /\ Len(L) \in Nat /\ DOMAIN L = 1..Len(L) /\ Len(L) = Len(smAdded[s])
      /\ \A k \in DOMAIN L : L[k].data = IF <<s, k>> \in smGone THEN SmDestroyed ELSE smAdded[s][k]
  BY <1>1, <1>2, LenProperties DEF PayloadsInv, VersionsInv
<1>5. v \in SmVersion /\ v.data = IF state = "DESTROYED" THEN SmDestroyed ELSE L[n].data
  <2>1. L[n] \in SmVersion
    BY <1>3, <1>4, ElementOfSeq
  <2> QED
    BY <1>1, <2>1 DEF SmVersion
<1>6. PICK M : M = [L EXCEPT ![n] = v]
  OBVIOUS
<1>7. /\ M \in Seq(SmVersion) /\ DOMAIN M = DOMAIN L /\ M[n] = v
      /\ \A k \in DOMAIN L : k # n => M[k] = L[k]
  BY <1>3, <1>4, <1>5, <1>6, Replaced
<1>8. Len(M) = Len(L)
  BY <1>4, <1>7, LenProperties
<1>9. /\ DOMAIN secrets' = DOMAIN secrets /\ secrets'[s] = M
      /\ \A t \in DOMAIN secrets : t # s => secrets'[t] = secrets[t]
  BY <1>2, <1>6
<1>10. /\ \A t, k : <<t, k>> \in smGone' <=> <<t, k>> \in smGone \/ (state = "DESTROYED" /\ t = s /\ k = n)
       /\ \A g \in smGone' : g \in smGone \/ g = <<s, n>>
  BY <1>2
<1>11. \A k \in DOMAIN M : M[k].data = IF <<s, k>> \in smGone' THEN SmDestroyed ELSE smAdded[s][k]
  <2>1. ASSUME NEW k \in DOMAIN M, k # n
        PROVE  M[k].data = IF <<s, k>> \in smGone' THEN SmDestroyed ELSE smAdded[s][k]
    BY <1>4, <1>7, <1>10, <2>1
  <2>2. M[n].data = IF <<s, n>> \in smGone' THEN SmDestroyed ELSE smAdded[s][n]
    BY <1>3, <1>4, <1>5, <1>7, <1>10
  <2> QED
    BY <2>1, <2>2
<1>12. \A g \in smGone' : g = <<g[1], g[2]>> /\ g[1] \in DOMAIN secrets' /\ g[2] \in DOMAIN secrets'[g[1]]
  <2>1. ASSUME NEW g \in smGone PROVE g = <<g[1], g[2]>> /\ g[1] \in DOMAIN secrets' /\ g[2] \in DOMAIN secrets'[g[1]]
    BY <1>1, <1>7, <1>9 DEF PayloadsInv, VersionsInv
  <2>2. ASSUME NEW g, g = <<s, n>> PROVE g = <<g[1], g[2]>> /\ g[1] \in DOMAIN secrets' /\ g[2] \in DOMAIN secrets'[g[1]]
    BY <1>2, <1>3, <1>7, <1>9, <2>2
  <2> QED
    BY <1>10, <2>1, <2>2
<1>13. VersionsInv(s, M, smAdded[s], smGone')
  <2>1. smAdded[s] \in Seq(SmData)
    BY <1>2 DEF PayloadsInv, VersionsInv
  <2> QED
    BY <1>4, <1>7, <1>8, <1>11, <2>1 DEF VersionsInv
<1>14. ASSUME NEW t \in DOMAIN secrets, t # s
       PROVE  VersionsInv(t, secrets[t], smAdded[t], smGone')
  <2>1. \A k : <<t, k>> \in smGone' <=> <<t, k>> \in smGone
    BY <1>10, <1>14
  <2> QED
    BY <2>1 DEF PayloadsInv, VersionsInv
<1>15. \A t \in DOMAIN secrets' : VersionsInv(t, secrets'[t], smAdded'[t], smGone')
  BY <1>2, <1>9, <1>13, <1>14
<1>16. DOMAIN smAdded' = DOMAIN secrets'
  BY <1>2, <1>9 DEF PayloadsInv
<1> QED
  BY <1>12, <1>15, <1>16 DEF PayloadsInv

LEMMA SecretsStepInv == SecretsInv /\ [SecretsNext]_smVars => SecretsInv'
<1>1. ASSUME SecretsInv, UNCHANGED smVars PROVE SecretsInv'
  BY <1>1 DEF smVars, SecretsInv, PayloadsInv, TokensInv
<1>2. ASSUME SecretsInv, SecretManagerNext PROVE SecretsInv'
  <2>1. PICK s \in SmSecrets :
          \/ SmCreateSecret(s) \/ SmDeleteSecret(s)
          \/ \E data \in SmData : SmAddVersion(s, data)
          \/ \E label \in 0..SmMaxVersions, state \in {"ENABLED", "DISABLED", "DESTROYED"} :
               SmSetState(s, label, state)
    BY <1>2 DEF SecretManagerNext
  <2>2. UNCHANGED <<tokens, cryptoKeys>>
    BY <2>1 DEF SmCreateSecret, SmDeleteSecret, SmAddVersion, SmSetState, SmOnly
  <2>3. PayloadsInv'
    BY <1>2, <2>1, SmCreateSecretInv, SmDeleteSecretInv, SmAddVersionInv, SmSetStateInv
       DEF SecretsInv
  <2> QED
    BY <1>2, <2>2, <2>3 DEF SecretsInv, TokensInv
<1>3. ASSUME SecretsInv, KMSNext PROVE SecretsInv'
  <2>1. PICK k \in KmKeys : \/ KmCreateKeyRing(k[1]) \/ KmCreateCryptoKey(k)
                            \/ \E p \in SmData, a \in KmAads : KmEncrypt(k, p, a)
    BY <1>3 DEF KMSNext
  <2>2. UNCHANGED <<secrets, smAdded, smGone>>
    BY <2>1 DEF KmCreateKeyRing, KmCreateCryptoKey, KmEncrypt, KmOnly
  <2>3. PayloadsInv'
    BY <1>3, <2>2 DEF SecretsInv, PayloadsInv, VersionsInv
  <2>4. TokensInv'
    BY <1>3, <2>1 DEF SecretsInv, TokensInv, KmCreateKeyRing, KmCreateCryptoKey, KmEncrypt
  <2> QED
    BY <2>3, <2>4 DEF SecretsInv
<1> QED
  BY <1>1, <1>2, <1>3 DEF SecretsNext

LEMMA SecretsInvMeans == SecretsInv => SecretsKept
<1> SUFFICES ASSUME SecretsInv PROVE SecretsKept
  OBVIOUS
<1>1. ASSUME NEW s \in DOMAIN secrets, NEW label \in 0..SmMaxVersions, NEW n, n = SmAccess(s, label)
      PROVE  /\ n # 0 => /\ secrets[s][n].data = IF <<s, n>> \in smGone THEN SmDestroyed
                                                 ELSE smAdded[s][n]
                         /\ label \in {0, n}
             /\ label = 0 => \A m \in DOMAIN secrets[s] : secrets[s][m].state = "ENABLED" => n >= m
  <2>1. PICK k : k = SmResolve(s, label)
    OBVIOUS
  <2>2. n = IF k # 0 /\ secrets[s][k].state = "ENABLED" THEN k ELSE 0
    BY <1>1, <2>1 DEF SmAccess
  <2>3. /\ k # 0 => k \in DOMAIN secrets[s] /\ (label # 0 => k = label)
        /\ label = 0 => \A m \in DOMAIN secrets[s] :
             secrets[s][m].state = "ENABLED" => k # 0 /\ secrets[s][k].state = "ENABLED" /\ m <= k
    BY <2>1, Resolved DEF SecretsInv
  <2>4. \A m \in DOMAIN secrets[s] : m <= k => k >= m
    OBVIOUS
  <2> QED
    BY <2>2, <2>3, <2>4 DEF SecretsInv, PayloadsInv, VersionsInv
<1>2. PayloadsKept
  BY <1>1 DEF PayloadsKept
<1>3. TokensOpen
  BY DEF SecretsInv, TokensInv, TokensOpen, KmDecrypt
<1> QED
  BY <1>2, <1>3 DEF SecretsKept

(* Secret Manager and Cloud KMS: a version number gives what was added     *)
(* under it and nothing once that was destroyed, "latest" the newest       *)
(* version enabled, for any number of versions; a ciphertext opens with    *)
(* its own key and data for good, and with no others.                      *)
THEOREM SecretsStayKept == ControlSpec => []SecretsKept
<1>1. ControlInit => SecretsInv
  BY ControlInits, SecretsInitInv
<1>2. SecretsInv /\ [ControlNext]_controlVars => SecretsInv'
  BY OneService, SecretsStepInv
<1>3. SecretsInv => SecretsKept
  BY SecretsInvMeans
<1> QED
  BY <1>1, <1>2, <1>3, PTL DEF ControlSpec, controlVars

------------------------------------------------------------------------------
(* IAM service accounts: the inductive invariant.  Accounts, ids and keys  *)
(* by themselves (AccountsInv), each thread's call (CallInv), no number    *)
(* drawn twice (DrawnInv); and for an email no two calls have contested    *)
(* (EmailInv): one thread at most creates or deletes it, and how far the   *)
(* tables agree about it depends on where that thread is (StageInv).       *)

Account == [email : SaEmails, uid : Nat, disabled : BOOLEAN, keys : SUBSET Nat]

AccountsInv ==
  /\ accounts \in Seq(Account) /\ uidSeq \in Nat /\ keyCounter \in Nat
  /\ \A a \in DOMAIN accounts : /\ accounts[a].uid \in 1..uidSeq
                                /\ accounts[a].keys \subseteq 1..keyCounter
  /\ \A a, b \in DOMAIN accounts : a # b =>
       /\ accounts[a].uid # accounts[b].uid
       /\ \A k \in accounts[a].keys : k \notin accounts[b].keys

AccountTables ==
  /\ DOMAIN serviceAccounts \subseteq SaEmails
  /\ \A e \in DOMAIN serviceAccounts : /\ serviceAccounts[e] \in DOMAIN accounts
                                       /\ accounts[serviceAccounts[e]].email = e
  /\ \A u \in DOMAIN uniqueIds :
       \E a \in DOMAIN accounts : accounts[a].uid = u /\ accounts[a].email = uniqueIds[u]

Creating  == [at : {"create"}, op : {"create"}, email : SaEmails, uid : Nat]
LookingUp == [at : {"lookup"}, op : SaOps, email : SaEmails]
Holding   == [at : {"held", "popped"}, op : SaOps, email : SaEmails, account : Nat]
Keying    == [at : {"keyed"}, op : {"create_key"}, email : SaEmails, account : Nat, key : Nat]

CallInv(c) ==
  /\ c.at \in SaOutside \union {"create", "lookup", "held", "popped", "keyed"}
  /\ c.at = "create" => /\ c \in Creating /\ c.uid \in 1..uidSeq
                        /\ \A a \in DOMAIN accounts : accounts[a].uid # c.uid
  /\ c.at = "lookup" => c \in LookingUp
  /\ c.at \in {"held", "popped"} => c \in Holding
  /\ c.at = "popped" => c.op = "delete"
  /\ c.at = "keyed" => /\ c \in Keying /\ c.key \in 1..keyCounter
                       /\ \A a \in DOMAIN accounts : c.key \notin accounts[a].keys
  /\ c.at \in {"held", "popped", "keyed"} => /\ c.account \in DOMAIN accounts
                                             /\ accounts[c.account].email = c.email

DrawnInv ==
  \A v, w \in SaWorkers : v # w =>
    /\ saw[v].at = "create" /\ saw[w].at = "create" => saw[v].uid # saw[w].uid
    /\ saw[v].at = "keyed" /\ saw[w].at = "keyed" => saw[v].key # saw[w].key

Changes(c, e) == /\ c.at \in {"create", "lookup", "held", "popped", "keyed"}
                 /\ c.op \in {"create", "delete"} /\ c.email = e
TablesAgree(e) ==
  /\ e \in DOMAIN serviceAccounts =>
       /\ accounts[serviceAccounts[e]].uid \in DOMAIN uniqueIds
       /\ uniqueIds[accounts[serviceAccounts[e]].uid] = e
  /\ \A u \in DOMAIN uniqueIds : uniqueIds[u] = e =>
       e \in DOMAIN serviceAccounts /\ accounts[serviceAccounts[e]].uid = u
NoIdOf(e) == \A u \in DOMAIN uniqueIds : uniqueIds[u] # e

StageInv(c, e) ==
  /\ c.at = "create" => e \notin DOMAIN serviceAccounts /\ NoIdOf(e)
  /\ c.at = "lookup" => TablesAgree(e)
  /\ c.at = "held" => /\ TablesAgree(e)
                      /\ e \in DOMAIN serviceAccounts /\ c.account = serviceAccounts[e]
  /\ c.at = "popped" => NoIdOf(e)

EmailInv(e) ==
  e \notin saContested =>
    /\ \A v, w \in SaWorkers : Changes(saw[v], e) /\ Changes(saw[w], e) => v = w
    /\ (\A w \in SaWorkers : ~Changes(saw[w], e)) => TablesAgree(e)
    /\ \A w \in SaWorkers : Changes(saw[w], e) => StageInv(saw[w], e)

SaCallsInv == DOMAIN saw = SaWorkers /\ DrawnInv /\ \A w \in SaWorkers : CallInv(saw[w])
SaInv == AccountsInv /\ AccountTables /\ SaCallsInv /\ \A e \in SaEmails : EmailInv(e)

(* What the creators were told is what the accounts carry. *)
GivenInv == saGiven = [e \in DOMAIN serviceAccounts |-> accounts[serviceAccounts[e]].uid]

(* Until BackendDict has a backend nothing but its creation is under way,  *)
(* and a creation that saw no other one is the only one.                   *)
SaStartInv ==
  /\ \A w \in SaWorkers : saw[w].at = "first" => saBackend # TRUE /\ SaCreators = {w}
  /\ saBackend # TRUE => /\ saContested = {} /\ saGiven = [e \in {} |-> 0]
                         /\ \A w \in SaWorkers : saw[w].at \in {"idle", "first", "race"}

(* New ids and keys and what calls are at are no matter of the accounts. *)
LEMMA AccountsStay ==
  ASSUME AccountsInv, accounts' = accounts, uidSeq' \in Nat, uidSeq <= uidSeq',
         keyCounter' \in Nat, keyCounter <= keyCounter'
  PROVE  AccountsInv'
<1>1. uidSeq \in Nat /\ keyCounter \in Nat
  BY DEF AccountsInv
<1>2. (\A n \in 1..uidSeq : n \in 1..uidSeq') /\ (\A n \in 1..keyCounter : n \in 1..keyCounter')
  BY <1>1
<1>3. \A a \in DOMAIN accounts : /\ accounts[a].uid \in 1..uidSeq'
                                 /\ accounts[a].keys \subseteq 1..keyCounter'
  BY <1>2 DEF AccountsInv
<1> QED
  BY <1>3 DEF AccountsInv

LEMMA TablesStay ==
  ASSUME AccountTables, UNCHANGED <<accounts, serviceAccounts, uniqueIds>>
  PROVE  AccountTables'
BY DEF AccountTables

LEMMA SaInitInv == ServiceAccountsInit => SaInv
<1> SUFFICES ASSUME ServiceAccountsInit PROVE SaInv
  OBVIOUS
<1>1. /\ accounts = <<>> /\ DOMAIN serviceAccounts = {} /\ DOMAIN uniqueIds = {}
      /\ uidSeq = 0 /\ keyCounter = 0 /\ saw = [w \in SaWorkers |-> [at |-> "idle"]]
  BY DEF ServiceAccountsInit, SaIdle
<1>2. <<>> \in Seq(Account) /\ DOMAIN <<>> = {}
  OBVIOUS
<1>3. AccountsInv /\ AccountTables
  <2>1. AccountsInv
    BY <1>1, <1>2 DEF AccountsInv
  <2>2. AccountTables
    BY <1>1, <1>2 DEF AccountTables
  <2> QED
    BY <2>1, <2>2
<1>4. DOMAIN saw = SaWorkers /\ \A w \in SaWorkers : saw[w].at = "idle"
  BY <1>1
<1>5. SaCallsInv
  BY <1>4 DEF SaCallsInv, DrawnInv, CallInv, SaOutside
<1>6. \A e \in SaEmails : EmailInv(e)
  BY <1>1, <1>4 DEF EmailInv, Changes, TablesAgree
<1> QED
  BY <1>3, <1>5, <1>6 DEF SaInv

(* What a call relies on is still there once accounts have been added or   *)
(* changed, if none of what it has drawn is in use.                        *)
LEMMA CallStays ==
  ASSUME NEW d, CallInv(d), AccountsInv, DOMAIN accounts \subseteq DOMAIN accounts',
         uidSeq' \in Nat, uidSeq <= uidSeq', keyCounter' \in Nat, keyCounter <= keyCounter',
         \A a \in DOMAIN accounts : accounts'[a].email = accounts[a].email,
         d.at = "create" => \A a \in DOMAIN accounts' : accounts'[a].uid # d.uid,
         d.at = "keyed" => \A a \in DOMAIN accounts' : d.key \notin accounts'[a].keys
  PROVE  CallInv(d)'
<1>1. /\ \A n \in 1..uidSeq : n \in 1..uidSeq'
      /\ \A n \in 1..keyCounter : n \in 1..keyCounter'
  BY DEF AccountsInv
<1> QED
  BY <1>1 DEF CallInv

(* A thread goes on with call c. *)
LEMMA CallGoesOn ==
  ASSUME SaCallsInv, NEW w \in SaWorkers, NEW c, saw' = [saw EXCEPT ![w] = c], CallInv(c)',
         \A v \in SaWorkers : v # w => \A d : d = saw[v] => CallInv(d)',
         \A v \in SaWorkers : v # w /\ c.at = "create" /\ saw[v].at = "create" => saw[v].uid # c.uid,
         \A v \in SaWorkers : v # w /\ c.at = "keyed" /\ saw[v].at = "keyed" => saw[v].key # c.key
  PROVE  SaCallsInv'
<1>1. /\ DOMAIN saw' = SaWorkers /\ saw'[w] = c
      /\ \A v \in SaWorkers : v # w => saw'[v] = saw[v]
  BY DEF SaCallsInv
<1>2. ASSUME NEW v \in SaWorkers PROVE CallInv(saw[v])'
  <2>1. CASE v = w
    BY <1>1, <2>1
  <2>2. CASE v # w
    <3>1. PICK d : d = saw[v]
      OBVIOUS
    <3>2. saw'[v] = d /\ CallInv(d)'
      BY <1>1, <2>2, <3>1
    <3> QED
      BY <3>2
  <2> QED
    BY <2>1, <2>2
<1>3. DrawnInv'
  <2>1. ASSUME NEW u \in SaWorkers, NEW v \in SaWorkers, u # v
        PROVE  /\ saw'[u].at = "create" /\ saw'[v].at = "create" => saw'[u].uid # saw'[v].uid
               /\ saw'[u].at = "keyed" /\ saw'[v].at = "keyed" => saw'[u].key # saw'[v].key
    BY <1>1, <2>1 DEF SaCallsInv, DrawnInv
  <2> QED
    BY <2>1 DEF DrawnInv
<1> QED
  BY <1>1, <1>2, <1>3 DEF SaCallsInv

(* A thread goes on, to begin or end nothing for an email, or to end what  *)
(* leaves the tables agreeing; what they say of the email is the same.     *)
LEMMA EmailAside ==
  ASSUME DOMAIN saw = SaWorkers, NEW e \in SaEmails, EmailInv(e), e \notin saContested,
         NEW w \in SaWorkers, NEW b, b = saw[w], NEW c, saw' = [saw EXCEPT ![w] = c],
         Changes(c, e) => StageInv(c, e)' /\ \A v \in SaWorkers : v # w => ~Changes(saw[v], e),
         ~Changes(c, e) /\ Changes(b, e) => TablesAgree(e),
         e \in DOMAIN serviceAccounts' <=> e \in DOMAIN serviceAccounts,
         e \in DOMAIN serviceAccounts =>
           /\ serviceAccounts'[e] = serviceAccounts[e]
           /\ accounts'[serviceAccounts[e]].uid = accounts[serviceAccounts[e]].uid,
         \A u : u \in DOMAIN uniqueIds' /\ uniqueIds'[u] = e
                  <=> u \in DOMAIN uniqueIds /\ uniqueIds[u] = e
  PROVE  EmailInv(e)'
<1>1. saw'[w] = c /\ \A v \in SaWorkers : v # w => saw'[v] = saw[v]
  OBVIOUS
<1>2. TablesAgree(e) => TablesAgree(e)'
  BY DEF TablesAgree
<1>3. NoIdOf(e) => NoIdOf(e)'
  BY DEF NoIdOf
<1>4. ASSUME NEW d, StageInv(d, e) PROVE StageInv(d, e)'
  BY <1>2, <1>3, <1>4 DEF StageInv
<1>5. ASSUME NEW v \in SaWorkers, Changes(saw[v], e)'
      PROVE  StageInv(saw[v], e)'
  <2>1. CASE v = w
    BY <1>1, <1>5, <2>1 DEF Changes
  <2>2. CASE v # w
    <3>1. PICK d : d = saw[v]
      OBVIOUS
    <3>2. saw'[v] = d /\ Changes(d, e)
      BY <1>1, <1>5, <2>2, <3>1 DEF Changes
    <3>3. StageInv(d, e)
      BY <3>1, <3>2 DEF EmailInv
    <3>4. StageInv(d, e)'
      BY <1>4, <3>3
    <3> QED
      BY <3>2, <3>4
  <2> QED
    BY <2>1, <2>2
<1>6. \A u, v \in SaWorkers : Changes(saw[u], e)' /\ Changes(saw[v], e)' => u = v
  BY <1>1 DEF EmailInv, Changes
<1>7. (\A v \in SaWorkers : ~Changes(saw[v], e)') => TablesAgree(e)'
  <2>1. SUFFICES ASSUME \A v \in SaWorkers : ~Changes(saw[v], e)' PROVE TablesAgree(e)
    BY <1>2
  <2>2. ~Changes(c, e) /\ \A v \in SaWorkers : v # w => ~Changes(saw[v], e)
    BY <1>1, <2>1 DEF Changes
  <2> QED
    BY <2>2 DEF EmailInv
<1> QED
  BY <1>5, <1>6, <1>7 DEF EmailInv

(* The one thread at work on an email goes on or ends. *)
LEMMA EmailAlone ==
  ASSUME DOMAIN saw = SaWorkers, NEW e \in SaEmails, EmailInv(e), e \notin saContested,
         NEW w \in SaWorkers, Changes(saw[w], e), NEW c, saw' = [saw EXCEPT ![w] = c],
         Changes(c, e) => StageInv(c, e)', ~Changes(c, e) => TablesAgree(e)'
  PROVE  EmailInv(e)'
<1>1. saw'[w] = c /\ \A v \in SaWorkers : v # w => saw'[v] = saw[v]
  OBVIOUS
<1>2. \A v \in SaWorkers : v # w => ~Changes(saw[v], e)
  BY DEF EmailInv
<1>3. \A v \in SaWorkers : Changes(saw[v], e)' => v = w
  BY <1>1, <1>2 DEF Changes
<1>4. Changes(saw[w], e)' <=> Changes(c, e)
  BY <1>1 DEF Changes
<1>5. Changes(saw[w], e)' => StageInv(saw[w], e)'
  BY <1>1, <1>4
<1> QED
  BY <1>3, <1>4, <1>5 DEF EmailInv

(* A call begins. *)
LEMMA SaBeginInv ==
  ASSUME SaInv, NEW w \in SaWorkers, NEW c, SaBegin(w, c),
         UNCHANGED <<accounts, serviceAccounts, uniqueIds, keyCounter>>,
         uidSeq' \in Nat, uidSeq <= uidSeq', CallInv(c)', c.at \in {"create", "lookup", "held"},
         c.at = "create" => \A v \in SaWorkers : saw[v].at = "create" => saw[v].uid # c.uid,
         \A e \in SaEmails : Changes(c, e) /\ TablesAgree(e) => StageInv(c, e)
  PROVE  SaInv'
<1>1. /\ saw[w].at \in {"idle", "ready"} /\ saw' = [saw EXCEPT ![w] = c]
      /\ saContested' = IF c.op \in {"create", "delete"} /\ SaBusy(c.email) # {}
                        THEN saContested \union {c.email} ELSE saContested
  BY DEF SaBegin, SaIdle
<1>2. AccountsInv' /\ AccountTables'
  <2>1. keyCounter' \in Nat /\ keyCounter <= keyCounter'
    BY DEF SaInv, AccountsInv
  <2> QED
    BY <2>1, AccountsStay, TablesStay DEF SaInv
<1>3. SaCallsInv'
  <2>1. ASSUME NEW v \in SaWorkers, NEW d, d = saw[v] PROVE CallInv(d)'
    <3>1. CallInv(d)
      BY <2>1 DEF SaInv, SaCallsInv
    <3> QED
      BY <3>1, CallStays DEF SaInv, AccountsInv, CallInv
  <2> QED
    BY <1>1, <2>1, CallGoesOn DEF SaInv
<1>4. ASSUME NEW e \in SaEmails, e \notin saContested' PROVE EmailInv(e)'
  <2>1. e \notin saContested /\ EmailInv(e) /\ DOMAIN saw = SaWorkers
    BY <1>1, <1>4 DEF SaInv, SaCallsInv
  <2>2. ASSUME Changes(c, e)
        PROVE  StageInv(c, e)' /\ \A v \in SaWorkers : ~Changes(saw[v], e)
    <3>1. c.email = e /\ c.op \in {"create", "delete"}
      BY <2>2 DEF Changes
    <3>2. SaBusy(e) = {}
      BY <1>1, <1>4, <3>1
    <3>3. \A v \in SaWorkers : ~Changes(saw[v], e)
      BY <3>2 DEF SaBusy, SaOutside, Changes
    <3>4. StageInv(c, e)
      BY <2>1, <2>2, <3>3 DEF EmailInv
    <3> QED
      BY <3>3, <3>4 DEF StageInv, TablesAgree, NoIdOf
  <2>3. PICK b : b = saw[w]
    OBVIOUS
  <2>4. ~Changes(b, e)
    BY <1>1, <2>3 DEF Changes
  <2> QED
    BY <1>1, <2>1, <2>2, <2>3, <2>4, EmailAside
<1> QED
  BY <1>2, <1>3, <1>4 DEF SaInv, EmailInv

LEMMA SaCreateInv ==
  ASSUME SaInv, NEW w \in SaWorkers, NEW e \in SaEmails, SaCreate(w, e)
  PROVE  SaInv'
<1>1. PICK c : c = [at |-> "create", op |-> "create", email |-> e, uid |-> uidSeq']
  OBVIOUS
<1>2. /\ e \notin DOMAIN serviceAccounts /\ uidSeq' = uidSeq + 1 /\ SaBegin(w, c)
      /\ UNCHANGED <<accounts, serviceAccounts, uniqueIds, keyCounter>>
  BY <1>1 DEF SaCreate
<1>3. /\ uidSeq \in Nat /\ uidSeq' \in Nat /\ uidSeq <= uidSeq' /\ uidSeq' \in 1..uidSeq'
      /\ \A n \in 1..uidSeq : n # uidSeq'
  BY <1>2 DEF SaInv, AccountsInv
<1>4. c \in Creating /\ c.at = "create" /\ c.op = "create" /\ c.email = e /\ c.uid = uidSeq'
  BY <1>1, <1>3 DEF Creating
<1>5. CallInv(c)'
  BY <1>2, <1>3, <1>4 DEF CallInv, SaInv, AccountsInv
<1>6. \A v \in SaWorkers : saw[v].at = "create" => saw[v].uid # c.uid
  BY <1>3, <1>4 DEF SaInv, SaCallsInv, CallInv
<1>7. \A f \in SaEmails : Changes(c, f) /\ TablesAgree(f) => StageInv(c, f)
  BY <1>2, <1>4 DEF Changes, TablesAgree, StageInv, NoIdOf
<1> QED
  BY <1>2, <1>3, <1>4, <1>5, <1>6, <1>7, SaBeginInv

LEMMA SaResolveEmailInv ==
  ASSUME SaInv, NEW w \in SaWorkers, NEW op \in SaOps, NEW e \in SaEmails, SaResolveEmail(w, op, e)
  PROVE  SaInv'
<1>1. PICK c : c = [at |-> "held", op |-> op, email |-> e, account |-> serviceAccounts[e]]
  OBVIOUS
<1>2. /\ e \in DOMAIN serviceAccounts /\ SaBegin(w, c)
      /\ UNCHANGED <<accounts, serviceAccounts, uniqueIds, uidSeq, keyCounter>>
  BY <1>1 DEF SaResolveEmail, saTables
<1>3. /\ serviceAccounts[e] \in DOMAIN accounts /\ serviceAccounts[e] \in Nat
      /\ accounts[serviceAccounts[e]].email = e
  BY <1>2, LenProperties DEF SaInv, AccountTables, AccountsInv
<1>4. /\ c \in Holding /\ c.at = "held" /\ c.op = op /\ c.email = e
      /\ c.account = serviceAccounts[e]
  BY <1>1, <1>3 DEF Holding
<1>5. CallInv(c)'
  BY <1>2, <1>3, <1>4 DEF CallInv
<1>6. \A f \in SaEmails : Changes(c, f) /\ TablesAgree(f) => StageInv(c, f)
  BY <1>2, <1>4 DEF Changes, StageInv
<1>7. uidSeq' \in Nat /\ uidSeq <= uidSeq'
  BY <1>2 DEF SaInv, AccountsInv
<1> QED
  BY <1>2, <1>4, <1>5, <1>6, <1>7, SaBeginInv

LEMMA SaResolveUidInv ==
  ASSUME SaInv, NEW w \in SaWorkers, NEW op \in SaOps, NEW u, SaResolveUid(w, op, u)
  PROVE  SaInv'
<1>1. PICK c : c = [at |-> "lookup", op |-> op, email |-> uniqueIds[u]]
  OBVIOUS
<1>2. /\ u \in DOMAIN uniqueIds /\ SaBegin(w, c)
      /\ UNCHANGED <<accounts, serviceAccounts, uniqueIds, uidSeq, keyCounter>>
  BY <1>1 DEF SaResolveUid, saTables
<1>3. uniqueIds[u] \in SaEmails
  <2>1. PICK a \in DOMAIN accounts : accounts[a].email = uniqueIds[u]
    BY <1>2 DEF SaInv, AccountTables
  <2>2. accounts[a] \in Account
    BY ElementOfSeq DEF SaInv, AccountsInv
  <2> QED
    BY <2>1, <2>2 DEF Account
<1>4. c \in LookingUp /\ c.at = "lookup" /\ c.op = op
  BY <1>1, <1>3 DEF LookingUp
<1>5. CallInv(c)'
  BY <1>4 DEF CallInv
<1>6. \A f \in SaEmails : Changes(c, f) /\ TablesAgree(f) => StageInv(c, f)
  BY <1>4 DEF Changes, StageInv
<1>7. uidSeq' \in Nat /\ uidSeq <= uidSeq'
  BY <1>2 DEF SaInv, AccountsInv
<1> QED
  BY <1>2, <1>4, <1>5, <1>6, <1>7, SaBeginInv

LEMMA SaInsertInv ==
  ASSUME SaInv, NEW w \in SaWorkers, SaInsert(w)
  PROVE  SaInv' /\ (GivenInv => GivenInv')
<1>1. PICK b, acc, n, c : /\ b = saw[w] /\ acc = SaAccount(b.email, b.uid)
                          /\ n = Len(accounts) + 1 /\ c = SaIdle
  OBVIOUS
<1>2. /\ b.at = "create" /\ accounts' = Append(accounts, acc)
      /\ serviceAccounts' = SaWith(serviceAccounts, b.email, Len(accounts'))
      /\ uniqueIds' = SaWith(uniqueIds, b.uid, b.email)
      /\ saw' = [saw EXCEPT ![w] = c] /\ UNCHANGED <<uidSeq, keyCounter, saContested>>
  BY <1>1 DEF SaInsert
<1>3. /\ b \in Creating /\ b.uid \in 1..uidSeq /\ b.op = "create"
      /\ \A a \in DOMAIN accounts : accounts[a].uid # b.uid
  BY <1>1, <1>2 DEF SaInv, SaCallsInv, CallInv, Creating
<1>4. acc \in Account /\ acc.email = b.email /\ acc.uid = b.uid /\ acc.keys = {}
  BY <1>1, <1>3 DEF SaAccount, Account, Creating
<1>5. /\ accounts' \in Seq(Account) /\ DOMAIN accounts' = DOMAIN accounts \union {n}
      /\ n \notin DOMAIN accounts /\ accounts'[n] = acc /\ Len(accounts') = n
      /\ \A a \in DOMAIN accounts : accounts'[a] = accounts[a]
  <2>1. accounts \in Seq(Account)
    BY DEF SaInv, AccountsInv
  <2>2. /\ Len(accounts) \in Nat /\ DOMAIN accounts = 1..Len(accounts)
        /\ accounts' \in Seq(Account) /\ Len(accounts') = n /\ accounts'[n] = acc
        /\ \A a \in 1..Len(accounts) : accounts'[a] = accounts[a]
    BY <1>1, <1>2, <1>4, <2>1, AppendProperties, LenProperties
  <2>3. DOMAIN accounts' = 1..n
    BY <2>2, LenProperties
  <2>4. 1..n = (1..Len(accounts)) \union {n} /\ n \notin 1..Len(accounts)
    BY <1>1, <2>2
  <2> QED
    BY <2>2, <2>3, <2>4
<1>6. /\ DOMAIN serviceAccounts' = DOMAIN serviceAccounts \union {b.email}
      /\ serviceAccounts'[b.email] = n
      /\ \A e \in DOMAIN serviceAccounts : e # b.email => serviceAccounts'[e] = serviceAccounts[e]
      /\ DOMAIN uniqueIds' = DOMAIN uniqueIds \union {b.uid} /\ uniqueIds'[b.uid] = b.email
      /\ \A u \in DOMAIN uniqueIds : u # b.uid => uniqueIds'[u] = uniqueIds[u]
  BY <1>2, <1>5 DEF SaWith
<1>7. b.uid \notin DOMAIN uniqueIds
  BY <1>3 DEF SaInv, AccountTables
<1>8. AccountsInv'
  BY <1>2, <1>3, <1>4, <1>5 DEF SaInv, AccountsInv
<1>9. AccountTables'
  <2>1. b.email \in SaEmails
    BY <1>3 DEF Creating
  <2>2. \A e \in DOMAIN serviceAccounts' : /\ serviceAccounts'[e] \in DOMAIN accounts'
                                           /\ accounts'[serviceAccounts'[e]].email = e
    BY <1>4, <1>5, <1>6 DEF SaInv, AccountTables
  <2>3. ASSUME NEW u \in DOMAIN uniqueIds'
        PROVE  \E a \in DOMAIN accounts' : accounts'[a].uid = u /\ accounts'[a].email = uniqueIds'[u]
    <3>1. CASE u = b.uid
      BY <1>4, <1>5, <1>6, <3>1
    <3>2. CASE u # b.uid
      <4>1. PICK a \in DOMAIN accounts : accounts[a].uid = u /\ accounts[a].email = uniqueIds[u]
        BY <1>6, <3>2 DEF SaInv, AccountTables
      <4> QED
        BY <1>5, <1>6, <3>2, <4>1
    <3> QED
      BY <3>1, <3>2
  <2> QED
    BY <1>6, <2>1, <2>2, <2>3 DEF SaInv, AccountTables
<1>10. SaCallsInv'
  <2>1. ASSUME NEW v \in SaWorkers, v # w, NEW d, d = saw[v] PROVE CallInv(d)'
    <3>1. CallInv(d)
      BY <2>1 DEF SaInv, SaCallsInv
    <3>2. d.at = "create" => d.uid # b.uid
      BY <1>1, <1>2, <2>1 DEF SaInv, SaCallsInv, DrawnInv
    <3>3. d.at = "create" => \A a \in DOMAIN accounts' : accounts'[a].uid # d.uid
      BY <1>4, <1>5, <3>1, <3>2 DEF CallInv
    <3>4. d.at = "keyed" => \A a \in DOMAIN accounts' : d.key \notin accounts'[a].keys
      BY <1>4, <1>5, <3>1 DEF CallInv
    <3>5. /\ uidSeq' \in Nat /\ uidSeq <= uidSeq' /\ keyCounter' \in Nat /\ keyCounter <= keyCounter'
      BY <1>2 DEF SaInv, AccountsInv
    <3> QED
      BY <1>5, <3>1, <3>3, <3>4, <3>5, CallStays DEF SaInv
  <2>2. c.at = "idle" /\ CallInv(c)'
    BY <1>1 DEF SaIdle, CallInv, SaOutside
  <2> QED
    BY <1>2, <2>1, <2>2, CallGoesOn DEF SaInv
<1>11. ASSUME NEW e \in SaEmails, e \notin saContested' PROVE EmailInv(e)'
  <2>1. e \notin saContested /\ EmailInv(e) /\ DOMAIN saw = SaWorkers /\ c.at = "idle"
    BY <1>1, <1>2, <1>11 DEF SaInv, SaCallsInv, SaIdle
  <2>2. CASE e = b.email
    <3>1. Changes(saw[w], e) /\ ~Changes(c, e)
      BY <1>1, <1>2, <1>3, <2>1, <2>2 DEF Changes
    <3>2. NoIdOf(e)
      BY <1>1, <1>2, <2>1, <3>1 DEF EmailInv, StageInv
    <3>3. TablesAgree(e)'
      BY <1>4, <1>5, <1>6, <2>2, <3>2 DEF TablesAgree, NoIdOf
    <3> QED
      BY <1>2, <2>1, <3>1, <3>3, EmailAlone
  <2>3. CASE e # b.email
    <3>1. ~Changes(b, e) /\ ~Changes(c, e)
      BY <2>1, <2>3 DEF Changes
    <3>2. e \in DOMAIN serviceAccounts' <=> e \in DOMAIN serviceAccounts
      BY <1>6, <2>3
    <3>3. e \in DOMAIN serviceAccounts =>
            /\ serviceAccounts'[e] = serviceAccounts[e]
            /\ accounts'[serviceAccounts[e]].uid = accounts[serviceAccounts[e]].uid
      BY <1>5, <1>6, <2>3 DEF SaInv, AccountTables
    <3>4. \A u : u \in DOMAIN uniqueIds' /\ uniqueIds'[u] = e
                   <=> u \in DOMAIN uniqueIds /\ uniqueIds[u] = e
      BY <1>6, <1>7, <2>3
    <3> QED
      BY <1>1, <1>2, <2>1, <3>1, <3>2, <3>3, <3>4, EmailAside
  <2> QED
    BY <2>2, <2>3
<1>12. ASSUME GivenInv PROVE GivenInv'
  <2>1. saGiven' = SaWith(saGiven, b.email, b.uid)
    BY <1>1 DEF SaInsert
  <2>2. \A e \in DOMAIN serviceAccounts' :
          accounts'[serviceAccounts'[e]].uid =
            IF e = b.email THEN b.uid ELSE accounts[serviceAccounts[e]].uid
    BY <1>4, <1>5, <1>6 DEF SaInv, AccountTables
  <2>3. DOMAIN saGiven = DOMAIN serviceAccounts
    BY <1>12 DEF GivenInv
  <2>4. \A e \in DOMAIN serviceAccounts : saGiven[e] = accounts[serviceAccounts[e]].uid
    BY <1>12 DEF GivenInv
  <2>5. saGiven' = [e \in DOMAIN serviceAccounts' |-> IF e = b.email THEN b.uid ELSE saGiven[e]]
    BY <1>6, <2>1, <2>3 DEF SaWith
  <2>6. \A e \in DOMAIN serviceAccounts' :
          (IF e = b.email THEN b.uid ELSE saGiven[e]) = accounts'[serviceAccounts'[e]].uid
    BY <1>6, <2>2, <2>4
  <2> QED
    BY <2>5, <2>6 DEF GivenInv
<1> QED
  BY <1>8, <1>9, <1>10, <1>11, <1>12 DEF SaInv, EmailInv

(* A thread goes on and everything else stays. *)
LEMMA SaGoesOn ==
  ASSUME SaInv, NEW w \in SaWorkers, NEW b, b = saw[w], NEW c, saw' = [saw EXCEPT ![w] = c],
         UNCHANGED <<accounts, serviceAccounts, uniqueIds, uidSeq, saContested>>,
         keyCounter' \in Nat, keyCounter <= keyCounter', CallInv(c)', c.at # "create",
         \A v \in SaWorkers : v # w /\ c.at = "keyed" /\ saw[v].at = "keyed" => saw[v].key # c.key,
         \A e \in SaEmails : Changes(c, e) => Changes(b, e) /\ (StageInv(b, e) => StageInv(c, e)),
         \A e \in SaEmails : ~Changes(c, e) /\ Changes(b, e) /\ StageInv(b, e) => TablesAgree(e)
  PROVE  SaInv'
<1>1. AccountsInv' /\ AccountTables'
  <2>1. uidSeq' \in Nat /\ uidSeq <= uidSeq'
    BY DEF SaInv, AccountsInv
  <2> QED
    BY <2>1, AccountsStay, TablesStay DEF SaInv
<1>2. SaCallsInv'
  <2>1. ASSUME NEW v \in SaWorkers, NEW d, d = saw[v] PROVE CallInv(d)'
    <3>1. CallInv(d)
      BY <2>1 DEF SaInv, SaCallsInv
    <3>2. uidSeq' \in Nat /\ uidSeq <= uidSeq'
      BY DEF SaInv, AccountsInv
    <3> QED
      BY <3>1, <3>2, CallStays DEF SaInv, CallInv
  <2> QED
    BY <2>1, CallGoesOn DEF SaInv
<1>3. ASSUME NEW e \in SaEmails, e \notin saContested' PROVE EmailInv(e)'
  <2>1. e \notin saContested /\ EmailInv(e) /\ DOMAIN saw = SaWorkers
    BY <1>3 DEF SaInv, SaCallsInv
  <2>2. Changes(b, e) => StageInv(b, e) /\ \A v \in SaWorkers : v # w => ~Changes(saw[v], e)
    BY <2>1 DEF EmailInv
  <2>3. StageInv(c, e) => StageInv(c, e)'
    BY DEF StageInv, TablesAgree, NoIdOf
  <2> QED
    BY <2>1, <2>2, <2>3, EmailAside
<1> QED
  BY <1>1, <1>2, <1>3 DEF SaInv, EmailInv

LEMMA SaLookupInv ==
  ASSUME SaInv, NEW w \in SaWorkers, SaLookup(w)
  PROVE  SaInv'
<1>1. PICK b : b = saw[w]
  OBVIOUS
<1>2. /\ b.at = "lookup" /\ b \in LookingUp
      /\ UNCHANGED <<accounts, serviceAccounts, uniqueIds, uidSeq, keyCounter, saContested>>
  BY <1>1 DEF SaLookup, saTables, saGhosts, SaInv, SaCallsInv, CallInv
<1>3. keyCounter' \in Nat /\ keyCounter <= keyCounter'
  BY <1>2 DEF SaInv, AccountsInv
<1>4. \A e \in SaEmails : StageInv(b, e) => TablesAgree(e)
  BY <1>2 DEF StageInv
<1>5. CASE b.email \in DOMAIN serviceAccounts
  <2>1. PICK c : c = [at |-> "held", op |-> b.op, email |-> b.email,
                      account |-> serviceAccounts[b.email]]
    OBVIOUS
  <2>2. saw' = [saw EXCEPT ![w] = c]
    BY <1>1, <1>5, <2>1 DEF SaLookup
  <2>3. /\ serviceAccounts[b.email] \in DOMAIN accounts /\ serviceAccounts[b.email] \in Nat
        /\ accounts[serviceAccounts[b.email]].email = b.email
    BY <1>5, LenProperties DEF SaInv, AccountTables, AccountsInv
  <2>4. /\ c \in Holding /\ c.at = "held" /\ c.op = b.op /\ c.email = b.email
        /\ c.account = serviceAccounts[b.email]
    BY <1>2, <2>1, <2>3 DEF LookingUp, Holding
  <2>5. CallInv(c)'
    BY <1>2, <2>3, <2>4 DEF CallInv
  <2>6. \A e \in SaEmails : Changes(c, e) <=> Changes(b, e)
    BY <1>2, <2>4 DEF Changes
  <2>7. \A e \in SaEmails : Changes(c, e) /\ StageInv(b, e) => StageInv(c, e)
    BY <1>4, <1>5, <2>4 DEF StageInv, Changes
  <2> QED
    BY <1>1, <1>2, <1>3, <2>2, <2>4, <2>5, <2>6, <2>7, SaGoesOn
<1>6. CASE b.email \notin DOMAIN serviceAccounts
  <2>1. PICK c : c = SaIdle
    OBVIOUS
  <2>2. saw' = [saw EXCEPT ![w] = c] /\ c.at = "idle"
    BY <1>1, <1>6, <2>1 DEF SaLookup, SaIdle
  <2>3. CallInv(c)' /\ \A e \in SaEmails : ~Changes(c, e)
    BY <2>2 DEF CallInv, SaOutside, Changes
  <2> QED
    BY <1>1, <1>2, <1>3, <1>4, <2>2, <2>3, SaGoesOn
<1> QED
  BY <1>5, <1>6

LEMMA SaDrawKeyInv ==
  ASSUME SaInv, NEW w \in SaWorkers, SaDrawKey(w)
  PROVE  SaInv'
<1>1. PICK b, c : /\ b = saw[w]
                  /\ c = [at |-> "keyed", op |-> b.op, email |-> b.email, account |-> b.account,
                          key |-> keyCounter + 1]
  OBVIOUS
<1>2. /\ b.at = "held" /\ b.op = "create_key" /\ b \in Holding /\ b.account \in DOMAIN accounts
      /\ accounts[b.account].email = b.email
      /\ saw' = [saw EXCEPT ![w] = c] /\ keyCounter' = keyCounter + 1
      /\ UNCHANGED <<accounts, serviceAccounts, uniqueIds, uidSeq, saContested>>
  BY <1>1 DEF SaDrawKey, saGhosts, SaInv, SaCallsInv, CallInv
<1>3. /\ keyCounter \in Nat /\ keyCounter' \in Nat /\ keyCounter <= keyCounter'
      /\ keyCounter' \in 1..keyCounter' /\ \A k \in 1..keyCounter : k # keyCounter'
  BY <1>2 DEF SaInv, AccountsInv
<1>4. /\ c \in Keying /\ c.at = "keyed" /\ c.op = "create_key" /\ c.key = keyCounter'
      /\ c.account = b.account /\ c.email = b.email
  BY <1>1, <1>2, <1>3 DEF Holding, Keying
<1>5. \A a \in DOMAIN accounts : c.key \notin accounts[a].keys
  BY <1>3, <1>4 DEF SaInv, AccountsInv
<1>6. CallInv(c)'
  BY <1>2, <1>3, <1>4, <1>5 DEF CallInv
<1>7. \A v \in SaWorkers : saw[v].at = "keyed" => saw[v].key # c.key
  BY <1>3, <1>4 DEF SaInv, SaCallsInv, CallInv
<1>8. \A e \in SaEmails : ~Changes(c, e) /\ ~Changes(b, e)
  BY <1>2, <1>4 DEF Changes
<1> QED
  BY <1>1, <1>2, <1>3, <1>4, <1>6, <1>7, <1>8, SaGoesOn

LEMMA SaDeleteUidInv ==
  ASSUME SaInv, NEW w \in SaWorkers, SaDeleteUid(w)
  PROVE  SaInv'
<1>1. PICK b, c, u : /\ b = saw[w] /\ c = [b EXCEPT !.at = "popped"]
                     /\ u = accounts[b.account].uid
  OBVIOUS
<1>2. /\ b.at = "held" /\ b.op = "delete" /\ b \in Holding /\ b.account \in DOMAIN accounts
      /\ accounts[b.account].email = b.email
      /\ saw' = [saw EXCEPT ![w] = c] /\ uniqueIds' = SaDrop(uniqueIds, u)
      /\ UNCHANGED <<accounts, serviceAccounts, uidSeq, keyCounter, saContested>>
  BY <1>1 DEF SaDeleteUid, saGhosts, SaForget, SaInv, SaCallsInv, CallInv
<1>3. /\ c \in Holding /\ c.at = "popped" /\ c.op = "delete" /\ c.email = b.email
      /\ c.account = b.account
  BY <1>1, <1>2 DEF Holding, SaOps
<1>4. /\ DOMAIN uniqueIds' = DOMAIN uniqueIds \ {u}
      /\ \A x \in DOMAIN uniqueIds : x # u => uniqueIds'[x] = uniqueIds[x]
  BY <1>2 DEF SaDrop
<1>5. AccountsInv' /\ AccountTables'
  <2>1. AccountsInv'
    BY <1>2 DEF SaInv, AccountsInv
  <2>2. AccountTables'
    BY <1>2, <1>4 DEF SaInv, AccountTables
  <2> QED
    BY <2>1, <2>2
<1>6. CallInv(c)'
  BY <1>2, <1>3 DEF CallInv
<1>7. SaCallsInv'
  <2>1. ASSUME NEW v \in SaWorkers, NEW d, d = saw[v] PROVE CallInv(d)'
    BY <1>2, <2>1 DEF SaInv, SaCallsInv, CallInv
  <2> QED
    BY <1>2, <1>3, <1>6, <2>1, CallGoesOn DEF SaInv

(* The id leads to the email's account or to no account of another email. *)
<1>8. ASSUME NEW e \in SaEmails, e \notin saContested' PROVE EmailInv(e)'
  <2>1. e \notin saContested /\ EmailInv(e) /\ DOMAIN saw = SaWorkers
    BY <1>2, <1>8 DEF SaInv, SaCallsInv
  <2>2. CASE e = b.email
    <3>1. Changes(saw[w], e)
      BY <1>1, <1>2, <2>2 DEF Changes
    <3>2. TablesAgree(e) /\ b.account = serviceAccounts[e]
      BY <1>1, <1>2, <2>1, <3>1 DEF EmailInv, StageInv
    <3>3. \A x \in DOMAIN uniqueIds : uniqueIds[x] = e => x = u
      BY <1>1, <3>2 DEF TablesAgree
    <3>4. NoIdOf(e)'
      BY <1>4, <3>3 DEF NoIdOf
    <3>5. StageInv(c, e)'
      BY <1>3, <3>4 DEF StageInv
    <3>6. Changes(c, e)
      BY <1>3, <2>2 DEF Changes
    <3> QED
      BY <1>2, <2>1, <3>1, <3>5, <3>6, EmailAlone
  <2>3. CASE e # b.email
    <3>1. ~Changes(b, e) /\ ~Changes(c, e)
      BY <1>3, <2>3 DEF Changes
    <3>2. u \in DOMAIN uniqueIds => uniqueIds[u] # e
      BY <1>1, <1>2, <2>3 DEF SaInv, AccountTables, AccountsInv
    <3>3. \A x : x \in DOMAIN uniqueIds' /\ uniqueIds'[x] = e
                   <=> x \in DOMAIN uniqueIds /\ uniqueIds[x] = e
      BY <1>4, <3>2
    <3> QED
      BY <1>1, <1>2, <2>1, <3>1, <3>3, EmailAside
  <2> QED
    BY <2>2, <2>3
<1> QED
  BY <1>5, <1>7, <1>8 DEF SaInv, EmailInv

LEMMA SaDeleteAccountInv ==
  ASSUME SaInv, NEW w \in SaWorkers, SaDeleteAccount(w)
  PROVE  SaInv' /\ (GivenInv => GivenInv')
<1>1. PICK b, c : b = saw[w] /\ c = SaIdle
  OBVIOUS
<1>2. /\ b.at = "popped" /\ b.op = "delete" /\ c.at = "idle"
      /\ saw' = [saw EXCEPT ![w] = c] /\ serviceAccounts' = SaDrop(serviceAccounts, b.email)
      /\ UNCHANGED <<accounts, uniqueIds, uidSeq, keyCounter, saContested>>
  BY <1>1 DEF SaDeleteAccount, SaIdle, SaInv, SaCallsInv, CallInv
<1>3. /\ DOMAIN serviceAccounts' = DOMAIN serviceAccounts \ {b.email}
      /\ \A e \in DOMAIN serviceAccounts : e # b.email => serviceAccounts'[e] = serviceAccounts[e]
  BY <1>2 DEF SaDrop
<1>4. AccountsInv' /\ AccountTables'
  <2>1. AccountsInv'
    BY <1>2 DEF SaInv, AccountsInv
  <2>2. AccountTables'
    BY <1>2, <1>3 DEF SaInv, AccountTables
  <2> QED
    BY <2>1, <2>2
<1>5. SaCallsInv'
  <2>1. ASSUME NEW v \in SaWorkers, NEW d, d = saw[v] PROVE CallInv(d)'
    BY <1>2, <2>1 DEF SaInv, SaCallsInv, CallInv
  <2>2. CallInv(c)'
    BY <1>2 DEF CallInv, SaOutside
  <2> QED
    BY <1>2, <2>1, <2>2, CallGoesOn DEF SaInv
<1>6. ASSUME NEW e \in SaEmails, e \notin saContested' PROVE EmailInv(e)'
  <2>1. e \notin saContested /\ EmailInv(e) /\ DOMAIN saw = SaWorkers /\ ~Changes(c, e)
    BY <1>2, <1>6 DEF SaInv, SaCallsInv, Changes
  <2>2. CASE e = b.email
    <3>1. Changes(saw[w], e)
      BY <1>1, <1>2, <2>2 DEF Changes
    <3>2. NoIdOf(e)
      BY <1>1, <1>2, <2>1, <3>1 DEF EmailInv, StageInv
    <3>3. TablesAgree(e)'
      BY <1>2, <1>3, <2>2, <3>2 DEF TablesAgree, NoIdOf
    <3> QED
      BY <1>2, <2>1, <3>1, <3>3, EmailAlone
  <2>3. CASE e # b.email
    <3>1. ~Changes(b, e)
      BY <2>3 DEF Changes
    <3> QED
      BY <1>1, <1>2, <1>3, <2>1, <2>3, <3>1, EmailAside
  <2> QED
    BY <2>2, <2>3
<1>7. ASSUME GivenInv PROVE GivenInv'
  <2>1. saGiven' = SaDrop(saGiven, b.email)
    BY <1>1 DEF SaDeleteAccount
  <2>2. saGiven' = [e \in DOMAIN serviceAccounts' |-> saGiven[e]]
    BY <1>3, <1>7, <2>1 DEF SaDrop, GivenInv
  <2>3. \A e \in DOMAIN serviceAccounts' : saGiven[e] = accounts'[serviceAccounts'[e]].uid
    BY <1>2, <1>3, <1>7 DEF GivenInv
  <2> QED
    BY <2>2, <2>3 DEF GivenInv
<1> QED
  BY <1>4, <1>5, <1>6, <1>7 DEF SaInv, EmailInv

(* A call on an account ends: its keys are some it had, and the one drawn. *)
LEMMA SaFinishInv ==
  ASSUME SaInv, NEW w \in SaWorkers, NEW b, b = saw[w], b.at \in {"held", "keyed"},
         b.op \notin {"create", "delete"}, NEW changed \in Account, SaFinish(w, changed),
         changed.uid = accounts[b.account].uid, changed.email = accounts[b.account].email,
         \A k \in changed.keys : k \in accounts[b.account].keys \/ (b.at = "keyed" /\ k = b.key)
  PROVE  SaInv' /\ (GivenInv => GivenInv')
<1>1. PICK c, n : c = SaIdle /\ n = b.account
  OBVIOUS
<1>2. /\ saw' = [saw EXCEPT ![w] = c] /\ accounts' = [accounts EXCEPT ![n] = changed]
      /\ UNCHANGED <<serviceAccounts, uniqueIds, uidSeq, keyCounter, saContested>> /\ c.at = "idle"
  BY <1>1 DEF SaFinish, saGhosts, SaIdle
<1>3. CallInv(b)
  BY DEF SaInv, SaCallsInv
<1>4. n \in DOMAIN accounts /\ accounts \in Seq(Account)
  BY <1>1, <1>3 DEF CallInv, SaInv, AccountsInv
<1>5. /\ accounts' \in Seq(Account) /\ DOMAIN accounts' = DOMAIN accounts /\ accounts'[n] = changed
      /\ \A a \in DOMAIN accounts : a # n => accounts'[a] = accounts[a]
  BY <1>2, <1>4, Replaced
<1>6. \A a \in DOMAIN accounts : /\ accounts'[a].uid = accounts[a].uid
                                 /\ accounts'[a].email = accounts[a].email
  BY <1>1, <1>5
<1>7. \A a \in DOMAIN accounts : \A k \in accounts'[a].keys :
        k \in accounts[a].keys \/ (a = n /\ b.at = "keyed" /\ k = b.key)
  BY <1>1, <1>5
<1>8. b.at = "keyed" => /\ b.key \in 1..keyCounter
                        /\ \A a \in DOMAIN accounts : b.key \notin accounts[a].keys
  BY <1>3 DEF CallInv
<1>9. AccountsInv'
  <2>1. \A a \in DOMAIN accounts : accounts'[a].keys \subseteq 1..keyCounter
    BY <1>7, <1>8 DEF SaInv, AccountsInv
  <2>2. ASSUME NEW a \in DOMAIN accounts, NEW m \in DOMAIN accounts, a # m,
               NEW k \in accounts'[a].keys
        PROVE  k \notin accounts'[m].keys
    BY <1>7, <1>8, <2>2 DEF SaInv, AccountsInv
  <2> QED
    BY <1>2, <1>5, <1>6, <2>1, <2>2 DEF SaInv, AccountsInv
<1>10. AccountTables'
  BY <1>2, <1>5, <1>6 DEF SaInv, AccountTables
<1>11. SaCallsInv'
  <2>1. ASSUME NEW v \in SaWorkers, v # w, NEW d, d = saw[v] PROVE CallInv(d)'
    <3>1. CallInv(d)
      BY <2>1 DEF SaInv, SaCallsInv
    <3>2. d.at = "create" => \A a \in DOMAIN accounts' : accounts'[a].uid # d.uid
      BY <1>5, <1>6, <3>1 DEF CallInv
    <3>3. b.at = "keyed" /\ d.at = "keyed" => d.key # b.key
      BY <2>1 DEF SaInv, SaCallsInv, DrawnInv
    <3>4. d.at = "keyed" => \A a \in DOMAIN accounts' : d.key \notin accounts'[a].keys
      BY <1>5, <1>7, <3>1, <3>3 DEF CallInv
    <3>5. /\ uidSeq' \in Nat /\ uidSeq <= uidSeq' /\ keyCounter' \in Nat /\ keyCounter <= keyCounter'
      BY <1>2 DEF SaInv, AccountsInv
    <3> QED
      BY <1>5, <1>6, <3>1, <3>2, <3>4, <3>5, CallStays DEF SaInv
  <2>2. CallInv(c)'
    BY <1>2 DEF CallInv, SaOutside
  <2> QED
    BY <1>2, <2>1, <2>2, CallGoesOn DEF SaInv
<1>12. ASSUME NEW e \in SaEmails, e \notin saContested' PROVE EmailInv(e)'
  <2>1. /\ e \notin saContested /\ EmailInv(e) /\ DOMAIN saw = SaWorkers
        /\ ~Changes(c, e) /\ ~Changes(b, e)
    BY <1>2, <1>12 DEF SaInv, SaCallsInv, Changes
  <2>2. e \in DOMAIN serviceAccounts =>
            accounts'[serviceAccounts[e]].uid = accounts[serviceAccounts[e]].uid
    BY <1>6 DEF SaInv, AccountTables
  <2> QED
    BY <1>2, <2>1, <2>2, EmailAside
<1>13. ASSUME GivenInv PROVE GivenInv'
  <2>1. saGiven' = saGiven
    BY DEF SaFinish, saGhosts
  <2>2. \A e \in DOMAIN serviceAccounts :
          accounts'[serviceAccounts[e]].uid = accounts[serviceAccounts[e]].uid
    BY <1>6 DEF SaInv, AccountTables
  <2> QED
    BY <1>2, <1>13, <2>1, <2>2 DEF GivenInv
<1> QED
  BY <1>9, <1>10, <1>11, <1>12, <1>13 DEF SaInv, EmailInv

LEMMA SaChangeInv ==
  ASSUME SaInv, NEW w \in SaWorkers, SaSetDisabled(w) \/ SaDeleteKey(w) \/ SaAddKey(w)
  PROVE  SaInv' /\ (GivenInv => GivenInv')
<1>1. PICK b, acc : b = saw[w] /\ acc = accounts[b.account]
  OBVIOUS
<1>2. b.at \in {"held", "keyed"} /\ b.op \notin {"create", "delete"}
  BY <1>1 DEF SaSetDisabled, SaDeleteKey, SaAddKey, SaInv, SaCallsInv, CallInv, Keying
<1>3. CallInv(b)
  BY <1>1 DEF SaInv, SaCallsInv
<1>4. acc \in Account
  BY <1>1, <1>2, <1>3, ElementOfSeq DEF CallInv, SaInv, AccountsInv
<1>5. CASE SaSetDisabled(w)
  <2>1. PICK off \in BOOLEAN : off = (b.op = "disable")
    OBVIOUS
  <2>2. PICK changed : changed = [acc EXCEPT !.disabled = off]
    OBVIOUS
  <2>3. SaFinish(w, changed)
    BY <1>1, <1>5, <2>1, <2>2 DEF SaSetDisabled
  <2>4. /\ changed \in Account /\ changed.uid = acc.uid /\ changed.email = acc.email
        /\ changed.keys = acc.keys
    BY <1>4, <2>2 DEF Account
  <2> QED
    BY <1>1, <1>2, <2>3, <2>4, SaFinishInv
<1>6. CASE SaDeleteKey(w)
  <2>1. PICK k \in 1..keyCounter : SaFinish(w, [acc EXCEPT !.keys = @ \ {k}])
    BY <1>1, <1>6 DEF SaDeleteKey
  <2>2. PICK changed : changed = [acc EXCEPT !.keys = @ \ {k}]
    OBVIOUS
  <2>3. SaFinish(w, changed)
    BY <2>1, <2>2
  <2>4. /\ changed \in Account /\ changed.uid = acc.uid /\ changed.email = acc.email
        /\ \A x \in changed.keys : x \in acc.keys
    BY <1>4, <2>2 DEF Account
  <2> QED
    BY <1>1, <1>2, <2>3, <2>4, SaFinishInv
<1>7. CASE SaAddKey(w)
  <2>1. PICK changed : changed = [acc EXCEPT !.keys = @ \union {b.key}]
    OBVIOUS
  <2>2. SaFinish(w, changed) /\ b.at = "keyed"
    BY <1>1, <1>7, <2>1 DEF SaAddKey
  <2>3. b.key \in Nat
    BY <1>3, <2>2 DEF CallInv, Keying
  <2>4. /\ changed \in Account /\ changed.uid = acc.uid /\ changed.email = acc.email
        /\ \A x \in changed.keys : x \in acc.keys \/ x = b.key
    BY <1>4, <2>1, <2>3 DEF Account
  <2> QED
    BY <1>1, <1>2, <2>2, <2>4, SaFinishInv
<1> QED
  BY <1>5, <1>6, <1>7

(* The rest of a call on a backend that is lost changes nothing. *)
LEMMA SaLostInv ==
  ASSUME SaInv, NEW w \in SaWorkers, SaLost(w)
  PROVE  SaInv'
<1>1. PICK b, c : b = saw[w] /\ c = SaIdle
  OBVIOUS
<1>2. /\ b.at = "lost" /\ c.at = "idle" /\ saw' = [saw EXCEPT ![w] = c]
      /\ UNCHANGED <<accounts, serviceAccounts, uniqueIds, uidSeq, keyCounter, saContested>>
  BY <1>1 DEF SaLost, SaIdle, saTables, saGhosts
<1>3. CallInv(c)' /\ \A e \in SaEmails : ~Changes(c, e) /\ ~Changes(b, e)
  BY <1>2 DEF CallInv, SaOutside, Changes
<1>4. keyCounter' \in Nat /\ keyCounter <= keyCounter'
  BY <1>2 DEF SaInv, AccountsInv
<1> QED
  BY <1>1, <1>2, <1>3, <1>4, SaGoesOn

(* A thread that creates a backend holds no account. *)
LEMMA SaCallInv ==
  ASSUME SaInv, NEW w \in SaWorkers, SaCall(w)
  PROVE  SaInv'
<1>1. PICK c : c = [at |-> IF SaCreators = {} THEN "first" ELSE "race"]
  OBVIOUS
<1>2. /\ saw' = [v \in SaWorkers |-> IF v \in SaCreators \union {w} THEN c ELSE saw[v]]
      /\ saw[w].at = "idle" /\ c.at \in {"first", "race"}
      /\ UNCHANGED <<accounts, serviceAccounts, uniqueIds, uidSeq, keyCounter, saContested>>
  BY <1>1 DEF SaCall, SaIdle, saTables, saGhosts
<1>3. AccountsInv' /\ AccountTables'
  <2>1. uidSeq' \in Nat /\ uidSeq <= uidSeq' /\ keyCounter' \in Nat /\ keyCounter <= keyCounter'
    BY <1>2 DEF SaInv, AccountsInv
  <2> QED
    BY <1>2, <2>1, AccountsStay, TablesStay DEF SaInv
<1>4. \A v \in SaWorkers : \/ saw'[v] = saw[v]
                           \/ /\ saw'[v] = c /\ saw[v].at \in {"idle", "first", "race"}
  BY <1>2 DEF SaCreators
<1>5. ASSUME NEW v \in SaWorkers PROVE CallInv(saw[v])'
  <2>1. CASE saw'[v] = c
    BY <1>2, <2>1 DEF CallInv, SaOutside
  <2>2. CASE saw'[v] = saw[v]
    <3>1. PICK d : d = saw[v]
      OBVIOUS
    <3>2. saw'[v] = d /\ CallInv(d)
      BY <2>2, <3>1 DEF SaInv, SaCallsInv
    <3>3. CallInv(d)'
      BY <1>2, <3>2 DEF CallInv
    <3> QED
      BY <3>2, <3>3
  <2> QED
    BY <1>4, <2>1, <2>2
<1>6. ASSUME NEW u \in SaWorkers, NEW v \in SaWorkers, u # v
      PROVE  /\ saw'[u].at = "create" /\ saw'[v].at = "create" => saw'[u].uid # saw'[v].uid
             /\ saw'[u].at = "keyed" /\ saw'[v].at = "keyed" => saw'[u].key # saw'[v].key
  <2>1. saw'[u].at \in {"create", "keyed"} => saw'[u] = saw[u]
    BY <1>2, <1>4
  <2>2. saw'[v].at \in {"create", "keyed"} => saw'[v] = saw[v]
    BY <1>2, <1>4
  <2> QED
    BY <1>6, <2>1, <2>2 DEF SaInv, SaCallsInv, DrawnInv
<1>7. SaCallsInv'
  BY <1>2, <1>5, <1>6 DEF SaCallsInv, DrawnInv
<1>8. ASSUME NEW e \in SaEmails PROVE EmailInv(e)'
  <2>1. \A v \in SaWorkers : /\ Changes(saw[v], e)' <=> Changes(saw[v], e)
                             /\ Changes(saw[v], e) => saw'[v] = saw[v]
    BY <1>2, <1>4 DEF Changes
  <2>2. TablesAgree(e)' <=> TablesAgree(e)
    BY <1>2 DEF TablesAgree
  <2>3. ASSUME NEW v \in SaWorkers, Changes(saw[v], e), StageInv(saw[v], e)
        PROVE  StageInv(saw[v], e)'
    BY <1>2, <2>1, <2>3 DEF StageInv, TablesAgree, NoIdOf
  <2>4. EmailInv(e)
    BY DEF SaInv
  <2> QED
    BY <1>2, <2>1, <2>2, <2>3, <2>4 DEF EmailInv
<1> QED
  BY <1>3, <1>7, <1>8 DEF SaInv

LEMMA SaCallStart ==
  ASSUME SaStartInv, NEW w \in SaWorkers, SaCall(w)
  PROVE  SaStartInv'
<1>1. PICK c : c = [at |-> IF SaCreators = {} THEN "first" ELSE "race"]
  OBVIOUS
<1>2. /\ saw' = [v \in SaWorkers |-> IF v \in SaCreators \union {w} THEN c ELSE saw[v]]
      /\ ~saBackend /\ UNCHANGED <<saBackend, saContested, saGiven>>
  BY <1>1 DEF SaCall, saGhosts
<1>3. c.at \in {"first", "race"} /\ (c.at = "first" => SaCreators = {})
  BY <1>1
<1>4. saBackend # TRUE
  BY <1>2
<1>5. \A v \in SaWorkers : saw'[v].at \in {"idle", "first", "race"}
  BY <1>2, <1>3, <1>4 DEF SaStartInv
<1>6. ASSUME NEW v \in SaWorkers, saw'[v].at = "first" PROVE SaCreators' = {v}
  <2>1. SaCreators = {} => v = w /\ \A u \in SaWorkers : saw'[u].at \in {"first", "race"} => u = w
    BY <1>2, <1>6 DEF SaCreators
  <2>2. SaCreators # {} => FALSE
    BY <1>2, <1>3, <1>6 DEF SaCreators
  <2> QED
    BY <1>6, <2>1, <2>2 DEF SaCreators
<1> QED
  BY <1>2, <1>4, <1>5, <1>6 DEF SaStartInv

(* A new backend has no account, and nothing is expected of it. *)
LEMMA SaNewBackendInv ==
  ASSUME SaInv, SaStartInv, NEW w \in SaWorkers, SaNewBackend(w)
  PROVE  SaInv' /\ GivenInv' /\ SaStartInv'
<1>1. /\ accounts' = <<>> /\ serviceAccounts' = [e \in {} |-> 0] /\ uniqueIds' = [u \in {} |-> 0]
      /\ uidSeq' = 0 /\ keyCounter' = 0 /\ saBackend' = TRUE
      /\ saw[w].at \in {"first", "race"}
      /\ saw' = [v \in SaWorkers |->
           IF v = w THEN [at |-> "ready"]
           ELSE IF saw[v].at \in SaOutside THEN saw[v] ELSE [at |-> "lost"]]
  BY DEF SaNewBackend, SaCreators
<1>2. saContested' = {} /\ saGiven' = [e \in {} |-> 0]
  <2>1. CASE saw[w].at = "race"
    BY <2>1 DEF SaNewBackend
  <2>2. CASE saw[w].at = "first"
    <3>1. saBackend # TRUE
      BY <2>2 DEF SaStartInv
    <3>2. UNCHANGED <<saContested, saGiven>>
      BY <2>2 DEF SaNewBackend, saGhosts
    <3> QED
      BY <3>1, <3>2 DEF SaStartInv
  <2> QED
    BY <1>1, <2>1, <2>2
<1>3. \A v \in SaWorkers : saw'[v].at \in SaOutside
  BY <1>1 DEF SaOutside
<1>4. <<>> \in Seq(Account) /\ DOMAIN <<>> = {}
  OBVIOUS
<1>5. AccountsInv'
  BY <1>1, <1>4 DEF AccountsInv
<1>6. AccountTables'
  BY <1>1, <1>4 DEF AccountTables
<1>7. SaCallsInv'
  BY <1>1, <1>3 DEF SaCallsInv, DrawnInv, CallInv, SaOutside
<1>8. \A e \in SaEmails : EmailInv(e)'
  BY <1>1, <1>3 DEF EmailInv, Changes, TablesAgree, SaOutside
<1>9. GivenInv'
  BY <1>1, <1>2 DEF GivenInv
<1>10. \A v \in SaWorkers : saw'[v].at # "first"
  <2>1. \A v \in SaWorkers : v # w => saw[v].at # "first"
    BY <1>1 DEF SaStartInv, SaCreators
  <2> QED
    BY <1>1, <2>1
<1>11. SaStartInv'
  BY <1>1, <1>10 DEF SaStartInv
<1> QED
  BY <1>5, <1>6, <1>7, <1>8, <1>9, <1>11 DEF SaInv

(* A thread that works on the backend has one, so none is being created    *)
(* by the only creator.                                                    *)
LEMMA SaWorkStart ==
  ASSUME SaStartInv, NEW w \in SaWorkers, DOMAIN saw = SaWorkers,
         saw[w].at \notin {"idle", "first", "race"} \/ saBackend,
         NEW c, saw' = [saw EXCEPT ![w] = c], c.at # "first", UNCHANGED saBackend
  PROVE  SaStartInv'
<1>1. saBackend = TRUE
  <2>1. CASE saw[w].at \notin {"idle", "first", "race"}
    <3>1. ~(saBackend # TRUE)
      BY <2>1, Zenon DEF SaStartInv
    <3> QED
      BY <3>1
  <2>2. CASE saBackend
    BY <2>2
  <2> QED
    BY <2>1, <2>2
<1>2. \A v \in SaWorkers : saw[v].at # "first"
  BY <1>1 DEF SaStartInv
<1>3. \A v \in SaWorkers : saw'[v].at # "first"
  BY <1>2
<1> QED
  BY <1>1, <1>3 DEF SaStartInv

(* Every call but the creation of a backend works on one. *)
LEMMA SaStepStart ==
  ASSUME SaInv, SaStartInv, NEW w \in SaWorkers,
         \/ SaLost(w)
         \/ \E e \in SaEmails : SaCreate(w, e) \/ \E op \in SaOps : SaResolveEmail(w, op, e)
         \/ \E u \in 1..SaMaxCalls, op \in SaOps : SaResolveUid(w, op, u)
         \/ SaInsert(w) \/ SaLookup(w) \/ SaDeleteUid(w) \/ SaDeleteAccount(w)
         \/ SaSetDisabled(w) \/ SaDrawKey(w) \/ SaAddKey(w) \/ SaDeleteKey(w)
  PROVE  SaStartInv'
<1>1. DOMAIN saw = SaWorkers /\ CallInv(saw[w])
  BY DEF SaInv, SaCallsInv
<1>2. ASSUME NEW c, SaBegin(w, c), c.at # "first" PROVE SaStartInv'
  <2>1. /\ saw[w].at = "ready" \/ saBackend
        /\ saw' = [saw EXCEPT ![w] = c] /\ UNCHANGED saBackend
    BY <1>2 DEF SaBegin
  <2>2. saw[w].at \notin {"idle", "first", "race"} \/ saBackend
    BY <2>1
  <2> QED
    BY <1>1, <1>2, <2>1, <2>2, SaWorkStart
<1>3. ASSUME NEW c, saw' = [saw EXCEPT ![w] = c], c.at # "first", UNCHANGED saBackend,
             saw[w].at \in {"lost", "create", "lookup", "held", "popped", "keyed"}
      PROVE  SaStartInv'
  BY <1>1, <1>3, SaWorkStart
<1>4. ASSUME NEW e \in SaEmails, SaCreate(w, e) PROVE SaStartInv'
  <2>1. PICK c : c = [at |-> "create", op |-> "create", email |-> e, uid |-> uidSeq']
    OBVIOUS
  <2>2. SaBegin(w, c) /\ c.at # "first"
    BY <1>4, <2>1 DEF SaCreate
  <2> QED
    BY <1>2, <2>2
<1>5. ASSUME NEW e \in SaEmails, NEW op \in SaOps, SaResolveEmail(w, op, e) PROVE SaStartInv'
  <2>1. PICK c : c = [at |-> "held", op |-> op, email |-> e, account |-> serviceAccounts[e]]
    OBVIOUS
  <2>2. SaBegin(w, c) /\ c.at # "first"
    BY <1>5, <2>1 DEF SaResolveEmail
  <2> QED
    BY <1>2, <2>2
<1>6. ASSUME NEW u, NEW op \in SaOps, SaResolveUid(w, op, u) PROVE SaStartInv'
  <2>1. PICK c : c = [at |-> "lookup", op |-> op, email |-> uniqueIds[u]]
    OBVIOUS
  <2>2. SaBegin(w, c) /\ c.at # "first"
    BY <1>6, <2>1 DEF SaResolveUid
  <2> QED
    BY <1>2, <2>2
<1>7. CASE SaLookup(w)
  <2>1. PICK c : c = IF saw[w].email \in DOMAIN serviceAccounts
                     THEN [at |-> "held", op |-> saw[w].op, email |-> saw[w].email,
                           account |-> serviceAccounts[saw[w].email]]
                     ELSE SaIdle
    OBVIOUS
  <2>2. saw' = [saw EXCEPT ![w] = c] /\ saw[w].at = "lookup" /\ UNCHANGED saBackend
    BY <1>7, <2>1 DEF SaLookup
  <2>3. c.at # "first"
    BY <2>1 DEF SaIdle
  <2> QED
    BY <1>3, <2>2, <2>3
<1>8. CASE SaDeleteUid(w)
  <2>1. PICK c : c = [saw[w] EXCEPT !.at = "popped"]
    OBVIOUS
  <2>2. saw' = [saw EXCEPT ![w] = c] /\ saw[w].at = "held" /\ UNCHANGED saBackend
    BY <1>8, <2>1 DEF SaDeleteUid
  <2>3. c.at = "popped"
    BY <1>1, <2>1, <2>2 DEF CallInv, Holding
  <2> QED
    BY <1>3, <2>2, <2>3
<1>9. CASE SaDrawKey(w)
  <2>1. PICK c : c = [at |-> "keyed", op |-> saw[w].op, email |-> saw[w].email,
                      account |-> saw[w].account, key |-> keyCounter + 1]
    OBVIOUS
  <2>2. /\ saw' = [saw EXCEPT ![w] = c] /\ saw[w].at = "held" /\ c.at # "first"
        /\ UNCHANGED saBackend
    BY <1>9, <2>1 DEF SaDrawKey
  <2> QED
    BY <1>3, <2>2
<1>10. ASSUME SaLost(w) \/ SaInsert(w) \/ SaDeleteAccount(w) \/ SaSetDisabled(w) \/ SaDeleteKey(w)
              \/ SaAddKey(w)
       PROVE  SaStartInv'
  <2>1. PICK c : c = SaIdle
    OBVIOUS
  <2>2. saw' = [saw EXCEPT ![w] = c] /\ UNCHANGED saBackend
    BY <1>10, <2>1
    DEF SaLost, SaInsert, SaDeleteAccount, SaSetDisabled, SaDeleteKey, SaAddKey, SaFinish
  <2>3. saw[w].at \in {"lost", "create", "lookup", "held", "popped", "keyed"}
    BY <1>10 DEF SaLost, SaInsert, SaDeleteAccount, SaSetDisabled, SaDeleteKey, SaAddKey
  <2>4. c.at # "first"
    BY <2>1 DEF SaIdle
  <2> QED
    BY <1>3, <2>2, <2>3, <2>4
<1> QED
  BY <1>4, <1>5, <1>6, <1>7, <1>8, <1>9, <1>10

LEMMA SaStepInv ==
  (SaInv /\ GivenInv /\ SaStartInv) /\ [ServiceAccountsNext]_saVars =>
    (SaInv /\ GivenInv /\ SaStartInv)'
<1>1. ASSUME SaInv, UNCHANGED saVars PROVE SaInv'
  BY <1>1 DEF saVars, saTables, saGhosts, SaInv, AccountsInv, AccountTables, SaCallsInv, DrawnInv,
              CallInv, EmailInv, Changes, StageInv, TablesAgree, NoIdOf
<1>2. ASSUME GivenInv, SaStartInv, UNCHANGED saVars PROVE GivenInv' /\ SaStartInv'
  <2>1. UNCHANGED <<saBackend, accounts, serviceAccounts, saw, saContested, saGiven>>
    BY <1>2 DEF saVars, saTables, saGhosts
  <2> QED
    BY <1>2, <2>1 DEF GivenInv, SaStartInv, SaCreators
<1>3. ASSUME SaInv, GivenInv, SaStartInv, ServiceAccountsNext
      PROVE  SaInv' /\ GivenInv' /\ SaStartInv'
  <2>1. PICK w \in SaWorkers :
          \/ SaCall(w) \/ SaNewBackend(w) \/ SaLost(w)
          \/ \E e \in SaEmails : SaCreate(w, e) \/ \E op \in SaOps : SaResolveEmail(w, op, e)
          \/ \E u \in 1..SaMaxCalls, op \in SaOps : SaResolveUid(w, op, u)
          \/ SaInsert(w) \/ SaLookup(w) \/ SaDeleteUid(w) \/ SaDeleteAccount(w)
          \/ SaSetDisabled(w) \/ SaDrawKey(w) \/ SaAddKey(w) \/ SaDeleteKey(w)
    BY <1>3 DEF ServiceAccountsNext
  <2>2. ASSUME UNCHANGED <<accounts, serviceAccounts, saGiven>> PROVE GivenInv'
    BY <1>3, <2>2 DEF GivenInv
  <2>3. CASE SaCall(w)
    <3>1. UNCHANGED <<accounts, serviceAccounts, saGiven>>
      BY <2>3 DEF SaCall, saTables, saGhosts
    <3> QED
      BY <1>3, <2>2, <2>3, <3>1, SaCallInv, SaCallStart
  <2>4. CASE SaNewBackend(w)
    BY <1>3, <2>4, SaNewBackendInv
  <2>5. CASE SaLost(w)
    <3>1. UNCHANGED <<accounts, serviceAccounts, saGiven>>
      BY <2>5 DEF SaLost, saTables, saGhosts
    <3> QED
      BY <1>3, <2>2, <2>5, <3>1, SaLostInv, SaStepStart
  <2>6. ASSUME NEW e \in SaEmails, SaCreate(w, e) PROVE SaInv' /\ GivenInv' /\ SaStartInv'
    <3>1. UNCHANGED <<accounts, serviceAccounts, saGiven>>
      BY <2>6 DEF SaCreate, SaBegin
    <3> QED
      BY <1>3, <2>2, <2>6, <3>1, SaCreateInv, SaStepStart
  <2>7. ASSUME NEW e \in SaEmails, NEW op \in SaOps, SaResolveEmail(w, op, e)
        PROVE  SaInv' /\ GivenInv' /\ SaStartInv'
    <3>1. UNCHANGED <<accounts, serviceAccounts, saGiven>>
      BY <2>7 DEF SaResolveEmail, SaBegin, saTables
    <3> QED
      BY <1>3, <2>2, <2>7, <3>1, SaResolveEmailInv, SaStepStart
  <2>8. ASSUME NEW u \in 1..SaMaxCalls, NEW op \in SaOps, SaResolveUid(w, op, u)
        PROVE  SaInv' /\ GivenInv' /\ SaStartInv'
    <3>1. UNCHANGED <<accounts, serviceAccounts, saGiven>>
      BY <2>8 DEF SaResolveUid, SaBegin, saTables
    <3> QED
      BY <1>3, <2>2, <2>8, <3>1, SaResolveUidInv, SaStepStart
  <2>9. CASE SaInsert(w)
    BY <1>3, <2>9, SaInsertInv, SaStepStart
  <2>10. CASE SaLookup(w)
    <3>1. UNCHANGED <<accounts, serviceAccounts, saGiven>>
      BY <2>10 DEF SaLookup, saTables, saGhosts
    <3> QED
      BY <1>3, <2>2, <2>10, <3>1, SaLookupInv, SaStepStart
  <2>11. CASE SaDeleteUid(w)
    <3>1. UNCHANGED <<accounts, serviceAccounts, saGiven>>
      BY <2>11 DEF SaDeleteUid, saGhosts
    <3> QED
      BY <1>3, <2>2, <2>11, <3>1, SaDeleteUidInv, SaStepStart
  <2>12. CASE SaDeleteAccount(w)
    BY <1>3, <2>12, SaDeleteAccountInv, SaStepStart
  <2>13. CASE SaSetDisabled(w) \/ SaDeleteKey(w) \/ SaAddKey(w)
    BY <1>3, <2>13, SaChangeInv, SaStepStart
  <2>14. CASE SaDrawKey(w)
    <3>1. UNCHANGED <<accounts, serviceAccounts, saGiven>>
      BY <2>14 DEF SaDrawKey, saGhosts
    <3> QED
      BY <1>3, <2>2, <2>14, <3>1, SaDrawKeyInv, SaStepStart
  <2> QED
    BY <2>1, <2>3, <2>4, <2>5, <2>6, <2>7, <2>8, <2>9, <2>10, <2>11, <2>12, <2>13, <2>14
<1> QED
  BY <1>1, <1>2, <1>3

LEMMA SaStartInit == ServiceAccountsInit => GivenInv /\ SaStartInv
<1> SUFFICES ASSUME ServiceAccountsInit PROVE GivenInv /\ SaStartInv
  OBVIOUS
<1>1. \A w \in SaWorkers : saw[w].at = "idle"
  BY DEF ServiceAccountsInit, SaIdle
<1>2. saContested = {} /\ saGiven = [e \in {} |-> 0] /\ serviceAccounts = [e \in {} |-> 0]
  BY DEF ServiceAccountsInit
<1>3. GivenInv
  BY <1>2 DEF GivenInv
<1> QED
  BY <1>1, <1>2, <1>3 DEF SaStartInv

LEMMA SaInvMeans == SaInv /\ GivenInv => AccountsAgree
<1> SUFFICES ASSUME SaInv, GivenInv PROVE AccountsAgree
  OBVIOUS
<1>1. ASSUME NEW e \in SaEmails, e \notin saContested, SaBusy(e) = {} PROVE TablesAgree(e)
  BY <1>1 DEF SaInv, EmailInv, SaBusy, SaOutside, Changes
<1>2. \A a, b \in DOMAIN accounts : a # b =>
        /\ accounts[a].uid # accounts[b].uid
        /\ accounts[a].keys \intersect accounts[b].keys = {}
  BY DEF SaInv, AccountsInv
<1>3. \A e \in DOMAIN serviceAccounts : accounts[serviceAccounts[e]].email = e
  BY DEF SaInv, AccountTables
<1>4. saGiven = [e \in DOMAIN serviceAccounts |-> accounts[serviceAccounts[e]].uid]
  BY DEF GivenInv
<1> QED
  BY <1>1, <1>2, <1>3, <1>4 DEF AccountsAgree, TablesAgree

(* IAM, for any number of worker threads, from the first RPC on: an email  *)
(* has the account its creator was told of until it is deleted, the tables *)
(* of emails and of unique ids agree about every email that no two calls   *)
(* have contested and no call is changing, and no id and no key is given   *)
(* out twice, whatever the threads do, but create a backend while another  *)
(* one creates it.                                                         *)
THEOREM AccountsStayAgreed == ControlSpec => []AccountsAgree
<1>1. ControlInit => (SaInv /\ GivenInv /\ SaStartInv)
  BY ControlInits, SaInitInv, SaStartInit
<1>2. (SaInv /\ GivenInv /\ SaStartInv) /\ [ControlNext]_controlVars =>
        (SaInv /\ GivenInv /\ SaStartInv)'
  BY OneService, SaStepInv
<1>3. SaInv /\ GivenInv /\ SaStartInv => AccountsAgree
  BY SaInvMeans
<1> QED
  BY <1>1, <1>2, <1>3, PTL DEF ControlSpec, controlVars

------------------------------------------------------------------------------
(* Cloud Monitoring: the inductive invariant.  Points and series by        *)
(* themselves (PointsOf); for an identity no two threads have raced for,   *)
(* one thread at most is filing its series, and there is none before it    *)
(* does (IdentityInv); numbers drawn for names are not in use (NamesInv).  *)

Series  == [id : MnIdentities, points : Seq(Nat)]
Serving == [at : {"series"}, todo : Seq(MnIdentities)]
Placing == [at : {"found", "new", "appended"}, todo : Seq(MnIdentities), place : Nat]

PointsOf(series, written) ==
  /\ series \in Seq(Series) /\ written \in Seq(MnIdentities)
  /\ \A i \in DOMAIN series : \A k \in DOMAIN series[i].points :
       /\ series[i].points[k] \in DOMAIN written
       /\ written[series[i].points[k]] = series[i].id
  /\ \A i, j \in DOMAIN series :
       \A k \in DOMAIN series[i].points, l \in DOMAIN series[j].points :
         series[i].points[k] = series[j].points[l] => i = j /\ k = l
  /\ \A p \in DOMAIN written :
       \E i \in DOMAIN series : \E k \in DOMAIN series[i].points : series[i].points[k] = p

Files(c, id) == c.at \in {"new", "appended"} /\ Head(c.todo) = id
IdentityInv(id) ==
  id \notin mnRaced =>
    /\ \A v, w \in MnWorkers : Files(mnw[v], id) /\ Files(mnw[w], id) => v = w
    /\ \A w \in MnWorkers : Files(mnw[w], id) =>
         /\ id \notin DOMAIN seriesIndex
         /\ mnw[w].at = "new" => \A i \in DOMAIN timeSeries : timeSeries[i].id # id
    /\ \A i \in DOMAIN timeSeries : timeSeries[i].id = id =>
         id \in DOMAIN seriesIndex \/ \E w \in MnWorkers : Files(mnw[w], id)
    /\ \A i, j \in DOMAIN timeSeries : timeSeries[i].id = id /\ timeSeries[j].id = id => i = j

SeriesInv ==
  /\ PointsOf(timeSeries, mnWritten)
  /\ \A id \in DOMAIN seriesIndex : /\ seriesIndex[id] \in DOMAIN timeSeries
                                    /\ timeSeries[seriesIndex[id]].id = id
  /\ \A id \in MnIdentities : IdentityInv(id)

NameOf(n) == n = <<n[1], n[2]>>
NamesInv ==
  /\ mnCounter \in Nat
  /\ \A n \in mnDeleted :
       NameOf(n) /\ n[1] # "metricDescriptors" /\ n[2] \in 1..mnCounter /\ n \notin DOMAIN resources
  /\ \A n \in DOMAIN resources : NameOf(n) /\ (n[1] # "metricDescriptors" => n[2] \in 1..mnCounter)

MnCallInv(c) ==
  /\ c.at = "series" => c \in Serving
  /\ c.at \in {"found", "new", "appended"} => c \in Placing
  /\ c.at \in {"series", "found", "new", "appended"} => c.todo # <<>>
  /\ c.at \in {"found", "appended"} => /\ c.place \in DOMAIN timeSeries
                                       /\ timeSeries[c.place].id = Head(c.todo)
  /\ c.at = "drawn" => /\ NameOf(c.name) /\ c.name[2] \in 1..mnCounter /\ c.name \notin mnDeleted
                       /\ c.name[1] # "metricDescriptors" => c.name \notin DOMAIN resources

MnCallsInv ==
  /\ DOMAIN mnw = MnWorkers /\ \A w \in MnWorkers : MnCallInv(mnw[w])
  /\ \A v, w \in MnWorkers :
       v # w /\ mnw[v].at = "drawn" /\ mnw[w].at = "drawn" => mnw[v].name # mnw[w].name

MnInv == SeriesInv /\ NamesInv /\ MnCallsInv

(* Until BackendDict has a backend nothing but its creation is under way,  *)
(* and a creation that saw no other one is the only one.                   *)
MnStartInv ==
  /\ \A w \in MnWorkers : mnw[w].at = "create" => mnBackend # TRUE /\ MnCreators = {w}
  /\ mnBackend # TRUE => /\ mnWritten = <<>> /\ mnRaced = {} /\ mnDeleted = {}
                         /\ \A w \in MnWorkers : mnw[w].at \in {"idle", "create", "race"}

(* A point goes to the end of series n. *)
LEMMA PointStored ==
  ASSUME NEW S, NEW W, PointsOf(S, W), NEW n \in DOMAIN S
  PROVE  /\ PointsOf([S EXCEPT ![n] = [S[n] EXCEPT !.points = Append(S[n].points, Len(W) + 1)]],
                     Append(W, S[n].id))
         /\ DOMAIN [S EXCEPT ![n] = [S[n] EXCEPT !.points = Append(S[n].points, Len(W) + 1)]]
              = DOMAIN S
         /\ \A i \in DOMAIN S :
              [S EXCEPT ![n] = [S[n] EXCEPT !.points = Append(S[n].points, Len(W) + 1)]][i].id
                = S[i].id
<1>1. PICK p, r, q, m, T, V :
        /\ p = Len(W) + 1 /\ r = S[n] /\ m = Len(r.points) + 1
        /\ q = [r EXCEPT !.points = Append(r.points, p)]
        /\ T = [S EXCEPT ![n] = q] /\ V = Append(W, r.id)
  OBVIOUS
<1>2. /\ S \in Seq(Series) /\ W \in Seq(MnIdentities) /\ r \in Series
      /\ T = [S EXCEPT ![n] = q] /\ V = Append(W, r.id)
  <2>1. S \in Seq(Series) /\ W \in Seq(MnIdentities)
    BY DEF PointsOf
  <2>2. r \in Series
    BY <1>1, <2>1, ElementOfSeq
  <2> QED
    BY <1>1, <2>1, <2>2
<1>3. r.points \in Seq(Nat) /\ r.id \in MnIdentities /\ p \in Nat
  BY <1>1, <1>2, LenProperties DEF Series
<1>4. /\ Append(r.points, p) \in Seq(Nat) /\ q \in Series /\ q.id = r.id
      /\ q.points = Append(r.points, p)
  <2>1. Append(r.points, p) \in Seq(Nat)
    BY <1>3, AppendProperties
  <2> QED
    BY <1>1, <1>2, <2>1 DEF Series
<1>5. /\ Len(r.points) \in Nat /\ DOMAIN r.points = 1..Len(r.points) /\ DOMAIN q.points = 1..m
      /\ q.points[m] = p /\ \A k \in 1..Len(r.points) : q.points[k] = r.points[k]
  BY <1>1, <1>3, <1>4, AppendProperties, LenProperties
<1>6. /\ \A k \in DOMAIN r.points : k \in DOMAIN q.points /\ q.points[k] = r.points[k]
      /\ \A k \in DOMAIN q.points : k \in DOMAIN r.points \/ k = m
      /\ m \in DOMAIN q.points
  BY <1>1, <1>5
<1>7. /\ V \in Seq(MnIdentities) /\ DOMAIN V = DOMAIN W \union {p} /\ p \notin DOMAIN W
      /\ V[p] = r.id /\ \A x \in DOMAIN W : V[x] = W[x]
  <2>1. /\ Len(W) \in Nat /\ DOMAIN W = 1..Len(W) /\ V \in Seq(MnIdentities) /\ Len(V) = p
        /\ V[p] = r.id /\ \A x \in 1..Len(W) : V[x] = W[x]
    BY <1>1, <1>2, <1>3, AppendProperties, LenProperties
  <2>2. DOMAIN V = 1..p
    BY <2>1, LenProperties
  <2>3. 1..p = (1..Len(W)) \union {p} /\ p \notin 1..Len(W)
    BY <1>1, <2>1
  <2> QED
    BY <2>1, <2>2, <2>3
<1>8. /\ T \in Seq(Series) /\ DOMAIN T = DOMAIN S /\ T[n] = q
      /\ \A i \in DOMAIN S : i # n => T[i] = S[i]
  <2>1. /\ [S EXCEPT ![n] = q] \in Seq(Series) /\ DOMAIN [S EXCEPT ![n] = q] = DOMAIN S
        /\ [S EXCEPT ![n] = q][n] = q
        /\ \A i \in DOMAIN S : i # n => [S EXCEPT ![n] = q][i] = S[i]
    BY <1>2, <1>4, Replaced
  <2> QED
    BY <1>2, <2>1
<1>9. \A i \in DOMAIN S : T[i].id = S[i].id
  BY <1>1, <1>4, <1>8
<1>10. \A i \in DOMAIN S : \A k \in DOMAIN S[i].points :
         k \in DOMAIN T[i].points /\ T[i].points[k] = S[i].points[k]
  BY <1>1, <1>6, <1>8
<1>11. \A i \in DOMAIN S : \A k \in DOMAIN T[i].points :
         \/ k \in DOMAIN S[i].points /\ T[i].points[k] = S[i].points[k]
         \/ i = n /\ k = m /\ T[i].points[k] = p
  BY <1>1, <1>5, <1>6, <1>8
<1>12. /\ \A i \in DOMAIN S : \A k \in DOMAIN S[i].points :
            S[i].points[k] \in DOMAIN W /\ W[S[i].points[k]] = S[i].id
       /\ \A i, j \in DOMAIN S : \A k \in DOMAIN S[i].points, l \in DOMAIN S[j].points :
            S[i].points[k] = S[j].points[l] => i = j /\ k = l
       /\ \A x \in DOMAIN W : \E i \in DOMAIN S : \E k \in DOMAIN S[i].points : S[i].points[k] = x
  BY DEF PointsOf
<1>13. \A i \in DOMAIN S : \A k \in DOMAIN T[i].points :
         T[i].points[k] \in DOMAIN V /\ V[T[i].points[k]] = T[i].id
  BY <1>1, <1>7, <1>9, <1>11, <1>12
<1>14. ASSUME NEW i \in DOMAIN S, NEW j \in DOMAIN S, NEW k \in DOMAIN T[i].points,
              NEW l \in DOMAIN T[j].points, T[i].points[k] = T[j].points[l]
       PROVE  i = j /\ k = l
  BY <1>7, <1>11, <1>12, <1>14
<1>15. \A x \in DOMAIN V : \E i \in DOMAIN S : \E k \in DOMAIN T[i].points : T[i].points[k] = x
  <2>1. T[n].points[m] = p /\ m \in DOMAIN T[n].points
    BY <1>5, <1>6, <1>8
  <2>2. ASSUME NEW x \in DOMAIN W
        PROVE  \E i \in DOMAIN S : \E k \in DOMAIN T[i].points : T[i].points[k] = x
    BY <1>10, <1>12
  <2>3. \E i \in DOMAIN S : \E k \in DOMAIN T[i].points : T[i].points[k] = p
    BY <2>1
  <2>4. ASSUME NEW x \in DOMAIN V
        PROVE  \E i \in DOMAIN S : \E k \in DOMAIN T[i].points : T[i].points[k] = x
    <3>1. x \in DOMAIN W \/ x = p
      BY <1>7
    <3>2. CASE x \in DOMAIN W
      BY <2>2, <3>2
    <3>3. CASE x = p
      BY <2>3, <3>3
    <3> QED
      BY <3>1, <3>2, <3>3
  <2> QED
    BY <2>4
<1>16. PointsOf(T, V)
  <2>1. \A i \in DOMAIN T : \A k \in DOMAIN T[i].points :
          /\ T[i].points[k] \in DOMAIN V
          /\ V[T[i].points[k]] = T[i].id
    BY <1>8, <1>13
  <2>2. \A i, j \in DOMAIN T :
          \A k \in DOMAIN T[i].points, l \in DOMAIN T[j].points :
            T[i].points[k] = T[j].points[l] => i = j /\ k = l
    BY <1>8, <1>14
  <2>3. \A x \in DOMAIN V : \E i \in DOMAIN T : \E k \in DOMAIN T[i].points : T[i].points[k] = x
    BY <1>8, <1>15
  <2>4. T \in Seq(Series) /\ V \in Seq(MnIdentities)
    BY <1>7, <1>8
  <2> QED
    BY <2>1, <2>2, <2>3, <2>4 DEF PointsOf
<1> QED
  BY <1>1, <1>8, <1>9, <1>16

(* A series without points goes to the end. *)
LEMMA SeriesFiled ==
  ASSUME NEW S, NEW W, PointsOf(S, W), NEW id \in MnIdentities
  PROVE  /\ PointsOf(Append(S, [id |-> id, points |-> <<>>]), W)
         /\ DOMAIN Append(S, [id |-> id, points |-> <<>>]) = DOMAIN S \union {Len(S) + 1}
         /\ Len(S) + 1 \notin DOMAIN S
         /\ Append(S, [id |-> id, points |-> <<>>])[Len(S) + 1].id = id
         /\ \A i \in DOMAIN S : Append(S, [id |-> id, points |-> <<>>])[i] = S[i]
<1>1. PICK r, T, n : r = [id |-> id, points |-> <<>>] /\ T = Append(S, r) /\ n = Len(S) + 1
  OBVIOUS
<1>2. /\ r \in Series /\ r.id = id /\ r.points = <<>> /\ S \in Seq(Series)
      /\ T = Append(S, r) /\ n = Len(S) + 1
  <2>1. <<>> \in Seq(Nat)
    OBVIOUS
  <2> QED
    BY <1>1, <2>1 DEF Series, PointsOf
<1>3. /\ Len(S) \in Nat /\ DOMAIN S = 1..Len(S) /\ T \in Seq(Series) /\ Len(T) = n
      /\ T[n] = r /\ \A i \in 1..Len(S) : T[i] = S[i]
  BY <1>2, AppendProperties, LenProperties
<1>4. DOMAIN T = 1..n
  BY <1>3, LenProperties
<1>5. 1..n = (1..Len(S)) \union {n} /\ n \notin 1..Len(S)
  BY <1>2, <1>3
<1>6. DOMAIN T = DOMAIN S \union {n} /\ n \notin DOMAIN S /\ \A i \in DOMAIN S : T[i] = S[i]
  BY <1>3, <1>4, <1>5
<1>7. DOMAIN T[n].points = {}
  BY <1>2, <1>3
<1>8. /\ \A i \in DOMAIN T : \A k \in DOMAIN T[i].points : i \in DOMAIN S /\ T[i] = S[i]
      /\ \A i \in DOMAIN S : i \in DOMAIN T /\ T[i] = S[i]
  BY <1>6, <1>7
<1>9. /\ W \in Seq(MnIdentities)
      /\ \A i \in DOMAIN S : \A k \in DOMAIN S[i].points :
           S[i].points[k] \in DOMAIN W /\ W[S[i].points[k]] = S[i].id
      /\ \A i, j \in DOMAIN S : \A k \in DOMAIN S[i].points, l \in DOMAIN S[j].points :
           S[i].points[k] = S[j].points[l] => i = j /\ k = l
      /\ \A x \in DOMAIN W : \E i \in DOMAIN S : \E k \in DOMAIN S[i].points : S[i].points[k] = x
  BY DEF PointsOf
<1>10. \A i \in DOMAIN T : \A k \in DOMAIN T[i].points :
         T[i].points[k] \in DOMAIN W /\ W[T[i].points[k]] = T[i].id
  BY <1>8, <1>9
<1>11. ASSUME NEW i \in DOMAIN T, NEW j \in DOMAIN T, NEW k \in DOMAIN T[i].points,
              NEW l \in DOMAIN T[j].points, T[i].points[k] = T[j].points[l]
       PROVE  i = j /\ k = l
  BY <1>8, <1>9, <1>11
<1>12. \A x \in DOMAIN W : \E i \in DOMAIN T : \E k \in DOMAIN T[i].points : T[i].points[k] = x
  BY <1>8, <1>9
<1>13. PointsOf(T, W)
  BY <1>3, <1>9, <1>10, <1>11, <1>12 DEF PointsOf
<1>14. T[n].id = id
  BY <1>2, <1>3
<1> QED
  BY <1>1, <1>6, <1>13, <1>14

LEMMA MnInitInv == MonitoringInit => MnInv
<1> SUFFICES ASSUME MonitoringInit PROVE MnInv
  OBVIOUS
<1>1. /\ timeSeries = <<>> /\ mnWritten = <<>> /\ DOMAIN seriesIndex = {} /\ DOMAIN resources = {}
      /\ mnCounter = 0 /\ mnDeleted = {} /\ mnw = [w \in MnWorkers |-> [at |-> "idle"]]
  BY DEF MonitoringInit, MnIdle
<1>2. <<>> \in Seq(Series) /\ <<>> \in Seq(MnIdentities) /\ DOMAIN <<>> = {}
  OBVIOUS
<1>3. DOMAIN mnw = MnWorkers /\ \A w \in MnWorkers : mnw[w].at \in {"idle", "ready"}
  BY <1>1
<1>4. PointsOf(timeSeries, mnWritten)
  BY <1>1, <1>2 DEF PointsOf
<1>5. \A id \in MnIdentities : IdentityInv(id)
  BY <1>1, <1>2, <1>3 DEF IdentityInv, Files
<1>6. NamesInv /\ MnCallsInv
  BY <1>1, <1>3 DEF NamesInv, MnCallsInv, MnCallInv
<1> QED
  BY <1>1, <1>4, <1>5, <1>6 DEF MnInv, SeriesInv

(* A thread goes on with call c. *)
LEMMA MnCallGoesOn ==
  ASSUME MnCallsInv, NEW w \in MnWorkers, NEW c, mnw' = [mnw EXCEPT ![w] = c], MnCallInv(c)',
         DOMAIN timeSeries \subseteq DOMAIN timeSeries',
         \A i \in DOMAIN timeSeries : timeSeries'[i].id = timeSeries[i].id,
         mnCounter \in Nat, mnCounter' \in Nat, mnCounter <= mnCounter',
         \A v \in MnWorkers : v # w /\ mnw[v].at = "drawn" =>
           /\ mnw[v].name \notin mnDeleted'
           /\ mnw[v].name[1] # "metricDescriptors" => mnw[v].name \notin DOMAIN resources'
           /\ c.at = "drawn" => mnw[v].name # c.name
  PROVE  MnCallsInv'
<1>1. /\ DOMAIN mnw' = MnWorkers /\ mnw'[w] = c
      /\ \A v \in MnWorkers : v # w => mnw'[v] = mnw[v]
  BY DEF MnCallsInv
<1>2. ASSUME NEW v \in MnWorkers PROVE MnCallInv(mnw[v])'
  <2>1. CASE v = w
    BY <1>1, <2>1
  <2>2. CASE v # w
    <3>1. PICK d : d = mnw[v]
      OBVIOUS
    <3>2. mnw'[v] = d /\ MnCallInv(d)
      BY <1>1, <2>2, <3>1 DEF MnCallsInv
    <3>3. \A n \in 1..mnCounter : n \in 1..mnCounter'
      OBVIOUS
    <3>4. MnCallInv(d)'
      BY <2>2, <3>1, <3>2, <3>3 DEF MnCallInv
    <3> QED
      BY <3>2, <3>4
  <2> QED
    BY <2>1, <2>2
<1>3. ASSUME NEW u \in MnWorkers, NEW v \in MnWorkers, u # v, mnw'[u].at = "drawn", mnw'[v].at = "drawn"
      PROVE  mnw'[u].name # mnw'[v].name
  BY <1>1, <1>3 DEF MnCallsInv
<1> QED
  BY <1>1, <1>2, <1>3 DEF MnCallsInv

(* What is said of an identity stays so while the thread that goes on is   *)
(* filing it before and after, or neither.                                 *)
LEMMA IdentityAside ==
  ASSUME DOMAIN mnw = MnWorkers, NEW id, IdentityInv(id), id \notin mnRaced,
         NEW w \in MnWorkers, NEW b, b = mnw[w], NEW c, mnw' = [mnw EXCEPT ![w] = c],
         Files(c, id) <=> Files(b, id), Files(c, id) /\ c.at = "new" => b.at = "new",
         id \in DOMAIN seriesIndex' <=> id \in DOMAIN seriesIndex,
         \A i : i \in DOMAIN timeSeries' /\ timeSeries'[i].id = id
                  <=> i \in DOMAIN timeSeries /\ timeSeries[i].id = id
  PROVE  IdentityInv(id)'
<1>1. mnw'[w] = c /\ \A v \in MnWorkers : v # w => mnw'[v] = mnw[v]
  OBVIOUS
<1>2. \A v \in MnWorkers : Files(mnw[v], id)' <=> Files(mnw[v], id)
  BY <1>1 DEF Files
<1>3. \A v \in MnWorkers : Files(mnw[v], id)' /\ mnw'[v].at = "new" => mnw[v].at = "new"
  BY <1>1 DEF Files
<1> QED
  BY <1>2, <1>3 DEF IdentityInv

(* A thread that files no series before or after goes on; the series stay. *)
LEMMA MnSeriesStay ==
  ASSUME MnInv, NEW w \in MnWorkers, NEW c, mnw' = [mnw EXCEPT ![w] = c],
         c.at \notin {"new", "appended"}, mnw[w].at \notin {"new", "appended"},
         UNCHANGED <<timeSeries, seriesIndex, mnWritten>>, mnRaced \subseteq mnRaced'
  PROVE  SeriesInv'
<1>1. PICK b : b = mnw[w]
  OBVIOUS
<1>2. ASSUME NEW id \in MnIdentities, id \notin mnRaced' PROVE IdentityInv(id)'
  <2>1. /\ DOMAIN mnw = MnWorkers /\ IdentityInv(id) /\ id \notin mnRaced
        /\ ~Files(b, id) /\ ~Files(c, id)
    BY <1>1, <1>2 DEF MnInv, SeriesInv, MnCallsInv, Files
  <2> QED
    BY <1>1, <2>1, IdentityAside
<1>3. \A id \in MnIdentities : IdentityInv(id)'
  BY <1>2 DEF IdentityInv
<1>4. PointsOf(timeSeries, mnWritten)'
  BY DEF MnInv, SeriesInv, PointsOf
<1> QED
  BY <1>3, <1>4 DEF MnInv, SeriesInv

LEMMA MnNamesStay == MnInv /\ UNCHANGED mnStore => NamesInv'
BY DEF MnInv, NamesInv, mnStore, NameOf

LEMMA MnCreateTimeSeriesInv ==
  ASSUME MnInv, NEW w \in MnWorkers, NEW n \in 1..MnMaxSeries, NEW ids \in [1..n -> MnIdentities],
         MnCreateTimeSeries(w, ids)
  PROVE  MnInv'
<1>1. PICK c : c = [at |-> "series", todo |-> ids]
  OBVIOUS
<1>2. /\ mnw[w].at \in {"idle", "ready"} /\ mnw' = [mnw EXCEPT ![w] = c] /\ UNCHANGED <<mnStore, mnSeries>>
  BY <1>1 DEF MnCreateTimeSeries, MnBegin, MnIdle, MnMove
<1>3. ids \in Seq(MnIdentities) /\ ids # <<>>
  <2>1. n \in Nat /\ 1 \in 1..n
    OBVIOUS
  <2>2. ids \in Seq(MnIdentities)
    BY <2>1, SeqDef
  <2>3. 1 \in DOMAIN ids
    BY <2>1
  <2> QED
    BY <2>2, <2>3
<1>4. c.at = "series" /\ c \in Serving /\ c.todo # <<>>
  BY <1>1, <1>3 DEF Serving
<1>5. MnCallInv(c)'
  BY <1>4 DEF MnCallInv
<1>6. SeriesInv'
  BY <1>2, <1>4, MnSeriesStay DEF mnSeries
<1>7. NamesInv'
  BY <1>2, MnNamesStay
<1>8. MnCallsInv'
  BY <1>2, <1>4, <1>5, MnCallGoesOn DEF MnInv, NamesInv, MnCallsInv, MnCallInv, mnStore, mnSeries
<1> QED
  BY <1>6, <1>7, <1>8 DEF MnInv

(* What is left of a request is a call on its way or no call. *)
LEMMA MnRestInv ==
  ASSUME NEW todo \in Seq(MnIdentities), todo # <<>>, NEW c,
         c = IF Len(todo) = 1 THEN MnIdle ELSE [at |-> "series", todo |-> Tail(todo)]
  PROVE  /\ c.at \in {"idle", "series"} /\ MnCallInv(c)'
         /\ Head(todo) \in MnIdentities
<1>1. /\ Head(todo) \in MnIdentities /\ Tail(todo) \in Seq(MnIdentities)
      /\ Len(Tail(todo)) = Len(todo) - 1 /\ Len(todo) \in Nat
  BY HeadTailProperties, LenProperties
<1>2. CASE Len(todo) = 1
  BY <1>1, <1>2 DEF MnIdle, MnCallInv
<1>3. CASE Len(todo) # 1
  <2>1. PICK rest : rest = Tail(todo)
    OBVIOUS
  <2>2. rest \in Seq(MnIdentities) /\ rest # <<>>
    <3>1. Len(rest) # 0
      BY <1>1, <1>3, <2>1
    <3> QED
      BY <1>1, <2>1, <3>1
  <2>3. c = [at |-> "series", todo |-> rest]
    BY <1>3, <2>1
  <2>4. c \in Serving /\ c.at = "series" /\ c.todo # <<>>
    BY <2>2, <2>3 DEF Serving
  <2> QED
    BY <1>1, <2>4 DEF MnCallInv
<1> QED
  BY <1>2, <1>3

LEMMA MnLookupInv ==
  ASSUME MnInv, NEW w \in MnWorkers, MnLookup(w)
  PROVE  MnInv'
<1>1. PICK b, inc : b = mnw[w] /\ inc = Head(b.todo)
  OBVIOUS
<1>2. /\ b.at = "series" /\ b \in Serving /\ b.todo # <<>>
      /\ UNCHANGED <<mnStore, timeSeries, seriesIndex, mnWritten>>
  BY <1>1 DEF MnLookup, MnAt, MnInv, MnCallsInv, MnCallInv
<1>3. b.todo \in Seq(MnIdentities) /\ inc \in MnIdentities
  <2>1. b.todo \in Seq(MnIdentities)
    BY <1>2 DEF Serving
  <2> QED
    BY <1>1, <1>2, <2>1, HeadTailProperties
<1>4. NamesInv'
  BY <1>2, MnNamesStay
<1>5. mnRaced' = IF /\ inc \notin DOMAIN seriesIndex
                    /\ \E v \in MnWorkers \ {w} : mnw[v].at \in {"new", "appended"} /\ Head(mnw[v].todo) = inc
                 THEN mnRaced \union {inc} ELSE mnRaced
  BY <1>1 DEF MnLookup, MnIncoming
<1>6. mnRaced \subseteq mnRaced'
  BY <1>5
<1>7. ASSUME NEW c, mnw' = [mnw EXCEPT ![w] = c], MnCallInv(c)', c.at # "drawn"
      PROVE  MnCallsInv'
  BY <1>2, <1>7, MnCallGoesOn DEF MnInv, NamesInv, MnCallsInv, MnCallInv, mnStore
<1>8. CASE inc \in DOMAIN seriesIndex
  <2>1. PICK c : c = [at |-> "found", todo |-> b.todo, place |-> seriesIndex[inc]]
    OBVIOUS
  <2>2. mnw' = [mnw EXCEPT ![w] = c]
    BY <1>1, <1>8, <2>1 DEF MnLookup, MnMove, MnIncoming
  <2>3. /\ seriesIndex[inc] \in DOMAIN timeSeries /\ seriesIndex[inc] \in Nat
        /\ timeSeries[seriesIndex[inc]].id = inc
    BY <1>8, LenProperties DEF MnInv, SeriesInv, PointsOf
  <2>4. /\ c \in Placing /\ c.at = "found" /\ c.todo = b.todo /\ c.place = seriesIndex[inc]
    BY <1>3, <2>1, <2>3 DEF Placing
  <2>5. MnCallInv(c)'
    BY <1>1, <1>2, <2>3, <2>4 DEF MnCallInv
  <2>6. SeriesInv'
    BY <1>1, <1>2, <1>6, <2>2, <2>4, MnSeriesStay
  <2> QED
    BY <1>4, <1>7, <2>2, <2>4, <2>5, <2>6 DEF MnInv
<1>9. CASE inc \notin DOMAIN seriesIndex
  <2>1. PICK c : c = [at |-> "new", todo |-> b.todo, place |-> 0]
    OBVIOUS
  <2>2. mnw' = [mnw EXCEPT ![w] = c]
    BY <1>1, <1>9, <2>1 DEF MnLookup, MnMove, MnIncoming
  <2>3. c \in Placing /\ c.at = "new" /\ c.todo = b.todo
    BY <1>3, <2>1 DEF Placing
  <2>4. MnCallInv(c)'
    BY <1>2, <2>3 DEF MnCallInv
  <2>5. ASSUME NEW id \in MnIdentities, id \notin mnRaced' PROVE IdentityInv(id)'
    <3>1. DOMAIN mnw = MnWorkers /\ IdentityInv(id) /\ id \notin mnRaced /\ ~Files(b, id)
      BY <1>2, <1>6, <2>5 DEF MnInv, SeriesInv, MnCallsInv, Files
    <3>2. CASE id = inc
      <4>1. mnw'[w] = c /\ \A v \in MnWorkers : v # w => mnw'[v] = mnw[v]
        BY <2>2, <3>1
      <4>2. \A v \in MnWorkers : v # w => ~Files(mnw[v], id)
        BY <1>5, <1>9, <2>5, <3>2 DEF Files
      <4>3. \A v \in MnWorkers : ~Files(mnw[v], id)
        BY <1>1, <3>1, <4>2
      <4>4. \A i \in DOMAIN timeSeries : timeSeries[i].id # id
        BY <1>9, <3>1, <3>2, <4>3 DEF IdentityInv
      <4>5. \A v \in MnWorkers : Files(mnw[v], id)' => v = w
        BY <4>1, <4>2 DEF Files
      <4> QED
        BY <1>2, <1>9, <3>2, <4>4, <4>5 DEF IdentityInv
    <3>3. CASE id # inc
      <4>1. ~Files(c, id)
        BY <1>1, <2>3, <3>3 DEF Files
      <4> QED
        BY <1>1, <1>2, <2>2, <3>1, <4>1, IdentityAside
    <3> QED
      BY <3>2, <3>3
  <2>6. \A id \in MnIdentities : IdentityInv(id)'
    BY <2>5 DEF IdentityInv
  <2>7. SeriesInv'
    BY <1>2, <2>6 DEF MnInv, SeriesInv, PointsOf
  <2> QED
    BY <1>4, <1>7, <2>2, <2>3, <2>4, <2>7 DEF MnInv
<1> QED
  BY <1>8, <1>9

LEMMA MnExtendInv ==
  ASSUME MnInv, NEW w \in MnWorkers, MnExtend(w)
  PROVE  MnInv'
<1>1. PICK b, c : b = mnw[w] /\ c = MnRest(w)
  OBVIOUS
<1>2. /\ b.at = "found" /\ b \in Placing /\ b.todo # <<>>
      /\ b.place \in DOMAIN timeSeries /\ timeSeries[b.place].id = Head(b.todo)
      /\ mnw' = [mnw EXCEPT ![w] = c] /\ UNCHANGED <<mnStore, seriesIndex, mnRaced>>
  BY <1>1 DEF MnExtend, MnAt, MnMove, MnInv, MnCallsInv, MnCallInv
<1>3. /\ timeSeries' = [timeSeries EXCEPT ![b.place].points = Append(@, Len(mnWritten) + 1)]
      /\ mnWritten' = Append(mnWritten, timeSeries[b.place].id)
  BY <1>1, <1>2 DEF MnExtend, MnStored, MnIncoming
<1>4. c.at \in {"idle", "series"} /\ MnCallInv(c)'
  <2>1. b.todo \in Seq(MnIdentities)
    BY <1>2 DEF Placing
  <2>2. c = IF Len(b.todo) = 1 THEN MnIdle ELSE [at |-> "series", todo |-> Tail(b.todo)]
    BY <1>1 DEF MnRest
  <2> QED
    BY <1>2, <2>1, <2>2, MnRestInv
<1>5. /\ PointsOf(timeSeries', mnWritten') /\ DOMAIN timeSeries' = DOMAIN timeSeries
      /\ \A i \in DOMAIN timeSeries : timeSeries'[i].id = timeSeries[i].id
  <2>1. PointsOf(timeSeries, mnWritten)
    BY DEF MnInv, SeriesInv
  <2>2. b.place \in DOMAIN timeSeries
    BY <1>2
  <2>3. /\ PointsOf([timeSeries EXCEPT ![b.place] = [timeSeries[b.place] EXCEPT !.points =
                      Append(timeSeries[b.place].points, Len(mnWritten) + 1)]],
                    Append(mnWritten, timeSeries[b.place].id))
        /\ DOMAIN [timeSeries EXCEPT ![b.place] = [timeSeries[b.place] EXCEPT !.points =
                    Append(timeSeries[b.place].points, Len(mnWritten) + 1)]] = DOMAIN timeSeries
        /\ \A i \in DOMAIN timeSeries :
             [timeSeries EXCEPT ![b.place] = [timeSeries[b.place] EXCEPT !.points =
               Append(timeSeries[b.place].points, Len(mnWritten) + 1)]][i].id = timeSeries[i].id
    BY <2>1, <2>2, PointStored
  <2> QED
    BY <1>3, <2>3
<1>6. ASSUME NEW id \in MnIdentities, id \notin mnRaced' PROVE IdentityInv(id)'
  <2>1. /\ DOMAIN mnw = MnWorkers /\ IdentityInv(id) /\ id \notin mnRaced
        /\ ~Files(b, id) /\ ~Files(c, id)
    BY <1>2, <1>4, <1>6 DEF MnInv, SeriesInv, MnCallsInv, Files
  <2>2. \A i : i \in DOMAIN timeSeries' /\ timeSeries'[i].id = id
                 <=> i \in DOMAIN timeSeries /\ timeSeries[i].id = id
    BY <1>5
  <2> QED
    BY <1>1, <1>2, <2>1, <2>2, IdentityAside
<1>7. \A id \in MnIdentities : IdentityInv(id)'
  BY <1>6 DEF IdentityInv
<1>8. SeriesInv'
  BY <1>2, <1>5, <1>7 DEF MnInv, SeriesInv
<1>9. NamesInv'
  BY <1>2, MnNamesStay
<1>10. MnCallsInv'
  BY <1>2, <1>4, <1>5, MnCallGoesOn DEF MnInv, NamesInv, MnCallsInv, MnCallInv, mnStore
<1> QED
  BY <1>8, <1>9, <1>10 DEF MnInv

LEMMA MnAppendInv ==
  ASSUME MnInv, NEW w \in MnWorkers, MnAppend(w)
  PROVE  MnInv'
<1>1. PICK b, n, inc : b = mnw[w] /\ n = Len(timeSeries) + 1 /\ inc = Head(b.todo)
  OBVIOUS
<1>2. PICK S, c : /\ S = Append(timeSeries, [id |-> inc, points |-> <<>>])
                  /\ c = [b EXCEPT !.at = "appended", !.place = n]
  OBVIOUS
<1>3. /\ b.at = "new" /\ b \in Placing /\ b.todo # <<>> /\ mnw' = [mnw EXCEPT ![w] = c]
      /\ UNCHANGED <<mnStore, seriesIndex, mnRaced>>
  BY <1>1, <1>2 DEF MnAppend, MnAt, MnMove, MnInv, MnCallsInv, MnCallInv
<1>4. /\ timeSeries' = [S EXCEPT ![n].points = Append(@, Len(mnWritten) + 1)]
      /\ mnWritten' = Append(mnWritten, inc)
  BY <1>1, <1>2 DEF MnAppend, MnStored, MnIncoming
<1>5. inc \in MnIdentities
  <2>1. b.todo \in Seq(MnIdentities)
    BY <1>3 DEF Placing
  <2> QED
    BY <1>1, <1>3, <2>1, HeadTailProperties
<1>6. n \in Nat /\ c \in Placing /\ c.at = "appended" /\ c.todo = b.todo /\ c.place = n
  <2>1. n \in Nat
    BY <1>1, LenProperties DEF MnInv, SeriesInv, PointsOf
  <2> QED
    BY <1>2, <1>3, <2>1 DEF Placing
<1>7. /\ PointsOf(S, mnWritten) /\ DOMAIN S = DOMAIN timeSeries \union {n}
      /\ n \notin DOMAIN timeSeries /\ S[n].id = inc /\ \A i \in DOMAIN timeSeries : S[i] = timeSeries[i]
  <2>1. PointsOf(timeSeries, mnWritten)
    BY DEF MnInv, SeriesInv
  <2>2. /\ PointsOf(Append(timeSeries, [id |-> inc, points |-> <<>>]), mnWritten)
        /\ DOMAIN Append(timeSeries, [id |-> inc, points |-> <<>>])
             = DOMAIN timeSeries \union {Len(timeSeries) + 1}
        /\ Len(timeSeries) + 1 \notin DOMAIN timeSeries
        /\ Append(timeSeries, [id |-> inc, points |-> <<>>])[Len(timeSeries) + 1].id = inc
        /\ \A i \in DOMAIN timeSeries :
             Append(timeSeries, [id |-> inc, points |-> <<>>])[i] = timeSeries[i]
    BY <1>5, <2>1, SeriesFiled
  <2> QED
    BY <1>1, <1>2, <2>2
<1>8. /\ PointsOf(timeSeries', mnWritten') /\ DOMAIN timeSeries' = DOMAIN S
      /\ \A i \in DOMAIN S : timeSeries'[i].id = S[i].id
  <2>1. n \in DOMAIN S /\ PointsOf(S, mnWritten)
    BY <1>7
  <2>2. /\ PointsOf([S EXCEPT ![n] = [S[n] EXCEPT !.points =
                      Append(S[n].points, Len(mnWritten) + 1)]],
                    Append(mnWritten, S[n].id))
        /\ DOMAIN [S EXCEPT ![n] = [S[n] EXCEPT !.points =
                    Append(S[n].points, Len(mnWritten) + 1)]] = DOMAIN S
        /\ \A i \in DOMAIN S :
             [S EXCEPT ![n] = [S[n] EXCEPT !.points =
               Append(S[n].points, Len(mnWritten) + 1)]][i].id = S[i].id
    BY <2>1, PointStored
  <2>3. Append(mnWritten, S[n].id) = mnWritten'
    BY <1>4, <1>7
  <2> QED
    BY <1>4, <2>2, <2>3
<1>9. /\ DOMAIN timeSeries \subseteq DOMAIN timeSeries' /\ n \in DOMAIN timeSeries'
      /\ timeSeries'[n].id = inc
      /\ \A i \in DOMAIN timeSeries : timeSeries'[i].id = timeSeries[i].id
      /\ \A i \in DOMAIN timeSeries' : i \in DOMAIN timeSeries \/ i = n
  BY <1>7, <1>8
<1>10. ASSUME NEW id \in MnIdentities, id \notin mnRaced' PROVE IdentityInv(id)'
  <2>1. DOMAIN mnw = MnWorkers /\ IdentityInv(id) /\ id \notin mnRaced
    BY <1>3, <1>10 DEF MnInv, SeriesInv, MnCallsInv
  <2>2. CASE id = inc
    <3>1. mnw'[w] = c /\ \A v \in MnWorkers : v # w => mnw'[v] = mnw[v]
      BY <1>3, <2>1
    <3>2. Files(mnw[w], id) /\ Files(c, id)
      BY <1>1, <1>3, <1>6, <2>2 DEF Files
    <3>3. /\ \A v \in MnWorkers : v # w => ~Files(mnw[v], id)
          /\ id \notin DOMAIN seriesIndex
          /\ \A i \in DOMAIN timeSeries : timeSeries[i].id # id
      BY <1>1, <1>3, <2>1, <3>2 DEF IdentityInv
    <3>4. \A v \in MnWorkers : Files(mnw[v], id)' => v = w
      BY <3>1, <3>3 DEF Files
    <3>5. Files(mnw[w], id)' /\ mnw'[w].at = "appended"
      BY <1>6, <3>1, <3>2 DEF Files
    <3>6. \A i \in DOMAIN timeSeries' : timeSeries'[i].id = id => i = n
      BY <1>9, <3>3
    <3> QED
      BY <1>3, <3>3, <3>4, <3>5, <3>6 DEF IdentityInv
  <2>3. CASE id # inc
    <3>1. ~Files(b, id) /\ ~Files(c, id)
      BY <1>1, <1>6, <2>3 DEF Files
    <3>2. \A i : i \in DOMAIN timeSeries' /\ timeSeries'[i].id = id
                   <=> i \in DOMAIN timeSeries /\ timeSeries[i].id = id
      BY <1>9, <2>3
    <3> QED
      BY <1>1, <1>3, <2>1, <3>1, <3>2, IdentityAside
  <2> QED
    BY <2>2, <2>3
<1>11. \A id \in MnIdentities : IdentityInv(id)'
  BY <1>10 DEF IdentityInv
<1>12. SeriesInv'
  BY <1>3, <1>8, <1>9, <1>11 DEF MnInv, SeriesInv
<1>13. NamesInv'
  BY <1>3, MnNamesStay
<1>14. MnCallInv(c)'
  BY <1>1, <1>3, <1>6, <1>9 DEF MnCallInv
<1>15. MnCallsInv'
  BY <1>3, <1>6, <1>9, <1>14, MnCallGoesOn DEF MnInv, NamesInv, MnCallsInv, MnCallInv, mnStore
<1> QED
  BY <1>12, <1>13, <1>15 DEF MnInv

LEMMA MnIndexInv ==
  ASSUME MnInv, NEW w \in MnWorkers, MnIndex(w)
  PROVE  MnInv'
<1>1. PICK b, c, inc : b = mnw[w] /\ c = MnRest(w) /\ inc = Head(b.todo)
  OBVIOUS
<1>2. /\ b.at = "appended" /\ b \in Placing /\ b.todo # <<>>
      /\ b.place \in DOMAIN timeSeries /\ timeSeries[b.place].id = inc
      /\ mnw' = [mnw EXCEPT ![w] = c] /\ seriesIndex' = MnWith(seriesIndex, inc, b.place)
      /\ UNCHANGED <<mnStore, timeSeries, mnWritten, mnRaced>>
  BY <1>1 DEF MnIndex, MnAt, MnMove, MnIncoming, MnInv, MnCallsInv, MnCallInv
<1>3. c.at \in {"idle", "series"} /\ MnCallInv(c)'
  <2>1. b.todo \in Seq(MnIdentities)
    BY <1>2 DEF Placing
  <2>2. c = IF Len(b.todo) = 1 THEN MnIdle ELSE [at |-> "series", todo |-> Tail(b.todo)]
    BY <1>1 DEF MnRest
  <2> QED
    BY <1>2, <2>1, <2>2, MnRestInv
<1>4. /\ DOMAIN seriesIndex' = DOMAIN seriesIndex \union {inc} /\ seriesIndex'[inc] = b.place
      /\ \A id \in DOMAIN seriesIndex : id # inc => seriesIndex'[id] = seriesIndex[id]
  BY <1>2 DEF MnWith
<1>5. ASSUME NEW id \in MnIdentities, id \notin mnRaced' PROVE IdentityInv(id)'
  <2>1. DOMAIN mnw = MnWorkers /\ IdentityInv(id) /\ id \notin mnRaced /\ ~Files(c, id)
    BY <1>2, <1>3, <1>5 DEF MnInv, SeriesInv, MnCallsInv, Files
  <2>2. CASE id = inc
    <3>1. mnw'[w] = c /\ \A v \in MnWorkers : v # w => mnw'[v] = mnw[v]
      BY <1>2, <2>1
    <3>2. Files(mnw[w], id)
      BY <1>1, <1>2, <2>2 DEF Files
    <3>3. \A v \in MnWorkers : v # w => ~Files(mnw[v], id)
      BY <2>1, <3>2 DEF IdentityInv
    <3>4. \A v \in MnWorkers : ~Files(mnw[v], id)'
      BY <2>1, <3>1, <3>3 DEF Files
    <3> QED
      BY <1>2, <1>4, <2>1, <2>2, <3>4 DEF IdentityInv
  <2>3. CASE id # inc
    <3>1. ~Files(b, id)
      BY <1>1, <2>3 DEF Files
    <3>2. id \in DOMAIN seriesIndex' <=> id \in DOMAIN seriesIndex
      BY <1>4, <2>3
    <3> QED
      BY <1>1, <1>2, <2>1, <3>1, <3>2, IdentityAside
  <2> QED
    BY <2>2, <2>3
<1>6. \A id \in MnIdentities : IdentityInv(id)'
  BY <1>5 DEF IdentityInv
<1>7. SeriesInv'
  BY <1>2, <1>4, <1>6 DEF MnInv, SeriesInv, PointsOf
<1>8. NamesInv'
  BY <1>2, MnNamesStay
<1>9. MnCallsInv'
  BY <1>2, <1>3, MnCallGoesOn DEF MnInv, NamesInv, MnCallsInv, MnCallInv, mnStore
<1> QED
  BY <1>7, <1>8, <1>9 DEF MnInv

LEMMA MnDrawInv ==
  ASSUME MnInv, NEW w \in MnWorkers, NEW collection \in MnCollections, MnDraw(w, collection)
  PROVE  MnInv'
<1>1. PICK m, x, c : /\ m = mnCounter + 1 /\ x = <<collection, m>>
                     /\ c = [at |-> "drawn", name |-> x]
  OBVIOUS
<1>2. /\ mnw[w].at \in {"idle", "ready"} /\ mnw' = [mnw EXCEPT ![w] = c] /\ mnCounter' = m
      /\ UNCHANGED <<resources, dicts, mnDeleted, mnSeries>>
  BY <1>1 DEF MnDraw, MnBegin, MnIdle, MnMove
<1>3. /\ mnCounter \in Nat /\ m \in Nat /\ mnCounter <= m /\ m \in 1..m /\ m \notin 1..mnCounter
      /\ \A k \in 1..mnCounter : k \in 1..m
  BY <1>1 DEF MnInv, NamesInv
<1>4. c.at = "drawn" /\ c.name = x /\ NameOf(x) /\ x[2] = m
  BY <1>1 DEF NameOf
<1>5. x \notin mnDeleted /\ (x[1] # "metricDescriptors" => x \notin DOMAIN resources)
  BY <1>3, <1>4 DEF MnInv, NamesInv
<1>6. MnCallInv(c)'
  BY <1>2, <1>3, <1>4, <1>5 DEF MnCallInv, NameOf
<1>7. SeriesInv'
  BY <1>2, <1>4, MnSeriesStay DEF mnSeries
<1>8. NamesInv'
  BY <1>2, <1>3 DEF MnInv, NamesInv, NameOf
<1>9. \A v \in MnWorkers : mnw[v].at = "drawn" =>
        /\ mnw[v].name \notin mnDeleted /\ mnw[v].name # x
        /\ mnw[v].name[1] # "metricDescriptors" => mnw[v].name \notin DOMAIN resources
  BY <1>3, <1>4 DEF MnInv, MnCallsInv, MnCallInv
<1>10. MnCallsInv'
  BY <1>2, <1>3, <1>4, <1>6, <1>9, MnCallGoesOn DEF MnInv, mnSeries
<1> QED
  BY <1>7, <1>8, <1>10 DEF MnInv

LEMMA MnInsertInv ==
  ASSUME MnInv, NEW w \in MnWorkers, MnInsert(w)
  PROVE  MnInv'
<1>1. PICK b, x : b = mnw[w] /\ x = b.name
  OBVIOUS
<1>2. /\ b.at = "drawn" /\ mnw' = [mnw EXCEPT ![w] = MnIdle]
      /\ DOMAIN resources' = DOMAIN resources \union {x}
      /\ UNCHANGED <<mnCounter, mnDeleted, mnSeries>>
  BY <1>1 DEF MnInsert, MnAt, MnMove, MnFile, MnWith
<1>3. NameOf(x) /\ x[2] \in 1..mnCounter /\ x \notin mnDeleted
  BY <1>1, <1>2 DEF MnInv, MnCallsInv, MnCallInv
<1>4. MnIdle.at = "idle" /\ MnCallInv(MnIdle)'
  BY DEF MnIdle, MnCallInv
<1>5. SeriesInv'
  BY <1>1, <1>2, <1>4, MnSeriesStay DEF mnSeries
<1>6. NamesInv'
  BY <1>2, <1>3 DEF MnInv, NamesInv, NameOf
<1>7. \A v \in MnWorkers : v # w /\ mnw[v].at = "drawn" =>
        /\ mnw[v].name \notin mnDeleted /\ mnw[v].name # x
        /\ mnw[v].name[1] # "metricDescriptors" => mnw[v].name \notin DOMAIN resources
  BY <1>1, <1>2 DEF MnInv, MnCallsInv, MnCallInv
<1>8. mnCounter \in Nat
  BY DEF MnInv, NamesInv
<1>9. \A v \in MnWorkers : v # w /\ mnw[v].at = "drawn" =>
         /\ mnw[v].name \notin mnDeleted'
         /\ mnw[v].name[1] # "metricDescriptors" => mnw[v].name \notin DOMAIN resources'
         /\ MnIdle.at = "drawn" => mnw[v].name # MnIdle.name
  BY <1>2, <1>4, <1>7
<1>10. /\ mnCounter' \in Nat /\ mnCounter <= mnCounter'
       /\ UNCHANGED timeSeries
  BY <1>2, <1>8 DEF mnSeries
<1>11. MnCallsInv'
  BY <1>2, <1>4, <1>8, <1>9, <1>10, MnCallGoesOn DEF MnInv
<1> QED
  BY <1>5, <1>6, <1>11 DEF MnInv

LEMMA MnCreateDescriptorInv ==
  ASSUME MnInv, NEW w \in MnWorkers, NEW type \in MnTypes, MnCreateDescriptor(w, type)
  PROVE  MnInv'
<1>1. PICK x : x = <<"metricDescriptors", type>>
  OBVIOUS
<1>2. /\ mnw[w].at \in {"idle", "ready"} /\ mnw' = [mnw EXCEPT ![w] = MnIdle]
      /\ DOMAIN resources' = DOMAIN resources \union {x}
      /\ UNCHANGED <<mnCounter, mnDeleted, mnSeries>>
  BY <1>1 DEF MnCreateDescriptor, MnBegin, MnMove, MnFile, MnWith, MnIdle
<1>3. NameOf(x) /\ x[1] = "metricDescriptors"
  BY <1>1 DEF NameOf
<1>4. MnIdle.at = "idle" /\ MnCallInv(MnIdle)'
  BY DEF MnIdle, MnCallInv
<1>5. SeriesInv'
  BY <1>2, <1>4, MnSeriesStay DEF mnSeries
<1>6. NamesInv'
  BY <1>2, <1>3 DEF MnInv, NamesInv, NameOf
<1>7. \A v \in MnWorkers : mnw[v].at = "drawn" =>
        /\ mnw[v].name \notin mnDeleted
        /\ mnw[v].name[1] # "metricDescriptors" =>
             mnw[v].name \notin DOMAIN resources /\ mnw[v].name # x
  BY <1>3 DEF MnInv, MnCallsInv, MnCallInv
<1>8. mnCounter \in Nat
  BY DEF MnInv, NamesInv
<1>9. \A v \in MnWorkers : v # w /\ mnw[v].at = "drawn" =>
         /\ mnw[v].name \notin mnDeleted'
         /\ mnw[v].name[1] # "metricDescriptors" => mnw[v].name \notin DOMAIN resources'
         /\ MnIdle.at = "drawn" => mnw[v].name # MnIdle.name
  BY <1>2, <1>4, <1>7
<1>10. /\ mnCounter' \in Nat /\ mnCounter <= mnCounter'
       /\ UNCHANGED timeSeries
  BY <1>2, <1>8 DEF mnSeries
<1>11. MnCallsInv'
  BY <1>2, <1>4, <1>8, <1>9, <1>10, MnCallGoesOn DEF MnInv
<1> QED
  BY <1>5, <1>6, <1>11 DEF MnInv

LEMMA MnFindInv ==
  ASSUME MnInv, NEW w \in MnWorkers, NEW name \in DOMAIN resources, MnFind(w, name)
  PROVE  MnInv'
<1>1. PICK c : c = [at |-> "held", name |-> name, dict |-> resources[name]]
  OBVIOUS
<1>2. /\ mnw[w].at \in {"idle", "ready"} /\ mnw' = [mnw EXCEPT ![w] = c] /\ UNCHANGED <<mnStore, mnSeries>>
  BY <1>1 DEF MnFind, MnBegin, MnIdle, MnMove
<1>3. c.at = "held" /\ MnCallInv(c)'
  BY <1>1 DEF MnCallInv
<1>4. SeriesInv'
  BY <1>2, <1>3, MnSeriesStay DEF mnSeries
<1>5. NamesInv'
  BY <1>2, MnNamesStay
<1>6. MnCallsInv'
  BY <1>2, <1>3, MnCallGoesOn DEF MnInv, NamesInv, MnCallsInv, MnCallInv, mnStore, mnSeries
<1> QED
  BY <1>4, <1>5, <1>6 DEF MnInv

LEMMA MnUpdateInv ==
  ASSUME MnInv, NEW w \in MnWorkers, MnUpdate(w)
  PROVE  MnInv'
<1>1. /\ mnw[w].at = "held" /\ mnw' = [mnw EXCEPT ![w] = MnIdle]
      /\ UNCHANGED <<resources, mnCounter, mnDeleted, mnSeries>>
  BY DEF MnUpdate, MnAt, MnMove, MnFiledAs
<1>2. MnIdle.at = "idle" /\ MnCallInv(MnIdle)'
  BY DEF MnIdle, MnCallInv
<1>3. SeriesInv'
  BY <1>1, <1>2, MnSeriesStay DEF mnSeries
<1>4. NamesInv'
  BY <1>1 DEF MnInv, NamesInv, NameOf
<1>5. MnCallsInv'
  BY <1>1, <1>2, MnCallGoesOn DEF MnInv, NamesInv, MnCallsInv, MnCallInv, mnSeries
<1> QED
  BY <1>3, <1>4, <1>5 DEF MnInv

LEMMA MnDeleteInv ==
  ASSUME MnInv, NEW w \in MnWorkers, NEW name \in DOMAIN resources, MnDelete(w, name)
  PROVE  MnInv'
<1>1. /\ mnw[w].at \in {"idle", "ready"} /\ mnw' = [mnw EXCEPT ![w] = MnIdle]
      /\ DOMAIN resources' = DOMAIN resources \ {name}
      /\ UNCHANGED <<mnCounter, mnSeries>>
  BY DEF MnDelete, MnBegin, MnMove, MnDrop, MnIdle
<1>2. \A x \in mnDeleted' : x \in mnDeleted \/ (x = name /\ name[1] # "metricDescriptors")
  BY DEF MnDelete
<1>3. MnIdle.at = "idle" /\ MnCallInv(MnIdle)'
  BY DEF MnIdle, MnCallInv
<1>4. SeriesInv'
  BY <1>1, <1>3, MnSeriesStay DEF mnSeries
<1>5. NamesInv'
  BY <1>1, <1>2 DEF MnInv, NamesInv, NameOf
<1>6. \A v \in MnWorkers : mnw[v].at = "drawn" =>
        /\ mnw[v].name \notin mnDeleted
        /\ mnw[v].name[1] # "metricDescriptors" =>
             mnw[v].name \notin DOMAIN resources /\ mnw[v].name # name
  BY DEF MnInv, MnCallsInv, MnCallInv
<1>7. \A v \in MnWorkers : mnw[v].at = "drawn" => mnw[v].name \notin mnDeleted'
  BY <1>2, <1>6
<1>8. mnCounter \in Nat
  BY DEF MnInv, NamesInv
<1>9. \A v \in MnWorkers : v # w /\ mnw[v].at = "drawn" =>
         /\ mnw[v].name \notin mnDeleted'
         /\ mnw[v].name[1] # "metricDescriptors" => mnw[v].name \notin DOMAIN resources'
         /\ MnIdle.at = "drawn" => mnw[v].name # MnIdle.name
  BY <1>1, <1>3, <1>6, <1>7
<1>10. /\ mnCounter' \in Nat /\ mnCounter <= mnCounter'
       /\ UNCHANGED timeSeries
  BY <1>1, <1>8 DEF mnSeries
<1>11. MnCallsInv'
  BY <1>1, <1>3, <1>8, <1>9, <1>10, MnCallGoesOn DEF MnInv
<1> QED
  BY <1>4, <1>5, <1>11 DEF MnInv

(* The rest of a call on a backend that is lost changes nothing. *)
LEMMA MnLostInv ==
  ASSUME MnInv, NEW w \in MnWorkers, MnLost(w)
  PROVE  MnInv'
<1>1. PICK c : c = MnIdle
  OBVIOUS
<1>2. /\ mnw[w].at = "lost" /\ mnw' = [mnw EXCEPT ![w] = c] /\ UNCHANGED <<mnStore, mnSeries>>
  BY <1>1 DEF MnLost, MnAt, MnMove
<1>3. c.at = "idle" /\ MnCallInv(c)'
  BY <1>1 DEF MnIdle, MnCallInv
<1>4. SeriesInv'
  BY <1>2, <1>3, MnSeriesStay DEF mnSeries
<1>5. NamesInv'
  BY <1>2, MnNamesStay
<1>6. MnCallsInv'
  BY <1>2, <1>3, MnCallGoesOn DEF MnInv, NamesInv, MnCallsInv, MnCallInv, mnStore, mnSeries
<1> QED
  BY <1>4, <1>5, <1>6 DEF MnInv

(* A thread that creates a backend holds no series and no name. *)
LEMMA MnFirstCallInv ==
  ASSUME MnInv, NEW w \in MnWorkers, MnCall(w)
  PROVE  MnInv'
<1>1. PICK c : c = [at |-> IF MnCreators = {} THEN "create" ELSE "race"]
  OBVIOUS
<1>2. /\ mnw' = [v \in MnWorkers |-> IF v \in MnCreators \union {w} THEN c ELSE mnw[v]]
      /\ mnw[w].at = "idle" /\ c.at \in {"create", "race"}
      /\ UNCHANGED <<timeSeries, seriesIndex, mnWritten, mnRaced>>
      /\ UNCHANGED <<resources, mnCounter, mnDeleted>>
  BY <1>1 DEF MnCall, MnIdle, mnStore, mnSeries
<1>3. \A v \in MnWorkers : \/ mnw'[v] = mnw[v]
                           \/ mnw'[v] = c /\ mnw[v].at \in {"idle", "create", "race"}
  BY <1>2 DEF MnCreators
<1>4. NamesInv'
  BY <1>2 DEF MnInv, NamesInv, NameOf
<1>5. ASSUME NEW v \in MnWorkers PROVE MnCallInv(mnw[v])'
  <2>1. CASE mnw'[v] = c
    BY <1>2, <2>1 DEF MnCallInv
  <2>2. CASE mnw'[v] = mnw[v]
    <3>1. PICK d : d = mnw[v]
      OBVIOUS
    <3>2. mnw'[v] = d /\ MnCallInv(d)
      BY <2>2, <3>1 DEF MnInv, MnCallsInv
    <3>3. MnCallInv(d)'
      BY <1>2, <3>2 DEF MnCallInv
    <3> QED
      BY <3>2, <3>3
  <2> QED
    BY <1>3, <2>1, <2>2
<1>6. ASSUME NEW u \in MnWorkers, NEW v \in MnWorkers, u # v, mnw'[u].at = "drawn", mnw'[v].at = "drawn"
      PROVE  mnw'[u].name # mnw'[v].name
  <2>1. mnw'[u] = mnw[u] /\ mnw'[v] = mnw[v]
    BY <1>2, <1>3, <1>6
  <2> QED
    BY <1>6, <2>1 DEF MnInv, MnCallsInv
<1>7. MnCallsInv'
  BY <1>2, <1>5, <1>6 DEF MnCallsInv
<1>8. ASSUME NEW id \in MnIdentities PROVE IdentityInv(id)'
  <2>1. \A v \in MnWorkers : /\ Files(mnw[v], id)' <=> Files(mnw[v], id)
                             /\ Files(mnw[v], id) => mnw'[v] = mnw[v]
    BY <1>2, <1>3 DEF Files
  <2>2. IdentityInv(id)
    BY DEF MnInv, SeriesInv
  <2> QED
    BY <1>2, <2>1, <2>2 DEF IdentityInv
<1>9. SeriesInv'
  <2>1. PointsOf(timeSeries, mnWritten)'
    BY <1>2 DEF MnInv, SeriesInv, PointsOf
  <2> QED
    BY <1>2, <1>8, <2>1 DEF MnInv, SeriesInv
<1> QED
  BY <1>4, <1>7, <1>9 DEF MnInv

LEMMA MnFirstCallStart ==
  ASSUME MnStartInv, NEW w \in MnWorkers, MnCall(w)
  PROVE  MnStartInv'
<1>1. PICK c : c = [at |-> IF MnCreators = {} THEN "create" ELSE "race"]
  OBVIOUS
<1>2. /\ mnw' = [v \in MnWorkers |-> IF v \in MnCreators \union {w} THEN c ELSE mnw[v]]
      /\ ~mnBackend /\ UNCHANGED <<mnBackend, mnWritten, mnRaced, mnDeleted>>
  BY <1>1 DEF MnCall, mnStore, mnSeries
<1>3. c.at \in {"create", "race"} /\ (c.at = "create" => MnCreators = {})
  BY <1>1
<1>4. mnBackend # TRUE
  BY <1>2
<1>5. \A v \in MnWorkers : mnw'[v].at \in {"idle", "create", "race"}
  BY <1>2, <1>3, <1>4 DEF MnStartInv
<1>6. ASSUME NEW v \in MnWorkers, mnw'[v].at = "create" PROVE MnCreators' = {v}
  <2>1. MnCreators = {} => v = w /\ \A u \in MnWorkers : mnw'[u].at \in {"create", "race"} => u = w
    BY <1>2, <1>6 DEF MnCreators
  <2>2. MnCreators # {} => FALSE
    BY <1>2, <1>3, <1>6 DEF MnCreators
  <2> QED
    BY <1>6, <2>1, <2>2 DEF MnCreators
<1> QED
  BY <1>2, <1>4, <1>5, <1>6 DEF MnStartInv

(* A new backend is empty, and nothing is expected of it. *)
LEMMA MnCreateInv ==
  ASSUME MnInv, MnStartInv, NEW w \in MnWorkers, MnCreate(w)
  PROVE  MnInv' /\ MnStartInv'
<1>1. /\ timeSeries' = <<>> /\ seriesIndex' = [i \in {} |-> 0]
      /\ resources' = [n \in {} |-> 0] /\ mnCounter' = 0 /\ mnBackend' = TRUE
      /\ mnw[w].at \in {"create", "race"}
      /\ mnw' = [v \in MnWorkers |->
           IF v = w THEN [at |-> "ready"]
           ELSE IF mnw[v].at \in {"idle", "create", "race", "ready"} THEN mnw[v]
           ELSE [at |-> "lost"]]
  BY DEF MnCreate, MnCreators
<1>2. mnWritten' = <<>> /\ mnRaced' = {} /\ mnDeleted' = {}
  <2>1. CASE mnw[w].at = "race"
    BY <2>1 DEF MnCreate
  <2>2. CASE mnw[w].at = "create"
    <3>1. mnBackend # TRUE
      BY <2>2 DEF MnStartInv
    <3>2. UNCHANGED <<mnWritten, mnRaced, mnDeleted>>
      BY <2>2 DEF MnCreate
    <3> QED
      BY <3>1, <3>2 DEF MnStartInv
  <2> QED
    BY <1>1, <2>1, <2>2
<1>3. \A v \in MnWorkers : mnw'[v].at \in {"idle", "create", "race", "ready", "lost"}
  BY <1>1
<1>4. <<>> \in Seq(Series) /\ <<>> \in Seq(MnIdentities) /\ DOMAIN <<>> = {}
  OBVIOUS
<1>5. PointsOf(timeSeries, mnWritten)'
  BY <1>1, <1>2, <1>4 DEF PointsOf
<1>6. \A id \in MnIdentities : IdentityInv(id)'
  BY <1>1, <1>3, <1>4 DEF IdentityInv, Files
<1>7. SeriesInv'
  BY <1>1, <1>5, <1>6 DEF SeriesInv
<1>8. NamesInv'
  BY <1>1, <1>2 DEF NamesInv
<1>9. MnCallsInv'
  BY <1>1, <1>3 DEF MnCallsInv, MnCallInv
<1>10. \A v \in MnWorkers : mnw'[v].at # "create"
  <2>1. \A v \in MnWorkers : v # w => mnw[v].at # "create"
    BY <1>1 DEF MnStartInv, MnCreators
  <2> QED
    BY <1>1, <2>1
<1>11. MnStartInv'
  BY <1>1, <1>10 DEF MnStartInv
<1> QED
  BY <1>7, <1>8, <1>9, <1>11 DEF MnInv

(* A thread that works on the backend has one, so none is being created    *)
(* by the only creator.                                                    *)
LEMMA MnWorkStart ==
  ASSUME MnStartInv, NEW w \in MnWorkers, DOMAIN mnw = MnWorkers,
         mnw[w].at \notin {"idle", "create", "race"} \/ mnBackend,
         NEW c, mnw' = [mnw EXCEPT ![w] = c], c.at # "create", UNCHANGED mnBackend
  PROVE  MnStartInv'
<1>1. mnBackend = TRUE
  <2>1. CASE mnw[w].at \notin {"idle", "create", "race"}
    <3>1. ~(mnBackend # TRUE)
      BY <2>1, Zenon DEF MnStartInv
    <3> QED
      BY <3>1
  <2>2. CASE mnBackend
    BY <2>2
  <2> QED
    BY <2>1, <2>2
<1>2. \A v \in MnWorkers : mnw[v].at # "create"
  BY <1>1 DEF MnStartInv
<1>3. \A v \in MnWorkers : mnw'[v].at # "create"
  BY <1>2
<1> QED
  BY <1>1, <1>3 DEF MnStartInv

(* Every call but the creation of a backend works on one. *)
LEMMA MnServiceStart ==
  ASSUME MnInv, MnStartInv, NEW w \in MnWorkers, MnLost(w) \/ MetricService(w) \/ ResourceServices(w)
  PROVE  MnStartInv'
<1>1. DOMAIN mnw = MnWorkers /\ MnCallInv(mnw[w])
  BY DEF MnInv, MnCallsInv
<1>2. ASSUME NEW c, MnBegin(w), MnMove(w, c), c.at # "create" PROVE MnStartInv'
  <2>1. /\ mnw[w].at = "ready" \/ mnBackend
        /\ mnw' = [mnw EXCEPT ![w] = c] /\ UNCHANGED mnBackend
    BY <1>2 DEF MnBegin, MnMove
  <2>2. mnw[w].at \notin {"idle", "create", "race"} \/ mnBackend
    BY <2>1
  <2> QED
    BY <1>1, <1>2, <2>1, <2>2, MnWorkStart
<1>3. ASSUME NEW c, NEW place \in {"lost", "series", "found", "new", "appended", "drawn", "held"},
             MnAt(w, place), MnMove(w, c), c.at # "create"
      PROVE  MnStartInv'
  <2>1. /\ mnw[w].at \notin {"idle", "create", "race"}
        /\ mnw' = [mnw EXCEPT ![w] = c] /\ UNCHANGED mnBackend
    BY <1>3 DEF MnAt, MnMove
  <2> QED
    BY <1>1, <1>3, <2>1, MnWorkStart
<1>4. MnIdle.at # "create"
  BY DEF MnIdle
<1>5. ASSUME MnLost(w) \/ MnInsert(w) \/ MnUpdate(w) PROVE MnStartInv'
  BY <1>3, <1>4, <1>5 DEF MnLost, MnInsert, MnUpdate
<1>6. ASSUME NEW ids, MnCreateTimeSeries(w, ids) PROVE MnStartInv'
  <2>1. PICK c : c = [at |-> "series", todo |-> ids]
    OBVIOUS
  <2>2. MnBegin(w) /\ MnMove(w, c) /\ c.at # "create"
    BY <1>6, <2>1 DEF MnCreateTimeSeries
  <2> QED
    BY <1>2, <2>2
<1>7. CASE MnLookup(w)
  <2>1. PICK c : c = [at    |-> IF MnIncoming(w) \in DOMAIN seriesIndex THEN "found" ELSE "new",
                      todo  |-> mnw[w].todo,
                      place |-> IF MnIncoming(w) \in DOMAIN seriesIndex
                                THEN seriesIndex[MnIncoming(w)] ELSE 0]
    OBVIOUS
  <2>2. MnAt(w, "series") /\ MnMove(w, c)
    BY <1>7, <2>1 DEF MnLookup
  <2>3. c.at # "create"
    BY <2>1
  <2> QED
    BY <1>3, <2>2, <2>3
<1>8. MnRest(w).at # "create"
  BY DEF MnRest, MnIdle
<1>9. CASE MnExtend(w) \/ MnIndex(w)
  BY <1>3, <1>8, <1>9 DEF MnExtend, MnIndex
<1>10. CASE MnAppend(w)
  <2>1. PICK c : c = [mnw[w] EXCEPT !.at = "appended", !.place = Len(timeSeries) + 1]
    OBVIOUS
  <2>2. MnAt(w, "new") /\ MnMove(w, c)
    BY <1>10, <2>1 DEF MnAppend
  <2>3. c.at = "appended"
    <3>1. mnw[w] \in Placing
      BY <1>1, <2>2 DEF MnAt, MnCallInv
    <3> QED
      BY <2>1, <3>1 DEF Placing
  <2> QED
    BY <1>3, <2>2, <2>3
<1>11. ASSUME NEW type, MnCreateDescriptor(w, type) PROVE MnStartInv'
  BY <1>2, <1>4, <1>11 DEF MnCreateDescriptor
<1>12. ASSUME NEW collection, MnDraw(w, collection) PROVE MnStartInv'
  <2>1. PICK c : c = [at |-> "drawn", name |-> <<collection, mnCounter + 1>>]
    OBVIOUS
  <2>2. MnBegin(w) /\ MnMove(w, c) /\ c.at # "create"
    BY <1>12, <2>1 DEF MnDraw
  <2> QED
    BY <1>2, <2>2
<1>13. ASSUME NEW name, MnFind(w, name) PROVE MnStartInv'
  <2>1. PICK c : c = [at |-> "held", name |-> name, dict |-> resources[name]]
    OBVIOUS
  <2>2. MnBegin(w) /\ MnMove(w, c) /\ c.at # "create"
    BY <1>13, <2>1 DEF MnFind
  <2> QED
    BY <1>2, <2>2
<1>14. ASSUME NEW name, MnDelete(w, name) PROVE MnStartInv'
  BY <1>2, <1>4, <1>14 DEF MnDelete
<1> QED
  BY <1>5, <1>6, <1>7, <1>9, <1>10, <1>11, <1>12, <1>13, <1>14 DEF MetricService, ResourceServices

LEMMA MnStepInv ==
  (MnInv /\ MnStartInv) /\ [MonitoringNext]_mnVars => (MnInv /\ MnStartInv)'
<1> SUFFICES ASSUME MnInv, MnStartInv, [MonitoringNext]_mnVars PROVE MnInv' /\ MnStartInv'
  OBVIOUS
<1>1. CASE UNCHANGED mnVars
  <2>1. UNCHANGED <<mnBackend, mnStore, mnSeries, mnw>>
    BY <1>1 DEF mnVars
  <2>2. MnInv'
    BY <2>1 DEF mnStore, mnSeries, MnInv, SeriesInv, PointsOf, IdentityInv, Files, NamesInv, NameOf,
                MnCallsInv, MnCallInv
  <2>3. MnStartInv'
    BY <2>1 DEF mnStore, mnSeries, MnStartInv, MnCreators
  <2> QED
    BY <2>2, <2>3
<1>2. ASSUME NEW w \in MnWorkers, MetricService(w) PROVE MnInv'
  BY <1>2, MnCreateTimeSeriesInv, MnLookupInv, MnExtendInv, MnAppendInv, MnIndexInv,
     MnCreateDescriptorInv DEF MetricService
<1>3. ASSUME NEW w \in MnWorkers, ResourceServices(w) PROVE MnInv'
  BY <1>3, MnDrawInv, MnInsertInv, MnUpdateInv, MnFindInv, MnDeleteInv DEF ResourceServices
<1>4. ASSUME NEW w \in MnWorkers, MnCall(w) \/ MnCreate(w) \/ MnLost(w)
      PROVE  MnInv' /\ MnStartInv'
  BY <1>4, MnFirstCallInv, MnFirstCallStart, MnCreateInv, MnLostInv, MnServiceStart
<1>5. ASSUME NEW w \in MnWorkers, MetricService(w) \/ ResourceServices(w) PROVE MnStartInv'
  BY <1>5, MnServiceStart
<1> QED
  BY <1>1, <1>2, <1>3, <1>4, <1>5 DEF MonitoringNext

LEMMA MnStartInit == MonitoringInit => MnStartInv
<1> SUFFICES ASSUME MonitoringInit PROVE MnStartInv
  OBVIOUS
<1>1. \A w \in MnWorkers : mnw[w].at = "idle"
  BY DEF MonitoringInit, MnIdle
<1>2. mnWritten = <<>> /\ mnRaced = {} /\ mnDeleted = {}
  BY DEF MonitoringInit
<1> QED
  BY <1>1, <1>2 DEF MnStartInv

LEMMA MnInvMeans == MnInv => SeriesKept
<1> SUFFICES ASSUME MnInv PROVE SeriesKept
  OBVIOUS
<1>1. /\ \A i, j \in DOMAIN timeSeries :
           \A k \in DOMAIN timeSeries[i].points, l \in DOMAIN timeSeries[j].points :
             timeSeries[i].points[k] = timeSeries[j].points[l] => i = j /\ k = l
      /\ \A p \in DOMAIN mnWritten : \E i \in DOMAIN timeSeries :
           \E k \in DOMAIN timeSeries[i].points : timeSeries[i].points[k] = p
      /\ \A i \in DOMAIN timeSeries : \A k \in DOMAIN timeSeries[i].points :
           mnWritten[timeSeries[i].points[k]] = timeSeries[i].id
  BY DEF MnInv, SeriesInv, PointsOf
<1>2. NoPointLost
  <2> SUFFICES ASSUME NEW p \in DOMAIN mnWritten
               PROVE  \E i \in MnOf(mnWritten[p]) : \E k \in DOMAIN timeSeries[i].points :
                        /\ timeSeries[i].points[k] = p
                        /\ \A j \in DOMAIN timeSeries : \A l \in DOMAIN timeSeries[j].points :
                             timeSeries[j].points[l] = p => <<j, l>> = <<i, k>>
    BY DEF NoPointLost
  <2>1. PICK i \in DOMAIN timeSeries : \E k \in DOMAIN timeSeries[i].points :
          timeSeries[i].points[k] = p
    BY <1>1
  <2>2. PICK k \in DOMAIN timeSeries[i].points : timeSeries[i].points[k] = p
    BY <2>1
  <2>3. i \in MnOf(mnWritten[p])
    BY <1>1, <2>2 DEF MnOf
  <2>4. \A j \in DOMAIN timeSeries : \A l \in DOMAIN timeSeries[j].points :
          timeSeries[j].points[l] = p => j = i /\ l = k
    BY <1>1, <2>2
  <2> QED
    BY <2>2, <2>3, <2>4
<1>3. \A i \in DOMAIN timeSeries : timeSeries[i].id \in MnIdentities
  <2>1. timeSeries \in Seq(Series)
    BY DEF MnInv, SeriesInv, PointsOf
  <2>2. \A i \in DOMAIN timeSeries : timeSeries[i] \in Series
    BY <2>1, ElementOfSeq
  <2> QED
    BY <2>2 DEF Series
<1>4. \A i, j \in DOMAIN timeSeries :
        timeSeries[i].id = timeSeries[j].id /\ timeSeries[i].id \notin mnRaced => i = j
  BY <1>3 DEF MnInv, SeriesInv, IdentityInv
<1>5. \A id \in DOMAIN seriesIndex : timeSeries[seriesIndex[id]].id = id
  BY DEF MnInv, SeriesInv
<1>6. DOMAIN resources \intersect mnDeleted = {}
  BY DEF MnInv, NamesInv
<1> QED
  BY <1>2, <1>4, <1>5, <1>6 DEF SeriesKept

(***************************************************************************)
(* MonitoringBackend under the worker threads of its emulator, from the    *)
(* first RPC on: no point written is lost, an identity has one series      *)
(* unless two threads wrote it for the first time at once, and a deleted   *)
(* name stays away, whatever the threads do, but create a backend while    *)
(* another one creates it.                                                 *)
(***************************************************************************)
THEOREM SeriesStayKept == ControlSpec => []SeriesKept
<1>1. ControlInit => MnInv /\ MnStartInv
  BY ControlInits, MnInitInv, MnStartInit
<1>2. (MnInv /\ MnStartInv) /\ [ControlNext]_controlVars => (MnInv /\ MnStartInv)'
  BY OneService, MnStepInv
<1>3. MnInv /\ MnStartInv => SeriesKept
  BY MnInvMeans
<1> QED
  BY <1>1, <1>2, <1>3, PTL DEF ControlSpec, controlVars

------------------------------------------------------------------------------
(* The resource services: the inductive invariant.  Every resource has its *)
(* nested part to itself (StoreInv), and an operation its part with no     *)
(* endpoint, the one kind of resource whose part is changed in place       *)
(* (OpInv).                                                                *)

Contents == SUBSET (RsIds \union Nat)

StoreInv(T, H) ==
  /\ H \in Seq(Contents)
  /\ \A n \in DOMAIN T : /\ T[n] = [state |-> T[n].state, part |-> T[n].part]
                         /\ T[n].part \in 0..Len(H)
  /\ \A m, n \in DOMAIN T : m # n /\ T[m].part = T[n].part => T[n].part = 0

Unshared(op, T, H) ==
  /\ op = [of |-> op.of, state |-> op.state, part |-> op.part] /\ op.part \in 0..Len(H)
  /\ op.of[1] # "endpoints" /\ op.part # 0 =>
       \A n \in DOMAIN T : n[1] = "endpoints" => T[n].part # op.part
OpInv(op, told, T, H) ==
  /\ Unshared(op, T, H)
  /\ told = [of |-> op.of, state |-> op.state, content |-> told.content]
  /\ op.of[1] # "endpoints" => RsContent(H, op.part) = told.content

ProjectsInv(D, P) ==
  /\ P \in Seq(RsIds)
  /\ \A n \in DOMAIN P : <<"projects", P[n]>> \in D
  /\ \A m, n \in DOMAIN P : P[m] = P[n] => m = n

RsInv ==
  /\ rsCounter \in Nat /\ StoreInv(things, heap) /\ ProjectsInv(DOMAIN things, projectOf)
  /\ DOMAIN operations = DOMAIN rsTold
  /\ \A o \in DOMAIN operations :
       o \in 1..rsCounter /\ OpInv(operations[o], rsTold[o], things, heap)

(* What a call may do: file parts of its own, and change those of endpoints. *)
StoreStep(T, H) ==
  /\ StoreInv(T, H) /\ Len(heap) <= Len(H)
  /\ \A a \in 1..Len(heap) :
       H[a] = heap[a] \/ \E n \in DOMAIN things : n[1] = "endpoints" /\ things[n].part = a
  /\ \A n \in DOMAIN T : n[1] = "endpoints" =>
       \/ T[n].part = 0 \/ T[n].part > Len(heap)
       \/ n \in DOMAIN things /\ T[n].part = things[n].part

LEMMA OpStays ==
  ASSUME StoreInv(things, heap), NEW T, NEW H, StoreStep(T, H),
         NEW op, NEW told, OpInv(op, told, things, heap)
  PROVE  OpInv(op, told, T, H)
<1>1. Len(heap) \in Nat /\ Len(H) \in Nat /\ Len(heap) <= Len(H)
  BY LenProperties DEF StoreInv, StoreStep
<1>2. /\ op = [of |-> op.of, state |-> op.state, part |-> op.part] /\ op.part \in 0..Len(heap)
      /\ op.of[1] # "endpoints" /\ op.part # 0 =>
           \A n \in DOMAIN things : n[1] = "endpoints" => things[n].part # op.part
  BY DEF OpInv, Unshared
<1>3. op.part \in 0..Len(H)
  BY <1>1, <1>2
<1>4. ASSUME op.of[1] # "endpoints", op.part # 0
      PROVE  /\ H[op.part] = heap[op.part]
             /\ \A n \in DOMAIN T : n[1] = "endpoints" => T[n].part # op.part
  <2>1. op.part \in 1..Len(heap)
    BY <1>1, <1>2, <1>4
  <2> QED
    BY <1>1, <1>2, <1>4, <2>1 DEF StoreStep
<1>5. Unshared(op, T, H)
  BY <1>2, <1>3, <1>4 DEF Unshared
<1>6. op.of[1] # "endpoints" => RsContent(H, op.part) = told.content
  <2>1. op.of[1] # "endpoints" => RsContent(heap, op.part) = told.content
    BY DEF OpInv
  <2> QED
    BY <1>4, <2>1 DEF RsContent
<1> QED
  BY <1>5, <1>6 DEF OpInv

(* A call that leaves the store T and the heap H, and records op or nothing. *)
LEMMA RsAnswered ==
  ASSUME RsInv, NEW T, NEW H, NEW drawn \in {0, 1}, NEW op,
         RsReply(T, H, drawn, op) \/ RsQuiet(T, H, drawn),
         StoreStep(T, H), Unshared(op, T, H), ProjectsInv(DOMAIN T, projectOf')
  PROVE  RsInv'
<1>1. /\ things' = T /\ heap' = H /\ StoreInv(T, H)
      /\ StoreInv(things, heap) /\ rsCounter \in Nat
  BY DEF RsReply, RsQuiet, StoreStep, RsInv
<1>2. StoreInv(things, heap)' /\ ProjectsInv(DOMAIN things, projectOf)'
  BY <1>1 DEF StoreInv, ProjectsInv
<1>3. \A o \in DOMAIN operations : OpInv(operations[o], rsTold[o], T, H)
  BY <1>1, OpStays DEF RsInv
<1>4. CASE RsQuiet(T, H, drawn)
  <2>1. /\ rsCounter' = rsCounter + drawn /\ rsCounter' \in Nat /\ rsCounter <= rsCounter'
        /\ UNCHANGED <<operations, rsTold>>
    BY <1>1, <1>4 DEF RsQuiet
  <2>2. \A o \in DOMAIN operations' :
          o \in 1..rsCounter' /\ OpInv(operations'[o], rsTold'[o], things', heap')
    BY <1>1, <1>3, <2>1 DEF RsInv
  <2> QED
    BY <1>2, <2>1, <2>2 DEF RsInv, OpInv, Unshared
<1>5. CASE RsReply(T, H, drawn, op)
  <2>1. PICK n, told : /\ n = rsCounter + drawn + 1
                       /\ told = [of |-> op.of, state |-> op.state, content |-> RsContent(H, op.part)]
    OBVIOUS
  <2>2. n \in Nat /\ n \in 1..n /\ n \notin 1..rsCounter /\ \A o \in 1..rsCounter : o \in 1..n
    BY <1>1, <2>1
  <2>3. n \notin DOMAIN rsTold
    BY <2>2 DEF RsInv
  <2>4. /\ rsCounter' = n /\ operations' = RsWith(operations, n, op)
        /\ rsTold' = RsWith(rsTold, n, told)
    BY <1>5, <2>1, <2>3 DEF RsReply
  <2>5. OpInv(op, told, T, H)
    BY <2>1 DEF OpInv
  <2>6. /\ DOMAIN operations' = DOMAIN operations \union {n} /\ DOMAIN rsTold' = DOMAIN operations'
        /\ operations'[n] = op /\ rsTold'[n] = told
        /\ \A o \in DOMAIN operations : o # n =>
             operations'[o] = operations[o] /\ rsTold'[o] = rsTold[o]
    BY <2>4 DEF RsWith, RsInv
  <2>7. \A o \in DOMAIN operations' :
          o \in 1..rsCounter' /\ OpInv(operations'[o], rsTold'[o], things', heap')
    <3>1. ASSUME NEW o \in DOMAIN operations'
          PROVE  o \in 1..rsCounter' /\ OpInv(operations'[o], rsTold'[o], T, H)
      <4>1. CASE o = n
        BY <2>2, <2>4, <2>5, <2>6, <4>1
      <4>2. CASE o # n
        BY <1>3, <2>2, <2>4, <2>6, <4>2 DEF RsInv
      <4> QED
        BY <4>1, <4>2
    <3> QED
      BY <1>1, <3>1
  <2> QED
    BY <1>2, <2>2, <2>4, <2>6, <2>7 DEF RsInv, OpInv, Unshared
<1> QED
  BY <1>4, <1>5

LEMMA RsInitInv == ResourcesInit => RsInv
<1> SUFFICES ASSUME ResourcesInit PROVE RsInv
  OBVIOUS
<1>1. /\ DOMAIN things = {} /\ heap = <<>> /\ DOMAIN operations = {} /\ DOMAIN rsTold = {}
      /\ rsCounter = 0 /\ projectOf = <<>>
  BY DEF ResourcesInit
<1>2. <<>> \in Seq(Contents) /\ <<>> \in Seq(RsIds) /\ DOMAIN <<>> = {}
  OBVIOUS
<1>3. StoreInv(things, heap) /\ ProjectsInv(DOMAIN things, projectOf)
  BY <1>1, <1>2 DEF StoreInv, ProjectsInv
<1> QED
  BY <1>1, <1>3 DEF RsInv

LEMMA RsInvMeans == RsInv => OperationsReplay
BY DEF RsInv, ProjectsInv, OpInv, OperationsReplay

(* A resource gets no part, one of its own, or keeps what it has. *)
LEMMA Placed ==
  ASSUME StoreInv(things, heap), NEW T, NEW H, NEW name,
         DOMAIN T = DOMAIN things \union {name},
         T[name] = [state |-> T[name].state, part |-> T[name].part],
         \A n \in DOMAIN things : n # name => T[n] = things[n],
         H \in Seq(Contents), Len(heap) <= Len(H), \A a \in 1..Len(heap) : H[a] = heap[a],
         T[name].part \in 0..Len(H),
         \/ T[name].part = 0 \/ T[name].part > Len(heap)
         \/ name \in DOMAIN things /\ T[name].part = things[name].part
  PROVE  StoreStep(T, H) /\ Unshared(RsShown(name, T), T, H)
<1>1. /\ Len(heap) \in Nat /\ Len(H) \in Nat
      /\ \A n \in DOMAIN things : /\ things[n] = [state |-> things[n].state, part |-> things[n].part]
                                  /\ things[n].part \in 0..Len(heap)
      /\ \A m, n \in DOMAIN things : m # n /\ things[m].part = things[n].part => things[n].part = 0
  BY LenProperties DEF StoreInv
<1>2. \A n \in DOMAIN T : /\ T[n] = [state |-> T[n].state, part |-> T[n].part]
                          /\ T[n].part \in 0..Len(H)
  BY <1>1
<1>3. ASSUME NEW n \in DOMAIN T, n # name, T[n].part = T[name].part PROVE T[n].part = 0
  BY <1>1, <1>3
<1>4. \A m, n \in DOMAIN T : m # n /\ T[m].part = T[n].part => T[n].part = 0
  BY <1>1, <1>3
<1>5. StoreInv(T, H)
  BY <1>2, <1>4 DEF StoreInv
<1>6. StoreStep(T, H)
  BY <1>5 DEF StoreStep
<1>7. PICK op : op = RsShown(name, T)
  OBVIOUS
<1>8. op = [of |-> name, state |-> T[name].state, part |-> T[name].part]
  BY <1>7 DEF RsShown
<1>9. op.of = name /\ op.part = T[name].part /\ op = [of |-> op.of, state |-> op.state, part |-> op.part]
  BY <1>8
<1>10. Unshared(op, T, H)
  BY <1>3, <1>9 DEF Unshared
<1> QED
  BY <1>6, <1>7, <1>10

(* A part is added at the end. *)
LEMMA PartAdded ==
  ASSUME NEW H \in Seq(Contents), NEW c \in Contents
  PROVE  /\ Append(H, c) \in Seq(Contents) /\ Len(H) \in Nat /\ Len(Append(H, c)) = Len(H) + 1
         /\ \A a \in 1..Len(H) : Append(H, c)[a] = H[a]
BY AppendProperties, LenProperties

(* An operation that embeds no part. *)
LEMMA NoPart ==
  ASSUME NEW H \in Seq(Contents), NEW T, NEW of, NEW state
  PROVE  Unshared([of |-> of, state |-> state, part |-> 0], T, H)
BY LenProperties DEF Unshared

LEMMA EmptyUnshared ==
  ASSUME NEW H \in Seq(Contents), NEW T
  PROVE  Unshared(RsEmpty, T, H)
BY NoPart DEF RsEmpty

LEMMA StoreSame == StoreInv(things, heap) => StoreStep(things, heap)
BY LenProperties DEF StoreStep, StoreInv

(* Only Resource Manager draws project numbers, and it deletes no project. *)
LEMMA ProjectsStay ==
  ASSUME RsInv, NEW D, UNCHANGED projectOf,
         \A n \in DOMAIN things : n[1] = "projects" => n \in D
  PROVE  ProjectsInv(D, projectOf')
<1>1. \A x : <<"projects", x>>[1] = "projects"
  OBVIOUS
<1>2. ProjectsInv(DOMAIN things, projectOf)
  BY DEF RsInv
<1> QED
  BY <1>1, <1>2 DEF ProjectsInv

LEMMA RsFileInv ==
  ASSUME RsInv, NEW name, NEW state, NEW c \in Contents, NEW drawn \in {0, 1}, NEW done,
         RsFile(name, state, c, drawn, done), ProjectsInv(DOMAIN things \union {name}, projectOf')
  PROVE  RsInv'
<1>1. PICK r, T, H, op : /\ r = [state |-> state, part |-> Len(heap) + 1]
                         /\ T = RsWith(things, name, r) /\ H = Append(heap, c)
                         /\ op = RsShown(name, T)
  OBVIOUS
<1>2. RsReply(T, H, drawn, op) \/ RsQuiet(T, H, drawn)
  BY <1>1 DEF RsFile, RsAnswer
<1>3. StoreInv(things, heap) /\ heap \in Seq(Contents)
  BY DEF RsInv, StoreInv
<1>4. /\ H \in Seq(Contents) /\ Len(heap) \in Nat /\ Len(H) = Len(heap) + 1
      /\ \A a \in 1..Len(heap) : H[a] = heap[a]
  BY <1>1, <1>3, PartAdded
<1>5. /\ DOMAIN T = DOMAIN things \union {name} /\ T[name] = r
      /\ \A n \in DOMAIN things : n # name => T[n] = things[n]
  BY <1>1 DEF RsWith
<1>6. r = [state |-> r.state, part |-> r.part] /\ r.part \in 0..Len(H) /\ r.part > Len(heap)
      /\ Len(heap) <= Len(H)
  BY <1>1, <1>4
<1>7. StoreStep(T, H) /\ Unshared(op, T, H)
  BY <1>1, <1>3, <1>4, <1>5, <1>6, Placed
<1> QED
  BY <1>2, <1>5, <1>7, RsAnswered

(* A call changes resource name and leaves the heap, or adds a part for it. *)
LEMMA RsReplaced ==
  ASSUME RsInv, NEW name \in DOMAIN things, NEW c \in Contents
  PROVE  LET T == [things EXCEPT ![name].part = Len(heap) + 1]
         IN /\ StoreStep(T, Append(heap, c)) /\ Unshared(RsShown(name, T), T, Append(heap, c))
            /\ DOMAIN T = DOMAIN things
<1>1. PICK r, T, H : /\ r = [things[name] EXCEPT !.part = Len(heap) + 1]
                     /\ T = [things EXCEPT ![name] = r] /\ H = Append(heap, c)
  OBVIOUS
<1>2. StoreInv(things, heap) /\ heap \in Seq(Contents)
  BY DEF RsInv, StoreInv
<1>3. /\ H \in Seq(Contents) /\ Len(heap) \in Nat /\ Len(H) = Len(heap) + 1
      /\ \A a \in 1..Len(heap) : H[a] = heap[a]
  BY <1>1, <1>2, PartAdded
<1>4. things[name] = [state |-> things[name].state, part |-> things[name].part]
  BY <1>2 DEF StoreInv
<1>5. r = [state |-> r.state, part |-> r.part] /\ r.part = Len(heap) + 1
  BY <1>1, <1>4
<1>6. /\ DOMAIN T = DOMAIN things \union {name} /\ DOMAIN T = DOMAIN things /\ T[name] = r
      /\ \A n \in DOMAIN things : n # name => T[n] = things[n]
  BY <1>1
<1>7. r.part \in 0..Len(H) /\ r.part > Len(heap) /\ Len(heap) <= Len(H)
  BY <1>3, <1>5
<1>8. StoreStep(T, H) /\ Unshared(RsShown(name, T), T, H)
  BY <1>2, <1>3, <1>5, <1>6, <1>7, Placed
<1> QED
  BY <1>1, <1>6, <1>8

LEMMA RsStateSet ==
  ASSUME RsInv, NEW name \in DOMAIN things, NEW state
  PROVE  LET T == [things EXCEPT ![name].state = state]
         IN /\ StoreStep(T, heap) /\ Unshared(RsShown(name, T), T, heap)
            /\ DOMAIN T = DOMAIN things
<1>1. PICK r, T : /\ r = [things[name] EXCEPT !.state = state]
                  /\ T = [things EXCEPT ![name] = r]
  OBVIOUS
<1>2. StoreInv(things, heap) /\ heap \in Seq(Contents) /\ Len(heap) \in Nat
  BY LenProperties DEF RsInv, StoreInv
<1>3. /\ things[name] = [state |-> things[name].state, part |-> things[name].part]
      /\ things[name].part \in 0..Len(heap)
  BY <1>2 DEF StoreInv
<1>4. r = [state |-> r.state, part |-> r.part] /\ r.part = things[name].part
  BY <1>1, <1>3
<1>5. /\ DOMAIN T = DOMAIN things \union {name} /\ DOMAIN T = DOMAIN things /\ T[name] = r
      /\ \A n \in DOMAIN things : n # name => T[n] = things[n]
  BY <1>1
<1>6. StoreStep(T, heap) /\ Unshared(RsShown(name, T), T, heap)
  BY <1>2, <1>3, <1>4, <1>5, Placed
<1> QED
  BY <1>1, <1>5, <1>6

LEMMA RsReplaceInv ==
  ASSUME RsInv, NEW name, NEW c \in Contents, NEW done, RsReplace(name, c, done), UNCHANGED projectOf
  PROVE  RsInv'
<1>1. PICK T, H : T = [things EXCEPT ![name].part = Len(heap) + 1] /\ H = Append(heap, c)
  OBVIOUS
<1>2. name \in DOMAIN things /\ (RsReply(T, H, 0, RsShown(name, T)) \/ RsQuiet(T, H, 0))
  BY <1>1 DEF RsReplace, RsAnswer
<1>3. StoreStep(T, H) /\ Unshared(RsShown(name, T), T, H) /\ DOMAIN T = DOMAIN things
  BY <1>1, <1>2, RsReplaced
<1>4. ProjectsInv(DOMAIN T, projectOf')
  BY <1>3, ProjectsStay
<1> QED
  BY <1>2, <1>3, <1>4, RsAnswered

LEMMA RsDeleteInv ==
  ASSUME RsInv, NEW name, name[1] # "projects", NEW done, RsDelete(name, done), UNCHANGED projectOf
  PROVE  RsInv'
<1>1. PICK T : T = RsDrop(things, name)
  OBVIOUS
<1>2. RsReply(T, heap, 0, RsEmpty) \/ RsQuiet(T, heap, 0)
  BY <1>1 DEF RsDelete, RsAnswer
<1>3. DOMAIN T = DOMAIN things \ {name} /\ \A n \in DOMAIN T : T[n] = things[n]
  BY <1>1 DEF RsDrop
<1>4. StoreInv(things, heap) /\ heap \in Seq(Contents)
  BY DEF RsInv, StoreInv
<1>5. Len(heap) \in Nat
  BY <1>4, LenProperties
<1>6. StoreStep(T, heap)
  BY <1>3, <1>4, <1>5 DEF StoreStep, StoreInv
<1>7. ProjectsInv(DOMAIN T, projectOf')
  BY <1>3, ProjectsStay
<1>8. Unshared(RsEmpty, T, heap)
  BY <1>4, EmptyUnshared
<1> QED
  BY <1>2, <1>6, <1>7, <1>8, RsAnswered

LEMMA RsSetStateInv ==
  ASSUME RsInv, NEW name, NEW state, RsSetState(name, state), UNCHANGED projectOf
  PROVE  RsInv'
<1>1. PICK T : T = [things EXCEPT ![name].state = state]
  OBVIOUS
<1>2. name \in DOMAIN things /\ RsQuiet(T, heap, 0)
  BY <1>1 DEF RsSetState
<1>3. StoreStep(T, heap) /\ Unshared(RsShown(name, T), T, heap) /\ DOMAIN T = DOMAIN things
  BY <1>1, <1>2, RsStateSet
<1>4. ProjectsInv(DOMAIN T, projectOf')
  BY <1>3, ProjectsStay
<1> QED
  BY <1>2, <1>3, <1>4, RsAnswered

(* The call changes the state of a resource and answers with op. *)
LEMMA RsStateReplyInv ==
  ASSUME RsInv, NEW name \in DOMAIN things, NEW state, NEW op,
         RsReply([things EXCEPT ![name].state = state], heap, 0, op), UNCHANGED projectOf,
         op = RsEmpty \/ op = RsShown(name, [things EXCEPT ![name].state = state])
  PROVE  RsInv'
<1>1. PICK T : T = [things EXCEPT ![name].state = state]
  OBVIOUS
<1>2. RsReply(T, heap, 0, op) /\ (op = RsEmpty \/ op = RsShown(name, T))
  BY <1>1
<1>3. StoreStep(T, heap) /\ Unshared(RsShown(name, T), T, heap) /\ DOMAIN T = DOMAIN things
  BY <1>1, RsStateSet
<1>4. Unshared(RsEmpty, T, heap)
  BY EmptyUnshared DEF RsInv, StoreInv
<1>5. Unshared(op, T, heap)
  BY <1>2, <1>3, <1>4
<1>6. ProjectsInv(DOMAIN T, projectOf')
  BY <1>3, ProjectsStay
<1> QED
  BY <1>2, <1>3, <1>5, <1>6, RsAnswered

(* The call records an operation without a part and changes nothing else. *)
LEMMA RsRecordInv ==
  ASSUME RsInv, NEW op, Unshared(op, things, heap), RsReply(things, heap, 0, op), UNCHANGED projectOf
  PROVE  RsInv'
<1>1. StoreStep(things, heap)
  BY StoreSame DEF RsInv
<1>2. ProjectsInv(DOMAIN things, projectOf')
  BY ProjectsStay
<1> QED
  BY <1>1, <1>2, RsAnswered

LEMMA VertexCreateInv ==
  ASSUME RsInv, NEW collection, collection # "projects", NEW chosen, NEW given, NEW done,
         VertexCreate(collection, chosen, given, done), UNCHANGED projectOf
  PROVE  RsInv'
<1>1. PICK drawn, name, r, T :
        /\ drawn = (IF chosen = 0 THEN 1 ELSE 0)
        /\ name  = <<collection, IF chosen = 0 THEN rsCounter + 1 ELSE chosen>>
        /\ r = [state |-> "", part |-> 0] /\ T = RsWith(things, name, r)
  OBVIOUS
<1>2. drawn \in {0, 1} /\ {} \in Contents
  BY <1>1 DEF Contents
<1>3. \/ RsQuiet(things, heap, drawn)
      \/ RsFile(name, "", {}, drawn, done)
      \/ RsAnswer(done, T, heap, drawn, RsShown(name, T))
  BY <1>1 DEF VertexCreate
<1>4. StoreInv(things, heap) /\ heap \in Seq(Contents) /\ Len(heap) \in Nat
  BY LenProperties DEF RsInv, StoreInv
<1>5. CASE RsQuiet(things, heap, drawn)
  <2>1. StoreStep(things, heap) /\ Unshared(RsEmpty, things, heap)
    BY <1>4, StoreSame, EmptyUnshared
  <2>2. ProjectsInv(DOMAIN things, projectOf')
    BY ProjectsStay
  <2> QED
    BY <1>2, <1>5, <2>1, <2>2, RsAnswered
<1>6. CASE RsFile(name, "", {}, drawn, done)
  <2>1. ProjectsInv(DOMAIN things \union {name}, projectOf')
    BY ProjectsStay
  <2> QED
    BY <1>2, <1>6, <2>1, RsFileInv
<1>7. CASE RsAnswer(done, T, heap, drawn, RsShown(name, T))
  <2>1. RsReply(T, heap, drawn, RsShown(name, T)) \/ RsQuiet(T, heap, drawn)
    BY <1>7 DEF RsAnswer
  <2>2. /\ DOMAIN T = DOMAIN things \union {name} /\ T[name] = r
        /\ \A n \in DOMAIN things : n # name => T[n] = things[n]
    BY <1>1 DEF RsWith
  <2>3. r = [state |-> r.state, part |-> r.part] /\ r.part = 0 /\ r.part \in 0..Len(heap)
    <3>1. r = [state |-> "", part |-> 0] /\ Len(heap) \in Nat
      BY <1>1, <1>4
    <3>2. r.state = "" /\ r.part = 0
      BY <3>1
    <3>3. r = [state |-> r.state, part |-> r.part]
      BY <3>1, <3>2
    <3>4. 0 \in 0..Len(heap)
      BY <1>4
    <3> QED
      BY <3>2, <3>3, <3>4
  <2>4. StoreStep(T, heap) /\ Unshared(RsShown(name, T), T, heap)
    BY <1>4, <2>2, <2>3, Placed
  <2>5. ProjectsInv(DOMAIN T, projectOf')
    BY <2>2, ProjectsStay
  <2> QED
    BY <1>2, <2>1, <2>4, <2>5, RsAnswered
<1> QED
  BY <1>3, <1>5, <1>6, <1>7

LEMMA VertexDeployInv ==
  ASSUME RsInv, NEW i \in RsIds, NEW chosen \in RsIds \union {0},
         VertexDeploy(<<"endpoints", i>>, chosen), UNCHANGED projectOf
  PROVE  RsInv'
<1>1. PICK drawn, d, part, reply, name :
        /\ drawn = 1
        /\ d = (IF chosen = 0 THEN rsCounter + 1 ELSE chosen)
        /\ name = <<"endpoints", i>> /\ part = things[name].part
        /\ reply = [of |-> <<"deployed", d>>, state |-> "", part |-> 0]
  OBVIOUS
<1>2. drawn \in {0, 1} /\ {d} \in Contents /\ d \in RsIds \union Nat
  <2>1. rsCounter + 1 \in Nat
    BY DEF RsInv
  <2> QED
    BY <1>1, <2>1 DEF Contents
<1>3. name \in DOMAIN things /\ name[1] = "endpoints"
  BY <1>1 DEF VertexDeploy
<1>4. /\ StoreInv(things, heap) /\ heap \in Seq(Contents) /\ Len(heap) \in Nat
      /\ DOMAIN heap = 1..Len(heap) /\ part \in 0..Len(heap)
  BY <1>1, <1>3, LenProperties DEF RsInv, StoreInv
<1>5. CASE part = 0
  <2>1. PICK T, H : T = [things EXCEPT ![name].part = Len(heap) + 1] /\ H = Append(heap, {d})
    OBVIOUS
  <2>2. RsReply(T, H, drawn, reply)
    BY <1>1, <1>5, <2>1 DEF VertexDeploy
  <2>3. StoreStep(T, H) /\ DOMAIN T = DOMAIN things
    BY <1>2, <1>3, <2>1, RsReplaced
  <2>4. Unshared(reply, T, H)
    BY <1>1, <2>3, NoPart DEF StoreStep, StoreInv
  <2>5. ProjectsInv(DOMAIN T, projectOf')
    BY <2>3, ProjectsStay
  <2> QED
    BY <1>2, <2>2, <2>3, <2>4, <2>5, RsAnswered
<1>6. CASE part # 0
  <2>1. PICK content, H : content = heap[part] \union {d} /\ H = [heap EXCEPT ![part] = content]
    OBVIOUS
  <2>2. RsReply(things, H, drawn, reply)
    BY <1>1, <1>6, <2>1 DEF VertexDeploy
  <2>3. part \in DOMAIN heap
    BY <1>4, <1>6
  <2>4. content \in Contents
    <3>1. heap[part] \in Contents
      BY <1>4, <2>3, ElementOfSeq
    <3> QED
      BY <1>2, <2>1, <3>1 DEF Contents
  <2>5. /\ H \in Seq(Contents) /\ DOMAIN H = DOMAIN heap
        /\ \A a \in DOMAIN heap : a # part => H[a] = heap[a]
    <3>1. /\ [heap EXCEPT ![part] = content] \in Seq(Contents)
          /\ DOMAIN [heap EXCEPT ![part] = content] = DOMAIN heap
          /\ \A a \in DOMAIN heap : a # part => [heap EXCEPT ![part] = content][a] = heap[a]
      BY <1>4, <2>3, <2>4, Replaced
    <3> QED
      BY <2>1, <3>1
  <2>6. Len(H) = Len(heap)
    <3>1. Len(H) \in Nat /\ DOMAIN H = 1..Len(H)
      BY <2>5, LenProperties
    <3> QED
      BY <1>4, <2>5, <3>1
  <2>7. StoreStep(things, H)
    <3>1. StoreInv(things, H)
      BY <1>4, <2>5, <2>6 DEF StoreInv
    <3>2. \A a \in 1..Len(heap) :
            H[a] = heap[a] \/ \E n \in DOMAIN things : n[1] = "endpoints" /\ things[n].part = a
      BY <1>1, <1>3, <1>4, <2>5
    <3> QED
      BY <1>4, <2>6, <3>1, <3>2 DEF StoreStep
  <2>8. Unshared(reply, things, H)
    BY <1>1, <2>5, NoPart
  <2>9. ProjectsInv(DOMAIN things, projectOf')
    BY ProjectsStay
  <2> QED
    BY <1>2, <2>2, <2>7, <2>8, <2>9, RsAnswered
<1> QED
  BY <1>5, <1>6

LEMMA VertexUndeployInv ==
  ASSUME RsInv, NEW name, NEW d, VertexUndeploy(name, d), UNCHANGED projectOf
  PROVE  RsInv'
<1>1. PICK c, T, H : /\ c = RsContent(heap, things[name].part) \ {d}
                     /\ T = [things EXCEPT ![name].part = Len(heap) + 1] /\ H = Append(heap, c)
  OBVIOUS
<1>2. name \in DOMAIN things /\ RsReply(T, H, 0, RsEmpty)
  BY <1>1 DEF VertexUndeploy
<1>3. /\ heap \in Seq(Contents) /\ Len(heap) \in Nat /\ DOMAIN heap = 1..Len(heap)
      /\ things[name].part \in 0..Len(heap)
  BY <1>2, LenProperties DEF RsInv, StoreInv
<1>4. things[name].part # 0 => heap[things[name].part] \in Contents
  <2>1. things[name].part # 0 => things[name].part \in DOMAIN heap
    BY <1>3
  <2> QED
    BY <1>3, <2>1, ElementOfSeq
<1>5. c \in Contents
  BY <1>1, <1>4 DEF RsContent, Contents
<1>6. StoreStep(T, H) /\ DOMAIN T = DOMAIN things
  BY <1>1, <1>2, <1>5, RsReplaced
<1>7. Unshared(RsEmpty, T, H)
  BY <1>6, EmptyUnshared DEF StoreStep, StoreInv
<1>8. ProjectsInv(DOMAIN T, projectOf')
  BY <1>6, ProjectsStay
<1> QED
  BY <1>2, <1>6, <1>7, <1>8, RsAnswered

LEMMA RsFiledInv ==
  ASSUME RsInv, NEW name, NEW state, NEW c \in Contents, NEW drawn \in {0, 1}, NEW done,
         RsFile(name, state, c, drawn, done), UNCHANGED projectOf
  PROVE  RsInv'
<1>1. ProjectsInv(DOMAIN things \union {name}, projectOf')
  BY ProjectsStay
<1> QED
  BY <1>1, RsFileInv

LEMMA SomeContents == {} \in Contents /\ \A c \in RsIds : {c} \in Contents
BY DEF Contents

LEMMA ArtifactInv == RsInv /\ ArtifactNext => RsInv'
<1> SUFFICES ASSUME RsInv, ArtifactNext PROVE RsInv'
  OBVIOUS
<1>1. UNCHANGED projectOf
  BY DEF ArtifactNext
<1>2. ASSUME NEW name, name[1] # "projects", NEW created, NEW deleted,
             ArtifactModel(name, created, deleted)
      PROVE  RsInv'
  BY <1>1, <1>2, SomeContents, RsFiledInv, RsReplaceInv, RsDeleteInv DEF ArtifactModel
<1>3. \A i : /\ <<"repositories", i>>[1] # "projects" /\ <<"packages", i>>[1] # "projects"
             /\ <<"tags", i>>[1] # "projects"
  OBVIOUS
<1>4. PICK i \in RsIds : \/ ArtifactModel(<<"repositories", i>>, TRUE, TRUE)
                         \/ ArtifactModel(<<"packages", i>>, FALSE, TRUE)
                         \/ ArtifactModel(<<"tags", i>>, FALSE, FALSE)
  BY DEF ArtifactNext
<1> QED
  BY <1>2, <1>3, <1>4

LEMMA VertexInv == RsInv /\ VertexNext => RsInv'
<1> SUFFICES ASSUME RsInv, VertexNext PROVE RsInv'
  OBVIOUS
<1>1. UNCHANGED projectOf /\ (VertexServing \/ VertexTraining)
  BY DEF VertexNext
<1>2. \A name : name[1] \in {"datasets", "endpoints"} \union VertexJobs \union {"models"}
                  => name[1] # "projects"
  BY DEF VertexJobs
<1>3. \A collection \in {"datasets", "endpoints", "models"} \union VertexJobs :
        collection # "projects"
  BY DEF VertexJobs
<1>4. CASE VertexServing
  BY <1>1, <1>2, <1>3, <1>4, VertexCreateInv, VertexDeployInv, VertexUndeployInv, RsDeleteInv
     DEF VertexServing
<1>5. CASE VertexTraining
  BY <1>1, <1>2, <1>3, <1>5, VertexCreateInv, RsSetStateInv, RsDeleteInv DEF VertexTraining
<1> QED
  BY <1>1, <1>4, <1>5

LEMMA DocumentInv == RsInv /\ DocumentNext => RsInv'
<1> SUFFICES ASSUME RsInv, DocumentNext PROVE RsInv'
  OBVIOUS
<1>1. /\ UNCHANGED projectOf
      /\ \/ \E i \in 1..rsCounter + 1 : DocumentModel(i)
         \/ RsReply(things, heap, 0, RsEmpty)
  BY DEF DocumentNext
<1>2. CASE RsReply(things, heap, 0, RsEmpty)
  <2>1. Unshared(RsEmpty, things, heap)
    BY EmptyUnshared DEF RsInv, StoreInv
  <2> QED
    BY <1>1, <1>2, <2>1, RsRecordInv
<1>3. ASSUME NEW i, DocumentModel(i) PROVE RsInv'
  <2>1. PICK name : name = <<"processors", i>>
    OBVIOUS
  <2>2. name[1] # "projects"
    BY <2>1
  <2>3. \/ RsFile(name, "ENABLED", {}, 1, FALSE)
        \/ RsDelete(name, TRUE)
        \/ /\ name \in DOMAIN things
           /\ \E state \in {"ENABLED", "DISABLED"} :
                RsReply([things EXCEPT ![name].state = state], heap, 0, RsEmpty)
    BY <1>3, <2>1 DEF DocumentModel
  <2>4. CASE RsFile(name, "ENABLED", {}, 1, FALSE)
    BY <1>1, <2>4, SomeContents, RsFiledInv
  <2>5. CASE RsDelete(name, TRUE)
    BY <1>1, <2>2, <2>5, RsDeleteInv
  <2>6. ASSUME name \in DOMAIN things, NEW state \in {"ENABLED", "DISABLED"},
               RsReply([things EXCEPT ![name].state = state], heap, 0, RsEmpty)
        PROVE  RsInv'
    BY <1>1, <2>6, RsStateReplyInv
  <2> QED
    BY <2>3, <2>4, <2>5, <2>6
<1> QED
  BY <1>1, <1>2, <1>3

LEMMA MemorystoreInv == RsInv /\ MemorystoreNext => RsInv'
<1> SUFFICES ASSUME RsInv, MemorystoreNext PROVE RsInv'
  OBVIOUS
<1>1. UNCHANGED projectOf
  BY DEF MemorystoreNext
<1>2. PICK i \in RsIds : MemorystoreModel(<<"instances", i>>)
  BY DEF MemorystoreNext
<1>3. PICK name : name = <<"instances", i>>
  OBVIOUS
<1>4. name[1] # "projects" /\ MemorystoreModel(name)
  BY <1>2, <1>3
<1> QED
  BY <1>1, <1>4, SomeContents, RsFiledInv, RsReplaceInv, RsDeleteInv DEF MemorystoreModel

LEMMA FunctionsInv == RsInv /\ FunctionsNext => RsInv'
<1> SUFFICES ASSUME RsInv, FunctionsNext PROVE RsInv'
  OBVIOUS
<1>1. UNCHANGED projectOf
  BY DEF FunctionsNext
<1>2. PICK i \in RsIds : FunctionModel(<<"functions", i>>)
  BY DEF FunctionsNext
<1>3. PICK name : name = <<"functions", i>>
  OBVIOUS
<1>4. name[1] # "projects" /\ FunctionModel(name)
  BY <1>2, <1>3
<1> QED
  BY <1>1, <1>4, SomeContents, RsFiledInv, RsReplaceInv, RsDeleteInv DEF FunctionModel

(* A project's number is given to a name that was free. *)
LEMMA ProjectCreateInv ==
  ASSUME RsInv, NEW i \in RsIds, ProjectCreate(i)
  PROVE  RsInv'
<1>1. PICK name, P : name = <<"projects", i>> /\ P = Append(projectOf, i)
  OBVIOUS
<1>2. PICK c \in RsIds : RsFile(name, "ACTIVE", {c}, 0, TRUE)
  BY <1>1 DEF ProjectCreate
<1>3. projectOf' = P /\ name \notin DOMAIN things
  BY <1>1, <1>2 DEF ProjectCreate, RsFile
<1>4. /\ projectOf \in Seq(RsIds)
      /\ \A n \in DOMAIN projectOf : <<"projects", projectOf[n]>> \in DOMAIN things
      /\ \A m, n \in DOMAIN projectOf : projectOf[m] = projectOf[n] => m = n
  BY DEF RsInv, ProjectsInv
<1>5. /\ Len(projectOf) \in Nat /\ DOMAIN projectOf = 1..Len(projectOf) /\ P \in Seq(RsIds)
      /\ DOMAIN P = 1..Len(projectOf) + 1 /\ P[Len(projectOf) + 1] = i
      /\ \A n \in 1..Len(projectOf) : P[n] = projectOf[n]
  BY <1>1, <1>4, AppendProperties, LenProperties
<1>6. \A n \in DOMAIN P : \/ n \in DOMAIN projectOf /\ P[n] = projectOf[n]
                          \/ n = Len(projectOf) + 1 /\ P[n] = i
  BY <1>5
<1>7. \A n \in DOMAIN projectOf : projectOf[n] # i
  BY <1>1, <1>3, <1>4
<1>8. ProjectsInv(DOMAIN things \union {name}, P)
  BY <1>1, <1>4, <1>5, <1>6, <1>7 DEF ProjectsInv
<1>9. {c} \in Contents
  BY SomeContents
<1> QED
  BY <1>2, <1>3, <1>8, <1>9, RsFileInv

LEMMA ProjectsStepInv == RsInv /\ ProjectsNext => RsInv'
<1> SUFFICES ASSUME RsInv, ProjectsNext PROVE RsInv'
  OBVIOUS
<1>1. ASSUME NEW ident, ProjectChange(ident) PROVE RsInv'
  <2>1. PICK name : name = RsResolved(ident)
    OBVIOUS
  <2>2. name \in DOMAIN things /\ UNCHANGED projectOf
    BY <1>1, <2>1 DEF ProjectChange
  <2>3. ASSUME NEW state,
               RsReply([things EXCEPT ![name].state = state], heap, 0,
                       RsShown(name, [things EXCEPT ![name].state = state]))
        PROVE  RsInv'
    BY <2>2, <2>3, RsStateReplyInv
  <2>4. ASSUME NEW c \in RsIds, RsReplace(name, {c}, TRUE) PROVE RsInv'
    BY <2>2, <2>4, SomeContents, RsReplaceInv
  <2> QED
    BY <1>1, <2>1, <2>3, <2>4 DEF ProjectChange
<1> QED
  BY <1>1, ProjectCreateInv DEF ProjectsNext

LEMMA TransferStatusInv ==
  ASSUME RsInv, NEW n, NEW state, TransferStatus(n, state)
  PROVE  RsInv'
<1>1. /\ n \in DOMAIN operations /\ n \in DOMAIN rsTold
      /\ UNCHANGED <<things, heap, rsCounter, projectOf>>
      /\ operations' = [operations EXCEPT ![n].state = state]
      /\ rsTold' = [rsTold EXCEPT ![n].state = state]
  BY DEF TransferStatus, RsInv
<1>2. PICK op, told, newOp, newTold :
        /\ op = operations[n] /\ told = rsTold[n]
        /\ newOp = [op EXCEPT !.state = state] /\ newTold = [told EXCEPT !.state = state]
  OBVIOUS
<1>3. OpInv(op, told, things, heap)
  BY <1>1, <1>2 DEF RsInv
<1>4. /\ op = [of |-> op.of, state |-> op.state, part |-> op.part]
      /\ told = [of |-> op.of, state |-> op.state, content |-> told.content]
  BY <1>3 DEF OpInv, Unshared
<1>5. /\ newOp = [of |-> op.of, state |-> state, part |-> op.part]
      /\ newTold = [of |-> op.of, state |-> state, content |-> told.content]
  BY <1>2, <1>4
<1>6. /\ newOp.of = op.of /\ newOp.state = state /\ newOp.part = op.part
      /\ newTold.content = told.content
  BY <1>5
<1>7. OpInv(newOp, newTold, things, heap)
  BY <1>3, <1>5, <1>6 DEF OpInv, Unshared
<1>8. /\ DOMAIN operations' = DOMAIN operations /\ DOMAIN rsTold' = DOMAIN rsTold
      /\ operations'[n] = newOp /\ rsTold'[n] = newTold
      /\ \A o \in DOMAIN operations : o # n =>
           operations'[o] = operations[o] /\ rsTold'[o] = rsTold[o]
  BY <1>1, <1>2 DEF RsInv
<1>9. \A o \in DOMAIN operations : OpInv(operations'[o], rsTold'[o], things, heap)
  BY <1>7, <1>8 DEF RsInv
<1>10. \A o \in DOMAIN operations' :
         o \in 1..rsCounter' /\ OpInv(operations'[o], rsTold'[o], things', heap')
  BY <1>1, <1>8, <1>9 DEF RsInv
<1> QED
  BY <1>1, <1>8, <1>10 DEF RsInv, StoreInv, ProjectsInv, OpInv, Unshared

LEMMA TransferInv == RsInv /\ TransferNext => RsInv'
<1> SUFFICES ASSUME RsInv, TransferNext PROVE RsInv'
  OBVIOUS
<1>1. ASSUME NEW i, TransferJobs(i), UNCHANGED projectOf PROVE RsInv'
  <2>1. PICK name, op : /\ name = <<"transferJobs", i>>
                        /\ op = [of |-> name, state |-> "SUCCESS", part |-> 0]
    OBVIOUS
  <2>2. Unshared(op, things, heap)
    BY <2>1, NoPart DEF RsInv, StoreInv
  <2>3. \/ RsFile(name, "ENABLED", {}, 1, FALSE)
        \/ \E state \in {"ENABLED", "DISABLED", "DELETED"} : RsSetState(name, state)
        \/ RsReply(things, heap, 0, op)
    BY <1>1, <2>1 DEF TransferJobs
  <2> QED
    BY <1>1, <2>2, <2>3, SomeContents, RsFiledInv, RsSetStateInv, RsRecordInv
<1>2. ASSUME NEW i, TransferPools(<<"agentPools", i>>), UNCHANGED projectOf PROVE RsInv'
  <2>1. PICK name : name = <<"agentPools", i>>
    OBVIOUS
  <2>2. name[1] # "projects" /\ TransferPools(name)
    BY <1>2, <2>1
  <2> QED
    BY <1>2, <2>2, SomeContents, RsFiledInv, RsReplaceInv, RsDeleteInv DEF TransferPools
<1> QED
  BY <1>1, <1>2, TransferStatusInv DEF TransferNext

LEMMA RsStepInv == RsInv /\ [ResourcesNext]_rsVars => RsInv'
<1>1. RsInv /\ UNCHANGED rsVars => RsInv'
  BY DEF rsVars, RsInv, StoreInv, ProjectsInv, OpInv, Unshared, RsContent
<1> QED
  BY <1>1, ArtifactInv, VertexInv, DocumentInv, MemorystoreInv, FunctionsInv, ProjectsStepInv,
     TransferInv DEF ResourcesNext

(***************************************************************************)
(* The seven resource services: polling an operation replays what its call *)
(* returned, though it shares nested parts with the resource it is of; no  *)
(* number names two operations, and project numbers lead to the projects   *)
(* they were given to.                                                     *)
(***************************************************************************)
THEOREM OperationsStayTold == ControlSpec => []OperationsReplay
<1>1. ControlInit => RsInv
  BY ControlInits, RsInitInv
<1>2. RsInv /\ [ControlNext]_controlVars => RsInv'
  BY OneService, RsStepInv
<1>3. RsInv => OperationsReplay
  BY RsInvMeans
<1> QED
  BY <1>1, <1>2, <1>3, PTL DEF ControlSpec, controlVars

------------------------------------------------------------------------------
(* Types: what the services' own invariants leave open. *)

StateInv(T) == \A n \in DOMAIN T : /\ T[n] = [state |-> T[n].state, part |-> T[n].part]
                                   /\ T[n].state \in RsStates
RsTypeInv == RsInv /\ service \in RsServices /\ StateInv(things)

LEMMA RsAnswerLeaves ==
  ASSUME NEW done, NEW T, NEW H, NEW drawn, NEW op, RsAnswer(done, T, H, drawn, op)
  PROVE  things' = T /\ service' = service
BY DEF RsAnswer, RsReply, RsQuiet

LEMMA RsFieldSet ==
  ASSUME StateInv(things), NEW name, NEW T,
         \/ \E part : T = [things EXCEPT ![name].part = part]
         \/ \E state \in RsStates : T = [things EXCEPT ![name].state = state]
  PROVE  StateInv(T)
<1>1. ASSUME NEW part, T = [things EXCEPT ![name].part = part] PROVE StateInv(T)
  <2>1. ASSUME NEW n \in DOMAIN T, n # name PROVE T[n] = things[n]
    BY <1>1, <2>1
  <2>2. ASSUME name \in DOMAIN T PROVE T[name] = [state |-> things[name].state, part |-> part]
    <3>1. T[name] = [things[name] EXCEPT !.part = part]
      BY <1>1, <2>2
    <3>2. things[name] = [state |-> things[name].state, part |-> things[name].part]
      BY <1>1, <2>2 DEF StateInv
    <3> QED
      BY <3>1, <3>2
  <2>3. DOMAIN T = DOMAIN things
    BY <1>1
  <2> QED
    BY <2>1, <2>2, <2>3 DEF StateInv
<1>2. ASSUME NEW state \in RsStates, T = [things EXCEPT ![name].state = state] PROVE StateInv(T)
  <2>1. ASSUME NEW n \in DOMAIN T, n # name PROVE T[n] = things[n]
    BY <1>2, <2>1
  <2>2. ASSUME name \in DOMAIN T PROVE T[name] = [state |-> state, part |-> things[name].part]
    <3>1. T[name] = [things[name] EXCEPT !.state = state]
      BY <1>2, <2>2
    <3>2. things[name] = [state |-> things[name].state, part |-> things[name].part]
      BY <1>2, <2>2 DEF StateInv
    <3> QED
      BY <3>1, <3>2
  <2>3. DOMAIN T = DOMAIN things
    BY <1>2
  <2> QED
    BY <2>1, <2>2, <2>3 DEF StateInv
<1> QED
  BY <1>1, <1>2

LEMMA RsFileState ==
  ASSUME StateInv(things), NEW name, NEW state \in RsStates, NEW c, NEW drawn, NEW done,
         RsFile(name, state, c, drawn, done)
  PROVE  StateInv(things') /\ service' = service
<1> DEFINE T == RsWith(things, name, [state |-> state, part |-> Len(heap) + 1])
<1>1. things' = T /\ service' = service
  BY RsAnswerLeaves DEF RsFile
<1> QED
  BY <1>1 DEF StateInv, RsWith

LEMMA RsOldState ==
  ASSUME StateInv(things), NEW name, NEW c, NEW done,
         \/ RsReplace(name, c, done)
         \/ RsDelete(name, done)
         \/ \E state \in RsStates : RsSetState(name, state)
  PROVE  StateInv(things') /\ service' = service
<1>1. CASE RsReplace(name, c, done)
  <2>1. things' = [things EXCEPT ![name].part = Len(heap) + 1] /\ service' = service
    BY <1>1, RsAnswerLeaves DEF RsReplace
  <2> QED
    BY <2>1, RsFieldSet
<1>2. CASE RsDelete(name, done)
  <2>1. things' = RsDrop(things, name) /\ service' = service
    BY <1>2, RsAnswerLeaves DEF RsDelete
  <2> QED
    BY <2>1 DEF StateInv, RsDrop
<1>3. ASSUME NEW state \in RsStates, RsSetState(name, state)
      PROVE  StateInv(things') /\ service' = service
  BY <1>3, RsFieldSet DEF RsSetState, RsQuiet
<1> QED
  BY <1>1, <1>2, <1>3

LEMMA RsStateStep == StateInv(things) /\ ResourcesNext => StateInv(things') /\ service' = service
<1> SUFFICES ASSUME StateInv(things), ResourcesNext PROVE StateInv(things') /\ service' = service
  OBVIOUS
<1> DEFINE Goal == StateInv(things') /\ service' = service
<1>s. {"", "ENABLED", "DISABLED", "READY", "ACTIVE", "CREATING", "DELETED", "DELETE_REQUESTED",
       "JOB_STATE_CANCELLED"} \subseteq RsStates
  BY DEF RsStates
<1>1. CASE ArtifactNext
  <2>1. ASSUME NEW name, NEW created, NEW deleted, ArtifactModel(name, created, deleted) PROVE Goal
    BY <2>1, <1>s, RsFileState, RsOldState DEF ArtifactModel
  <2> QED
    BY <1>1, <2>1 DEF ArtifactNext
<1>2. CASE VertexNext
  <2>1. ASSUME NEW collection, NEW chosen, NEW given, NEW done,
               VertexCreate(collection, chosen, given, done)
        PROVE  Goal
    <3>0. PICK drawn, name, T :
            /\ drawn = IF chosen = 0 THEN 1 ELSE 0
            /\ name = <<collection, IF chosen = 0 THEN rsCounter + 1 ELSE chosen>>
            /\ T = RsWith(things, name, [state |-> "", part |-> 0])
      OBVIOUS
    <3>1. \/ things' = things /\ service' = service
          \/ RsFile(name, "", {}, drawn, done)
          \/ RsAnswer(done, T, heap, drawn, RsShown(name, T))
      BY <2>1, <3>0 DEF VertexCreate, RsQuiet
    <3>2. StateInv(T)
      BY <1>s, <3>0 DEF StateInv, RsWith
    <3>3. CASE RsAnswer(done, T, heap, drawn, RsShown(name, T))
      BY <3>2, <3>3, RsAnswerLeaves
    <3>4. CASE RsFile(name, "", {}, drawn, done)
      BY <3>4, <1>s, RsFileState
    <3> QED
      BY <3>1, <3>3, <3>4
  <2>2. ASSUME NEW name, NEW d, VertexDeploy(name, d) \/ VertexUndeploy(name, d) PROVE Goal
    <3>1. /\ service' = service
          /\ things' = things \/ things' = [things EXCEPT ![name].part = Len(heap) + 1]
      BY <2>2 DEF VertexDeploy, VertexUndeploy, RsReply
    <3> QED
      BY <3>1, RsFieldSet
  <2>3. CASE VertexServing
    BY <2>1, <2>2, <2>3, RsOldState DEF VertexServing
  <2>4. CASE VertexTraining
    BY <2>1, <2>4, <1>s, RsOldState DEF VertexTraining
  <2> QED
    BY <1>2, <2>3, <2>4 DEF VertexNext
<1>3. CASE DocumentNext
  <2>1. ASSUME NEW i, DocumentModel(i) PROVE Goal
    <3>1. PICK name : name = <<"processors", i>>
      OBVIOUS
    <3>2. CASE RsFile(name, "ENABLED", {}, 1, FALSE)
      BY <3>2, <1>s, RsFileState
    <3>3. CASE RsDelete(name, TRUE)
      BY <3>3, RsOldState
    <3>4. ASSUME NEW state \in {"ENABLED", "DISABLED"},
                 RsReply([things EXCEPT ![name].state = state], heap, 0, RsEmpty)
          PROVE  Goal
      <4>1. things' = [things EXCEPT ![name].state = state] /\ service' = service
        BY <3>4 DEF RsReply
      <4> QED
        BY <4>1, <1>s, RsFieldSet
    <3> QED
      BY <2>1, <3>1, <3>2, <3>3, <3>4 DEF DocumentModel
  <2>2. ASSUME RsReply(things, heap, 0, RsEmpty) PROVE Goal
    BY <2>2 DEF RsReply
  <2> QED
    BY <1>3, <2>1, <2>2 DEF DocumentNext
<1>4. CASE MemorystoreNext \/ FunctionsNext
  <2>1. ASSUME NEW name, MemorystoreModel(name) \/ FunctionModel(name) PROVE Goal
    BY <2>1, <1>s, RsFileState, RsOldState DEF MemorystoreModel, FunctionModel
  <2> QED
    BY <1>4, <2>1 DEF MemorystoreNext, FunctionsNext
<1>5. CASE ProjectsNext
  <2>1. ASSUME NEW i, ProjectCreate(i) PROVE Goal
    BY <2>1, <1>s, RsFileState DEF ProjectCreate
  <2>2. ASSUME NEW ident, ProjectChange(ident) PROVE Goal
    <3>1. PICK name : name = RsResolved(ident)
      OBVIOUS
    <3>2. ASSUME NEW state \in {"DELETE_REQUESTED", "ACTIVE"}, NEW T,
                 T = [things EXCEPT ![name].state = state],
                 RsReply(T, heap, 0, RsShown(name, T))
          PROVE  Goal
      <4>1. things' = T /\ service' = service
        BY <3>2 DEF RsReply
      <4>2. StateInv(T)
        BY <3>2, <1>s, RsFieldSet
      <4> QED
        BY <4>1, <4>2
    <3> QED
      BY <2>2, <3>1, <3>2, RsOldState DEF ProjectChange
  <2> QED
    BY <1>5, <2>1, <2>2 DEF ProjectsNext
<1>6. CASE TransferNext
  <2>1. ASSUME NEW i, TransferJobs(i) PROVE Goal
    <3>1. PICK name : name = <<"transferJobs", i>>
      OBVIOUS
    <3>2. \/ RsFile(name, "ENABLED", {}, 1, FALSE)
          \/ \E state \in RsStates : RsSetState(name, state)
          \/ things' = things /\ service' = service
      BY <2>1, <3>1, <1>s DEF TransferJobs, RsReply
    <3> QED
      BY <3>2, <1>s, RsFileState, RsOldState
  <2>2. ASSUME NEW name, TransferPools(name) PROVE Goal
    BY <2>2, <1>s, RsFileState, RsOldState DEF TransferPools
  <2>3. ASSUME NEW n, NEW state, TransferStatus(n, state) PROVE Goal
    BY <2>3 DEF TransferStatus
  <2> QED
    BY <1>6, <2>1, <2>2, <2>3 DEF TransferNext
<1> QED
  BY <1>1, <1>2, <1>3, <1>4, <1>5, <1>6 DEF ResourcesNext

LEMMA RsTypeStep == RsTypeInv /\ [ResourcesNext]_rsVars => RsTypeInv'
<1> SUFFICES ASSUME RsTypeInv, [ResourcesNext]_rsVars PROVE RsTypeInv'
  OBVIOUS
<1>1. RsInv'
  BY RsStepInv DEF RsTypeInv
<1>2. StateInv(things') /\ service' = service
  BY RsStateStep DEF RsTypeInv, rsVars
<1> QED
  BY <1>1, <1>2 DEF RsTypeInv, StateInv

LEMMA RsTyped == RsTypeInv => ResourcesTypeOK
<1> SUFFICES ASSUME RsTypeInv PROVE ResourcesTypeOK
  OBVIOUS
<1>1. \A n \in DOMAIN things : things[n] \in [state : RsStates, part : 0..Len(heap)]
  BY DEF RsTypeInv, RsInv, StoreInv, StateInv
<1>2. \A o \in DOMAIN operations : o \in 1..rsCounter /\ operations[o].part \in 0..Len(heap)
  BY DEF RsTypeInv, RsInv, OpInv, Unshared
<1>3. heap \in Seq(SUBSET (RsIds \union Nat))
  BY DEF RsTypeInv, RsInv, StoreInv, Contents
<1> QED
  BY <1>1, <1>2, <1>3 DEF ResourcesTypeOK, RsTypeInv

------------------------------------------------------------------------------
SmTypeInv ==
  /\ SecretsInv
  /\ DOMAIN secrets \subseteq SmSecrets
  /\ keyRings \subseteq {k[1] : k \in KmKeys} /\ cryptoKeys \subseteq KmKeys

LEMMA SmTypeStep == SmTypeInv /\ [SecretsNext]_smVars => SmTypeInv'
<1> SUFFICES ASSUME SmTypeInv, [SecretsNext]_smVars PROVE SmTypeInv'
  OBVIOUS
<1>1. SecretsInv'
  BY SecretsStepInv DEF SmTypeInv
<1>2. DOMAIN secrets' \subseteq SmSecrets
  BY DEF SmTypeInv, SecretsNext, SecretManagerNext, KMSNext, smVars, SmCreateSecret, SmDeleteSecret,
         SmAddVersion, SmSetState, SmWith, SmDrop, KmCreateKeyRing, KmCreateCryptoKey, KmEncrypt, KmOnly
<1>3. keyRings' \subseteq {k[1] : k \in KmKeys} /\ cryptoKeys' \subseteq KmKeys
  BY DEF SmTypeInv, SecretsNext, SecretManagerNext, KMSNext, smVars, SmCreateSecret, SmDeleteSecret,
         SmAddVersion, SmSetState, SmOnly, KmCreateKeyRing, KmCreateCryptoKey, KmEncrypt, KmOnly
<1> QED
  BY <1>1, <1>2, <1>3 DEF SmTypeInv

LEMMA SmTyped == SmTypeInv => SecretsTypeOK
BY DEF SmTypeInv, SecretsInv, PayloadsInv, VersionsInv, TokensInv, SecretsTypeOK

LEMMA SaTyped == SaInv /\ GivenInv => ServiceAccountsTypeOK
<1> SUFFICES ASSUME SaInv, GivenInv PROVE ServiceAccountsTypeOK
  OBVIOUS
<1>1. ASSUME NEW a \in DOMAIN accounts
      PROVE  accounts[a] \in [email : SaEmails, uid : 1..uidSeq, disabled : BOOLEAN,
                              keys : SUBSET (1..keyCounter)]
  <2>1. accounts[a] \in Account
    BY ElementOfSeq DEF SaInv, AccountsInv
  <2>2. accounts[a].uid \in 1..uidSeq /\ accounts[a].keys \subseteq 1..keyCounter
    BY DEF SaInv, AccountsInv
  <2> QED
    BY <2>1, <2>2 DEF Account
<1>2. ASSUME NEW u \in DOMAIN uniqueIds PROVE u \in 1..uidSeq /\ uniqueIds[u] \in SaEmails
  <2>1. PICK a \in DOMAIN accounts : accounts[a].uid = u /\ accounts[a].email = uniqueIds[u]
    BY DEF SaInv, AccountTables
  <2> QED
    BY <1>1, <2>1
<1>3. /\ DOMAIN serviceAccounts \subseteq SaEmails
      /\ \A e \in DOMAIN serviceAccounts : serviceAccounts[e] \in DOMAIN accounts
  BY DEF SaInv, AccountTables
<1>4. DOMAIN saGiven \subseteq SaEmails
  BY <1>3 DEF GivenInv
<1>5. \A w \in SaWorkers :
        saw[w].at \in SaOutside \union {"create", "lookup", "held", "popped", "keyed"}
  BY DEF SaInv, SaCallsInv, CallInv
<1> QED
  BY <1>1, <1>2, <1>3, <1>4, <1>5 DEF ServiceAccountsTypeOK

------------------------------------------------------------------------------
LgPlaces == {"idle", "create", "race", "ready", "lost", "write", "loaded", "drawn", "filter"}
LgTypeInv == LogsInv /\ LogStartInv /\ \A w \in LgWorkers : lgw[w].at \in LgPlaces

LEMMA LgTypeStep == LgTypeInv /\ [LogsNext]_lgVars => LgTypeInv'
<1> SUFFICES ASSUME LgTypeInv, [LogsNext]_lgVars PROVE LgTypeInv'
  OBVIOUS
<1>1. LogsInv' /\ LogStartInv'
  BY LogsStepInv DEF LgTypeInv
<1>2. DOMAIN lgw = LgWorkers /\ \A w \in LgWorkers : lgw[w].at \in LgPlaces
  BY DEF LgTypeInv, LogsInv, ThreadsInv
<1>4. ASSUME NEW w \in LgWorkers, NEW log, LgDeleteLog(w, log)
      PROVE  \A v \in LgWorkers : lgw'[v].at \in LgPlaces
  <2>1. ASSUME NEW v \in LgWorkers
        PROVE  lgw'[v].at \in {"filter", lgw[v].at}
    BY <1>4 DEF LgDeleteLog
  <2> QED
    BY <1>2, <2>1 DEF LgPlaces
<1>5. ASSUME NEW w \in LgWorkers, NEW logs, LgWriteEntries(w, logs)
      PROVE  \A v \in LgWorkers : lgw'[v].at \in LgPlaces
  BY <1>2, <1>5 DEF LgWriteEntries, LgPlaces
<1>6. ASSUME NEW w \in LgWorkers, LgLoad(w) \/ LgDraw(w)
      PROVE  \A v \in LgWorkers : lgw'[v].at \in LgPlaces
  BY <1>2, <1>6 DEF LgLoad, LgDraw, LgPlaces
<1>7. ASSUME NEW w \in LgWorkers, LgAppend(w) \/ LgReplace(w)
      PROVE  \A v \in LgWorkers : lgw'[v].at \in LgPlaces
  BY <1>2, <1>7 DEF LgAppend, LgReplace, LgPlaces, LgIdle
<1>8. ASSUME NEW w \in LgWorkers, LgFilter(w)
      PROVE  \A v \in LgWorkers : lgw'[v].at \in LgPlaces
  BY <1>2, <1>8 DEF LgFilter
<1>9. ASSUME UNCHANGED lgVars PROVE \A v \in LgWorkers : lgw'[v].at \in LgPlaces
  BY <1>2, <1>9 DEF lgVars
<1>11. ASSUME NEW w \in LgWorkers, LgCall(w)
       PROVE  \A v \in LgWorkers : lgw'[v].at \in LgPlaces
  <2>1. PICK c : c = [at |-> IF LgCreators = {} THEN "create" ELSE "race"]
    OBVIOUS
  <2>2. lgw' = [v \in LgWorkers |-> IF v \in LgCreators \union {w} THEN c ELSE lgw[v]]
    BY <1>11, <2>1 DEF LgCall
  <2>3. c.at \in {"create", "race"}
    BY <2>1
  <2> QED
    BY <1>2, <2>2, <2>3 DEF LgPlaces
<1>12. ASSUME NEW w \in LgWorkers, LgCreate(w) \/ LgLost(w)
       PROVE  \A v \in LgWorkers : lgw'[v].at \in LgPlaces
  BY <1>2, <1>12 DEF LgCreate, LgLost, LgIdle, LgPlaces
<1>10. \A v \in LgWorkers : lgw'[v].at \in LgPlaces
  BY <1>4, <1>5, <1>6, <1>7, <1>8, <1>9, <1>11, <1>12 DEF LogsNext
<1> QED
  BY <1>1, <1>10 DEF LgTypeInv, LgPlaces

LEMMA SeqNarrows ==
  ASSUME NEW S, NEW R, NEW s \in Seq(S), \A i \in 1..Len(s) : s[i] \in R
  PROVE  s \in Seq(R)
OBVIOUS

LEMMA LgTyped == LgTypeInv => LogsTypeOK
<1> SUFFICES ASSUME LgTypeInv PROVE LogsTypeOK
  OBVIOUS
<1>1. ASSUME NEW l \in DOMAIN lists PROVE lists[l] \in Seq([seq : 1..lgSeq, log : LgLogs])
  <2>1. lists[l] \in Seq(LogEntry)
    BY ElementOfSeq DEF LgTypeInv, LogsInv, ListsInv
  <2>2. \A i \in 1..Len(lists[l]) : lists[l][i] \in LogEntry /\ i \in DOMAIN lists[l]
    BY <2>1, ElementOfSeq, LenProperties
  <2>3. \A i \in DOMAIN lists[l] : lists[l][i].seq \in 1..lgSeq
    BY DEF LgTypeInv, LogsInv, ListsInv
  <2>4. \A i \in 1..Len(lists[l]) : lists[l][i] \in [seq : 1..lgSeq, log : LgLogs]
    BY <2>2, <2>3 DEF LogEntry
  <2> QED
    BY <2>1, <2>4, SeqNarrows
<1> QED
  BY <1>1 DEF LgTypeInv, LogsInv, ListsInv, LgPlaces, LogsTypeOK

------------------------------------------------------------------------------
MnPlaces == {"idle", "create", "race", "ready", "lost", "series", "found", "new", "appended", "drawn",
             "held"}
MnTypeInv ==
  /\ MnInv /\ MnStartInv
  /\ dicts \in Seq(Nat) /\ \A n \in DOMAIN resources : resources[n] \in 1..Len(dicts)
  /\ \A w \in MnWorkers : mnw[w].at \in MnPlaces

LEMMA MnDictsStep ==
  ASSUME MnTypeInv, [MonitoringNext]_mnVars
  PROVE  dicts' \in Seq(Nat) /\ \A n \in DOMAIN resources' : resources'[n] \in 1..Len(dicts')
<1> DEFINE Goal == dicts' \in Seq(Nat) /\ \A n \in DOMAIN resources' : resources'[n] \in 1..Len(dicts')
<1>1. dicts \in Seq(Nat) /\ Len(dicts) \in Nat /\ \A n \in DOMAIN resources : resources[n] \in 1..Len(dicts)
  BY DEF MnTypeInv
<1>2. CASE UNCHANGED <<resources, dicts>>
  BY <1>1, <1>2
<1>3. ASSUME NEW name, MnFile(name) PROVE Goal
  <2>1. dicts' = Append(dicts, 0) /\ resources' = MnWith(resources, name, Len(dicts'))
    BY <1>3 DEF MnFile
  <2>2. dicts' \in Seq(Nat) /\ Len(dicts') = Len(dicts) + 1
    BY <1>1, <2>1
  <2>3. \A n \in DOMAIN resources' : resources'[n] = Len(dicts') \/ resources'[n] \in 1..Len(dicts)
    BY <1>1, <2>1 DEF MnWith
  <2> QED
    BY <1>1, <2>2, <2>3
<1>4. ASSUME NEW w \in MnWorkers, MnUpdate(w) PROVE Goal
  <2>1. PICK d : dicts' = [dicts EXCEPT ![d] = @ + 1] /\ resources' = resources
    BY <1>4 DEF MnUpdate, MnFiledAs
  <2>2. CASE d \in 1..Len(dicts)
    <3>1. dicts[d] + 1 \in Nat
      BY <1>1, <2>2, ElementOfSeq
    <3>2. dicts' \in Seq(Nat) /\ Len(dicts') = Len(dicts)
      BY <1>1, <2>1, <2>2, <3>1, ExceptSeq
    <3> QED
      BY <1>1, <2>1, <3>2
  <2>3. CASE d \notin DOMAIN dicts
    <3>1. dicts' = dicts
      BY <2>1, <2>3, <1>1
    <3> QED
      BY <1>1, <2>1, <3>1
  <2> QED
    BY <1>1, <2>2, <2>3, LenProperties
<1>5. ASSUME NEW w \in MnWorkers, NEW name, MnDelete(w, name) PROVE Goal
  <2>1. dicts' = dicts /\ resources' = MnDrop(resources, name)
    BY <1>5 DEF MnDelete
  <2> QED
    BY <1>1, <2>1 DEF MnDrop
<1>6. ASSUME NEW w \in MnWorkers, MetricService(w) PROVE Goal
  BY <1>2, <1>3, <1>6 DEF MetricService, MnCreateTimeSeries, MnLookup, MnExtend, MnAppend, MnIndex,
     MnCreateDescriptor, mnStore
<1>7. ASSUME NEW w \in MnWorkers, ResourceServices(w) PROVE Goal
  BY <1>2, <1>3, <1>4, <1>5, <1>7 DEF ResourceServices, MnDraw, MnInsert, MnFind, mnStore
<1>8. ASSUME NEW w \in MnWorkers, MnCall(w) \/ MnLost(w) PROVE Goal
  BY <1>2, <1>8 DEF MnCall, MnLost, mnStore
<1>9. ASSUME NEW w \in MnWorkers, MnCreate(w) PROVE Goal
  <2>1. resources' = [n \in {} |-> 0] /\ dicts' = <<>>
    BY <1>9 DEF MnCreate
  <2> QED
    BY <2>1
<1> QED
  BY <1>2, <1>6, <1>7, <1>8, <1>9 DEF MonitoringNext, mnVars, mnStore

LEMMA MnPlacesStep ==
  ASSUME MnTypeInv, [MonitoringNext]_mnVars
  PROVE  \A v \in MnWorkers : mnw'[v].at \in MnPlaces
<1> DEFINE Goal == \A v \in MnWorkers : mnw'[v].at \in MnPlaces
<1>1. DOMAIN mnw = MnWorkers /\ \A v \in MnWorkers : mnw[v].at \in MnPlaces
  BY DEF MnTypeInv, MnInv, MnCallsInv
<1>2. ASSUME NEW w \in MnWorkers, NEW call, MnMove(w, call), call.at \in MnPlaces PROVE Goal
  BY <1>1, <1>2 DEF MnMove
<1>3. ASSUME NEW w PROVE MnRest(w).at \in MnPlaces /\ MnIdle.at \in MnPlaces
  BY DEF MnRest, MnIdle, MnPlaces
<1>4. ASSUME NEW w \in MnWorkers, MetricService(w) PROVE Goal
  <2>1. CASE MnLookup(w)
    BY <1>2, <2>1 DEF MnLookup, MnPlaces
  <2>2. CASE MnAppend(w)
    BY <1>1, <2>2 DEF MnAppend, MnMove, MnPlaces
  <2>3. CASE MnExtend(w) \/ MnIndex(w)
    BY <1>2, <1>3, <2>3 DEF MnExtend, MnIndex
  <2>4. ASSUME NEW ids, MnCreateTimeSeries(w, ids) PROVE Goal
    BY <1>2, <2>4 DEF MnCreateTimeSeries, MnPlaces
  <2>5. ASSUME NEW type, MnCreateDescriptor(w, type) PROVE Goal
    BY <1>2, <1>3, <2>5 DEF MnCreateDescriptor
  <2> QED
    BY <1>4, <2>1, <2>2, <2>3, <2>4, <2>5 DEF MetricService
<1>5. ASSUME NEW w \in MnWorkers, ResourceServices(w) PROVE Goal
  <2>1. ASSUME NEW collection, MnDraw(w, collection) PROVE Goal
    BY <1>2, <2>1 DEF MnDraw, MnPlaces
  <2>2. ASSUME NEW name, MnFind(w, name) PROVE Goal
    BY <1>2, <2>2 DEF MnFind, MnPlaces
  <2>3. ASSUME NEW name, MnInsert(w) \/ MnUpdate(w) \/ MnDelete(w, name) PROVE Goal
    BY <1>2, <1>3, <2>3 DEF MnInsert, MnUpdate, MnDelete
  <2> QED
    BY <1>5, <2>1, <2>2, <2>3 DEF ResourceServices
<1>6. ASSUME NEW w \in MnWorkers, MnCall(w) PROVE Goal
  <2>1. PICK c : c = [at |-> IF MnCreators = {} THEN "create" ELSE "race"]
    OBVIOUS
  <2>2. mnw' = [v \in MnWorkers |-> IF v \in MnCreators \union {w} THEN c ELSE mnw[v]]
    BY <1>6, <2>1 DEF MnCall
  <2>3. c.at \in {"create", "race"}
    BY <2>1
  <2> QED
    BY <1>1, <2>2, <2>3 DEF MnPlaces
<1>7. ASSUME NEW w \in MnWorkers, MnCreate(w) PROVE Goal
  BY <1>1, <1>7 DEF MnCreate, MnPlaces
<1>8. ASSUME NEW w \in MnWorkers, MnLost(w) PROVE Goal
  BY <1>2, <1>3, <1>8 DEF MnLost
<1> QED
  BY <1>1, <1>4, <1>5, <1>6, <1>7, <1>8 DEF MonitoringNext, mnVars

LEMMA MnTypeStep == MnTypeInv /\ [MonitoringNext]_mnVars => MnTypeInv'
<1> SUFFICES ASSUME MnTypeInv, [MonitoringNext]_mnVars PROVE MnTypeInv'
  OBVIOUS
<1>1. MnInv' /\ MnStartInv'
  BY MnStepInv DEF MnTypeInv
<1> QED
  BY <1>1, MnDictsStep, MnPlacesStep DEF MnTypeInv, MnPlaces

LEMMA MnTyped == MnTypeInv => MonitoringTypeOK
<1> SUFFICES ASSUME MnTypeInv PROVE MonitoringTypeOK
  OBVIOUS
<1>1. PointsOf(timeSeries, mnWritten)
  BY DEF MnTypeInv, MnInv, SeriesInv
<1>2. ASSUME NEW i \in DOMAIN timeSeries
      PROVE  timeSeries[i].id \in MnIdentities /\ timeSeries[i].points \in Seq(DOMAIN mnWritten)
  <2>1. timeSeries[i] \in Series
    BY <1>1, ElementOfSeq DEF PointsOf
  <2>2. timeSeries[i].id \in MnIdentities /\ timeSeries[i].points \in Seq(Nat)
    BY <2>1 DEF Series
  <2>3. \A k \in DOMAIN timeSeries[i].points : timeSeries[i].points[k] \in DOMAIN mnWritten
    BY <1>1 DEF PointsOf
  <2> QED
    BY <2>2, <2>3, LenProperties
<1>3. \A id \in DOMAIN seriesIndex : id \in MnIdentities
  BY <1>2 DEF MnTypeInv, MnInv, SeriesInv
<1>4. \A n \in DOMAIN resources : resources[n] \in DOMAIN dicts
  BY DEF MnTypeInv
<1> QED
  BY <1>2, <1>3, <1>4 DEF MnTypeInv, MnPlaces, MonitoringTypeOK

------------------------------------------------------------------------------
(* The services side by side keep their types, for any of their constants: *)
(* numbers in use have been drawn, tables lead to what there is, a thread  *)
(* stands at one of its statements.                                        *)
ControlTypeInv ==
  /\ subject \in Subjects
  /\ TasksInv /\ SchedInv /\ RunInv /\ RsTypeInv /\ SmTypeInv
  /\ SaInv /\ GivenInv /\ SaStartInv
  /\ LgTypeInv /\ MnTypeInv

LEMMA ControlTypeInit == ControlInit => ControlTypeInv
<1> SUFFICES ASSUME ControlInit PROVE ControlTypeInv
  OBVIOUS
<1>1. /\ TasksInv /\ SchedInv /\ RunInv
      /\ SaInv /\ GivenInv /\ SaStartInv
  BY ControlInits, TasksInitInv, SchedInitInv, RunInitInv, SaInitInv, SaStartInit
<1>2. RsTypeInv
  BY ControlInits, RsInitInv DEF ResourcesInit, RsTypeInv, StateInv
<1>3. SmTypeInv
  BY ControlInits, SecretsInitInv DEF SecretsInit, SmTypeInv
<1>4. LgTypeInv
  BY ControlInits, LogsInitInv, LogStartInit DEF LogsInit, LgIdle, LgTypeInv, LgPlaces
<1>5. MnTypeInv
  BY ControlInits, MnInitInv, MnStartInit DEF MonitoringInit, MnIdle, MnTypeInv, MnPlaces
<1> QED
  BY <1>1, <1>2, <1>3, <1>4, <1>5 DEF ControlInit, ControlTypeInv

LEMMA ControlTypeStep == ControlTypeInv /\ [ControlNext]_controlVars => ControlTypeInv'
<1> SUFFICES ASSUME ControlTypeInv, [ControlNext]_controlVars PROVE ControlTypeInv'
  OBVIOUS
<1>1. subject' = subject
  BY DEF ControlNext, controlVars
<1>2. TasksInv' /\ SchedInv' /\ RunInv'
  BY OneService, TasksStepInv, SchedStepInv, RunStepInv DEF ControlTypeInv
<1>3. /\ RsTypeInv' /\ SmTypeInv' /\ LgTypeInv' /\ MnTypeInv'
      /\ SaInv' /\ GivenInv' /\ SaStartInv'
  BY OneService, RsTypeStep, SmTypeStep, SaStepInv, LgTypeStep, MnTypeStep DEF ControlTypeInv
<1> QED
  BY <1>1, <1>2, <1>3 DEF ControlTypeInv

THEOREM ControlTyped == ControlSpec => []TypeOK
<1>1. ControlTypeInv => TypeOK
  BY TasksInvMeans, SchedInvMeans, RunInvMeans, RsTyped, SmTyped, SaTyped, LgTyped, MnTyped
     DEF ControlTypeInv, TypeOK
<1> QED
  BY <1>1, ControlTypeInit, ControlTypeStep, PTL DEF ControlSpec, controlVars

------------------------------------------------------------------------------
(* Cloud Monitoring's aggregation: nothing is answered but what is listed  *)
(* for the request, and without one nothing at all.                        *)
AggregationInv ==
  IF subject = "aggregation" THEN AgAnswered ELSE answer = <<>>

(* A step of the whole that is not this one's leaves its variables be. *)
LEMMA AggregationSteps ==
  ASSUME [ControlNext]_controlVars
  PROVE  /\ subject' = subject /\ (subject # "aggregation" => UNCHANGED agVars)
         /\ [AggregationNext]_agVars
<1>1. CASE UNCHANGED controlVars
  BY <1>1 DEF controlVars
<1>2. CASE ControlNext
  BY <1>2 DEF ControlNext
<1> QED
  BY <1>1, <1>2

(* Cloud Monitoring: whatever is listed with an aggregation, buckets and   *)
(* groups hold exactly the points they should, and each value is what its  *)
(* aligner or reducer may make of them (_align_series, _reduce_series).    *)
THEOREM AggregationIsLawful == ControlSpec => []AggregationLaws
<1>1. ControlInit => AggregationInv
  BY DEF ControlInit, AggregationInit, AggregationInv, AgAnswered
<1>2. AggregationInv /\ [ControlNext]_controlVars => AggregationInv'
  <2>1. SUFFICES ASSUME AggregationInv, [ControlNext]_controlVars PROVE AggregationInv'
    OBVIOUS
  <2>2. /\ subject' = subject /\ (subject # "aggregation" => UNCHANGED agVars)
        /\ [AggregationNext]_agVars
    BY <2>1, AggregationSteps
  <2>3. CASE subject # "aggregation"
    BY <2>1, <2>2, <2>3 DEF AggregationInv, agVars
  <2>4. CASE subject = "aggregation"
    <3>1. AgAnswered
      BY <2>1, <2>4 DEF AggregationInv
    <3>2. AgAnswered'
      BY <2>2, <3>1 DEF AgAnswered, AggregationNext, agVars
    <3> QED
      BY <2>2, <2>4, <3>2 DEF AggregationInv
  <2> QED
    BY <2>3, <2>4
<1>3. AggregationInv => AggregationLaws
  BY AnswersLawful, UnansweredLawful DEF AggregationInv
<1> QED
  BY <1>1, <1>2, <1>3, PTL DEF ControlSpec, controlVars
==============================================================================
