------------------------------- MODULE Resources -------------------------------
(***************************************************************************)
(* The resource services: a store of named resources, a counter, and       *)
(* (but for jobs and pools of Storage Transfer) long-running operations    *)
(* that are recorded as done when the call returns and replayed to polls.  *)
(* Seven services of this kind; a behavior is about one of them, named by  *)
(* service.  Each runs one call at a time: predict and process change      *)
(* nothing themselves, so their handlers' calls come in like any others.   *)
(*                                                                         *)
(* A resource is a dict, copied when it is filed and again when an         *)
(* operation embeds it, but the copies are shallow: the lists and dicts    *)
(* inside are shared.  heap holds those parts; resources and operations    *)
(* name them by address, 0 being none.                                     *)
(***************************************************************************)
EXTENDS Naturals, Sequences

CONSTANTS
  RsServices,
  RsIds,          \* last parts of the names clients choose; contents they give
  RsMaxCalls      \* bound: calls

VARIABLES
  service,
  things,         \* backend.resources: name -> [state, part]
  heap,           \* the nested parts: sets of what clients give and of numbers drawn
  operations,     \* backend.operations: number -> [of, state, part]
  rsCounter,
  projectOf,      \* Resource Manager's numbers: number -> project id
  rsCalls,
  rsTold          \* ghost: number -> the operation its call returned, in full

rsVars == <<service, things, heap, operations, rsCounter, projectOf, rsCalls, rsTold>>

RsWith(f, x, v) == [y \in DOMAIN f \union {x} |-> IF y = x THEN v ELSE f[y]]
RsDrop(f, x)    == [y \in DOMAIN f \ {x} |-> f[y]]
RsContent(h, a) == IF a = 0 THEN {} ELSE h[a]

ResourcesInit ==
  /\ service \in RsServices
  /\ things = [n \in {} |-> 0] /\ heap = <<>> /\ operations = [n \in {} |-> 0]
  /\ rsCounter = 0 /\ projectOf = <<>> /\ rsCalls = 0 /\ rsTold = [n \in {} |-> 0]

(* A call that leaves the store T with heap H, having drawn some numbers. *)
RsQuiet(T, H, drawn) ==
  /\ rsCalls < RsMaxCalls /\ rsCalls' = rsCalls + 1
  /\ things' = T /\ heap' = H /\ rsCounter' = rsCounter + drawn
  /\ UNCHANGED <<service, operations, rsTold>>

(* ... and that ends by recording an operation under the next number. *)
RsReply(T, H, drawn, op) ==
  LET n == rsCounter + drawn + 1
      told == [of |-> op.of, state |-> op.state, content |-> RsContent(H, op.part)]
  IN /\ rsCalls < RsMaxCalls /\ rsCalls' = rsCalls + 1
     /\ things' = T /\ heap' = H /\ rsCounter' = n
     /\ operations' = RsWith(operations, n, op)
     /\ rsTold' = IF n \in DOMAIN rsTold THEN rsTold ELSE RsWith(rsTold, n, told)
     /\ UNCHANGED service

RsShown(name, T) == [of |-> name, state |-> T[name].state, part |-> T[name].part]
RsEmpty          == [of |-> <<"Empty", 0>>, state |-> "", part |-> 0]
RsAnswer(done, T, H, drawn, op) == IF done THEN RsReply(T, H, drawn, op) ELSE RsQuiet(T, H, drawn)

(* A resource filed with content c, one given new content, one dropped; *)
(* done says whether the call answers with an operation.                *)
RsFile(name, state, c, drawn, done) ==
  LET T == RsWith(things, name, [state |-> state, part |-> Len(heap) + 1])
  IN name \notin DOMAIN things /\ RsAnswer(done, T, Append(heap, c), drawn, RsShown(name, T))

RsInPlace(name, c, done) ==                                             \* mutant
  /\ name \in DOMAIN things
  /\ RsAnswer(done, things, [a \in DOMAIN heap |-> IF a = things[name].part THEN c ELSE heap[a]],
              0, RsShown(name, things))
RsReplace(name, c, done) ==
  LET T == [things EXCEPT ![name].part = Len(heap) + 1]
  IN name \in DOMAIN things /\ RsAnswer(done, T, Append(heap, c), 0, RsShown(name, T))

RsDelete(name, done) ==
  name \in DOMAIN things /\ RsAnswer(done, RsDrop(things, name), heap, 0, RsEmpty)
RsSetState(name, state) ==
  name \in DOMAIN things /\ RsQuiet([things EXCEPT ![name].state = state], heap, 0)

------------------------------------------------------------------------------
(* Artifact Registry.  Deleting a repository leaves its packages and tags. *)
ArtifactModel(name, created, deleted) ==
  \/ \E c \in RsIds : RsFile(name, "", {c}, 0, created) \/ RsReplace(name, {c}, FALSE)
  \/ RsDelete(name, deleted)

ArtifactNext ==
  /\ service = "artifactregistry" /\ UNCHANGED projectOf
  /\ \E i \in RsIds : \/ ArtifactModel(<<"repositories", i>>, TRUE, TRUE)
                      \/ ArtifactModel(<<"packages", i>>, FALSE, TRUE)
                      \/ ArtifactModel(<<"tags", i>>, FALSE, FALSE)

------------------------------------------------------------------------------
(* Vertex AI.  Ids are drawn from the counter the operations use unless    *)
(* the client chooses one; a drawn id that is taken is a 409, and spent.   *)
(* Here content stands for an endpoint's list of deployed models.          *)
VertexCreate(collection, chosen, given, done) ==
  LET drawn == IF chosen = 0 THEN 1 ELSE 0
      name  == <<collection, IF chosen = 0 THEN rsCounter + 1 ELSE chosen>>
      T     == RsWith(things, name, [state |-> "", part |-> 0])
  IN IF name \in DOMAIN things THEN RsQuiet(things, heap, drawn)
     ELSE IF given THEN RsFile(name, "", {}, drawn, done)
     ELSE RsAnswer(done, T, heap, drawn, RsShown(name, T))

(* deploy_model appends to the endpoint's own list, if it has one.  The    *)
(* number is drawn even if the client has chosen one.                      *)
VertexDeploy(name, chosen) ==
  LET d     == IF chosen = 0 THEN rsCounter + 1 ELSE chosen
      part  == things[name].part
      reply == [of |-> <<"deployed", d>>, state |-> "", part |-> 0]
  IN /\ name \in DOMAIN things
     /\ IF part = 0
          THEN RsReply([things EXCEPT ![name].part = Len(heap) + 1], Append(heap, {d}), 1, reply)
          ELSE RsReply(things, [heap EXCEPT ![part] = @ \union {d}], 1, reply)

(* undeploy_model puts a new list in its place. *)
VertexUndeploy(name, d) ==
  /\ name \in DOMAIN things
  /\ RsReply([things EXCEPT ![name].part = Len(heap) + 1],
             Append(heap, RsContent(heap, things[name].part) \ {d}), 0, RsEmpty)

(* Datasets and endpoints; models and jobs, which alone can be cancelled.  *)
VertexServing ==
  \/ VertexCreate("datasets", 0, FALSE, TRUE)
  \/ \E i \in RsIds \union {0}, given \in BOOLEAN : VertexCreate("endpoints", i, given, TRUE)
  \/ \E i \in RsIds : LET endpoint == <<"endpoints", i>>
                      IN \/ \E d \in RsIds \union {0} : VertexDeploy(endpoint, d)
                         \/ \E d \in RsIds : VertexUndeploy(endpoint, d)
  \/ \E name \in DOMAIN things : name[1] \in {"datasets", "endpoints"} /\ RsDelete(name, TRUE)

VertexJobs == {"customJobs", "batchPredictionJobs"}
VertexTraining ==
  \/ \E i \in RsIds \union {0} : VertexCreate("models", i, FALSE, TRUE)
  \/ \E job \in VertexJobs : VertexCreate(job, 0, FALSE, FALSE)
  \/ \E name \in DOMAIN things :
       \/ name[1] \in VertexJobs /\ RsSetState(name, "JOB_STATE_CANCELLED")
       \/ name[1] \in VertexJobs \union {"models"} /\ RsDelete(name, TRUE)

VertexNext ==
  /\ service = "vertexai" /\ UNCHANGED projectOf
  /\ VertexServing \/ VertexTraining

------------------------------------------------------------------------------
(* Document AI *)
DocumentModel(i) ==
  LET name == <<"processors", i>>
  IN \/ i = rsCounter + 1 /\ RsFile(name, "ENABLED", {}, 1, FALSE)
     \/ RsDelete(name, TRUE)
     \/ /\ name \in DOMAIN things
        /\ \E state \in {"ENABLED", "DISABLED"} :
             RsReply([things EXCEPT ![name].state = state], heap, 0, RsEmpty)

DocumentNext ==
  /\ service = "documentai" /\ UNCHANGED projectOf
  /\ \/ \E i \in 1..rsCounter + 1 : DocumentModel(i)
     \/ RsReply(things, heap, 0, RsEmpty)                \* batch_process

------------------------------------------------------------------------------
(* Memorystore and Cloud Functions *)
MemorystoreModel(name) ==
  \/ \E c \in RsIds : RsFile(name, "READY", {c}, 0, TRUE) \/ RsReplace(name, {c}, TRUE)
  \/ RsDelete(name, TRUE)
MemorystoreNext ==
  /\ service = "memorystore" /\ UNCHANGED projectOf
  /\ \E i \in RsIds : MemorystoreModel(<<"instances", i>>)

FunctionModel(name) ==
  \/ \E c \in RsIds : RsFile(name, "ACTIVE", {c}, 0, TRUE) \/ RsReplace(name, {c}, TRUE)
  \/ RsDelete(name, TRUE)
FunctionsNext ==
  /\ service = "cloudfunctions" /\ UNCHANGED projectOf
  /\ \E i \in RsIds : FunctionModel(<<"functions", i>>)

------------------------------------------------------------------------------
(* Resource Manager: content stands for a project's labels, which an      *)
(* operation shares with the project.  Numbers are drawn apart.           *)
ProjectCreate(i) ==
  /\ \E c \in RsIds : RsFile(<<"projects", i>>, "ACTIVE", {c}, 0, TRUE)
  /\ projectOf' = Append(projectOf, i)

(* _resolve: an id, or a number's id *)
RsResolved(ident) == <<"projects", IF ident[1] = "id" THEN ident[2] ELSE projectOf[ident[2]]>>

ProjectChange(ident) ==
  LET name == RsResolved(ident)
  IN /\ name \in DOMAIN things /\ UNCHANGED projectOf
     /\ \/ \E state \in {"DELETE_REQUESTED", "ACTIVE"} :
             LET T == [things EXCEPT ![name].state = state]
             IN RsReply(T, heap, 0, RsShown(name, T))
        \/ \E c \in RsIds : RsReplace(name, {c}, TRUE)

ProjectsNext ==
  /\ service = "resourcemanager"
  /\ \/ \E i \in RsIds : ProjectCreate(i) \/ ProjectChange(<<"id", i>>)
     \/ \E n \in DOMAIN projectOf : ProjectChange(<<"number", n>>)

------------------------------------------------------------------------------
(* Storage Transfer.  A deleted job stays, runs, and may be updated back.  *)
TransferJobs(i) ==
  LET name == <<"transferJobs", i>>
  IN \/ i = rsCounter + 1 /\ RsFile(name, "ENABLED", {}, 1, FALSE)
     \/ \E state \in {"ENABLED", "DISABLED", "DELETED"} : RsSetState(name, state)
     \/ /\ name \in DOMAIN things
        /\ RsReply(things, heap, 0, [of |-> name, state |-> "SUCCESS", part |-> 0])

(* set_operation_status rewrites what the operation replays, on request. *)
TransferStatus(n, state) ==
  /\ n \in DOMAIN operations /\ rsCalls < RsMaxCalls /\ rsCalls' = rsCalls + 1
  /\ operations' = [operations EXCEPT ![n].state = state]
  /\ rsTold' = [rsTold EXCEPT ![n].state = state]
  /\ UNCHANGED <<service, things, heap, rsCounter, projectOf>>

TransferPools(name) ==
  \/ \E c \in RsIds : RsFile(name, "CREATING", {c}, 0, FALSE) \/ RsReplace(name, {c}, FALSE)
  \/ RsDelete(name, FALSE)

TransferNext ==
  /\ service = "storagetransfer"
  /\ \/ /\ UNCHANGED projectOf
        /\ \/ \E i \in 1..rsCounter + 1 : TransferJobs(i)
           \/ \E i \in RsIds : TransferPools(<<"agentPools", i>>)
     \/ \E n \in 1..rsCounter, state \in {"PAUSED", "IN_PROGRESS", "ABORTED"} :
          TransferStatus(n, state)

ResourcesNext == \/ ArtifactNext \/ VertexNext \/ DocumentNext \/ MemorystoreNext
                 \/ FunctionsNext \/ ProjectsNext \/ TransferNext
ResourcesSpec == ResourcesInit /\ [][ResourcesNext]_rsVars

------------------------------------------------------------------------------
RsStates == {"", "ENABLED", "DISABLED", "READY", "ACTIVE", "CREATING", "DELETED",
             "DELETE_REQUESTED", "JOB_STATE_CANCELLED"}

ResourcesTypeOK ==
  /\ service \in RsServices
  /\ \A n \in DOMAIN things : things[n] \in [state : RsStates, part : 0..Len(heap)]
  /\ \A o \in DOMAIN operations : o \in 1..rsCounter /\ operations[o].part \in 0..Len(heap)
  /\ heap \in Seq(SUBSET (RsIds \union Nat))

(* Polling an operation at any later time replays what its own call        *)
(* returned, whatever was filed, changed, or deployed since: no number is  *)
(* given out twice, and no nested part an operation shares with a resource *)
(* is changed in place.  Left out is the one part that is: the list of     *)
(* deployed models that the body of a create_endpoint brought along.       *)
(* Project numbers lead to the projects they were given to.                *)
OperationsReplay ==
  /\ DOMAIN operations = DOMAIN rsTold
  /\ \A o \in DOMAIN operations :
       LET op == operations[o]
       IN /\ op.of = rsTold[o].of /\ op.state = rsTold[o].state
          /\ op.of[1] # "endpoints" => RsContent(heap, op.part) = rsTold[o].content
  /\ \A n \in DOMAIN projectOf : <<"projects", projectOf[n]>> \in DOMAIN things
  /\ \A m, n \in DOMAIN projectOf : projectOf[m] = projectOf[n] => m = n
==============================================================================
