------------------------------ MODULE Datastore ------------------------------
(***************************************************************************)
(* Datastore: DatastoreBackend, its lazy creation by BackendDict, and the  *)
(* RPC handlers of services/datastore/emulator.py, run by the worker       *)
(* threads of the gRPC server without a lock.  A thread may be switched at *)
(* a call and at a loop iteration.  One project; a key is a name the       *)
(* client chose or a number drawn by next_id.                              *)
(***************************************************************************)
EXTENDS Naturals, Sequences

CONSTANTS
  DsWorkers,
  DsNames,        \* keys with a name
  DsVals,         \* entities
  DsNoKey,        \* an incomplete key
  DsMaxId,        \* bound: ids drawn by next_id
  DsMaxMutations, \* bound: mutations of one commit
  DsMaxCalls      \* bound: RPCs

ASSUME DatastoreAssumption ==
  /\ DsMaxId \in Nat /\ DsMaxMutations \in Nat /\ DsMaxCalls \in Nat
  /\ DsNoKey \notin DsNames \union (1..DsMaxId)

DsKeys == DsNames \union (1..DsMaxId)

VARIABLES
  registered,     \* BackendDict._backends[project]: number of a backend, or 0
  backends,       \* backends anybody has created: [entities, versions, ids]
  dw,             \* what each worker is doing
  dsCalls,        \* RPCs so far
  dsSerial,       \* ghost: key -> <<entity, version>> if mutations were steps
  dsContested     \* ghost: keys two workers were at at one time

dsVars == <<registered, backends, dw, dsCalls, dsSerial, dsContested>>

DsIdle == [pc |-> "idle", be |-> 0, left |-> 0, op |-> "none", key |-> DsNoKey,
           val |-> DsNoKey, version |-> 0, quiet |-> {}]

DsNone    == [x \in {} |-> DsNoKey]
DsBackend == [entities |-> DsNone, versions |-> DsNone, ids |-> 0]

DsWith(f, x, v) == [y \in DOMAIN f \union {x} |-> IF y = x THEN v ELSE f[y]]
DsDrop(f, x)    == [y \in DOMAIN f \ {x} |-> f[y]]
DsVersion(f, k) == IF k \in DOMAIN f THEN f[k] ELSE 0

DatastoreInit ==
  /\ registered = 0 /\ backends = <<>> /\ dsCalls = 0
  /\ dw = [w \in DsWorkers |-> DsIdle]
  /\ dsSerial = DsNone /\ dsContested = {}

DsCreating(w) == dw[w].pc = "create"
DsWriting(w)  == dw[w].pc \in {"exists", "put", "version", "unversion"}
DsWriters(k)  == {w \in DsWorkers : DsWriting(w) /\ dw[w].key = k}
DsCalm        == {k \in DsKeys : DsWriters(k) = {}}

Be(w) == backends[dw[w].be]

(* Worker w goes on as now; nobody may rely on key k meanwhile. *)
DsTouch(w, now, k) ==
  /\ dw' = [v \in DsWorkers |-> IF v = w THEN now ELSE [dw[v] EXCEPT !.quiet = @ \ {k}]]
  /\ dsContested' = dsContested \union {j \in {k} : DsWriters(j) \ {w} # {}}

DsGo(w, pc) == dw' = [dw EXCEPT ![w].pc = pc]

------------------------------------------------------------------------------
(* What an RPC does once it has its backend. *)
DsStart(now) ==
  IF now = "commit"
  THEN {[DsIdle EXCEPT !.pc = "next", !.left = n] : n \in 1..DsMaxMutations}
  ELSE {[DsIdle EXCEPT !.pc = now]}

DsRpcs == {"commit", "lookup", "allocate"}

(* BackendDict.__getitem__, which every RPC calls first *)
DsCall(w, rpc) ==
  /\ dw[w].pc = "idle" /\ dsCalls < DsMaxCalls
  /\ IF registered = 0
       THEN dw' = [dw EXCEPT ![w] = [DsIdle EXCEPT !.pc = "create", !.op = rpc]]
       ELSE \E now \in DsStart(rpc) :
              dw' = [dw EXCEPT ![w] = [now EXCEPT !.be = registered]]
  /\ dsCalls' = dsCalls + 1
  /\ UNCHANGED <<registered, backends, dsSerial, dsContested>>

(* The factory has returned: assign, and read what is assigned.  Of two    *)
(* workers here the second takes everything from the first.                *)
DsCreate(w) ==
  /\ DsCreating(w)
  /\ backends' = Append(backends, DsBackend)
  /\ registered' = Len(backends')
  /\ \E now \in DsStart(dw[w].op) :
       dw' = [dw EXCEPT ![w] = [now EXCEPT !.be = registered']]
  /\ dsContested' = IF registered # 0 THEN DsKeys ELSE dsContested
  /\ UNCHANGED <<dsCalls, dsSerial>>

------------------------------------------------------------------------------
(* next_id *)
DsReuse(ids) == ids                                  \* mutant
DsNextId(ids) == ids + 1

DsSetBe(w, b) == backends' = [backends EXCEPT ![dw[w].be] = b]

(* _commit: the next mutation, with a complete key *)
DsMutate(w, op, k, val) ==
  /\ dw[w].pc = "next"
  /\ DsTouch(w, [dw[w] EXCEPT !.pc = "exists", !.op = op, !.key = k, !.val = val,
                              !.left = @ - 1], k)
  /\ UNCHANGED <<registered, backends, dsCalls, dsSerial>>

(* ... or with an incomplete one *)
DsComplete(w, op, val) ==
  /\ dw[w].pc = "next" /\ op # "delete" /\ Be(w).ids < DsMaxId
  /\ DsSetBe(w, [Be(w) EXCEPT !.ids = DsNextId(@)])
  /\ LET k == DsNextId(Be(w).ids)
     IN DsTouch(w, [dw[w] EXCEPT !.pc = "exists", !.op = op, !.key = k, !.val = val,
                                 !.left = @ - 1], k)
  /\ UNCHANGED <<registered, dsCalls, dsSerial>>

DsFits(op, exists) == (op = "insert" => ~ exists) /\ (op = "update" => exists)

(* Mutations before this one stay. *)
DsFails(w) ==
  /\ dw[w].pc = "exists" /\ ~ DsFits(dw[w].op, dw[w].key \in DOMAIN Be(w).entities)
  /\ dw' = [dw EXCEPT ![w] = DsIdle]
  /\ UNCHANGED <<registered, backends, dsCalls, dsSerial, dsContested>>

DsExists(w) ==
  /\ dw[w].pc = "exists" /\ dw[w].op # "delete"
  /\ DsFits(dw[w].op, dw[w].key \in DOMAIN Be(w).entities)
  /\ DsGo(w, "put")
  /\ UNCHANGED <<registered, backends, dsCalls, dsSerial, dsContested>>

(* put, 1: the entity; the version it had is read *)
DsPut(w) ==
  LET k == dw[w].key
  IN /\ dw[w].pc = "put"
     /\ DsSetBe(w, [Be(w) EXCEPT !.entities = DsWith(@, k, dw[w].val)])
     /\ dw' = [dw EXCEPT ![w].pc = "version",
                         ![w].version = DsVersion(Be(w).versions, k)]
     /\ UNCHANGED <<registered, dsCalls, dsSerial, dsContested>>

DsEnd(w) == IF dw[w].left = 0 THEN DsIdle
            ELSE [DsIdle EXCEPT !.pc = "next", !.be = dw[w].be, !.left = dw[w].left]

(* put, 2: its version *)
DsPutVersion(w) ==
  LET k == dw[w].key
  IN /\ dw[w].pc = "version"
     /\ DsSetBe(w, [Be(w) EXCEPT !.versions = DsWith(@, k, dw[w].version + 1)])
     /\ dw' = [dw EXCEPT ![w] = DsEnd(w)]
     /\ dsSerial' = DsWith(dsSerial, k,
          <<dw[w].val, IF k \in DOMAIN dsSerial THEN dsSerial[k][2] + 1 ELSE 1>>)
     /\ UNCHANGED <<registered, dsCalls, dsContested>>

(* delete, 1 and 2 *)
DsDelete(w) ==
  /\ dw[w].pc = "exists" /\ dw[w].op = "delete"
  /\ DsSetBe(w, [Be(w) EXCEPT !.entities = DsDrop(@, dw[w].key)])
  /\ DsGo(w, "unversion")
  /\ UNCHANGED <<registered, dsCalls, dsSerial, dsContested>>

DsKeepVersion(w) ==                                  \* mutant
  /\ dw[w].pc = "unversion"
  /\ dw' = [dw EXCEPT ![w] = DsEnd(w)]
  /\ dsSerial' = DsDrop(dsSerial, dw[w].key)
  /\ UNCHANGED <<registered, backends, dsCalls, dsContested>>

DsDeleteVersion(w) ==
  /\ dw[w].pc = "unversion"
  /\ DsSetBe(w, [Be(w) EXCEPT !.versions = DsDrop(@, dw[w].key)])
  /\ dw' = [dw EXCEPT ![w] = DsEnd(w)]
  /\ dsSerial' = DsDrop(dsSerial, dw[w].key)
  /\ UNCHANGED <<registered, dsCalls, dsContested>>

------------------------------------------------------------------------------
(* _lookup of one key: the entity, then its version *)
DsLookup(w, k) ==
  /\ dw[w].pc = "lookup"
  /\ dw' = [dw EXCEPT ![w] =
       IF k \in DOMAIN Be(w).entities
       THEN [@ EXCEPT !.pc = "found", !.key = k, !.val = Be(w).entities[k],
                      !.quiet = DsCalm \intersect {k}]
       ELSE DsIdle]
  /\ UNCHANGED <<registered, backends, dsCalls, dsSerial, dsContested>>

(* versions.get(canonical, 1) *)
DsReported(w) ==
  IF dw[w].key \in DOMAIN Be(w).versions THEN Be(w).versions[dw[w].key] ELSE 1

DsFound(w) ==
  /\ dw[w].pc = "found"
  /\ dw' = [dw EXCEPT ![w] = DsIdle]
  /\ UNCHANGED <<registered, backends, dsCalls, dsSerial, dsContested>>

(* _allocate_ids of one key; _reserve_ids, begin and rollback of a         *)
(* transaction change nothing anybody looks at.                            *)
DsAllocate(w) ==
  /\ dw[w].pc = "allocate" /\ Be(w).ids < DsMaxId
  /\ DsSetBe(w, [Be(w) EXCEPT !.ids = DsNextId(@)])
  /\ dw' = [dw EXCEPT ![w] = DsIdle]
  /\ UNCHANGED <<registered, dsCalls, dsSerial, dsContested>>

DsOps == {"insert", "update", "upsert", "delete"}

DsWork(w) ==
  \/ \E rpc \in DsRpcs : DsCall(w, rpc)
  \/ DsCreate(w)
  \/ \E op \in DsOps, k \in DsKeys, val \in DsVals : DsMutate(w, op, k, val)
  \/ \E op \in DsOps, val \in DsVals : DsComplete(w, op, val)
  \/ DsFails(w) \/ DsExists(w) \/ DsPut(w) \/ DsPutVersion(w)
  \/ DsDelete(w) \/ DsDeleteVersion(w)
  \/ \E k \in DsKeys : DsLookup(w, k)
  \/ DsFound(w) \/ DsAllocate(w)

DatastoreNext == \E w \in DsWorkers : DsWork(w)

DatastoreSpec == DatastoreInit /\ [][DatastoreNext]_dsVars

------------------------------------------------------------------------------
DatastoreTypeOK ==
  /\ registered \in 0..Len(backends) /\ (registered = 0 <=> backends = <<>>)
  /\ \A b \in DOMAIN backends :
       /\ DOMAIN backends[b].entities \subseteq DsKeys
       /\ DOMAIN backends[b].versions \subseteq DsKeys
       /\ backends[b].ids \in 0..DsMaxId
  /\ DOMAIN dsSerial \subseteq DsKeys /\ dsContested \subseteq DsKeys
  /\ \A w \in DsWorkers :
       /\ dw[w].pc \in {"idle", "create", "next", "exists", "put", "version",
                        "unversion", "lookup", "found", "allocate"}
       /\ dw[w].pc \notin {"idle", "create"} => dw[w].be \in DOMAIN backends
       /\ DsWriting(w) => dw[w].key \in DsKeys

(* Entities and versions are two dicts, and the backend itself may be      *)
(* created by two workers at once.  Still, a key that no two commits write *)
(* at a time, in a project whose first calls did not race, has the entity  *)
(* last written to it and the number of writes since it was created as its *)
(* version, and a lookup nobody disturbs reports both.                     *)
DatastoreIsolated ==
  /\ registered # 0 =>
       LET b == backends[registered]
       IN \A k \in DsCalm \ dsContested :
            /\ k \in DOMAIN b.entities <=> k \in DOMAIN dsSerial
            /\ k \in DOMAIN b.versions <=> k \in DOMAIN dsSerial
            /\ k \in DOMAIN dsSerial => dsSerial[k] = <<b.entities[k], b.versions[k]>>
  /\ \A w \in DsWorkers :
       dw[w].pc = "found" /\ dw[w].key \in dw[w].quiet \ dsContested =>
         dsSerial[dw[w].key] = <<dw[w].val, DsReported(w)>>
==============================================================================
