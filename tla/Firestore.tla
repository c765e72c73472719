------------------------------ MODULE Firestore ------------------------------
(***************************************************************************)
(* Firestore: FirestoreBackend and the RPC handlers of                     *)
(* services/firestore/emulator.py, run by the worker threads of the gRPC   *)
(* server without a lock, from the creation of the backend by the first    *)
(* RPC.  A thread may be switched at a call and at a loop iteration; an    *)
(* operation on a built-in dict is one step.                               *)
(*                                                                         *)
(* A StoredDocument is an object: update and set(merge=True) change it in  *)
(* place, set() puts another in its stead, and a stream that listed it     *)
(* before goes on with the object it has.                                  *)
(***************************************************************************)
EXTENDS Naturals, FiniteSets

CONSTANTS
  FsWorkers, FsDocs,
  FsUpdates,      \* what writes may carry: functions from fields to values
  FsGone,         \* "value" of a masked field the document does not have
  FsObjects,      \* identities of StoredDocuments
  FsMaxWrites,    \* bound: writes of one commit
  FsMaxCalls      \* bound: RPCs

ASSUME FirestoreAssumption == FsGone \notin FsWorkers \union FsDocs /\ IsFiniteSet(FsDocs)

VARIABLES
  fsBackend,      \* BackendDict has a backend
  docs,           \* backend.documents: name -> object
  place,          \* ... and the name's place in the dict's table
  used,           \* places of the table in use, those of deleted names too
  heap,           \* fields of the objects somebody refers to
  fw,             \* what each worker is doing
  fsCalls,        \* RPCs so far
  serial,         \* ghost: the documents if every write took effect at once
  contested       \* ghost: documents two workers have written at one time

fsDict   == <<docs, place, used>>
fsGhosts == <<serial, contested>>
fsVars   == <<fsBackend, fsDict, heap, fw, fsCalls, fsGhosts>>

(* A reader's iterator: the next place, the size the dict had, and how     *)
(* many entries are still to come (left).                                  *)
FsIdle == [pc |-> "idle", left |-> 0, write |-> FsGone, obj |-> FsGone,
           paths |-> {}, todo |-> {}, listed |-> {}, quiet |-> {},
           next |-> 0, size |-> 0, rebuilt |-> FALSE]

(* create() expects no document, update() expects one; set() replaces,     *)
(* update() and set(merge=True) carry a mask.  A delete() that expects the *)
(* document differs from delete() as update() does from set(merge=True).   *)
FsKinds  == {"set", "create", "merge", "update", "delete"}
FsWrites == [kind : FsKinds, doc : FsDocs, upd : FsUpdates]

FsWriting(w) == fw[w].pc \in {"apply", "insert", "path"}
FsReading(w) == fw[w].pc \in {"list", "emit"}
FsWriters(d) == {w \in FsWorkers : FsWriting(w) /\ fw[w].write.doc = d}

FsWith(f, x, v) == [y \in DOMAIN f \union {x} |-> IF y = x THEN v ELSE f[y]]
FsDrop(f, x)    == [y \in DOMAIN f \ {x} |-> f[y]]
FsNone          == [x \in {} |-> FsGone]

(* A masked field the document does not carry is deleted. *)
FsSet(fields, f, v) == IF v = FsGone THEN FsDrop(fields, f) ELSE FsWith(fields, f, v)
FsPresent(upd) == [f \in {g \in DOMAIN upd : upd[g] # FsGone} |-> upd[f]]
FsOverlay(fields, upd) ==
  [f \in {g \in DOMAIN fields \union DOMAIN upd :
            g \in DOMAIN upd => upd[g] # FsGone} |->
     IF f \in DOMAIN upd THEN upd[f] ELSE fields[f]]

FirestoreInit ==
  /\ fsBackend = FALSE /\ docs = FsNone /\ place = FsNone /\ used = 0
  /\ heap = FsNone /\ fsCalls = 0
  /\ fw = [w \in FsWorkers |-> FsIdle]
  /\ serial = FsNone /\ contested = {}

(* Objects nobody refers to any more are gone. *)
FsRefs == {docs[d] : d \in DOMAIN docs} \union {fw[w].obj : w \in FsWorkers}
            \union UNION {{e[2] : e \in fw[w].todo} : w \in FsWorkers}
FsKeep(h) == heap' = [o \in DOMAIN h \intersect FsRefs' |-> h[o]]
FsNew == CHOOSE o \in FsObjects : o \notin FsRefs

(* documents[d] = o, in a step after which w goes on as now.  A new name   *)
(* takes the next place; a table that has none left, however many it has,  *)
(* is first rebuilt without the places of deleted names.                   *)
FsFile(w, now, d, o) ==
  LET n == Cardinality(DOMAIN docs)
  IN /\ docs' = FsWith(docs, d, o)
     /\ \/ /\ d \in DOMAIN docs
           /\ fw' = [fw EXCEPT ![w] = now] /\ UNCHANGED <<place, used>>
        \/ /\ d \notin DOMAIN docs
           /\ fw' = [fw EXCEPT ![w] = now]
           /\ place' = FsWith(place, d, used + 1) /\ used' = used + 1
        \/ /\ d \notin DOMAIN docs /\ used > n
           /\ fw' = [v \in FsWorkers |->
                IF v = w THEN now ELSE [fw[v] EXCEPT !.rebuilt = @ \/ fw[v].pc = "list"]]
           /\ \E p \in [DOMAIN docs -> 1..n] :
                /\ \A x, y \in DOMAIN docs : place[x] < place[y] => p[x] < p[y]
                /\ place' = FsWith(p, d, n + 1) /\ used' = n + 1

------------------------------------------------------------------------------
(* BackendDict.__getitem__, which every RPC calls first: check, create,    *)
(* assign.  "race" is a creation with another one at work.                 *)
FsCreators == {w \in FsWorkers : fw[w].pc \in {"create", "race"}}
FsCall(w) ==
  /\ ~fsBackend /\ fw[w].pc = "idle"
  /\ fsCalls < FsMaxCalls /\ fsCalls' = fsCalls + 1
  /\ fw' = [v \in FsWorkers |->
       IF v \in FsCreators \union {w}
       THEN [FsIdle EXCEPT !.pc = IF FsCreators = {} THEN "create" ELSE "race"] ELSE fw[v]]
  /\ UNCHANGED <<fsBackend, fsDict, heap, fsGhosts>>

(* A later creation takes everything from an earlier one: the documents so *)
(* far, and the backend that calls under way work on.                      *)
FsCreate(w) ==
  /\ w \in FsCreators /\ fsBackend' = TRUE
  /\ docs' = FsNone /\ place' = FsNone /\ used' = 0 /\ heap' = FsNone
  /\ fw' = [v \in FsWorkers |->
       IF v = w THEN [FsIdle EXCEPT !.pc = "ready"]
       ELSE IF fw[v].pc \in {"idle", "create", "race", "ready"} THEN fw[v]
       ELSE [FsIdle EXCEPT !.pc = "lost"]]
  /\ IF fw[w].pc = "race" THEN serial' = FsNone /\ contested' = {} ELSE UNCHANGED fsGhosts
  /\ UNCHANGED fsCalls

(* The rest of a call on a backend nobody will find again *)
FsLost(w) ==
  /\ fw[w].pc = "lost" /\ fw' = [fw EXCEPT ![w] = FsIdle]
  /\ UNCHANGED <<fsBackend, fsDict, heap, fsCalls, fsGhosts>>

FsBegin(w, now) ==
  /\ \/ fw[w].pc = "idle" /\ fsBackend /\ fsCalls < FsMaxCalls /\ fsCalls' = fsCalls + 1
     \/ fw[w].pc = "ready" /\ UNCHANGED fsCalls
  /\ fw' = [fw EXCEPT ![w] = now]
  /\ UNCHANGED <<fsBackend, fsDict, heap, fsGhosts>>

------------------------------------------------------------------------------
(* _commit *)
FsCommit(w) ==
  \E n \in 1..FsMaxWrites : FsBegin(w, [FsIdle EXCEPT !.pc = "next", !.left = n])

(* _check_precondition *)
Allowed(kind, exists) ==
  /\ kind = "create" => ~ exists
  /\ kind = "update" => exists

FsCheck(w, wr) ==
  /\ fw[w].pc = "next"
  /\ Allowed(wr.kind, wr.doc \in DOMAIN docs)
  /\ fw' = [v \in FsWorkers |->
              IF v = w THEN [fw[w] EXCEPT !.pc = "apply", !.write = wr, !.left = @ - 1]
                       ELSE [fw[v] EXCEPT !.quiet = @ \ {wr.doc}]]
  /\ contested' = contested \union {d \in {wr.doc} : FsWriters(d) # {}}
  /\ UNCHANGED <<fsBackend, fsDict, heap, fsCalls, serial>>

(* The guard aborts the RPC; writes before this one stay. *)
FsAbort(w, wr) ==
  /\ fw[w].pc = "next"
  /\ ~ Allowed(wr.kind, wr.doc \in DOMAIN docs)
  /\ fw' = [fw EXCEPT ![w] = FsIdle]
  /\ UNCHANGED <<fsBackend, fsDict, heap, fsCalls, fsGhosts>>

FsEnd(w) == IF fw[w].left = 0 THEN FsIdle
            ELSE [FsIdle EXCEPT !.pc = "next", !.left = fw[w].left]

FsWritten(w) ==
  LET wr == fw[w].write
      d  == wr.doc
  IN serial' = CASE wr.kind = "delete" -> FsDrop(serial, d)
               [] wr.kind \in {"set", "create"} -> FsWith(serial, d, FsPresent(wr.upd))
               [] OTHER -> FsWith(serial, d,
                    FsOverlay(IF d \in DOMAIN serial THEN serial[d] ELSE FsNone, wr.upd))

(* put *)
FsPutInPlace(w) ==                                   \* mutant
  LET wr  == fw[w].write
      old == wr.doc \in DOMAIN docs
      o   == IF old THEN docs[wr.doc] ELSE FsNew
  IN /\ fw[w].pc = "apply" /\ wr.kind \in {"set", "create"}
     /\ FsFile(w, FsEnd(w), wr.doc, o)
     /\ FsKeep(FsWith(heap, o, FsOverlay(IF old THEN heap[o] ELSE FsNone, wr.upd)))
     /\ FsWritten(w)
     /\ UNCHANGED <<fsBackend, fsCalls, contested>>

FsPut(w) ==
  LET wr == fw[w].write
  IN /\ fw[w].pc = "apply" /\ wr.kind \in {"set", "create"}
     /\ FsObjects \ FsRefs # {}
     /\ FsFile(w, FsEnd(w), wr.doc, FsNew)
     /\ FsKeep(FsWith(heap, FsNew, FsPresent(wr.upd)))
     /\ FsWritten(w)
     /\ UNCHANGED <<fsBackend, fsCalls, contested>>

(* delete: pop(name, None) *)
FsDelete(w) ==
  LET d == fw[w].write.doc
  IN /\ fw[w].pc = "apply" /\ fw[w].write.kind = "delete"
     /\ docs' = FsDrop(docs, d) /\ place' = FsDrop(place, d)
     /\ fw' = [fw EXCEPT ![w] = FsEnd(w)]
     /\ FsKeep(heap)
     /\ FsWritten(w)
     /\ UNCHANGED <<fsBackend, used, fsCalls, contested>>

(* merge, 1: look for the entry *)
FsFind(w) ==
  LET d == fw[w].write.doc
  IN /\ fw[w].pc = "apply" /\ fw[w].write.kind \in {"merge", "update"}
     /\ fw' = [fw EXCEPT ![w].pc    = IF d \in DOMAIN docs THEN "path" ELSE "insert",
                         ![w].obj   = IF d \in DOMAIN docs THEN docs[d] ELSE FsGone,
                         ![w].paths = DOMAIN fw[w].write.upd]
     /\ UNCHANGED <<fsBackend, fsDict, heap, fsCalls, fsGhosts>>

(* merge, 2: there was none *)
FsInsert(w) ==
  /\ fw[w].pc = "insert" /\ FsObjects \ FsRefs # {}
  /\ FsFile(w, [fw[w] EXCEPT !.pc = "path", !.obj = FsNew], fw[w].write.doc, FsNew)
  /\ FsKeep(FsWith(heap, FsNew, FsNone))
  /\ UNCHANGED <<fsBackend, fsCalls, fsGhosts>>

(* merge, 3: one masked path after the other *)
FsPath(w, f) ==
  LET last == fw[w].paths = {f}
  IN /\ fw[w].pc = "path" /\ f \in fw[w].paths
     /\ fw' = [fw EXCEPT ![w] = IF last THEN FsEnd(w) ELSE [fw[w] EXCEPT !.paths = @ \ {f}]]
     /\ UNCHANGED <<fsBackend, fsDict, fsCalls, contested>>
     /\ FsKeep([heap EXCEPT ![fw[w].obj] = FsSet(@, f, fw[w].write.upd[f])])
     /\ IF last THEN FsWritten(w) ELSE UNCHANGED serial

------------------------------------------------------------------------------
FsCalm == {d \in FsDocs : FsWriters(d) = {}}

(* _list_documents, _run_query: list_collection iterates over the dict.    *)
(* What the query selects of it, and in which order, is Queries'.          *)
FsRead(w) ==
  LET n == Cardinality(DOMAIN docs)
  IN FsBegin(w, [FsIdle EXCEPT !.pc = "list", !.quiet = FsCalm, !.next = 1, !.size = n,
                               !.left = n])

(* The iterator raises RuntimeError if the dict has another size than when *)
(* it was made, moves on to the next place that holds a name otherwise,    *)
(* and raises it again when that is one more than were there.              *)
FsAhead(w)   == {d \in DOMAIN docs : place[d] >= fw[w].next}
FsResized(w) == Cardinality(DOMAIN docs) # fw[w].size
FsNext(w) ==
  /\ fw[w].pc = "list" /\ ~FsResized(w) /\ fw[w].left > 0
  /\ \E d \in FsAhead(w) :
       /\ \A e \in FsAhead(w) : place[d] <= place[e]
       /\ fw' = [fw EXCEPT ![w].next = place[d] + 1, ![w].left = @ - 1,
                           ![w].todo = @ \union {<<d, docs[d]>>},
                           ![w].listed = @ \union {d}]
  /\ UNCHANGED <<fsBackend, fsDict, heap, fsCalls, fsGhosts>>

FsThrough(w) ==
  /\ fw[w].pc = "list" /\ ~FsResized(w) /\ FsAhead(w) = {}
  /\ fw' = [fw EXCEPT ![w] = IF @.todo = {} THEN FsIdle
                             ELSE [@ EXCEPT !.pc = "emit", !.left = 0, !.next = 0, !.size = 0]]
  /\ UNCHANGED <<fsBackend, fsDict, heap, fsCalls, fsGhosts>>

(* RuntimeError: dictionary changed size, or keys, during iteration *)
FsListFails(w) ==
  /\ fw[w].pc = "list" /\ (FsResized(w) \/ (fw[w].left = 0 /\ FsAhead(w) # {}))
  /\ fw' = [fw EXCEPT ![w] = FsIdle]
  /\ UNCHANGED <<fsBackend, fsDict, fsCalls, fsGhosts>>
  /\ FsKeep(heap)

(* _batch_get, for one name *)
FsGet(w, d) ==
  /\ d \in DOMAIN docs
  /\ FsBegin(w, [FsIdle EXCEPT !.pc = "emit", !.todo = {<<d, docs[d]>>},
                               !.listed = {d}, !.quiet = FsCalm \intersect {d}])

(* _to_document of one entry *)
FsEmit(w, e) ==
  /\ fw[w].pc = "emit" /\ e \in fw[w].todo
  /\ fw' = [fw EXCEPT ![w] = IF @.todo = {e} THEN FsIdle
                                             ELSE [fw[w] EXCEPT !.todo = @ \ {e}]]
  /\ UNCHANGED <<fsBackend, fsDict, fsCalls, fsGhosts>>
  /\ FsKeep(heap)

FsWork(w) ==
  \/ FsCall(w) \/ FsCreate(w) \/ FsLost(w)
  \/ FsCommit(w)
  \/ \E wr \in FsWrites : FsCheck(w, wr) \/ FsAbort(w, wr)
  \/ FsPut(w) \/ FsDelete(w) \/ FsFind(w) \/ FsInsert(w)
  \/ \E f \in fw[w].paths : FsPath(w, f)
  \/ FsRead(w) \/ FsNext(w) \/ FsThrough(w) \/ FsListFails(w)
  \/ \E d \in FsDocs : FsGet(w, d)
  \/ \E e \in fw[w].todo : FsEmit(w, e)

FirestoreNext == \E w \in FsWorkers : FsWork(w)

FirestoreSpec == FirestoreInit /\ [][FirestoreNext]_fsVars

------------------------------------------------------------------------------
FirestoreTypeOK ==
  /\ DOMAIN docs \subseteq FsDocs
  /\ \A d \in DOMAIN docs : docs[d] \in DOMAIN heap
  /\ \A d, e \in DOMAIN docs : docs[d] = docs[e] => d = e
  /\ DOMAIN place = DOMAIN docs
  /\ \A d \in DOMAIN docs : place[d] \in 1..used
  /\ \A d, e \in DOMAIN docs : place[d] = place[e] => d = e
  /\ DOMAIN heap = FsRefs \ {FsGone}
  /\ DOMAIN serial \subseteq FsDocs
  /\ contested \subseteq FsDocs
  /\ \A w \in FsWorkers :
       /\ fw[w].pc \in {"idle", "create", "race", "ready", "lost", "next", "apply", "insert",
                         "path", "list", "emit"}
       /\ fw[w].pc = "next" => fw[w].left > 0
       /\ FsWriting(w) => fw[w].write \in FsWrites
       /\ fw[w].quiet \subseteq FsDocs

(* The handlers have no lock, and need none as long as no two commits      *)
(* write one document at a time: it then holds what its writes say, one    *)
(* after the other, also when a commit they belong to failed later; what a *)
(* precondition found is still so when its write takes effect; and of the  *)
(* documents nobody has been writing since it began, a stream reports      *)
(* those there are, as last written, and no other - though it may pass     *)
(* over some when the dict was rebuilt under its iterator, by an insertion *)
(* after a deletion.  Besides that, only a backend created while another   *)
(* was is excused: it takes the place of the other with all its documents. *)
FirestoreIsolated ==
  /\ \A w \in FsWorkers : fw[w].pc = "apply" /\ fw[w].write.doc \notin contested =>
       Allowed(fw[w].write.kind, fw[w].write.doc \in DOMAIN docs)
  /\ \A d \in FsCalm \ contested :
       /\ d \in DOMAIN docs <=> d \in DOMAIN serial
       /\ d \in DOMAIN docs => heap[docs[d]] = serial[d]
  /\ \A w \in FsWorkers : fw[w].pc = "emit" =>
       \A d \in fw[w].quiet \ contested :
         /\ d \in fw[w].listed => d \in DOMAIN serial
         /\ d \in DOMAIN serial => d \in fw[w].listed \/ fw[w].rebuilt
         /\ \A e \in fw[w].todo : e[1] = d => heap[e[2]] = serial[d]
==============================================================================
