--------------------------------- MODULE Logs ---------------------------------
(***************************************************************************)
(* Cloud Logging: LoggingBackend under the gRPC worker threads of          *)
(* LoggingEmulator, with no lock, from the creation of the backend by the  *)
(* first RPC.  A write takes hold of the list of entries before it makes   *)
(* its own; a deletion builds another list, one entry at a time, and puts  *)
(* it in the first one's place.                                            *)
(***************************************************************************)
EXTENDS Naturals, Sequences

CONSTANTS
  LgWorkers, LgLogs,
  LgMaxCalls,     \* bound: RPCs
  LgMaxBatch      \* bound: entries of a WriteLogEntries

VARIABLES
  lgBackend,      \* BackendDict has a backend
  lists,          \* all lists of entries it has had
  entries,        \* backend.entries: number of a list
  lgSeq,
  lgw,            \* worker -> the call it serves
  lgCalls,
  lgWritten,      \* ghost: [seq, log] written, no deletion at work meanwhile
  lgGone          \* ghost: [seq, log] a deletion on its own must have removed

lgVars == <<lgBackend, lists, entries, lgSeq, lgw, lgCalls, lgWritten, lgGone>>

LgIdle == [at |-> "idle"]
LogsInit ==
  /\ lgBackend = FALSE /\ lists = << <<>> >> /\ entries = 1 /\ lgSeq = 0
  /\ lgw = [w \in LgWorkers |-> LgIdle] /\ lgCalls = 0 /\ lgWritten = {} /\ lgGone = {}

LgItems == {lists[entries][i] : i \in DOMAIN lists[entries]}
LgDeleting == {w \in LgWorkers : lgw[w].at = "filter"}

------------------------------------------------------------------------------
(* BackendDict.__getitem__, which every RPC calls first: check, create,    *)
(* assign.  "race" is a creation with another one at work.                 *)
LgCreators == {w \in LgWorkers : lgw[w].at \in {"create", "race"}}
LgCall(w) ==
  /\ ~lgBackend /\ lgw[w] = LgIdle
  /\ lgCalls < LgMaxCalls /\ lgCalls' = lgCalls + 1
  /\ lgw' = [v \in LgWorkers |->
       IF v \in LgCreators \union {w}
       THEN [at |-> IF LgCreators = {} THEN "create" ELSE "race"] ELSE lgw[v]]
  /\ UNCHANGED <<lgBackend, lists, entries, lgSeq, lgWritten, lgGone>>

(* A later creation takes everything from an earlier one: what was written *)
(* so far, and the backend that calls under way work on.                   *)
LgCreate(w) ==
  /\ w \in LgCreators /\ lgBackend' = TRUE
  /\ lists' = << <<>> >> /\ entries' = 1 /\ lgSeq' = 0
  /\ lgw' = [v \in LgWorkers |->
       IF v = w THEN [at |-> "ready"]
       ELSE IF lgw[v].at \in {"idle", "create", "race", "ready"} THEN lgw[v]
       ELSE [at |-> "lost"]]
  /\ IF lgw[w].at = "race" THEN lgWritten' = {} /\ lgGone' = {}
                           ELSE UNCHANGED <<lgWritten, lgGone>>
  /\ UNCHANGED lgCalls

(* The rest of a call on a backend nobody will find again *)
LgLost(w) ==
  /\ lgw[w].at = "lost" /\ lgw' = [lgw EXCEPT ![w] = LgIdle]
  /\ UNCHANGED <<lgBackend, lists, entries, lgSeq, lgCalls, lgWritten, lgGone>>

LgBegin(w) ==
  /\ \/ lgw[w] = LgIdle /\ lgBackend /\ lgCalls < LgMaxCalls /\ lgCalls' = lgCalls + 1
     \/ lgw[w].at = "ready" /\ UNCHANGED lgCalls
  /\ UNCHANGED <<lgBackend, lists, entries, lgSeq, lgGone>>

------------------------------------------------------------------------------

(* _write: a request's entries one after the other, named by their logs *)
LgWriteEntries(w, logs) ==
  /\ LgBegin(w) /\ UNCHANGED lgWritten
  /\ lgw' = [lgw EXCEPT ![w] = [at |-> "write", todo |-> logs]]

(* write: self.entries.append is looked up, then StoredEntry(self._next(), *)
(* ...) is made, then it is appended.                                      *)
LgLoad(w) ==
  /\ lgw[w].at = "write"
  /\ lgw' = [lgw EXCEPT ![w] = [at |-> "loaded", todo |-> @.todo, list |-> entries,
                                alone |-> LgDeleting = {}]]
  /\ UNCHANGED <<lgBackend, lists, entries, lgSeq, lgCalls, lgWritten, lgGone>>
LgBefore == lgSeq                                                         \* mutant
LgNext   == lgSeq + 1
LgDraw(w) ==
  /\ lgw[w].at = "loaded" /\ lgSeq' = lgSeq + 1
  /\ lgw' = [lgw EXCEPT ![w] = [at |-> "drawn", todo |-> @.todo, list |-> @.list,
                                alone |-> @.alone, seq |-> LgNext]]
  /\ UNCHANGED <<lgBackend, lists, entries, lgCalls, lgWritten, lgGone>>
LgEntry(seq, log) == [seq |-> seq, log |-> log]
LgAppend(w) ==
  LET entry == LgEntry(lgw[w].seq, Head(lgw[w].todo))
      rest  == Tail(lgw[w].todo)
  IN /\ lgw[w].at = "drawn"
     /\ lists' = [lists EXCEPT ![lgw[w].list] = Append(@, entry)]
     /\ lgWritten' = IF lgw[w].alone THEN lgWritten \union {entry} ELSE lgWritten
     /\ lgw' = [lgw EXCEPT ![w] = IF rest = <<>> THEN LgIdle
                                  ELSE [at |-> "write", todo |-> rest]]
     /\ UNCHANGED <<lgBackend, entries, lgSeq, lgCalls, lgGone>>

(* delete_log: the comprehension sees what is appended while it runs. *)
LgDeleteLog(w, log) ==
  /\ LgBegin(w)
  /\ lgw' = [v \in LgWorkers |->
       IF v = w THEN [at |-> "filter", log |-> log, list |-> entries, next |-> 1, kept |-> <<>>,
                      before |-> {e \in lgWritten : e.log = log}, alone |-> LgDeleting = {}]
       ELSE IF lgw[v].at \in {"loaded", "drawn", "filter"} THEN [lgw[v] EXCEPT !.alone = FALSE]
       ELSE lgw[v]]
  /\ lgWritten' = {e \in lgWritten : e.log # log}

LgSkips(w, e) ==                                                          \* mutant
  \/ e.log # lgw[w].log
  \/ lgw[w].next > 1 /\ lists[lgw[w].list][lgw[w].next - 1].log = lgw[w].log
LgKeeps(w, e) == e.log # lgw[w].log
LgFilter(w) ==
  /\ lgw[w].at = "filter" /\ lgw[w].next <= Len(lists[lgw[w].list])
  /\ LET e == lists[lgw[w].list][lgw[w].next]
     IN lgw' = [lgw EXCEPT ![w].next = @ + 1,
                           ![w].kept = IF LgKeeps(w, e) THEN Append(@, e) ELSE @]
  /\ UNCHANGED <<lgBackend, lists, entries, lgSeq, lgCalls, lgWritten, lgGone>>

LgThrough(w) == lgw[w].next > Len(lists[lgw[w].list])
LgReplace(w) ==
  /\ lgw[w].at = "filter" /\ LgThrough(w)
  /\ lists' = Append(lists, lgw[w].kept) /\ entries' = Len(lists')
  /\ lgGone' = IF lgw[w].alone THEN lgGone \union lgw[w].before ELSE lgGone
  /\ lgw' = [lgw EXCEPT ![w] = LgIdle]
  /\ UNCHANGED <<lgBackend, lgSeq, lgCalls, lgWritten>>

LogsNext ==
  \E w \in LgWorkers :
    \/ LgCall(w) \/ LgCreate(w) \/ LgLost(w)
    \/ \E n \in 1..LgMaxBatch : \E logs \in [1..n -> LgLogs] : LgWriteEntries(w, logs)
    \/ LgLoad(w) \/ LgDraw(w) \/ LgAppend(w)
    \/ \E log \in LgLogs : LgDeleteLog(w, log)
    \/ LgFilter(w) \/ LgReplace(w)

LogsSpec == LogsInit /\ [][LogsNext]_lgVars

------------------------------------------------------------------------------
LogsTypeOK ==
  /\ entries \in DOMAIN lists
  /\ \A l \in DOMAIN lists : lists[l] \in Seq([seq : 1..lgSeq, log : LgLogs])
  /\ \A w \in LgWorkers : lgw[w].at \in {"idle", "create", "race", "ready", "lost", "write", "loaded",
                                      "drawn", "filter"}

(* An entry written while no deletion was at work stays listed until its   *)
(* own log is deleted, also when other logs are and whatever is written    *)
(* meanwhile; one a deletion found alone removed never comes back; and no  *)
(* entry is listed twice, nor two under one number.  Only a backend that   *)
(* was created while another was is excused: it takes the place of the     *)
(* other with all its entries.                                             *)
LogsKept ==
  /\ lgWritten \subseteq LgItems
  /\ lgGone \intersect LgItems = {}
  /\ \A i, j \in DOMAIN lists[entries] :
       lists[entries][i].seq = lists[entries][j].seq => i = j
==============================================================================
