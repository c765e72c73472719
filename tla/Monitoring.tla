------------------------------ MODULE Monitoring ------------------------------
(***************************************************************************)
(* Cloud Monitoring: MonitoringBackend under the gRPC worker threads of    *)
(* MonitoringEmulator, with no lock, from the creation of the backend by   *)
(* the first RPC.  Threads give way to one another at calls; each step     *)
(* runs from one such point to the next.                                   *)
(***************************************************************************)
EXTENDS Naturals, Sequences

CONSTANTS
  MnWorkers,
  MnIdentities,   \* (metric, resource) identities of time series
  MnCollections,  \* alertPolicies, notificationChannels, groups, ...
  MnTypes,        \* metric types
  MnMaxCalls, MnMaxSeries         \* bounds: RPCs, series of one request

VARIABLES
  mnBackend,      \* BackendDict has a backend for the project
  timeSeries,     \* backend.time_series: sequence of [id, points]
  seriesIndex,    \* _series_index: identity -> place in timeSeries
  resources,      \* the stores of named resources: name -> number of a dict
  dicts,          \* contents of all dicts it has had: how often updated
  mnCounter,
  mnw,            \* worker -> the call it serves
  mnCalls,
  mnWritten,      \* ghost: points stored: number -> identity
  mnRaced,        \* ghost: identities two threads wrote first at once
  mnDeleted       \* ghost: names deleted

mnStore  == <<resources, dicts, mnCounter, mnDeleted>>
mnSeries == <<timeSeries, seriesIndex, mnWritten, mnRaced>>
mnVars   == <<mnBackend, mnStore, mnSeries, mnw, mnCalls>>

MnWith(f, x, v) == [y \in DOMAIN f \union {x} |-> IF y = x THEN v ELSE f[y]]
MnDrop(f, x)    == [y \in DOMAIN f \ {x} |-> f[y]]
MnIdle == [at |-> "idle"]

MonitoringInit ==
  /\ mnBackend = FALSE /\ timeSeries = <<>> /\ seriesIndex = [i \in {} |-> 0]
  /\ resources = [n \in {} |-> 0] /\ dicts = <<>> /\ mnCounter = 0
  /\ mnw = [w \in MnWorkers |-> MnIdle] /\ mnCalls = 0
  /\ mnWritten = <<>> /\ mnRaced = {} /\ mnDeleted = {}

MnBegin(w) ==
  /\ \/ mnw[w] = MnIdle /\ mnBackend /\ mnCalls < MnMaxCalls /\ mnCalls' = mnCalls + 1
     \/ mnw[w].at = "ready" /\ UNCHANGED mnCalls
  /\ UNCHANGED mnBackend
MnAt(w, place) == mnw[w].at = place /\ UNCHANGED <<mnBackend, mnCalls>>
MnMove(w, call) == mnw' = [mnw EXCEPT ![w] = call]

------------------------------------------------------------------------------
(* BackendDict.__getitem__, which every RPC calls first: check, create,    *)
(* assign.  "race" is a creation with another one at work.                 *)
MnCreators == {w \in MnWorkers : mnw[w].at \in {"create", "race"}}
MnCall(w) ==
  /\ ~mnBackend /\ mnw[w] = MnIdle
  /\ mnCalls < MnMaxCalls /\ mnCalls' = mnCalls + 1
  /\ mnw' = [v \in MnWorkers |->
       IF v \in MnCreators \union {w}
       THEN [at |-> IF MnCreators = {} THEN "create" ELSE "race"] ELSE mnw[v]]
  /\ UNCHANGED <<mnBackend, mnStore, mnSeries>>

(* A later creation takes everything from an earlier one: what was stored  *)
(* so far, and the backend that calls under way work on.                   *)
MnCreate(w) ==
  /\ w \in MnCreators /\ mnBackend' = TRUE
  /\ timeSeries' = <<>> /\ seriesIndex' = [i \in {} |-> 0]
  /\ resources' = [n \in {} |-> 0] /\ dicts' = <<>> /\ mnCounter' = 0
  /\ mnw' = [v \in MnWorkers |->
       IF v = w THEN [at |-> "ready"]
       ELSE IF mnw[v].at \in {"idle", "create", "race", "ready"} THEN mnw[v]
       ELSE [at |-> "lost"]]
  /\ IF mnw[w].at = "race" THEN mnWritten' = <<>> /\ mnRaced' = {} /\ mnDeleted' = {}
                           ELSE UNCHANGED <<mnWritten, mnRaced, mnDeleted>>
  /\ UNCHANGED mnCalls

(* The rest of a call on a backend nobody will find again *)
MnLost(w) ==
  /\ MnAt(w, "lost") /\ MnMove(w, MnIdle) /\ UNCHANGED <<mnStore, mnSeries>>

------------------------------------------------------------------------------
(* create_time_series: the request's series one by one, each with a point *)
MnCreateTimeSeries(w, ids) ==
  /\ MnBegin(w) /\ MnMove(w, [at |-> "series", todo |-> ids])
  /\ UNCHANGED <<mnStore, mnSeries>>

MnIncoming(w) == Head(mnw[w].todo)
MnRest(w) == IF Len(mnw[w].todo) = 1 THEN MnIdle
             ELSE [at |-> "series", todo |-> Tail(mnw[w].todo)]
(* existing = self._series_index.get(key) *)
MnLookup(w) ==
  /\ MnAt(w, "series")
  /\ MnMove(w, [at    |-> IF MnIncoming(w) \in DOMAIN seriesIndex THEN "found" ELSE "new",
                todo  |-> mnw[w].todo,
                place |-> IF MnIncoming(w) \in DOMAIN seriesIndex
                          THEN seriesIndex[MnIncoming(w)] ELSE 0])
  /\ mnRaced' = IF /\ MnIncoming(w) \notin DOMAIN seriesIndex
                   /\ \E v \in MnWorkers \ {w} : /\ mnw[v].at \in {"new", "appended"}
                                                 /\ MnIncoming(v) = MnIncoming(w)
                THEN mnRaced \union {MnIncoming(w)} ELSE mnRaced
  /\ UNCHANGED <<mnStore, timeSeries, seriesIndex, mnWritten>>

(* The point goes to series number place, as the next one there is. *)
MnStored(w, series, place) ==
  /\ timeSeries' = [series EXCEPT ![place].points = Append(@, Len(mnWritten) + 1)]
  /\ mnWritten' = Append(mnWritten, MnIncoming(w))

(* existing.setdefault("points", []).extend(...) *)
MnExtend(w) ==
  /\ MnAt(w, "found") /\ MnMove(w, MnRest(w))
  /\ MnStored(w, timeSeries, mnw[w].place)
  /\ UNCHANGED <<mnStore, seriesIndex, mnRaced>>

(* self.time_series.append(stored), and then the index: neither looks      *)
(* whether another thread has filed the identity since.                    *)
MnAppend(w) ==
  /\ MnAt(w, "new")
  /\ MnStored(w, Append(timeSeries, [id |-> MnIncoming(w), points |-> <<>>]), Len(timeSeries) + 1)
  /\ MnMove(w, [mnw[w] EXCEPT !.at = "appended", !.place = Len(timeSeries) + 1])
  /\ UNCHANGED <<mnStore, seriesIndex, mnRaced>>

MnIndex(w) ==
  /\ MnAt(w, "appended") /\ MnMove(w, MnRest(w))
  /\ seriesIndex' = MnWith(seriesIndex, MnIncoming(w), mnw[w].place)
  /\ UNCHANGED <<mnStore, timeSeries, mnWritten, mnRaced>>

------------------------------------------------------------------------------
(* create_alert_policy, create_notification_channel, create_resource: the  *)
(* number, and later the entry.                                            *)
MnDraw(w, collection) ==
  /\ MnBegin(w) /\ mnCounter' = mnCounter + 1
  /\ MnMove(w, [at |-> "drawn", name |-> <<collection, mnCounter + 1>>])
  /\ UNCHANGED <<resources, dicts, mnDeleted, mnSeries>>
MnFile(name) ==
  /\ dicts' = Append(dicts, 0) /\ resources' = MnWith(resources, name, Len(dicts'))
MnInsert(w) ==
  /\ MnAt(w, "drawn") /\ MnMove(w, MnIdle) /\ MnFile(mnw[w].name)
  /\ UNCHANGED <<mnCounter, mnDeleted, mnSeries>>

(* create_metric_descriptor: named by its type, over what is there *)
MnCreateDescriptor(w, type) ==
  /\ MnBegin(w) /\ MnMove(w, MnIdle) /\ MnFile(<<"metricDescriptors", type>>)
  /\ UNCHANGED <<mnCounter, mnDeleted, mnSeries>>

(* The dict is found first and its fields are set later, also if the name  *)
(* has been deleted in between.  Descriptors cannot be updated.            *)
MnFind(w, name) ==
  /\ MnBegin(w) /\ name \in DOMAIN resources /\ name[1] # "metricDescriptors"
  /\ MnMove(w, [at |-> "held", name |-> name, dict |-> resources[name]])
  /\ UNCHANGED <<mnStore, mnSeries>>
MnWriteBack(w) == MnWith(resources, mnw[w].name, mnw[w].dict)           \* mutant
MnFiledAs(w)   == resources
MnUpdate(w) ==
  /\ MnAt(w, "held") /\ MnMove(w, MnIdle)
  /\ dicts' = [dicts EXCEPT ![mnw[w].dict] = @ + 1]
  /\ resources' = MnFiledAs(w)
  /\ UNCHANGED <<mnCounter, mnDeleted, mnSeries>>

(* Snoozes cannot be deleted. *)
MnDelete(w, name) ==
  /\ MnBegin(w) /\ name \in DOMAIN resources /\ name[1] # "snoozes"
  /\ MnMove(w, MnIdle) /\ resources' = MnDrop(resources, name)
  /\ mnDeleted' = IF name[1] = "metricDescriptors" THEN mnDeleted ELSE mnDeleted \union {name}
  /\ UNCHANGED <<dicts, mnCounter, mnSeries>>

------------------------------------------------------------------------------
(* MetricService; and the services of policies, channels, groups, ... *)
MetricService(w) ==
  \/ \E n \in 1..MnMaxSeries : \E ids \in [1..n -> MnIdentities] : MnCreateTimeSeries(w, ids)
  \/ MnLookup(w) \/ MnExtend(w) \/ MnAppend(w) \/ MnIndex(w)
  \/ \E type \in MnTypes : MnCreateDescriptor(w, type)
ResourceServices(w) ==
  \/ \E collection \in MnCollections : MnDraw(w, collection)
  \/ MnInsert(w) \/ MnUpdate(w)
  \/ \E name \in DOMAIN resources : MnFind(w, name) \/ MnDelete(w, name)

MonitoringNext ==
  \E w \in MnWorkers : \/ MnCall(w) \/ MnCreate(w) \/ MnLost(w)
                       \/ MetricService(w) \/ ResourceServices(w)
MonitoringSpec == MonitoringInit /\ [][MonitoringNext]_mnVars

------------------------------------------------------------------------------
MonitoringTypeOK ==
  /\ \A i \in DOMAIN timeSeries : /\ timeSeries[i].id \in MnIdentities
                                  /\ timeSeries[i].points \in Seq(DOMAIN mnWritten)
  /\ DOMAIN seriesIndex \subseteq MnIdentities
  /\ \A n \in DOMAIN resources : resources[n] \in DOMAIN dicts
  /\ \A w \in MnWorkers : mnw[w].at \in {"idle", "create", "race", "ready", "lost", "series", "found",
                                      "new", "appended", "drawn", "held"}

MnOf(id) == {i \in DOMAIN timeSeries : timeSeries[i].id = id}

(* Every point written to the backend there is is listed exactly once, in  *)
(* a series of its identity, whatever the threads do with it.              *)
NoPointLost ==
  \A p \in DOMAIN mnWritten :
    \E i \in MnOf(mnWritten[p]) : \E k \in DOMAIN timeSeries[i].points :
      /\ timeSeries[i].points[k] = p
      /\ \A j \in DOMAIN timeSeries : \A l \in DOMAIN timeSeries[j].points :
           timeSeries[j].points[l] = p => <<j, l>> = <<i, k>>

(* The docstring of create_time_series: repeated writes to the same        *)
(* identity accumulate points on one series rather than piling up          *)
(* duplicates.                                                             *)
OneSeriesPerIdentity ==
  \A i, j \in DOMAIN timeSeries : timeSeries[i].id = timeSeries[j].id => i = j

(* No point is lost; the points of an identity are on one series unless    *)
(* two threads wrote it for the first time at once; and no name is brought *)
(* back by an update that raced with its deletion.  Only a backend created *)
(* while another was is excused: it takes the place of the other with all  *)
(* its points.                                                             *)
SeriesKept ==
  /\ NoPointLost
  /\ \A i, j \in DOMAIN timeSeries :
       timeSeries[i].id = timeSeries[j].id /\ timeSeries[i].id \notin mnRaced => i = j
  /\ \A id \in DOMAIN seriesIndex : timeSeries[seriesIndex[id]].id = id
  /\ DOMAIN resources \intersect mnDeleted = {}
==============================================================================
