------------------------------ MODULE DataProofs ------------------------------
(***************************************************************************)
(* Theorems about the services of DataServices side by side, for any keys, *)
(* any number of calls and any number of worker threads.                   *)
(***************************************************************************)
EXTENDS DataServices, TLAPS, SequenceTheorems, FiniteSetTheorems, FunctionTheorems

(* A step of the whole is a step of one service and leaves the others be.  *)

dataVars == <<subject, fsVars, dsVars, btVars, qyVars>>

LEMMA OneDataService ==
  ASSUME [DataNext]_dataVars
  PROVE  [FirestoreNext]_fsVars /\ [DatastoreNext]_dsVars /\ [BigtableNext]_btVars
<1>1. CASE UNCHANGED dataVars
  BY <1>1 DEF dataVars
<1>2. CASE DataNext
  BY <1>2 DEF DataNext
<1> QED
  BY <1>1, <1>2

LEMMA DataInits ==
  ASSUME DataInit
  PROVE  FirestoreInit /\ DatastoreInit /\ BigtableInit
BY DEF DataInit

------------------------------------------------------------------------------
(* Datastore: the inductive invariant.  Until two first calls race there   *)
(* is one backend at most (OneBackend), and every worker has it.  For a    *)
(* key that is not contested there is one writer at most, and what the     *)
(* backend holds follows from where the writer is (KeyInv).                *)

DsDicts(V) == UNION {[K -> V] : K \in SUBSET DsKeys}
DsBackends == [entities : DsDicts(DsVals), versions : DsDicts(Nat), ids : 0..DsMaxId]

DsPlaces == {"idle", "create", "next", "exists", "put", "version", "unversion", "lookup", "found",
             "allocate"}
DsAtKey  == {"exists", "put", "version", "unversion", "found"}
DsCallInv(c) ==
  /\ c = [pc |-> c.pc, be |-> c.be, left |-> c.left, op |-> c.op, key |-> c.key, val |-> c.val,
          version |-> c.version, quiet |-> c.quiet]
  /\ c.pc \in DsPlaces /\ c.quiet \subseteq DsKeys
  /\ c.pc \notin {"idle", "create"} => c.be \in DOMAIN backends
  /\ c.pc \in DsAtKey => c.key \in DsKeys /\ c.val \in DsVals
  /\ c.pc = "create" => c.op \in DsRpcs
  /\ c.pc = "version" => c.version \in Nat

DsTypeInv ==
  /\ backends \in Seq(DsBackends) /\ registered \in 0..Len(backends)
  /\ registered = 0 <=> backends = <<>>
  /\ DOMAIN dsSerial \subseteq DsKeys /\ dsContested \subseteq DsKeys
  /\ DOMAIN dw = DsWorkers /\ \A w \in DsWorkers : DsCallInv(dw[w])

OneBackend == dsContested # DsKeys => registered \in {0, 1} /\ Len(backends) = registered

(* The backend that is registered; as good as an empty one if none is. *)
Registered == IF registered = 0 THEN DsBackend ELSE backends[registered]

VersionsAgree(k) ==
  /\ k \in DOMAIN Registered.versions <=> k \in DOMAIN dsSerial
  /\ k \in DOMAIN dsSerial => dsSerial[k][2] = Registered.versions[k]
Agrees(k) ==
  /\ k \in DOMAIN Registered.entities <=> k \in DOMAIN dsSerial
  /\ k \in DOMAIN Registered.versions <=> k \in DOMAIN dsSerial
  /\ k \in DOMAIN dsSerial => dsSerial[k] = <<Registered.entities[k], Registered.versions[k]>>

WritesKey(c, k) == c.pc \in {"exists", "put", "version", "unversion"} /\ c.key = k
Wrote(c, k)  == k \in DOMAIN Registered.entities /\ Registered.entities[k] = c.val
WriterInv(c, k) ==
  /\ c.pc \in {"exists", "put"} => Agrees(k)
  /\ c.pc = "version" => /\ Wrote(c, k) /\ VersionsAgree(k)
                         /\ c.version = DsVersion(Registered.versions, k)
  /\ c.pc = "unversion" => k \notin DOMAIN Registered.entities
Relies(c, k) == c.pc = "found" /\ c.key = k /\ k \in c.quiet
KeyInv(k) ==
  k \notin dsContested =>
    /\ \A v, w \in DsWorkers : WritesKey(dw[v], k) /\ WritesKey(dw[w], k) => v = w
    /\ \A w \in DsWorkers : WritesKey(dw[w], k) => WriterInv(dw[w], k)
    /\ (\A w \in DsWorkers : ~WritesKey(dw[w], k)) => Agrees(k)
    /\ \A w \in DsWorkers : Relies(dw[w], k) =>
         Wrote(dw[w], k) /\ \A v \in DsWorkers : ~WritesKey(dw[v], k)

DsInv == DsTypeInv /\ OneBackend /\ \A k \in DsKeys : KeyInv(k)

(* Dicts with an entry more or less *)
LEMMA DictWith ==
  ASSUME NEW V, NEW f \in DsDicts(V), NEW k \in DsKeys, NEW x \in V
  PROVE  DsWith(f, k, x) \in DsDicts(V)
<1>1. PICK K \in SUBSET DsKeys : f \in [K -> V]
  BY DEF DsDicts
<1>2. DsWith(f, k, x) \in [K \union {k} -> V]
  BY <1>1 DEF DsWith
<1>3. K \union {k} \in SUBSET DsKeys
  OBVIOUS
<1> QED
  BY <1>2, <1>3 DEF DsDicts

LEMMA DictDrop ==
  ASSUME NEW V, NEW f \in DsDicts(V), NEW k
  PROVE  /\ DsDrop(f, k) \in DsDicts(V) /\ DOMAIN DsDrop(f, k) = DOMAIN f \ {k}
         /\ \A j \in DOMAIN f : j # k => DsDrop(f, k)[j] = f[j]
<1>1. PICK K \in SUBSET DsKeys : f \in [K -> V]
  BY DEF DsDicts
<1>2. DsDrop(f, k) \in [K \ {k} -> V]
  BY <1>1 DEF DsDrop
<1>3. K \ {k} \in SUBSET DsKeys
  OBVIOUS
<1> QED
  BY <1>2, <1>3 DEF DsDicts, DsDrop

LEMMA DictTyped ==
  ASSUME NEW V, NEW f \in DsDicts(V)
  PROVE  DOMAIN f \subseteq DsKeys /\ \A k \in DOMAIN f : f[k] \in V
BY DEF DsDicts

LEMMA NewBackend == DsBackend \in DsBackends /\ DOMAIN DsBackend.entities = {}
                    /\ DOMAIN DsBackend.versions = {}
<1>1. \A V : DsNone \in [{} -> V]
  BY DEF DsNone
<1>2. \A V : DsNone \in DsDicts(V)
  BY <1>1 DEF DsDicts
<1>3. 0 \in 0..DsMaxId
  BY DatastoreAssumption
<1> QED
  BY <1>2, <1>3 DEF DsBackend, DsBackends, DsNone

------------------------------------------------------------------------------
(* Datastore: what a step of one worker leaves as it is *)

(* Worker w goes on as c, and the others rely on no more keys than before. *)
Like(d, c) ==
  /\ d = [pc |-> c.pc, be |-> c.be, left |-> c.left, op |-> c.op, key |-> c.key, val |-> c.val,
          version |-> c.version, quiet |-> d.quiet]
  /\ d.quiet \subseteq c.quiet
GoesOn(w, c) ==
  DOMAIN dw' = DsWorkers /\ dw'[w] = c /\ \A v \in DsWorkers : v # w => Like(dw'[v], dw[v])

KeyStays(k) ==
  /\ k \in DOMAIN Registered'.entities <=> k \in DOMAIN Registered.entities
  /\ k \in DOMAIN Registered.entities => Registered'.entities[k] = Registered.entities[k]
  /\ k \in DOMAIN Registered'.versions <=> k \in DOMAIN Registered.versions
  /\ k \in DOMAIN Registered.versions => Registered'.versions[k] = Registered.versions[k]
  /\ k \in DOMAIN dsSerial' <=> k \in DOMAIN dsSerial
  /\ k \in DOMAIN dsSerial => dsSerial'[k] = dsSerial[k]

LEMMA ExceptGoesOn ==
  ASSUME DsTypeInv, NEW w \in DsWorkers, NEW c, dw' = [dw EXCEPT ![w] = c]
  PROVE  GoesOn(w, c)
<1>1. DOMAIN dw' = DsWorkers /\ dw'[w] = c /\ \A v \in DsWorkers : v # w => dw'[v] = dw[v]
  BY DEF DsTypeInv
<1>2. ASSUME NEW v \in DsWorkers, v # w PROVE Like(dw'[v], dw[v])
  <2>1. PICK d : d = dw[v]
    OBVIOUS
  <2>2. dw'[v] = d /\ DsCallInv(d)
    BY <1>1, <1>2, <2>1 DEF DsTypeInv
  <2>3. Like(d, d)
    BY <2>2 DEF DsCallInv, Like
  <2> QED
    BY <2>1, <2>2, <2>3
<1> QED
  BY <1>1, <1>2 DEF GoesOn

LEMMA TouchGoesOn ==
  ASSUME DsTypeInv, NEW w \in DsWorkers, NEW c, NEW k, DsTouch(w, c, k)
  PROVE  /\ GoesOn(w, c)
         /\ \A v \in DsWorkers : v # w => k \notin dw'[v].quiet
<1>1. /\ DOMAIN dw' = DsWorkers /\ dw'[w] = c
      /\ \A v \in DsWorkers : v # w => dw'[v] = [dw[v] EXCEPT !.quiet = dw[v].quiet \ {k}]
  BY DEF DsTouch
<1>2. ASSUME NEW v \in DsWorkers, v # w PROVE Like(dw'[v], dw[v]) /\ k \notin dw'[v].quiet
  <2>1. PICK d, e : d = dw[v] /\ e = [d EXCEPT !.quiet = d.quiet \ {k}]
    OBVIOUS
  <2>2. dw'[v] = e /\ DsCallInv(d)
    BY <1>1, <1>2, <2>1 DEF DsTypeInv
  <2>3. /\ d = [pc |-> d.pc, be |-> d.be, left |-> d.left, op |-> d.op, key |-> d.key,
                val |-> d.val, version |-> d.version, quiet |-> d.quiet]
    BY <2>2 DEF DsCallInv
  <2>4. e = [pc |-> d.pc, be |-> d.be, left |-> d.left, op |-> d.op, key |-> d.key,
             val |-> d.val, version |-> d.version, quiet |-> d.quiet \ {k}]
    BY <2>1, <2>3
  <2>5. e.quiet = d.quiet \ {k}
    BY <2>4
  <2>6. Like(e, d)
    BY <2>4, <2>5 DEF Like
  <2> QED
    BY <2>1, <2>2, <2>5, <2>6
<1> QED
  BY <1>1, <1>2 DEF GoesOn

(* What the others do stays the same. *)
LEMMA OthersStay ==
  ASSUME NEW w \in DsWorkers, NEW c, GoesOn(w, c), NEW v \in DsWorkers, v # w, NEW k
  PROVE  /\ WritesKey(dw'[v], k) <=> WritesKey(dw[v], k)
         /\ Relies(dw'[v], k) => Relies(dw[v], k)
         /\ dw'[v].pc = dw[v].pc /\ dw'[v].val = dw[v].val /\ dw'[v].version = dw[v].version
<1>1. PICK d, e : d = dw[v] /\ e = dw'[v]
  OBVIOUS
<1>2. Like(e, d)
  BY <1>1 DEF GoesOn
<1>3. /\ e.pc = d.pc /\ e.key = d.key /\ e.val = d.val /\ e.version = d.version
      /\ e.quiet \subseteq d.quiet
  BY <1>2 DEF Like
<1> QED
  BY <1>1, <1>3 DEF WritesKey, Relies

LEMMA StaysAgreed ==
  ASSUME NEW k, KeyStays(k)
  PROVE  /\ Agrees(k)' <=> Agrees(k)
         /\ VersionsAgree(k)' <=> VersionsAgree(k)
         /\ DsVersion(Registered.versions, k)' = DsVersion(Registered.versions, k)
BY DEF KeyStays, Agrees, VersionsAgree, DsVersion

LEMMA StaysWritten ==
  ASSUME NEW k, KeyStays(k), NEW c, NEW d, c.pc = d.pc, c.val = d.val, c.version = d.version
  PROVE  /\ Wrote(d, k) => Wrote(c, k)'
         /\ WriterInv(d, k) => WriterInv(c, k)'
<1>1. Wrote(d, k) => Wrote(c, k)'
  BY DEF KeyStays, Wrote
<1>2. k \notin DOMAIN Registered.entities => k \notin DOMAIN Registered'.entities
  BY DEF KeyStays
<1> QED
  BY <1>1, <1>2, StaysAgreed DEF WriterInv

(* A step of a worker that does not write key k, before or after *)
LEMMA KeyAside ==
  ASSUME NEW k, KeyInv(k), NEW w \in DsWorkers, NEW c, GoesOn(w, c), KeyStays(k),
         dsContested \subseteq dsContested', ~WritesKey(dw[w], k), ~WritesKey(c, k),
         Relies(c, k) /\ k \notin dsContested =>
           Wrote(c, k) /\ \A v \in DsWorkers : ~WritesKey(dw[v], k)
  PROVE  KeyInv(k)'
<1> SUFFICES ASSUME k \notin dsContested'
             PROVE  /\ \A u, v \in DsWorkers : WritesKey(dw'[u], k) /\ WritesKey(dw'[v], k) => u = v
                    /\ \A v \in DsWorkers : WritesKey(dw'[v], k) => WriterInv(dw[v], k)'
                    /\ (\A v \in DsWorkers : ~WritesKey(dw'[v], k)) => Agrees(k)'
                    /\ \A v \in DsWorkers : Relies(dw'[v], k) =>
                         Wrote(dw[v], k)' /\ \A u \in DsWorkers : ~WritesKey(dw'[u], k)
  BY DEF KeyInv, WritesKey, Relies
<1>1. dw'[w] = c
  BY DEF GoesOn
<1>2. \A v \in DsWorkers : WritesKey(dw'[v], k) <=> WritesKey(dw[v], k)
  BY <1>1, OthersStay
<1>3. /\ \A u, v \in DsWorkers : WritesKey(dw[u], k) /\ WritesKey(dw[v], k) => u = v
      /\ \A v \in DsWorkers : WritesKey(dw[v], k) => WriterInv(dw[v], k)
      /\ (\A v \in DsWorkers : ~WritesKey(dw[v], k)) => Agrees(k)
      /\ \A v \in DsWorkers : Relies(dw[v], k) =>
           Wrote(dw[v], k) /\ \A u \in DsWorkers : ~WritesKey(dw[u], k)
  BY DEF KeyInv
<1>4. ASSUME NEW v \in DsWorkers, WritesKey(dw'[v], k) PROVE WriterInv(dw[v], k)'
  <2>1. v # w
    BY <1>1, <1>4
  <2>2. PICK d, e : d = dw[v] /\ e = dw'[v]
    OBVIOUS
  <2>3. d.pc = e.pc /\ d.val = e.val /\ d.version = e.version /\ WriterInv(d, k)
    BY <1>2, <1>3, <1>4, <2>1, <2>2, OthersStay
  <2>4. WriterInv(e, k)'
    BY <2>3, StaysWritten
  <2> QED
    BY <2>2, <2>4
<1>5. ASSUME NEW v \in DsWorkers, Relies(dw'[v], k)
      PROVE  Wrote(dw[v], k)' /\ \A u \in DsWorkers : ~WritesKey(dw[u], k)
  <2>1. CASE v = w
    <3>1. Wrote(c, k) /\ \A u \in DsWorkers : ~WritesKey(dw[u], k)
      BY <1>1, <1>5, <2>1
    <3>2. Wrote(c, k)'
      BY <3>1 DEF KeyStays, Wrote
    <3> QED
      BY <1>1, <2>1, <3>1, <3>2
  <2>2. CASE v # w
    <3>1. PICK d, e : d = dw[v] /\ e = dw'[v]
      OBVIOUS
    <3>2. d.pc = e.pc /\ d.val = e.val /\ d.version = e.version /\ Wrote(d, k)
      BY <1>3, <1>5, <2>2, <3>1, OthersStay
    <3>3. Wrote(e, k)'
      BY <3>2, StaysWritten
    <3>4. \A u \in DsWorkers : ~WritesKey(dw[u], k)
      BY <1>3, <1>5, <2>2, OthersStay
    <3> QED
      BY <3>1, <3>3, <3>4
  <2> QED
    BY <2>1, <2>2
<1>6. (\A v \in DsWorkers : ~WritesKey(dw'[v], k)) => Agrees(k)'
  BY <1>2, <1>3, StaysAgreed
<1> QED
  BY <1>2, <1>3, <1>4, <1>5, <1>6

(* A step of the one worker that writes key k *)
LEMMA KeyOwn ==
  ASSUME NEW k, KeyInv(k), NEW w \in DsWorkers, NEW c, GoesOn(w, c),
         dsContested \subseteq dsContested', WritesKey(dw[w], k), c.pc # "found",
         k \notin dsContested => IF WritesKey(c, k) THEN WriterInv(c, k)' ELSE Agrees(k)'
  PROVE  KeyInv(k)'
<1> SUFFICES ASSUME k \notin dsContested'
             PROVE  /\ \A u, v \in DsWorkers : WritesKey(dw'[u], k) /\ WritesKey(dw'[v], k) => u = v
                    /\ \A v \in DsWorkers : WritesKey(dw'[v], k) => WriterInv(dw[v], k)'
                    /\ (\A v \in DsWorkers : ~WritesKey(dw'[v], k)) => Agrees(k)'
                    /\ \A v \in DsWorkers : Relies(dw'[v], k) =>
                         Wrote(dw[v], k)' /\ \A u \in DsWorkers : ~WritesKey(dw'[u], k)
  BY DEF KeyInv, WritesKey, Relies
<1>1. dw'[w] = c /\ k \notin dsContested
  BY DEF GoesOn
<1>2. \A v \in DsWorkers : v # w => ~WritesKey(dw[v], k)
  BY <1>1 DEF KeyInv
<1>3. \A v \in DsWorkers : v # w => ~WritesKey(dw'[v], k)
  BY <1>2, OthersStay
<1>4. \A v \in DsWorkers : ~Relies(dw[v], k)
  BY <1>1 DEF KeyInv
<1>5. \A v \in DsWorkers : ~Relies(dw'[v], k)
  <2>1. ~Relies(c, k)
    BY DEF Relies
  <2> QED
    BY <1>1, <1>4, <2>1, OthersStay
<1>6. CASE WritesKey(c, k)
  <2>1. WriterInv(c, k)'
    BY <1>1, <1>6
  <2>2. \A v \in DsWorkers : WritesKey(dw'[v], k) => v = w
    BY <1>3
  <2>3. WriterInv(dw[w], k)'
    BY <1>1, <2>1
  <2>4. WritesKey(dw'[w], k)
    BY <1>1, <1>6
  <2> QED
    BY <1>5, <2>2, <2>3, <2>4
<1>7. CASE ~WritesKey(c, k)
  <2>1. Agrees(k)'
    BY <1>1, <1>7
  <2>2. \A v \in DsWorkers : ~WritesKey(dw'[v], k)
    BY <1>1, <1>3, <1>7
  <2> QED
    BY <1>5, <2>1, <2>2
<1> QED
  BY <1>6, <1>7

(* A worker begins to write key k. *)
LEMMA KeyTouched ==
  ASSUME DsTypeInv, NEW k, KeyInv(k), NEW w \in DsWorkers, NEW c, DsTouch(w, c, k), KeyStays(k),
         dw[w].pc = "next", c.pc = "exists"
  PROVE  KeyInv(k)'
<1> SUFFICES ASSUME k \notin dsContested'
             PROVE  /\ \A u, v \in DsWorkers : WritesKey(dw'[u], k) /\ WritesKey(dw'[v], k) => u = v
                    /\ \A v \in DsWorkers : WritesKey(dw'[v], k) => WriterInv(dw[v], k)'
                    /\ (\A v \in DsWorkers : ~WritesKey(dw'[v], k)) => Agrees(k)'
                    /\ \A v \in DsWorkers : Relies(dw'[v], k) =>
                         Wrote(dw[v], k)' /\ \A u \in DsWorkers : ~WritesKey(dw'[u], k)
  BY DEF KeyInv, WritesKey, Relies
<1>1. GoesOn(w, c) /\ (\A v \in DsWorkers : v # w => k \notin dw'[v].quiet)
  BY TouchGoesOn
<1>2. dw'[w] = c
  BY <1>1 DEF GoesOn
<1>3. k \notin dsContested /\ \A v \in DsWorkers : v # w => ~WritesKey(dw[v], k)
  BY DEF DsTouch, DsWriters, DsWriting, WritesKey
<1>4. ~WritesKey(dw[w], k)
  BY DEF WritesKey
<1>5. Agrees(k)'
  BY <1>3, <1>4, StaysAgreed DEF KeyInv
<1>6. \A v \in DsWorkers : v # w => ~WritesKey(dw'[v], k)
  BY <1>1, <1>3, OthersStay
<1>7. WriterInv(dw[w], k)'
  BY <1>2, <1>5 DEF WriterInv
<1>8. \A v \in DsWorkers : ~Relies(dw'[v], k)
  BY <1>1, <1>2 DEF Relies
<1> QED
  BY <1>5, <1>6, <1>7, <1>8

------------------------------------------------------------------------------
(* Datastore: the invariant holds at first and stays *)

LEMMA DsInitInv == DatastoreInit => DsInv
<1> SUFFICES ASSUME DatastoreInit PROVE DsInv
  OBVIOUS
<1>1. /\ registered = 0 /\ backends = <<>> /\ DOMAIN dsSerial = {} /\ dsContested = {}
      /\ dw = [w \in DsWorkers |-> DsIdle]
  BY DEF DatastoreInit, DsNone
<1>2. <<>> \in Seq(DsBackends) /\ Len(<<>>) = 0
  OBVIOUS
<1>3. DsIdle.pc = "idle" /\ DsCallInv(DsIdle)
  BY DEF DsIdle, DsCallInv, DsPlaces, DsAtKey
<1>4. DOMAIN dw = DsWorkers /\ \A w \in DsWorkers : dw[w] = DsIdle
  BY <1>1
<1>5. DsTypeInv
  BY <1>1, <1>2, <1>3, <1>4 DEF DsTypeInv
<1>6. OneBackend
  BY <1>1, <1>2 DEF OneBackend
<1>7. Registered = DsBackend /\ \A k : Agrees(k)
  BY <1>1, NewBackend DEF Registered, Agrees
<1>8. \A w \in DsWorkers, k \in DsKeys : ~WritesKey(dw[w], k) /\ ~Relies(dw[w], k)
  BY <1>3, <1>4 DEF WritesKey, Relies
<1>9. \A k \in DsKeys : KeyInv(k)
  BY <1>7, <1>8 DEF KeyInv
<1> QED
  BY <1>5, <1>6, <1>9 DEF DsInv

(* Types are kept. *)
LEMMA DsTypeStep ==
  ASSUME DsTypeInv, NEW w \in DsWorkers, NEW c, GoesOn(w, c), DsCallInv(c)',
         backends' \in Seq(DsBackends), DOMAIN backends \subseteq DOMAIN backends',
         registered' \in 0..Len(backends'), registered' = 0 <=> backends' = <<>>,
         DOMAIN dsSerial' \subseteq DsKeys, dsContested' \subseteq DsKeys
  PROVE  DsTypeInv'
<1>1. ASSUME NEW v \in DsWorkers PROVE DsCallInv(dw[v])'
  <2>1. CASE v = w
    BY <2>1 DEF GoesOn
  <2>2. CASE v # w
    <3>1. PICK d, e : d = dw[v] /\ e = dw'[v]
      OBVIOUS
    <3>2. Like(e, d) /\ DsCallInv(d)
      BY <2>2, <3>1 DEF GoesOn, DsTypeInv
    <3>3. /\ e = [pc |-> d.pc, be |-> d.be, left |-> d.left, op |-> d.op, key |-> d.key,
                  val |-> d.val, version |-> d.version, quiet |-> e.quiet]
          /\ e.quiet \subseteq d.quiet
      BY <3>2 DEF Like
    <3>4. /\ e.pc = d.pc /\ e.be = d.be /\ e.left = d.left /\ e.op = d.op /\ e.key = d.key
          /\ e.val = d.val /\ e.version = d.version
      BY <3>3
    <3>5. DsCallInv(e)'
      BY <3>2, <3>3, <3>4 DEF DsCallInv
    <3> QED
      BY <3>1, <3>5
  <2> QED
    BY <2>1, <2>2
<1>2. \A v \in DsWorkers : DsCallInv(dw[v])'
  BY <1>1
<1> QED
  BY <1>2 DEF DsTypeInv, GoesOn

(* A worker goes on and nothing else happens. *)
LEMMA DsQuietInv ==
  ASSUME DsInv, NEW w \in DsWorkers, NEW c, dw' = [dw EXCEPT ![w] = c], DsCallInv(c),
         UNCHANGED <<registered, backends, dsSerial, dsContested>>,
         \A k \in DsKeys \ dsContested : WritesKey(dw[w], k) =>
           c.pc # "found" /\ IF WritesKey(c, k) THEN WriterInv(c, k) ELSE Agrees(k),
         \A k \in DsKeys \ dsContested : ~WritesKey(dw[w], k) =>
           /\ ~WritesKey(c, k)
           /\ Relies(c, k) => Wrote(c, k) /\ \A v \in DsWorkers : ~WritesKey(dw[v], k)
  PROVE  DsInv'
<1>1. GoesOn(w, c)
  BY ExceptGoesOn DEF DsInv
<1>2. DsCallInv(c)'
  BY DEF DsCallInv
<1>3. DsTypeInv'
  <2>1. /\ backends' \in Seq(DsBackends) /\ DOMAIN backends \subseteq DOMAIN backends'
        /\ registered' \in 0..Len(backends') /\ (registered' = 0 <=> backends' = <<>>)
        /\ DOMAIN dsSerial' \subseteq DsKeys /\ dsContested' \subseteq DsKeys
    BY DEF DsInv, DsTypeInv
  <2> QED
    BY <1>1, <1>2, <2>1, DsTypeStep DEF DsInv
<1>4. OneBackend'
  BY DEF DsInv, OneBackend
<1>5. Registered' = Registered
  BY DEF Registered
<1>6. \A k : KeyStays(k)
  BY <1>5 DEF KeyStays
<1>7. ASSUME NEW k \in DsKeys PROVE KeyInv(k)'
  <2>1. KeyInv(k) /\ dsContested \subseteq dsContested'
    BY DEF DsInv
  <2>2. CASE k \in dsContested
    BY <2>2 DEF KeyInv
  <2>3. CASE k \notin dsContested /\ WritesKey(dw[w], k)
    <3>1. IF WritesKey(c, k) THEN WriterInv(c, k)' ELSE Agrees(k)'
      <4>1. IF WritesKey(c, k) THEN WriterInv(c, k) ELSE Agrees(k)
        BY <2>3
      <4>2. (Agrees(k) => Agrees(k)') /\ (WriterInv(c, k) => WriterInv(c, k)')
        BY <1>6, StaysAgreed, StaysWritten
      <4> QED
        BY <4>1, <4>2
    <3> QED
      BY <1>1, <2>1, <2>3, <3>1, KeyOwn
  <2>4. CASE k \notin dsContested /\ ~WritesKey(dw[w], k)
    BY <1>1, <1>6, <2>1, <2>4, KeyAside
  <2> QED
    BY <2>2, <2>3, <2>4
<1> QED
  BY <1>3, <1>4, <1>7 DEF DsInv

(* A backend gets the new contents b. *)
LEMMA DsStored ==
  ASSUME DsTypeInv, OneBackend, NEW n \in DOMAIN backends, NEW b \in DsBackends,
         backends' = [backends EXCEPT ![n] = b], UNCHANGED registered
  PROVE  /\ backends[n] \in DsBackends
         /\ backends' \in Seq(DsBackends) /\ DOMAIN backends' = DOMAIN backends
         /\ Len(backends') = Len(backends)
         /\ registered' \in 0..Len(backends') /\ (registered' = 0 <=> backends' = <<>>)
         /\ dsContested # DsKeys => Registered = backends[n] /\ Registered' = b
<1>1. backends \in Seq(DsBackends) /\ Len(backends) \in Nat /\ DOMAIN backends = 1..Len(backends)
  BY LenProperties DEF DsTypeInv
<1>2. /\ backends[n] \in DsBackends
      /\ [backends EXCEPT ![n] = b] \in Seq(DsBackends)
      /\ DOMAIN [backends EXCEPT ![n] = b] = DOMAIN backends
      /\ [backends EXCEPT ![n] = b][n] = b
  BY <1>1, ExceptSeq, ElementOfSeq
<1>3. backends' \in Seq(DsBackends) /\ DOMAIN backends' = DOMAIN backends /\ backends'[n] = b
  BY <1>2
<1>4. Len(backends') \in Nat /\ DOMAIN backends' = 1..Len(backends')
  BY <1>3, LenProperties
<1>5. Len(backends') = Len(backends)
  BY <1>1, <1>3, <1>4
<1>6. backends # <<>> /\ backends' # <<>> /\ registered # 0
  <2>1. n \in DOMAIN backends /\ n \in DOMAIN backends' /\ DOMAIN <<>> = {}
    BY <1>3
  <2> QED
    BY <2>1 DEF DsTypeInv
<1>7. ASSUME dsContested # DsKeys PROVE Registered = backends[n] /\ Registered' = b
  <2>1. registered = 1 /\ n = 1
    BY <1>1, <1>6, <1>7 DEF OneBackend
  <2> QED
    BY <1>3, <2>1 DEF Registered
<1> QED
  BY <1>2, <1>3, <1>5, <1>6, <1>7 DEF DsTypeInv

(* What a worker does once it has backend n *)
Started(c, n) ==
  /\ c.pc \in {"next", "lookup", "allocate"}
  /\ c = [pc |-> c.pc, be |-> n, left |-> c.left, op |-> c.op, key |-> c.key, val |-> c.val,
          version |-> c.version, quiet |-> {}]

LEMMA StartsSo ==
  ASSUME NEW rpc \in DsRpcs, NEW now \in DsStart(rpc), NEW n
  PROVE  Started([now EXCEPT !.be = n], n)
<1>1. PICK c : c = [now EXCEPT !.be = n]
  OBVIOUS
<1>2. CASE rpc = "commit"
  <2>1. PICK m \in 1..DsMaxMutations : now = [DsIdle EXCEPT !.pc = "next", !.left = m]
    BY <1>2 DEF DsStart
  <2>2. c = [pc |-> "next", be |-> n, left |-> m, op |-> "none", key |-> DsNoKey,
             val |-> DsNoKey, version |-> 0, quiet |-> {}]
    BY <1>1, <2>1 DEF DsIdle
  <2>3. Started(c, n)
    BY <2>2 DEF Started
  <2> QED
    BY <1>1, <2>3
<1>3. CASE rpc # "commit"
  <2>1. now = [DsIdle EXCEPT !.pc = rpc] /\ rpc \in {"next", "lookup", "allocate"}
    BY <1>3 DEF DsStart, DsRpcs
  <2>2. c = [pc |-> rpc, be |-> n, left |-> 0, op |-> "none", key |-> DsNoKey,
             val |-> DsNoKey, version |-> 0, quiet |-> {}]
    BY <1>1, <2>1 DEF DsIdle
  <2>3. Started(c, n)
    BY <2>1, <2>2 DEF Started
  <2> QED
    BY <1>1, <2>3
<1> QED
  BY <1>2, <1>3

LEMMA DsIdleCall == DsCallInv(DsIdle) /\ DsIdle.pc = "idle"
BY DEF DsIdle, DsCallInv, DsPlaces, DsAtKey

LEMMA DsCallPreserves ==
  ASSUME DsInv, NEW w \in DsWorkers, NEW rpc \in DsRpcs, DsCall(w, rpc)
  PROVE  DsInv'
<1>1. dw[w].pc = "idle" /\ UNCHANGED <<registered, backends, dsSerial, dsContested>>
  BY DEF DsCall
<1>2. \A k : ~WritesKey(dw[w], k)
  BY <1>1 DEF WritesKey
<1>3. CASE registered = 0
  <2>1. PICK c : c = [DsIdle EXCEPT !.pc = "create", !.op = rpc]
    OBVIOUS
  <2>2. dw' = [dw EXCEPT ![w] = c]
    BY <1>3, <2>1 DEF DsCall
  <2>3. c = [pc |-> "create", be |-> 0, left |-> 0, op |-> rpc, key |-> DsNoKey, val |-> DsNoKey,
             version |-> 0, quiet |-> {}]
    BY <2>1 DEF DsIdle
  <2>4. DsCallInv(c) /\ \A k : ~WritesKey(c, k) /\ ~Relies(c, k)
    BY <2>3 DEF DsCallInv, DsPlaces, DsAtKey, WritesKey, Relies
  <2> QED
    BY <1>1, <1>2, <2>2, <2>4, DsQuietInv
<1>4. CASE registered # 0
  <2>1. PICK now \in DsStart(rpc) : dw' = [dw EXCEPT ![w] = [now EXCEPT !.be = registered]]
    BY <1>4 DEF DsCall
  <2>2. PICK c : c = [now EXCEPT !.be = registered]
    OBVIOUS
  <2>3. Started(c, registered)
    BY <2>2, StartsSo
  <2>4. registered \in DOMAIN backends
    BY <1>4, LenProperties DEF DsInv, DsTypeInv
  <2>5. DsCallInv(c) /\ \A k : ~WritesKey(c, k) /\ ~Relies(c, k)
    BY <2>3, <2>4 DEF Started, DsCallInv, DsPlaces, DsAtKey, WritesKey, Relies
  <2> QED
    BY <1>1, <1>2, <2>1, <2>2, <2>5, DsQuietInv
<1> QED
  BY <1>3, <1>4

LEMMA DsCreatePreserves ==
  ASSUME DsInv, NEW w \in DsWorkers, DsCreate(w)
  PROVE  DsInv'
<1>1. PICK n : n = Len(backends) + 1
  OBVIOUS
<1>2. /\ backends \in Seq(DsBackends) /\ Len(backends) \in Nat /\ DOMAIN backends = 1..Len(backends)
      /\ n \in Nat /\ n \in 1..n /\ n # 0 /\ DOMAIN backends \subseteq 1..n
  BY <1>1, LenProperties DEF DsInv, DsTypeInv
<1>3. /\ backends' \in Seq(DsBackends) /\ Len(backends') = n /\ backends'[n] = DsBackend
      /\ DOMAIN backends' = 1..n
  <2>1. backends' = Append(backends, DsBackend)
    BY DEF DsCreate
  <2>2. /\ backends' \in Seq(DsBackends) /\ Len(backends') = n /\ backends'[n] = DsBackend
    BY <1>1, <1>2, <2>1, NewBackend, AppendProperties
  <2> QED
    BY <2>2, LenProperties
<1>4. registered' = n /\ dsContested' = (IF registered # 0 THEN DsKeys ELSE dsContested)
      /\ UNCHANGED dsSerial
  BY <1>3 DEF DsCreate
<1>5. PICK now \in DsStart(dw[w].op) : dw' = [dw EXCEPT ![w] = [now EXCEPT !.be = n]]
  BY <1>4 DEF DsCreate
<1>6. dw[w].pc = "create" /\ dw[w].op \in DsRpcs
  BY DEF DsCreate, DsCreating, DsInv, DsTypeInv, DsCallInv
<1>7. PICK c : c = [now EXCEPT !.be = n] /\ Started(c, n)
  <2>1. Started([now EXCEPT !.be = n], n)
    BY <1>6, StartsSo
  <2> QED
    BY <2>1
<1>8. GoesOn(w, c)
  BY <1>5, <1>7, ExceptGoesOn DEF DsInv
<1>9. DsCallInv(c)'
  BY <1>2, <1>3, <1>7 DEF Started, DsCallInv, DsPlaces, DsAtKey
<1>10. DsTypeInv'
  <2>1. backends' # <<>> /\ registered' \in 0..Len(backends')
    BY <1>2, <1>3, <1>4
  <2>2. DOMAIN dsSerial' \subseteq DsKeys /\ dsContested' \subseteq DsKeys
    BY <1>4 DEF DsInv, DsTypeInv
  <2> QED
    BY <1>2, <1>3, <1>4, <1>8, <1>9, <2>1, <2>2, DsTypeStep DEF DsInv
<1>11. CASE registered # 0
  <2>1. dsContested' = DsKeys
    BY <1>4, <1>11
  <2>2. OneBackend' /\ \A k \in DsKeys : KeyInv(k)'
    BY <2>1 DEF OneBackend, KeyInv
  <2> QED
    BY <1>10, <2>2 DEF DsInv
<1>12. CASE registered = 0
  <2>1. backends = <<>> /\ n = 1
    BY <1>1, <1>12 DEF DsInv, DsTypeInv
  <2>2. OneBackend'
    BY <1>3, <1>4, <2>1 DEF OneBackend
  <2>3. Registered' = DsBackend /\ Registered = DsBackend
    BY <1>3, <1>4, <1>12, <2>1 DEF Registered
  <2>4. \A k : KeyStays(k)
    BY <1>4, <2>3 DEF KeyStays
  <2>5. \A k : ~WritesKey(dw[w], k) /\ ~WritesKey(c, k) /\ ~Relies(c, k)
    BY <1>6, <1>7 DEF Started, WritesKey, Relies
  <2>6. ASSUME NEW k \in DsKeys PROVE KeyInv(k)'
    BY <1>4, <1>8, <1>12, <2>4, <2>5, KeyAside DEF DsInv
  <2> QED
    BY <1>10, <2>2, <2>6 DEF DsInv
<1> QED
  BY <1>11, <1>12

LEMMA DsFailsPreserves ==
  ASSUME DsInv, NEW w \in DsWorkers, DsFails(w)
  PROVE  DsInv'
<1>1. /\ dw[w].pc = "exists" /\ dw' = [dw EXCEPT ![w] = DsIdle]
      /\ UNCHANGED <<registered, backends, dsSerial, dsContested>>
  BY DEF DsFails
<1>2. \A k : ~WritesKey(DsIdle, k) /\ ~Relies(DsIdle, k) /\ DsIdle.pc # "found"
  BY DsIdleCall DEF WritesKey, Relies
<1>3. \A k \in DsKeys \ dsContested : WritesKey(dw[w], k) => Agrees(k)
  BY <1>1 DEF DsInv, KeyInv, WriterInv
<1> QED
  BY <1>1, <1>2, <1>3, DsIdleCall, DsQuietInv

LEMMA DsExistsPreserves ==
  ASSUME DsInv, NEW w \in DsWorkers, DsExists(w)
  PROVE  DsInv'
<1>1. PICK b, c : b = dw[w] /\ c = [b EXCEPT !.pc = "put"]
  OBVIOUS
<1>2. /\ b.pc = "exists" /\ dw' = [dw EXCEPT ![w] = c] /\ DsCallInv(b)
      /\ UNCHANGED <<registered, backends, dsSerial, dsContested>>
  BY <1>1 DEF DsExists, DsGo, DsInv, DsTypeInv
<1>3. c = [pc |-> "put", be |-> b.be, left |-> b.left, op |-> b.op, key |-> b.key, val |-> b.val,
           version |-> b.version, quiet |-> b.quiet]
  BY <1>1, <1>2 DEF DsCallInv
<1>4. c.pc = "put" /\ c.key = b.key /\ c.be = b.be /\ c.val = b.val /\ c.quiet = b.quiet
  BY <1>3
<1>5. DsCallInv(c)
  BY <1>2, <1>3, <1>4 DEF DsCallInv, DsPlaces, DsAtKey
<1>6. \A k : (WritesKey(c, k) <=> WritesKey(dw[w], k)) /\ ~Relies(c, k) /\ c.pc # "found"
  BY <1>1, <1>2, <1>4 DEF WritesKey, Relies
<1>7. \A k \in DsKeys \ dsContested : WritesKey(dw[w], k) => WriterInv(c, k)
  BY <1>1, <1>2, <1>4 DEF DsInv, KeyInv, WriterInv
<1> QED
  BY <1>2, <1>5, <1>6, <1>7, DsQuietInv

LEMMA DsFoundPreserves ==
  ASSUME DsInv, NEW w \in DsWorkers, DsFound(w)
  PROVE  DsInv'
<1>1. /\ dw[w].pc = "found" /\ dw' = [dw EXCEPT ![w] = DsIdle]
      /\ UNCHANGED <<registered, backends, dsSerial, dsContested>>
  BY DEF DsFound
<1>2. \A k : ~WritesKey(DsIdle, k) /\ ~Relies(DsIdle, k) /\ ~WritesKey(dw[w], k)
  BY <1>1, DsIdleCall DEF WritesKey, Relies
<1> QED
  BY <1>1, <1>2, DsIdleCall, DsQuietInv

LEMMA DsLookupPreserves ==
  ASSUME DsInv, NEW w \in DsWorkers, NEW key \in DsKeys, DsLookup(w, key)
  PROVE  DsInv'
<1>1. PICK b, e : b = dw[w] /\ e = backends[b.be]
  OBVIOUS
<1>2. /\ b.pc = "lookup" /\ DsCallInv(b) /\ b.be \in DOMAIN backends
      /\ UNCHANGED <<registered, backends, dsSerial, dsContested>>
  BY <1>1 DEF DsLookup, DsInv, DsTypeInv, DsCallInv
<1>3. \A k : ~WritesKey(dw[w], k)
  BY <1>1, <1>2 DEF WritesKey
<1>4. CASE key \notin DOMAIN e.entities
  <2>1. dw' = [dw EXCEPT ![w] = DsIdle]
    BY <1>1, <1>4 DEF DsLookup, Be
  <2>2. \A k : ~WritesKey(DsIdle, k) /\ ~Relies(DsIdle, k)
    BY DsIdleCall DEF WritesKey, Relies
  <2> QED
    BY <1>2, <1>3, <2>1, <2>2, DsIdleCall, DsQuietInv
<1>5. CASE key \in DOMAIN e.entities
  <2>1. PICK c, v, q : /\ v = e.entities[key] /\ q = DsCalm \intersect {key}
                       /\ c = [b EXCEPT !.pc = "found", !.key = key, !.val = v, !.quiet = q]
    OBVIOUS
  <2>2. dw' = [dw EXCEPT ![w] = c]
    BY <1>1, <1>5, <2>1 DEF DsLookup, Be
  <2>3. c = [pc |-> "found", be |-> b.be, left |-> b.left, op |-> b.op, key |-> key, val |-> v,
             version |-> b.version, quiet |-> q]
    BY <1>2, <2>1 DEF DsCallInv
  <2>4. c.pc = "found" /\ c.key = key /\ c.be = b.be /\ c.val = v /\ c.quiet = q
    BY <2>3
  <2>5. v \in DsVals
    <3>1. e \in DsBackends
      BY <1>1, <1>2, ElementOfSeq DEF DsInv, DsTypeInv
    <3>2. e.entities \in DsDicts(DsVals)
      BY <3>1 DEF DsBackends
    <3> QED
      BY <1>5, <2>1, <3>2, DictTyped
  <2>6. DsCallInv(c)
    BY <1>2, <2>1, <2>3, <2>4, <2>5 DEF DsCallInv, DsPlaces, DsAtKey, DsCalm
  <2>7. ASSUME NEW k \in DsKeys \ dsContested, Relies(c, k)
        PROVE  Wrote(c, k) /\ \A u \in DsWorkers : ~WritesKey(dw[u], k)
    <3>1. k = key /\ \A u \in DsWorkers : ~WritesKey(dw[u], k)
      BY <2>1, <2>4, <2>7 DEF Relies, DsCalm, DsWriters, DsWriting, WritesKey
    <3>2. Registered = e
      <4>1. registered \in {0, 1} /\ Len(backends) = registered /\ DOMAIN backends = 1..Len(backends)
        BY <2>7, LenProperties DEF DsInv, OneBackend, DsTypeInv
      <4>2. registered = 1 /\ b.be = 1
        BY <1>2, <4>1
      <4> QED
        BY <1>1, <4>2 DEF Registered
    <3> QED
      BY <1>5, <2>1, <2>4, <3>1, <3>2 DEF Wrote
  <2>8. \A k : ~WritesKey(c, k)
    BY <2>4 DEF WritesKey
  <2> QED
    BY <1>2, <1>3, <2>2, <2>6, <2>7, <2>8, DsQuietInv
<1> QED
  BY <1>4, <1>5

(* A worker begins to write key, and the backend it has may have drawn a   *)
(* number: dicts stay.                                                      *)
LEMMA DsTouchInv ==
  ASSUME DsInv, NEW w \in DsWorkers, NEW key \in DsKeys, NEW c, DsTouch(w, c, key), DsCallInv(c),
         dw[w].pc = "next", c.pc = "exists", c.key = key,
         UNCHANGED <<registered, dsSerial>>,
         backends' \in Seq(DsBackends), DOMAIN backends' = DOMAIN backends,
         Len(backends') = Len(backends), backends' = <<>> <=> backends = <<>>,
         dsContested # DsKeys =>
           Registered'.entities = Registered.entities /\ Registered'.versions = Registered.versions
  PROVE  DsInv'
<1>1. GoesOn(w, c)
  BY TouchGoesOn DEF DsInv
<1>2. DsCallInv(c)'
  BY DEF DsCallInv
<1>3. dsContested' \subseteq DsKeys /\ dsContested \subseteq dsContested'
  BY DEF DsTouch, DsInv, DsTypeInv
<1>4. DsTypeInv'
  <2>1. /\ registered' \in 0..Len(backends') /\ (registered' = 0 <=> backends' = <<>>)
        /\ DOMAIN dsSerial' \subseteq DsKeys /\ DOMAIN backends \subseteq DOMAIN backends'
    BY DEF DsInv, DsTypeInv
  <2> QED
    BY <1>1, <1>2, <1>3, <2>1, DsTypeStep DEF DsInv
<1>5. OneBackend'
  <2>1. dsContested' # DsKeys => dsContested # DsKeys
    BY <1>3
  <2> QED
    BY <2>1 DEF DsInv, OneBackend
<1>6. ASSUME NEW k \in DsKeys PROVE KeyInv(k)'
  <2>1. CASE k \in dsContested
    BY <1>3, <2>1 DEF KeyInv
  <2>2. CASE k \notin dsContested
    <3>1. KeyInv(k) /\ DsTypeInv
      BY DEF DsInv
    <3>2. KeyStays(k)
      BY <2>2 DEF KeyStays
    <3>3. CASE k = key
      BY <3>1, <3>2, <3>3, KeyTouched
    <3>4. CASE k # key
      <4>1. ~WritesKey(dw[w], k) /\ ~WritesKey(c, k) /\ ~Relies(c, k)
        BY <3>4 DEF WritesKey, Relies
      <4> QED
        BY <1>1, <1>3, <3>1, <3>2, <4>1, KeyAside
    <3> QED
      BY <3>3, <3>4
  <2> QED
    BY <2>1, <2>2
<1> QED
  BY <1>4, <1>5, <1>6 DEF DsInv

(* What worker w is when it begins to write key *)
DsBegins(w, op, key, val) ==
  [dw[w] EXCEPT !.pc = "exists", !.op = op, !.key = key, !.val = val, !.left = @ - 1]

LEMMA DsBeginsSo ==
  ASSUME DsTypeInv, NEW w \in DsWorkers, NEW op, NEW key \in DsKeys, NEW val \in DsVals,
         dw[w].pc = "next"
  PROVE  LET c == DsBegins(w, op, key, val)
         IN DsCallInv(c) /\ c.pc = "exists" /\ c.key = key
<1>1. PICK b, c : b = dw[w] /\ c = DsBegins(w, op, key, val)
  OBVIOUS
<1>2. PICK n : n = b.left - 1
  OBVIOUS
<1>3. DsCallInv(b) /\ b.pc = "next" /\ c = [b EXCEPT !.pc = "exists", !.op = op, !.key = key,
                                                     !.val = val, !.left = n]
  BY <1>1, <1>2 DEF DsTypeInv, DsBegins
<1>4. c = [pc |-> "exists", be |-> b.be, left |-> n, op |-> op, key |-> key, val |-> val,
           version |-> b.version, quiet |-> b.quiet]
  BY <1>3 DEF DsCallInv
<1>5. c.pc = "exists" /\ c.key = key /\ c.be = b.be /\ c.val = val /\ c.quiet = b.quiet
  BY <1>4
<1>6. DsCallInv(c)
  BY <1>3, <1>4, <1>5 DEF DsCallInv, DsPlaces, DsAtKey
<1> QED
  BY <1>1, <1>5, <1>6

LEMMA DsMutatePreserves ==
  ASSUME DsInv, NEW w \in DsWorkers, NEW op, NEW key \in DsKeys, NEW val \in DsVals,
         DsMutate(w, op, key, val)
  PROVE  DsInv'
<1>1. PICK c : c = DsBegins(w, op, key, val)
  OBVIOUS
<1>2. dw[w].pc = "next" /\ DsTouch(w, c, key) /\ UNCHANGED <<registered, backends, dsSerial>>
  BY <1>1 DEF DsMutate, DsBegins
<1>3. DsCallInv(c) /\ c.pc = "exists" /\ c.key = key
  BY <1>1, <1>2, DsBeginsSo DEF DsInv
<1>4. /\ backends' \in Seq(DsBackends) /\ DOMAIN backends' = DOMAIN backends
      /\ Len(backends') = Len(backends) /\ (backends' = <<>> <=> backends = <<>>)
      /\ Registered' = Registered
  BY <1>2 DEF DsInv, DsTypeInv, Registered
<1> QED
  BY <1>2, <1>3, <1>4, DsTouchInv

(* A backend draws a number. *)
DsDrawn(b) == [entities |-> b.entities, versions |-> b.versions, ids |-> b.ids + 1]

LEMMA DsDraws ==
  ASSUME NEW b \in DsBackends, b.ids < DsMaxId
  PROVE  /\ [b EXCEPT !.ids = DsNextId(@)] = DsDrawn(b) /\ DsDrawn(b) \in DsBackends
         /\ DsNextId(b.ids) \in DsKeys
<1>1. PICK n : n = b.ids + 1
  OBVIOUS
<1>2. b.ids \in 0..DsMaxId /\ DsMaxId \in Nat
  BY DatastoreAssumption DEF DsBackends
<1>3. n \in 0..DsMaxId /\ n \in 1..DsMaxId
  BY <1>1, <1>2
<1>4. [b EXCEPT !.ids = n] = [entities |-> b.entities, versions |-> b.versions, ids |-> n]
  BY DEF DsBackends
<1>5. [entities |-> b.entities, versions |-> b.versions, ids |-> n] \in DsBackends
  BY <1>3 DEF DsBackends
<1> QED
  BY <1>1, <1>3, <1>4, <1>5 DEF DsDrawn, DsNextId, DsKeys

LEMMA DsDrawnStored ==
  ASSUME DsTypeInv, OneBackend, NEW w \in DsWorkers, dw[w].be \in DOMAIN backends,
         Be(w).ids < DsMaxId, DsSetBe(w, [Be(w) EXCEPT !.ids = DsNextId(@)]), UNCHANGED registered
  PROVE  /\ DsNextId(Be(w).ids) \in DsKeys
         /\ backends' \in Seq(DsBackends) /\ DOMAIN backends' = DOMAIN backends
         /\ Len(backends') = Len(backends) /\ (backends' = <<>> <=> backends = <<>>)
         /\ registered' \in 0..Len(backends') /\ (registered' = 0 <=> backends' = <<>>)
         /\ dsContested # DsKeys =>
              Registered'.entities = Registered.entities /\ Registered'.versions = Registered.versions
<1>1. PICK n, b : n = dw[w].be /\ b = backends[n]
  OBVIOUS
<1>2. n \in DOMAIN backends /\ b \in DsBackends
  BY <1>1, ElementOfSeq DEF DsTypeInv
<1>3. b.ids < DsMaxId /\ backends' = [backends EXCEPT ![n] = [b EXCEPT !.ids = DsNextId(@)]]
  BY <1>1 DEF Be, DsSetBe
<1>4. PICK e : e = DsDrawn(b)
  OBVIOUS
<1>5. backends' = [backends EXCEPT ![n] = e] /\ e \in DsBackends /\ DsNextId(b.ids) \in DsKeys
  BY <1>2, <1>3, <1>4, DsDraws
<1>6. /\ backends' \in Seq(DsBackends) /\ DOMAIN backends' = DOMAIN backends
      /\ Len(backends') = Len(backends)
      /\ registered' \in 0..Len(backends') /\ (registered' = 0 <=> backends' = <<>>)
      /\ dsContested # DsKeys => Registered = backends[n] /\ Registered' = e
  BY <1>2, <1>5, DsStored
<1>7. e.entities = b.entities /\ e.versions = b.versions
  BY <1>4 DEF DsDrawn
<1>8. backends' = <<>> <=> backends = <<>>
  BY <1>6 DEF DsTypeInv
<1> QED
  BY <1>1, <1>5, <1>6, <1>7, <1>8 DEF Be

LEMMA DsCompletePreserves ==
  ASSUME DsInv, NEW w \in DsWorkers, NEW op, NEW val \in DsVals, DsComplete(w, op, val)
  PROVE  DsInv'
<1>1. PICK key : key = DsNextId(Be(w).ids)
  OBVIOUS
<1>2. PICK c : c = DsBegins(w, op, key, val)
  OBVIOUS
<1>3. /\ dw[w].pc = "next" /\ DsTouch(w, c, key) /\ UNCHANGED <<registered, dsSerial>>
      /\ Be(w).ids < DsMaxId /\ DsSetBe(w, [Be(w) EXCEPT !.ids = DsNextId(@)])
  BY <1>1, <1>2 DEF DsComplete, DsBegins
<1>4. dw[w].be \in DOMAIN backends /\ DsTypeInv /\ OneBackend
  BY <1>3 DEF DsInv, DsTypeInv, DsCallInv
<1>5. /\ key \in DsKeys
      /\ backends' \in Seq(DsBackends) /\ DOMAIN backends' = DOMAIN backends
      /\ Len(backends') = Len(backends) /\ (backends' = <<>> <=> backends = <<>>)
      /\ dsContested # DsKeys =>
           Registered'.entities = Registered.entities /\ Registered'.versions = Registered.versions
  BY <1>1, <1>3, <1>4, DsDrawnStored
<1>6. DsCallInv(c) /\ c.pc = "exists" /\ c.key = key
  BY <1>2, <1>3, <1>4, <1>5, DsBeginsSo
<1> QED
  BY <1>3, <1>5, <1>6, DsTouchInv

(* A worker takes one of the two steps of a write to key. *)
LEMMA DsWriteInv ==
  ASSUME DsInv, NEW w \in DsWorkers, NEW key \in DsKeys, WritesKey(dw[w], key),
         NEW c, dw' = [dw EXCEPT ![w] = c], DsCallInv(c),
         c.pc # "found", \A k : WritesKey(c, k) => k = key,
         NEW b \in DsBackends, backends' = [backends EXCEPT ![dw[w].be] = b],
         UNCHANGED <<registered, dsContested>>, DOMAIN dsSerial' \subseteq DsKeys,
         dsContested # DsKeys => \A k \in DsKeys : k # key => KeyStays(k),
         key \notin dsContested => IF WritesKey(c, key) THEN WriterInv(c, key)' ELSE Agrees(key)'
  PROVE  DsInv'
<1>1. GoesOn(w, c)
  BY ExceptGoesOn DEF DsInv
<1>2. PICK n : n = dw[w].be
  OBVIOUS
<1>3. n \in DOMAIN backends
  BY <1>2 DEF DsInv, DsTypeInv, DsCallInv, WritesKey
<1>4. /\ backends' \in Seq(DsBackends) /\ DOMAIN backends' = DOMAIN backends
      /\ Len(backends') = Len(backends)
      /\ registered' \in 0..Len(backends') /\ (registered' = 0 <=> backends' = <<>>)
  BY <1>2, <1>3, DsStored DEF DsInv
<1>5. DsCallInv(c)'
  BY <1>4 DEF DsCallInv
<1>6. DsTypeInv'
  <2>1. dsContested' \subseteq DsKeys
    BY DEF DsInv, DsTypeInv
  <2> QED
    BY <1>1, <1>4, <1>5, <2>1, DsTypeStep DEF DsInv
<1>7. OneBackend'
  BY <1>4 DEF DsInv, OneBackend
<1>8. ASSUME NEW k \in DsKeys PROVE KeyInv(k)'
  <2>1. KeyInv(k) /\ dsContested \subseteq dsContested'
    BY DEF DsInv
  <2>2. CASE k \in dsContested
    BY <2>2 DEF KeyInv
  <2>3. CASE k \notin dsContested /\ k = key
    BY <1>1, <2>1, <2>3, KeyOwn
  <2>4. CASE k \notin dsContested /\ k # key
    <3>1. KeyStays(k) /\ ~WritesKey(dw[w], k) /\ ~WritesKey(c, k) /\ ~Relies(c, k)
      BY <2>4 DEF WritesKey, Relies
    <3> QED
      BY <1>1, <2>1, <3>1, KeyAside
  <2> QED
    BY <2>2, <2>3, <2>4
<1> QED
  BY <1>6, <1>7, <1>8 DEF DsInv

(* The backend that worker w has *)
LEMMA DsHeld ==
  ASSUME DsInv, NEW w \in DsWorkers, dw[w].pc \notin {"idle", "create"}
  PROVE  /\ dw[w].be \in DOMAIN backends /\ Be(w) \in DsBackends
         /\ Be(w).entities \in DsDicts(DsVals) /\ Be(w).versions \in DsDicts(Nat)
         /\ dsContested # DsKeys => Registered = Be(w)
<1>1. PICK n, b : n = dw[w].be /\ b = backends[n]
  OBVIOUS
<1>2. n \in DOMAIN backends
  BY <1>1 DEF DsInv, DsTypeInv, DsCallInv
<1>3. b \in DsBackends
  BY <1>1, <1>2, ElementOfSeq DEF DsInv, DsTypeInv
<1>4. b.entities \in DsDicts(DsVals) /\ b.versions \in DsDicts(Nat)
  BY <1>3 DEF DsBackends
<1>5. ASSUME dsContested # DsKeys PROVE Registered = b
  <2>1. registered \in {0, 1} /\ Len(backends) = registered /\ DOMAIN backends = 1..Len(backends)
    BY <1>5, LenProperties DEF DsInv, OneBackend, DsTypeInv
  <2>2. registered = 1 /\ n = 1
    BY <1>2, <2>1
  <2> QED
    BY <1>1, <2>2 DEF Registered
<1> QED
  BY <1>1, <1>2, <1>3, <1>4, <1>5 DEF Be

LEMMA DsVersionNat ==
  ASSUME NEW f \in DsDicts(Nat), NEW k
  PROVE  DsVersion(f, k) \in Nat
BY DictTyped DEF DsVersion

LEMMA DsPutPreserves ==
  ASSUME DsInv, NEW w \in DsWorkers, DsPut(w)
  PROVE  DsInv'
<1>1. PICK d, a, key, v, n : /\ d = dw[w] /\ a = Be(w) /\ key = d.key
                             /\ v = d.val /\ n = DsVersion(a.versions, key)
  OBVIOUS
<1>2. /\ d.pc = "put" /\ DsCallInv(d) /\ key \in DsKeys /\ v \in DsVals /\ WritesKey(d, key)
      /\ UNCHANGED <<registered, dsSerial, dsContested>>
  BY <1>1 DEF DsPut, DsInv, DsTypeInv, DsCallInv, DsAtKey, WritesKey
<1>3. /\ a \in DsBackends /\ a.entities \in DsDicts(DsVals) /\ a.versions \in DsDicts(Nat)
      /\ dsContested # DsKeys => Registered = a
      /\ d.be \in DOMAIN backends
  BY <1>1, <1>2, DsHeld
<1>4. PICK f : f = DsWith(a.entities, key, v)
  OBVIOUS
<1>5. /\ f \in DsDicts(DsVals) /\ DOMAIN f = DOMAIN a.entities \union {key} /\ f[key] = v
      /\ \A j \in DOMAIN a.entities : j # key => f[j] = a.entities[j]
  <2>1. DsWith(a.entities, key, v) \in DsDicts(DsVals)
    BY <1>2, <1>3, DictWith
  <2>2. /\ DOMAIN f = DOMAIN a.entities \union {key} /\ f[key] = v
        /\ \A j \in DOMAIN a.entities : j # key => f[j] = a.entities[j]
    BY <1>4 DEF DsWith
  <2> QED
    BY <1>4, <2>1, <2>2
<1>6. PICK b : b = [entities |-> f, versions |-> a.versions, ids |-> a.ids]
  OBVIOUS
<1>7. b \in DsBackends /\ b = [a EXCEPT !.entities = f] /\ b.entities = f
      /\ b.versions = a.versions
  BY <1>3, <1>5, <1>6 DEF DsBackends
<1>8. backends' = [backends EXCEPT ![dw[w].be] = b]
  BY <1>1, <1>4, <1>7 DEF DsPut, DsSetBe
<1>9. PICK c : c = [d EXCEPT !.pc = "version", !.version = n]
  OBVIOUS
<1>10. dw' = [dw EXCEPT ![w] = c]
  BY <1>1, <1>9 DEF DsPut
<1>11. c = [pc |-> "version", be |-> d.be, left |-> d.left, op |-> d.op, key |-> key,
            val |-> v, version |-> n, quiet |-> d.quiet]
  BY <1>1, <1>2, <1>9 DEF DsCallInv
<1>12. /\ c.pc = "version" /\ c.key = key /\ c.be = d.be /\ c.val = v /\ c.version = n
       /\ c.quiet = d.quiet
  BY <1>11
<1>13. n \in Nat
  BY <1>1, <1>3, DsVersionNat
<1>14. DsCallInv(c)
  BY <1>2, <1>11, <1>12, <1>13 DEF DsCallInv, DsPlaces, DsAtKey
<1>15. c.pc # "found" /\ \A k : WritesKey(c, k) => k = key
  BY <1>12 DEF WritesKey
<1>16. ASSUME dsContested # DsKeys PROVE Registered = a /\ Registered' = b
  BY <1>1, <1>3, <1>7, <1>8, <1>2, <1>16, DsStored DEF DsInv
<1>17. ASSUME dsContested # DsKeys, NEW k \in DsKeys, k # key PROVE KeyStays(k)
  BY <1>2, <1>5, <1>7, <1>16, <1>17 DEF KeyStays
<1>18. ASSUME key \notin dsContested PROVE WriterInv(c, key)'
  <2>1. Registered = a /\ Registered' = b
    BY <1>2, <1>16, <1>18
  <2>2. Agrees(key)
    BY <1>1, <1>2, <1>18 DEF DsInv, KeyInv, WriterInv
  <2>3. Wrote(c, key)'
    BY <1>5, <1>7, <1>12, <2>1 DEF Wrote
  <2>4. VersionsAgree(key)'
    BY <1>2, <1>7, <2>1, <2>2 DEF VersionsAgree, Agrees
  <2>5. c.version = DsVersion(Registered'.versions, key)
    BY <1>1, <1>7, <1>12, <2>1
  <2> QED
    BY <1>12, <2>3, <2>4, <2>5 DEF WriterInv
<1>19. WritesKey(c, key) /\ WritesKey(dw[w], key) /\ DOMAIN dsSerial' \subseteq DsKeys
  BY <1>1, <1>2, <1>12 DEF WritesKey, DsInv, DsTypeInv
<1> QED
  BY <1>2, <1>7, <1>8, <1>10, <1>14, <1>15, <1>17, <1>18, <1>19, DsWriteInv

LEMMA DsDeletePreserves ==
  ASSUME DsInv, NEW w \in DsWorkers, DsDelete(w)
  PROVE  DsInv'
<1>1. PICK d, a, key : d = dw[w] /\ a = Be(w) /\ key = d.key
  OBVIOUS
<1>2. /\ d.pc = "exists" /\ DsCallInv(d) /\ key \in DsKeys /\ d.val \in DsVals /\ WritesKey(d, key)
      /\ UNCHANGED <<registered, dsSerial, dsContested>>
  BY <1>1 DEF DsDelete, DsInv, DsTypeInv, DsCallInv, DsAtKey, WritesKey
<1>3. /\ a \in DsBackends /\ a.entities \in DsDicts(DsVals)
      /\ d.be \in DOMAIN backends
  BY <1>1, <1>2, DsHeld
<1>4. PICK f : f = DsDrop(a.entities, key)
  OBVIOUS
<1>5. /\ f \in DsDicts(DsVals) /\ DOMAIN f = DOMAIN a.entities \ {key}
      /\ \A j \in DOMAIN a.entities : j # key => f[j] = a.entities[j]
  BY <1>2, <1>3, <1>4, DictDrop
<1>6. PICK b : b = [entities |-> f, versions |-> a.versions, ids |-> a.ids]
  OBVIOUS
<1>7. b \in DsBackends /\ b = [a EXCEPT !.entities = f] /\ b.entities = f
      /\ b.versions = a.versions
  BY <1>3, <1>5, <1>6 DEF DsBackends
<1>8. backends' = [backends EXCEPT ![dw[w].be] = b]
  BY <1>1, <1>4, <1>7 DEF DsDelete, DsSetBe
<1>9. PICK c : c = [d EXCEPT !.pc = "unversion"]
  OBVIOUS
<1>10. dw' = [dw EXCEPT ![w] = c]
  BY <1>1, <1>9 DEF DsDelete, DsGo
<1>11. c = [pc |-> "unversion", be |-> d.be, left |-> d.left, op |-> d.op, key |-> key,
            val |-> d.val, version |-> d.version, quiet |-> d.quiet]
  BY <1>1, <1>2, <1>9 DEF DsCallInv
<1>12. c.pc = "unversion" /\ c.key = key /\ c.be = d.be /\ c.val = d.val /\ c.quiet = d.quiet
  BY <1>11
<1>13. DsCallInv(c)
  BY <1>2, <1>11, <1>12 DEF DsCallInv, DsPlaces, DsAtKey
<1>14. c.pc # "found" /\ \A k : WritesKey(c, k) => k = key
  BY <1>12 DEF WritesKey
<1>15. ASSUME dsContested # DsKeys PROVE Registered = a /\ Registered' = b
  BY <1>1, <1>2, <1>3, <1>7, <1>8, <1>15, DsHeld, DsStored DEF DsInv
<1>16. ASSUME dsContested # DsKeys, NEW k \in DsKeys, k # key PROVE KeyStays(k)
  BY <1>2, <1>5, <1>7, <1>15, <1>16 DEF KeyStays
<1>17. ASSUME key \notin dsContested PROVE WriterInv(c, key)'
  <2>1. Registered' = b
    BY <1>2, <1>15, <1>17
  <2> QED
    BY <1>5, <1>7, <1>12, <2>1 DEF WriterInv
<1>18. WritesKey(c, key) /\ WritesKey(dw[w], key) /\ DOMAIN dsSerial' \subseteq DsKeys
  BY <1>1, <1>2, <1>12 DEF WritesKey, DsInv, DsTypeInv
<1> QED
  BY <1>2, <1>7, <1>8, <1>10, <1>13, <1>14, <1>16, <1>17, <1>18, DsWriteInv

(* What worker w does once a mutation is done *)
LEMMA DsEndSo ==
  ASSUME DsInv, NEW w \in DsWorkers, dw[w].pc \notin {"idle", "create"}
  PROVE  /\ DsCallInv(DsEnd(w)) /\ DsEnd(w).pc # "found"
         /\ \A k : ~WritesKey(DsEnd(w), k)
<1>1. PICK d, c : d = dw[w] /\ c = DsEnd(w)
  OBVIOUS
<1>2. d.be \in DOMAIN backends
  BY <1>1 DEF DsInv, DsTypeInv, DsCallInv
<1>3. CASE d.left = 0
  <2>1. c = DsIdle
    BY <1>1, <1>3 DEF DsEnd
  <2> QED
    BY <1>1, <2>1, DsIdleCall DEF WritesKey
<1>4. CASE d.left # 0
  <2>1. c = [DsIdle EXCEPT !.pc = "next", !.be = d.be, !.left = d.left]
    BY <1>1, <1>4 DEF DsEnd
  <2>2. c = [pc |-> "next", be |-> d.be, left |-> d.left, op |-> "none", key |-> DsNoKey,
             val |-> DsNoKey, version |-> 0, quiet |-> {}]
    BY <2>1 DEF DsIdle
  <2>3. DsCallInv(c) /\ c.pc = "next"
    BY <1>2, <2>2 DEF DsCallInv, DsPlaces, DsAtKey
  <2> QED
    BY <1>1, <2>3 DEF WritesKey
<1> QED
  BY <1>3, <1>4

LEMMA DsPutVersionPreserves ==
  ASSUME DsInv, NEW w \in DsWorkers, DsPutVersion(w)
  PROVE  DsInv'
<1>1. PICK d, a, key, v, n : /\ d = dw[w] /\ a = Be(w) /\ key = d.key
                             /\ v = d.val /\ n = d.version + 1
  OBVIOUS
<1>2. /\ d.pc = "version" /\ DsCallInv(d) /\ key \in DsKeys /\ v \in DsVals /\ n \in Nat
      /\ d.version \in Nat /\ WritesKey(d, key) /\ UNCHANGED <<registered, dsContested>>
  BY <1>1 DEF DsPutVersion, DsInv, DsTypeInv, DsCallInv, DsAtKey, WritesKey
<1>3. /\ a \in DsBackends /\ a.versions \in DsDicts(Nat) /\ d.be \in DOMAIN backends
  BY <1>1, <1>2, DsHeld
<1>4. PICK f : f = DsWith(a.versions, key, n)
  OBVIOUS
<1>5. /\ f \in DsDicts(Nat) /\ DOMAIN f = DOMAIN a.versions \union {key} /\ f[key] = n
      /\ \A j \in DOMAIN a.versions : j # key => f[j] = a.versions[j]
  <2>1. DsWith(a.versions, key, n) \in DsDicts(Nat)
    BY <1>2, <1>3, DictWith
  <2>2. /\ DOMAIN f = DOMAIN a.versions \union {key} /\ f[key] = n
        /\ \A j \in DOMAIN a.versions : j # key => f[j] = a.versions[j]
    BY <1>4 DEF DsWith
  <2> QED
    BY <1>4, <2>1, <2>2
<1>6. PICK b : b = [entities |-> a.entities, versions |-> f, ids |-> a.ids]
  OBVIOUS
<1>7. b \in DsBackends /\ b = [a EXCEPT !.versions = f] /\ b.versions = f
      /\ b.entities = a.entities
  BY <1>3, <1>5, <1>6 DEF DsBackends
<1>8. backends' = [backends EXCEPT ![dw[w].be] = b]
  BY <1>1, <1>4, <1>7 DEF DsPutVersion, DsSetBe
<1>9. PICK m : m = IF key \in DOMAIN dsSerial THEN dsSerial[key][2] + 1 ELSE 1
  OBVIOUS
<1>10. /\ DOMAIN dsSerial' = DOMAIN dsSerial \union {key} /\ dsSerial'[key] = <<v, m>>
       /\ \A j \in DOMAIN dsSerial : j # key => dsSerial'[j] = dsSerial[j]
  <2>1. dsSerial' = DsWith(dsSerial, key, <<v, m>>)
    BY <1>1, <1>9 DEF DsPutVersion
  <2> QED
    BY <2>1 DEF DsWith
<1>11. DOMAIN dsSerial' \subseteq DsKeys
  BY <1>2, <1>10 DEF DsInv, DsTypeInv
<1>12. dw' = [dw EXCEPT ![w] = DsEnd(w)]
  BY DEF DsPutVersion
<1>13. /\ DsCallInv(DsEnd(w)) /\ DsEnd(w).pc # "found" /\ \A k : ~WritesKey(DsEnd(w), k)
  BY <1>1, <1>2, DsEndSo
<1>14. ASSUME dsContested # DsKeys PROVE Registered = a /\ Registered' = b
  BY <1>1, <1>2, <1>3, <1>7, <1>8, <1>14, DsHeld, DsStored DEF DsInv
<1>15. ASSUME dsContested # DsKeys, NEW k \in DsKeys, k # key PROVE KeyStays(k)
  BY <1>5, <1>7, <1>10, <1>14, <1>15 DEF KeyStays
<1>16. ASSUME key \notin dsContested PROVE Agrees(key)'
  <2>1. Registered = a /\ Registered' = b
    BY <1>2, <1>14, <1>16
  <2>2. Wrote(d, key) /\ VersionsAgree(key) /\ d.version = DsVersion(a.versions, key)
    BY <1>1, <1>2, <1>16, <2>1 DEF DsInv, KeyInv, WriterInv
  <2>3. b.entities[key] = v /\ key \in DOMAIN b.entities
    BY <1>1, <1>7, <2>1, <2>2 DEF Wrote
  <2>4. m = n
    BY <1>1, <1>2, <1>9, <2>1, <2>2 DEF VersionsAgree, DsVersion
  <2> QED
    BY <1>5, <1>7, <1>10, <2>1, <2>3, <2>4 DEF Agrees
<1>17. WritesKey(dw[w], key)
  BY <1>1, <1>2
<1> QED
  BY <1>2, <1>7, <1>8, <1>11, <1>12, <1>13, <1>15, <1>16, <1>17, DsWriteInv

LEMMA DsDeleteVersionPreserves ==
  ASSUME DsInv, NEW w \in DsWorkers, DsDeleteVersion(w)
  PROVE  DsInv'
<1>1. PICK d, a, key : d = dw[w] /\ a = Be(w) /\ key = d.key
  OBVIOUS
<1>2. /\ d.pc = "unversion" /\ DsCallInv(d) /\ key \in DsKeys
      /\ WritesKey(d, key) /\ UNCHANGED <<registered, dsContested>>
  BY <1>1 DEF DsDeleteVersion, DsInv, DsTypeInv, DsCallInv, DsAtKey, WritesKey
<1>3. /\ a \in DsBackends /\ a.versions \in DsDicts(Nat) /\ d.be \in DOMAIN backends
  BY <1>1, <1>2, DsHeld
<1>4. PICK f : f = DsDrop(a.versions, key)
  OBVIOUS
<1>5. /\ f \in DsDicts(Nat) /\ DOMAIN f = DOMAIN a.versions \ {key}
      /\ \A j \in DOMAIN a.versions : j # key => f[j] = a.versions[j]
  BY <1>3, <1>4, DictDrop
<1>6. PICK b : b = [entities |-> a.entities, versions |-> f, ids |-> a.ids]
  OBVIOUS
<1>7. b \in DsBackends /\ b = [a EXCEPT !.versions = f] /\ b.versions = f
      /\ b.entities = a.entities
  BY <1>3, <1>5, <1>6 DEF DsBackends
<1>8. backends' = [backends EXCEPT ![dw[w].be] = b]
  BY <1>1, <1>4, <1>7 DEF DsDeleteVersion, DsSetBe
<1>9. /\ DOMAIN dsSerial' = DOMAIN dsSerial \ {key}
      /\ \A j \in DOMAIN dsSerial : j # key => dsSerial'[j] = dsSerial[j]
  BY <1>1 DEF DsDeleteVersion, DsDrop
<1>10. DOMAIN dsSerial' \subseteq DsKeys
  BY <1>9 DEF DsInv, DsTypeInv
<1>11. dw' = [dw EXCEPT ![w] = DsEnd(w)]
  BY DEF DsDeleteVersion
<1>12. /\ DsCallInv(DsEnd(w)) /\ DsEnd(w).pc # "found" /\ \A k : ~WritesKey(DsEnd(w), k)
  BY <1>1, <1>2, DsEndSo
<1>13. ASSUME dsContested # DsKeys PROVE Registered = a /\ Registered' = b
  BY <1>1, <1>2, <1>3, <1>7, <1>8, <1>13, DsHeld, DsStored DEF DsInv
<1>14. ASSUME dsContested # DsKeys, NEW k \in DsKeys, k # key PROVE KeyStays(k)
  BY <1>5, <1>7, <1>9, <1>13, <1>14 DEF KeyStays
<1>15. ASSUME key \notin dsContested PROVE Agrees(key)'
  <2>1. Registered = a /\ Registered' = b
    BY <1>2, <1>13, <1>15
  <2>2. key \notin DOMAIN a.entities
    BY <1>1, <1>2, <1>15, <2>1 DEF DsInv, KeyInv, WriterInv
  <2> QED
    BY <1>5, <1>7, <1>9, <2>1, <2>2 DEF Agrees
<1>16. WritesKey(dw[w], key)
  BY <1>1, <1>2
<1> QED
  BY <1>2, <1>7, <1>8, <1>10, <1>11, <1>12, <1>14, <1>15, <1>16, DsWriteInv

LEMMA DsAllocatePreserves ==
  ASSUME DsInv, NEW w \in DsWorkers, DsAllocate(w)
  PROVE  DsInv'
<1>1. /\ dw[w].pc = "allocate" /\ dw' = [dw EXCEPT ![w] = DsIdle]
      /\ UNCHANGED <<registered, dsSerial, dsContested>>
      /\ Be(w).ids < DsMaxId /\ DsSetBe(w, [Be(w) EXCEPT !.ids = DsNextId(@)])
  BY DEF DsAllocate
<1>2. dw[w].be \in DOMAIN backends /\ DsTypeInv /\ OneBackend
  BY <1>1 DEF DsInv, DsTypeInv, DsCallInv
<1>3. /\ backends' \in Seq(DsBackends) /\ DOMAIN backends' = DOMAIN backends
      /\ Len(backends') = Len(backends)
      /\ registered' \in 0..Len(backends') /\ (registered' = 0 <=> backends' = <<>>)
      /\ dsContested # DsKeys =>
           Registered'.entities = Registered.entities /\ Registered'.versions = Registered.versions
  BY <1>1, <1>2, DsDrawnStored
<1>4. GoesOn(w, DsIdle)
  BY <1>1, <1>2, ExceptGoesOn
<1>5. DsTypeInv'
  <2>1. DsCallInv(DsIdle)'
    BY DsIdleCall DEF DsCallInv
  <2>2. DOMAIN dsSerial' \subseteq DsKeys /\ dsContested' \subseteq DsKeys
    BY <1>1, <1>2 DEF DsTypeInv
  <2> QED
    BY <1>2, <1>3, <1>4, <2>1, <2>2, DsTypeStep
<1>6. OneBackend'
  BY <1>1, <1>2, <1>3 DEF OneBackend
<1>7. ASSUME NEW k \in DsKeys PROVE KeyInv(k)'
  <2>1. KeyInv(k) /\ dsContested \subseteq dsContested'
    BY <1>1 DEF DsInv
  <2>2. CASE k \in dsContested
    BY <1>1, <2>2 DEF KeyInv
  <2>3. CASE k \notin dsContested
    <3>1. KeyStays(k)
      BY <1>1, <1>3, <2>3 DEF KeyStays
    <3>2. ~WritesKey(dw[w], k) /\ ~WritesKey(DsIdle, k) /\ ~Relies(DsIdle, k)
      BY <1>1, DsIdleCall DEF WritesKey, Relies
    <3> QED
      BY <1>4, <2>1, <3>1, <3>2, KeyAside
  <2> QED
    BY <2>2, <2>3
<1> QED
  BY <1>5, <1>6, <1>7 DEF DsInv

LEMMA DsStepInv == DsInv /\ [DatastoreNext]_dsVars => DsInv'
<1> SUFFICES ASSUME DsInv, [DatastoreNext]_dsVars PROVE DsInv'
  OBVIOUS
<1>1. CASE UNCHANGED dsVars
  BY <1>1 DEF dsVars, DsInv, DsTypeInv, DsCallInv, OneBackend, KeyInv, WriterInv, Wrote, Agrees,
              VersionsAgree, Registered
<1>2. CASE DatastoreNext
  <2>1. PICK w \in DsWorkers : DsWork(w)
    BY <1>2 DEF DatastoreNext
  <2>2. CASE \E rpc \in DsRpcs : DsCall(w, rpc)
    BY <2>2, DsCallPreserves
  <2>3. CASE DsCreate(w) \/ DsFails(w) \/ DsExists(w)
    BY <2>3, DsCreatePreserves, DsFailsPreserves, DsExistsPreserves
  <2>4. CASE \E op \in DsOps, k \in DsKeys, val \in DsVals : DsMutate(w, op, k, val)
    BY <2>4, DsMutatePreserves
  <2>5. CASE \E op \in DsOps, val \in DsVals : DsComplete(w, op, val)
    BY <2>5, DsCompletePreserves
  <2>6. CASE DsPut(w) \/ DsPutVersion(w) \/ DsDelete(w) \/ DsDeleteVersion(w)
    BY <2>6, DsPutPreserves, DsPutVersionPreserves, DsDeletePreserves, DsDeleteVersionPreserves
  <2>7. CASE \E k \in DsKeys : DsLookup(w, k)
    BY <2>7, DsLookupPreserves
  <2>8. CASE DsFound(w) \/ DsAllocate(w)
    BY <2>8, DsFoundPreserves, DsAllocatePreserves
  <2> QED
    BY <2>1, <2>2, <2>3, <2>4, <2>5, <2>6, <2>7, <2>8 DEF DsWork
<1> QED
  BY <1>1, <1>2

LEMMA DsInvMeans == DsInv => DatastoreIsolated
<1> SUFFICES ASSUME DsInv PROVE DatastoreIsolated
  OBVIOUS
<1>1. ASSUME registered # 0, NEW k \in DsCalm \ dsContested
      PROVE  /\ k \in DOMAIN backends[registered].entities <=> k \in DOMAIN dsSerial
             /\ k \in DOMAIN backends[registered].versions <=> k \in DOMAIN dsSerial
             /\ k \in DOMAIN dsSerial =>
                  dsSerial[k] = <<backends[registered].entities[k], backends[registered].versions[k]>>
  <2>1. Registered = backends[registered]
    BY <1>1 DEF Registered
  <2>2. k \in DsKeys /\ \A w \in DsWorkers : ~WritesKey(dw[w], k)
    BY <1>1 DEF DsCalm, DsWriters, DsWriting, WritesKey
  <2>3. Agrees(k)
    BY <1>1, <2>2 DEF DsInv, KeyInv
  <2> QED
    BY <2>1, <2>3 DEF Agrees
<1>2. ASSUME NEW w \in DsWorkers, dw[w].pc = "found", dw[w].key \in dw[w].quiet \ dsContested
      PROVE  dsSerial[dw[w].key] = <<dw[w].val, DsReported(w)>>
  <2>1. PICK k : k = dw[w].key
    OBVIOUS
  <2>2. k \in DsKeys /\ k \notin dsContested /\ Relies(dw[w], k)
    BY <1>2, <2>1 DEF DsInv, DsTypeInv, DsCallInv, DsAtKey, Relies
  <2>3. Wrote(dw[w], k) /\ Agrees(k)
    BY <2>2 DEF DsInv, KeyInv
  <2>4. dsContested # DsKeys /\ Registered = Be(w)
    BY <1>2, <2>2, DsHeld
  <2> QED
    BY <2>1, <2>3, <2>4 DEF Wrote, Agrees, DsReported
<1> QED
  BY <1>1, <1>2 DEF DatastoreIsolated

(* A key that no two commits write at a time, in a project whose first     *)
(* calls did not race, has the entity last written and the number of       *)
(* writes since it was created, and a lookup nobody disturbs reports both: *)
(* DatastoreBackend's two dicts agree without a lock.                      *)
THEOREM KeysStayIsolated == DataSpec => []DatastoreIsolated
<1>1. DataInit => DsInv
  BY DataInits, DsInitInv
<1>2. DsInv /\ [DataNext]_dataVars => DsInv'
  BY OneDataService, DsStepInv
<1>3. DsInv => DatastoreIsolated
  BY DsInvMeans
<1> QED
  BY <1>1, <1>2, <1>3, PTL DEF DataSpec, dataVars

------------------------------------------------------------------------------
(* Firestore: the inductive invariant.  An object stands under one name at *)
(* most, and a merge that has found its object has it under the name it    *)
(* writes (ObjectsInv): nobody changes a document under another name.  For *)
(* a document that is not contested there is one writer at most, and what  *)
(* it holds follows from where the writer is; while a merge is under way,  *)
(* it holds the masked paths dealt with so far (MergesInv).                *)

FsResting == {"idle", "create", "race", "ready", "lost"}
FsPlaces == FsResting \union {"next", "apply", "insert", "path", "list", "emit"}
FsCallInv(c) ==
  /\ c = [pc |-> c.pc, left |-> c.left, write |-> c.write, obj |-> c.obj, paths |-> c.paths,
          todo |-> c.todo, listed |-> c.listed, quiet |-> c.quiet, next |-> c.next,
          size |-> c.size, rebuilt |-> c.rebuilt]
  /\ c.pc \in FsPlaces /\ c.quiet \subseteq FsDocs /\ c.next \in Nat /\ c.rebuilt \in BOOLEAN
  /\ c.pc \in {"apply", "insert", "path"} => c.write \in FsWrites
  /\ c.pc \in {"insert", "path"} =>
       c.write.kind \in {"merge", "update"} /\ c.paths \subseteq DOMAIN c.write.upd
  /\ c.pc = "insert" => c.paths = DOMAIN c.write.upd
  /\ \A e \in c.todo : e[1] \in FsDocs

IsFields(x) == x = [f \in DOMAIN x |-> x[f]]

FsTypeInv ==
  /\ DOMAIN docs \subseteq FsDocs /\ \A d \in DOMAIN docs : docs[d] \in DOMAIN heap
  /\ DOMAIN serial \subseteq FsDocs /\ \A d \in DOMAIN serial : IsFields(serial[d])
  /\ contested \subseteq FsDocs
  /\ DOMAIN fw = FsWorkers /\ \A w \in FsWorkers : FsCallInv(fw[w])

(* Every name has a place of its own in the table. *)
PlaceInv ==
  /\ DOMAIN place = DOMAIN docs /\ used \in Nat
  /\ \A d \in DOMAIN docs : place[d] \in 1..used
  /\ \A d, e \in DOMAIN docs : place[d] = place[e] => d = e

WritesDoc(c, d) == c.pc \in {"apply", "insert", "path"} /\ c.write.doc = d

ObjectsInv ==
  /\ \A d, e \in DOMAIN docs : docs[d] = docs[e] => d = e
  /\ \A w \in FsWorkers, d \in DOMAIN docs :
       fw[w].pc = "path" /\ fw[w].obj = docs[d] => fw[w].write.doc = d

(* What a document held before the merge that is under way, and what it    *)
(* holds once the masked paths S are dealt with                            *)
Base(d) == IF d \in DOMAIN serial THEN serial[d] ELSE FsNone
Merged(fields, upd, S) ==
  [f \in {g \in DOMAIN fields \union S : g \in S => upd[g] # FsGone} |->
     IF f \in S THEN upd[f] ELSE fields[f]]

DocAgrees(d) ==
  /\ d \in DOMAIN docs <=> d \in DOMAIN serial
  /\ d \in DOMAIN docs => heap[docs[d]] = serial[d]
MergesInv(c, d) ==
  /\ d \in DOMAIN docs /\ c.obj = docs[d]
  /\ heap[docs[d]] = Merged(Base(d), c.write.upd, DOMAIN c.write.upd \ c.paths)
DocWriterInv(c, d) ==
  /\ c.pc = "apply"  => DocAgrees(d) /\ Allowed(c.write.kind, d \in DOMAIN docs)
  /\ c.pc = "insert" => DocAgrees(d) /\ d \notin DOMAIN docs
  /\ c.pc = "path"   => MergesInv(c, d)
ReliesOn(c, d) == c.pc \in {"list", "emit"} /\ d \in c.quiet
(* A reader has what it passed, and the rest is ahead of it unless the dict *)
(* was rebuilt.                                                             *)
Lists(c, d) ==
  /\ d \in c.listed => d \in DOMAIN docs
  /\ \A e \in c.todo : e[1] = d => d \in DOMAIN docs /\ e[2] = docs[d]
  /\ d \in DOMAIN docs =>
       d \in c.listed \/ c.rebuilt = TRUE \/ (c.pc = "list" /\ place[d] >= c.next)
DocInv(d) ==
  d \notin contested =>
    /\ \A v, w \in FsWorkers : WritesDoc(fw[v], d) /\ WritesDoc(fw[w], d) => v = w
    /\ \A w \in FsWorkers : WritesDoc(fw[w], d) => DocWriterInv(fw[w], d)
    /\ (\A w \in FsWorkers : ~WritesDoc(fw[w], d)) => DocAgrees(d)
    /\ \A w \in FsWorkers : ReliesOn(fw[w], d) =>
         Lists(fw[w], d) /\ \A v \in FsWorkers : ~WritesDoc(fw[v], d)

FsInv == FsTypeInv /\ PlaceInv /\ ObjectsInv /\ \A d \in FsDocs : DocInv(d)

(* Until BackendDict has a backend nothing but its creation is under way,  *)
(* and a creation that saw no other one is the only one.                   *)
FsStartInv ==
  /\ \A w \in FsWorkers : fw[w].pc = "create" => fsBackend # TRUE /\ FsCreators = {w}
  /\ fsBackend # TRUE => /\ serial = FsNone /\ contested = {}
                         /\ \A w \in FsWorkers : fw[w].pc \in {"idle", "create", "race"}

------------------------------------------------------------------------------
(* Firestore: a new object is nobody's *)

LEMMA NewIsNew ==
  ASSUME FsObjects \ FsRefs # {}
  PROVE  FsNew \in FsObjects /\ FsNew \notin FsRefs
BY DEF FsNew

------------------------------------------------------------------------------
(* Firestore: what a step of one worker leaves as it is *)

(* Worker w goes on as c; the others rely on no more documents than before *)
(* and the dict may have been rebuilt under them.                          *)
FsLike(e, d) ==
  /\ e = [pc |-> d.pc, left |-> d.left, write |-> d.write, obj |-> d.obj, paths |-> d.paths,
          todo |-> d.todo, listed |-> d.listed, quiet |-> e.quiet, next |-> d.next,
          size |-> d.size, rebuilt |-> e.rebuilt]
  /\ e.quiet \subseteq d.quiet /\ e.rebuilt \in BOOLEAN /\ (d.rebuilt = TRUE => e.rebuilt = TRUE)
FsGoesOn(w, c) ==
  DOMAIN fw' = FsWorkers /\ fw'[w] = c /\ \A v \in FsWorkers : v # w => FsLike(fw'[v], fw[v])

(* Other readers find d where it was. *)
PlaceStays(w, d) ==
  \A v \in FsWorkers : v # w /\ fw[v].pc = "list" /\ d \in DOMAIN docs =>
    place'[d] = place[d] \/ fw'[v].rebuilt = TRUE

DocStays(d) ==
  /\ d \in DOMAIN docs' <=> d \in DOMAIN docs
  /\ d \in DOMAIN docs => docs'[d] = docs[d] /\ heap'[docs[d]] = heap[docs[d]]
  /\ d \in DOMAIN serial' <=> d \in DOMAIN serial
  /\ d \in DOMAIN serial => serial'[d] = serial[d]

LEMMA FsLikeItself ==
  ASSUME NEW d, FsCallInv(d)
  PROVE  FsLike(d, d)
BY DEF FsCallInv, FsLike

LEMMA FsExceptGoesOn ==
  ASSUME FsTypeInv, NEW w \in FsWorkers, NEW c, fw' = [fw EXCEPT ![w] = c]
  PROVE  FsGoesOn(w, c)
<1>1. DOMAIN fw' = FsWorkers /\ fw'[w] = c /\ \A v \in FsWorkers : v # w => fw'[v] = fw[v]
  BY DEF FsTypeInv
<1>2. \A v \in FsWorkers : v # w => FsLike(fw'[v], fw[v])
  BY <1>1, FsLikeItself DEF FsTypeInv
<1> QED
  BY <1>1, <1>2 DEF FsGoesOn

LEMMA FsFileGoesOn ==
  ASSUME FsTypeInv, PlaceInv, NEW w \in FsWorkers, NEW now, NEW key \in FsDocs, NEW o,
         FsFile(w, now, key, o)
  PROVE  /\ FsGoesOn(w, now) /\ docs' = FsWith(docs, key, o) /\ PlaceInv'
         /\ \A d : d # key => PlaceStays(w, d)
<1>1. PICK n : n = Cardinality(DOMAIN docs)
  OBVIOUS
<1>2. n \in Nat
  BY <1>1, FirestoreAssumption, FS_Subset, FS_CardinalityType DEF FsTypeInv
<1>3. docs' = FsWith(docs, key, o) /\ DOMAIN docs' = DOMAIN docs \union {key}
  BY DEF FsFile, FsWith
<1>4. /\ DOMAIN place = DOMAIN docs /\ used \in Nat
      /\ \A d \in DOMAIN docs : place[d] \in 1..used
      /\ \A d, e \in DOMAIN docs : place[d] = place[e] => d = e
  BY DEF PlaceInv
<1>5. CASE key \in DOMAIN docs /\ fw' = [fw EXCEPT ![w] = now] /\ UNCHANGED <<place, used>>
  <2>1. DOMAIN docs' = DOMAIN docs
    BY <1>3, <1>5
  <2>2. PlaceInv'
    BY <1>4, <1>5, <2>1 DEF PlaceInv
  <2>3. FsGoesOn(w, now)
    BY <1>5, FsExceptGoesOn
  <2> QED
    BY <1>3, <1>5, <2>2, <2>3 DEF PlaceStays
<1>6. CASE /\ key \notin DOMAIN docs /\ fw' = [fw EXCEPT ![w] = now]
           /\ place' = FsWith(place, key, used + 1) /\ used' = used + 1
  <2>1. /\ DOMAIN place' = DOMAIN docs' /\ place'[key] = used + 1
        /\ \A d \in DOMAIN docs : place'[d] = place[d]
    BY <1>3, <1>4, <1>6 DEF FsWith
  <2>2. \A d \in DOMAIN docs' : place'[d] \in 1..used'
    BY <1>3, <1>4, <1>6, <2>1
  <2>3. \A d, e \in DOMAIN docs' : place'[d] = place'[e] => d = e
    BY <1>3, <1>4, <1>6, <2>1
  <2>4. PlaceInv'
    BY <1>4, <1>6, <2>1, <2>2, <2>3 DEF PlaceInv
  <2>5. FsGoesOn(w, now)
    BY <1>6, FsExceptGoesOn
  <2> QED
    BY <1>3, <2>1, <2>4, <2>5 DEF PlaceStays
<1>7. CASE /\ key \notin DOMAIN docs
           /\ fw' = [v \in FsWorkers |->
                IF v = w THEN now ELSE [fw[v] EXCEPT !.rebuilt = @ \/ fw[v].pc = "list"]]
           /\ \E p \in [DOMAIN docs -> 1..n] :
                /\ \A x, y \in DOMAIN docs : place[x] < place[y] => p[x] < p[y]
                /\ place' = FsWith(p, key, n + 1) /\ used' = n + 1
  <2>1. PICK p \in [DOMAIN docs -> 1..n] :
          /\ \A x, y \in DOMAIN docs : place[x] < place[y] => p[x] < p[y]
          /\ place' = FsWith(p, key, n + 1) /\ used' = n + 1
    BY <1>7
  <2>2. /\ DOMAIN place' = DOMAIN docs' /\ place'[key] = n + 1
        /\ \A d \in DOMAIN docs : place'[d] = p[d]
    BY <1>3, <1>7, <2>1 DEF FsWith
  <2>3. \A d \in DOMAIN docs : p[d] \in 1..n
    BY <2>1
  <2>4. \A d, e \in DOMAIN docs : p[d] = p[e] => d = e
    <3> SUFFICES ASSUME NEW d \in DOMAIN docs, NEW e \in DOMAIN docs, d # e PROVE p[d] # p[e]
      OBVIOUS
    <3>1. place[d] < place[e] \/ place[e] < place[d]
      BY <1>4
    <3>2. p[d] \in Nat /\ p[e] \in Nat
      BY <1>2, <2>3
    <3>3. p[d] < p[e] \/ p[e] < p[d]
      BY <2>1, <3>1
    <3> QED
      BY <3>2, <3>3
  <2>5. \A d \in DOMAIN docs' : place'[d] \in 1..used'
    BY <1>2, <1>3, <2>1, <2>2, <2>3
  <2>6. \A d, e \in DOMAIN docs' : place'[d] = place'[e] => d = e
    BY <1>2, <1>3, <1>7, <2>2, <2>3, <2>4
  <2>7. PlaceInv'
    BY <1>2, <2>1, <2>2, <2>5, <2>6 DEF PlaceInv
  <2>8. ASSUME NEW v \in FsWorkers, v # w
        PROVE  FsLike(fw'[v], fw[v]) /\ (fw[v].pc = "list" => fw'[v].rebuilt = TRUE)
    <3>1. PICK d, e, r : d = fw[v] /\ e = fw'[v] /\ r = (d.rebuilt \/ d.pc = "list")
      OBVIOUS
    <3>2. FsCallInv(d) /\ e = [d EXCEPT !.rebuilt = r]
      BY <1>7, <2>8, <3>1 DEF FsTypeInv
    <3>3. e = [pc |-> d.pc, left |-> d.left, write |-> d.write, obj |-> d.obj,
               paths |-> d.paths, todo |-> d.todo, listed |-> d.listed, quiet |-> d.quiet,
               next |-> d.next, size |-> d.size, rebuilt |-> r]
      BY <3>2 DEF FsCallInv
    <3>4. e.quiet = d.quiet /\ e.rebuilt = r
      BY <3>3
    <3>5. r \in BOOLEAN /\ (d.rebuilt = TRUE => r = TRUE) /\ (d.pc = "list" => r = TRUE)
      BY <3>1, Zenon
    <3>6. FsLike(e, d)
      BY <3>3, <3>4, <3>5 DEF FsLike
    <3> QED
      BY <3>1, <3>4, <3>5, <3>6
  <2>9. FsGoesOn(w, now)
    <3>1. DOMAIN fw' = FsWorkers /\ fw'[w] = now
      BY <1>7
    <3> QED
      BY <2>8, <3>1 DEF FsGoesOn
  <2> QED
    BY <1>3, <2>7, <2>8, <2>9 DEF PlaceStays
<1> QED
  BY <1>1, <1>5, <1>6, <1>7 DEF FsFile

(* What the others do stays the same. *)
LEMMA FsOthersStay ==
  ASSUME NEW w \in FsWorkers, NEW c, FsGoesOn(w, c), NEW v \in FsWorkers, v # w
  PROVE  /\ fw'[v].pc = fw[v].pc /\ fw'[v].write = fw[v].write /\ fw'[v].obj = fw[v].obj
         /\ fw'[v].paths = fw[v].paths /\ fw'[v].todo = fw[v].todo
         /\ fw'[v].listed = fw[v].listed /\ fw'[v].quiet \subseteq fw[v].quiet
<1>1. PICK d, e : d = fw[v] /\ e = fw'[v]
  OBVIOUS
<1>2. FsLike(e, d)
  BY <1>1 DEF FsGoesOn
<1>3. /\ e.pc = d.pc /\ e.write = d.write /\ e.obj = d.obj /\ e.paths = d.paths
      /\ e.todo = d.todo /\ e.listed = d.listed /\ e.quiet \subseteq d.quiet
  BY <1>2 DEF FsLike
<1> QED
  BY <1>1, <1>3

LEMMA FsOthersRead ==
  ASSUME NEW w \in FsWorkers, NEW c, FsGoesOn(w, c), NEW v \in FsWorkers, v # w
  PROVE  fw'[v].next = fw[v].next /\ (fw[v].rebuilt = TRUE => fw'[v].rebuilt = TRUE)
<1>1. PICK d, e : d = fw[v] /\ e = fw'[v]
  OBVIOUS
<1>2. FsLike(e, d)
  BY <1>1 DEF FsGoesOn
<1>3. e.next = d.next /\ (d.rebuilt = TRUE => e.rebuilt = TRUE)
  BY <1>2 DEF FsLike
<1> QED
  BY <1>1, <1>3

LEMMA FsOthersWrite ==
  ASSUME NEW w \in FsWorkers, NEW c, FsGoesOn(w, c), NEW v \in FsWorkers, v # w, NEW d
  PROVE  /\ WritesDoc(fw'[v], d) <=> WritesDoc(fw[v], d)
         /\ ReliesOn(fw'[v], d) => ReliesOn(fw[v], d)
BY FsOthersStay DEF WritesDoc, ReliesOn

LEMMA DocStaysSo ==
  ASSUME NEW d, DocStays(d)
  PROVE  /\ DocAgrees(d)' <=> DocAgrees(d)
         /\ Base(d)' = Base(d)
BY DEF DocStays, DocAgrees, Base

LEMMA DocStaysWritten ==
  ASSUME NEW d, DocStays(d), NEW c, NEW e, c.pc = e.pc, c.write = e.write, c.obj = e.obj,
         c.paths = e.paths, DocWriterInv(c, d)
  PROVE  DocWriterInv(e, d)'
<1>1. e.pc = "apply" => DocAgrees(d)' /\ Allowed(e.write.kind, d \in DOMAIN docs')
  BY DocStaysSo DEF DocWriterInv, DocStays
<1>2. e.pc = "insert" => DocAgrees(d)' /\ d \notin DOMAIN docs'
  BY DocStaysSo DEF DocWriterInv, DocStays
<1>3. e.pc = "path" => MergesInv(e, d)'
  BY DocStaysSo DEF DocWriterInv, DocStays, MergesInv
<1> QED
  BY <1>1, <1>2, <1>3 DEF DocWriterInv

LEMMA DocStaysListed ==
  ASSUME NEW d, DocStays(d), NEW c, NEW e, c.pc = e.pc, c.listed = e.listed, c.todo = e.todo,
         c.next = e.next, c.rebuilt = TRUE => e.rebuilt = TRUE,
         c.pc = "list" /\ d \in DOMAIN docs => place'[d] = place[d] \/ e.rebuilt = TRUE,
         Lists(c, d)
  PROVE  Lists(e, d)'
BY DEF DocStays, Lists

(* A step of a worker that does not write document d, before or after *)
LEMMA DocAside ==
  ASSUME NEW d, DocInv(d), NEW w \in FsWorkers, NEW c, FsGoesOn(w, c), DocStays(d),
         contested \subseteq contested', ~WritesDoc(fw[w], d), ~WritesDoc(c, d),
         PlaceStays(w, d),
         ReliesOn(c, d) /\ d \notin contested =>
           Lists(c, d)' /\ \A v \in FsWorkers : ~WritesDoc(fw[v], d)
  PROVE  DocInv(d)'
<1> SUFFICES ASSUME d \notin contested'
             PROVE  /\ \A u, v \in FsWorkers : WritesDoc(fw'[u], d) /\ WritesDoc(fw'[v], d) => u = v
                    /\ \A v \in FsWorkers : WritesDoc(fw'[v], d) => DocWriterInv(fw[v], d)'
                    /\ (\A v \in FsWorkers : ~WritesDoc(fw'[v], d)) => DocAgrees(d)'
                    /\ \A v \in FsWorkers : ReliesOn(fw'[v], d) =>
                         Lists(fw[v], d)' /\ \A u \in FsWorkers : ~WritesDoc(fw'[u], d)
  BY DEF DocInv, WritesDoc, ReliesOn
<1>1. fw'[w] = c
  BY DEF FsGoesOn
<1>2. \A v \in FsWorkers : WritesDoc(fw'[v], d) <=> WritesDoc(fw[v], d)
  BY <1>1, FsOthersWrite
<1>3. /\ \A u, v \in FsWorkers : WritesDoc(fw[u], d) /\ WritesDoc(fw[v], d) => u = v
      /\ \A v \in FsWorkers : WritesDoc(fw[v], d) => DocWriterInv(fw[v], d)
      /\ (\A v \in FsWorkers : ~WritesDoc(fw[v], d)) => DocAgrees(d)
      /\ \A v \in FsWorkers : ReliesOn(fw[v], d) =>
           Lists(fw[v], d) /\ \A u \in FsWorkers : ~WritesDoc(fw[u], d)
  BY DEF DocInv
<1>4. ASSUME NEW v \in FsWorkers, WritesDoc(fw'[v], d) PROVE DocWriterInv(fw[v], d)'
  <2>1. v # w
    BY <1>1, <1>4
  <2>2. PICK a, e : a = fw[v] /\ e = fw'[v]
    OBVIOUS
  <2>3. a.pc = e.pc /\ a.write = e.write /\ a.obj = e.obj /\ a.paths = e.paths
        /\ DocWriterInv(a, d)
    BY <1>2, <1>3, <1>4, <2>1, <2>2, FsOthersStay
  <2>4. DocWriterInv(e, d)'
    BY <2>3, DocStaysWritten
  <2> QED
    BY <2>2, <2>4
<1>5. ASSUME NEW v \in FsWorkers, ReliesOn(fw'[v], d)
      PROVE  Lists(fw[v], d)' /\ \A u \in FsWorkers : ~WritesDoc(fw[u], d)
  <2>1. CASE v = w
    <3>1. Lists(c, d)' /\ \A u \in FsWorkers : ~WritesDoc(fw[u], d)
      BY <1>1, <1>5, <2>1
    <3> QED
      BY <1>1, <2>1, <3>1
  <2>2. CASE v # w
    <3>1. PICK a, e : a = fw[v] /\ e = fw'[v]
      OBVIOUS
    <3>2. /\ a.pc = e.pc /\ a.listed = e.listed /\ a.todo = e.todo /\ Lists(a, d)
      BY <1>3, <1>5, <2>2, <3>1, FsOthersStay, FsOthersWrite
    <3>6. a.next = e.next /\ (a.rebuilt = TRUE => e.rebuilt = TRUE)
      BY <2>2, <3>1, FsOthersRead
    <3>3. a.pc = "list" /\ d \in DOMAIN docs => place'[d] = place[d] \/ e.rebuilt = TRUE
      BY <2>2, <3>1 DEF PlaceStays
    <3>5. Lists(e, d)'
      BY <3>2, <3>3, <3>6, DocStaysListed
    <3>4. \A u \in FsWorkers : ~WritesDoc(fw[u], d)
      BY <1>3, <1>5, <2>2, FsOthersWrite
    <3> QED
      BY <3>1, <3>4, <3>5
  <2> QED
    BY <2>1, <2>2
<1>6. (\A v \in FsWorkers : ~WritesDoc(fw'[v], d)) => DocAgrees(d)'
  BY <1>2, <1>3, DocStaysSo
<1> QED
  BY <1>2, <1>3, <1>4, <1>5, <1>6

(* A step of the one worker that writes document d *)
LEMMA DocOwn ==
  ASSUME NEW d, DocInv(d), NEW w \in FsWorkers, NEW c, FsGoesOn(w, c),
         contested \subseteq contested', WritesDoc(fw[w], d), ~ReliesOn(c, d),
         d \notin contested => IF WritesDoc(c, d) THEN DocWriterInv(c, d)' ELSE DocAgrees(d)'
  PROVE  DocInv(d)'
<1> SUFFICES ASSUME d \notin contested'
             PROVE  /\ \A u, v \in FsWorkers : WritesDoc(fw'[u], d) /\ WritesDoc(fw'[v], d) => u = v
                    /\ \A v \in FsWorkers : WritesDoc(fw'[v], d) => DocWriterInv(fw[v], d)'
                    /\ (\A v \in FsWorkers : ~WritesDoc(fw'[v], d)) => DocAgrees(d)'
                    /\ \A v \in FsWorkers : ReliesOn(fw'[v], d) =>
                         Lists(fw[v], d)' /\ \A u \in FsWorkers : ~WritesDoc(fw'[u], d)
  BY DEF DocInv, WritesDoc, ReliesOn
<1>1. fw'[w] = c /\ d \notin contested
  BY DEF FsGoesOn
<1>2. \A v \in FsWorkers : v # w => ~WritesDoc(fw[v], d)
  BY <1>1 DEF DocInv
<1>3. \A v \in FsWorkers : v # w => ~WritesDoc(fw'[v], d)
  BY <1>2, FsOthersWrite
<1>4. \A v \in FsWorkers : ~ReliesOn(fw[v], d)
  BY <1>1 DEF DocInv
<1>5. \A v \in FsWorkers : ~ReliesOn(fw'[v], d)
  BY <1>1, <1>4, FsOthersWrite
<1>6. CASE WritesDoc(c, d)
  <2>1. DocWriterInv(c, d)'
    BY <1>1, <1>6
  <2>2. \A v \in FsWorkers : WritesDoc(fw'[v], d) => v = w
    BY <1>3
  <2>3. DocWriterInv(fw[w], d)'
    BY <1>1, <2>1
  <2>4. WritesDoc(fw'[w], d)
    BY <1>1, <1>6
  <2> QED
    BY <1>5, <2>2, <2>3, <2>4
<1>7. CASE ~WritesDoc(c, d)
  <2>1. DocAgrees(d)'
    BY <1>1, <1>7
  <2>2. \A v \in FsWorkers : ~WritesDoc(fw'[v], d)
    BY <1>1, <1>3, <1>7
  <2> QED
    BY <1>5, <2>1, <2>2
<1> QED
  BY <1>6, <1>7

(* Types and objects are kept. *)
LEMMA FsTypeStep ==
  ASSUME FsTypeInv, NEW w \in FsWorkers, NEW c, FsGoesOn(w, c), FsCallInv(c),
         DOMAIN docs' \subseteq FsDocs, \A d \in DOMAIN docs' : docs'[d] \in DOMAIN heap',
         DOMAIN serial' \subseteq FsDocs, \A d \in DOMAIN serial' : IsFields(serial'[d]),
         contested' \subseteq FsDocs
  PROVE  FsTypeInv'
<1>1. ASSUME NEW v \in FsWorkers PROVE FsCallInv(fw'[v])
  <2>1. CASE v = w
    BY <2>1 DEF FsGoesOn
  <2>2. CASE v # w
    <3>1. PICK d, e : d = fw[v] /\ e = fw'[v]
      OBVIOUS
    <3>2. FsLike(e, d) /\ FsCallInv(d)
      BY <2>2, <3>1 DEF FsGoesOn, FsTypeInv
    <3>3. /\ e = [pc |-> d.pc, left |-> d.left, write |-> d.write, obj |-> d.obj,
                  paths |-> d.paths, todo |-> d.todo, listed |-> d.listed, quiet |-> e.quiet,
                  next |-> d.next, size |-> d.size, rebuilt |-> e.rebuilt]
          /\ e.quiet \subseteq d.quiet /\ e.rebuilt \in BOOLEAN
      BY <3>2 DEF FsLike
    <3>4. /\ e.pc = d.pc /\ e.left = d.left /\ e.write = d.write /\ e.obj = d.obj
          /\ e.paths = d.paths /\ e.todo = d.todo /\ e.listed = d.listed
          /\ e.next = d.next /\ e.size = d.size
      BY <3>3
    <3>5. FsCallInv(e)
      BY <3>2, <3>3, <3>4 DEF FsCallInv
    <3> QED
      BY <3>1, <3>5
  <2> QED
    BY <2>1, <2>2
<1>2. \A v \in FsWorkers : FsCallInv(fw[v])'
  BY <1>1 DEF FsCallInv
<1>3. \A d \in DOMAIN serial' : IsFields(serial[d])'
  BY DEF IsFields
<1> QED
  BY <1>2, <1>3 DEF FsTypeInv, FsGoesOn

LEMMA ObjectsStep ==
  ASSUME ObjectsInv, NEW w \in FsWorkers, NEW c, FsGoesOn(w, c),
         \A d \in DOMAIN docs' : d \in DOMAIN docs /\ docs'[d] = docs[d],
         \A d \in DOMAIN docs' : c.pc = "path" /\ c.obj = docs'[d] => c.write.doc = d
  PROVE  ObjectsInv'
<1>1. \A d, e \in DOMAIN docs' : docs'[d] = docs'[e] => d = e
  BY DEF ObjectsInv
<1>2. ASSUME NEW v \in FsWorkers, NEW d \in DOMAIN docs', fw'[v].pc = "path", fw'[v].obj = docs'[d]
      PROVE  fw'[v].write.doc = d
  <2>1. CASE v = w
    BY <1>2, <2>1 DEF FsGoesOn
  <2>2. CASE v # w
    BY <1>2, <2>2, FsOthersStay DEF ObjectsInv
  <2> QED
    BY <2>1, <2>2
<1> QED
  BY <1>1, <1>2 DEF ObjectsInv

(* A new object takes the place of what stands under key. *)
LEMMA NewObjectStep ==
  ASSUME FsTypeInv, ObjectsInv, NEW w \in FsWorkers, NEW c, FsGoesOn(w, c), NEW key,
         docs' = FsWith(docs, key, FsNew), FsObjects \ FsRefs # {},
         c.pc = "path" => c.obj = FsNew /\ c.write.doc = key
  PROVE  ObjectsInv'
<1>1. PICK o : o = FsNew
  OBVIOUS
<1>2. /\ \A d \in DOMAIN docs : docs[d] # o
      /\ \A v \in FsWorkers : fw[v].obj # o
  BY <1>1, NewIsNew DEF FsRefs
<1>3. /\ DOMAIN docs' = DOMAIN docs \union {key} /\ docs'[key] = o
      /\ \A d \in DOMAIN docs : d # key => docs'[d] = docs[d]
  BY <1>1 DEF FsWith
<1>4. \A d, e \in DOMAIN docs' : docs'[d] = docs'[e] => d = e
  BY <1>2, <1>3 DEF ObjectsInv
<1>5. ASSUME NEW v \in FsWorkers, NEW d \in DOMAIN docs', fw'[v].pc = "path", fw'[v].obj = docs'[d]
      PROVE  fw'[v].write.doc = d
  <2>1. CASE v = w
    <3>1. c.obj = o /\ c.write.doc = key /\ fw'[w] = c
      BY <1>1, <1>5, <2>1 DEF FsGoesOn
    <3> QED
      BY <1>2, <1>3, <1>5, <2>1, <3>1
  <2>2. CASE v # w
    <3>1. fw[v].pc = "path" /\ fw[v].obj = docs'[d] /\ fw'[v].write.doc = fw[v].write.doc
      BY <1>5, <2>2, FsOthersStay
    <3>2. d # key /\ d \in DOMAIN docs /\ docs'[d] = docs[d]
      BY <1>2, <1>3, <3>1
    <3> QED
      BY <3>1, <3>2 DEF ObjectsInv
  <2> QED
    BY <2>1, <2>2
<1> QED
  BY <1>4, <1>5 DEF ObjectsInv

------------------------------------------------------------------------------
(* Firestore: the invariant holds at first and stays *)

LEMMA FsIdleCall == FsCallInv(FsIdle) /\ FsIdle.pc = "idle" /\ FsIdle.todo = {}
BY DEF FsIdle, FsCallInv, FsPlaces, FsResting

LEMMA FsIdleRests == \A d : ~WritesDoc(FsIdle, d) /\ ~ReliesOn(FsIdle, d)
BY FsIdleCall DEF WritesDoc, ReliesOn

LEMMA FsInitInv == FirestoreInit => FsInv
<1> SUFFICES ASSUME FirestoreInit PROVE FsInv
  OBVIOUS
<1>1. /\ DOMAIN docs = {} /\ DOMAIN serial = {} /\ contested = {}
      /\ DOMAIN place = {} /\ used = 0
      /\ DOMAIN fw = FsWorkers /\ \A w \in FsWorkers : fw[w] = FsIdle
  BY DEF FirestoreInit, FsNone
<1>2. FsTypeInv
  BY <1>1, FsIdleCall DEF FsTypeInv
<1>3. ObjectsInv /\ PlaceInv
  BY <1>1 DEF ObjectsInv, PlaceInv
<1>4. ASSUME NEW d \in FsDocs PROVE DocInv(d)
  <2>1. \A w \in FsWorkers : ~WritesDoc(fw[w], d) /\ ~ReliesOn(fw[w], d)
    BY <1>1, FsIdleRests
  <2>2. DocAgrees(d)
    BY <1>1 DEF DocAgrees
  <2> QED
    BY <2>1, <2>2 DEF DocInv
<1> QED
  BY <1>2, <1>3, <1>4 DEF FsInv

(* Objects somebody refers to are kept as they are in h. *)
LEMMA RefsKept ==
  ASSUME NEW h, FsKeep(h), NEW d \in DOMAIN docs', docs'[d] \in DOMAIN h
  PROVE  docs'[d] \in DOMAIN heap' /\ heap'[docs'[d]] = h[docs'[d]]
<1>1. docs'[d] \in FsRefs'
  BY DEF FsRefs
<1>2. heap' = [o \in DOMAIN h \intersect FsRefs' |-> h[o]]
  BY DEF FsKeep
<1> QED
  BY <1>1, <1>2

(* A worker goes on; documents stay. *)
LEMMA FsQuietInv ==
  ASSUME FsInv, NEW w \in FsWorkers, NEW c, fw' = [fw EXCEPT ![w] = c], FsCallInv(c),
         UNCHANGED <<fsDict, serial, contested>>,
         \A d \in DOMAIN docs : docs[d] \in DOMAIN heap' /\ heap'[docs[d]] = heap[docs[d]],
         \A d \in DOMAIN docs : c.pc = "path" /\ c.obj = docs[d] => c.write.doc = d,
         \A d \in FsDocs \ contested : WritesDoc(fw[w], d) =>
           ~ReliesOn(c, d) /\ IF WritesDoc(c, d) THEN DocWriterInv(c, d) ELSE DocAgrees(d),
         \A d \in FsDocs \ contested : ~WritesDoc(fw[w], d) =>
           /\ ~WritesDoc(c, d)
           /\ ReliesOn(c, d) => Lists(c, d) /\ \A v \in FsWorkers : ~WritesDoc(fw[v], d)
  PROVE  FsInv'
<1> USE DEF fsDict
<1>1. FsGoesOn(w, c)
  BY FsExceptGoesOn DEF FsInv
<1>2. FsTypeInv'
  <2>1. /\ DOMAIN docs' \subseteq FsDocs /\ \A d \in DOMAIN docs' : docs'[d] \in DOMAIN heap'
        /\ DOMAIN serial' \subseteq FsDocs /\ contested' \subseteq FsDocs
    BY DEF FsInv, FsTypeInv
  <2>2. \A d \in DOMAIN serial' : IsFields(serial'[d])
    BY DEF FsInv, FsTypeInv
  <2> QED
    BY <1>1, <2>1, <2>2, FsTypeStep DEF FsInv
<1>3. ObjectsInv'
  <2>1. \A d \in DOMAIN docs' : d \in DOMAIN docs /\ docs'[d] = docs[d]
    OBVIOUS
  <2>2. \A d \in DOMAIN docs' : c.pc = "path" /\ c.obj = docs'[d] => c.write.doc = d
    OBVIOUS
  <2> QED
    BY <1>1, <2>1, <2>2, ObjectsStep DEF FsInv
<1>4. \A d : DocStays(d) /\ PlaceStays(w, d) /\ (Lists(c, d) => Lists(c, d)')
  BY DEF DocStays, PlaceStays, Lists
<1>6. PlaceInv'
  BY DEF FsInv, PlaceInv
<1>5. ASSUME NEW d \in FsDocs PROVE DocInv(d)'
  <2>1. DocInv(d) /\ contested \subseteq contested'
    BY DEF FsInv
  <2>2. CASE d \in contested
    BY <2>2 DEF DocInv
  <2>3. CASE d \notin contested /\ WritesDoc(fw[w], d)
    <3>1. IF WritesDoc(c, d) THEN DocWriterInv(c, d)' ELSE DocAgrees(d)'
      <4>1. IF WritesDoc(c, d) THEN DocWriterInv(c, d) ELSE DocAgrees(d)
        BY <2>3
      <4>2. (DocAgrees(d) => DocAgrees(d)') /\ (DocWriterInv(c, d) => DocWriterInv(c, d)')
        BY <1>4, DocStaysSo, DocStaysWritten
      <4> QED
        BY <4>1, <4>2
    <3> QED
      BY <1>1, <2>1, <2>3, <3>1, DocOwn
  <2>4. CASE d \notin contested /\ ~WritesDoc(fw[w], d)
    BY <1>1, <1>4, <2>1, <2>4, DocAside
  <2> QED
    BY <2>2, <2>3, <2>4
<1> QED
  BY <1>2, <1>3, <1>5, <1>6 DEF FsInv

LEMMA HeapUnchanged ==
  ASSUME FsInv, UNCHANGED heap
  PROVE  \A d \in DOMAIN docs : docs[d] \in DOMAIN heap' /\ heap'[docs[d]] = heap[docs[d]]
BY DEF FsInv, FsTypeInv

LEMMA HeapStays ==
  ASSUME FsInv, FsKeep(heap), UNCHANGED docs
  PROVE  \A d \in DOMAIN docs : docs[d] \in DOMAIN heap' /\ heap'[docs[d]] = heap[docs[d]]
<1>1. PICK h : h = heap
  OBVIOUS
<1>2. FsKeep(h) /\ \A d \in DOMAIN docs' : docs'[d] \in DOMAIN h
  BY <1>1 DEF FsInv, FsTypeInv
<1>3. \A d \in DOMAIN docs' : docs'[d] \in DOMAIN heap' /\ heap'[docs'[d]] = h[docs'[d]]
  BY <1>2, RefsKept
<1> QED
  BY <1>1, <1>3

(* A worker that writes nothing goes on to write and to read nothing. *)
LEMMA FsRestInv ==
  ASSUME FsInv, NEW w \in FsWorkers, NEW c, fw' = [fw EXCEPT ![w] = c], FsCallInv(c),
         UNCHANGED <<fsDict, serial, contested>>,
         \A d \in DOMAIN docs : docs[d] \in DOMAIN heap' /\ heap'[docs[d]] = heap[docs[d]],
         fw[w].pc \in FsResting \union {"next", "list"}, c.pc \in FsResting \union {"next"}
  PROVE  FsInv'
<1>1. \A d : ~WritesDoc(fw[w], d) /\ ~WritesDoc(c, d) /\ ~ReliesOn(c, d)
  BY DEF WritesDoc, ReliesOn, FsResting
<1>2. c.pc # "path"
  BY DEF FsResting
<1> QED
  BY <1>1, <1>2, FsQuietInv

LEMMA FsNextCall ==
  ASSUME NEW n
  PROVE  LET c == [FsIdle EXCEPT !.pc = "next", !.left = n]
         IN FsCallInv(c) /\ c.pc = "next"
<1>1. PICK c : c = [FsIdle EXCEPT !.pc = "next", !.left = n]
  OBVIOUS
<1>2. c = [pc |-> "next", left |-> n, write |-> FsGone, obj |-> FsGone, paths |-> {},
           todo |-> {}, listed |-> {}, quiet |-> {}, next |-> 0, size |-> 0, rebuilt |-> FALSE]
  BY <1>1 DEF FsIdle
<1>3. FsCallInv(c) /\ c.pc = "next"
  BY <1>2 DEF FsCallInv, FsPlaces
<1> QED
  BY <1>1, <1>3

LEMMA FsEndCall ==
  ASSUME NEW w
  PROVE  FsCallInv(FsEnd(w)) /\ FsEnd(w).pc \in {"idle", "next"}
BY FsIdleCall, FsNextCall DEF FsEnd

LEMMA FsCommitPreserves ==
  ASSUME FsInv, NEW w \in FsWorkers, FsCommit(w)
  PROVE  FsInv'
<1>1. PICK n : FsBegin(w, [FsIdle EXCEPT !.pc = "next", !.left = n])
  BY DEF FsCommit
<1>2. PICK c : c = [FsIdle EXCEPT !.pc = "next", !.left = n]
  OBVIOUS
<1>3. FsCallInv(c) /\ c.pc = "next" /\ fw' = [fw EXCEPT ![w] = c]
  BY <1>1, <1>2, FsNextCall DEF FsBegin
<1>4. fw[w].pc \in FsResting /\ UNCHANGED <<fsDict, heap, serial, contested>>
  BY <1>1 DEF FsBegin, FsResting, fsGhosts
<1> QED
  BY <1>3, <1>4, HeapUnchanged, FsRestInv

LEMMA FsAbortPreserves ==
  ASSUME FsInv, NEW w \in FsWorkers, NEW wr, FsAbort(w, wr)
  PROVE  FsInv'
<1>1. /\ fw[w].pc = "next" /\ UNCHANGED <<fsDict, heap, serial, contested>>
      /\ fw' = [fw EXCEPT ![w] = FsIdle]
  BY DEF FsAbort, fsGhosts
<1>2. FsIdle.pc \in FsResting
  BY FsIdleCall DEF FsResting
<1> QED
  BY <1>1, <1>2, FsIdleCall, HeapUnchanged, FsRestInv

LEMMA FsListFailsPreserves ==
  ASSUME FsInv, NEW w \in FsWorkers, FsListFails(w)
  PROVE  FsInv'
<1>1. /\ fw[w].pc = "list" /\ UNCHANGED <<fsDict, serial, contested>>
      /\ fw' = [fw EXCEPT ![w] = FsIdle] /\ FsKeep(heap) /\ UNCHANGED docs
  BY DEF FsListFails, fsGhosts, fsDict
<1>2. FsIdle.pc \in FsResting
  BY FsIdleCall DEF FsResting
<1> QED
  BY <1>1, <1>2, FsIdleCall, HeapStays, FsRestInv

LEMMA FsLostPreserves ==
  ASSUME FsInv, NEW w \in FsWorkers, FsLost(w)
  PROVE  FsInv'
<1>1. /\ fw[w].pc \in FsResting /\ UNCHANGED <<fsDict, heap, serial, contested>>
      /\ fw' = [fw EXCEPT ![w] = FsIdle]
  BY DEF FsLost, fsGhosts, FsResting
<1>2. FsIdle.pc \in FsResting
  BY FsIdleCall DEF FsResting
<1> QED
  BY <1>1, <1>2, FsIdleCall, HeapUnchanged, FsRestInv

LEMMA FsCheckPreserves ==
  ASSUME FsInv, NEW w \in FsWorkers, NEW wr \in FsWrites, FsCheck(w, wr)
  PROVE  FsInv'
<1>1. PICK b, c, key : /\ b = fw[w] /\ key = wr.doc
                       /\ c = [b EXCEPT !.pc = "apply", !.write = wr, !.left = @ - 1]
  OBVIOUS
<1>2. /\ b.pc = "next" /\ FsCallInv(b) /\ key \in FsDocs /\ Allowed(wr.kind, key \in DOMAIN docs)
      /\ UNCHANGED <<docs, place, used, heap, serial>>
  BY <1>1 DEF FsCheck, FsInv, FsTypeInv, FsWrites, fsDict
<1>3. /\ DOMAIN fw' = FsWorkers /\ fw'[w] = c
      /\ \A v \in FsWorkers : v # w => fw'[v] = [fw[v] EXCEPT !.quiet = fw[v].quiet \ {key}]
  BY <1>1 DEF FsCheck
<1>4. PICK n : n = b.left - 1
  OBVIOUS
<1>5. c = [pc |-> "apply", left |-> n, write |-> wr, obj |-> b.obj, paths |-> b.paths,
           todo |-> b.todo, listed |-> b.listed, quiet |-> b.quiet, next |-> b.next,
           size |-> b.size, rebuilt |-> b.rebuilt]
  BY <1>1, <1>2, <1>4 DEF FsCallInv
<1>6. /\ c.pc = "apply" /\ c.write = wr /\ c.todo = b.todo /\ c.quiet = b.quiet
      /\ c.next = b.next /\ c.size = b.size /\ c.rebuilt = b.rebuilt
  BY <1>5
<1>7. FsCallInv(c)
  BY <1>2, <1>5, <1>6 DEF FsCallInv, FsPlaces
<1>8. ASSUME NEW v \in FsWorkers, v # w PROVE FsLike(fw'[v], fw[v]) /\ key \notin fw'[v].quiet
  <2>1. PICK d, e : d = fw[v] /\ e = [d EXCEPT !.quiet = d.quiet \ {key}]
    OBVIOUS
  <2>2. fw'[v] = e /\ FsCallInv(d)
    BY <1>3, <1>8, <2>1 DEF FsInv, FsTypeInv
  <2>3. e = [pc |-> d.pc, left |-> d.left, write |-> d.write, obj |-> d.obj, paths |-> d.paths,
             todo |-> d.todo, listed |-> d.listed, quiet |-> d.quiet \ {key},
             next |-> d.next, size |-> d.size, rebuilt |-> d.rebuilt]
    BY <2>1, <2>2 DEF FsCallInv
  <2>4. e.quiet = d.quiet \ {key} /\ e.rebuilt = d.rebuilt /\ d.rebuilt \in BOOLEAN
    BY <2>2, <2>3 DEF FsCallInv
  <2>5. FsLike(e, d)
    BY <2>3, <2>4 DEF FsLike
  <2> QED
    BY <2>1, <2>2, <2>4, <2>5
<1>9. FsGoesOn(w, c)
  BY <1>3, <1>8 DEF FsGoesOn
<1>10. contested' = contested \union {d \in {key} : FsWriters(d) # {}}
  BY <1>1 DEF FsCheck
<1>11. FsTypeInv'
  <2>1. /\ DOMAIN docs' \subseteq FsDocs /\ \A d \in DOMAIN docs' : docs'[d] \in DOMAIN heap'
        /\ DOMAIN serial' \subseteq FsDocs /\ \A d \in DOMAIN serial' : IsFields(serial'[d])
    BY <1>2 DEF FsInv, FsTypeInv
  <2>2. contested' \subseteq FsDocs
    BY <1>2, <1>10 DEF FsInv, FsTypeInv
  <2> QED
    BY <1>7, <1>9, <2>1, <2>2, FsTypeStep DEF FsInv
<1>12. ObjectsInv'
  <2>1. \A d \in DOMAIN docs' : d \in DOMAIN docs /\ docs'[d] = docs[d]
    BY <1>2
  <2> QED
    BY <1>6, <1>9, <2>1, ObjectsStep DEF FsInv
<1>13. \A d : DocStays(d) /\ PlaceStays(w, d)
  BY <1>2 DEF DocStays, PlaceStays
<1>17. PlaceInv'
  BY <1>2 DEF FsInv, PlaceInv
<1>14. \A d : ~WritesDoc(fw[w], d) /\ ~ReliesOn(c, d)
  BY <1>1, <1>2, <1>6 DEF WritesDoc, ReliesOn
<1>15. ASSUME NEW d \in FsDocs, d # key PROVE DocInv(d)'
  <2>1. DocInv(d) /\ contested \subseteq contested'
    BY <1>10 DEF FsInv
  <2>2. ~WritesDoc(c, d)
    BY <1>1, <1>6, <1>15 DEF WritesDoc
  <2> QED
    BY <1>9, <1>13, <1>14, <2>1, <2>2, DocAside
<1>16. DocInv(key)'
  <2> SUFFICES ASSUME key \notin contested'
               PROVE  /\ \A u, v \in FsWorkers :
                           WritesDoc(fw'[u], key) /\ WritesDoc(fw'[v], key) => u = v
                      /\ \A v \in FsWorkers : WritesDoc(fw'[v], key) => DocWriterInv(fw[v], key)'
                      /\ (\A v \in FsWorkers : ~WritesDoc(fw'[v], key)) => DocAgrees(key)'
                      /\ \A v \in FsWorkers : ReliesOn(fw'[v], key) =>
                           Lists(fw[v], key)' /\ \A u \in FsWorkers : ~WritesDoc(fw'[u], key)
    BY DEF DocInv, WritesDoc, ReliesOn
  <2>1. key \notin contested /\ \A v \in FsWorkers : ~WritesDoc(fw[v], key)
    BY <1>10 DEF FsWriters, FsWriting, WritesDoc
  <2>2. DocAgrees(key)
    BY <1>2, <2>1 DEF FsInv, DocInv
  <2>3. DocAgrees(key)' /\ Allowed(wr.kind, key \in DOMAIN docs')
    BY <1>2, <1>13, <2>2, DocStaysSo
  <2>4. \A v \in FsWorkers : v # w => ~WritesDoc(fw'[v], key)
    BY <1>9, <2>1, FsOthersWrite
  <2>5. DocWriterInv(fw[w], key)'
    BY <1>3, <1>6, <2>3 DEF DocWriterInv
  <2>6. \A v \in FsWorkers : ~ReliesOn(fw'[v], key)
    BY <1>3, <1>8, <1>14 DEF ReliesOn
  <2> QED
    BY <2>3, <2>4, <2>5, <2>6
<1> QED
  BY <1>2, <1>11, <1>12, <1>15, <1>16, <1>17 DEF FsInv

LEMMA FsReadPreserves ==
  ASSUME FsInv, NEW w \in FsWorkers, FsRead(w)
  PROVE  FsInv'
<1>1. PICK n, c : /\ n = Cardinality(DOMAIN docs)
                  /\ c = [FsIdle EXCEPT !.pc = "list", !.quiet = FsCalm, !.next = 1, !.size = n,
                                        !.left = n]
  OBVIOUS
<1>2. /\ fw[w].pc \in {"idle", "ready"} /\ UNCHANGED <<fsDict, heap, serial, contested>>
      /\ fw' = [fw EXCEPT ![w] = c]
  BY <1>1 DEF FsRead, FsBegin, fsGhosts
<1>3. c = [pc |-> "list", left |-> n, write |-> FsGone, obj |-> FsGone, paths |-> {},
           todo |-> {}, listed |-> {}, quiet |-> FsCalm, next |-> 1, size |-> n,
           rebuilt |-> FALSE]
  BY <1>1 DEF FsIdle
<1>4. /\ c.pc = "list" /\ c.quiet = FsCalm /\ c.next = 1 /\ c.todo = {} /\ c.listed = {}
      /\ FsCallInv(c)
  BY <1>3 DEF FsCallInv, FsPlaces, FsCalm
<1>5. \A d : ~WritesDoc(fw[w], d) /\ ~WritesDoc(c, d)
  BY <1>2, <1>4 DEF WritesDoc
<1>6. \A d : ReliesOn(c, d) => \A v \in FsWorkers : ~WritesDoc(fw[v], d)
  BY <1>4 DEF ReliesOn, FsCalm, FsWriters, FsWriting, WritesDoc
<1>7. \A d : Lists(c, d)
  <2>1. \A d \in DOMAIN docs : place[d] >= 1
    BY DEF FsInv, PlaceInv
  <2> QED
    BY <1>4, <2>1 DEF Lists
<1> QED
  BY <1>2, <1>4, <1>5, <1>6, <1>7, HeapUnchanged, FsQuietInv

(* A reader that goes on as c relies on no more documents than before. *)
LEMMA FsReadsOn ==
  ASSUME FsInv, NEW w \in FsWorkers, NEW c, fw' = [fw EXCEPT ![w] = c], FsCallInv(c),
         UNCHANGED <<fsDict, serial, contested>>,
         \A d \in DOMAIN docs : docs[d] \in DOMAIN heap' /\ heap'[docs[d]] = heap[docs[d]],
         fw[w].pc \in {"list", "emit"}, c.pc \in {"list", "emit"}, c.quiet = fw[w].quiet,
         \A d : Lists(fw[w], d) => Lists(c, d)
  PROVE  FsInv'
<1>1. \A d : ~WritesDoc(fw[w], d) /\ ~WritesDoc(c, d) /\ (ReliesOn(c, d) => ReliesOn(fw[w], d))
  BY DEF WritesDoc, ReliesOn
<1>2. \A d \in FsDocs \ contested :
        ReliesOn(fw[w], d) => Lists(fw[w], d) /\ \A v \in FsWorkers : ~WritesDoc(fw[v], d)
  BY DEF FsInv, DocInv
<1>3. \A d \in FsDocs \ contested :
        ReliesOn(c, d) => Lists(c, d) /\ \A v \in FsWorkers : ~WritesDoc(fw[v], d)
  BY <1>1, <1>2
<1>4. c.pc # "path" /\ (\A d : ~WritesDoc(fw[w], d)) /\ (\A d : ~WritesDoc(c, d))
  BY <1>1
<1> QED
  BY <1>3, <1>4, FsQuietInv

LEMMA FsNextPreserves ==
  ASSUME FsInv, NEW w \in FsWorkers, FsNext(w)
  PROVE  FsInv'
<1>1. PICK b : b = fw[w]
  OBVIOUS
<1>2. b.pc = "list" /\ FsCallInv(b) /\ UNCHANGED <<fsDict, heap, serial, contested>>
  BY <1>1 DEF FsNext, FsInv, FsTypeInv, fsGhosts
<1>3. PICK key \in FsAhead(w) :
        /\ \A e \in FsAhead(w) : place[key] <= place[e]
        /\ fw' = [fw EXCEPT ![w].next = place[key] + 1, ![w].left = @ - 1,
                            ![w].todo = @ \union {<<key, docs[key]>>},
                            ![w].listed = @ \union {key}]
  BY DEF FsNext
<1>4. PICK n, l, S, L : /\ n = place[key] + 1 /\ l = b.left - 1
                        /\ S = b.todo \union {<<key, docs[key]>>} /\ L = b.listed \union {key}
  OBVIOUS
<1>5. PICK c : c = [b EXCEPT !.next = n, !.left = l, !.todo = S, !.listed = L]
  OBVIOUS
<1>6. fw' = [fw EXCEPT ![w] = c]
  BY <1>1, <1>3, <1>4, <1>5 DEF FsInv, FsTypeInv
<1>7. c = [pc |-> "list", left |-> l, write |-> b.write, obj |-> b.obj, paths |-> b.paths,
           todo |-> S, listed |-> L, quiet |-> b.quiet, next |-> n, size |-> b.size,
           rebuilt |-> b.rebuilt]
  BY <1>2, <1>5 DEF FsCallInv
<1>8. /\ c.pc = "list" /\ c.todo = S /\ c.listed = L /\ c.quiet = b.quiet /\ c.next = n
      /\ c.rebuilt = b.rebuilt
  BY <1>7
<1>9. /\ key \in DOMAIN docs /\ key \in FsDocs /\ \A d \in DOMAIN docs : place[d] \in Nat
      /\ place[key] >= b.next /\ b.next \in Nat
      /\ \A d, e \in DOMAIN docs : place[d] = place[e] => d = e
  BY <1>1, <1>2 DEF FsAhead, FsInv, FsTypeInv, PlaceInv, FsCallInv
<1>10. FsCallInv(c)
  <2>1. n \in Nat
    BY <1>4, <1>9
  <2>2. \A e \in S : e[1] \in FsDocs
    BY <1>2, <1>4, <1>9 DEF FsCallInv
  <2> QED
    BY <1>2, <1>7, <1>8, <2>1, <2>2 DEF FsCallInv, FsPlaces
<1>11. ASSUME NEW d, Lists(b, d) PROVE Lists(c, d)
  <2>1. d \in L => d \in DOMAIN docs
    BY <1>4, <1>9, <1>11 DEF Lists
  <2>2. \A e \in S : e[1] = d => d \in DOMAIN docs /\ e[2] = docs[d]
    BY <1>4, <1>9, <1>11 DEF Lists
  <2>3. ASSUME d \in DOMAIN docs, d \notin L, b.rebuilt # TRUE PROVE place[d] >= n
    <3>1. d # key /\ d \notin b.listed
      BY <1>4, <2>3
    <3>2. place[d] >= b.next
      BY <1>11, <2>3, <3>1 DEF Lists
    <3>3. place[key] <= place[d]
      BY <1>1, <1>3, <2>3, <3>2 DEF FsAhead
    <3>4. place[key] # place[d]
      BY <1>9, <2>3, <3>1
    <3> QED
      BY <1>4, <1>9, <2>3, <3>3, <3>4
  <2> QED
    BY <1>8, <2>1, <2>2, <2>3 DEF Lists
<1>12. /\ fw[w].pc \in {"list", "emit"} /\ c.pc \in {"list", "emit"} /\ c.quiet = fw[w].quiet
       /\ \A d : Lists(fw[w], d) => Lists(c, d)
  BY <1>1, <1>2, <1>8, <1>11
<1> QED
  BY <1>2, <1>6, <1>10, <1>12, HeapUnchanged, FsReadsOn

LEMMA FsThroughPreserves ==
  ASSUME FsInv, NEW w \in FsWorkers, FsThrough(w)
  PROVE  FsInv'
<1>1. PICK b : b = fw[w]
  OBVIOUS
<1>2. /\ b.pc = "list" /\ FsCallInv(b) /\ UNCHANGED <<fsDict, heap, serial, contested>>
      /\ FsAhead(w) = {}
  BY <1>1 DEF FsThrough, FsInv, FsTypeInv, fsGhosts
<1>3. CASE b.todo = {}
  <2>1. fw' = [fw EXCEPT ![w] = FsIdle]
    BY <1>1, <1>3 DEF FsThrough, FsInv, FsTypeInv
  <2>2. FsIdle.pc \in FsResting
    BY FsIdleCall DEF FsResting
  <2> QED
    BY <1>1, <1>2, <2>1, <2>2, FsIdleCall, HeapUnchanged, FsRestInv
<1>4. CASE b.todo # {}
  <2>1. PICK c : c = [b EXCEPT !.pc = "emit", !.left = 0, !.next = 0, !.size = 0]
    OBVIOUS
  <2>2. fw' = [fw EXCEPT ![w] = c]
    BY <1>1, <1>4, <2>1 DEF FsThrough, FsInv, FsTypeInv
  <2>3. c = [pc |-> "emit", left |-> 0, write |-> b.write, obj |-> b.obj,
             paths |-> b.paths, todo |-> b.todo, listed |-> b.listed, quiet |-> b.quiet,
             next |-> 0, size |-> 0, rebuilt |-> b.rebuilt]
    BY <1>2, <2>1 DEF FsCallInv
  <2>4. /\ c.pc = "emit" /\ c.todo = b.todo /\ c.listed = b.listed /\ c.quiet = b.quiet
        /\ c.next = 0 /\ c.rebuilt = b.rebuilt
    BY <2>3
  <2>5. FsCallInv(c)
    BY <1>2, <2>3, <2>4 DEF FsCallInv, FsPlaces
  <2>6. \A d \in DOMAIN docs : ~(place[d] >= b.next)
    BY <1>1, <1>2 DEF FsAhead
  <2>7. \A d : Lists(b, d) => Lists(c, d)
    BY <2>4, <2>6 DEF Lists
  <2>8. /\ fw[w].pc \in {"list", "emit"} /\ c.pc \in {"list", "emit"} /\ c.quiet = fw[w].quiet
        /\ \A d : Lists(fw[w], d) => Lists(c, d)
    BY <1>1, <1>2, <2>4, <2>7
  <2> QED
    BY <1>2, <2>2, <2>5, <2>8, HeapUnchanged, FsReadsOn
<1> QED
  BY <1>3, <1>4

LEMMA FsGetPreserves ==
  ASSUME FsInv, NEW w \in FsWorkers, NEW key \in FsDocs, FsGet(w, key)
  PROVE  FsInv'
<1>1. PICK c, q, S : /\ q = FsCalm \intersect {key} /\ S = {<<key, docs[key]>>}
                     /\ c = [FsIdle EXCEPT !.pc = "emit", !.todo = S, !.listed = {key},
                                           !.quiet = q]
  OBVIOUS
<1>2. /\ fw[w].pc \in {"idle", "ready"} /\ UNCHANGED <<fsDict, heap, serial, contested>>
      /\ fw' = [fw EXCEPT ![w] = c] /\ key \in DOMAIN docs
  BY <1>1 DEF FsGet, FsBegin, fsGhosts
<1>3. c = [pc |-> "emit", left |-> 0, write |-> FsGone, obj |-> FsGone, paths |-> {},
           todo |-> S, listed |-> {key}, quiet |-> q, next |-> 0, size |-> 0, rebuilt |-> FALSE]
  BY <1>1 DEF FsIdle
<1>4. /\ c.pc = "emit" /\ c.todo = S /\ c.listed = {key} /\ c.quiet = q
      /\ c.next = 0 /\ c.rebuilt = FALSE
  BY <1>3
<1>5. \A e \in S : e[1] = key /\ e[2] = docs[key] /\ e = <<key, docs[key]>>
  BY <1>1
<1>6. FsCallInv(c)
  <2>1. \A e \in c.todo : e[1] \in FsDocs
    BY <1>4, <1>5
  <2>2. c.quiet \subseteq FsDocs /\ c.next \in Nat /\ c.pc \in FsPlaces
    BY <1>1, <1>4 DEF FsPlaces
  <2>3. c.rebuilt \in BOOLEAN
    BY <1>4
  <2>4. c = [pc |-> c.pc, left |-> c.left, write |-> c.write, obj |-> c.obj, paths |-> c.paths,
             todo |-> c.todo, listed |-> c.listed, quiet |-> c.quiet, next |-> c.next,
             size |-> c.size, rebuilt |-> c.rebuilt]
    BY <1>3
  <2> QED
    BY <1>4, <2>1, <2>2, <2>3, <2>4 DEF FsCallInv
<1>7. \A d : ~WritesDoc(fw[w], d) /\ ~WritesDoc(c, d)
  BY <1>2, <1>4 DEF WritesDoc
<1>8. \A d : ReliesOn(c, d) => Lists(c, d) /\ \A v \in FsWorkers : ~WritesDoc(fw[v], d)
  BY <1>1, <1>2, <1>4, <1>5
     DEF ReliesOn, Lists, FsCalm, FsWriters, FsWriting, WritesDoc
<1> QED
  BY <1>2, <1>4, <1>6, <1>7, <1>8, HeapUnchanged, FsQuietInv

LEMMA FsEmitPreserves ==
  ASSUME FsInv, NEW w \in FsWorkers, NEW e \in fw[w].todo, FsEmit(w, e)
  PROVE  FsInv'
<1>1. PICK b : b = fw[w]
  OBVIOUS
<1>2. /\ b.pc = "emit" /\ FsCallInv(b) /\ UNCHANGED <<fsDict, serial, contested>>
      /\ FsKeep(heap) /\ docs' = docs
  BY <1>1 DEF FsEmit, FsInv, FsTypeInv, fsDict, fsGhosts
<1>3. \A d \in DOMAIN docs : docs[d] \in DOMAIN heap' /\ heap'[docs[d]] = heap[docs[d]]
  BY <1>2, HeapStays
<1>4. CASE b.todo = {e}
  <2>1. fw' = [fw EXCEPT ![w] = FsIdle]
    BY <1>1, <1>4 DEF FsEmit, FsInv, FsTypeInv
  <2>2. \A d : ~WritesDoc(fw[w], d) /\ ~WritesDoc(FsIdle, d) /\ ~ReliesOn(FsIdle, d)
    BY <1>1, <1>2, FsIdleRests DEF WritesDoc
  <2> QED
    BY <1>2, <1>3, <2>1, <2>2, FsIdleCall, FsQuietInv
<1>5. CASE b.todo # {e}
  <2>1. PICK c : c = [b EXCEPT !.todo = b.todo \ {e}]
    OBVIOUS
  <2>2. fw' = [fw EXCEPT ![w] = c]
    BY <1>1, <1>5, <2>1 DEF FsEmit, FsInv, FsTypeInv
  <2>3. c = [pc |-> "emit", left |-> b.left, write |-> b.write, obj |-> b.obj,
             paths |-> b.paths, todo |-> b.todo \ {e}, listed |-> b.listed, quiet |-> b.quiet,
             next |-> b.next, size |-> b.size, rebuilt |-> b.rebuilt]
    BY <1>2, <2>1 DEF FsCallInv
  <2>4. /\ c.pc = "emit" /\ c.todo = b.todo \ {e} /\ c.listed = b.listed /\ c.quiet = b.quiet
        /\ c.next = b.next /\ c.rebuilt = b.rebuilt
    BY <2>3
  <2>5. FsCallInv(c)
    BY <1>2, <2>3, <2>4 DEF FsCallInv, FsPlaces
  <2>6. \A d : Lists(b, d) => Lists(c, d)
    BY <1>2, <2>4 DEF Lists
  <2>7. /\ fw[w].pc \in {"list", "emit"} /\ c.pc \in {"list", "emit"} /\ c.quiet = fw[w].quiet
        /\ \A d : Lists(fw[w], d) => Lists(c, d)
    BY <1>1, <1>2, <2>4, <2>6
  <2> QED
    BY <1>2, <1>3, <2>2, <2>5, <2>7, FsReadsOn
<1> QED
  BY <1>4, <1>5

(* A worker takes a step of the write to key: no other document changes. *)
LEMMA FsWriteInv ==
  ASSUME FsInv, NEW w \in FsWorkers, NEW key \in FsDocs, WritesDoc(fw[w], key),
         NEW c, FsGoesOn(w, c), FsCallInv(c),
         \A d : ~ReliesOn(c, d), \A d : WritesDoc(c, d) => d = key,
         UNCHANGED contested, ObjectsInv', PlaceInv',
         DOMAIN docs' \subseteq FsDocs, \A d \in DOMAIN docs' : docs'[d] \in DOMAIN heap',
         DOMAIN serial' \subseteq FsDocs, \A d \in DOMAIN serial' : IsFields(serial'[d]),
         \A d \in FsDocs : d # key => DocStays(d) /\ PlaceStays(w, d),
         key \notin contested =>
           IF WritesDoc(c, key) THEN DocWriterInv(c, key)' ELSE DocAgrees(key)'
  PROVE  FsInv'
<1>1. FsTypeInv'
  <2>1. contested' \subseteq FsDocs
    BY DEF FsInv, FsTypeInv
  <2> QED
    BY <2>1, FsTypeStep DEF FsInv
<1>2. ASSUME NEW d \in FsDocs PROVE DocInv(d)'
  <2>1. DocInv(d) /\ contested \subseteq contested'
    BY DEF FsInv
  <2>2. CASE d = key
    BY <2>1, <2>2, DocOwn
  <2>3. CASE d # key
    <3>1. /\ DocStays(d) /\ PlaceStays(w, d)
          /\ ~WritesDoc(fw[w], d) /\ ~WritesDoc(c, d) /\ ~ReliesOn(c, d)
      BY <2>3 DEF WritesDoc
    <3> QED
      BY <2>1, <3>1, DocAside
  <2> QED
    BY <2>2, <2>3
<1> QED
  BY <1>1, <1>2 DEF FsInv

(* What the ghost has once a write has taken effect *)
LEMMA WrittenSo ==
  ASSUME FsInv, NEW w \in FsWorkers, NEW wr \in FsWrites, wr = fw[w].write, FsWritten(w)
  PROVE  /\ DOMAIN serial' \subseteq FsDocs /\ \A d \in DOMAIN serial' : IsFields(serial'[d])
         /\ \A d : d # wr.doc =>
              /\ d \in DOMAIN serial' <=> d \in DOMAIN serial
              /\ d \in DOMAIN serial => serial'[d] = serial[d]
         /\ wr.kind = "delete" => wr.doc \notin DOMAIN serial'
         /\ wr.kind \in {"set", "create"} =>
              wr.doc \in DOMAIN serial' /\ serial'[wr.doc] = FsPresent(wr.upd)
         /\ wr.kind \in {"merge", "update"} =>
              wr.doc \in DOMAIN serial' /\ serial'[wr.doc] = FsOverlay(Base(wr.doc), wr.upd)
<1>1. PICK key : key = wr.doc
  OBVIOUS
<1>2. /\ wr.kind \in FsKinds /\ key \in FsDocs /\ DOMAIN serial \subseteq FsDocs
      /\ \A d \in DOMAIN serial : IsFields(serial[d])
  BY <1>1 DEF FsWrites, FsInv, FsTypeInv
<1>3. CASE wr.kind = "delete"
  <2>1. serial' = FsDrop(serial, key)
    BY <1>1, <1>3 DEF FsWritten
  <2>2. DOMAIN serial' = DOMAIN serial \ {key} /\ \A d \in DOMAIN serial' : serial'[d] = serial[d]
    BY <2>1 DEF FsDrop
  <2> QED
    BY <1>1, <1>2, <1>3, <2>2
<1>4. ASSUME NEW x, IsFields(x), serial' = FsWith(serial, key, x)
      PROVE  /\ DOMAIN serial' \subseteq FsDocs /\ \A d \in DOMAIN serial' : IsFields(serial'[d])
             /\ \A d : d # wr.doc =>
                  /\ d \in DOMAIN serial' <=> d \in DOMAIN serial
                  /\ d \in DOMAIN serial => serial'[d] = serial[d]
             /\ wr.doc \in DOMAIN serial' /\ serial'[wr.doc] = x
  <2>1. /\ DOMAIN serial' = DOMAIN serial \union {key} /\ serial'[key] = x
        /\ \A d \in DOMAIN serial : d # key => serial'[d] = serial[d]
    BY <1>4 DEF FsWith
  <2>2. ASSUME NEW d \in DOMAIN serial' PROVE IsFields(serial'[d])
    BY <1>2, <1>4, <2>1
  <2> QED
    BY <1>1, <1>2, <2>1, <2>2
<1>5. CASE wr.kind \in {"set", "create"}
  <2>1. serial' = FsWith(serial, key, FsPresent(wr.upd))
    BY <1>1, <1>5 DEF FsWritten
  <2>2. IsFields(FsPresent(wr.upd))
    BY DEF IsFields, FsPresent
  <2> QED
    BY <1>4, <1>5, <2>1, <2>2
<1>6. CASE wr.kind \in {"merge", "update"}
  <2>1. serial' = FsWith(serial, key, FsOverlay(Base(key), wr.upd))
    BY <1>1, <1>6 DEF FsWritten, Base
  <2>2. IsFields(FsOverlay(Base(key), wr.upd))
    BY DEF IsFields, FsOverlay
  <2> QED
    BY <1>1, <1>4, <1>6, <2>1, <2>2
<1> QED
  BY <1>2, <1>3, <1>5, <1>6 DEF FsKinds

(* What a step of a worker that writes starts from *)
LEMMA FsAtWrite ==
  ASSUME FsInv, NEW w \in FsWorkers, fw[w].pc \in {"apply", "insert", "path"}
  PROVE  /\ fw[w].write \in FsWrites /\ fw[w].write.doc \in FsDocs
         /\ WritesDoc(fw[w], fw[w].write.doc) /\ FsCallInv(fw[w])
BY DEF FsInv, FsTypeInv, FsCallInv, FsWrites, WritesDoc

LEMMA FsPutPreserves ==
  ASSUME FsInv, NEW w \in FsWorkers, FsPut(w)
  PROVE  FsInv'
<1>1. PICK wr, key, o, c : wr = fw[w].write /\ key = wr.doc /\ o = FsNew /\ c = FsEnd(w)
  OBVIOUS
<1>2. PICK h : h = FsWith(heap, o, FsPresent(wr.upd))
  OBVIOUS
<1>16. /\ fw[w].pc = "apply" /\ wr.kind \in {"set", "create"} /\ FsFile(w, c, key, o)
       /\ FsKeep(h) /\ FsWritten(w) /\ UNCHANGED contested /\ FsObjects \ FsRefs # {}
  BY <1>1, <1>2 DEF FsPut
<1>4. wr \in FsWrites /\ key \in FsDocs /\ WritesDoc(fw[w], key)
  BY <1>1, <1>16, FsAtWrite
<1>5. /\ FsGoesOn(w, c) /\ docs' = FsWith(docs, key, o) /\ PlaceInv'
      /\ \A d : d # key => PlaceStays(w, d)
  BY <1>4, <1>16, FsFileGoesOn DEF FsInv
<1>3. /\ fw[w].pc = "apply" /\ wr.kind \in {"set", "create"} /\ docs' = FsWith(docs, key, o)
      /\ FsKeep(h) /\ FsWritten(w) /\ UNCHANGED contested /\ FsObjects \ FsRefs # {}
  BY <1>5, <1>16
<1>6. FsCallInv(c) /\ \A d : ~WritesDoc(c, d) /\ ~ReliesOn(c, d)
  BY <1>1, FsEndCall DEF WritesDoc, ReliesOn
<1>7. ObjectsInv'
  <2>1. c.pc # "path" /\ docs' = FsWith(docs, key, FsNew)
    BY <1>1, <1>3, FsEndCall
  <2> QED
    BY <1>3, <1>5, <2>1, NewObjectStep DEF FsInv
<1>8. \A d \in DOMAIN docs : docs[d] # o /\ docs[d] \in DOMAIN heap
  BY <1>1, <1>3, NewIsNew DEF FsRefs, FsInv, FsTypeInv
<1>9. /\ DOMAIN docs' = DOMAIN docs \union {key} /\ docs'[key] = o
      /\ \A d \in DOMAIN docs : d # key => docs'[d] = docs[d]
  BY <1>3 DEF FsWith
<1>10. /\ DOMAIN h = DOMAIN heap \union {o} /\ h[o] = FsPresent(wr.upd)
       /\ \A x \in DOMAIN heap : x # o => h[x] = heap[x]
  BY <1>2 DEF FsWith
<1>11. \A d \in DOMAIN docs' : docs'[d] \in DOMAIN heap' /\ heap'[docs'[d]] = h[docs'[d]]
  <2>1. \A d \in DOMAIN docs' : docs'[d] \in DOMAIN h
    BY <1>8, <1>9, <1>10
  <2> QED
    BY <1>3, <2>1, RefsKept
<1>12. /\ DOMAIN serial' \subseteq FsDocs /\ \A d \in DOMAIN serial' : IsFields(serial'[d])
       /\ \A d : d # key => /\ d \in DOMAIN serial' <=> d \in DOMAIN serial
                            /\ d \in DOMAIN serial => serial'[d] = serial[d]
       /\ key \in DOMAIN serial' /\ serial'[key] = FsPresent(wr.upd)
  BY <1>1, <1>3, <1>4, WrittenSo
<1>13. DOMAIN docs' \subseteq FsDocs
  BY <1>4, <1>9 DEF FsInv, FsTypeInv
<1>14. ASSUME NEW d \in FsDocs, d # key PROVE DocStays(d) /\ PlaceStays(w, d)
  BY <1>5, <1>8, <1>9, <1>10, <1>11, <1>12, <1>14 DEF DocStays
<1>15. DocAgrees(key)'
  BY <1>9, <1>10, <1>11, <1>12 DEF DocAgrees
<1> QED
  BY <1>3, <1>4, <1>5, <1>6, <1>7, <1>11, <1>12, <1>13, <1>14, <1>15, FsWriteInv

LEMMA FsDeletePreserves ==
  ASSUME FsInv, NEW w \in FsWorkers, FsDelete(w)
  PROVE  FsInv'
<1>1. PICK wr, key, h, c : wr = fw[w].write /\ key = wr.doc /\ h = heap /\ c = FsEnd(w)
  OBVIOUS
<1>2. /\ fw[w].pc = "apply" /\ wr.kind = "delete" /\ docs' = FsDrop(docs, key)
      /\ place' = FsDrop(place, key) /\ used' = used /\ fw' = [fw EXCEPT ![w] = c]
      /\ FsKeep(h) /\ FsWritten(w) /\ UNCHANGED contested
  BY <1>1 DEF FsDelete
<1>3. wr \in FsWrites /\ key \in FsDocs /\ WritesDoc(fw[w], key)
  BY <1>1, <1>2, FsAtWrite
<1>4. FsGoesOn(w, c)
  BY <1>2, FsExceptGoesOn DEF FsInv
<1>5. FsCallInv(c) /\ c.pc # "path" /\ \A d : ~WritesDoc(c, d) /\ ~ReliesOn(c, d)
  BY <1>1, FsEndCall DEF WritesDoc, ReliesOn
<1>6. /\ DOMAIN docs' = DOMAIN docs \ {key}
      /\ \A d \in DOMAIN docs' : d \in DOMAIN docs /\ docs'[d] = docs[d]
  BY <1>2 DEF FsDrop
<1>13. PlaceInv' /\ \A d : d # key => PlaceStays(w, d)
  <2>1. DOMAIN place' = DOMAIN place \ {key} /\ \A d \in DOMAIN place' : place'[d] = place[d]
    BY <1>2 DEF FsDrop
  <2>2. PlaceInv
    BY DEF FsInv
  <2>3. PlaceInv'
    BY <1>2, <1>6, <2>1, <2>2 DEF PlaceInv
  <2>4. \A d : d # key => PlaceStays(w, d)
    BY <2>1, <2>2 DEF PlaceStays, PlaceInv
  <2> QED
    BY <2>3, <2>4
<1>7. ObjectsInv'
  BY <1>4, <1>5, <1>6, ObjectsStep DEF FsInv
<1>8. \A d \in DOMAIN docs' : docs'[d] \in DOMAIN heap' /\ heap'[docs'[d]] = h[docs'[d]]
  <2>1. \A d \in DOMAIN docs' : docs'[d] \in DOMAIN h
    BY <1>1, <1>6 DEF FsInv, FsTypeInv
  <2> QED
    BY <1>2, <2>1, RefsKept
<1>9. /\ DOMAIN serial' \subseteq FsDocs /\ \A d \in DOMAIN serial' : IsFields(serial'[d])
      /\ \A d : d # key => /\ d \in DOMAIN serial' <=> d \in DOMAIN serial
                           /\ d \in DOMAIN serial => serial'[d] = serial[d]
      /\ key \notin DOMAIN serial'
  BY <1>1, <1>2, <1>3, WrittenSo
<1>10. DOMAIN docs' \subseteq FsDocs
  BY <1>6 DEF FsInv, FsTypeInv
<1>11. ASSUME NEW d \in FsDocs, d # key PROVE DocStays(d) /\ PlaceStays(w, d)
  BY <1>1, <1>6, <1>8, <1>9, <1>11, <1>13 DEF DocStays
<1>12. DocAgrees(key)'
  BY <1>6, <1>9 DEF DocAgrees
<1> QED
  BY <1>2, <1>3, <1>4, <1>5, <1>7, <1>8, <1>9, <1>10, <1>11, <1>12, <1>13, FsWriteInv

(* How a merge gets along *)
LEMMA MergedNone ==
  ASSUME NEW x, IsFields(x), NEW upd
  PROVE  Merged(x, upd, {}) = x
<1>1. Merged(x, upd, {}) = [f \in DOMAIN x |-> x[f]]
  BY DEF Merged
<1> QED
  BY <1>1 DEF IsFields

LEMMA MergedAll ==
  ASSUME NEW x, NEW upd
  PROVE  Merged(x, upd, DOMAIN upd) = FsOverlay(x, upd)
BY DEF Merged, FsOverlay

LEMMA MergedMore ==
  ASSUME NEW x, NEW upd, NEW S, NEW g, g \notin S
  PROVE  FsSet(Merged(x, upd, S), g, upd[g]) = Merged(x, upd, S \union {g})
<1>1. PICK m, n : m = Merged(x, upd, S) /\ n = Merged(x, upd, S \union {g})
  OBVIOUS
<1>2. /\ DOMAIN m = {f \in DOMAIN x \union S : f \in S => upd[f] # FsGone}
      /\ \A f \in DOMAIN m : m[f] = IF f \in S THEN upd[f] ELSE x[f]
      /\ n = [f \in DOMAIN n |-> n[f]]
      /\ DOMAIN n = {f \in DOMAIN x \union (S \union {g}) : f \in S \union {g} => upd[f] # FsGone}
      /\ \A f \in DOMAIN n : n[f] = IF f \in S \union {g} THEN upd[f] ELSE x[f]
  BY <1>1 DEF Merged
<1>3. CASE upd[g] = FsGone
  <2>1. DOMAIN n = DOMAIN m \ {g}
    BY <1>2, <1>3
  <2>2. \A f \in DOMAIN n : n[f] = m[f]
    BY <1>2, <1>3, <2>1
  <2>3. FsDrop(m, g) = n
    BY <1>2, <2>1, <2>2 DEF FsDrop
  <2> QED
    BY <1>1, <1>3, <2>3 DEF FsSet
<1>4. CASE upd[g] # FsGone
  <2>1. DOMAIN n = DOMAIN m \union {g}
    BY <1>2, <1>4
  <2>2. \A f \in DOMAIN n : n[f] = IF f = g THEN upd[g] ELSE m[f]
    BY <1>2, <1>4, <2>1
  <2>3. FsWith(m, g, upd[g]) = n
    BY <1>2, <2>1, <2>2 DEF FsWith
  <2> QED
    BY <1>1, <1>4, <2>3 DEF FsSet
<1> QED
  BY <1>3, <1>4

LEMMA FsFindPreserves ==
  ASSUME FsInv, NEW w \in FsWorkers, FsFind(w)
  PROVE  FsInv'
<1>1. PICK b, wr, key : b = fw[w] /\ wr = b.write /\ key = wr.doc
  OBVIOUS
<1>2. PICK p, o : /\ p = IF key \in DOMAIN docs THEN "path" ELSE "insert"
                  /\ o = IF key \in DOMAIN docs THEN docs[key] ELSE FsGone
  OBVIOUS
<1>3. PICK c : c = [b EXCEPT !.pc = p, !.obj = o, !.paths = DOMAIN wr.upd]
  OBVIOUS
<1>4. /\ b.pc = "apply" /\ wr.kind \in {"merge", "update"} /\ fw' = [fw EXCEPT ![w] = c]
      /\ UNCHANGED <<fsDict, heap, serial, contested>>
  BY <1>1, <1>2, <1>3 DEF FsFind, FsInv, FsTypeInv, fsGhosts
<1>5. wr \in FsWrites /\ key \in FsDocs /\ FsCallInv(b)
  BY <1>1, <1>4, FsAtWrite
<1>6. c = [pc |-> p, left |-> b.left, write |-> wr, obj |-> o, paths |-> DOMAIN wr.upd,
           todo |-> b.todo, listed |-> b.listed, quiet |-> b.quiet, next |-> b.next,
           size |-> b.size, rebuilt |-> b.rebuilt]
  BY <1>1, <1>3, <1>5 DEF FsCallInv
<1>7. /\ c.pc = p /\ c.write = wr /\ c.obj = o /\ c.paths = DOMAIN wr.upd /\ c.todo = b.todo
      /\ c.quiet = b.quiet /\ c.next = b.next /\ c.rebuilt = b.rebuilt
  BY <1>6
<1>8. FsCallInv(c)
  <2>1. /\ c.pc \in {"path", "insert"} /\ (c.pc = "insert" => c.paths = DOMAIN c.write.upd)
        /\ c.write \in FsWrites /\ c.write.kind \in {"merge", "update"}
        /\ c.paths \subseteq DOMAIN c.write.upd
    BY <1>2, <1>4, <1>5, <1>7
  <2> QED
    BY <1>5, <1>6, <1>7, <2>1 DEF FsCallInv, FsPlaces
<1>9. \A d : (WritesDoc(c, d) <=> WritesDoc(fw[w], d)) /\ ~ReliesOn(c, d) /\ (WritesDoc(c, d) => d = key)
  BY <1>1, <1>2, <1>4, <1>7 DEF WritesDoc, ReliesOn
<1>10. \A d \in DOMAIN docs : c.pc = "path" /\ c.obj = docs[d] => c.write.doc = d
  BY <1>1, <1>2, <1>7 DEF FsInv, ObjectsInv
<1>11. ASSUME key \notin contested PROVE DocWriterInv(c, key)
  <2>1. DocAgrees(key)
    BY <1>1, <1>4, <1>5, <1>11 DEF FsInv, DocInv, DocWriterInv, WritesDoc
  <2>2. CASE key \in DOMAIN docs
    <3>1. heap[docs[key]] = Base(key) /\ IsFields(Base(key))
      BY <2>1, <2>2 DEF DocAgrees, Base, FsInv, FsTypeInv
    <3>2. Merged(Base(key), wr.upd, {}) = Base(key)
      BY <3>1, MergedNone
    <3>3. DOMAIN c.write.upd \ c.paths = {}
      BY <1>7
    <3>4. MergesInv(c, key)
      BY <1>2, <1>7, <2>2, <3>1, <3>2, <3>3 DEF MergesInv
    <3> QED
      BY <1>2, <1>7, <2>2, <3>4 DEF DocWriterInv
  <2>3. CASE key \notin DOMAIN docs
    BY <1>2, <1>7, <2>1, <2>3 DEF DocWriterInv
  <2> QED
    BY <2>2, <2>3
<1>12. \A d \in FsDocs \ contested : WritesDoc(fw[w], d) =>
         ~ReliesOn(c, d) /\ IF WritesDoc(c, d) THEN DocWriterInv(c, d) ELSE DocAgrees(d)
  BY <1>9, <1>11
<1> QED
  BY <1>4, <1>8, <1>9, <1>10, <1>12, HeapUnchanged, FsQuietInv

LEMMA FsInsertPreserves ==
  ASSUME FsInv, NEW w \in FsWorkers, FsInsert(w)
  PROVE  FsInv'
<1>1. PICK b, wr, key, o : b = fw[w] /\ wr = b.write /\ key = wr.doc /\ o = FsNew
  OBVIOUS
<1>2. PICK h, c : h = FsWith(heap, o, FsNone) /\ c = [b EXCEPT !.pc = "path", !.obj = o]
  OBVIOUS
<1>20. /\ b.pc = "insert" /\ FsFile(w, c, key, o) /\ FsKeep(h)
       /\ UNCHANGED <<serial, contested>> /\ FsObjects \ FsRefs # {}
  BY <1>1, <1>2 DEF FsInsert, fsGhosts
<1>4. wr \in FsWrites /\ key \in FsDocs /\ WritesDoc(fw[w], key) /\ FsCallInv(b)
  BY <1>1, <1>20, FsAtWrite
<1>5. /\ FsGoesOn(w, c) /\ docs' = FsWith(docs, key, o) /\ PlaceInv'
      /\ \A d : d # key => PlaceStays(w, d)
  BY <1>4, <1>20, FsFileGoesOn DEF FsInv
<1>3. /\ b.pc = "insert" /\ docs' = FsWith(docs, key, o) /\ FsKeep(h)
      /\ UNCHANGED <<serial, contested>> /\ FsObjects \ FsRefs # {}
  BY <1>5, <1>20
<1>6. c = [pc |-> "path", left |-> b.left, write |-> wr, obj |-> o, paths |-> b.paths,
           todo |-> b.todo, listed |-> b.listed, quiet |-> b.quiet, next |-> b.next,
           size |-> b.size, rebuilt |-> b.rebuilt]
  BY <1>1, <1>2, <1>4 DEF FsCallInv
<1>7. /\ c.pc = "path" /\ c.write = wr /\ c.obj = o /\ c.paths = b.paths /\ c.todo = b.todo
      /\ c.quiet = b.quiet /\ c.next = b.next /\ c.rebuilt = b.rebuilt
  BY <1>6
<1>8. FsCallInv(c) /\ b.paths = DOMAIN wr.upd
  BY <1>1, <1>3, <1>4, <1>6, <1>7 DEF FsCallInv, FsPlaces
<1>9. WritesDoc(c, key) /\ \A d : (WritesDoc(c, d) => d = key) /\ ~ReliesOn(c, d)
  BY <1>1, <1>7 DEF WritesDoc, ReliesOn
<1>10. ObjectsInv'
  <2>1. docs' = FsWith(docs, key, FsNew) /\ c.obj = FsNew /\ c.write.doc = key
    BY <1>1, <1>3, <1>7
  <2> QED
    BY <1>3, <1>5, <2>1, NewObjectStep DEF FsInv
<1>11. \A d \in DOMAIN docs : docs[d] # o /\ docs[d] \in DOMAIN heap
  BY <1>1, <1>3, NewIsNew DEF FsRefs, FsInv, FsTypeInv
<1>12. /\ DOMAIN docs' = DOMAIN docs \union {key} /\ docs'[key] = o
       /\ \A d \in DOMAIN docs : d # key => docs'[d] = docs[d]
  BY <1>3 DEF FsWith
<1>13. /\ DOMAIN h = DOMAIN heap \union {o} /\ h[o] = FsNone
       /\ \A x \in DOMAIN heap : x # o => h[x] = heap[x]
  BY <1>2 DEF FsWith
<1>14. \A d \in DOMAIN docs' : docs'[d] \in DOMAIN heap' /\ heap'[docs'[d]] = h[docs'[d]]
  <2>1. \A d \in DOMAIN docs' : docs'[d] \in DOMAIN h
    BY <1>11, <1>12, <1>13
  <2> QED
    BY <1>3, <2>1, RefsKept
<1>15. DOMAIN docs' \subseteq FsDocs
  BY <1>4, <1>12 DEF FsInv, FsTypeInv
<1>16. DOMAIN serial' \subseteq FsDocs /\ \A d \in DOMAIN serial' : IsFields(serial'[d])
  BY <1>3 DEF FsInv, FsTypeInv
<1>17. ASSUME NEW d \in FsDocs, d # key PROVE DocStays(d) /\ PlaceStays(w, d)
  BY <1>3, <1>5, <1>11, <1>12, <1>13, <1>14, <1>17 DEF DocStays
<1>18. ASSUME key \notin contested PROVE DocWriterInv(c, key)'
  <2>1. DocAgrees(key) /\ key \notin DOMAIN docs
    BY <1>1, <1>3, <1>4, <1>18 DEF FsInv, DocInv, DocWriterInv
  <2>2. key \notin DOMAIN serial'
    BY <1>3, <2>1 DEF DocAgrees
  <2>3. Base(key)' = FsNone
    BY <2>2 DEF Base
  <2>4. Merged(FsNone, wr.upd, {}) = FsNone
    <3>1. IsFields(FsNone)
      BY DEF IsFields, FsNone
    <3> QED
      BY <3>1, MergedNone
  <2>5. DOMAIN c.write.upd \ c.paths = {}
    BY <1>7, <1>8
  <2>6. MergesInv(c, key)'
    BY <1>7, <1>12, <1>13, <1>14, <2>3, <2>4, <2>5 DEF MergesInv
  <2> QED
    BY <1>7, <2>6 DEF DocWriterInv
<1>19. WritesDoc(fw[w], key) /\ UNCHANGED contested
  BY <1>3, <1>4
<1> QED
  BY <1>4, <1>5, <1>8, <1>9, <1>10, <1>14, <1>15, <1>16, <1>17, <1>18, <1>19, FsWriteInv

LEMMA FsPathPreserves ==
  ASSUME FsInv, NEW w \in FsWorkers, NEW f \in fw[w].paths, FsPath(w, f)
  PROVE  FsInv'
<1>1. PICK b, wr, key, o, D : b = fw[w] /\ wr = b.write /\ key = wr.doc /\ o = b.obj
                              /\ D = DOMAIN wr.upd
  OBVIOUS
<1>2. PICK h : h = [heap EXCEPT ![o] = FsSet(@, f, wr.upd[f])]
  OBVIOUS
<1>3. PICK c : c = IF b.paths = {f} THEN FsEnd(w) ELSE [b EXCEPT !.paths = b.paths \ {f}]
  OBVIOUS
<1>4. /\ b.pc = "path" /\ f \in b.paths /\ fw' = [fw EXCEPT ![w] = c] /\ FsKeep(h)
      /\ UNCHANGED <<docs, place, used, contested>>
  BY <1>1, <1>2, <1>3 DEF FsPath, FsInv, FsTypeInv, fsDict
<1>5. /\ wr \in FsWrites /\ key \in FsDocs /\ WritesDoc(fw[w], key) /\ FsCallInv(b)
      /\ wr.kind \in {"merge", "update"} /\ b.paths \subseteq D
  BY <1>1, <1>4, FsAtWrite DEF FsCallInv
<1>6. FsGoesOn(w, c)
  BY <1>4, FsExceptGoesOn DEF FsInv
<1>7. DOMAIN h = DOMAIN heap /\ \A x \in DOMAIN heap : x # o => h[x] = heap[x]
  BY <1>2
<1>8. o \in DOMAIN heap => h[o] = FsSet(heap[o], f, wr.upd[f])
  BY <1>2
<1>9. \A d \in DOMAIN docs' : docs'[d] \in DOMAIN heap' /\ heap'[docs'[d]] = h[docs'[d]]
  <2>1. \A d \in DOMAIN docs' : docs'[d] \in DOMAIN h
    BY <1>4, <1>7 DEF FsInv, FsTypeInv
  <2> QED
    BY <1>4, <2>1, RefsKept
<1>10. \A d \in DOMAIN docs : docs[d] = o => d = key
  BY <1>1, <1>4 DEF FsInv, ObjectsInv
<1>11. \A d \in DOMAIN docs' : d \in DOMAIN docs /\ docs'[d] = docs[d]
  BY <1>4
<1>12. DOMAIN docs' \subseteq FsDocs
  BY <1>4 DEF FsInv, FsTypeInv
<1>13. ASSUME NEW d \in FsDocs, d # key,
              d \in DOMAIN serial' <=> d \in DOMAIN serial,
              d \in DOMAIN serial => serial'[d] = serial[d]
       PROVE  DocStays(d) /\ PlaceStays(w, d)
  <2>1. d \in DOMAIN docs => docs[d] # o /\ docs[d] \in DOMAIN heap
    BY <1>10, <1>13 DEF FsInv, FsTypeInv
  <2>2. d \in DOMAIN docs => heap'[docs[d]] = heap[docs[d]]
    BY <1>4, <1>7, <1>9, <2>1
  <2> QED
    BY <1>4, <1>13, <2>2 DEF DocStays, PlaceStays
<1>17. PlaceInv'
  BY <1>4 DEF FsInv, PlaceInv
<1>14. ASSUME key \notin contested
       PROVE  /\ key \in DOMAIN docs' /\ docs'[key] = o
              /\ heap'[o] = Merged(Base(key), wr.upd, (D \ b.paths) \union {f})
  <2>1. MergesInv(b, key)
    BY <1>1, <1>4, <1>5, <1>14 DEF FsInv, DocInv, DocWriterInv
  <2>2. /\ key \in DOMAIN docs /\ o = docs[key]
        /\ heap[o] = Merged(Base(key), wr.upd, D \ b.paths)
    BY <1>1, <2>1 DEF MergesInv
  <2>3. o \in DOMAIN heap
    BY <2>2 DEF FsInv, FsTypeInv
  <2>4. heap'[o] = FsSet(heap[o], f, wr.upd[f])
    BY <1>4, <1>8, <1>9, <2>2, <2>3
  <2>5. FsSet(Merged(Base(key), wr.upd, D \ b.paths), f, wr.upd[f])
          = Merged(Base(key), wr.upd, (D \ b.paths) \union {f})
    BY <1>4, MergedMore
  <2> QED
    BY <1>4, <2>2, <2>4, <2>5
<1>15. CASE b.paths = {f}
  <2>1. c = FsEnd(w) /\ FsWritten(w)
    BY <1>1, <1>3, <1>15 DEF FsPath
  <2>2. FsCallInv(c) /\ c.pc # "path" /\ \A d : ~WritesDoc(c, d) /\ ~ReliesOn(c, d)
    BY <2>1, FsEndCall DEF WritesDoc, ReliesOn
  <2>3. ObjectsInv'
    BY <1>6, <1>11, <2>2, ObjectsStep DEF FsInv
  <2>4. /\ DOMAIN serial' \subseteq FsDocs /\ \A d \in DOMAIN serial' : IsFields(serial'[d])
        /\ \A d : d # key => /\ d \in DOMAIN serial' <=> d \in DOMAIN serial
                             /\ d \in DOMAIN serial => serial'[d] = serial[d]
        /\ key \in DOMAIN serial' /\ serial'[key] = FsOverlay(Base(key), wr.upd)
    BY <1>1, <1>5, <2>1, WrittenSo
  <2>5. \A d \in FsDocs : d # key => DocStays(d) /\ PlaceStays(w, d)
    BY <1>13, <2>4
  <2>6. ASSUME key \notin contested PROVE DocAgrees(key)'
    <3>1. (D \ b.paths) \union {f} = D
      BY <1>5, <1>15
    <3>2. heap'[o] = FsOverlay(Base(key), wr.upd)
      BY <1>1, <1>14, <2>6, <3>1, MergedAll
    <3> QED
      BY <1>14, <2>4, <2>6, <3>2 DEF DocAgrees
  <2> QED
    BY <1>4, <1>5, <1>6, <1>9, <1>12, <1>17, <2>2, <2>3, <2>4, <2>5, <2>6, FsWriteInv
<1>16. CASE b.paths # {f}
  <2>1. c = [b EXCEPT !.paths = b.paths \ {f}] /\ UNCHANGED serial
    BY <1>1, <1>3, <1>16 DEF FsPath
  <2>2. c = [pc |-> "path", left |-> b.left, write |-> wr, obj |-> o, paths |-> b.paths \ {f},
             todo |-> b.todo, listed |-> b.listed, quiet |-> b.quiet, next |-> b.next,
             size |-> b.size, rebuilt |-> b.rebuilt]
    BY <1>1, <1>4, <1>5, <2>1 DEF FsCallInv
  <2>3. /\ c.pc = "path" /\ c.write = wr /\ c.obj = o /\ c.paths = b.paths \ {f}
        /\ c.todo = b.todo /\ c.quiet = b.quiet /\ c.next = b.next /\ c.rebuilt = b.rebuilt
    BY <2>2
  <2>4. FsCallInv(c)
    BY <1>1, <1>4, <1>5, <2>2, <2>3 DEF FsCallInv, FsPlaces
  <2>5. WritesDoc(c, key) /\ \A d : (WritesDoc(c, d) => d = key) /\ ~ReliesOn(c, d)
    BY <1>1, <2>3 DEF WritesDoc, ReliesOn
  <2>6. ObjectsInv'
    <3>1. \A d \in DOMAIN docs' : c.pc = "path" /\ c.obj = docs'[d] => c.write.doc = d
      BY <1>1, <1>4, <1>10, <2>3
    <3> QED
      BY <1>6, <1>11, <3>1, ObjectsStep DEF FsInv
  <2>7. DOMAIN serial' \subseteq FsDocs /\ \A d \in DOMAIN serial' : IsFields(serial'[d])
    BY <2>1 DEF FsInv, FsTypeInv
  <2>8. \A d \in FsDocs : d # key => DocStays(d) /\ PlaceStays(w, d)
    BY <1>13, <2>1
  <2>9. ASSUME key \notin contested PROVE DocWriterInv(c, key)'
    <3>1. (D \ b.paths) \union {f} = DOMAIN c.write.upd \ c.paths
      BY <1>1, <1>4, <1>5, <2>3
    <3>2. Base(key)' = Base(key)
      BY <2>1 DEF Base
    <3>3. MergesInv(c, key)'
      BY <1>14, <2>3, <2>9, <3>1, <3>2 DEF MergesInv
    <3> QED
      BY <2>3, <3>3 DEF DocWriterInv
  <2> QED
    BY <1>4, <1>5, <1>6, <1>9, <1>12, <1>17, <2>4, <2>5, <2>6, <2>7, <2>8, <2>9, FsWriteInv
<1> QED
  BY <1>15, <1>16

(* Calls that rest may change for others that rest. *)
FsRests(c) == FsCallInv(c) /\ c.pc \in FsResting

LEMMA FsRestingCall ==
  ASSUME NEW p \in FsResting
  PROVE  FsRests([FsIdle EXCEPT !.pc = p]) /\ [FsIdle EXCEPT !.pc = p].pc = p
<1>1. PICK c : c = [FsIdle EXCEPT !.pc = p]
  OBVIOUS
<1>2. c = [pc |-> p, left |-> 0, write |-> FsGone, obj |-> FsGone, paths |-> {}, todo |-> {},
           listed |-> {}, quiet |-> {}, next |-> 0, size |-> 0, rebuilt |-> FALSE]
  BY <1>1 DEF FsIdle
<1>3. c.pc = p /\ c.todo = {} /\ c.quiet = {} /\ c.next = 0 /\ c.rebuilt = FALSE
  BY <1>2
<1>4. c.pc \in FsPlaces /\ c.pc \notin {"apply", "insert", "path"}
  BY <1>3 DEF FsPlaces, FsResting
<1>5. FsCallInv(c)
  BY <1>2, <1>3, <1>4 DEF FsCallInv
<1> QED
  BY <1>1, <1>3, <1>5 DEF FsRests

LEMMA FsRestsApart ==
  ASSUME NEW c, FsRests(c)
  PROVE  c.pc # "path" /\ \A d : ~WritesDoc(c, d) /\ ~ReliesOn(c, d)
BY DEF FsRests, FsResting, WritesDoc, ReliesOn

LEMMA FsCallPreserves ==
  ASSUME FsInv, NEW w \in FsWorkers, FsCall(w)
  PROVE  FsInv'
<1>1. PICK p, c : /\ p = IF FsCreators = {} THEN "create" ELSE "race"
                  /\ c = [FsIdle EXCEPT !.pc = p]
  OBVIOUS
<1>2. FsRests(c)
  <2>1. p \in FsResting
    BY <1>1 DEF FsResting
  <2> QED
    BY <1>1, <2>1, FsRestingCall
<1>3. /\ fw' = [v \in FsWorkers |-> IF v \in FsCreators \union {w} THEN c ELSE fw[v]]
      /\ fw[w].pc = "idle" /\ UNCHANGED <<docs, place, used, heap, serial, contested>>
  BY <1>1 DEF FsCall, fsDict, fsGhosts
<1>4. ASSUME NEW v \in FsWorkers
      PROVE  fw'[v] = fw[v] \/ (FsRests(fw'[v]) /\ FsRests(fw[v]))
  <2>1. FsCallInv(fw[v])
    BY DEF FsInv, FsTypeInv
  <2> QED
    BY <1>2, <1>3, <2>1 DEF FsRests, FsResting, FsCreators
<1>5. FsTypeInv'
  <2>1. \A v \in FsWorkers : FsCallInv(fw'[v])
    BY <1>4 DEF FsInv, FsTypeInv, FsRests
  <2>2. \A v \in FsWorkers : FsCallInv(fw[v])'
    BY <2>1 DEF FsCallInv
  <2>3. \A d \in DOMAIN serial' : IsFields(serial[d])'
    BY <1>3 DEF FsInv, FsTypeInv, IsFields
  <2> QED
    BY <1>3, <2>2, <2>3 DEF FsInv, FsTypeInv
<1>6. ObjectsInv' /\ PlaceInv'
  <2>1. ASSUME NEW v \in FsWorkers, fw'[v].pc = "path" PROVE fw'[v] = fw[v]
    BY <1>4, <2>1, FsRestsApart
  <2> QED
    BY <1>3, <2>1 DEF FsInv, ObjectsInv, PlaceInv
<1>7. ASSUME NEW d \in FsDocs PROVE DocInv(d)'
  <2>1. DocInv(d) /\ DocStays(d)
    BY <1>3 DEF FsInv, DocStays
  <2>2. \A v \in FsWorkers : WritesDoc(fw'[v], d) => fw'[v] = fw[v]
    BY <1>4, FsRestsApart
  <2>3. \A v \in FsWorkers : ReliesOn(fw'[v], d) => fw'[v] = fw[v]
    BY <1>4, FsRestsApart
  <2>4. \A v \in FsWorkers : WritesDoc(fw'[v], d) <=> WritesDoc(fw[v], d)
    BY <1>4, FsRestsApart
  <2>5. (DocAgrees(d)' <=> DocAgrees(d)) /\ \A e : DocWriterInv(e, d) => DocWriterInv(e, d)'
    BY <2>1, DocStaysSo, DocStaysWritten
  <2>6. \A e : Lists(e, d) => Lists(e, d)'
    BY <1>3 DEF Lists
  <2>7. \A v \in FsWorkers : WritesDoc(fw'[v], d) => (DocWriterInv(fw[v], d) => DocWriterInv(fw[v], d)')
    <3>1. ASSUME NEW v \in FsWorkers, WritesDoc(fw'[v], d), DocWriterInv(fw[v], d)
          PROVE  DocWriterInv(fw[v], d)'
      <4>1. PICK e : e = fw[v]
        OBVIOUS
      <4>2. DocWriterInv(e, d)' /\ fw'[v] = e
        BY <2>2, <2>5, <3>1, <4>1
      <4> QED
        BY <4>2
    <3> QED
      BY <3>1
  <2>8. \A v \in FsWorkers : ReliesOn(fw'[v], d) => (Lists(fw[v], d) => Lists(fw[v], d)')
    <3>1. ASSUME NEW v \in FsWorkers, ReliesOn(fw'[v], d), Lists(fw[v], d) PROVE Lists(fw[v], d)'
      <4>1. PICK e : e = fw[v]
        OBVIOUS
      <4>2. Lists(e, d)' /\ fw'[v] = e
        BY <2>3, <2>6, <3>1, <4>1
      <4> QED
        BY <4>2
    <3> QED
      BY <3>1
  <2>9. \A v \in FsWorkers : ReliesOn(fw'[v], d) => ReliesOn(fw[v], d)
    BY <2>3
  <2>10. d \notin contested' =>
          /\ \A u, v \in FsWorkers : WritesDoc(fw'[u], d) /\ WritesDoc(fw'[v], d) => u = v
          /\ \A v \in FsWorkers : WritesDoc(fw'[v], d) => DocWriterInv(fw[v], d)'
          /\ (\A v \in FsWorkers : ~WritesDoc(fw'[v], d)) => DocAgrees(d)'
          /\ \A v \in FsWorkers : ReliesOn(fw'[v], d) =>
               Lists(fw[v], d)' /\ \A u \in FsWorkers : ~WritesDoc(fw'[u], d)
    BY <1>3, <2>1, <2>4, <2>5, <2>7, <2>8, <2>9 DEF DocInv
  <2> QED
    BY <2>10 DEF DocInv, WritesDoc, ReliesOn
<1> QED
  BY <1>5, <1>6, <1>7 DEF FsInv

(* A thread that creates a backend *)
LEMMA FsCreatePreserves ==
  ASSUME FsInv, FsStartInv, NEW w \in FsWorkers, FsCreate(w)
  PROVE  FsInv' /\ FsStartInv'
<1>1. PICK c, l : c = [FsIdle EXCEPT !.pc = "ready"] /\ l = [FsIdle EXCEPT !.pc = "lost"]
  OBVIOUS
<1>2. FsRests(c) /\ c.pc = "ready" /\ FsRests(l) /\ l.pc = "lost"
  <2>1. "ready" \in FsResting /\ "lost" \in FsResting
    BY DEF FsResting
  <2> QED
    BY <1>1, <2>1, FsRestingCall
<1>3. /\ docs' = FsNone /\ place' = FsNone /\ used' = 0 /\ fsBackend' = TRUE
      /\ fw' = [v \in FsWorkers |->
           IF v = w THEN c ELSE IF fw[v].pc \in {"idle", "create", "race", "ready"} THEN fw[v]
           ELSE l]
  BY <1>1 DEF FsCreate
<1>4. fw[w].pc \in {"create", "race"} /\ w \in FsCreators
  BY DEF FsCreate, FsCreators
<1>5. serial' = FsNone /\ contested' = {}
  <2>1. CASE fw[w].pc = "race"
    BY <2>1 DEF FsCreate
  <2>2. CASE fw[w].pc = "create"
    <3>1. fsBackend # TRUE
      BY <2>2, Zenon DEF FsStartInv
    <3>2. serial = FsNone /\ contested = {}
      BY <3>1, Zenon DEF FsStartInv
    <3> QED
      BY <2>2, <3>2 DEF FsCreate, fsGhosts
  <2> QED
    BY <1>4, <2>1, <2>2
<1>6. ASSUME NEW v \in FsWorkers PROVE FsRests(fw'[v]) /\ fw'[v].pc # "create"
  <2>1. FsCallInv(fw[v])
    BY DEF FsInv, FsTypeInv
  <2>2. CASE v = w
    BY <1>2, <1>3, <2>2
  <2>3. CASE v # w /\ fw[v].pc \in {"idle", "create", "race", "ready"}
    <3>1. fw[v].pc # "create"
      <4>1. SUFFICES ASSUME fw[v].pc = "create" PROVE FALSE
        OBVIOUS
      <4>2. FsCreators = {v}
        BY <4>1 DEF FsStartInv
      <4> QED
        BY <1>4, <2>3, <4>2
    <3> QED
      BY <1>3, <2>1, <2>3, <3>1 DEF FsRests, FsResting
  <2>4. CASE v # w /\ fw[v].pc \notin {"idle", "create", "race", "ready"}
    BY <1>2, <1>3, <2>4
  <2> QED
    BY <2>2, <2>3, <2>4
<1>7. DOMAIN docs' = {} /\ DOMAIN place' = {} /\ DOMAIN serial' = {}
  BY <1>3, <1>5 DEF FsNone
<1>8. FsTypeInv'
  <2>1. \A v \in FsWorkers : FsCallInv(fw[v])'
    BY <1>6 DEF FsRests, FsCallInv
  <2> QED
    BY <1>3, <1>5, <1>7, <2>1 DEF FsTypeInv
<1>9. ObjectsInv' /\ PlaceInv'
  BY <1>3, <1>7 DEF ObjectsInv, PlaceInv
<1>10. ASSUME NEW d \in FsDocs PROVE DocInv(d)'
  <2>1. \A v \in FsWorkers : ~WritesDoc(fw'[v], d) /\ ~ReliesOn(fw'[v], d)
    BY <1>6, FsRestsApart
  <2>2. DocAgrees(d)'
    BY <1>7 DEF DocAgrees
  <2>3. /\ \A v \in FsWorkers : ~WritesDoc(fw[v], d)'
        /\ \A v \in FsWorkers : ~ReliesOn(fw[v], d)'
    BY <2>1 DEF WritesDoc, ReliesOn
  <2> QED
    BY <2>2, <2>3 DEF DocInv
<1>11. FsInv'
  BY <1>8, <1>9, <1>10 DEF FsInv
<1>12. FsStartInv'
  BY <1>3, <1>6 DEF FsStartInv
<1> QED
  BY <1>11, <1>12

LEMMA FsCallStart ==
  ASSUME FsInv, FsStartInv, NEW w \in FsWorkers, FsCall(w)
  PROVE  FsStartInv'
<1>1. PICK p, c : /\ p = IF FsCreators = {} THEN "create" ELSE "race"
                  /\ c = [FsIdle EXCEPT !.pc = p]
  OBVIOUS
<1>2. c.pc = p
  BY <1>1 DEF FsIdle
<1>3. /\ fw' = [v \in FsWorkers |-> IF v \in FsCreators \union {w} THEN c ELSE fw[v]]
      /\ UNCHANGED <<fsBackend, serial, contested>>
  BY <1>1 DEF FsCall, fsGhosts
<1>4. fsBackend # TRUE
  BY Zenon DEF FsCall
<1>5. ASSUME NEW v \in FsWorkers, fw'[v].pc = "create" PROVE FsCreators' = {v}
  <2>1. FsCreators = {} /\ p = "create"
    <3>1. CASE v \in FsCreators \union {w}
      BY <1>1, <1>2, <1>3, <1>5, <3>1
    <3>2. CASE v \notin FsCreators \union {w}
      BY <1>3, <1>5, <3>2 DEF FsCreators
    <3> QED
      BY <3>1, <3>2
  <2>2. \A u \in FsWorkers : fw'[u].pc \in {"create", "race"} <=> u = w
    BY <1>2, <1>3, <2>1 DEF FsCreators
  <2> QED
    BY <1>5, <2>2 DEF FsCreators
<1>6. \A v \in FsWorkers : fw'[v].pc \in {"idle", "create", "race"}
  <2>1. \A v \in FsWorkers : fw[v].pc \in {"idle", "create", "race"}
    BY <1>4, Zenon DEF FsStartInv
  <2> QED
    BY <1>1, <1>2, <1>3, <2>1
<1>7. serial = FsNone /\ contested = {}
  BY <1>4, Zenon DEF FsStartInv
<1> QED
  BY <1>3, <1>4, <1>5, <1>6, <1>7 DEF FsStartInv

(* Any other step is one of a worker that has a backend. *)
LEMMA FsWorkStart ==
  ASSUME FsStartInv, NEW w \in FsWorkers,
         fw[w].pc \notin {"idle", "create", "race"} \/ fsBackend,
         \A v \in FsWorkers : fw'[v].pc = "create" => fw[v].pc = "create",
         UNCHANGED fsBackend
  PROVE  FsStartInv'
<1>1. fsBackend = TRUE
  <2>1. CASE fw[w].pc \notin {"idle", "create", "race"}
    <3>1. ~(fsBackend # TRUE)
      BY <2>1, Zenon DEF FsStartInv
    <3> QED
      BY <3>1
  <2>2. CASE fsBackend
    BY <2>2
  <2> QED
    BY <2>1, <2>2
<1>2. \A v \in FsWorkers : fw[v].pc # "create"
  BY <1>1 DEF FsStartInv
<1> QED
  BY <1>1, <1>2 DEF FsStartInv

LEMMA FsBegins ==
  ASSUME FsTypeInv, NEW w \in FsWorkers, NEW c, FsBegin(w, c), c.pc # "create"
  PROVE  /\ fw[w].pc \notin {"idle", "create", "race"} \/ fsBackend
         /\ \A v \in FsWorkers : fw'[v].pc = "create" => fw[v].pc = "create"
         /\ UNCHANGED fsBackend
<1>1. DOMAIN fw = FsWorkers
  BY DEF FsTypeInv
<1> QED
  BY <1>1 DEF FsBegin

LEMMA FsMoves ==
  ASSUME FsTypeInv, NEW w \in FsWorkers, NEW c, FsGoesOn(w, c), c.pc # "create"
  PROVE  \A v \in FsWorkers : fw'[v].pc = "create" => fw[v].pc = "create"
<1>1. fw'[w] = c
  BY DEF FsGoesOn
<1>2. \A v \in FsWorkers : v # w => fw'[v].pc = fw[v].pc
  BY FsOthersStay
<1> QED
  BY <1>1, <1>2

(* A worker is not at the creation of a backend once it has taken a step.  *)
LEMMA FsWorkMoves ==
  ASSUME FsInv, NEW w \in FsWorkers, FsWork(w), ~FsCall(w), ~FsCreate(w)
  PROVE  /\ fw[w].pc \notin {"idle", "create", "race"} \/ fsBackend
         /\ \A v \in FsWorkers : fw'[v].pc = "create" => fw[v].pc = "create"
         /\ UNCHANGED fsBackend
<1> USE FsIdleCall
<1>1. FsTypeInv /\ PlaceInv /\ DOMAIN fw = FsWorkers /\ FsCallInv(fw[w])
  BY DEF FsInv, FsTypeInv
<1>2. FsEnd(w).pc # "create"
  BY FsEndCall
<1>3. CASE FsCommit(w)
  <2>1. PICK n : FsBegin(w, [FsIdle EXCEPT !.pc = "next", !.left = n])
    BY <1>3 DEF FsCommit
  <2>2. [FsIdle EXCEPT !.pc = "next", !.left = n].pc = "next"
    BY DEF FsIdle
  <2> QED
    BY <1>1, <2>1, <2>2, FsBegins
<1>4. CASE FsRead(w)
  <2>1. PICK n : FsBegin(w, [FsIdle EXCEPT !.pc = "list", !.quiet = FsCalm, !.next = 1,
                                           !.size = n, !.left = n])
    BY <1>4 DEF FsRead
  <2>2. [FsIdle EXCEPT !.pc = "list", !.quiet = FsCalm, !.next = 1, !.size = n,
                       !.left = n].pc = "list"
    BY DEF FsIdle
  <2> QED
    BY <1>1, <2>1, <2>2, FsBegins
<1>5. CASE \E d \in FsDocs : FsGet(w, d)
  <2>1. PICK S, L, Q : FsBegin(w, [FsIdle EXCEPT !.pc = "emit", !.todo = S, !.listed = L,
                                                 !.quiet = Q])
    BY <1>5 DEF FsGet
  <2>2. [FsIdle EXCEPT !.pc = "emit", !.todo = S, !.listed = L, !.quiet = Q].pc = "emit"
    BY DEF FsIdle
  <2> QED
    BY <1>1, <2>1, <2>2, FsBegins
<1>6. CASE FsLost(w) \/ FsListFails(w) \/ \E wr \in FsWrites : FsAbort(w, wr)
  BY <1>1, <1>6 DEF FsLost, FsListFails, FsAbort
<1>7. CASE FsDelete(w)
  BY <1>1, <1>2, <1>7 DEF FsDelete
<1>8. CASE \E wr \in FsWrites : FsCheck(w, wr)
  <2>1. PICK wr \in FsWrites : FsCheck(w, wr)
    BY <1>8
  <2>2. /\ fw[w].pc = "next" /\ UNCHANGED fsBackend
        /\ fw' = [v \in FsWorkers |->
              IF v = w THEN [fw[w] EXCEPT !.pc = "apply", !.write = wr, !.left = @ - 1]
                       ELSE [fw[v] EXCEPT !.quiet = @ \ {wr.doc}]]
    BY <2>1 DEF FsCheck
  <2>3. \A v \in FsWorkers : v # w => fw'[v].pc = fw[v].pc
    <3>1. ASSUME NEW v \in FsWorkers, v # w PROVE fw'[v].pc = fw[v].pc
      <4>1. PICK d : d = fw[v]
        OBVIOUS
      <4>2. FsCallInv(d) /\ fw'[v] = [d EXCEPT !.quiet = d.quiet \ {wr.doc}]
        BY <1>1, <2>2, <3>1, <4>1 DEF FsTypeInv
      <4> QED
        BY <4>1, <4>2 DEF FsCallInv
    <3> QED
      BY <3>1
  <2>4. fw'[w].pc = "apply"
    BY <1>1, <2>2 DEF FsCallInv
  <2> QED
    BY <2>2, <2>3, <2>4
<1>9. CASE FsPut(w) \/ FsInsert(w)
  <2>1. PICK c, d, o : FsFile(w, c, d, o) /\ d = fw[w].write.doc /\ c.pc # "create"
    <3>1. CASE FsPut(w)
      BY <1>2, <3>1 DEF FsPut
    <3>2. CASE FsInsert(w)
      <4>1. PICK b, c : b = fw[w] /\ c = [b EXCEPT !.pc = "path", !.obj = FsNew]
        OBVIOUS
      <4>2. FsFile(w, c, b.write.doc, FsNew) /\ c.pc = "path"
        BY <1>1, <3>2, <4>1 DEF FsInsert, FsCallInv
      <4> QED
        BY <4>1, <4>2
    <3> QED
      BY <1>9, <3>1, <3>2
  <2>2. fw[w].pc \in {"apply", "insert"} /\ UNCHANGED fsBackend
    BY <1>9 DEF FsPut, FsInsert
  <2>3. d \in FsDocs
    BY <2>1, <2>2, FsAtWrite
  <2>4. FsGoesOn(w, c)
    BY <1>1, <2>1, <2>3, FsFileGoesOn
  <2> QED
    BY <1>1, <2>1, <2>2, <2>4, FsMoves
<1>10. CASE FsFind(w)
  <2>1. PICK b, p, o, P : /\ b = fw[w] /\ p \in {"path", "insert"}
                          /\ fw' = [fw EXCEPT ![w].pc = p, ![w].obj = o, ![w].paths = P]
    BY <1>10 DEF FsFind
  <2>2. fw'[w].pc = p /\ \A v \in FsWorkers : v # w => fw'[v] = fw[v]
    BY <1>1, <2>1 DEF FsCallInv
  <2>3. fw[w].pc = "apply" /\ UNCHANGED fsBackend
    BY <1>10 DEF FsFind
  <2> QED
    BY <2>1, <2>2, <2>3
<1>11. CASE \E f \in fw[w].paths : FsPath(w, f)
  <2>1. PICK f \in fw[w].paths : FsPath(w, f)
    BY <1>11
  <2>2. PICK b, c : /\ b = fw[w] /\ fw' = [fw EXCEPT ![w] = c]
                    /\ c = IF b.paths = {f} THEN FsEnd(w) ELSE [b EXCEPT !.paths = b.paths \ {f}]
    BY <2>1 DEF FsPath
  <2>3. b.pc = "path" /\ UNCHANGED fsBackend /\ FsCallInv(b)
    BY <1>1, <2>1, <2>2 DEF FsPath
  <2>4. c.pc # "create"
    <3>1. CASE b.paths = {f}
      BY <1>2, <2>2, <3>1
    <3>2. CASE b.paths # {f}
      BY <2>2, <2>3, <3>2 DEF FsCallInv
    <3> QED
      BY <3>1, <3>2
  <2> QED
    BY <1>1, <2>2, <2>3, <2>4
<1>12. CASE FsNext(w) \/ FsThrough(w)
  <2>1. PICK b : b = fw[w]
    OBVIOUS
  <2>2. b.pc = "list" /\ UNCHANGED fsBackend /\ FsCallInv(b)
    BY <1>1, <1>12, <2>1 DEF FsNext, FsThrough
  <2>3. \A v \in FsWorkers : v # w => fw'[v] = fw[v]
    BY <1>1, <1>12 DEF FsNext, FsThrough
  <2>4. CASE FsNext(w)
    <3>1. PICK d : fw' = [fw EXCEPT ![w].next = place[d] + 1, ![w].left = @ - 1,
                                    ![w].todo = @ \union {<<d, docs[d]>>},
                                    ![w].listed = @ \union {d}]
      BY <2>4 DEF FsNext
    <3>2. PICK n, l, S, L : /\ n = place[d] + 1 /\ l = b.left - 1
                            /\ S = b.todo \union {<<d, docs[d]>>} /\ L = b.listed \union {d}
      OBVIOUS
    <3>4. PICK c : c = [b EXCEPT !.next = n, !.left = l, !.todo = S, !.listed = L]
      OBVIOUS
    <3>5. fw' = [fw EXCEPT ![w] = c]
      BY <1>1, <2>1, <3>1, <3>2, <3>4
    <3>6. c.pc = "list"
      BY <2>2, <3>4 DEF FsCallInv
    <3>3. fw'[w].pc = "list"
      BY <1>1, <3>5, <3>6
    <3> QED
      BY <2>1, <2>2, <2>3, <3>3
  <2>5. CASE FsThrough(w)
    <3>1. \/ fw'[w] = FsIdle
          \/ fw'[w] = [b EXCEPT !.pc = "emit", !.left = 0, !.next = 0, !.size = 0]
      BY <1>1, <2>1, <2>5 DEF FsThrough
    <3>2. [b EXCEPT !.pc = "emit", !.left = 0, !.next = 0, !.size = 0].pc = "emit"
      BY <2>2 DEF FsCallInv
    <3> QED
      BY <2>1, <2>2, <2>3, <3>1, <3>2
  <2> QED
    BY <1>12, <2>4, <2>5
<1>13. CASE \E e \in fw[w].todo : FsEmit(w, e)
  <2>1. PICK e \in fw[w].todo : FsEmit(w, e)
    BY <1>13
  <2>2. PICK b : b = fw[w]
    OBVIOUS
  <2>3. b.pc = "emit" /\ UNCHANGED fsBackend /\ FsCallInv(b)
    BY <1>1, <2>1, <2>2 DEF FsEmit
  <2>4. /\ \A v \in FsWorkers : v # w => fw'[v] = fw[v]
        /\ fw'[w] = FsIdle \/ fw'[w] = [b EXCEPT !.todo = b.todo \ {e}]
    BY <1>1, <2>1, <2>2 DEF FsEmit
  <2>5. [b EXCEPT !.todo = b.todo \ {e}].pc = "emit"
    BY <2>3 DEF FsCallInv
  <2> QED
    BY <2>2, <2>3, <2>4, <2>5
<1> QED
  BY <1>3, <1>4, <1>5, <1>6, <1>7, <1>8, <1>9, <1>10, <1>11, <1>12, <1>13 DEF FsWork

LEMMA FsStepInv == FsInv /\ FsStartInv /\ [FirestoreNext]_fsVars => FsInv' /\ FsStartInv'
<1> SUFFICES ASSUME FsInv, FsStartInv, [FirestoreNext]_fsVars PROVE FsInv' /\ FsStartInv'
  OBVIOUS
<1>1. CASE UNCHANGED fsVars
  <2>1. UNCHANGED <<fsBackend, docs, place, used, heap, fw, serial, contested>>
    BY <1>1 DEF fsVars, fsDict, fsGhosts
  <2>2. FsTypeInv'
    BY <2>1 DEF FsInv, FsTypeInv, FsCallInv, IsFields
  <2>3. ObjectsInv' /\ PlaceInv'
    BY <2>1 DEF FsInv, ObjectsInv, PlaceInv
  <2>4. \A d : DocStays(d)
    BY <2>1 DEF DocStays
  <2>5. \A d : (DocAgrees(d)' <=> DocAgrees(d)) /\ \A c : DocWriterInv(c, d) => DocWriterInv(c, d)'
    BY <2>4, DocStaysSo, DocStaysWritten
  <2>6. \A d, c : Lists(c, d) => Lists(c, d)'
    BY <2>1 DEF Lists
  <2>7. ASSUME NEW d \in FsDocs PROVE DocInv(d)'
    <3>1. DocInv(d)
      BY DEF FsInv
    <3>2. \A w \in FsWorkers : /\ DocWriterInv(fw[w], d) => DocWriterInv(fw[w], d)'
                              /\ Lists(fw[w], d) => Lists(fw[w], d)'
      BY <2>1, <2>5, <2>6
    <3> QED
      BY <2>1, <2>5, <3>1, <3>2 DEF DocInv
  <2>8. FsStartInv'
    BY <2>1 DEF FsStartInv, FsCreators
  <2> QED
    BY <2>2, <2>3, <2>7, <2>8 DEF FsInv
<1>2. CASE FirestoreNext
  <2>1. PICK w \in FsWorkers : FsWork(w)
    BY <1>2 DEF FirestoreNext
  <2>2. CASE FsCall(w)
    BY <2>2, FsCallPreserves, FsCallStart
  <2>3. CASE FsCreate(w)
    BY <2>3, FsCreatePreserves
  <2>4. CASE ~FsCall(w) /\ ~FsCreate(w)
    <3>7. FsInv'
      <4>1. CASE \/ FsCommit(w) \/ FsRead(w) \/ FsNext(w) \/ FsThrough(w) \/ FsListFails(w)
                 \/ FsLost(w)
        BY <4>1, FsCommitPreserves, FsReadPreserves, FsNextPreserves, FsThroughPreserves,
           FsListFailsPreserves, FsLostPreserves
      <4>2. CASE \E wr \in FsWrites : FsCheck(w, wr) \/ FsAbort(w, wr)
        BY <4>2, FsCheckPreserves, FsAbortPreserves
      <4>3. CASE FsPut(w) \/ FsDelete(w) \/ FsFind(w) \/ FsInsert(w)
        BY <4>3, FsPutPreserves, FsDeletePreserves, FsFindPreserves, FsInsertPreserves
      <4>4. CASE \E f \in fw[w].paths : FsPath(w, f)
        BY <4>4, FsPathPreserves
      <4>5. CASE \E d \in FsDocs : FsGet(w, d)
        BY <4>5, FsGetPreserves
      <4>6. CASE \E e \in fw[w].todo : FsEmit(w, e)
        BY <4>6, FsEmitPreserves
      <4> QED
        BY <2>1, <2>4, <4>1, <4>2, <4>3, <4>4, <4>5, <4>6 DEF FsWork
    <3>8. FsStartInv'
      BY <2>1, <2>4, FsWorkMoves, FsWorkStart
    <3> QED
      BY <3>7, <3>8
  <2> QED
    BY <2>2, <2>3, <2>4
<1> QED
  BY <1>1, <1>2

LEMMA FsStartInit == FirestoreInit => FsStartInv
<1> SUFFICES ASSUME FirestoreInit PROVE FsStartInv
  OBVIOUS
<1>1. \A w \in FsWorkers : fw[w].pc = "idle"
  BY FsIdleCall DEF FirestoreInit
<1> QED
  BY <1>1 DEF FirestoreInit, FsStartInv

LEMMA FsInvMeans == FsInv => FirestoreIsolated
<1> SUFFICES ASSUME FsInv PROVE FirestoreIsolated
  OBVIOUS
<1>1. ASSUME NEW w \in FsWorkers, fw[w].pc = "apply", fw[w].write.doc \notin contested
      PROVE  Allowed(fw[w].write.kind, fw[w].write.doc \in DOMAIN docs)
  <2>1. PICK d : d = fw[w].write.doc
    OBVIOUS
  <2>2. d \in FsDocs /\ WritesDoc(fw[w], d)
    BY <1>1, <2>1, FsAtWrite
  <2>3. DocWriterInv(fw[w], d)
    BY <1>1, <2>1, <2>2 DEF FsInv, DocInv
  <2> QED
    BY <1>1, <2>1, <2>3 DEF DocWriterInv
<1>2. ASSUME NEW d \in FsCalm \ contested
      PROVE  /\ d \in DOMAIN docs <=> d \in DOMAIN serial
             /\ d \in DOMAIN docs => heap[docs[d]] = serial[d]
  <2>1. d \in FsDocs /\ \A w \in FsWorkers : ~WritesDoc(fw[w], d)
    BY <1>2 DEF FsCalm, FsWriters, FsWriting, WritesDoc
  <2> QED
    BY <1>2, <2>1 DEF FsInv, DocInv, DocAgrees
<1>3. ASSUME NEW w \in FsWorkers, fw[w].pc = "emit", NEW d \in fw[w].quiet \ contested
      PROVE  /\ d \in fw[w].listed => d \in DOMAIN serial
             /\ d \in DOMAIN serial => d \in fw[w].listed \/ fw[w].rebuilt
             /\ \A e \in fw[w].todo : e[1] = d => heap[e[2]] = serial[d]
  <2>1. d \in FsDocs /\ ReliesOn(fw[w], d)
    BY <1>3 DEF FsInv, FsTypeInv, FsCallInv, ReliesOn
  <2>2. Lists(fw[w], d) /\ DocAgrees(d)
    BY <1>3, <2>1 DEF FsInv, DocInv
  <2>3. d \in fw[w].listed => d \in DOMAIN serial
    BY <2>2 DEF Lists, DocAgrees
  <2>4. d \in DOMAIN serial => d \in fw[w].listed \/ fw[w].rebuilt = TRUE
    BY <1>3, <2>2 DEF Lists, DocAgrees
  <2>5. \A e \in fw[w].todo : e[1] = d => heap[e[2]] = serial[d]
    BY <2>2 DEF Lists, DocAgrees
  <2> QED
    BY <2>3, <2>4, <2>5
<1> QED
  BY <1>1, <1>2, <1>3 DEF FirestoreIsolated

(* Without a lock, a document that no two commits write at a time holds    *)
(* what its writes say, one after the other; what a precondition found is  *)
(* still so when its write takes effect; and a stream reports of the       *)
(* documents nobody has been writing since it began those there are, as    *)
(* last written, or passes over some after a rebuild of the dict: merge    *)
(* changes StoredDocuments in place while streams hold on to them.  Of the *)
(* creation of the backend only the one that another races is excused.     *)
THEOREM DocumentsStayIsolated == DataSpec => []FirestoreIsolated
<1>1. DataInit => FsInv /\ FsStartInv
  BY DataInits, FsInitInv, FsStartInit
<1>2. (FsInv /\ FsStartInv) /\ [DataNext]_dataVars => (FsInv /\ FsStartInv)'
  BY OneDataService, FsStepInv
<1>3. FsInv /\ FsStartInv => FirestoreIsolated
  BY FsInvMeans
<1> QED
  BY <1>1, <1>2, <1>3, PTL DEF DataSpec, dataVars

------------------------------------------------------------------------------
(* Bigtable: the inductive invariant.  Cells of a column are always newest *)
(* first, one for each timestamp (BtColumnLists).  For a row that is not   *)
(* contested there is one writer at most, and the table it has found is    *)
(* still the one of that name; so the rows of that table are what the      *)
(* mutations say, whatever happens to tables that were dropped (RowInv).   *)
(* Before there is a backend, there are no rows, and a thread that creates *)
(* one by itself is the only one that does (BtStartInv).                   *)

DictsOf(K, V) == UNION {[S -> V] : S \in SUBSET K}
NewestFirst(cells) == \A i, j \in DOMAIN cells : i < j => cells[i][1] > cells[j][1]
BtColumnLists == {cells \in Seq(BtTimes \X BtVals) : NewestFirst(cells)}
BtRowDicts == DictsOf(BtRows, DictsOf(BtColumns, BtColumnLists))
BtTables   == [families : SUBSET BtFamilies, rows : BtRowDicts]

BtResting == {"idle", "first", "race", "ready", "lost"}
BtPlaces == BtResting \union {"create", "delete", "next", "find", "change", "list", "stream"}
BtCallInv(c) ==
  /\ c = [pc |-> c.pc, left |-> c.left, mut |-> c.mut, table |-> c.table, todo |-> c.todo,
          listed |-> c.listed, quiet |-> c.quiet]
  /\ c.pc \in BtPlaces /\ c.quiet \subseteq BtRows
  /\ c.pc \in {"find", "change"} => c.mut \in BtMutations
  /\ c.pc \in {"change", "list", "stream"} => c.table \in DOMAIN tables

BtTypeInv ==
  /\ tables \in Seq(BtTables) /\ current \in 0..Len(tables)
  /\ btContested \subseteq BtRows
  /\ DOMAIN bw = BtWorkers /\ \A w \in BtWorkers : BtCallInv(bw[w])

(* The rows of the table of that name; none if there is no such table *)
RowsNow == IF current = 0 THEN BtNone ELSE tables[current].rows

WritesRow(c, r) == c.pc \in {"find", "change"} /\ c.mut.row = r
ReadsRow(c, r)  == c.pc \in {"list", "stream"} /\ r \in c.quiet
ReaderInv(c, r) ==
  /\ c.table = current
  /\ c.pc = "stream" => (r \in c.listed <=> r \in DOMAIN btSerial)
RowInv(r) ==
  r \notin btContested =>
    /\ BtSame(RowsNow, r)
    /\ \A v, w \in BtWorkers : WritesRow(bw[v], r) /\ WritesRow(bw[w], r) => v = w
    /\ \A w \in BtWorkers : WritesRow(bw[w], r) /\ bw[w].pc = "change" => bw[w].table = current
    /\ \A w \in BtWorkers : ReadsRow(bw[w], r) =>
         ReaderInv(bw[w], r) /\ \A v \in BtWorkers : ~WritesRow(bw[v], r)

BtInv == BtTypeInv /\ \A r \in BtRows : RowInv(r)

BtStartInv ==
  /\ \A w \in BtWorkers : bw[w].pc = "first" => btBackend # TRUE /\ BtCreators = {w}
  /\ btBackend # TRUE => /\ current = 0 /\ btSerial = BtNone /\ btContested = {}
                         /\ \A w \in BtWorkers : bw[w].pc \in {"idle", "first", "race"}

(* Dicts with an entry more or less *)
LEMMA DictsWith ==
  ASSUME NEW K, NEW V, NEW f \in DictsOf(K, V), NEW x \in K, NEW v \in V
  PROVE  BtWith(f, x, v) \in DictsOf(K, V)
<1>1. PICK S \in SUBSET K : f \in [S -> V]
  BY DEF DictsOf
<1>2. BtWith(f, x, v) \in [S \union {x} -> V]
  BY <1>1 DEF BtWith
<1>3. S \union {x} \in SUBSET K
  OBVIOUS
<1> QED
  BY <1>2, <1>3 DEF DictsOf

LEMMA DictsDrop ==
  ASSUME NEW K, NEW V, NEW f \in DictsOf(K, V), NEW gone
  PROVE  BtDrop(f, gone) \in DictsOf(K, V)
<1>1. PICK S \in SUBSET K : f \in [S -> V]
  BY DEF DictsOf
<1>2. BtDrop(f, gone) \in [S \ gone -> V]
  BY <1>1 DEF BtDrop
<1>3. S \ gone \in SUBSET K
  OBVIOUS
<1> QED
  BY <1>2, <1>3 DEF DictsOf

LEMMA DictsAt ==
  ASSUME NEW K, NEW V, NEW f \in DictsOf(K, V)
  PROVE  DOMAIN f \subseteq K /\ \A x \in DOMAIN f : f[x] \in V
BY DEF DictsOf

LEMMA DictsGet ==
  ASSUME NEW K, NEW V, NEW f \in DictsOf(K, V), NEW x, NEW v \in V
  PROVE  BtGet(f, x, v) \in V
BY DictsAt DEF BtGet

LEMMA DictsNone ==
  ASSUME NEW K, NEW V
  PROVE  BtNone \in DictsOf(K, V)
<1>1. BtNone \in [{} -> V]
  BY DEF BtNone
<1> QED
  BY <1>1 DEF DictsOf

------------------------------------------------------------------------------
(* Bigtable: set_cell keeps a column newest first *)

(* A set of places that has, with a place, all that come before it is the  *)
(* places up to some number: take away as many of its first ones as can be.*)
LEMMA FirstPlaces ==
  ASSUME NEW n \in Nat, NEW S \in SUBSET (1..n),
         \A i \in S : \A j \in 1..n : j < i => j \in S
  PROVE  \E m \in 0..n : S = 1..m
<1> DEFINE Rest(k) == S \ (1..k)
           F == {Rest(k) : k \in {k \in 0..n : 1..k \subseteq S}}
<1>1. S \in F
  <2>1. 0 \in {k \in 0..n : 1..k \subseteq S} /\ Rest(0) = S
    OBVIOUS
  <2> QED
    BY <2>1
<1>2. F \subseteq FiniteSubsetsOf(1..n)
  <2>1. ASSUME NEW k PROVE Rest(k) \in FiniteSubsetsOf(1..n)
    <3>1. Rest(k) \subseteq 1..n
      OBVIOUS
    <3>2. IsFiniteSet(1..n)
      BY FS_Interval
    <3> HIDE DEF Rest
    <3>3. IsFiniteSet(Rest(k))
      BY <3>1, <3>2, FS_Subset
    <3> QED
      BY <3>1, <3>3 DEF FiniteSubsetsOf
  <2> QED
    BY <2>1
<1>3. IsWellFoundedOn(StrictSubsetOrdering(1..n), FiniteSubsetsOf(1..n))
  BY FS_StrictSubsetOrderingWellFounded
<1>4. PICK T \in F : \A U \in F : ~ (<<U, T>> \in StrictSubsetOrdering(1..n))
  <2> HIDE DEF F
  <2> QED
    BY <1>1, <1>2, <1>3, WFMin
<1>5. PICK m \in 0..n : 1..m \subseteq S /\ T = Rest(m)
  BY <1>4
<1>6. ASSUME NEW i \in S, i \notin 1..m PROVE FALSE
  <2>1. m + 1 \in S /\ m + 1 \in 1..n /\ m + 1 \notin 1..m
    BY <1>5, <1>6
  <2>2. 1..(m + 1) \subseteq S
    BY <1>5, <2>1
  <2>3. Rest(m + 1) \in F
    BY <2>1, <2>2
  <2>4. PICK U : U = Rest(m + 1)
    OBVIOUS
  <2>5. U \subseteq T /\ m + 1 \in T /\ m + 1 \notin U /\ T \subseteq 1..n
    BY <1>5, <2>1, <2>4
  <2>6. <<U, T>> \in (SUBSET (1..n)) \X (SUBSET (1..n)) /\ <<U, T>>[1] = U /\ <<U, T>>[2] = T
        /\ U # T
    BY <2>5
  <2>7. <<U, T>> \in StrictSubsetOrdering(1..n)
    BY <2>5, <2>6 DEF StrictSubsetOrdering
  <2> HIDE DEF F, Rest
  <2> QED
    BY <1>4, <2>3, <2>4, <2>7
<1> QED
  BY <1>5, <1>6

LEMMA CellTimes ==
  ASSUME NEW column \in Seq(BtTimes \X BtVals), NEW i \in DOMAIN column
  PROVE  column[i][1] \in Int /\ column[i] \in BtTimes \X BtVals
<1>1. column[i] \in BtTimes \X BtVals
  BY ElementOfSeq
<1>2. column[i][1] \in BtTimes
  BY <1>1
<1> QED
  BY <1>1, <1>2, BigtableAssumption

(* There is an order for a new cell before the others: behind the newer. *)
LEMMA OrderExists ==
  ASSUME NEW column \in BtColumnLists, NEW ts \in BtTimes, NEW val \in BtVals,
         \A i \in DOMAIN column : column[i][1] # ts
  PROVE  LET cells == <<<<ts, val>>>> \o column
         IN \E p \in Bijection(DOMAIN cells, DOMAIN cells) :
              \A i, j \in DOMAIN cells : i < j => cells[p[i]][1] >= cells[p[j]][1]
<1>0. PICK n, S : n = Len(column) /\ S = {i \in 1..n : column[i][1] > ts}
  OBVIOUS
<1>a. PICK cells : cells = <<<<ts, val>>>> \o column
  OBVIOUS
<1>1. /\ column \in Seq(BtTimes \X BtVals) /\ NewestFirst(column) /\ n \in Nat
      /\ DOMAIN column = 1..n /\ ts \in Int
  BY <1>0, BigtableAssumption, LenProperties DEF BtColumnLists
<1>2. \A i \in 1..n : column[i][1] \in Int
  BY <1>1, CellTimes
<1>3. \A i, j \in 1..n : i < j => column[i][1] > column[j][1]
  BY <1>1 DEF NewestFirst
<1>4. S \in SUBSET (1..n) /\ \A i \in S : \A j \in 1..n : j < i => j \in S
  BY <1>0, <1>1, <1>2, <1>3
<1>5. PICK m \in 0..n : S = 1..m
  BY <1>1, <1>4, FirstPlaces
<1>6. m \in Nat /\ m <= n
  BY <1>1, <1>5
<1>7. \A i \in 1..n : IF i <= m THEN column[i][1] > ts ELSE ts > column[i][1]
  BY <1>0, <1>1, <1>2, <1>5, <1>6
<1>8. /\ DOMAIN cells = 1..(n + 1) /\ cells[1] = <<ts, val>>
      /\ \A i \in 1..n : cells[i + 1] = column[i]
  <2>1. <<<<ts, val>>>> \in Seq(BtTimes \X BtVals) /\ Len(<<<<ts, val>>>>) = 1
        /\ <<<<ts, val>>>>[1] = <<ts, val>>
    OBVIOUS
  <2> QED
    BY <1>0, <1>a, <1>1, <2>1, ConcatProperties, LenProperties
<1>9. PICK p : p = [i \in 1..(n + 1) |-> IF i <= m THEN i + 1 ELSE IF i = m + 1 THEN 1 ELSE i]
  OBVIOUS
<1>10. \A i \in 1..(n + 1) : /\ i <= m => p[i] = i + 1
                             /\ i = m + 1 => p[i] = 1
                             /\ i > m + 1 => p[i] = i
  BY <1>1, <1>6, <1>9
<1>11. p \in Bijection(DOMAIN cells, DOMAIN cells)
  <2>1. p \in [1..(n + 1) -> 1..(n + 1)]
    BY <1>1, <1>6, <1>9
  <2>2. \A i, j \in 1..(n + 1) : p[i] = p[j] => i = j
    BY <1>1, <1>6, <1>10
  <2>3. ASSUME NEW j \in 1..(n + 1) PROVE \E i \in 1..(n + 1) : p[i] = j
    <3>1. CASE j = 1
      <4>1. m + 1 \in 1..(n + 1)
        BY <1>1, <1>6
      <4> QED
        BY <1>10, <3>1, <4>1
    <3>2. CASE j > 1 /\ j <= m + 1
      <4>1. j - 1 \in 1..(n + 1) /\ j - 1 <= m /\ (j - 1) + 1 = j
        BY <1>1, <1>6, <3>2
      <4> QED
        BY <1>10, <4>1
    <3>3. CASE j > m + 1
      BY <1>10, <3>3
    <3> QED
      BY <1>1, <1>6, <2>3, <3>1, <3>2, <3>3
  <2> QED
    BY <1>8, <2>1, <2>2, <2>3 DEF Bijection, Injection, Surjection, IsInjective
<1>12. ASSUME NEW i \in 1..(n + 1)
       PROVE  /\ i <= m => i \in 1..n /\ cells[p[i]][1] = column[i][1]
              /\ i = m + 1 => cells[p[i]][1] = ts
              /\ i > m + 1 => i - 1 \in 1..n /\ cells[p[i]][1] = column[i - 1][1]
  <2>1. ASSUME i <= m PROVE i \in 1..n /\ cells[p[i]][1] = column[i][1]
    <3>1. i \in 1..n /\ p[i] = i + 1 /\ cells[i + 1] = column[i]
      BY <1>1, <1>6, <1>8, <1>10, <2>1
    <3> QED
      BY <3>1
  <2>2. ASSUME i = m + 1 PROVE cells[p[i]][1] = ts
    <3>1. p[i] = 1
      BY <1>10, <2>2
    <3>2. PICK c : c = cells[p[i]]
      OBVIOUS
    <3>3. c = <<ts, val>>
      BY <1>8, <3>1, <3>2
    <3>4. c[1] = ts
      BY <3>3
    <3> QED
      BY <3>2, <3>4
  <2>3. ASSUME i > m + 1 PROVE i - 1 \in 1..n /\ cells[p[i]][1] = column[i - 1][1]
    <3>0. i - 1 \in 1..n /\ (i - 1) + 1 = i
      BY <1>1, <1>6, <2>3
    <3>1. p[i] = i
      BY <1>10, <2>3
    <3>2. cells[i] = column[i - 1]
      BY <1>8, <3>0
    <3> QED
      BY <3>0, <3>1, <3>2
  <2> QED
    BY <2>1, <2>2, <2>3
<1>13. /\ \A i \in 1..(n + 1) : i <= m => i \in 1..n /\ cells[p[i]][1] = column[i][1]
       /\ \A i \in 1..(n + 1) : i = m + 1 => cells[p[i]][1] = ts
       /\ \A i \in 1..(n + 1) : i > m + 1 => i - 1 \in 1..n /\ cells[p[i]][1] = column[i - 1][1]
  BY <1>12
<1>14. ASSUME NEW i \in 1..(n + 1), NEW j \in 1..(n + 1), i < j
       PROVE  cells[p[i]][1] >= cells[p[j]][1]
  <2>1. PICK a : a = cells[p[i]][1]
    OBVIOUS
  <2>2. PICK b : b = cells[p[j]][1]
    OBVIOUS
  <2>3. /\ i <= m => i \in 1..n /\ a = column[i][1]
        /\ i = m + 1 => a = ts
        /\ i > m + 1 => i - 1 \in 1..n /\ a = column[i - 1][1]
    BY <1>13, <2>1
  <2>4. /\ j <= m => j \in 1..n /\ b = column[j][1]
        /\ j = m + 1 => b = ts
        /\ j > m + 1 => j - 1 \in 1..n /\ b = column[j - 1][1]
    BY <1>13, <2>2
  <2>5. j <= m => a >= b
    BY <1>1, <1>2, <1>3, <1>6, <1>14, <2>3, <2>4
  <2>6. j = m + 1 => a >= b
    BY <1>1, <1>2, <1>6, <1>7, <1>14, <2>3, <2>4
  <2>7. j > m + 1 /\ i = m + 1 => a >= b
    BY <1>1, <1>2, <1>6, <1>7, <1>14, <2>3, <2>4
  <2>8. ASSUME j > m + 1, i <= m PROVE a >= b
    <3>1. i \in 1..n /\ j - 1 \in 1..n /\ i < j - 1
      BY <1>1, <1>6, <2>3, <2>4, <2>8
    <3>2. column[i][1] > column[j - 1][1]
      BY <1>3, <3>1
    <3> QED
      BY <1>2, <2>3, <2>4, <2>8, <3>1, <3>2
  <2>9. ASSUME j > m + 1, i > m + 1 PROVE a >= b
    <3>1. i - 1 \in 1..n /\ j - 1 \in 1..n /\ i - 1 < j - 1
      BY <1>1, <1>6, <1>14, <2>3, <2>4, <2>9
    <3>2. column[i - 1][1] > column[j - 1][1]
      BY <1>3, <3>1
    <3> QED
      BY <1>2, <2>3, <2>4, <2>9, <3>1, <3>2
  <2>10. j <= m \/ j = m + 1 \/ (j > m + 1 /\ (i <= m \/ i = m + 1 \/ i > m + 1))
    <3>1. i \in Int /\ j \in Int /\ m \in Int
      BY <1>1, <1>6
    <3> QED
      BY <3>1
  <2>11. a >= b
    BY <2>5, <2>6, <2>7, <2>8, <2>9, <2>10
  <2> QED
    BY <2>1, <2>2, <2>11
<1> QED
  BY <1>a, <1>8, <1>11, <1>14

(* Cells put in order are the same cells. *)
LEMMA NewestFirstShows ==
  ASSUME NEW column \in BtColumnLists, NEW ts \in BtTimes, NEW val \in BtVals,
         \A i \in DOMAIN column : column[i][1] # ts
  PROVE  LET sorted == BtNewestFirst(<<<<ts, val>>>> \o column)
         IN /\ sorted \in BtColumnLists
            /\ {sorted[i] : i \in DOMAIN sorted}
                 = {column[i] : i \in DOMAIN column} \union {<<ts, val>>}
<1>1. PICK cells : cells = <<<<ts, val>>>> \o column
  OBVIOUS
<1>2. PICK n \in Nat : n = Len(column)
  BY LenProperties DEF BtColumnLists
<1>3. column \in Seq(BtTimes \X BtVals) /\ DOMAIN column = 1..n /\ NewestFirst(column)
  BY <1>2, LenProperties DEF BtColumnLists
<1>4. /\ DOMAIN cells = 1..(n + 1) /\ cells[1] = <<ts, val>> /\ cells \in Seq(BtTimes \X BtVals)
      /\ \A i \in 1..n : cells[i + 1] = column[i]
  <2>1. <<<<ts, val>>>> \in Seq(BtTimes \X BtVals) /\ Len(<<<<ts, val>>>>) = 1
        /\ <<<<ts, val>>>>[1] = <<ts, val>>
    OBVIOUS
  <2> QED
    BY <1>1, <1>2, <1>3, <2>1, ConcatProperties, LenProperties
<1>5. \A i \in 1..(n + 1) : cells[i] \in BtTimes \X BtVals /\ cells[i][1] \in Int
  BY <1>4, CellTimes
<1>6. ASSUME NEW i \in 2..(n + 1) PROVE i - 1 \in 1..n /\ cells[i] = column[i - 1]
  <2>1. i - 1 \in 1..n /\ (i - 1) + 1 = i
    OBVIOUS
  <2> QED
    BY <1>4, <2>1
<1>7. \A i, j \in 1..(n + 1) : i < j => cells[i][1] # cells[j][1]
  <2>1. ASSUME NEW i \in 1..(n + 1), NEW j \in 1..(n + 1), i < j
        PROVE  cells[i][1] # cells[j][1]
    <3>1. j - 1 \in 1..n /\ cells[j] = column[j - 1]
      <4>1. j \in 2..(n + 1)
        BY <2>1
      <4> QED
        BY <1>6, <4>1
    <3>2. CASE i = 1
      <4>1. cells[i] = <<ts, val>>
        BY <1>4, <3>2
      <4>2. cells[j][1] # ts
        BY <1>3, <3>1
      <4> QED
        BY <4>1, <4>2
    <3>3. CASE i # 1
      <4>1. i \in 2..(n + 1) /\ i - 1 < j - 1
        BY <2>1, <3>3
      <4>2. i - 1 \in 1..n /\ cells[i] = column[i - 1]
        BY <1>6, <4>1
      <4>3. column[i - 1][1] > column[j - 1][1]
        BY <1>3, <3>1, <4>1, <4>2 DEF NewestFirst
      <4>4. column[i - 1][1] \in Int /\ column[j - 1][1] \in Int
        BY <1>3, <3>1, <4>2, CellTimes
      <4> QED
        BY <3>1, <4>2, <4>3, <4>4
    <3> QED
      BY <3>2, <3>3
  <2> QED
    BY <2>1
<1>8. \A i, j \in 1..(n + 1) : i # j => cells[i][1] # cells[j][1]
  <2>1. \A i, j \in 1..(n + 1) : i # j => i < j \/ j < i
    OBVIOUS
  <2> QED
    BY <1>7, <2>1
<1>9. PICK p : /\ p \in Bijection(DOMAIN cells, DOMAIN cells)
               /\ \A i, j \in DOMAIN cells : i < j => cells[p[i]][1] >= cells[p[j]][1]
               /\ BtNewestFirst(cells) = [i \in DOMAIN cells |-> cells[p[i]]]
  BY <1>1, OrderExists DEF BtNewestFirst
<1>10. PICK sorted : sorted = [i \in 1..(n + 1) |-> cells[p[i]]]
  OBVIOUS
<1>11. /\ p \in [1..(n + 1) -> 1..(n + 1)]
       /\ \A i, j \in 1..(n + 1) : i # j => p[i] # p[j]
       /\ \A j \in 1..(n + 1) : \E i \in 1..(n + 1) : p[i] = j
  BY <1>4, <1>9 DEF Bijection, Injection, Surjection, IsInjective
<1>12. sorted \in [1..(n + 1) -> BtTimes \X BtVals]
  BY <1>5, <1>10, <1>11
<1>13. sorted \in Seq(BtTimes \X BtVals) /\ DOMAIN sorted = 1..(n + 1)
  BY <1>12
<1>14. NewestFirst(sorted)
  <2>1. ASSUME NEW i \in 1..(n + 1), NEW j \in 1..(n + 1), i < j
        PROVE  sorted[i][1] > sorted[j][1]
    <3>1. PICK a, b : a = cells[p[i]][1] /\ b = cells[p[j]][1]
      OBVIOUS
    <3>2. p[i] \in 1..(n + 1) /\ p[j] \in 1..(n + 1) /\ p[i] # p[j]
      <4>1. i # j
        BY <2>1
      <4> QED
        BY <1>11, <4>1
    <3>3. a \in Int /\ b \in Int /\ a # b
      BY <1>5, <1>8, <3>1, <3>2
    <3>4. a >= b
      BY <1>4, <1>9, <2>1, <3>1
    <3>5. sorted[i] = cells[p[i]] /\ sorted[j] = cells[p[j]]
      BY <1>10
    <3> QED
      BY <3>1, <3>3, <3>4, <3>5
  <2> QED
    BY <1>13, <2>1 DEF NewestFirst
<1>15. {sorted[i] : i \in 1..(n + 1)} = {cells[i] : i \in 1..(n + 1)}
  <2>1. \A i \in 1..(n + 1) : p[i] \in 1..(n + 1) /\ sorted[i] = cells[p[i]]
    BY <1>10, <1>11
  <2>2. \A j \in 1..(n + 1) : \E i \in 1..(n + 1) : sorted[i] = cells[j]
    BY <1>10, <1>11
  <2> QED
    BY <2>1, <2>2
<1>16. {cells[i] : i \in 1..(n + 1)} = {column[i] : i \in 1..n} \union {<<ts, val>>}
  <2>1. ASSUME NEW i \in 1..(n + 1)
        PROVE  cells[i] \in {column[j] : j \in 1..n} \union {<<ts, val>>}
    <3>1. CASE i = 1
      BY <1>4, <3>1
    <3>2. CASE i # 1
      <4>1. i \in 2..(n + 1)
        BY <3>2
      <4> QED
        BY <1>6, <4>1
    <3> QED
      BY <3>1, <3>2
  <2>2. ASSUME NEW i \in 1..n PROVE column[i] \in {cells[j] : j \in 1..(n + 1)}
    <3>1. i + 1 \in 1..(n + 1)
      OBVIOUS
    <3> QED
      BY <1>4, <3>1
  <2>3. 1 \in 1..(n + 1)
    OBVIOUS
  <2>4. \A x \in {cells[i] : i \in 1..(n + 1)} : x \in {column[i] : i \in 1..n} \union {<<ts, val>>}
    BY <2>1
  <2>5. \A x \in {column[i] : i \in 1..n} : x \in {cells[i] : i \in 1..(n + 1)}
    BY <2>2
  <2>6. <<ts, val>> \in {cells[i] : i \in 1..(n + 1)}
    <3>1. cells[1] = <<ts, val>>
      BY <1>4
    <3> QED
      BY <2>3, <3>1
  <2> QED
    BY <2>4, <2>5, <2>6
<1>17. BtNewestFirst(cells) = sorted
  BY <1>4, <1>9, <1>10
<1>18. sorted \in BtColumnLists
  BY <1>13, <1>14 DEF BtColumnLists
<1> QED
  BY <1>1, <1>3, <1>13, <1>15, <1>16, <1>17, <1>18

(* set_cell makes of a column what it is to be, and newest first again. *)
LEMMA SetCellShows ==
  ASSUME NEW column \in BtColumnLists, NEW ts \in BtTimes, NEW val \in BtVals
  PROVE  /\ BtSetCell(column, ts, val) \in BtColumnLists
         /\ \A cells : BtShows(column, cells)
                         => BtShows(BtSetCell(column, ts, val), BtWith(cells, ts, val))
<1>1. PICK after : after = BtSetCell(column, ts, val)
  OBVIOUS
<1>2. PICK n \in Nat : n = Len(column)
  BY LenProperties DEF BtColumnLists
<1>3. column \in Seq(BtTimes \X BtVals) /\ DOMAIN column = 1..n /\ NewestFirst(column)
  BY <1>2, LenProperties DEF BtColumnLists
<1>4. PICK cell : cell = <<ts, val>>
  OBVIOUS
<1>5. cell \in BtTimes \X BtVals /\ cell[1] = ts /\ cell = <<ts, val>>
  BY <1>4
<1>6. after \in BtColumnLists
      /\ {after[i] : i \in DOMAIN after}
           = {column[i] : i \in {i \in DOMAIN column : column[i][1] # ts}} \union {cell}
  <2>1. CASE \E i \in DOMAIN column : column[i][1] = ts
    <3>1. after = [i \in 1..n |-> IF column[i][1] = ts THEN cell ELSE column[i]]
      BY <1>1, <1>3, <1>4, <2>1 DEF BtSetCell
    <3>2. \A i \in 1..n : column[i] \in BtTimes \X BtVals
      BY <1>3, CellTimes
    <3>3. after \in [1..n -> BtTimes \X BtVals]
      BY <1>5, <3>1, <3>2
    <3>4. after \in Seq(BtTimes \X BtVals) /\ DOMAIN after = 1..n
      BY <3>3
    <3>5. \A i \in 1..n : after[i][1] = column[i][1]
      BY <1>5, <3>1
    <3>6. NewestFirst(after)
      BY <1>3, <3>4, <3>5 DEF NewestFirst
    <3>7. PICK k \in 1..n : column[k][1] = ts
      BY <1>3, <2>1
    <3>8. after[k] = cell
      BY <3>1, <3>7
    <3>9. \A i \in 1..n : column[i][1] # ts => after[i] = column[i]
      BY <3>1
    <3>10. \A i \in 1..n : column[i][1] = ts => after[i] = cell
      BY <3>1
    <3>11. {after[i] : i \in 1..n} = {column[i] : i \in {i \in 1..n : column[i][1] # ts}} \union {cell}
      BY <3>7, <3>8, <3>9, <3>10
    <3> QED
      BY <1>3, <3>4, <3>6, <3>11 DEF BtColumnLists
  <2>2. CASE \A i \in DOMAIN column : column[i][1] # ts
    <3>1. after = BtNewestFirst(<<<<ts, val>>>> \o column)
      BY <1>1, <2>2 DEF BtSetCell
    <3>2. {i \in DOMAIN column : column[i][1] # ts} = DOMAIN column
      BY <2>2
    <3> QED
      BY <1>4, <2>2, <3>1, <3>2, NewestFirstShows
  <2> QED
    BY <2>1, <2>2
<1>7. ASSUME NEW cells, BtShows(column, cells)
      PROVE  BtShows(after, BtWith(cells, ts, val))
  <2>1. {column[i] : i \in DOMAIN column} = {<<t, cells[t]>> : t \in DOMAIN cells}
    BY <1>7 DEF BtShows
  <2>2. {column[i] : i \in {i \in DOMAIN column : column[i][1] # ts}}
          = {<<t, cells[t]>> : t \in DOMAIN cells \ {ts}}
    <3>1. ASSUME NEW i \in DOMAIN column, column[i][1] # ts
          PROVE  column[i] \in {<<t, cells[t]>> : t \in DOMAIN cells \ {ts}}
      <4>1. PICK t \in DOMAIN cells : column[i] = <<t, cells[t]>>
        BY <2>1
      <4>2. column[i][1] = t
        BY <4>1
      <4> QED
        BY <3>1, <4>1, <4>2
    <3>2. ASSUME NEW t \in DOMAIN cells, t # ts
          PROVE  \E i \in DOMAIN column : column[i][1] # ts /\ column[i] = <<t, cells[t]>>
      <4>1. PICK i \in DOMAIN column : column[i] = <<t, cells[t]>>
        BY <2>1
      <4>2. column[i][1] = t
        BY <4>1
      <4> QED
        BY <3>2, <4>1, <4>2
    <3> QED
      BY <3>1, <3>2
  <2>3. PICK with : with = BtWith(cells, ts, val)
    OBVIOUS
  <2>4. /\ DOMAIN with = DOMAIN cells \union {ts} /\ with[ts] = val
        /\ \A t \in DOMAIN cells \ {ts} : with[t] = cells[t]
    BY <2>3 DEF BtWith
  <2>5. {<<t, with[t]>> : t \in DOMAIN with}
          = {<<t, cells[t]>> : t \in DOMAIN cells \ {ts}} \union {<<ts, val>>}
    BY <2>4
  <2>6. {after[i] : i \in DOMAIN after} = {<<t, with[t]>> : t \in DOMAIN with}
    BY <1>4, <1>6, <2>2, <2>5
  <2>7. NewestFirst(after)
    BY <1>6 DEF BtColumnLists
  <2> QED
    BY <2>3, <2>6, <2>7 DEF BtShows, NewestFirst
<1> QED
  BY <1>1, <1>6, <1>7

LEMMA EmptyShows == <<>> \in BtColumnLists /\ BtShows(<<>>, BtNone)
<1>1. <<>> \in Seq(BtTimes \X BtVals) /\ DOMAIN <<>> = {}
  OBVIOUS
<1>2. DOMAIN BtNone = {}
  BY DEF BtNone
<1> QED
  BY <1>1, <1>2 DEF BtColumnLists, NewestFirst, BtShows

------------------------------------------------------------------------------
(* Bigtable: what a mutation makes of the rows *)

LEMMA MutationSo ==
  ASSUME NEW m \in BtMutations
  PROVE  /\ m.row \in BtRows /\ m.col \in BtColumns
         /\ m.kind = "set_cell" => m.ts \in BtTimes /\ m.val \in BtVals
BY DEF BtMutations

(* The column of a set_cell once it is set *)
CellsSet(dict, m) == BtSetCell(BtColumn(dict, m, <<>>), m.ts, m.val)

LEMMA ColumnTyped ==
  ASSUME NEW dict \in BtRowDicts, NEW m
  PROVE  BtColumn(dict, m, <<>>) \in BtColumnLists
<1>1. BtNone \in DictsOf(BtColumns, BtColumnLists)
  BY DictsNone
<1>2. BtGet(dict, m.row, BtNone) \in DictsOf(BtColumns, BtColumnLists)
  BY <1>1, DictsGet DEF BtRowDicts
<1> QED
  BY <1>2, DictsGet, EmptyShows DEF BtColumn

LEMMA ApplyTyped ==
  ASSUME NEW dict \in BtRowDicts, NEW m \in BtMutations
  PROVE  BtApply(dict, m, CellsSet(dict, m)) \in BtRowDicts
<1>1. PICK V : V = DictsOf(BtColumns, BtColumnLists)
  OBVIOUS
<1>2. dict \in DictsOf(BtRows, V) /\ BtNone \in V
  BY <1>1, DictsNone DEF BtRowDicts
<1>3. CASE m.kind = "set_cell"
  <2>1. PICK cells : cells = CellsSet(dict, m)
    OBVIOUS
  <2>2. cells \in BtColumnLists
    BY <1>3, <2>1, MutationSo, ColumnTyped, SetCellShows DEF CellsSet
  <2>3. PICK row : row = BtWith(BtGet(dict, m.row, BtNone), m.col, cells)
    OBVIOUS
  <2>4. BtGet(dict, m.row, BtNone) \in V
    BY <1>2, DictsGet
  <2>5. row \in V
    BY <1>1, <2>2, <2>3, <2>4, MutationSo, DictsWith
  <2>6. BtWith(dict, m.row, row) \in DictsOf(BtRows, V)
    BY <1>2, <2>5, MutationSo, DictsWith
  <2> QED
    BY <1>1, <1>3, <2>1, <2>3, <2>6 DEF BtApply, BtRowDicts
<1>4. CASE m.kind = "delete_row"
  <2>1. BtDrop(dict, {m.row}) \in DictsOf(BtRows, V)
    BY <1>2, DictsDrop
  <2> QED
    BY <1>1, <1>4, <2>1 DEF BtApply, BtRemove, BtRowDicts
<1>5. CASE m.kind \notin {"set_cell", "delete_row"}
  <2>1. PICK gone : BtRemove(dict, m)
                      = [k \in DOMAIN dict |-> IF k = m.row THEN BtDrop(dict[k], gone)
                                               ELSE dict[k]]
    BY <1>5 DEF BtRemove
  <2>2. DOMAIN dict \in SUBSET BtRows /\ \A k \in DOMAIN dict : dict[k] \in V
    BY <1>2, DictsAt
  <2>3. \A k \in DOMAIN dict : BtDrop(dict[k], gone) \in V
    BY <1>1, <2>2, DictsDrop
  <2>4. BtRemove(dict, m) \in [DOMAIN dict -> V]
    BY <2>1, <2>2, <2>3
  <2> QED
    BY <1>1, <1>5, <2>2, <2>4 DEF BtApply, BtRowDicts, DictsOf
<1> QED
  BY <1>3, <1>4, <1>5

(* Other rows stay. *)
LEMMA ApplyAside ==
  ASSUME NEW dict, NEW m, NEW cells, NEW r, r # m.row
  PROVE  /\ r \in DOMAIN BtApply(dict, m, cells) <=> r \in DOMAIN dict
         /\ r \in DOMAIN dict => BtApply(dict, m, cells)[r] = dict[r]
<1>1. CASE m.kind = "set_cell"
  BY <1>1 DEF BtApply, BtWith
<1>2. CASE m.kind = "delete_row"
  BY <1>2 DEF BtApply, BtRemove, BtDrop
<1>3. CASE m.kind \notin {"set_cell", "delete_row"}
  BY <1>3 DEF BtApply, BtRemove
<1> QED
  BY <1>1, <1>2, <1>3

(* What BtSame says of the ghost, of any rows and cells *)
SameRow(now, said, r) ==
  /\ r \in DOMAIN now <=> r \in DOMAIN said
  /\ r \in DOMAIN now =>
       /\ DOMAIN now[r] = DOMAIN said[r]
       /\ \A c \in DOMAIN now[r] : BtShows(now[r][c], said[r][c])

LEMMA SameColumn ==
  ASSUME NEW now, NEW said, NEW m, SameRow(now, said, m.row)
  PROVE  BtShows(BtColumn(now, m, <<>>), BtColumn(said, m, BtNone))
<1>1. CASE m.row \in DOMAIN now /\ m.col \in DOMAIN now[m.row]
  BY <1>1 DEF SameRow, BtColumn, BtGet
<1>2. CASE m.row \in DOMAIN now /\ m.col \notin DOMAIN now[m.row]
  BY <1>2, EmptyShows DEF SameRow, BtColumn, BtGet
<1>3. CASE m.row \notin DOMAIN now
  <2>1. m.col \notin DOMAIN BtNone
    BY DEF BtNone
  <2> QED
    BY <1>3, <2>1, EmptyShows DEF SameRow, BtColumn, BtGet
<1> QED
  BY <1>1, <1>2, <1>3

LEMMA ApplySame ==
  ASSUME NEW now \in BtRowDicts, NEW said, NEW m \in BtMutations, SameRow(now, said, m.row)
  PROVE  SameRow(BtApply(now, m, CellsSet(now, m)),
                 BtApply(said, m, BtWith(BtColumn(said, m, BtNone), m.ts, m.val)), m.row)
<1>1. PICK r, n, s : /\ r = m.row /\ n = BtApply(now, m, CellsSet(now, m))
                     /\ s = BtApply(said, m, BtWith(BtColumn(said, m, BtNone), m.ts, m.val))
  OBVIOUS
<1>2. CASE m.kind = "set_cell"
  <2>1. PICK cells, held : cells = CellsSet(now, m)
                           /\ held = BtWith(BtColumn(said, m, BtNone), m.ts, m.val)
    OBVIOUS
  <2>2. BtShows(cells, held)
    BY <1>2, <2>1, MutationSo, ColumnTyped, SameColumn, SetCellShows DEF CellsSet
  <2>3. PICK a, b : a = BtGet(now, r, BtNone) /\ b = BtGet(said, r, BtNone)
    OBVIOUS
  <2>4. DOMAIN a = DOMAIN b /\ \A c \in DOMAIN a : BtShows(a[c], b[c])
    <3>1. DOMAIN BtNone = {}
      BY DEF BtNone
    <3> QED
      BY <1>1, <2>3, <3>1 DEF SameRow, BtGet
  <2>5. PICK x, y : x = BtWith(a, m.col, cells) /\ y = BtWith(b, m.col, held)
    OBVIOUS
  <2>6. n = BtWith(now, r, x) /\ s = BtWith(said, r, y)
    BY <1>1, <1>2, <2>1, <2>3, <2>5 DEF BtApply
  <2>7. r \in DOMAIN n /\ r \in DOMAIN s /\ n[r] = x /\ s[r] = y
    BY <2>6 DEF BtWith
  <2>8. /\ DOMAIN x = DOMAIN a \union {m.col} /\ DOMAIN y = DOMAIN b \union {m.col}
        /\ x[m.col] = cells /\ y[m.col] = held
        /\ \A c \in DOMAIN a : c # m.col => x[c] = a[c]
        /\ \A c \in DOMAIN b : c # m.col => y[c] = b[c]
    BY <2>5 DEF BtWith
  <2>9. DOMAIN x = DOMAIN y /\ \A c \in DOMAIN x : BtShows(x[c], y[c])
    BY <2>2, <2>4, <2>8
  <2> QED
    BY <1>1, <2>7, <2>9 DEF SameRow
<1>3. CASE m.kind = "delete_row"
  <2>1. r \notin DOMAIN n /\ r \notin DOMAIN s
    BY <1>1, <1>3 DEF BtApply, BtRemove, BtDrop
  <2> QED
    BY <1>1, <2>1 DEF SameRow
<1>4. CASE m.kind \notin {"set_cell", "delete_row"}
  <2>1. PICK gone : gone = {c \in BtColumns : IF m.kind = "delete_column" THEN c = m.col
                                              ELSE c[1] = m.col[1]}
    OBVIOUS
  <2>2. /\ n = [k \in DOMAIN now |-> IF k = r THEN BtDrop(now[k], gone) ELSE now[k]]
        /\ s = [k \in DOMAIN said |-> IF k = r THEN BtDrop(said[k], gone) ELSE said[k]]
    BY <1>1, <1>4, <2>1 DEF BtApply, BtRemove
  <2>3. r \in DOMAIN n <=> r \in DOMAIN s
    BY <1>1, <2>2 DEF SameRow
  <2>4. ASSUME r \in DOMAIN n
        PROVE  DOMAIN n[r] = DOMAIN s[r] /\ \A c \in DOMAIN n[r] : BtShows(n[r][c], s[r][c])
    <3>1. DOMAIN now[r] = DOMAIN said[r] /\ \A c \in DOMAIN now[r] : BtShows(now[r][c], said[r][c])
      BY <1>1, <2>2, <2>4 DEF SameRow
    <3>2. n[r] = BtDrop(now[r], gone) /\ s[r] = BtDrop(said[r], gone)
      BY <2>2, <2>3, <2>4
    <3> QED
      BY <3>1, <3>2 DEF BtDrop
  <2> QED
    BY <1>1, <2>3, <2>4 DEF SameRow
<1> QED
  BY <1>2, <1>3, <1>4

------------------------------------------------------------------------------
(* Bigtable: what a step of one worker leaves as it is *)

(* Worker w goes on as c, and the others rely on no more rows than before. *)
BtLike(d, c) ==
  /\ d = [pc |-> c.pc, left |-> c.left, mut |-> c.mut, table |-> c.table, todo |-> c.todo,
          listed |-> c.listed, quiet |-> d.quiet]
  /\ d.quiet \subseteq c.quiet
BtGoesOn(w, c) ==
  DOMAIN bw' = BtWorkers /\ bw'[w] = c /\ \A v \in BtWorkers : v # w => BtLike(bw'[v], bw[v])

(* Row r of the table of that name, and of the mutations *)
RowStays(r) ==
  /\ current' = current
  /\ BtSame(RowsNow, r) => BtSame(RowsNow, r)'
  /\ r \in DOMAIN btSerial' <=> r \in DOMAIN btSerial

LEMMA BtExceptGoesOn ==
  ASSUME BtTypeInv, NEW w \in BtWorkers, NEW c, bw' = [bw EXCEPT ![w] = c]
  PROVE  BtGoesOn(w, c)
<1>1. DOMAIN bw' = BtWorkers /\ bw'[w] = c /\ \A v \in BtWorkers : v # w => bw'[v] = bw[v]
  BY DEF BtTypeInv
<1>2. ASSUME NEW v \in BtWorkers, v # w PROVE BtLike(bw'[v], bw[v])
  <2>1. PICK d : d = bw[v]
    OBVIOUS
  <2>2. bw'[v] = d /\ BtCallInv(d)
    BY <1>1, <1>2, <2>1 DEF BtTypeInv
  <2>3. BtLike(d, d)
    BY <2>2 DEF BtCallInv, BtLike
  <2> QED
    BY <2>1, <2>2, <2>3
<1> QED
  BY <1>1, <1>2 DEF BtGoesOn

(* The others may find rows disturbed. *)
LEMMA BtQuietGoesOn ==
  ASSUME BtTypeInv, NEW w \in BtWorkers, NEW c, NEW R,
         bw' = [v \in BtWorkers |-> IF v = w THEN c ELSE [bw[v] EXCEPT !.quiet = bw[v].quiet \ R]]
  PROVE  BtGoesOn(w, c)
<1>1. ASSUME NEW v \in BtWorkers, v # w PROVE BtLike(bw'[v], bw[v])
  <2>1. PICK d : d = bw[v]
    OBVIOUS
  <2>2. PICK e : e = [d EXCEPT !.quiet = d.quiet \ R]
    OBVIOUS
  <2>3. bw'[v] = e /\ BtCallInv(d)
    BY <1>1, <2>1, <2>2 DEF BtTypeInv
  <2>4. e = [pc |-> d.pc, left |-> d.left, mut |-> d.mut, table |-> d.table, todo |-> d.todo,
             listed |-> d.listed, quiet |-> d.quiet \ R]
    BY <2>2, <2>3 DEF BtCallInv
  <2>5. e.quiet = d.quiet \ R
    BY <2>4
  <2>6. BtLike(e, d)
    BY <2>4, <2>5 DEF BtLike
  <2> QED
    BY <2>1, <2>3, <2>6
<1>2. DOMAIN bw' = BtWorkers /\ bw'[w] = c
  OBVIOUS
<1> QED
  BY <1>1, <1>2 DEF BtGoesOn

LEMMA BtOthersStay ==
  ASSUME NEW w \in BtWorkers, NEW c, BtGoesOn(w, c), NEW v \in BtWorkers, v # w
  PROVE  /\ bw'[v].pc = bw[v].pc /\ bw'[v].mut = bw[v].mut /\ bw'[v].table = bw[v].table
         /\ bw'[v].listed = bw[v].listed /\ bw'[v].quiet \subseteq bw[v].quiet
<1>1. PICK d, e : d = bw[v] /\ e = bw'[v]
  OBVIOUS
<1>2. BtLike(e, d)
  BY <1>1 DEF BtGoesOn
<1>3. /\ e.pc = d.pc /\ e.mut = d.mut /\ e.table = d.table
      /\ e.listed = d.listed /\ e.quiet \subseteq d.quiet
  BY <1>2 DEF BtLike
<1> QED
  BY <1>1, <1>3

LEMMA BtOthersWrite ==
  ASSUME NEW w \in BtWorkers, NEW c, BtGoesOn(w, c), NEW v \in BtWorkers, v # w, NEW r
  PROVE  /\ WritesRow(bw'[v], r) <=> WritesRow(bw[v], r)
         /\ ReadsRow(bw'[v], r) => ReadsRow(bw[v], r)
BY BtOthersStay DEF WritesRow, ReadsRow

LEMMA BtTypeStep ==
  ASSUME BtTypeInv, NEW w \in BtWorkers, NEW c, BtGoesOn(w, c), BtCallInv(c)',
         tables' \in Seq(BtTables), DOMAIN tables \subseteq DOMAIN tables',
         current' \in 0..Len(tables'), btContested' \subseteq BtRows
  PROVE  BtTypeInv'
<1>1. ASSUME NEW v \in BtWorkers PROVE BtCallInv(bw[v])'
  <2>1. PICK e : e = bw'[v]
    OBVIOUS
  <2>2. CASE v = w
    <3>1. e = c
      BY <2>1, <2>2 DEF BtGoesOn
    <3> QED
      BY <2>1, <3>1 DEF BtCallInv
  <2>3. CASE v # w
    <3>1. PICK d : d = bw[v]
      OBVIOUS
    <3>2. BtCallInv(d) /\ BtLike(e, d)
      BY <2>1, <2>3, <3>1 DEF BtTypeInv, BtGoesOn
    <3>3. /\ e.pc = d.pc /\ e.left = d.left /\ e.mut = d.mut /\ e.table = d.table
          /\ e.todo = d.todo /\ e.listed = d.listed /\ e.quiet \subseteq d.quiet
      BY <3>2 DEF BtLike
    <3>4. e = [pc |-> e.pc, left |-> e.left, mut |-> e.mut, table |-> e.table, todo |-> e.todo,
               listed |-> e.listed, quiet |-> e.quiet]
      BY <3>2, <3>3 DEF BtLike
    <3>5. BtCallInv(e)'
      BY <3>2, <3>3, <3>4 DEF BtCallInv
    <3> QED
      BY <2>1, <3>5 DEF BtCallInv
  <2> QED
    BY <2>2, <2>3
<1> QED
  BY <1>1 DEF BtTypeInv, BtGoesOn

(* A step of a worker that does not write row r, before or after *)
LEMMA RowAside ==
  ASSUME NEW r, RowInv(r), NEW w \in BtWorkers, NEW c, BtGoesOn(w, c), RowStays(r),
         btContested \subseteq btContested', ~WritesRow(bw[w], r), ~WritesRow(c, r),
         ReadsRow(c, r) /\ r \notin btContested =>
           ReaderInv(c, r)' /\ \A v \in BtWorkers : ~WritesRow(bw[v], r)
  PROVE  RowInv(r)'
<1> SUFFICES ASSUME r \notin btContested' PROVE
      /\ BtSame(RowsNow, r)'
      /\ \A v, x \in BtWorkers : WritesRow(bw'[v], r) /\ WritesRow(bw'[x], r) => v = x
      /\ \A v \in BtWorkers : WritesRow(bw'[v], r) /\ bw'[v].pc = "change" => bw'[v].table = current'
      /\ \A v \in BtWorkers : ReadsRow(bw'[v], r) =>
           ReaderInv(bw[v], r)' /\ \A x \in BtWorkers : ~WritesRow(bw'[x], r)
  BY DEF RowInv, WritesRow, ReadsRow
<1>1. r \notin btContested
  OBVIOUS
<1>2. bw'[w] = c
  BY DEF BtGoesOn
<1>3. \A v \in BtWorkers : WritesRow(bw'[v], r) => v # w /\ WritesRow(bw[v], r)
  BY <1>2, BtOthersWrite
<1>4. BtSame(RowsNow, r)'
  BY <1>1 DEF RowInv, RowStays
<1>5. \A v, x \in BtWorkers : WritesRow(bw'[v], r) /\ WritesRow(bw'[x], r) => v = x
  BY <1>1, <1>3 DEF RowInv
<1>6. \A v \in BtWorkers : WritesRow(bw'[v], r) /\ bw'[v].pc = "change" => bw'[v].table = current'
  BY <1>1, <1>3, BtOthersStay DEF RowInv, RowStays
<1>7. ASSUME NEW v \in BtWorkers, ReadsRow(bw'[v], r)
      PROVE  ReaderInv(bw[v], r)' /\ \A x \in BtWorkers : ~WritesRow(bw[x], r)
  <2>1. CASE v = w
    BY <1>1, <1>2, <1>7, <2>1
  <2>2. CASE v # w
    <3>1. ReadsRow(bw[v], r)
      BY <1>7, <2>2, BtOthersWrite
    <3>2. ReaderInv(bw[v], r) /\ \A x \in BtWorkers : ~WritesRow(bw[x], r)
      BY <1>1, <3>1 DEF RowInv
    <3>3. ReaderInv(bw[v], r)'
      BY <2>2, <3>2, BtOthersStay DEF ReaderInv, RowStays
    <3> QED
      BY <3>2, <3>3
  <2> QED
    BY <2>1, <2>2
<1> QED
  BY <1>3, <1>4, <1>5, <1>6, <1>7

(* A step of a worker that writes row r afterwards, alone and unread *)
LEMMA RowOwn ==
  ASSUME NEW r, RowInv(r), NEW w \in BtWorkers, NEW c, BtGoesOn(w, c), RowStays(r),
         btContested \subseteq btContested', WritesRow(c, r),
         r \notin btContested' => \A v \in BtWorkers : v # w => ~WritesRow(bw[v], r)
                                                              /\ ~ReadsRow(bw'[v], r),
         r \notin btContested' /\ c.pc = "change" => c.table = current
  PROVE  RowInv(r)'
<1> SUFFICES ASSUME r \notin btContested' PROVE
      /\ BtSame(RowsNow, r)'
      /\ \A v, x \in BtWorkers : WritesRow(bw'[v], r) /\ WritesRow(bw'[x], r) => v = x
      /\ \A v \in BtWorkers : WritesRow(bw'[v], r) /\ bw'[v].pc = "change" => bw'[v].table = current'
      /\ \A v \in BtWorkers : ReadsRow(bw'[v], r) =>
           ReaderInv(bw[v], r)' /\ \A x \in BtWorkers : ~WritesRow(bw'[x], r)
  BY DEF RowInv, WritesRow, ReadsRow
<1>1. r \notin btContested /\ bw'[w] = c
  BY DEF BtGoesOn
<1>2. \A v \in BtWorkers : WritesRow(bw'[v], r) => v = w
  BY BtOthersWrite
<1>3. \A v \in BtWorkers : ~ReadsRow(bw'[v], r)
  BY <1>1 DEF WritesRow, ReadsRow
<1>4. BtSame(RowsNow, r)'
  BY <1>1 DEF RowInv, RowStays
<1> QED
  BY <1>1, <1>2, <1>3, <1>4 DEF RowStays

(* A step of the writer of row r that is done with it *)
LEMMA RowDone ==
  ASSUME NEW r, RowInv(r), NEW w \in BtWorkers, NEW c, BtGoesOn(w, c), WritesRow(bw[w], r),
         btContested \subseteq btContested', ~WritesRow(c, r), ~ReadsRow(c, r),
         r \notin btContested => BtSame(RowsNow, r)'
  PROVE  RowInv(r)'
<1> SUFFICES ASSUME r \notin btContested' PROVE
      /\ BtSame(RowsNow, r)'
      /\ \A v, x \in BtWorkers : WritesRow(bw'[v], r) /\ WritesRow(bw'[x], r) => v = x
      /\ \A v \in BtWorkers : WritesRow(bw'[v], r) /\ bw'[v].pc = "change" => bw'[v].table = current'
      /\ \A v \in BtWorkers : ReadsRow(bw'[v], r) =>
           ReaderInv(bw[v], r)' /\ \A x \in BtWorkers : ~WritesRow(bw'[x], r)
  BY DEF RowInv, WritesRow, ReadsRow
<1>1. r \notin btContested /\ bw'[w] = c
  BY DEF BtGoesOn
<1>2. \A v \in BtWorkers : ~WritesRow(bw'[v], r)
  BY <1>1, BtOthersWrite DEF RowInv
<1>3. \A v \in BtWorkers : ~ReadsRow(bw'[v], r)
  BY <1>1, BtOthersWrite DEF RowInv
<1> QED
  BY <1>1, <1>2, <1>3

------------------------------------------------------------------------------
(* Bigtable: the steps *)

LEMMA BtIdleCall == BtIdle.pc = "idle" /\ BtCallInv(BtIdle) /\ BtCallInv(BtIdle)'
BY DEF BtIdle, BtCallInv, BtPlaces, BtResting

LEMMA BtInitInv == BigtableInit => BtInv
<1> SUFFICES ASSUME BigtableInit PROVE BtInv
  OBVIOUS
<1>1. tables \in Seq(BtTables) /\ current \in 0..Len(tables) /\ btContested \subseteq BtRows
  BY DEF BigtableInit
<1>2. DOMAIN bw = BtWorkers /\ \A w \in BtWorkers : bw[w] = BtIdle
  BY DEF BigtableInit
<1>3. BtTypeInv
  BY <1>1, <1>2, BtIdleCall DEF BtTypeInv
<1>4. ASSUME NEW r \in BtRows PROVE RowInv(r)
  <2>1. BtSame(RowsNow, r)
    BY DEF BigtableInit, BtSame, RowsNow, BtNone
  <2>2. \A w \in BtWorkers : ~WritesRow(bw[w], r) /\ ~ReadsRow(bw[w], r)
    BY <1>2, BtIdleCall DEF WritesRow, ReadsRow
  <2> QED
    BY <2>1, <2>2 DEF RowInv
<1> QED
  BY <1>3, <1>4 DEF BtInv

LEMMA RowsUnchanged ==
  ASSUME UNCHANGED <<current, tables, btSerial>>, NEW r
  PROVE  RowStays(r)
BY DEF RowStays, RowsNow, BtSame

(* A step of a worker that writes nothing, before or after *)
LEMMA BtQuietInv ==
  ASSUME BtInv, NEW w \in BtWorkers, NEW c, bw' = [bw EXCEPT ![w] = c],
         UNCHANGED <<current, tables, btSerial, btContested>>, BtCallInv(c),
         bw[w].pc \notin {"find", "change"}, c.pc \notin {"find", "change"},
         \A r \in BtRows : ReadsRow(c, r) /\ r \notin btContested =>
            ReaderInv(c, r) /\ \A v \in BtWorkers : ~WritesRow(bw[v], r)
  PROVE  BtInv'
<1>1. BtGoesOn(w, c)
  BY BtExceptGoesOn DEF BtInv
<1>2. BtCallInv(c)' /\ \A r : ReaderInv(c, r) => ReaderInv(c, r)'
  BY DEF BtCallInv, ReaderInv
<1>3. BtTypeInv'
  BY <1>1, <1>2, BtTypeStep DEF BtInv, BtTypeInv
<1>4. ASSUME NEW r \in BtRows PROVE RowInv(r)'
  <2>1. ~WritesRow(bw[w], r) /\ ~WritesRow(c, r)
    BY DEF WritesRow
  <2>2. RowInv(r) /\ RowStays(r)
    BY RowsUnchanged DEF BtInv
  <2> QED
    BY <1>1, <1>2, <2>1, <2>2, RowAside
<1> QED
  BY <1>3, <1>4 DEF BtInv

LEMMA BtRestInv ==
  ASSUME BtInv, NEW w \in BtWorkers, NEW c, bw' = [bw EXCEPT ![w] = c],
         UNCHANGED <<current, tables, btSerial, btContested>>, BtCallInv(c),
         bw[w].pc \notin {"find", "change"},
         c.pc \notin {"find", "change", "list", "stream"}
  PROVE  BtInv'
<1>1. \A r : ~ReadsRow(c, r)
  BY DEF ReadsRow
<1> QED
  BY <1>1, BtQuietInv

LEMMA BtCreatePreserves ==
  ASSUME BtInv, NEW w \in BtWorkers, BtCreate(w) \/ BtDelete(w)
  PROVE  BtInv'
<1>1. PICK p \in {"create", "delete"} : BtBegin(w, [BtIdle EXCEPT !.pc = p])
  BY DEF BtCreate, BtDelete
<1>2. PICK c : c = [BtIdle EXCEPT !.pc = p]
  OBVIOUS
<1>3. c.pc = p /\ BtCallInv(c)
  BY <1>1, <1>2 DEF BtIdle, BtCallInv, BtPlaces, BtResting
<1> QED
  BY <1>1, <1>2, <1>3, BtRestInv DEF BtBegin

LEMMA BtMutatePreserves ==
  ASSUME BtInv, NEW w \in BtWorkers, BtMutate(w)
  PROVE  BtInv'
<1>1. PICK n : BtBegin(w, [BtIdle EXCEPT !.pc = "next", !.left = n])
  BY DEF BtMutate
<1>2. PICK c : c = [BtIdle EXCEPT !.pc = "next", !.left = n]
  OBVIOUS
<1>3. c.pc = "next" /\ BtCallInv(c)
  BY <1>2 DEF BtIdle, BtCallInv, BtPlaces, BtResting
<1> QED
  BY <1>1, <1>2, <1>3, BtRestInv DEF BtBegin

LEMMA BtFailsPreserves ==
  ASSUME BtInv, NEW w \in BtWorkers,
         BtDeleteFails(w) \/ BtLost(w) \/ \E r : BtStreamFails(w, r)
  PROVE  BtInv'
<1>1. /\ bw[w].pc \in {"delete", "lost", "stream"} /\ bw' = [bw EXCEPT ![w] = BtIdle]
      /\ UNCHANGED <<current, tables, btSerial, btContested>>
  BY DEF BtDeleteFails, BtLost, BtStreamFails, BtGo
<1> QED
  BY <1>1, BtIdleCall, BtRestInv

LEMMA BtSwapGoesOn ==
  ASSUME BtTypeInv, NEW w \in BtWorkers, NEW t, BtSwap(w, t)
  PROVE  BtGoesOn(w, BtIdle)
<1>2. \A v \in BtWorkers : v # w => BtLike(bw'[v], bw[v])
  <2>1. ASSUME NEW v \in BtWorkers, v # w PROVE BtLike(bw'[v], bw[v])
    <3>1. PICK d : d = bw[v]
      OBVIOUS
    <3>2. PICK e : e = [d EXCEPT !.quiet = {}]
      OBVIOUS
    <3>3. bw'[v] = e /\ BtCallInv(d)
      BY <2>1, <3>1, <3>2 DEF BtTypeInv, BtSwap
    <3>4. e = [pc |-> d.pc, left |-> d.left, mut |-> d.mut, table |-> d.table, todo |-> d.todo,
               listed |-> d.listed, quiet |-> {}]
      BY <3>2, <3>3 DEF BtCallInv
    <3>5. e.quiet = {}
      BY <3>4
    <3>6. BtLike(e, d)
      BY <3>4, <3>5 DEF BtLike
    <3> QED
      BY <3>1, <3>3, <3>6
  <2> QED
    BY <2>1
<1>3. DOMAIN bw' = BtWorkers /\ bw'[w] = BtIdle
  BY DEF BtSwap
<1> QED
  BY <1>2, <1>3 DEF BtGoesOn

(* delete_table and create_table: whoever was at a row is contested, and   *)
(* nobody relies on any.                                                   *)
LEMMA BtSwapInv ==
  ASSUME BtInv, NEW w \in BtWorkers, NEW t, BtSwap(w, t), bw[w].pc \notin {"find", "change"},
         tables' \in Seq(BtTables), DOMAIN tables \subseteq DOMAIN tables', t \in 0..Len(tables'),
         t # 0 => DOMAIN tables'[t].rows = {}
  PROVE  BtInv'
<1>1. BtGoesOn(w, BtIdle)
  BY BtSwapGoesOn DEF BtInv
<1>2. BtTypeInv'
  <2>1. current' \in 0..Len(tables') /\ btContested' \subseteq BtRows
    BY DEF BtSwap, BtInv, BtTypeInv, BtCalm
  <2> QED
    BY <1>1, <2>1, BtIdleCall, BtTypeStep DEF BtInv
<1>3. ASSUME NEW v \in BtWorkers PROVE bw'[v].quiet = {}
  <2>1. PICK d : d = bw[v]
    OBVIOUS
  <2>2. BtCallInv(d)
    BY <2>1 DEF BtInv, BtTypeInv
  <2>3. [d EXCEPT !.quiet = {}].quiet = {}
    BY <2>2 DEF BtCallInv
  <2>4. BtIdle.quiet = {}
    BY DEF BtIdle
  <2> QED
    BY <2>1, <2>3, <2>4 DEF BtSwap
<1>4. ASSUME NEW r \in BtRows, r \notin btContested'
      PROVE  /\ BtSame(RowsNow, r)'
             /\ \A v \in BtWorkers : ~WritesRow(bw'[v], r) /\ ~ReadsRow(bw'[v], r)
  <2>1. \A v \in BtWorkers : ~WritesRow(bw[v], r)
    BY <1>4 DEF BtSwap, BtCalm, BtWriters, BtWriting, WritesRow
  <2>2. \A v \in BtWorkers : ~WritesRow(bw'[v], r)
    <3>1. ~WritesRow(BtIdle, r) /\ bw'[w] = BtIdle
      BY <1>1, BtIdleCall DEF WritesRow, BtGoesOn
    <3> QED
      BY <1>1, <2>1, <3>1, BtOthersWrite
  <2>3. \A v \in BtWorkers : ~ReadsRow(bw'[v], r)
    BY <1>3 DEF ReadsRow
  <2>4. r \notin DOMAIN btSerial'
    BY DEF BtSwap, BtNone
  <2>5. r \notin DOMAIN RowsNow'
    BY DEF RowsNow, BtSwap, BtNone
  <2> QED
    BY <2>2, <2>3, <2>4, <2>5 DEF BtSame
<1>5. ASSUME NEW r \in BtRows PROVE RowInv(r)'
  BY <1>4 DEF RowInv, WritesRow, ReadsRow
<1> QED
  BY <1>2, <1>5 DEF BtInv

LEMMA BtCreatedPreserves ==
  ASSUME BtInv, NEW w \in BtWorkers, BtCreated(w)
  PROVE  BtInv'
<1>1. BtTable \in BtTables /\ DOMAIN BtTable.rows = {}
  <2>1. BtNone \in BtRowDicts
    BY DictsNone DEF BtRowDicts
  <2> QED
    BY <2>1 DEF BtTable, BtTables, BtNone
<1>2. tables \in Seq(BtTables) /\ Len(tables) \in Nat
  BY LenProperties DEF BtInv, BtTypeInv
<1>3. PICK n : n = Len(tables)
  OBVIOUS
<1>4. /\ tables' \in Seq(BtTables) /\ Len(tables') = n + 1 /\ tables'[n + 1] = BtTable
      /\ DOMAIN tables = 1..n /\ DOMAIN tables' = 1..(n + 1)
  BY <1>1, <1>2, <1>3, AppendProperties, LenProperties DEF BtCreated
<1>5. /\ DOMAIN tables \subseteq DOMAIN tables' /\ n + 1 \in 0..Len(tables')
      /\ DOMAIN tables'[n + 1].rows = {}
  BY <1>1, <1>2, <1>3, <1>4
<1>6. BtSwap(w, n + 1) /\ bw[w].pc = "create"
  BY <1>4 DEF BtCreated
<1> QED
  BY <1>4, <1>5, <1>6, BtSwapInv

LEMMA BtDeletedPreserves ==
  ASSUME BtInv, NEW w \in BtWorkers, BtDeleted(w)
  PROVE  BtInv'
<1>1. tables' \in Seq(BtTables) /\ DOMAIN tables \subseteq DOMAIN tables' /\ 0 \in 0..Len(tables')
  BY LenProperties DEF BtInv, BtTypeInv, BtDeleted
<1>2. BtSwap(w, 0) /\ bw[w].pc = "delete"
  BY DEF BtDeleted
<1> QED
  BY <1>1, <1>2, BtSwapInv

(* modify_families changes no rows. *)
LEMMA BtModifyPreserves ==
  ASSUME BtInv, NEW w \in BtWorkers, NEW add \in SUBSET BtFamilies, NEW drop,
         BtModify(w, add, drop)
  PROVE  BtInv'
<1>1. PICK n : n = Len(tables)
  OBVIOUS
<1>2. /\ tables \in Seq(BtTables) /\ n \in Nat /\ DOMAIN tables = 1..n /\ current \in 1..n
      /\ UNCHANGED <<current, btSerial, btContested>>
      /\ bw' = [bw EXCEPT ![w] = BtIdle] /\ bw[w].pc \in {"idle", "ready"}
  BY <1>1, LenProperties DEF BtInv, BtTypeInv, BtModify
<1>3. PICK f : f = (tables[current].families \union add) \ drop
  OBVIOUS
<1>4. PICK old, new : old = tables[current] /\ new = [old EXCEPT !.families = f]
  OBVIOUS
<1>5. old \in BtTables
  BY <1>2, <1>4, ElementOfSeq
<1>6. new \in BtTables /\ new.rows = old.rows
  BY <1>3, <1>4, <1>5 DEF BtTables
<1>7. tables' = [tables EXCEPT ![current] = new]
  BY <1>3, <1>4 DEF BtModify
<1>8. /\ tables' \in Seq(BtTables) /\ Len(tables') = n /\ DOMAIN tables' = 1..n
      /\ tables'[current] = new
  BY <1>1, <1>2, <1>6, <1>7, ExceptSeq, LenProperties
<1>9. RowsNow' = RowsNow
  BY <1>2, <1>4, <1>6, <1>8 DEF RowsNow
<1>10. BtGoesOn(w, BtIdle)
  BY <1>2, BtExceptGoesOn DEF BtInv
<1>11. ASSUME NEW r \in BtRows PROVE RowInv(r)'
  <2>1. RowInv(r) /\ RowStays(r) /\ btContested \subseteq btContested'
    BY <1>2, <1>9 DEF BtInv, RowStays, BtSame
  <2>2. ~WritesRow(bw[w], r) /\ ~WritesRow(BtIdle, r) /\ ~ReadsRow(BtIdle, r)
    BY <1>2, BtIdleCall DEF WritesRow, ReadsRow
  <2> QED
    BY <1>10, <2>1, <2>2, RowAside
<1>12. BtTypeInv'
  <2>1. DOMAIN tables \subseteq DOMAIN tables' /\ current' \in 0..Len(tables')
    BY <1>2, <1>8
  <2>2. btContested' \subseteq BtRows
    BY <1>2 DEF BtInv, BtTypeInv
  <2> QED
    BY <1>8, <1>10, <2>1, <2>2, BtIdleCall, BtTypeStep DEF BtInv
<1> QED
  BY <1>11, <1>12 DEF BtInv

(* The next mutation meets other writers of its row, or is its only one;   *)
(* nobody relies on the row any more.                                      *)
LEMMA BtNextPreserves ==
  ASSUME BtInv, NEW w \in BtWorkers, NEW m \in BtMutations, BtNext(w, m)
  PROVE  BtInv'
<1>1. PICK b : b = bw[w]
  OBVIOUS
<1>2. PICK c : c = [b EXCEPT !.pc = "find", !.mut = m, !.left = b.left - 1]
  OBVIOUS
<1>3. /\ b.pc = "next" /\ BtCallInv(b) /\ UNCHANGED <<current, tables, btSerial>>
      /\ btContested' = btContested \union {r \in {m.row} : BtWriters(r) # {}}
  BY <1>1 DEF BtNext, BtInv, BtTypeInv
<1>4. c = [pc |-> "find", left |-> b.left - 1, mut |-> m, table |-> b.table, todo |-> b.todo,
           listed |-> b.listed, quiet |-> b.quiet]
  BY <1>2, <1>3 DEF BtCallInv
<1>5. c.pc = "find" /\ c.mut = m /\ c.quiet = b.quiet
  BY <1>4
<1>6. BtCallInv(c)'
  BY <1>3, <1>4, <1>5 DEF BtCallInv, BtPlaces, BtResting
<1>7. bw' = [v \in BtWorkers |-> IF v = w THEN c
                                 ELSE [bw[v] EXCEPT !.quiet = bw[v].quiet \ {m.row}]]
  BY <1>1, <1>2 DEF BtNext
<1>8. BtGoesOn(w, c)
  BY <1>7, BtQuietGoesOn DEF BtInv
<1>9. BtTypeInv'
  <2>1. btContested' \subseteq BtRows
    BY <1>3, MutationSo DEF BtInv, BtTypeInv
  <2> QED
    BY <1>3, <1>6, <1>8, <2>1, BtTypeStep DEF BtInv, BtTypeInv
<1>10. \A v \in BtWorkers : v # w => m.row \notin bw'[v].quiet
  <2>1. ASSUME NEW v \in BtWorkers, v # w PROVE m.row \notin bw'[v].quiet
    <3>1. PICK d, e : d = bw[v] /\ e = [d EXCEPT !.quiet = d.quiet \ {m.row}]
      OBVIOUS
    <3>2. BtCallInv(d) /\ bw'[v] = e
      BY <1>7, <2>1, <3>1 DEF BtInv, BtTypeInv
    <3>3. e.quiet = d.quiet \ {m.row}
      BY <3>1, <3>2 DEF BtCallInv
    <3> QED
      BY <3>2, <3>3
  <2> QED
    BY <2>1
<1>11. ASSUME NEW r \in BtRows PROVE RowInv(r)'
  <2>1. RowInv(r) /\ RowStays(r) /\ btContested \subseteq btContested' /\ ~ReadsRow(c, r)
        /\ ~WritesRow(bw[w], r)
    BY <1>1, <1>3, <1>5, RowsUnchanged DEF BtInv, ReadsRow, WritesRow
  <2>2. CASE r # m.row
    <3>1. ~WritesRow(c, r)
      BY <1>5, <2>2 DEF WritesRow
    <3> QED
      BY <1>8, <2>1, <3>1, RowAside
  <2>3. CASE r = m.row
    <3>1. WritesRow(c, r) /\ c.pc # "change"
      BY <1>5, <2>3 DEF WritesRow
    <3>2. r \notin btContested' => \A v \in BtWorkers : ~WritesRow(bw[v], r)
      BY <1>3, <2>3 DEF BtWriters, BtWriting, WritesRow
    <3>3. \A v \in BtWorkers : v # w => ~ReadsRow(bw'[v], r)
      BY <1>10, <2>3 DEF ReadsRow
    <3> QED
      BY <1>8, <2>1, <3>1, <3>2, <3>3, RowOwn
  <2> QED
    BY <2>2, <2>3
<1> QED
  BY <1>9, <1>11 DEF BtInv

LEMMA BtFindPreserves ==
  ASSUME BtInv, NEW w \in BtWorkers, BtFind(w)
  PROVE  BtInv'
<1>1. PICK b : b = bw[w]
  OBVIOUS
<1>2. PICK c : c = IF current = 0 THEN BtIdle ELSE [b EXCEPT !.pc = "change", !.table = current]
  OBVIOUS
<1>3. /\ b.pc = "find" /\ BtCallInv(b) /\ bw' = [bw EXCEPT ![w] = c]
      /\ UNCHANGED <<current, tables, btSerial, btContested>>
  BY <1>1, <1>2 DEF BtFind, BtGo, BtInv, BtTypeInv
<1>4. BtGoesOn(w, c)
  BY <1>3, BtExceptGoesOn DEF BtInv
<1>5. tables \in Seq(BtTables) /\ current \in 0..Len(tables) /\ DOMAIN tables = 1..Len(tables)
  BY LenProperties DEF BtInv, BtTypeInv
<1>6. /\ BtCallInv(c) /\ \A r : ~ReadsRow(c, r)
      /\ IF current = 0 THEN \A r : ~WritesRow(c, r)
         ELSE c.table = current /\ \A r : WritesRow(c, r) <=> WritesRow(b, r)
  <2>1. CASE current = 0
    BY <1>2, <2>1, BtIdleCall DEF WritesRow, ReadsRow
  <2>2. CASE current # 0
    <3>1. c = [pc |-> "change", left |-> b.left, mut |-> b.mut, table |-> current,
               todo |-> b.todo, listed |-> b.listed, quiet |-> b.quiet]
      BY <1>2, <1>3, <2>2 DEF BtCallInv
    <3>2. c.pc = "change" /\ c.mut = b.mut /\ c.table = current /\ c.quiet = b.quiet
      BY <3>1
    <3>3. current \in DOMAIN tables
      BY <1>5, <2>2
    <3>4. BtCallInv(c)
      BY <1>3, <3>1, <3>2, <3>3 DEF BtCallInv, BtPlaces, BtResting
    <3> QED
      BY <1>3, <2>2, <3>2, <3>4 DEF WritesRow, ReadsRow
  <2> QED
    BY <2>1, <2>2
<1>7. BtTypeInv'
  <2>1. BtCallInv(c)'
    BY <1>3, <1>6 DEF BtCallInv
  <2> QED
    BY <1>3, <1>4, <2>1, BtTypeStep DEF BtInv, BtTypeInv
<1>8. ASSUME NEW r \in BtRows PROVE RowInv(r)'
  <2>1. RowInv(r) /\ RowStays(r) /\ btContested \subseteq btContested'
    BY <1>3, RowsUnchanged DEF BtInv
  <2>2. CASE ~WritesRow(b, r)
    BY <1>1, <1>4, <1>6, <2>1, <2>2, RowAside
  <2>3. CASE WritesRow(b, r) /\ current = 0
    <3>1. r \notin btContested => BtSame(RowsNow, r)'
      BY <2>1 DEF RowInv, RowStays
    <3> QED
      BY <1>1, <1>4, <1>6, <2>1, <2>3, <3>1, RowDone
  <2>4. CASE WritesRow(b, r) /\ current # 0
    <3>1. r \notin btContested => \A v \in BtWorkers : v # w => ~WritesRow(bw[v], r)
                                                               /\ ~ReadsRow(bw[v], r)
      BY <1>1, <2>1, <2>4 DEF RowInv
    <3>2. r \notin btContested' => \A v \in BtWorkers : v # w => ~WritesRow(bw[v], r)
                                                                /\ ~ReadsRow(bw'[v], r)
      BY <1>3, <1>4, <3>1, BtOthersWrite
    <3> QED
      BY <1>4, <1>6, <2>1, <2>4, <3>2, RowOwn
  <2> QED
    BY <2>2, <2>3, <2>4
<1> QED
  BY <1>7, <1>8 DEF BtInv

(* The mutation itself: of the current table if the row is not contested   *)
LEMMA BtChangePreserves ==
  ASSUME BtInv, NEW w \in BtWorkers, BtChange(w)
  PROVE  BtInv'
<1>1. PICK b, m, t, n : b = bw[w] /\ m = b.mut /\ t = b.table /\ n = Len(tables)
  OBVIOUS
<1>2. PICK c : c = IF b.left = 0 THEN BtIdle ELSE [BtIdle EXCEPT !.pc = "next", !.left = b.left]
  OBVIOUS
<1>3. PICK old, dict : old = tables[t] /\ dict = BtApply(old.rows, m, CellsSet(old.rows, m))
  OBVIOUS
<1>4. PICK new, said : new = [old EXCEPT !.rows = dict]
                       /\ said = BtApply(btSerial, m, BtWith(BtColumn(btSerial, m, BtNone), m.ts, m.val))
  OBVIOUS
<1>5. /\ b.pc = "change" /\ bw' = [bw EXCEPT ![w] = c]
      /\ tables' = [tables EXCEPT ![t] = new]
      /\ btSerial' = IF t = current THEN said ELSE btSerial
      /\ UNCHANGED <<current, btContested>>
  BY <1>1, <1>2, <1>3, <1>4 DEF BtChange, CellsSet
<1>6. BtCallInv(b) /\ m \in BtMutations /\ t \in DOMAIN tables
  BY <1>1, <1>5 DEF BtInv, BtTypeInv, BtCallInv
<1>7. /\ tables \in Seq(BtTables) /\ DOMAIN tables = 1..n /\ n \in Nat /\ current \in 0..n
  BY <1>1, LenProperties DEF BtInv, BtTypeInv
<1>8. old \in BtTables /\ old.rows \in BtRowDicts
  <2>1. old \in BtTables
    BY <1>3, <1>6, <1>7, ElementOfSeq
  <2> QED
    BY <2>1 DEF BtTables
<1>9. dict \in BtRowDicts
  BY <1>3, <1>6, <1>8, ApplyTyped
<1>10. new \in BtTables /\ new.rows = dict
  BY <1>4, <1>8, <1>9 DEF BtTables
<1>11. /\ tables' \in Seq(BtTables) /\ Len(tables') = n /\ DOMAIN tables' = 1..n
       /\ tables'[t] = new /\ \A i \in 1..n : i # t => tables'[i] = tables[i]
  BY <1>1, <1>5, <1>6, <1>7, <1>10, ExceptSeq, LenProperties
<1>12. c.pc \in {"idle", "next"} /\ BtCallInv(c)'
  BY <1>2 DEF BtIdle, BtCallInv, BtPlaces, BtResting
<1>13. BtGoesOn(w, c)
  BY <1>5, BtExceptGoesOn DEF BtInv
<1>14. BtTypeInv'
  BY <1>5, <1>7, <1>11, <1>12, <1>13, BtTypeStep DEF BtInv, BtTypeInv
<1>15. t = current => RowsNow = old.rows /\ RowsNow' = dict
  BY <1>3, <1>5, <1>6, <1>7, <1>10, <1>11 DEF RowsNow
<1>16. t # current => RowsNow' = RowsNow
  BY <1>5, <1>7, <1>11 DEF RowsNow
<1>17. ASSUME NEW r \in BtRows PROVE RowInv(r)'
  <2>1. RowInv(r) /\ btContested \subseteq btContested' /\ ~ReadsRow(c, r) /\ ~WritesRow(c, r)
    BY <1>5, <1>12 DEF BtInv, ReadsRow, WritesRow
  <2>2. CASE r # m.row
    <3>1. ~WritesRow(bw[w], r)
      BY <1>1, <2>2 DEF WritesRow
    <3>2. RowStays(r)
      <4>1. CASE t = current
        <5>1. /\ r \in DOMAIN dict <=> r \in DOMAIN old.rows
              /\ r \in DOMAIN old.rows => dict[r] = old.rows[r]
              /\ r \in DOMAIN said <=> r \in DOMAIN btSerial
              /\ r \in DOMAIN btSerial => said[r] = btSerial[r]
          BY <1>3, <1>4, <2>2, ApplyAside
        <5> QED
          BY <1>5, <1>15, <4>1, <5>1 DEF RowStays, BtSame
      <4>2. CASE t # current
        BY <1>5, <1>16, <4>2 DEF RowStays, BtSame
      <4> QED
        BY <4>1, <4>2
    <3> QED
      BY <1>13, <2>1, <3>1, <3>2, RowAside
  <2>3. CASE r = m.row
    <3>1. WritesRow(bw[w], r)
      BY <1>1, <1>5, <2>3 DEF WritesRow
    <3>2. ASSUME r \notin btContested PROVE BtSame(RowsNow, r)'
      <4>1. t = current /\ BtSame(RowsNow, r)
        BY <1>1, <1>5, <2>1, <3>1, <3>2 DEF RowInv
      <4>2. SameRow(old.rows, btSerial, m.row)
        BY <1>15, <2>3, <4>1 DEF BtSame, SameRow
      <4>3. SameRow(dict, said, m.row)
        BY <1>3, <1>4, <1>6, <1>8, <4>2, ApplySame
      <4> QED
        BY <1>5, <1>15, <2>3, <4>1, <4>3 DEF BtSame, SameRow
    <3> QED
      BY <1>13, <2>1, <3>1, <3>2, RowDone
  <2> QED
    BY <2>2, <2>3
<1> QED
  BY <1>14, <1>17 DEF BtInv

(* A reader relies on the rows nobody is at. *)
LEMMA BtReadPreserves ==
  ASSUME BtInv, NEW w \in BtWorkers, BtRead(w)
  PROVE  BtInv'
<1>1. PICK c : c = [BtIdle EXCEPT !.pc = "list", !.table = current, !.quiet = BtCalm]
  OBVIOUS
<1>2. /\ bw[w].pc \in {"idle", "ready"} /\ bw' = [bw EXCEPT ![w] = c] /\ current # 0
      /\ UNCHANGED <<current, tables, btSerial, btContested>>
  BY <1>1 DEF BtRead, BtBegin
<1>3. c.pc = "list" /\ c.table = current /\ c.quiet = BtCalm
  BY <1>1 DEF BtIdle
<1>4. current \in DOMAIN tables
  BY <1>2, LenProperties DEF BtInv, BtTypeInv
<1>5. BtCallInv(c)
  BY <1>1, <1>3, <1>4 DEF BtIdle, BtCallInv, BtPlaces, BtResting, BtCalm
<1>6. \A r \in BtRows : ReadsRow(c, r) =>
        ReaderInv(c, r) /\ \A v \in BtWorkers : ~WritesRow(bw[v], r)
  BY <1>3 DEF ReadsRow, ReaderInv, BtCalm, BtWriters, BtWriting, WritesRow
<1> QED
  BY <1>2, <1>3, <1>5, <1>6, BtQuietInv

(* It lists the keys of the table it found, *)
LEMMA BtListPreserves ==
  ASSUME BtInv, NEW w \in BtWorkers, BtList(w)
  PROVE  BtInv'
<1>1. PICK b, keys : b = bw[w] /\ keys = DOMAIN tables[b.table].rows
  OBVIOUS
<1>2. PICK some \in SUBSET BtRows :
        BtGo(w, IF keys \intersect some = {} THEN BtIdle
                ELSE [b EXCEPT !.pc = "stream", !.todo = keys \intersect some,
                               !.listed = keys, !.quiet = b.quiet \intersect some])
  BY <1>1 DEF BtList
<1>3. /\ b.pc = "list" /\ BtCallInv(b) /\ UNCHANGED <<current, tables, btSerial, btContested>>
  BY <1>1, <1>2 DEF BtList, BtGo, BtInv, BtTypeInv
<1>4. CASE keys \intersect some = {}
  BY <1>1, <1>2, <1>3, <1>4, BtIdleCall, BtRestInv DEF BtGo
<1>5. CASE keys \intersect some # {}
  <2>1. PICK c : c = [b EXCEPT !.pc = "stream", !.todo = keys \intersect some,
                               !.listed = keys, !.quiet = b.quiet \intersect some]
    OBVIOUS
  <2>2. bw' = [bw EXCEPT ![w] = c]
    BY <1>2, <1>5, <2>1 DEF BtGo
  <2>3. c = [pc |-> "stream", left |-> b.left, mut |-> b.mut, table |-> b.table,
             todo |-> keys \intersect some, listed |-> keys, quiet |-> b.quiet \intersect some]
    BY <1>3, <2>1 DEF BtCallInv
  <2>4. /\ c.pc = "stream" /\ c.mut = b.mut /\ c.table = b.table /\ c.listed = keys
        /\ c.quiet = b.quiet \intersect some
    BY <2>3
  <2>5. BtCallInv(c)
    BY <1>3, <2>3, <2>4 DEF BtCallInv, BtPlaces, BtResting
  <2>6. ASSUME NEW r \in BtRows, ReadsRow(c, r), r \notin btContested
        PROVE  ReaderInv(c, r) /\ \A v \in BtWorkers : ~WritesRow(bw[v], r)
    <3>1. ReadsRow(b, r)
      BY <1>3, <2>4, <2>6 DEF ReadsRow
    <3>2. b.table = current /\ BtSame(RowsNow, r) /\ \A v \in BtWorkers : ~WritesRow(bw[v], r)
      BY <1>1, <2>6, <3>1 DEF BtInv, RowInv, ReaderInv
    <3>3. b.table \in DOMAIN tables
      BY <1>3 DEF BtCallInv
    <3>4. RowsNow = tables[b.table].rows
      BY <3>2, <3>3, LenProperties DEF RowsNow, BtInv, BtTypeInv
    <3> QED
      BY <1>1, <2>4, <3>2, <3>4 DEF ReaderInv, BtSame
  <2> QED
    BY <1>1, <1>3, <2>2, <2>4, <2>5, <2>6, BtQuietInv
<1> QED
  BY <1>4, <1>5

(* and looks up one after the other. *)
LEMMA BtStreamPreserves ==
  ASSUME BtInv, NEW w \in BtWorkers, NEW r \in bw[w].todo, BtStream(w, r)
  PROVE  BtInv'
<1>1. PICK b : b = bw[w]
  OBVIOUS
<1>2. /\ b.pc = "stream" /\ BtCallInv(b)
      /\ BtGo(w, IF b.todo = {r} THEN BtIdle ELSE [b EXCEPT !.todo = b.todo \ {r}])
  BY <1>1 DEF BtStream, BtInv, BtTypeInv
<1>3. CASE b.todo = {r}
  BY <1>1, <1>2, <1>3, BtIdleCall, BtRestInv DEF BtGo
<1>4. CASE b.todo # {r}
  <2>1. PICK c : c = [b EXCEPT !.todo = b.todo \ {r}]
    OBVIOUS
  <2>2. c = [pc |-> "stream", left |-> b.left, mut |-> b.mut, table |-> b.table,
             todo |-> b.todo \ {r}, listed |-> b.listed, quiet |-> b.quiet]
    BY <1>2, <2>1 DEF BtCallInv
  <2>3. /\ c.pc = "stream" /\ c.mut = b.mut /\ c.table = b.table /\ c.listed = b.listed
        /\ c.quiet = b.quiet
    BY <2>2
  <2>4. BtCallInv(c)
    BY <1>2, <2>2, <2>3 DEF BtCallInv, BtPlaces, BtResting
  <2>5. ASSUME NEW q \in BtRows, ReadsRow(c, q), q \notin btContested
        PROVE  ReaderInv(c, q) /\ \A v \in BtWorkers : ~WritesRow(bw[v], q)
    <3>1. ReadsRow(b, q)
      BY <1>2, <2>3, <2>5 DEF ReadsRow
    <3>2. ReaderInv(b, q) /\ \A v \in BtWorkers : ~WritesRow(bw[v], q)
      BY <1>1, <2>5, <3>1 DEF BtInv, RowInv
    <3> QED
      BY <1>2, <2>3, <3>2 DEF ReaderInv
  <2> QED
    BY <1>1, <1>2, <1>4, <2>1, <2>3, <2>4, <2>5, BtQuietInv DEF BtGo
<1> QED
  BY <1>3, <1>4

(* Calls that rest may change for others that rest. *)
BtRests(c) == BtCallInv(c) /\ c.pc \in BtResting

LEMMA BtRestingCall ==
  ASSUME NEW p \in BtResting
  PROVE  BtRests([BtIdle EXCEPT !.pc = p]) /\ [BtIdle EXCEPT !.pc = p].pc = p
<1>1. PICK c : c = [BtIdle EXCEPT !.pc = p]
  OBVIOUS
<1>2. c = [pc |-> p, left |-> 0, mut |-> BtNone, table |-> 0, todo |-> {}, listed |-> {},
           quiet |-> {}]
  BY <1>1 DEF BtIdle
<1>3. c.pc = p /\ c.quiet = {}
  BY <1>2
<1>4. c.pc \in BtPlaces /\ c.pc \notin {"find", "change", "list", "stream"}
  BY <1>3 DEF BtPlaces, BtResting
<1>5. BtCallInv(c)
  BY <1>2, <1>3, <1>4 DEF BtCallInv
<1> QED
  BY <1>1, <1>3, <1>5 DEF BtRests

LEMMA BtRestsApart ==
  ASSUME NEW c, BtRests(c)
  PROVE  \A r : ~WritesRow(c, r) /\ ~ReadsRow(c, r)
BY DEF BtRests, BtResting, WritesRow, ReadsRow

(* A call that finds no backend is to create one, and so others race it.   *)
LEMMA BtCallPreserves ==
  ASSUME BtInv, NEW w \in BtWorkers, BtCall(w)
  PROVE  BtInv'
<1>1. PICK p, c : /\ p = IF BtCreators = {} THEN "first" ELSE "race"
                  /\ c = [BtIdle EXCEPT !.pc = p]
  OBVIOUS
<1>2. BtRests(c)
  <2>1. p \in BtResting
    BY <1>1 DEF BtResting
  <2> QED
    BY <1>1, <2>1, BtRestingCall
<1>3. /\ bw' = [v \in BtWorkers |-> IF v \in BtCreators \union {w} THEN c ELSE bw[v]]
      /\ bw[w].pc = "idle" /\ UNCHANGED <<current, tables, btSerial, btContested>>
  BY <1>1 DEF BtCall
<1>4. ASSUME NEW v \in BtWorkers
      PROVE  bw'[v] = bw[v] \/ (BtRests(bw'[v]) /\ BtRests(bw[v]))
  <2>1. BtCallInv(bw[v])
    BY DEF BtInv, BtTypeInv
  <2> QED
    BY <1>2, <1>3, <2>1 DEF BtRests, BtResting, BtCreators
<1>5. BtTypeInv'
  <2>1. \A v \in BtWorkers : BtCallInv(bw'[v])
    BY <1>4 DEF BtInv, BtTypeInv, BtRests
  <2>2. \A v \in BtWorkers : BtCallInv(bw[v])'
    BY <1>3, <2>1 DEF BtCallInv
  <2> QED
    BY <1>3, <2>2 DEF BtInv, BtTypeInv
<1>6. ASSUME NEW r \in BtRows PROVE RowInv(r)'
  <2>1. RowInv(r) /\ (BtSame(RowsNow, r) => BtSame(RowsNow, r)')
    BY <1>3 DEF BtInv, RowsNow, BtSame
  <2>2. \A v \in BtWorkers : WritesRow(bw'[v], r) <=> WritesRow(bw[v], r)
    BY <1>4, BtRestsApart
  <2>3. \A v \in BtWorkers : WritesRow(bw'[v], r) => bw'[v] = bw[v]
    BY <1>4, BtRestsApart
  <2>4. \A v \in BtWorkers : ReadsRow(bw'[v], r) => bw'[v] = bw[v]
    BY <1>4, BtRestsApart
  <2>5. r \notin btContested =>
          /\ BtSame(RowsNow, r)'
          /\ \A u, v \in BtWorkers : WritesRow(bw'[u], r) /\ WritesRow(bw'[v], r) => u = v
          /\ \A v \in BtWorkers : WritesRow(bw'[v], r) /\ bw'[v].pc = "change" =>
               bw'[v].table = current
          /\ \A v \in BtWorkers : ReadsRow(bw'[v], r) =>
               ReaderInv(bw[v], r) /\ \A u \in BtWorkers : ~WritesRow(bw'[u], r)
    BY <2>1, <2>2, <2>3, <2>4 DEF RowInv
  <2>6. \A v \in BtWorkers : ReadsRow(bw'[v], r) => (ReaderInv(bw[v], r) => ReaderInv(bw[v], r)')
    BY <1>3, <2>4 DEF ReaderInv
  <2>7. r \notin btContested' =>
          /\ BtSame(RowsNow, r)'
          /\ \A u, v \in BtWorkers : WritesRow(bw'[u], r) /\ WritesRow(bw'[v], r) => u = v
          /\ \A v \in BtWorkers : WritesRow(bw'[v], r) /\ bw'[v].pc = "change" =>
               bw'[v].table = current'
          /\ \A v \in BtWorkers : ReadsRow(bw'[v], r) =>
               ReaderInv(bw[v], r)' /\ \A u \in BtWorkers : ~WritesRow(bw'[u], r)
    BY <1>3, <2>5, <2>6
  <2> QED
    BY <2>7 DEF RowInv, WritesRow, ReadsRow
<1> QED
  BY <1>5, <1>6 DEF BtInv

(* A thread that creates a backend *)
LEMMA BtNewBackendPreserves ==
  ASSUME BtInv, BtStartInv, NEW w \in BtWorkers, BtNewBackend(w)
  PROVE  BtInv' /\ BtStartInv'
<1>1. PICK c, l : c = [BtIdle EXCEPT !.pc = "ready"] /\ l = [BtIdle EXCEPT !.pc = "lost"]
  OBVIOUS
<1>2. BtRests(c) /\ c.pc = "ready" /\ BtRests(l) /\ l.pc = "lost"
  <2>1. "ready" \in BtResting /\ "lost" \in BtResting
    BY DEF BtResting
  <2> QED
    BY <1>1, <2>1, BtRestingCall
<1>3. /\ current' = 0 /\ tables' = <<>> /\ btBackend' = TRUE
      /\ bw' = [v \in BtWorkers |->
           IF v = w THEN c ELSE IF bw[v].pc \in {"idle", "first", "race", "ready"} THEN bw[v]
           ELSE l]
  BY <1>1 DEF BtNewBackend
<1>4. bw[w].pc \in {"first", "race"} /\ w \in BtCreators
  BY DEF BtNewBackend, BtCreators
<1>5. btSerial' = BtNone /\ btContested' = {}
  <2>1. CASE bw[w].pc = "race"
    BY <2>1 DEF BtNewBackend
  <2>2. CASE bw[w].pc = "first"
    <3>1. btBackend # TRUE
      BY <2>2, Zenon DEF BtStartInv
    <3>2. btSerial = BtNone /\ btContested = {}
      BY <3>1, Zenon DEF BtStartInv
    <3> QED
      BY <2>2, <3>2 DEF BtNewBackend
  <2> QED
    BY <1>4, <2>1, <2>2
<1>6. ASSUME NEW v \in BtWorkers PROVE BtRests(bw'[v]) /\ bw'[v].pc # "first"
  <2>1. BtCallInv(bw[v])
    BY DEF BtInv, BtTypeInv
  <2>2. CASE v = w
    BY <1>2, <1>3, <2>2
  <2>3. CASE v # w /\ bw[v].pc \in {"idle", "first", "race", "ready"}
    <3>1. bw[v].pc # "first"
      <4>1. SUFFICES ASSUME bw[v].pc = "first" PROVE FALSE
        OBVIOUS
      <4>2. BtCreators = {v}
        BY <4>1 DEF BtStartInv
      <4> QED
        BY <1>4, <2>3, <4>2
    <3> QED
      BY <1>3, <2>1, <2>3, <3>1 DEF BtRests, BtResting
  <2>4. CASE v # w /\ bw[v].pc \notin {"idle", "first", "race", "ready"}
    BY <1>2, <1>3, <2>4
  <2> QED
    BY <2>2, <2>3, <2>4
<1>7. BtTypeInv'
  <2>1. \A v \in BtWorkers : BtCallInv(bw[v])'
    BY <1>6 DEF BtRests, BtResting, BtCallInv
  <2>2. tables' \in Seq(BtTables) /\ current' \in 0..Len(tables') /\ btContested' \subseteq BtRows
    BY <1>3, <1>5
  <2> QED
    BY <1>3, <2>1, <2>2 DEF BtTypeInv
<1>8. ASSUME NEW r \in BtRows PROVE RowInv(r)'
  <2>1. \A v \in BtWorkers : ~WritesRow(bw'[v], r) /\ ~ReadsRow(bw'[v], r)
    BY <1>6, BtRestsApart
  <2>2. BtSame(RowsNow, r)'
    BY <1>3, <1>5 DEF RowsNow, BtSame, BtNone
  <2>3. /\ \A v \in BtWorkers : ~WritesRow(bw[v], r)'
        /\ \A v \in BtWorkers : ~ReadsRow(bw[v], r)'
    BY <2>1 DEF WritesRow, ReadsRow
  <2> QED
    BY <2>2, <2>3 DEF RowInv
<1>9. BtInv'
  BY <1>7, <1>8 DEF BtInv
<1>10. BtStartInv'
  BY <1>3, <1>6 DEF BtStartInv
<1> QED
  BY <1>9, <1>10

LEMMA BtCallStart ==
  ASSUME BtInv, BtStartInv, NEW w \in BtWorkers, BtCall(w)
  PROVE  BtStartInv'
<1>1. PICK p, c : /\ p = IF BtCreators = {} THEN "first" ELSE "race"
                  /\ c = [BtIdle EXCEPT !.pc = p]
  OBVIOUS
<1>2. c.pc = p
  BY <1>1 DEF BtIdle
<1>3. /\ bw' = [v \in BtWorkers |-> IF v \in BtCreators \union {w} THEN c ELSE bw[v]]
      /\ UNCHANGED <<btBackend, current, btSerial, btContested>>
  BY <1>1 DEF BtCall
<1>4. btBackend # TRUE
  BY Zenon DEF BtCall
<1>5. ASSUME NEW v \in BtWorkers, bw'[v].pc = "first" PROVE BtCreators' = {v}
  <2>1. BtCreators = {} /\ p = "first"
    <3>1. CASE v \in BtCreators \union {w}
      BY <1>1, <1>2, <1>3, <1>5, <3>1
    <3>2. CASE v \notin BtCreators \union {w}
      BY <1>3, <1>5, <3>2 DEF BtCreators
    <3> QED
      BY <3>1, <3>2
  <2>2. \A u \in BtWorkers : bw'[u].pc \in {"first", "race"} <=> u = w
    BY <1>2, <1>3, <2>1 DEF BtCreators
  <2> QED
    BY <1>5, <2>2 DEF BtCreators
<1>6. \A v \in BtWorkers : bw'[v].pc \in {"idle", "first", "race"}
  <2>1. \A v \in BtWorkers : bw[v].pc \in {"idle", "first", "race"}
    BY <1>4, Zenon DEF BtStartInv
  <2> QED
    BY <1>1, <1>2, <1>3, <2>1
<1>7. current = 0 /\ btSerial = BtNone /\ btContested = {}
  BY <1>4, Zenon DEF BtStartInv
<1> QED
  BY <1>3, <1>4, <1>5, <1>6, <1>7 DEF BtStartInv

(* Any other step is one of a worker that has a backend. *)
LEMMA BtWorkStart ==
  ASSUME BtStartInv, NEW w \in BtWorkers,
         bw[w].pc \notin {"idle", "first", "race"} \/ btBackend \/ current # 0,
         \A v \in BtWorkers : bw'[v].pc = "first" => bw[v].pc = "first",
         UNCHANGED btBackend
  PROVE  BtStartInv'
<1>1. btBackend = TRUE
  <2>1. CASE bw[w].pc \notin {"idle", "first", "race"} \/ current # 0
    <3>1. ~(btBackend # TRUE)
      BY <2>1, Zenon DEF BtStartInv
    <3> QED
      BY <3>1
  <2>2. CASE btBackend
    BY <2>2
  <2> QED
    BY <2>1, <2>2
<1>2. \A v \in BtWorkers : bw[v].pc # "first"
  BY <1>1 DEF BtStartInv
<1> QED
  BY <1>1, <1>2 DEF BtStartInv

LEMMA BtMoves ==
  ASSUME NEW w \in BtWorkers, NEW c, BtGoesOn(w, c), c.pc # "first"
  PROVE  \A v \in BtWorkers : bw'[v].pc = "first" => bw[v].pc = "first"
<1>1. bw'[w] = c
  BY DEF BtGoesOn
<1>2. \A v \in BtWorkers : v # w => bw'[v].pc = bw[v].pc
  BY BtOthersStay
<1> QED
  BY <1>1, <1>2

LEMMA BtBegins ==
  ASSUME BtTypeInv, NEW w \in BtWorkers, NEW c, BtBegin(w, c), c.pc # "first"
  PROVE  /\ bw[w].pc \notin {"idle", "first", "race"} \/ btBackend
         /\ \A v \in BtWorkers : bw'[v].pc = "first" => bw[v].pc = "first"
         /\ UNCHANGED btBackend
<1>1. DOMAIN bw = BtWorkers
  BY DEF BtTypeInv
<1> QED
  BY <1>1 DEF BtBegin

LEMMA BtGoes ==
  ASSUME BtTypeInv, NEW w \in BtWorkers, NEW c, BtGo(w, c), c.pc # "first"
  PROVE  /\ \A v \in BtWorkers : bw'[v].pc = "first" => bw[v].pc = "first"
         /\ UNCHANGED btBackend
<1>1. DOMAIN bw = BtWorkers
  BY DEF BtTypeInv
<1> QED
  BY <1>1 DEF BtGo

(* A worker is not at the creation of a backend once it has taken a step.  *)
LEMMA BtWorkMoves ==
  ASSUME BtInv, NEW w \in BtWorkers, BtWork(w), ~BtCall(w), ~BtNewBackend(w)
  PROVE  /\ bw[w].pc \notin {"idle", "first", "race"} \/ btBackend \/ current # 0
         /\ \A v \in BtWorkers : bw'[v].pc = "first" => bw[v].pc = "first"
         /\ UNCHANGED btBackend
<1> USE BtIdleCall DEF BtInv
<1>1. PICK b : b = bw[w]
  OBVIOUS
<1>2. BtCallInv(b) /\ DOMAIN bw = BtWorkers
  BY <1>1 DEF BtTypeInv
<1>3. CASE BtCreate(w) \/ BtDelete(w) \/ BtMutate(w) \/ BtRead(w)
  <2>1. PICK c : BtBegin(w, c) /\ c.pc # "first"
    <3>1. CASE BtCreate(w) \/ BtDelete(w)
      <4>1. /\ [BtIdle EXCEPT !.pc = "create"].pc # "first"
            /\ [BtIdle EXCEPT !.pc = "delete"].pc # "first"
        BY DEF BtIdle
      <4> QED
        BY <3>1, <4>1 DEF BtCreate, BtDelete
    <3>2. CASE BtMutate(w)
      <4>1. \A n : [BtIdle EXCEPT !.pc = "next", !.left = n].pc # "first"
        BY DEF BtIdle
      <4> QED
        BY <3>2, <4>1 DEF BtMutate
    <3>3. CASE BtRead(w)
      <4>1. [BtIdle EXCEPT !.pc = "list", !.table = current, !.quiet = BtCalm].pc # "first"
        BY DEF BtIdle
      <4> QED
        BY <3>3, <4>1 DEF BtRead
    <3> QED
      BY <1>3, <3>1, <3>2, <3>3
  <2> QED
    BY <2>1, BtBegins
<1>4. CASE BtCreated(w) \/ BtDeleted(w)
  <2>1. PICK t : BtSwap(w, t) /\ b.pc \in {"create", "delete"}
    BY <1>1, <1>4 DEF BtCreated, BtDeleted
  <2>2. BtGoesOn(w, BtIdle) /\ UNCHANGED btBackend
    BY <2>1, BtSwapGoesOn DEF BtSwap
  <2> QED
    BY <1>1, <2>1, <2>2, BtMoves
<1>5. CASE BtDeleteFails(w) \/ \E r \in bw[w].todo : BtStreamFails(w, r)
  <2>1. BtGo(w, BtIdle) /\ b.pc \in {"delete", "stream"}
    BY <1>1, <1>5 DEF BtDeleteFails, BtStreamFails
  <2> QED
    BY <1>1, <2>1, BtGoes
<1>6. CASE BtLost(w) \/ \E f \in BtFamilies : BtModify(w, {f}, {}) \/ BtModify(w, {}, {f})
  <2>1. /\ bw' = [bw EXCEPT ![w] = BtIdle] /\ UNCHANGED btBackend
        /\ b.pc = "lost" \/ current # 0
    BY <1>1, <1>6 DEF BtLost, BtModify
  <2> QED
    BY <1>1, <1>2, <2>1
<1>7. CASE BtFind(w)
  <2>1. PICK c : c = IF current = 0 THEN BtIdle ELSE [b EXCEPT !.pc = "change", !.table = current]
    OBVIOUS
  <2>2. BtGo(w, c) /\ b.pc = "find"
    BY <1>1, <1>7, <2>1 DEF BtFind
  <2>3. c.pc # "first"
    BY <1>2, <2>1 DEF BtCallInv
  <2> QED
    BY <1>1, <2>2, <2>3, BtGoes
<1>8. CASE BtChange(w)
  <2>1. PICK c : c = IF b.left = 0 THEN BtIdle ELSE [BtIdle EXCEPT !.pc = "next", !.left = b.left]
    OBVIOUS
  <2>2. bw' = [bw EXCEPT ![w] = c] /\ b.pc = "change" /\ UNCHANGED btBackend
    BY <1>1, <1>8, <2>1 DEF BtChange
  <2>3. c.pc # "first"
    BY <2>1 DEF BtIdle
  <2> QED
    BY <1>1, <1>2, <2>2, <2>3
<1>9. CASE \E m \in BtMutations : BtNext(w, m)
  <2>1. PICK m \in BtMutations : BtNext(w, m)
    BY <1>9
  <2>2. PICK c : c = [b EXCEPT !.pc = "find", !.mut = m, !.left = b.left - 1]
    OBVIOUS
  <2>3. /\ bw' = [v \in BtWorkers |-> IF v = w THEN c
                                      ELSE [bw[v] EXCEPT !.quiet = bw[v].quiet \ {m.row}]]
        /\ b.pc = "next" /\ UNCHANGED btBackend
    BY <1>1, <2>1, <2>2 DEF BtNext
  <2>4. c.pc # "first"
    BY <1>2, <2>2 DEF BtCallInv
  <2>5. BtGoesOn(w, c)
    BY <2>3, BtQuietGoesOn
  <2> QED
    BY <1>1, <2>3, <2>4, <2>5, BtMoves
<1>10. CASE BtList(w)
  <2>1. PICK keys, some : BtGo(w, IF keys \intersect some = {} THEN BtIdle
                  ELSE [b EXCEPT !.pc = "stream", !.todo = keys \intersect some,
                                 !.listed = keys, !.quiet = b.quiet \intersect some])
                          /\ b.pc = "list"
    BY <1>1, <1>10 DEF BtList
  <2>2. PICK c : c = IF keys \intersect some = {} THEN BtIdle
                     ELSE [b EXCEPT !.pc = "stream", !.todo = keys \intersect some,
                                    !.listed = keys, !.quiet = b.quiet \intersect some]
    OBVIOUS
  <2>3. c.pc # "first"
    BY <1>2, <2>2 DEF BtCallInv
  <2> QED
    BY <1>1, <2>1, <2>2, <2>3, BtGoes
<1>11. CASE \E r \in bw[w].todo : BtStream(w, r)
  <2>1. PICK r : BtStream(w, r)
    BY <1>11
  <2>2. PICK c : c = IF b.todo = {r} THEN BtIdle ELSE [b EXCEPT !.todo = b.todo \ {r}]
    OBVIOUS
  <2>3. BtGo(w, c) /\ b.pc = "stream"
    BY <1>1, <2>1, <2>2 DEF BtStream
  <2>4. c.pc # "first"
    <3>1. b.todo # {r} => c.pc = b.pc
      BY <1>2, <2>2 DEF BtCallInv
    <3> QED
      BY <2>2, <2>3, <3>1
  <2> QED
    BY <1>1, <2>3, <2>4, BtGoes
<1> QED
  BY <1>3, <1>4, <1>5, <1>6, <1>7, <1>8, <1>9, <1>10, <1>11 DEF BtWork

LEMMA BtStepInv == BtInv /\ BtStartInv /\ [BigtableNext]_btVars => BtInv' /\ BtStartInv'
<1> SUFFICES ASSUME BtInv, BtStartInv, [BigtableNext]_btVars PROVE BtInv' /\ BtStartInv'
  OBVIOUS
<1>1. CASE UNCHANGED btVars
  <2>1. UNCHANGED <<btBackend, current, tables, bw, btSerial, btContested>>
    BY <1>1 DEF btVars
  <2>2. BtTypeInv'
    BY <2>1 DEF BtInv, BtTypeInv, BtCallInv
  <2>3. \A r : RowInv(r) => RowInv(r)'
    BY <2>1 DEF RowInv, RowsNow, BtSame, WritesRow, ReadsRow, ReaderInv
  <2>4. BtStartInv'
    BY <2>1 DEF BtStartInv, BtCreators
  <2> QED
    BY <2>2, <2>3, <2>4 DEF BtInv
<1>2. CASE BigtableNext
  <2>1. PICK w \in BtWorkers : BtWork(w)
    BY <1>2 DEF BigtableNext
  <2>2. CASE BtCall(w)
    BY <2>2, BtCallPreserves, BtCallStart
  <2>3. CASE BtNewBackend(w)
    BY <2>3, BtNewBackendPreserves
  <2>4. CASE ~BtCall(w) /\ ~BtNewBackend(w)
    <3>7. BtInv'
      <4>1. CASE \/ BtCreate(w) \/ BtCreated(w) \/ BtDelete(w) \/ BtDeleted(w)
                 \/ BtDeleteFails(w) \/ BtLost(w)
        BY <4>1, BtCreatePreserves, BtCreatedPreserves, BtDeletedPreserves, BtFailsPreserves
      <4>2. CASE \E f \in BtFamilies : BtModify(w, {f}, {}) \/ BtModify(w, {}, {f})
        BY <4>2, BtModifyPreserves
      <4>3. CASE BtMutate(w) \/ BtFind(w) \/ BtChange(w)
        BY <4>3, BtMutatePreserves, BtFindPreserves, BtChangePreserves
      <4>4. CASE \E m \in BtMutations : BtNext(w, m)
        BY <4>4, BtNextPreserves
      <4>5. CASE BtRead(w) \/ BtList(w)
        BY <4>5, BtReadPreserves, BtListPreserves
      <4>6. CASE \E r \in bw[w].todo : BtStream(w, r) \/ BtStreamFails(w, r)
        BY <4>6, BtStreamPreserves, BtFailsPreserves
      <4> QED
        BY <2>1, <2>4, <4>1, <4>2, <4>3, <4>4, <4>5, <4>6 DEF BtWork
    <3>8. BtStartInv'
      BY <2>1, <2>4, BtWorkMoves, BtWorkStart
    <3> QED
      BY <3>7, <3>8
  <2> QED
    BY <2>2, <2>3, <2>4
<1> QED
  BY <1>1, <1>2

LEMMA BtStartInit == BigtableInit => BtStartInv
<1> SUFFICES ASSUME BigtableInit PROVE BtStartInv
  OBVIOUS
<1>1. \A w \in BtWorkers : bw[w].pc = "idle"
  BY BtIdleCall DEF BigtableInit
<1> QED
  BY <1>1 DEF BigtableInit, BtStartInv

LEMMA BtInvMeans == BtInv => BigtableIsolated
<1> SUFFICES ASSUME BtInv PROVE BigtableIsolated
  OBVIOUS
<1>1. ASSUME current # 0, NEW r \in BtCalm \ btContested
      PROVE  BtSame(tables[current].rows, r)
  <2>1. r \in BtRows
    BY <1>1 DEF BtCalm
  <2> QED
    BY <1>1, <2>1 DEF BtInv, RowInv, RowsNow
<1>2. ASSUME NEW w \in BtWorkers, bw[w].pc = "stream", NEW r \in bw[w].quiet \ btContested
      PROVE  /\ r \in bw[w].listed <=> r \in DOMAIN btSerial
             /\ BtSame(tables[bw[w].table].rows, r)
  <2>1. r \in BtRows /\ ReadsRow(bw[w], r) /\ bw[w].table \in DOMAIN tables
    BY <1>2 DEF BtInv, BtTypeInv, BtCallInv, ReadsRow
  <2>2. ReaderInv(bw[w], r) /\ BtSame(RowsNow, r)
    BY <1>2, <2>1 DEF BtInv, RowInv
  <2>3. RowsNow = tables[bw[w].table].rows
    BY <2>1, <2>2, LenProperties DEF RowsNow, ReaderInv, BtInv, BtTypeInv
  <2> QED
    BY <1>2, <2>2, <2>3 DEF ReaderInv
<1> QED
  BY <1>1, <1>2 DEF BigtableIsolated

(* Without a lock, a row that no two mutations are at at a time and whose  *)
(* table was not swapped under one holds the cells its mutations say,      *)
(* newest first and one for each timestamp; and ReadRows lists and streams *)
(* every row nobody has been at since it began, as last written.  A        *)
(* backend that is created over another is another swap of the table.      *)
THEOREM RowsStayIsolated == DataSpec => []BigtableIsolated
<1>1. DataInit => BtInv /\ BtStartInv
  BY DataInits, BtInitInv, BtStartInit
<1>2. (BtInv /\ BtStartInv) /\ [DataNext]_dataVars => (BtInv /\ BtStartInv)'
  BY OneDataService, BtStepInv
<1>3. BtInv /\ BtStartInv => BigtableIsolated
  BY BtInvMeans
<1> QED
  BY <1>1, <1>2, <1>3, PTL DEF DataSpec, dataVars

------------------------------------------------------------------------------
(* Queries: what sorting returns *)

(* R orders S: of two different elements just one is before the other. *)
Orders(R, S) ==
  /\ \A x \in S : <<x, x>> \notin R
  /\ \A x, y \in S : x # y => <<x, y>> \in R \/ <<y, x>> \in R
  /\ \A x, y, z \in S : <<x, y>> \in R /\ <<y, z>> \in R => <<x, z>> \in R

Behind(R, S, y) == {x \in S : <<x, y>> \in R}

LEMMA MoreBehind ==
  ASSUME NEW S, IsFiniteSet(S), NEW R, Orders(R, S), NEW x \in S, NEW y \in S, <<x, y>> \in R
  PROVE  Cardinality(Behind(R, S, x)) < Cardinality(Behind(R, S, y))
<1>1. /\ Behind(R, S, x) \subseteq Behind(R, S, y) /\ x \in Behind(R, S, y)
      /\ x \notin Behind(R, S, x) /\ Behind(R, S, y) \subseteq S
  BY DEF Behind, Orders
<1>2. IsFiniteSet(Behind(R, S, y)) /\ Cardinality(Behind(R, S, y)) \in Nat
  BY <1>1, FS_Subset, FS_CardinalityType
<1>3. /\ IsFiniteSet(Behind(R, S, x)) /\ Cardinality(Behind(R, S, x)) \in Nat
      /\ Cardinality(Behind(R, S, x)) <= Cardinality(Behind(R, S, y))
      /\ Cardinality(Behind(R, S, x)) # Cardinality(Behind(R, S, y))
  BY <1>1, <1>2, FS_Subset, FS_CardinalityType
<1> QED
  BY <1>2, <1>3

(* An element's place is after all that are before it. *)
LEMMA ArrangementExists ==
  ASSUME NEW S, IsFiniteSet(S), NEW R, Orders(R, S)
  PROVE  \E p \in Bijection(1..Cardinality(S), S) :
           \A i, j \in DOMAIN p : i < j => <<p[i], p[j]>> \in R
<1>1. PICK n : n = Cardinality(S)
  OBVIOUS
<1>2. n \in Nat /\ IsFiniteSet(1..n) /\ Cardinality(1..n) = n
  <2>1. n \in Nat
    BY <1>1, FS_CardinalityType
  <2> QED
    BY <2>1, FS_Interval
<1>3. PICK r : r = [x \in S |-> Cardinality(Behind(R, S, x)) + 1]
  OBVIOUS
<1>4. ASSUME NEW x \in S PROVE r[x] \in 1..n
  <2>1. Behind(R, S, x) \subseteq S \ {x}
    BY DEF Behind, Orders
  <2>2. IsFiniteSet(S \ {x}) /\ Cardinality(S \ {x}) = n - 1
    BY <1>1, FS_RemoveElement
  <2>3. IsFiniteSet(Behind(R, S, x)) /\ Cardinality(Behind(R, S, x)) <= n - 1
    BY <2>1, <2>2, FS_Subset
  <2>4. Cardinality(Behind(R, S, x)) \in Nat
    BY <2>3, FS_CardinalityType
  <2> QED
    BY <1>2, <1>3, <2>3, <2>4
<1>5. ASSUME NEW x \in S, NEW y \in S, <<x, y>> \in R PROVE r[x] < r[y]
  <2>1. Cardinality(Behind(R, S, x)) < Cardinality(Behind(R, S, y))
    BY <1>5, MoreBehind
  <2>2. r[x] = Cardinality(Behind(R, S, x)) + 1 /\ r[y] = Cardinality(Behind(R, S, y)) + 1
    BY <1>3
  <2>3. r[x] \in 1..n /\ r[y] \in 1..n
    BY <1>4
  <2>4. Cardinality(Behind(R, S, x)) \in Nat /\ Cardinality(Behind(R, S, y)) \in Nat
    <3>1. Behind(R, S, x) \in SUBSET S /\ Behind(R, S, y) \in SUBSET S
      BY DEF Behind
    <3> QED
      BY <3>1, FS_Subset, FS_CardinalityType
  <2> QED
    BY <2>1, <2>2, <2>4
<1>6. \A x, y \in S : r[x] = r[y] => x = y
  <2> SUFFICES ASSUME NEW x \in S, NEW y \in S, x # y PROVE r[x] # r[y]
    OBVIOUS
  <2>1. r[x] \in 1..n /\ r[y] \in 1..n
    BY <1>4
  <2>2. r[x] < r[y] \/ r[y] < r[x]
    BY <1>5 DEF Orders
  <2> QED
    BY <1>2, <2>1, <2>2
<1>7. r \in [S -> 1..n]
  BY <1>3, <1>4
<1>8. r \in Bijection(S, 1..n)
  <2>1. r \in Injection(S, 1..n)
    BY <1>6, <1>7 DEF Injection, IsInjective
  <2>2. r \in Surjection(S, 1..n)
    BY <1>1, <1>2, <2>1, FS_Injection
  <2> QED
    BY <2>1, <2>2 DEF Bijection
<1>9. PICK p : p = Inverse(r, S, 1..n)
  OBVIOUS
<1>10. p \in Bijection(1..n, S) /\ \A x \in S : p[r[x]] = x
  BY <1>8, <1>9, Fun_BijInverse
<1>11. ASSUME NEW i \in 1..n, NEW j \in 1..n, i < j PROVE <<p[i], p[j]>> \in R
  <2>1. PICK x \in S, y \in S : r[x] = i /\ r[y] = j
    BY <1>8 DEF Bijection, Surjection
  <2>2. p[i] = x /\ p[j] = y
    BY <1>10, <2>1
  <2>3. x # y /\ ~ (r[y] < r[x])
    BY <1>11, <2>1
  <2>4. <<y, x>> \notin R
    BY <1>5, <2>3
  <2> QED
    BY <2>2, <2>3, <2>4 DEF Orders
<1>12. DOMAIN p = 1..n
  BY <1>10 DEF Bijection, Injection
<1> QED
  BY <1>1, <1>10, <1>11, <1>12

LEMMA Arranged ==
  ASSUME NEW S, IsFiniteSet(S), NEW R, Orders(R, S)
  PROVE  /\ QyArranged(S, R) \in Bijection(1..Cardinality(S), S)
         /\ DOMAIN QyArranged(S, R) = 1..Cardinality(S)
         /\ \A i, j \in 1..Cardinality(S) :
              i < j => <<QyArranged(S, R)[i], QyArranged(S, R)[j]>> \in R
<1>1. /\ QyArranged(S, R) \in Bijection(1..Cardinality(S), S)
      /\ \A i, j \in DOMAIN QyArranged(S, R) :
           i < j => <<QyArranged(S, R)[i], QyArranged(S, R)[j]>> \in R
  BY ArrangementExists DEF QyArranged
<1>2. DOMAIN QyArranged(S, R) = 1..Cardinality(S)
  BY <1>1 DEF Bijection, Injection
<1> QED
  BY <1>1, <1>2

(* In a list without repetition that is in order as many elements are      *)
(* before the one at place a as there are places before a.                 *)
LEMMA CountBefore ==
  ASSUME NEW n \in Nat, NEW S, NEW q \in Bijection(1..n, S), NEW a \in 1..n, NEW B,
         B = {q[b] : b \in 1..(a - 1)}
  PROVE  Cardinality(B) = a - 1
<1>1. PICK f : f = [b \in 1..(a - 1) |-> q[b]]
  OBVIOUS
<1>2. q \in [1..n -> S] /\ \A b, c \in 1..n : q[b] = q[c] => b = c
  BY DEF Bijection, Injection, IsInjective
<1>3. 1..(a - 1) \subseteq 1..n /\ a - 1 \in Nat
  OBVIOUS
<1>4. f \in [1..(a - 1) -> B] /\ \A x \in B : \E b \in 1..(a - 1) : f[b] = x
  BY <1>1
<1>5. \A b, c \in 1..(a - 1) : f[b] = f[c] => b = c
  BY <1>1, <1>2, <1>3
<1>6. f \in Bijection(1..(a - 1), B)
  BY <1>4, <1>5 DEF Bijection, Injection, Surjection, IsInjective
<1> QED
  BY <1>3, <1>6, FS_CountingElements DEF ExistsBijection

------------------------------------------------------------------------------
(* Queries: the order of entries *)

QyTypeInv ==
  /\ \E n \in 0..QyLength : entries \in [1..n -> QyEntries]
  /\ query = [filter |-> query.filter, orders |-> query.orders, offset |-> query.offset,
              limit |-> query.limit]
  /\ query.orders \in Seq(QyOrders)
  /\ qpc \in {"filter", "sort", "done"}

LEMMA KeyTyped ==
  ASSUME QyTypeInv, NEW i \in DOMAIN entries, NEW o \in QyOrders
  PROVE  \E r, n \in Int : QyKey(entries[i], o) = <<r, n>>
<1>1. PICK v : v = entries[i][o.path]
  OBVIOUS
<1>2. entries[i] \in QyEntries /\ o.path \in QyPaths
  BY DEF QyTypeInv, QyOrders
<1>3. v.type \in DOMAIN QyRankOf /\ v.n \in Int
  BY <1>1, <1>2, QueriesAssumption
<1>4. QyRankOf[v.type] \in Int
  BY <1>3 DEF QyRankOf
<1> QED
  BY <1>1, <1>3, <1>4 DEF QyKey

(* Pairs of integers are ordered by QyLess. *)
LEMMA LessOrders ==
  ASSUME NEW a \in Int, NEW b \in Int, NEW c \in Int, NEW d \in Int, NEW e \in Int, NEW f \in Int
  PROVE  /\ ~ QyLess(<<a, b>>, <<a, b>>)
         /\ QyLess(<<a, b>>, <<c, d>>) \/ QyLess(<<c, d>>, <<a, b>>) \/ <<a, b>> = <<c, d>>
         /\ ~ (QyLess(<<a, b>>, <<c, d>>) /\ QyLess(<<c, d>>, <<a, b>>))
         /\ QyLess(<<a, b>>, <<c, d>>) /\ QyLess(<<c, d>>, <<e, f>>) => QyLess(<<a, b>>, <<e, f>>)
BY DEF QyLess

LEMMA BelowOrders ==
  ASSUME QyTypeInv, NEW o \in QyOrders,
         NEW i \in DOMAIN entries, NEW j \in DOMAIN entries, NEW k \in DOMAIN entries
  PROVE  /\ ~ QyBelow(i, i, o) /\ QyTied(i, i, o)
         /\ QyBelow(i, j, o) \/ QyBelow(j, i, o) \/ QyTied(i, j, o)
         /\ ~ (QyBelow(i, j, o) /\ QyBelow(j, i, o))
         /\ ~ (QyBelow(i, j, o) /\ QyTied(i, j, o))
         /\ QyTied(i, j, o) => QyTied(j, i, o)
         /\ QyTied(i, j, o) /\ QyTied(j, k, o) => QyTied(i, k, o)
         /\ QyTied(i, j, o) /\ QyBelow(j, k, o) => QyBelow(i, k, o)
         /\ QyBelow(i, j, o) /\ QyTied(j, k, o) => QyBelow(i, k, o)
         /\ QyBelow(i, j, o) /\ QyBelow(j, k, o) => QyBelow(i, k, o)
<1>1. PICK x, y, z : x = QyKey(entries[i], o) /\ y = QyKey(entries[j], o) /\ z = QyKey(entries[k], o)
  OBVIOUS
<1>2. PICK a \in Int, b \in Int : x = <<a, b>>
  BY <1>1, KeyTyped
<1>3. PICK c \in Int, d \in Int : y = <<c, d>>
  BY <1>1, KeyTyped
<1>4. PICK e \in Int, f \in Int : z = <<e, f>>
  BY <1>1, KeyTyped
<1>5. /\ ~ QyLess(x, x)
      /\ QyLess(x, y) \/ QyLess(y, x) \/ x = y
      /\ ~ (QyLess(x, y) /\ QyLess(y, x))
      /\ QyLess(x, y) /\ QyLess(y, z) => QyLess(x, z)
      /\ QyLess(z, y) /\ QyLess(y, x) => QyLess(z, x)
  BY <1>2, <1>3, <1>4, LessOrders
<1>6. ~ (QyLess(x, y) /\ x = y) /\ ~ (QyLess(y, x) /\ x = y)
  BY <1>5
<1>7. CASE o.descending
  BY <1>1, <1>5, <1>6, <1>7 DEF QyBelow, QyTied
<1>8. CASE ~ o.descending
  BY <1>1, <1>5, <1>6, <1>8 DEF QyBelow, QyTied
<1> QED
  BY <1>7, <1>8

(* QyPrecedes of any orders *)
Precedes(i, j, orders) ==
  \/ \E k \in DOMAIN orders : /\ QyBelow(i, j, orders[k])
                              /\ \A l \in 1..(k - 1) : QyTied(i, j, orders[l])
  \/ i < j /\ \A k \in DOMAIN orders : QyTied(i, j, orders[k])

(* No entry precedes one that precedes it, nor itself. *)
LEMMA PrecedesOneWay ==
  ASSUME QyTypeInv, NEW orders \in Seq(QyOrders), NEW i \in DOMAIN entries, NEW j \in DOMAIN entries
  PROVE  ~ (Precedes(i, j, orders) /\ Precedes(j, i, orders))
<1> SUFFICES ASSUME Precedes(i, j, orders), Precedes(j, i, orders) PROVE FALSE
  OBVIOUS
<1>1. /\ DOMAIN orders = 1..Len(orders) /\ Len(orders) \in Nat
      /\ \A k \in DOMAIN orders : orders[k] \in QyOrders
  BY LenProperties, ElementOfSeq
<1>2. i \in Int /\ j \in Int
  BY DEF QyTypeInv
<1>3. \A k \in DOMAIN orders :
        /\ ~ (QyBelow(i, j, orders[k]) /\ QyBelow(j, i, orders[k]))
        /\ ~ (QyBelow(i, j, orders[k]) /\ (QyTied(i, j, orders[k]) \/ QyTied(j, i, orders[k])))
        /\ ~ (QyBelow(j, i, orders[k]) /\ (QyTied(i, j, orders[k]) \/ QyTied(j, i, orders[k])))
  BY <1>1, BelowOrders
<1>4. CASE \E k \in DOMAIN orders : /\ QyBelow(i, j, orders[k])
                                   /\ \A l \in 1..(k - 1) : QyTied(i, j, orders[l])
  <2>1. PICK k \in DOMAIN orders : /\ QyBelow(i, j, orders[k])
                                  /\ \A l \in 1..(k - 1) : QyTied(i, j, orders[l])
    BY <1>4
  <2>2. PICK m \in DOMAIN orders : /\ QyBelow(j, i, orders[m])
                                  /\ \A l \in 1..(m - 1) : QyTied(j, i, orders[l])
    BY <1>3, <2>1 DEF Precedes
  <2>3. k # m
    BY <1>3, <2>1, <2>2
  <2>4. k \in 1..(m - 1) \/ m \in 1..(k - 1)
    BY <1>1, <2>3
  <2> QED
    BY <1>3, <2>1, <2>2, <2>4
<1>5. CASE i < j /\ \A k \in DOMAIN orders : QyTied(i, j, orders[k])
  <2>1. ~ (j < i)
    BY <1>2, <1>5
  <2> QED
    BY <1>3, <1>5, <2>1 DEF Precedes
<1> QED
  BY <1>4, <1>5 DEF Precedes

(* A criterion in front of the others decides, or leaves it to them. *)
LEMMA PrecedesFirst ==
  ASSUME QyTypeInv, NEW orders \in Seq(QyOrders), NEW o \in QyOrders, NEW i, NEW j,
         QyBelow(i, j, o) \/ (QyTied(i, j, o) /\ Precedes(i, j, orders))
  PROVE  Precedes(i, j, <<o>> \o orders)
<1>1. PICK more : more = <<o>> \o orders
  OBVIOUS
<1>2. PICK n \in Nat : n = Len(orders) /\ DOMAIN orders = 1..n
  BY LenProperties
<1>3. DOMAIN more = 1..(n + 1) /\ more[1] = o /\ \A k \in 1..n : more[k + 1] = orders[k]
  <2>1. <<o>> \in Seq(QyOrders) /\ Len(<<o>>) = 1 /\ <<o>>[1] = o
    OBVIOUS
  <2>2. /\ more \in Seq(QyOrders) /\ Len(more) = 1 + n
        /\ \A k \in 1..(1 + n) : more[k] = IF k <= 1 THEN <<o>>[k] ELSE orders[k - 1]
    BY <1>1, <1>2, <2>1, ConcatProperties
  <2>3. DOMAIN more = 1..(1 + n)
    BY <2>2, LenProperties
  <2>4. ASSUME NEW k \in 1..n PROVE more[k + 1] = orders[k]
    BY <1>2, <2>2
  <2> QED
    BY <1>2, <2>1, <2>2, <2>3, <2>4
<1>4. CASE QyBelow(i, j, o)
  <2>1. 1 \in DOMAIN more /\ QyBelow(i, j, more[1]) /\ 1..(1 - 1) = {}
    BY <1>2, <1>3, <1>4
  <2> QED
    BY <1>1, <2>1 DEF Precedes
<1>5. CASE QyTied(i, j, o) /\ Precedes(i, j, orders)
  <2>1. ASSUME NEW m \in Nat, m <= n, \A l \in 1..m : QyTied(i, j, orders[l])
        PROVE  \A l \in 1..(m + 1) : QyTied(i, j, more[l])
    <3> SUFFICES ASSUME NEW l \in 1..(m + 1) PROVE QyTied(i, j, more[l])
      OBVIOUS
    <3>1. CASE l = 1
      BY <1>3, <1>5, <3>1
    <3>2. CASE l # 1
      <4>1. l - 1 \in 1..m /\ l - 1 \in 1..n /\ (l - 1) + 1 = l
        BY <1>2, <2>1, <3>2
      <4> QED
        BY <1>3, <2>1, <4>1
    <3> QED
      BY <3>1, <3>2
  <2>2. CASE \E k \in DOMAIN orders : /\ QyBelow(i, j, orders[k])
                                     /\ \A l \in 1..(k - 1) : QyTied(i, j, orders[l])
    <3>1. PICK k \in 1..n : /\ QyBelow(i, j, orders[k])
                           /\ \A l \in 1..(k - 1) : QyTied(i, j, orders[l])
      BY <1>2, <2>2
    <3>2. k - 1 \in Nat /\ k - 1 <= n /\ (k - 1) + 1 = (k + 1) - 1 /\ k + 1 \in DOMAIN more
      BY <1>2, <1>3
    <3>3. \A l \in 1..((k + 1) - 1) : QyTied(i, j, more[l])
      BY <2>1, <3>1, <3>2
    <3>4. QyBelow(i, j, more[k + 1])
      BY <1>3, <3>1
    <3> QED
      BY <1>1, <3>2, <3>3, <3>4 DEF Precedes
  <2>3. CASE i < j /\ \A k \in DOMAIN orders : QyTied(i, j, orders[k])
    BY <1>1, <1>2, <1>3, <2>1, <2>3 DEF Precedes
  <2> QED
    BY <1>5, <2>2, <2>3 DEF Precedes
<1> QED
  BY <1>4, <1>5

------------------------------------------------------------------------------
(* Queries: the inductive invariant.  From the filter on, rows list what   *)
(* was found, each entry once, ordered by the criteria of the passes made  *)
(* so far, the latest first (Ordered); at the end they are a piece of such *)
(* a list (CutFrom).                                                       *)

FoundBy(filter) == {i \in DOMAIN entries : QyMatches(entries[i], filter)}

Ordered(q, S, orders) ==
  /\ q \in Bijection(1..Cardinality(S), S)
  /\ \A a, b \in 1..Cardinality(S) : a < b => Precedes(q[a], q[b], orders)

CutFrom(q, n, offset, limit) ==
  /\ offset \in Nat /\ limit \in Nat
  /\ \E m \in Nat :
       /\ rows = [a \in 1..m |-> rows[a]]
       /\ \A a \in 1..m : a <= limit /\ offset + a <= n /\ rows[a] = q[offset + a]
       /\ \A b \in 1..n : offset < b /\ b <= offset + limit => b <= offset + m

QyInv ==
  /\ QyTypeInv
  /\ qpc = "filter" => rows = <<>> /\ query.orders = <<>>
  /\ qpc = "sort"   => Ordered(rows, FoundBy(query.filter), query.orders)
  /\ qpc = "done"   =>
       \E q : /\ Ordered(q, FoundBy(query.filter), query.orders)
             /\ CutFrom(q, Cardinality(FoundBy(query.filter)), query.offset, query.limit)

LEMMA FoundFinite ==
  ASSUME QyTypeInv, NEW filter
  PROVE  /\ IsFiniteSet(FoundBy(filter)) /\ Cardinality(FoundBy(filter)) \in Nat
         /\ FoundBy(filter) \subseteq DOMAIN entries /\ FoundBy(filter) \subseteq Nat
<1>1. PICK n \in Nat : entries \in [1..n -> QyEntries]
  BY QueriesAssumption DEF QyTypeInv
<1>2. IsFiniteSet(1..n)
  BY FS_Interval
<1>3. FoundBy(filter) \subseteq 1..n
  BY <1>1 DEF FoundBy
<1> QED
  BY <1>1, <1>2, <1>3, FS_Subset, FS_CardinalityType

LEMMA QyFilterInv ==
  ASSUME QyInv, NEW filter, QyFilter(filter)
  PROVE  QyInv'
<1>1. PICK S, R : S = FoundBy(filter) /\ R = {ij \in S \X S : ij[1] < ij[2]}
  OBVIOUS
<1>2. /\ qpc = "filter" /\ qpc' = "sort" /\ entries' = entries
      /\ query' = [query EXCEPT !.filter = filter] /\ rows' = QyArranged(S, R)
  BY <1>1 DEF QyFilter, FoundBy
<1>3. /\ query'.filter = filter /\ query'.orders = <<>> /\ query.orders = <<>>
      /\ query' = [filter |-> query'.filter, orders |-> query'.orders,
                   offset |-> query'.offset, limit |-> query'.limit]
  BY <1>2 DEF QyInv, QyTypeInv
<1>4. QyTypeInv'
  BY <1>2, <1>3 DEF QyInv, QyTypeInv
<1>5. IsFiniteSet(S) /\ S \subseteq Nat
  BY <1>1, FoundFinite DEF QyInv
<1>6. \A i, j \in S : <<i, j>> \in R <=> i < j
  BY <1>1
<1>7. Orders(R, S)
  BY <1>5, <1>6 DEF Orders
<1>8. /\ rows' \in Bijection(1..Cardinality(S), S)
      /\ \A a, b \in 1..Cardinality(S) : a < b => <<rows'[a], rows'[b]>> \in R
  BY <1>2, <1>5, <1>7, Arranged
<1>9. \A a \in 1..Cardinality(S) : rows'[a] \in S
  BY <1>8 DEF Bijection, Injection
<1>10. \A i, j : i < j => Precedes(i, j, <<>>)'
  BY DEF Precedes
<1>11. FoundBy(filter)' = S
  BY <1>1, <1>2 DEF FoundBy
<1>12. /\ rows' \in Bijection(1..Cardinality(S), S)
       /\ \A a, b \in 1..Cardinality(S) : a < b => Precedes(rows[a], rows[b], <<>>)'
  BY <1>6, <1>8, <1>9, <1>10
<1>13. Ordered(rows, FoundBy(query.filter), query.orders)'
  BY <1>3, <1>11, <1>12 DEF Ordered
<1> QED
  BY <1>2, <1>4, <1>13 DEF QyInv

(* A stable sort by one more criterion *)
LEMMA SortOrders ==
  ASSUME QyTypeInv, NEW S, IsFiniteSet(S), S \subseteq DOMAIN entries, NEW q, NEW orders \in Seq(QyOrders),
         Ordered(q, S, orders), NEW o \in QyOrders
  PROVE  Ordered(QySort(q, o), S, <<o>> \o orders)
<1>1. PICK n \in Nat : n = Cardinality(S)
  BY FS_CardinalityType
<1>2. /\ q \in Bijection(1..n, S) /\ DOMAIN q = 1..n
      /\ \A a \in 1..n : q[a] \in S /\ q[a] \in DOMAIN entries
  BY <1>1 DEF Ordered, Bijection, Injection
<1>3. \A a, b \in 1..n : a < b => Precedes(q[a], q[b], orders)
  BY <1>1 DEF Ordered
<1>4. PICK R : R = QyStably(q, o)
  OBVIOUS
<1>5. ASSUME NEW a \in 1..n, NEW b \in 1..n
      PROVE  <<a, b>> \in R
               <=> QyBelow(q[a], q[b], o) \/ (QyTied(q[a], q[b], o) /\ a < b)
  <2>1. <<a, b>> \in (DOMAIN q) \X (DOMAIN q) /\ <<a, b>>[1] = a /\ <<a, b>>[2] = b
    BY <1>2
  <2> QED
    BY <1>4, <2>1 DEF QyStably
<1>6. Orders(R, 1..n)
  <2>1. \A a \in 1..n : <<a, a>> \notin R
    BY <1>2, <1>5, BelowOrders
  <2>2. ASSUME NEW a \in 1..n, NEW b \in 1..n, a # b PROVE <<a, b>> \in R \/ <<b, a>> \in R
    <3>1. a < b \/ b < a
      BY <2>2
    <3>2. \/ QyBelow(q[a], q[b], o) \/ QyBelow(q[b], q[a], o)
          \/ QyTied(q[a], q[b], o) /\ QyTied(q[b], q[a], o)
      BY <1>2, BelowOrders
    <3> QED
      BY <1>5, <3>1, <3>2
  <2>3. ASSUME NEW a \in 1..n, NEW b \in 1..n, NEW c \in 1..n, <<a, b>> \in R, <<b, c>> \in R
        PROVE  <<a, c>> \in R
    <3>1. PICK x \in DOMAIN entries, y \in DOMAIN entries, z \in DOMAIN entries :
             x = q[a] /\ y = q[b] /\ z = q[c]
      BY <1>2
    <3>2. /\ QyBelow(x, y, o) \/ (QyTied(x, y, o) /\ a < b)
          /\ QyBelow(y, z, o) \/ (QyTied(y, z, o) /\ b < c)
      BY <1>5, <2>3, <3>1
    <3>3. a < b /\ b < c => a < c
      OBVIOUS
    <3>4. QyBelow(x, z, o) \/ (QyTied(x, z, o) /\ a < c)
      BY <3>2, <3>3, BelowOrders
    <3> QED
      BY <1>5, <3>1, <3>4
  <2> QED
    BY <2>1, <2>2, <2>3 DEF Orders
<1>7. IsFiniteSet(1..n) /\ Cardinality(1..n) = n
  BY FS_Interval
<1>8. PICK p : p = QyArranged(1..n, R)
  OBVIOUS
<1>9. /\ p \in Bijection(1..n, 1..n) /\ DOMAIN p = 1..n
      /\ \A a, b \in 1..n : a < b => <<p[a], p[b]>> \in R
  BY <1>6, <1>7, <1>8, Arranged
<1>10. PICK s : s = [a \in 1..n |-> q[p[a]]]
  OBVIOUS
<1>11. s = QySort(q, o)
  BY <1>2, <1>4, <1>8, <1>10 DEF QySort
<1>12. s \in Bijection(1..n, S)
  BY <1>2, <1>9, <1>10, Fun_BijTransitive
<1>13. ASSUME NEW a \in 1..n, NEW b \in 1..n, a < b
       PROVE  Precedes(s[a], s[b], <<o>> \o orders)
  <2>1. PICK c \in 1..n, d \in 1..n : c = p[a] /\ d = p[b]
    BY <1>9 DEF Bijection, Injection
  <2>2. \/ QyBelow(q[c], q[d], o)
        \/ QyTied(q[c], q[d], o) /\ c < d
    BY <1>5, <1>9, <1>13, <2>1
  <2>3. QyBelow(q[c], q[d], o) \/ (QyTied(q[c], q[d], o) /\ Precedes(q[c], q[d], orders))
    BY <1>3, <2>2
  <2>4. Precedes(q[c], q[d], <<o>> \o orders)
    BY <2>3, PrecedesFirst
  <2> QED
    BY <1>10, <2>1, <2>4
<1> QED
  BY <1>1, <1>11, <1>12, <1>13 DEF Ordered

LEMMA QyPassInv ==
  ASSUME QyInv, NEW o \in QyOrders, QyPass(o)
  PROVE  QyInv'
<1>1. PICK S, orders : S = FoundBy(query.filter) /\ orders = query.orders
  OBVIOUS
<1>2. /\ qpc = "sort" /\ qpc' = "sort" /\ entries' = entries /\ rows' = QySort(rows, o)
      /\ query' = [query EXCEPT !.orders = <<o>> \o query.orders]
  BY DEF QyPass
<1>3. /\ query'.filter = query.filter /\ query'.orders = <<o>> \o orders
      /\ query' = [filter |-> query'.filter, orders |-> query'.orders,
                   offset |-> query'.offset, limit |-> query'.limit]
  BY <1>1, <1>2 DEF QyInv, QyTypeInv
<1>4. orders \in Seq(QyOrders) /\ <<o>> \o orders \in Seq(QyOrders)
  <2>1. orders \in Seq(QyOrders) /\ <<o>> \in Seq(QyOrders)
    BY <1>1 DEF QyInv, QyTypeInv
  <2> QED
    BY <2>1, ConcatProperties
<1>5. QyTypeInv'
  BY <1>2, <1>3, <1>4 DEF QyInv, QyTypeInv
<1>6. Ordered(rows', S, <<o>> \o orders)
  BY <1>1, <1>2, <1>4, FoundFinite, SortOrders DEF QyInv
<1>7. FoundBy(query.filter)' = S
  BY <1>1, <1>2, <1>3 DEF FoundBy
<1>8. \A i, j, more : Precedes(i, j, more)' <=> Precedes(i, j, more)
  BY <1>2 DEF Precedes, QyBelow, QyTied
<1>9. Ordered(rows, FoundBy(query.filter), query.orders)'
  BY <1>3, <1>6, <1>7, <1>8 DEF Ordered
<1> QED
  BY <1>2, <1>5, <1>9 DEF QyInv

LEMMA QySliceInv ==
  ASSUME QyInv, NEW offset \in 0..QyMaxOffset, NEW limit \in QyLimits \union {QyUnlimited},
         QySlice(offset, limit)
  PROVE  QyInv'
<1>1. PICK S, q, orders : S = FoundBy(query.filter) /\ q = rows /\ orders = query.orders
  OBVIOUS
<1>2. /\ qpc = "sort" /\ qpc' = "done" /\ entries' = entries
      /\ query' = [query EXCEPT !.offset = offset, !.limit = limit]
      /\ rows' = LET rest == SubSeq(q, offset + 1, Len(q))
                 IN IF limit < Len(rest) THEN SubSeq(rest, 1, limit) ELSE rest
  BY <1>1 DEF QySlice
<1>3. /\ query'.filter = query.filter /\ query'.orders = orders
      /\ query'.offset = offset /\ query'.limit = limit
      /\ query' = [filter |-> query'.filter, orders |-> query'.orders,
                   offset |-> query'.offset, limit |-> query'.limit]
  BY <1>1, <1>2 DEF QyInv, QyTypeInv
<1>4. QyTypeInv'
  BY <1>1, <1>2, <1>3 DEF QyInv, QyTypeInv
<1>5. FoundBy(query.filter)' = S
  BY <1>1, <1>2, <1>3 DEF FoundBy
<1>6. \A i, j, more : Precedes(i, j, more)' <=> Precedes(i, j, more)
  BY <1>2 DEF Precedes, QyBelow, QyTied
<1>7. Ordered(q, S, orders)
  BY <1>1, <1>2 DEF QyInv
<1>8. Ordered(q, FoundBy(query.filter), query.orders)'
  BY <1>3, <1>5, <1>6, <1>7 DEF Ordered
<1>9. PICK n \in Nat : n = Cardinality(S)
  BY <1>1, FoundFinite DEF QyInv
<1>10. q \in Seq(S) /\ Len(q) = n /\ \A a \in 1..n : q[a] \in S
  <2>1. q \in [1..n -> S]
    BY <1>7, <1>9 DEF Ordered, Bijection, Injection
  <2>2. q \in Seq(S) /\ DOMAIN q = 1..n
    BY <1>9, <2>1, SeqDef
  <2>3. Len(q) \in Nat /\ DOMAIN q = 1..Len(q)
    BY <2>2, LenProperties
  <2>4. Len(q) = n
    BY <1>9, <2>2, <2>3
  <2>5. \A a \in 1..n : q[a] \in S
    BY <2>1
  <2> QED
    BY <2>2, <2>4, <2>5
<1>11. limit \in Nat /\ offset \in Nat
  BY QueriesAssumption DEF QyUnlimited
<1>12. PICK rest : rest = SubSeq(q, offset + 1, Len(q))
  OBVIOUS
<1>13. PICK l \in Nat : l = IF offset <= n THEN n - offset ELSE 0
  BY <1>9, <1>11
<1>14. /\ rest \in Seq(S) /\ Len(rest) = l
       /\ \A a \in 1..l : a + offset <= n /\ rest[a] = q[offset + a]
  <2>1. offset + 1 \in Int /\ n \in Int /\ \A a \in (offset + 1)..n : q[a] \in S
    BY <1>9, <1>10, <1>11
  <2>2. /\ rest \in Seq(S) /\ Len(rest) = IF offset + 1 <= n THEN n - (offset + 1) + 1 ELSE 0
        /\ \A a \in 1..(n - (offset + 1) + 1) : rest[a] = q[offset + 1 + a - 1]
    BY <1>10, <1>12, <2>1, SubSeqProperties
  <2>3. Len(rest) = l
    BY <1>9, <1>11, <1>13, <2>2
  <2>4. ASSUME NEW a \in 1..l PROVE a + offset <= n /\ rest[a] = q[offset + a]
    <3>1. a \in 1..(n - (offset + 1) + 1) /\ offset + 1 + a - 1 = offset + a /\ a + offset <= n
      BY <1>9, <1>11, <1>13
    <3> QED
      BY <2>2, <3>1
  <2> QED
    BY <2>2, <2>3, <2>4
<1>15. PICK m \in Nat : m = IF limit < l THEN limit ELSE l
  BY <1>11, <1>13
<1>16. /\ rows' = [a \in 1..m |-> rows'[a]]
       /\ \A a \in 1..m : rows'[a] = rest[a]
  <2>1. CASE limit < l
    <3>1. rows' = SubSeq(rest, 1, limit) /\ m = limit
      BY <1>2, <1>12, <1>14, <1>15, <2>1
    <3>2. \A a \in 1..limit : rest[a] \in S
      BY <1>11, <1>14, <2>1, ElementOfSeq
    <3>3. /\ rows' \in Seq(S) /\ Len(rows') = IF 1 <= limit THEN limit - 1 + 1 ELSE 0
          /\ \A a \in 1..(limit - 1 + 1) : rows'[a] = rest[1 + a - 1]
      BY <1>11, <3>1, <3>2, SubSeqProperties
    <3>4. Len(rows') = m
      BY <1>11, <3>1, <3>3
    <3>5. rows' \in [1..m -> S]
      BY <3>3, <3>4, LenProperties
    <3>6. ASSUME NEW a \in 1..m PROVE rows'[a] = rest[a]
      <4>1. a \in 1..(limit - 1 + 1) /\ 1 + a - 1 = a
        BY <1>11, <3>1
      <4> QED
        BY <3>3, <4>1
    <3> QED
      BY <3>5, <3>6
  <2>2. CASE ~ (limit < l)
    <3>1. rows' = rest /\ m = l
      BY <1>2, <1>12, <1>14, <1>15, <2>2
    <3>2. rest \in [1..l -> S]
      BY <1>14, LenProperties
    <3> QED
      BY <3>1, <3>2
  <2> QED
    BY <2>1, <2>2
<1>17. ASSUME NEW a \in 1..m
       PROVE  a <= limit /\ offset + a <= n /\ rows'[a] = q[offset + a]
  <2>1. a \in 1..l /\ a <= limit
    BY <1>11, <1>15
  <2> QED
    BY <1>9, <1>11, <1>14, <1>16, <2>1
<1>18. ASSUME NEW b \in 1..n, offset < b, b <= offset + limit
       PROVE  b <= offset + m
  BY <1>9, <1>11, <1>13, <1>15, <1>18
<1>19. CutFrom(q, Cardinality(FoundBy(query.filter)), query.offset, query.limit)'
  BY <1>3, <1>5, <1>9, <1>11, <1>16, <1>17, <1>18 DEF CutFrom
<1> QED
  BY <1>2, <1>4, <1>8, <1>19 DEF QyInv

LEMMA QyInitInv ==
  ASSUME QueriesInit
  PROVE  QyInv
BY DEF QueriesInit, QyInv, QyTypeInv

LEMMA QyStepInv == QyInv /\ [QueriesNext]_qyVars => QyInv'
<1> SUFFICES ASSUME QyInv, [QueriesNext]_qyVars PROVE QyInv'
  OBVIOUS
<1>1. CASE UNCHANGED qyVars
  <2>1. entries' = entries /\ query' = query /\ rows' = rows /\ qpc' = qpc
    BY <1>1 DEF qyVars
  <2>2. \A i, j, orders : Precedes(i, j, orders)' <=> Precedes(i, j, orders)
    BY <2>1 DEF Precedes, QyBelow, QyTied
  <2>3. FoundBy(query.filter)' = FoundBy(query.filter)
    BY <2>1 DEF FoundBy
  <2>4. QyTypeInv'
    BY <2>1 DEF QyInv, QyTypeInv
  <2>5. Ordered(rows, FoundBy(query.filter), query.orders)
          => Ordered(rows, FoundBy(query.filter), query.orders)'
    BY <2>1, <2>2, <2>3 DEF Ordered
  <2>6. \A q : CutFrom(q, Cardinality(FoundBy(query.filter)), query.offset, query.limit)
               => CutFrom(q, Cardinality(FoundBy(query.filter)), query.offset, query.limit)'
    BY <2>1, <2>3 DEF CutFrom
  <2>7. \A q : Ordered(q, FoundBy(query.filter), query.orders)
               => Ordered(q, FoundBy(query.filter), query.orders)'
    BY <2>1, <2>2, <2>3 DEF Ordered
  <2> QED
    BY <2>1, <2>4, <2>5, <2>6, <2>7 DEF QyInv
<1>2. ASSUME NEW filter \in QyFilters, QyFilter(filter) PROVE QyInv'
  BY <1>2, QyFilterInv
<1>3. ASSUME NEW o \in QyOrders, QyPass(o) PROVE QyInv'
  BY <1>3, QyPassInv
<1>4. ASSUME NEW offset \in 0..QyMaxOffset, NEW limit \in QyLimits \union {QyUnlimited}, QySlice(offset, limit)
      PROVE  QyInv'
  BY <1>4, QySliceInv
<1> QED
  BY <1>1, <1>2, <1>3, <1>4 DEF QueriesNext

(* As many found entries precede the one at place b as stand before it. *)
LEMMA RankIs ==
  ASSUME QyTypeInv, NEW S, S \subseteq DOMAIN entries, NEW n \in Nat, n = Cardinality(S), NEW q,
         Ordered(q, S, query.orders), NEW b \in 1..n, NEW y, y = q[b]
  PROVE  Cardinality({j \in S : QyPrecedes(j, y)}) = b - 1
<1>1. PICK B, orders : B = {q[c] : c \in 1..(b - 1)} /\ orders = query.orders
  OBVIOUS
<1>2. orders \in Seq(QyOrders)
  BY <1>1 DEF QyTypeInv
<1>3. /\ q \in Bijection(1..n, S) /\ \A c \in 1..n : q[c] \in S
      /\ \A x \in S : \E c \in 1..n : q[c] = x
      /\ \A c, d \in 1..n : c < d => Precedes(q[c], q[d], orders)
  BY <1>1 DEF Ordered, Bijection, Injection, Surjection
<1>4. ASSUME NEW c \in 1..n PROVE Precedes(q[c], q[b], orders) <=> c \in 1..(b - 1)
  <2>1. CASE c < b
    BY <1>3, <2>1
  <2>2. CASE c = b
    <3>1. ~ Precedes(q[c], q[b], orders)
      BY <1>2, <1>3, <2>2, PrecedesOneWay
    <3> QED
      BY <2>2, <3>1
  <2>3. CASE b < c
    <3>1. ~ Precedes(q[c], q[b], orders)
      BY <1>2, <1>3, <2>3, PrecedesOneWay
    <3> QED
      BY <2>3, <3>1
  <2> QED
    BY <2>1, <2>2, <2>3
<1>5. \A x, z : QyPrecedes(x, z) <=> Precedes(x, z, orders)
  BY <1>1 DEF QyPrecedes, Precedes
<1>6. ASSUME NEW x PROVE x \in {j \in S : QyPrecedes(j, y)} <=> x \in B
  <2>1. ASSUME x \in S, QyPrecedes(x, y) PROVE x \in B
    <3>1. PICK c \in 1..n : q[c] = x
      BY <1>3, <2>1
    <3>2. c \in 1..(b - 1)
      BY <1>4, <1>5, <2>1, <3>1
    <3> QED
      BY <1>1, <3>1, <3>2
  <2>2. ASSUME x \in B PROVE x \in S /\ QyPrecedes(x, y)
    <3>1. PICK c \in 1..(b - 1) : q[c] = x
      BY <1>1, <2>2
    <3>2. c \in 1..n
      OBVIOUS
    <3> QED
      BY <1>3, <1>4, <1>5, <3>1, <3>2
  <2> QED
    BY <2>1, <2>2
<1>7. {j \in S : QyPrecedes(j, y)} = B
  BY <1>6
<1> QED
  BY <1>1, <1>3, <1>7, CountBefore

LEMMA QyInvMeans == QyInv => QueryAnswers
<1> SUFFICES ASSUME QyInv, qpc = "done" PROVE QueryAnswers
  BY DEF QueryAnswers
<1>1. PICK found, Rank : /\ found = FoundBy(query.filter)
                         /\ Rank = [i \in found |-> Cardinality({j \in found : QyPrecedes(j, i)})]
  OBVIOUS
<1>2. PICK offset, limit : offset = query.offset /\ limit = query.limit
  OBVIOUS
<1>3. PICK n \in Nat : n = Cardinality(found)
  BY <1>1, FoundFinite DEF QyInv
<1>4. PICK q : Ordered(q, found, query.orders) /\ CutFrom(q, n, offset, limit)
  BY <1>1, <1>2, <1>3 DEF QyInv
<1>5. PICK m \in Nat :
        /\ rows = [a \in 1..m |-> rows[a]]
        /\ \A a \in 1..m : a <= limit /\ offset + a <= n /\ rows[a] = q[offset + a]
        /\ \A b \in 1..n : offset < b /\ b <= offset + limit => b <= offset + m
  BY <1>4 DEF CutFrom
<1>6. offset \in Nat /\ limit \in Nat /\ DOMAIN rows = 1..m
  BY <1>4, <1>5 DEF CutFrom
<1>7. /\ \A b \in 1..n : q[b] \in found
      /\ \A x \in found : \E b \in 1..n : q[b] = x
  BY <1>3, <1>4 DEF Ordered, Bijection, Injection, Surjection
<1>8. ASSUME NEW b \in 1..n PROVE Rank[q[b]] = b - 1
  <2>1. PICK x \in found : x = q[b]
    BY <1>7
  <2>2. Cardinality({j \in found : QyPrecedes(j, x)}) = b - 1
    BY <1>1, <1>3, <1>4, <2>1, FoundFinite, RankIs DEF QyInv
  <2> QED
    BY <1>1, <2>1, <2>2
<1>9. ASSUME NEW a \in 1..m
      PROVE  rows[a] \in found /\ Rank[rows[a]] = offset + a - 1 /\ a <= limit
  <2>1. PICK b \in 1..n : b = offset + a /\ rows[a] = q[b] /\ a <= limit
    BY <1>3, <1>5, <1>6
  <2>2. Rank[rows[a]] = b - 1 /\ rows[a] \in found
    BY <1>7, <1>8, <2>1
  <2> QED
    BY <1>6, <2>1, <2>2
<1>10. ASSUME NEW x \in found, Rank[x] >= offset, Rank[x] < offset + limit
       PROVE  \E a \in 1..m : rows[a] = x
  <2>1. PICK b \in 1..n : q[b] = x
    BY <1>7
  <2>2. Rank[x] = b - 1
    BY <1>8, <2>1
  <2>3. offset < b /\ b <= offset + limit
    BY <1>3, <1>6, <1>10, <2>2
  <2>4. b <= offset + m
    BY <1>5, <2>3
  <2>5. b - offset \in 1..m /\ offset + (b - offset) = b
    BY <1>3, <1>6, <2>3, <2>4
  <2> QED
    BY <1>5, <2>1, <2>5
<1>11. PICK cut : cut = {i \in found : Rank[i] >= offset /\ Rank[i] < offset + limit}
  OBVIOUS
<1>12. {rows[a] : a \in DOMAIN rows} = cut
  <2>1. ASSUME NEW a \in 1..m PROVE rows[a] \in cut
    <3>1. Rank[rows[a]] = offset + a - 1 /\ rows[a] \in found /\ a <= limit
      BY <1>9
    <3>2. offset + a - 1 >= offset /\ offset + a - 1 < offset + limit
      BY <1>6, <3>1
    <3> QED
      BY <1>11, <3>1, <3>2
  <2> QED
    BY <1>6, <1>10, <1>11, <2>1
<1>13. found = {i \in DOMAIN entries : QyMatches(entries[i], query.filter)}
  BY <1>1 DEF FoundBy
<1>14. \A i \in found : Rank[i] = Cardinality({j \in found : QyPrecedes(j, i)})
  BY <1>1
<1>15. cut = {i \in found : /\ Cardinality({j \in found : QyPrecedes(j, i)}) >= offset
                           /\ Cardinality({j \in found : QyPrecedes(j, i)}) < offset + limit}
  BY <1>11, <1>14
<1>16. \A a \in DOMAIN rows : Cardinality({j \in found : QyPrecedes(j, rows[a])}) = offset + a - 1
  BY <1>6, <1>9, <1>14
<1> QED
  BY <1>2, <1>12, <1>13, <1>15, <1>16 DEF QueryAnswers

LEMMA QyInvTyped == QyInv => QueriesTypeOK
<1> SUFFICES ASSUME QyInv PROVE QueriesTypeOK
  OBVIOUS
<1>1. PICK n \in 0..QyLength : entries \in [1..n -> QyEntries]
  BY DEF QyInv, QyTypeInv
<1>2. n \in Nat /\ entries \in Seq(QyEntries)
  BY <1>1, QueriesAssumption, SeqDef
<1>3. Len(entries) <= QyLength /\ \A i \in DOMAIN entries : entries[i] \in QyEntries
  BY <1>1, <1>2, QueriesAssumption, LenProperties
<1>4. \A i \in DOMAIN query.orders : query.orders[i] \in QyOrders
  BY ElementOfSeq, LenProperties DEF QyInv, QyTypeInv
<1>5. PICK S : S = FoundBy(query.filter)
  OBVIOUS
<1>6. S \subseteq DOMAIN entries /\ Cardinality(S) \in Nat
  BY <1>5, FoundFinite DEF QyInv
<1>7. ASSUME NEW q, Ordered(q, S, query.orders)
      PROVE  DOMAIN q = 1..Cardinality(S) /\ \A i \in DOMAIN q : q[i] \in DOMAIN entries
  BY <1>6, <1>7 DEF Ordered, Bijection, Injection
<1>8. \A i \in DOMAIN rows : rows[i] \in DOMAIN entries
  <2>1. CASE qpc = "filter"
    BY <2>1 DEF QyInv
  <2>2. CASE qpc = "sort"
    BY <1>5, <1>7, <2>2 DEF QyInv
  <2>3. CASE qpc = "done"
    <3>1. PICK q : Ordered(q, S, query.orders) /\ CutFrom(q, Cardinality(S), query.offset, query.limit)
      BY <1>5, <2>3 DEF QyInv
    <3>2. PICK m \in Nat :
            /\ rows = [a \in 1..m |-> rows[a]]
            /\ \A a \in 1..m : query.offset + a <= Cardinality(S) /\ rows[a] = q[query.offset + a]
      BY <3>1 DEF CutFrom
    <3>3. query.offset \in Nat /\ DOMAIN rows = 1..m
      BY <3>1, <3>2 DEF CutFrom
    <3>4. \A a \in 1..m : query.offset + a \in 1..Cardinality(S)
      BY <1>6, <3>2, <3>3
    <3> QED
      BY <1>7, <3>1, <3>2, <3>3, <3>4
  <2> QED
    BY <2>1, <2>2, <2>3 DEF QyInv, QyTypeInv
<1> QED
  BY <1>3, <1>4, <1>8 DEF QyInv, QyTypeInv, QueriesTypeOK

(* A step of the whole evaluates a query only when queries are the subject. *)
LEMMA QueriesApart ==
  ASSUME [DataNext]_dataVars
  PROVE  /\ subject' = subject
         /\ subject = "queries" => [QueriesNext]_qyVars
         /\ subject # "queries" => UNCHANGED qyVars
<1>1. CASE UNCHANGED dataVars
  BY <1>1 DEF dataVars
<1>2. CASE DataNext
  BY <1>2 DEF DataNext
<1> QED
  BY <1>1, <1>2

(* The filter keeps what matches in the order of the list, every pass then *)
(* sorts by one criterion, the first one last, reversing the list for a    *)
(* descending one, and the slice comes last: what is returned are the      *)
(* matching entries that offset and limit leave, each at its rank by all   *)
(* criteria in their order, ties in the order of the list.                 *)
THEOREM QueriesAnswer == DataSpec => []QueryAnswers
<1> DEFINE Inv == /\ subject = "queries" => QyInv
                  /\ subject # "queries" => qpc = "none"
<1>1. DataInit => Inv
  BY QyInitInv DEF DataInit
<1>2. Inv /\ [DataNext]_dataVars => Inv'
  BY QueriesApart, QyStepInv DEF qyVars
<1>3. Inv => QueryAnswers
  <2>1. qpc = "none" => QueryAnswers
    BY DEF QueryAnswers
  <2> QED
    BY <2>1, QyInvMeans
<1> HIDE DEF Inv
<1> QED
  BY <1>1, <1>2, <1>3, PTL DEF DataSpec, dataVars

------------------------------------------------------------------------------
(* Firestore: the objects there are are those somebody refers to.  A       *)
(* worker refers to one only while it merges, and lists some only while it *)
(* reads; so steps that leave the heap alone drop no reference.            *)

CallHeapInv(c) ==
  /\ c.left \in Nat /\ (c.pc = "next" => c.left > 0)
  /\ c.pc = "path" <=> c.obj # FsGone
  /\ c.pc \notin {"list", "emit"} => c.todo = {}
HeapInv == /\ DOMAIN heap = FsRefs \ {FsGone}
           /\ \A w \in FsWorkers : CallHeapInv(fw[w])

RefersTo(c, o) == o = c.obj \/ \E e \in c.todo : o = e[2]

LEMMA RefIs ==
  ASSUME NEW o
  PROVE  /\ o \in FsRefs <=> \/ \E d \in DOMAIN docs : o = docs[d]
                             \/ \E w \in FsWorkers : RefersTo(fw[w], o)
         /\ o \in FsRefs' <=> \/ \E d \in DOMAIN docs' : o = docs'[d]
                              \/ \E w \in FsWorkers : RefersTo(fw'[w], o)
<1>1. o \in FsRefs <=> \/ \E d \in DOMAIN docs : o = docs[d]
                       \/ \E w \in FsWorkers : RefersTo(fw[w], o)
  BY DEF FsRefs, RefersTo
<1>2. o \in FsRefs' <=> \/ \E d \in DOMAIN docs' : o = docs'[d]
                        \/ \E w \in FsWorkers : RefersTo(fw'[w], o)
  BY DEF FsRefs, RefersTo
<1> QED
  BY <1>1, <1>2

LEMMA CallHeapStays ==
  ASSUME HeapInv, NEW w \in FsWorkers, NEW c, FsGoesOn(w, c), CallHeapInv(c)
  PROVE  /\ \A v \in FsWorkers : CallHeapInv(fw'[v])
         /\ fw'[w] = c
         /\ \A v \in FsWorkers : \A o : v # w => (RefersTo(fw'[v], o) <=> RefersTo(fw[v], o))
<1>1. ASSUME NEW v \in FsWorkers, v # w
      PROVE  CallHeapInv(fw'[v]) /\ \A o : RefersTo(fw'[v], o) <=> RefersTo(fw[v], o)
  <2>1. PICK d, e : d = fw[v] /\ e = fw'[v]
    OBVIOUS
  <2>2. FsLike(e, d)
    BY <1>1, <2>1 DEF FsGoesOn
  <2>3. e.pc = d.pc /\ e.left = d.left /\ e.obj = d.obj /\ e.todo = d.todo
    BY <2>2 DEF FsLike
  <2>4. CallHeapInv(d)
    BY <2>1 DEF HeapInv
  <2> QED
    BY <2>1, <2>3, <2>4 DEF CallHeapInv, RefersTo
<1>2. fw'[w] = c
  BY DEF FsGoesOn
<1> QED
  BY <1>1, <1>2

(* A step that changes nothing stored and drops no reference *)
LEMMA HeapGrows ==
  ASSUME FsInv, HeapInv, NEW w \in FsWorkers, NEW c, FsGoesOn(w, c), CallHeapInv(c),
         UNCHANGED <<docs, heap>>,
         \A o : RefersTo(fw[w], o) /\ o # FsGone => RefersTo(c, o),
         \A o : RefersTo(c, o) /\ o # FsGone =>
           RefersTo(fw[w], o) \/ \E d \in DOMAIN docs : o = docs[d]
  PROVE  HeapInv'
<1>1. ASSUME NEW o, o # FsGone PROVE o \in FsRefs' <=> o \in FsRefs
  <2>1. \A v \in FsWorkers : v # w => (RefersTo(fw'[v], o) <=> RefersTo(fw[v], o))
    BY CallHeapStays
  <2>2. fw'[w] = c
    BY CallHeapStays
  <2>3. /\ RefersTo(fw[w], o) => RefersTo(c, o)
        /\ RefersTo(c, o) => RefersTo(fw[w], o) \/ \E d \in DOMAIN docs : o = docs[d]
    BY <1>1
  <2> QED
    BY <2>1, <2>2, <2>3, RefIs
<1>2. DOMAIN heap' = FsRefs' \ {FsGone}
  BY <1>1 DEF HeapInv
<1> QED
  BY <1>2, CallHeapStays DEF HeapInv

LEMMA HeapRests ==
  ASSUME FsInv, HeapInv, NEW w \in FsWorkers, NEW c, FsGoesOn(w, c), CallHeapInv(c),
         UNCHANGED <<docs, heap>>, fw[w].pc \notin {"path", "list", "emit"},
         \A o : RefersTo(c, o) /\ o # FsGone => \E d \in DOMAIN docs : o = docs[d]
  PROVE  HeapInv'
<1>1. \A o : RefersTo(fw[w], o) => o = FsGone
  BY DEF HeapInv, CallHeapInv, RefersTo
<1>2. /\ \A o : RefersTo(fw[w], o) /\ o # FsGone => RefersTo(c, o)
      /\ \A o : RefersTo(c, o) /\ o # FsGone =>
           RefersTo(fw[w], o) \/ \E d \in DOMAIN docs : o = docs[d]
  BY <1>1
<1> QED
  BY <1>2, HeapGrows

(* A step that keeps those of h that are referred to *)
LEMMA HeapKept ==
  ASSUME FsInv, HeapInv, NEW w \in FsWorkers, NEW c, FsGoesOn(w, c), CallHeapInv(c),
         NEW h, FsKeep(h), FsGone \notin DOMAIN h, DOMAIN heap \subseteq DOMAIN h,
         \A d \in DOMAIN docs' : docs'[d] \in DOMAIN h,
         \A o : RefersTo(c, o) /\ o # FsGone => o \in DOMAIN h
  PROVE  HeapInv'
<1>1. DOMAIN heap' = DOMAIN h \intersect FsRefs'
  BY DEF FsKeep
<1>2. ASSUME NEW o \in FsRefs', o # FsGone PROVE o \in DOMAIN h
  <2>1. CASE \E d \in DOMAIN docs' : o = docs'[d]
    BY <2>1
  <2>2. CASE RefersTo(c, o)
    BY <1>2, <2>2
  <2>3. CASE \E v \in FsWorkers : v # w /\ RefersTo(fw[v], o)
    <3>1. o \in DOMAIN heap
      BY <1>2, <2>3, RefIs DEF HeapInv
    <3> QED
      BY <3>1
  <2>4. \A v \in FsWorkers : RefersTo(fw'[v], o) =>
          (RefersTo(c, o) \/ \E u \in FsWorkers : u # w /\ RefersTo(fw[u], o))
    BY CallHeapStays
  <2> QED
    BY <1>2, <2>1, <2>2, <2>3, <2>4, RefIs
<1>3. DOMAIN heap' = FsRefs' \ {FsGone}
  BY <1>1, <1>2
<1> QED
  BY <1>3, CallHeapStays DEF HeapInv

LEMMA IdleHeap ==
  /\ CallHeapInv(FsIdle) /\ \A o : RefersTo(FsIdle, o) => o = FsGone
  /\ \A w \in FsWorkers : fw[w].left \in Nat =>
       CallHeapInv(FsEnd(w)) /\ \A o : RefersTo(FsEnd(w), o) => o = FsGone
<1>1. CallHeapInv(FsIdle) /\ \A o : RefersTo(FsIdle, o) => o = FsGone
  BY DEF CallHeapInv, RefersTo, FsIdle
<1>2. ASSUME NEW n \in Nat, n # 0, NEW c, c = [FsIdle EXCEPT !.pc = "next", !.left = n]
      PROVE  CallHeapInv(c) /\ \A o : RefersTo(c, o) => o = FsGone
  <2>1. c.pc = "next" /\ c.left = n /\ c.obj = FsGone /\ c.todo = {}
    BY <1>2 DEF FsIdle
  <2> QED
    BY <1>2, <2>1 DEF CallHeapInv, RefersTo
<1> QED
  BY <1>1, <1>2 DEF FsEnd

LEMMA FsCallOf ==
  ASSUME FsInv, HeapInv, NEW w \in FsWorkers
  PROVE  FsCallInv(fw[w]) /\ CallHeapInv(fw[w]) /\ FsTypeInv
BY DEF FsInv, FsTypeInv, HeapInv

LEMMA DocsInHeap ==
  ASSUME FsInv, HeapInv
  PROVE  FsGone \notin DOMAIN heap /\ \A d \in DOMAIN docs : docs[d] \in DOMAIN heap
BY DEF FsInv, FsTypeInv, HeapInv

LEMMA HeapBegins ==
  ASSUME FsInv, HeapInv, NEW w \in FsWorkers,
         FsCommit(w) \/ (\E wr \in FsWrites : FsAbort(w, wr)) \/ FsRead(w) \/ FsLost(w)
  PROVE  HeapInv'
<1>1. PICK c : /\ fw' = [fw EXCEPT ![w] = c] /\ CallHeapInv(c)
               /\ \A o : RefersTo(c, o) => o = FsGone
  <2>1. CASE FsCommit(w)
    <3>1. PICK n \in 1..FsMaxWrites :
            fw' = [fw EXCEPT ![w] = [FsIdle EXCEPT !.pc = "next", !.left = n]]
      BY <2>1 DEF FsCommit, FsBegin
    <3>2. PICK c : c = [FsIdle EXCEPT !.pc = "next", !.left = n]
      OBVIOUS
    <3>3. c.pc = "next" /\ c.left = n /\ c.obj = FsGone /\ c.todo = {}
      BY <3>2 DEF FsIdle
    <3>4. n \in Nat /\ n > 0
      OBVIOUS
    <3>5. CallHeapInv(c) /\ \A o : RefersTo(c, o) => o = FsGone
      BY <3>3, <3>4 DEF CallHeapInv, RefersTo
    <3> QED
      BY <3>1, <3>2, <3>5
  <2>2. CASE \E wr \in FsWrites : FsAbort(w, wr)
    BY <2>2, IdleHeap DEF FsAbort
  <2>3. CASE FsLost(w)
    BY <2>3, IdleHeap DEF FsLost
  <2>4. CASE FsRead(w)
    <3>1. PICK n, c : /\ n = Cardinality(DOMAIN docs)
                      /\ c = [FsIdle EXCEPT !.pc = "list", !.quiet = FsCalm, !.next = 1,
                                            !.size = n, !.left = n]
      OBVIOUS
    <3>2. c.pc = "list" /\ c.left = n /\ c.obj = FsGone /\ c.todo = {}
      BY <3>1 DEF FsIdle
    <3>3. fw' = [fw EXCEPT ![w] = c]
      BY <2>4, <3>1 DEF FsRead, FsBegin
    <3>5. n \in Nat
      BY <3>1, FirestoreAssumption, FS_Subset, FS_CardinalityType DEF FsInv, FsTypeInv
    <3>4. CallHeapInv(c) /\ \A o : RefersTo(c, o) => o = FsGone
      BY <3>2, <3>5 DEF CallHeapInv, RefersTo
    <3> QED
      BY <3>3, <3>4
  <2> QED
    BY <2>1, <2>2, <2>3, <2>4
<1>2. UNCHANGED <<docs, heap>> /\ fw[w].pc \notin {"path", "list", "emit"}
  BY DEF FsCommit, FsAbort, FsRead, FsBegin, FsLost, fsDict
<1>3. FsGoesOn(w, c)
  BY <1>1, FsExceptGoesOn, FsCallOf
<1>4. \A o : RefersTo(c, o) /\ o # FsGone => \E d \in DOMAIN docs : o = docs[d]
  BY <1>1
<1> QED
  BY <1>1, <1>2, <1>3, <1>4, HeapRests

LEMMA HeapChecks ==
  ASSUME FsInv, HeapInv, NEW w \in FsWorkers, NEW wr \in FsWrites, FsCheck(w, wr)
  PROVE  HeapInv'
<1>1. PICK b, n, c : /\ b = fw[w] /\ n = b.left - 1
                     /\ c = [b EXCEPT !.pc = "apply", !.write = wr, !.left = @ - 1]
  OBVIOUS
<1>2. b.pc = "next" /\ FsCallInv(b) /\ CallHeapInv(b) /\ UNCHANGED <<docs, heap>>
  BY <1>1, FsCallOf DEF FsCheck, fsDict
<1>3. c = [pc |-> "apply", left |-> n, write |-> wr, obj |-> b.obj, paths |-> b.paths,
           todo |-> b.todo, listed |-> b.listed, quiet |-> b.quiet, next |-> b.next,
           size |-> b.size, rebuilt |-> b.rebuilt]
  BY <1>1, <1>2 DEF FsCallInv
<1>4. c.pc = "apply" /\ c.left = n /\ c.obj = b.obj /\ c.todo = b.todo
  BY <1>3
<1>5. b.obj = FsGone /\ b.todo = {} /\ n \in Nat
  BY <1>1, <1>2 DEF CallHeapInv
<1>6. CallHeapInv(c) /\ \A o : RefersTo(c, o) => o = FsGone
  BY <1>4, <1>5 DEF CallHeapInv, RefersTo
<1>7. FsGoesOn(w, c)
  <2>1. /\ DOMAIN fw' = FsWorkers /\ fw'[w] = c
        /\ \A v \in FsWorkers : v # w =>
             fw'[v] = [fw[v] EXCEPT !.quiet = fw[v].quiet \ {wr.doc}]
    BY <1>1 DEF FsCheck
  <2>2. ASSUME NEW v \in FsWorkers, v # w PROVE FsLike(fw'[v], fw[v])
    <3>1. PICK d, e : d = fw[v] /\ e = fw'[v]
      OBVIOUS
    <3>2. FsCallInv(d) /\ e = [d EXCEPT !.quiet = d.quiet \ {wr.doc}]
      BY <2>1, <2>2, <3>1, FsCallOf
    <3>3. e = [pc |-> d.pc, left |-> d.left, write |-> d.write, obj |-> d.obj,
               paths |-> d.paths, todo |-> d.todo, listed |-> d.listed,
               quiet |-> d.quiet \ {wr.doc}, next |-> d.next, size |-> d.size,
               rebuilt |-> d.rebuilt]
      BY <3>2 DEF FsCallInv
    <3>4. e.quiet = d.quiet \ {wr.doc} /\ e.rebuilt = d.rebuilt /\ d.rebuilt \in BOOLEAN
      BY <3>2, <3>3 DEF FsCallInv
    <3>5. FsLike(e, d)
      BY <3>3, <3>4 DEF FsLike
    <3> QED
      BY <3>1, <3>5
  <2> QED
    BY <2>1, <2>2 DEF FsGoesOn
<1> QED
  BY <1>1, <1>2, <1>6, <1>7, HeapRests

LEMMA HeapPuts ==
  ASSUME FsInv, HeapInv, NEW w \in FsWorkers, FsPut(w) \/ FsDelete(w)
  PROVE  HeapInv'
<1>1. PICK wr, key, c : wr = fw[w].write /\ key = wr.doc /\ c = FsEnd(w)
  OBVIOUS
<1>2. CallHeapInv(c) /\ \A o : RefersTo(c, o) => o = FsGone
  <2>1. fw[w].left \in Nat
    BY FsCallOf DEF CallHeapInv
  <2> QED
    BY <1>1, <2>1, IdleHeap
<1>7. fw[w].pc = "apply" /\ key \in FsDocs
  BY <1>1, FsAtWrite DEF FsPut, FsDelete
<1>8. ASSUME FsPut(w) PROVE FsGoesOn(w, c) /\ docs' = FsWith(docs, key, FsNew)
  <2>1. FsFile(w, c, key, FsNew)
    BY <1>1, <1>8 DEF FsPut
  <2>2. FsTypeInv /\ PlaceInv
    BY DEF FsInv
  <2> QED
    BY <1>7, <2>1, <2>2, FsFileGoesOn
<1>9. ASSUME FsDelete(w) PROVE FsGoesOn(w, c)
  BY <1>1, <1>9, FsExceptGoesOn, FsCallOf DEF FsDelete
<1>3. fw[w].pc = "apply" /\ FsGoesOn(w, c)
  BY <1>7, <1>8, <1>9
<1>4. fw[w].obj = FsGone
  BY <1>3, FsCallOf DEF CallHeapInv
<1>5. CASE FsPut(w)
  <2>1. PICK o, h : o = FsNew /\ h = FsWith(heap, o, FsPresent(wr.upd))
    OBVIOUS
  <2>2. docs' = FsWith(docs, key, o) /\ FsKeep(h)
    BY <1>1, <1>5, <1>8, <2>1 DEF FsPut
  <2>3. o # FsGone
    <3>1. FsGone \in FsRefs
      BY <1>4, RefIs DEF RefersTo
    <3> QED
      BY <1>5, <2>1, <3>1, NewIsNew DEF FsPut
  <2>4. DOMAIN h = DOMAIN heap \union {o}
    BY <2>1 DEF FsWith
  <2>5. \A d \in DOMAIN docs' : docs'[d] \in DOMAIN h
    BY <2>2, <2>4, DocsInHeap DEF FsWith
  <2>6. FsGone \notin DOMAIN h /\ DOMAIN heap \subseteq DOMAIN h
    BY <2>3, <2>4, DocsInHeap
  <2> QED
    BY <1>2, <1>3, <2>2, <2>5, <2>6, HeapKept
<1>6. CASE FsDelete(w)
  <2>1. PICK h : h = heap
    OBVIOUS
  <2>2. docs' = FsDrop(docs, key) /\ FsKeep(h)
    BY <1>1, <1>6, <2>1 DEF FsDelete
  <2>3. \A d \in DOMAIN docs' : docs'[d] \in DOMAIN h
    BY <2>1, <2>2, DocsInHeap DEF FsDrop
  <2>4. FsGone \notin DOMAIN h /\ DOMAIN heap \subseteq DOMAIN h
    BY <2>1, DocsInHeap
  <2> QED
    BY <1>2, <1>3, <2>2, <2>3, <2>4, HeapKept
<1> QED
  BY <1>5, <1>6

LEMMA HeapFinds ==
  ASSUME FsInv, HeapInv, NEW w \in FsWorkers, FsFind(w)
  PROVE  HeapInv'
<1>1. PICK b, wr, key : b = fw[w] /\ wr = b.write /\ key = wr.doc
  OBVIOUS
<1>2. PICK p, o : /\ p = IF key \in DOMAIN docs THEN "path" ELSE "insert"
                  /\ o = IF key \in DOMAIN docs THEN docs[key] ELSE FsGone
  OBVIOUS
<1>3. PICK c : c = [b EXCEPT !.pc = p, !.obj = o, !.paths = DOMAIN wr.upd]
  OBVIOUS
<1>4. b.pc = "apply" /\ fw' = [fw EXCEPT ![w] = c] /\ UNCHANGED <<docs, heap>>
  BY <1>1, <1>2, <1>3, FsCallOf DEF FsFind, FsTypeInv, fsDict
<1>5. FsCallInv(b) /\ CallHeapInv(b) /\ b.todo = {}
  BY <1>1, <1>4, FsCallOf DEF CallHeapInv
<1>6. c = [pc |-> p, left |-> b.left, write |-> b.write, obj |-> o, paths |-> DOMAIN wr.upd,
           todo |-> b.todo, listed |-> b.listed, quiet |-> b.quiet, next |-> b.next,
           size |-> b.size, rebuilt |-> b.rebuilt]
  BY <1>3, <1>5 DEF FsCallInv
<1>7. c.pc = p /\ c.obj = o /\ c.todo = {} /\ c.left = b.left
  BY <1>5, <1>6
<1>8. p = "path" <=> o # FsGone
  BY <1>2, DocsInHeap
<1>9. CallHeapInv(c)
  BY <1>2, <1>5, <1>7, <1>8 DEF CallHeapInv
<1>10. \A x : RefersTo(c, x) /\ x # FsGone => \E d \in DOMAIN docs : x = docs[d]
  BY <1>2, <1>7 DEF RefersTo
<1>11. FsGoesOn(w, c)
  BY <1>4, FsExceptGoesOn, FsCallOf
<1> QED
  BY <1>1, <1>4, <1>9, <1>10, <1>11, HeapRests

LEMMA HeapInserts ==
  ASSUME FsInv, HeapInv, NEW w \in FsWorkers, FsInsert(w)
  PROVE  HeapInv'
<1>1. PICK b, wr, key, o : b = fw[w] /\ wr = b.write /\ key = wr.doc /\ o = FsNew
  OBVIOUS
<1>2. PICK h, c : h = FsWith(heap, o, FsNone) /\ c = [b EXCEPT !.pc = "path", !.obj = o]
  OBVIOUS
<1>14. b.pc = "insert" /\ FsFile(w, c, key, o) /\ FsKeep(h) /\ FsObjects \ FsRefs # {}
  BY <1>1, <1>2 DEF FsInsert
<1>13. FsGoesOn(w, c) /\ docs' = FsWith(docs, key, o)
  <2>1. FsTypeInv /\ PlaceInv /\ key \in FsDocs
    BY <1>1, <1>14, FsAtWrite DEF FsInv
  <2> QED
    BY <1>14, <2>1, FsFileGoesOn
<1>3. b.pc = "insert" /\ docs' = FsWith(docs, key, o) /\ FsKeep(h) /\ FsObjects \ FsRefs # {}
  BY <1>13, <1>14
<1>4. FsCallInv(b) /\ CallHeapInv(b) /\ b.todo = {} /\ b.obj = FsGone
  BY <1>1, <1>3, FsCallOf DEF CallHeapInv
<1>5. c = [pc |-> "path", left |-> b.left, write |-> b.write, obj |-> o, paths |-> b.paths,
           todo |-> b.todo, listed |-> b.listed, quiet |-> b.quiet, next |-> b.next,
           size |-> b.size, rebuilt |-> b.rebuilt]
  BY <1>2, <1>4 DEF FsCallInv
<1>6. c.pc = "path" /\ c.obj = o /\ c.todo = {} /\ c.left = b.left
  BY <1>4, <1>5
<1>7. o # FsGone
  <2>1. FsGone \in FsRefs
    BY <1>1, <1>4, RefIs DEF RefersTo
  <2> QED
    BY <1>1, <1>3, <2>1, NewIsNew
<1>8. CallHeapInv(c)
  BY <1>4, <1>6, <1>7 DEF CallHeapInv
<1>9. DOMAIN h = DOMAIN heap \union {o}
  BY <1>2 DEF FsWith
<1>10. \A d \in DOMAIN docs' : docs'[d] \in DOMAIN h
  BY <1>3, <1>9, DocsInHeap DEF FsWith
<1>11. \A x : RefersTo(c, x) /\ x # FsGone => x \in DOMAIN h
  BY <1>6, <1>9 DEF RefersTo
<1>12. FsGone \notin DOMAIN h /\ DOMAIN heap \subseteq DOMAIN h
  BY <1>7, <1>9, DocsInHeap
<1> QED
  BY <1>3, <1>8, <1>10, <1>11, <1>12, <1>13, HeapKept

LEMMA HeapMerges ==
  ASSUME FsInv, HeapInv, NEW w \in FsWorkers, NEW f \in fw[w].paths, FsPath(w, f)
  PROVE  HeapInv'
<1>1. PICK b, h : /\ b = fw[w]
                  /\ h = [heap EXCEPT ![b.obj] = FsSet(@, f, b.write.upd[f])]
  OBVIOUS
<1>2. PICK c : c = IF b.paths = {f} THEN FsEnd(w) ELSE [b EXCEPT !.paths = b.paths \ {f}]
  OBVIOUS
<1>3. /\ b.pc = "path" /\ fw' = [fw EXCEPT ![w] = c] /\ FsKeep(h) /\ docs' = docs
  BY <1>1, <1>2, FsCallOf DEF FsPath, FsTypeInv, fsDict
<1>4. FsCallInv(b) /\ CallHeapInv(b) /\ b.left \in Nat /\ b.todo = {} /\ b.obj # FsGone
  BY <1>1, <1>3, FsCallOf DEF CallHeapInv
<1>5. DOMAIN h = DOMAIN heap
  BY <1>1
<1>6. b.obj \in DOMAIN heap
  <2>1. b.obj \in FsRefs
    BY <1>1, RefIs DEF RefersTo
  <2> QED
    BY <1>4, <2>1 DEF HeapInv
<1>7. CallHeapInv(c) /\ \A x : RefersTo(c, x) /\ x # FsGone => x \in DOMAIN h
  <2>1. CASE b.paths = {f}
    BY <1>1, <1>2, <1>4, <2>1, IdleHeap
  <2>2. CASE b.paths # {f}
    <3>1. c = [b EXCEPT !.paths = b.paths \ {f}]
      BY <1>2, <2>2
    <3>2. c = [pc |-> b.pc, left |-> b.left, write |-> b.write, obj |-> b.obj,
               paths |-> b.paths \ {f}, todo |-> b.todo, listed |-> b.listed,
               quiet |-> b.quiet, next |-> b.next, size |-> b.size, rebuilt |-> b.rebuilt]
      BY <1>4, <3>1 DEF FsCallInv
    <3>3. c.pc = b.pc /\ c.left = b.left /\ c.obj = b.obj /\ c.todo = b.todo
      BY <3>2
    <3> QED
      BY <1>4, <1>5, <1>6, <3>3 DEF CallHeapInv, RefersTo
  <2> QED
    BY <2>1, <2>2
<1>8. FsGoesOn(w, c)
  BY <1>3, FsExceptGoesOn, FsCallOf
<1>9. \A d \in DOMAIN docs' : docs'[d] \in DOMAIN h
  BY <1>3, <1>5, DocsInHeap
<1>10. FsGone \notin DOMAIN h /\ DOMAIN heap \subseteq DOMAIN h
  BY <1>5, DocsInHeap
<1> QED
  BY <1>3, <1>7, <1>8, <1>9, <1>10, HeapKept

LEMMA HeapNexts ==
  ASSUME FsInv, HeapInv, NEW w \in FsWorkers, FsNext(w)
  PROVE  HeapInv'
<1>1. PICK b : b = fw[w]
  OBVIOUS
<1>2. PICK key \in FsAhead(w) :
        fw' = [fw EXCEPT ![w].next = place[key] + 1, ![w].left = @ - 1,
                         ![w].todo = @ \union {<<key, docs[key]>>},
                         ![w].listed = @ \union {key}]
  BY DEF FsNext
<1>3. PICK n, l, S, L : /\ n = place[key] + 1 /\ l = b.left - 1
                        /\ S = b.todo \union {<<key, docs[key]>>} /\ L = b.listed \union {key}
  OBVIOUS
<1>4. PICK c : c = [b EXCEPT !.next = n, !.left = l, !.todo = S, !.listed = L]
  OBVIOUS
<1>5. fw' = [fw EXCEPT ![w] = c]
  BY <1>1, <1>2, <1>3, <1>4, FsCallOf DEF FsTypeInv
<1>6. /\ b.pc = "list" /\ b.left > 0 /\ UNCHANGED <<docs, heap>> /\ key \in DOMAIN docs
      /\ FsCallInv(b) /\ CallHeapInv(b)
  BY <1>1, FsCallOf DEF FsNext, FsAhead, fsDict
<1>7. c = [pc |-> "list", left |-> l, write |-> b.write, obj |-> b.obj, paths |-> b.paths,
           todo |-> S, listed |-> L, quiet |-> b.quiet, next |-> n, size |-> b.size,
           rebuilt |-> b.rebuilt]
  BY <1>4, <1>6 DEF FsCallInv
<1>8. c.pc = "list" /\ c.left = l /\ c.obj = b.obj /\ c.todo = S
  BY <1>7
<1>9. l \in Nat
  BY <1>3, <1>6 DEF CallHeapInv
<1>10. CallHeapInv(c)
  BY <1>6, <1>8, <1>9 DEF CallHeapInv
<1>11. /\ \A o : RefersTo(fw[w], o) /\ o # FsGone => RefersTo(c, o)
       /\ \A o : RefersTo(c, o) /\ o # FsGone =>
            RefersTo(fw[w], o) \/ \E d \in DOMAIN docs : o = docs[d]
  BY <1>1, <1>3, <1>6, <1>8 DEF RefersTo
<1>12. FsGoesOn(w, c)
  BY <1>5, FsExceptGoesOn, FsCallOf
<1> QED
  BY <1>6, <1>10, <1>11, <1>12, HeapGrows

LEMMA HeapThroughs ==
  ASSUME FsInv, HeapInv, NEW w \in FsWorkers, FsThrough(w)
  PROVE  HeapInv'
<1>1. PICK b : b = fw[w]
  OBVIOUS
<1>2. PICK c : c = IF b.todo = {} THEN FsIdle
                   ELSE [b EXCEPT !.pc = "emit", !.left = 0, !.next = 0, !.size = 0]
  OBVIOUS
<1>3. /\ b.pc = "list" /\ UNCHANGED <<docs, heap>> /\ FsCallInv(b) /\ CallHeapInv(b)
      /\ b.obj = FsGone
  BY <1>1, FsCallOf DEF FsThrough, fsDict, CallHeapInv
<1>4. fw' = [fw EXCEPT ![w] = c]
  <2>1. CASE b.todo = {}
    BY <1>1, <1>2, <2>1, FsCallOf DEF FsThrough, FsTypeInv
  <2>2. CASE b.todo # {}
    BY <1>1, <1>2, <2>2, FsCallOf DEF FsThrough, FsTypeInv
  <2> QED
    BY <2>1, <2>2
<1>5. /\ CallHeapInv(c) /\ \A o : RefersTo(fw[w], o) /\ o # FsGone => RefersTo(c, o)
      /\ \A o : RefersTo(c, o) /\ o # FsGone => RefersTo(fw[w], o)
  <2>1. CASE b.todo = {}
    <3>1. c = FsIdle
      BY <1>2, <2>1
    <3>2. \A o : RefersTo(fw[w], o) => o = FsGone
      BY <1>1, <1>3, <2>1 DEF RefersTo
    <3> QED
      BY <3>1, <3>2, IdleHeap
  <2>2. CASE b.todo # {}
    <3>1. c = [pc |-> "emit", left |-> 0, write |-> b.write, obj |-> b.obj,
               paths |-> b.paths, todo |-> b.todo, listed |-> b.listed, quiet |-> b.quiet,
               next |-> 0, size |-> 0, rebuilt |-> b.rebuilt]
      BY <1>2, <1>3, <2>2 DEF FsCallInv
    <3>2. c.pc = "emit" /\ c.left = 0 /\ c.obj = FsGone /\ c.todo = b.todo
      BY <1>3, <3>1
    <3> QED
      BY <1>1, <1>3, <3>2 DEF CallHeapInv, RefersTo
  <2> QED
    BY <2>1, <2>2
<1>6. FsGoesOn(w, c)
  BY <1>4, FsExceptGoesOn, FsCallOf
<1> QED
  BY <1>3, <1>5, <1>6, HeapGrows

LEMMA HeapFails ==
  ASSUME FsInv, HeapInv, NEW w \in FsWorkers, FsListFails(w)
  PROVE  HeapInv'
<1>1. PICK h : h = heap
  OBVIOUS
<1>2. docs' = docs /\ FsKeep(h) /\ fw' = [fw EXCEPT ![w] = FsIdle]
  BY <1>1 DEF FsListFails, fsDict
<1>3. CallHeapInv(FsIdle) /\ \A o : RefersTo(FsIdle, o) /\ o # FsGone => o \in DOMAIN h
  BY IdleHeap
<1>4. FsGoesOn(w, FsIdle)
  BY <1>2, FsExceptGoesOn, FsCallOf
<1>5. /\ \A d \in DOMAIN docs' : docs'[d] \in DOMAIN h
      /\ FsGone \notin DOMAIN h /\ DOMAIN heap \subseteq DOMAIN h
  BY <1>1, <1>2, DocsInHeap
<1> QED
  BY <1>2, <1>3, <1>4, <1>5, HeapKept

(* Calls that rest refer to nothing. *)
LEMMA RestingRefs ==
  ASSUME NEW c, CallHeapInv(c), c.pc \in FsResting
  PROVE  \A o : RefersTo(c, o) <=> o = FsGone
BY DEF CallHeapInv, FsResting, RefersTo

LEMMA RestingHeap ==
  ASSUME NEW p \in FsResting
  PROVE  CallHeapInv([FsIdle EXCEPT !.pc = p]) /\ [FsIdle EXCEPT !.pc = p].pc = p
<1>1. PICK c : c = [FsIdle EXCEPT !.pc = p]
  OBVIOUS
<1>2. c.pc = p /\ c.left = 0 /\ c.obj = FsGone /\ c.todo = {}
  BY <1>1 DEF FsIdle
<1>3. p \notin {"next", "path"}
  BY DEF FsResting
<1>4. CallHeapInv(c)
  BY <1>2, <1>3 DEF CallHeapInv
<1> QED
  BY <1>1, <1>2, <1>4

LEMMA HeapCalls ==
  ASSUME FsInv, HeapInv, NEW w \in FsWorkers, FsCall(w)
  PROVE  HeapInv'
<1>1. PICK p, c : /\ p = IF FsCreators = {} THEN "create" ELSE "race"
                  /\ c = [FsIdle EXCEPT !.pc = p]
  OBVIOUS
<1>2. CallHeapInv(c) /\ c.pc \in FsResting
  <2>1. p \in FsResting
    BY <1>1 DEF FsResting
  <2> QED
    BY <1>1, <2>1, RestingHeap
<1>3. /\ fw' = [v \in FsWorkers |-> IF v \in FsCreators \union {w} THEN c ELSE fw[v]]
      /\ fw[w].pc = "idle" /\ UNCHANGED <<docs, heap>>
  BY <1>1 DEF FsCall, fsDict
<1>4. ASSUME NEW v \in FsWorkers
      PROVE  CallHeapInv(fw'[v]) /\ \A o : RefersTo(fw'[v], o) <=> RefersTo(fw[v], o)
  <2>1. CASE v \in FsCreators \union {w}
    <3>1. fw'[v] = c /\ fw[v].pc \in FsResting /\ CallHeapInv(fw[v])
      BY <1>3, <2>1, FsCallOf DEF FsCreators, FsResting
    <3>2. \A o : RefersTo(fw[v], o) <=> o = FsGone
      BY <3>1, RestingRefs
    <3> QED
      BY <1>2, <3>1, <3>2, RestingRefs
  <2>2. CASE v \notin FsCreators \union {w}
    BY <1>3, <2>2, FsCallOf
  <2> QED
    BY <2>1, <2>2
<1>5. \A o : o \in FsRefs' <=> o \in FsRefs
  BY <1>3, <1>4, RefIs
<1>6. \A v \in FsWorkers : CallHeapInv(fw[v])'
  BY <1>4 DEF CallHeapInv
<1> QED
  BY <1>3, <1>5, <1>6 DEF HeapInv

LEMMA HeapCreates ==
  ASSUME FsInv, HeapInv, NEW w \in FsWorkers, FsCreate(w)
  PROVE  HeapInv'
<1>1. PICK c, l : c = [FsIdle EXCEPT !.pc = "ready"] /\ l = [FsIdle EXCEPT !.pc = "lost"]
  OBVIOUS
<1>2. CallHeapInv(c) /\ c.pc = "ready" /\ CallHeapInv(l) /\ l.pc = "lost"
  <2>1. "ready" \in FsResting /\ "lost" \in FsResting
    BY DEF FsResting
  <2> QED
    BY <1>1, <2>1, RestingHeap
<1>3. /\ docs' = FsNone /\ heap' = FsNone
      /\ fw' = [v \in FsWorkers |->
           IF v = w THEN c ELSE IF fw[v].pc \in {"idle", "create", "race", "ready"} THEN fw[v]
           ELSE l]
  BY <1>1 DEF FsCreate
<1>4. ASSUME NEW v \in FsWorkers PROVE CallHeapInv(fw'[v]) /\ fw'[v].pc \in FsResting
  BY <1>2, <1>3, FsCallOf DEF FsResting
<1>5. \A o \in FsRefs' : o = FsGone
  <2>1. \A v \in FsWorkers : \A o : RefersTo(fw'[v], o) => o = FsGone
    BY <1>4, RestingRefs
  <2>2. DOMAIN docs' = {}
    BY <1>3 DEF FsNone
  <2> QED
    BY <2>1, <2>2, RefIs
<1>6. DOMAIN heap' = FsRefs' \ {FsGone}
  <2>1. DOMAIN heap' = {}
    BY <1>3 DEF FsNone
  <2> QED
    BY <1>5, <2>1
<1>7. \A v \in FsWorkers : CallHeapInv(fw[v])'
  BY <1>4 DEF CallHeapInv
<1> QED
  BY <1>6, <1>7 DEF HeapInv

LEMMA HeapGets ==
  ASSUME FsInv, HeapInv, NEW w \in FsWorkers, NEW key \in FsDocs, FsGet(w, key)
  PROVE  HeapInv'
<1>1. PICK S, c : /\ S = {<<key, docs[key]>>}
                  /\ c = [FsIdle EXCEPT !.pc = "emit", !.todo = S, !.listed = {key},
                                        !.quiet = FsCalm \intersect {key}]
  OBVIOUS
<1>2. /\ fw[w].pc \in {"idle", "ready"} /\ UNCHANGED <<docs, heap>>
      /\ fw' = [fw EXCEPT ![w] = c] /\ key \in DOMAIN docs
  BY <1>1 DEF FsGet, FsBegin, fsDict
<1>3. c.pc = "emit" /\ c.left = 0 /\ c.obj = FsGone /\ c.todo = S
  BY <1>1 DEF FsIdle
<1>4. CallHeapInv(c) /\ \A x : RefersTo(c, x) /\ x # FsGone => \E d \in DOMAIN docs : x = docs[d]
  BY <1>1, <1>2, <1>3 DEF CallHeapInv, RefersTo
<1>5. FsGoesOn(w, c)
  BY <1>2, FsExceptGoesOn, FsCallOf
<1> QED
  BY <1>2, <1>4, <1>5, HeapRests

LEMMA HeapEmits ==
  ASSUME FsInv, HeapInv, NEW w \in FsWorkers, NEW e \in fw[w].todo, FsEmit(w, e)
  PROVE  HeapInv'
<1>1. PICK b, h : b = fw[w] /\ h = heap
  OBVIOUS
<1>2. PICK c : c = IF b.todo = {e} THEN FsIdle ELSE [b EXCEPT !.todo = b.todo \ {e}]
  OBVIOUS
<1>3. b.pc = "emit" /\ docs' = docs /\ FsKeep(h)
  BY <1>1 DEF FsEmit, fsDict
<1>4. fw' = [fw EXCEPT ![w] = c]
  <2>1. CASE b.todo = {e}
    BY <1>1, <1>2, <2>1, FsCallOf DEF FsEmit, FsTypeInv
  <2>2. CASE b.todo # {e}
    BY <1>1, <1>2, <2>2, FsCallOf DEF FsEmit, FsTypeInv
  <2> QED
    BY <2>1, <2>2
<1>5. FsCallInv(b) /\ CallHeapInv(b) /\ b.obj = FsGone
  BY <1>1, <1>3, FsCallOf DEF CallHeapInv
<1>6. CallHeapInv(c) /\ \A x : RefersTo(c, x) => RefersTo(b, x) \/ x = FsGone
  <2>1. CASE b.todo = {e}
    BY <1>2, <2>1, IdleHeap
  <2>2. CASE b.todo # {e}
    <3>1. c = [pc |-> b.pc, left |-> b.left, write |-> b.write, obj |-> b.obj,
               paths |-> b.paths, todo |-> b.todo \ {e}, listed |-> b.listed,
               quiet |-> b.quiet, next |-> b.next, size |-> b.size, rebuilt |-> b.rebuilt]
      BY <1>2, <1>5, <2>2 DEF FsCallInv
    <3>2. c.pc = b.pc /\ c.left = b.left /\ c.obj = b.obj /\ c.todo = b.todo \ {e}
      BY <3>1
    <3> QED
      BY <1>3, <1>5, <3>2 DEF CallHeapInv, RefersTo
  <2> QED
    BY <2>1, <2>2
<1>7. \A x : RefersTo(b, x) /\ x # FsGone => x \in DOMAIN heap
  BY <1>1, RefIs DEF HeapInv
<1>8. \A x : RefersTo(c, x) /\ x # FsGone => x \in DOMAIN h
  BY <1>1, <1>6, <1>7
<1>9. FsGoesOn(w, c)
  BY <1>4, FsExceptGoesOn, FsCallOf
<1>10. \A d \in DOMAIN docs' : docs'[d] \in DOMAIN h
  BY <1>1, <1>3, DocsInHeap
<1>11. FsGone \notin DOMAIN h /\ DOMAIN heap \subseteq DOMAIN h
  BY <1>1, DocsInHeap
<1> QED
  BY <1>3, <1>6, <1>8, <1>9, <1>10, <1>11, HeapKept

LEMMA HeapInit == FirestoreInit => HeapInv
<1> SUFFICES ASSUME FirestoreInit PROVE HeapInv
  OBVIOUS
<1>1. DOMAIN docs = {} /\ DOMAIN heap = {} /\ \A w \in FsWorkers : fw[w] = FsIdle
  BY DEF FirestoreInit, FsNone
<1>2. \A o \in FsRefs : o = FsGone
  BY <1>1, RefIs, IdleHeap
<1> QED
  BY <1>1, <1>2, IdleHeap DEF HeapInv

LEMMA HeapStep == FsInv /\ HeapInv /\ [FirestoreNext]_fsVars => HeapInv'
<1> SUFFICES ASSUME FsInv, HeapInv, [FirestoreNext]_fsVars PROVE HeapInv'
  OBVIOUS
<1>1. CASE UNCHANGED fsVars
  <2>1. UNCHANGED <<docs, heap, fw>>
    BY <1>1 DEF fsVars, fsDict
  <2>2. FsRefs' = FsRefs
    BY <2>1 DEF FsRefs
  <2> QED
    BY <2>1, <2>2 DEF HeapInv, CallHeapInv
<1>2. CASE FirestoreNext
  <2>1. PICK w \in FsWorkers : FsWork(w)
    BY <1>2 DEF FirestoreNext
  <2>2. CASE FsCommit(w) \/ (\E wr \in FsWrites : FsAbort(w, wr)) \/ FsRead(w) \/ FsLost(w)
    BY <2>2, HeapBegins
  <2>3. CASE \E wr \in FsWrites : FsCheck(w, wr)
    BY <2>3, HeapChecks
  <2>4. CASE FsPut(w) \/ FsDelete(w) \/ FsFind(w) \/ FsInsert(w)
    BY <2>4, HeapPuts, HeapFinds, HeapInserts
  <2>8. CASE FsNext(w) \/ FsThrough(w) \/ FsListFails(w)
    BY <2>8, HeapNexts, HeapThroughs, HeapFails
  <2>9. CASE FsCall(w) \/ FsCreate(w)
    BY <2>9, HeapCalls, HeapCreates
  <2>5. CASE \E f \in fw[w].paths : FsPath(w, f)
    BY <2>5, HeapMerges
  <2>6. CASE \E d \in FsDocs : FsGet(w, d)
    BY <2>6, HeapGets
  <2>7. CASE \E e \in fw[w].todo : FsEmit(w, e)
    BY <2>7, HeapEmits
  <2> QED
    BY <2>1, <2>2, <2>3, <2>4, <2>5, <2>6, <2>7, <2>8, <2>9 DEF FsWork
<1> QED
  BY <1>1, <1>2

LEMMA FsTyped == FsInv /\ HeapInv => FirestoreTypeOK
<1> SUFFICES ASSUME FsInv, HeapInv PROVE FirestoreTypeOK
  OBVIOUS
<1>1. /\ DOMAIN docs \subseteq FsDocs /\ DOMAIN serial \subseteq FsDocs /\ contested \subseteq FsDocs
      /\ \A d \in DOMAIN docs : docs[d] \in DOMAIN heap
      /\ \A d, e \in DOMAIN docs : docs[d] = docs[e] => d = e
  BY DEF FsInv, FsTypeInv, ObjectsInv
<1>4. /\ DOMAIN place = DOMAIN docs /\ \A d \in DOMAIN docs : place[d] \in 1..used
      /\ \A d, e \in DOMAIN docs : place[d] = place[e] => d = e
  BY DEF FsInv, PlaceInv
<1>2. DOMAIN heap = FsRefs \ {FsGone}
  BY DEF HeapInv
<1>3. ASSUME NEW w \in FsWorkers
      PROVE  /\ fw[w].pc \in {"idle", "create", "race", "ready", "lost", "next", "apply",
                               "insert", "path", "list", "emit"}
             /\ fw[w].pc = "next" => fw[w].left > 0
             /\ FsWriting(w) => fw[w].write \in FsWrites
             /\ fw[w].quiet \subseteq FsDocs
  <2>1. FsCallInv(fw[w]) /\ CallHeapInv(fw[w])
    BY FsCallOf
  <2> QED
    BY <2>1 DEF FsCallInv, FsPlaces, FsResting, CallHeapInv, FsWriting
<1> QED
  BY <1>1, <1>2, <1>3, <1>4 DEF FirestoreTypeOK

LEMMA DsTyped == DsInv => DatastoreTypeOK
<1> SUFFICES ASSUME DsInv PROVE DatastoreTypeOK
  OBVIOUS
<1>1. /\ backends \in Seq(DsBackends) /\ registered \in 0..Len(backends)
      /\ registered = 0 <=> backends = <<>>
      /\ DOMAIN dsSerial \subseteq DsKeys /\ dsContested \subseteq DsKeys
  BY DEF DsInv, DsTypeInv
<1>2. ASSUME NEW b \in DOMAIN backends
      PROVE  /\ DOMAIN backends[b].entities \subseteq DsKeys
             /\ DOMAIN backends[b].versions \subseteq DsKeys
             /\ backends[b].ids \in 0..DsMaxId
  <2>1. backends[b] \in DsBackends
    BY <1>1, ElementOfSeq, LenProperties
  <2>2. /\ backends[b].entities \in DsDicts(DsVals) /\ backends[b].versions \in DsDicts(Nat)
        /\ backends[b].ids \in 0..DsMaxId
    BY <2>1 DEF DsBackends
  <2> QED
    BY <2>2 DEF DsDicts
<1>3. ASSUME NEW w \in DsWorkers
      PROVE  /\ dw[w].pc \in {"idle", "create", "next", "exists", "put", "version",
                              "unversion", "lookup", "found", "allocate"}
             /\ dw[w].pc \notin {"idle", "create"} => dw[w].be \in DOMAIN backends
             /\ DsWriting(w) => dw[w].key \in DsKeys
  <2>1. DsCallInv(dw[w])
    BY DEF DsInv, DsTypeInv
  <2> QED
    BY <2>1 DEF DsCallInv, DsPlaces, DsAtKey, DsWriting
<1> QED
  BY <1>1, <1>2, <1>3 DEF DatastoreTypeOK

(* Only rows that may be asked for are ever written. *)
LEMMA BtSaidStep ==
  ASSUME BtInv, DOMAIN btSerial \subseteq BtRows, [BigtableNext]_btVars
  PROVE  DOMAIN btSerial' \subseteq BtRows
<1>1. CASE UNCHANGED btSerial
  BY <1>1
<1>2. CASE btSerial' = BtNone
  BY <1>2 DEF BtNone
<1>3. ASSUME NEW w \in BtWorkers, BtChange(w)
      PROVE  DOMAIN btSerial' \subseteq BtRows
  <2>1. PICK m, cells : /\ m = bw[w].mut
                        /\ btSerial' = btSerial \/ btSerial' = BtApply(btSerial, m, cells)
    BY <1>3 DEF BtChange
  <2>2. m \in BtMutations
    BY <1>3, <2>1 DEF BtChange, BtInv, BtTypeInv, BtCallInv
  <2>3. m.row \in BtRows
    BY <2>2 DEF BtMutations
  <2>4. DOMAIN BtApply(btSerial, m, cells) \subseteq DOMAIN btSerial \union {m.row}
    BY DEF BtApply, BtWith, BtRemove, BtDrop
  <2> QED
    BY <2>1, <2>3, <2>4
<1>4. CASE UNCHANGED btVars
  BY <1>4 DEF btVars
<1>5. CASE BigtableNext
  <2>1. PICK w \in BtWorkers : BtWork(w)
    BY <1>5 DEF BigtableNext
  <2>2. CASE BtCreate(w) \/ BtDelete(w) \/ BtDeleteFails(w) \/ BtMutate(w) \/ BtFind(w) \/ BtRead(w)
    BY <1>1, <2>2 DEF BtCreate, BtDelete, BtDeleteFails, BtMutate, BtFind, BtRead, BtBegin, BtGo
  <2>9. CASE BtCall(w) \/ BtLost(w)
    BY <1>1, <2>9 DEF BtCall, BtLost
  <2>3. CASE BtCreated(w) \/ BtDeleted(w) \/ BtNewBackend(w)
    BY <1>1, <1>2, <2>3 DEF BtCreated, BtDeleted, BtSwap, BtNewBackend
  <2>4. CASE \E f \in BtFamilies : BtModify(w, {f}, {}) \/ BtModify(w, {}, {f})
    BY <1>1, <2>4 DEF BtModify
  <2>5. CASE BtChange(w)
    BY <1>3, <2>5
  <2>6. CASE \E m \in BtMutations : BtNext(w, m)
    BY <1>1, <2>6 DEF BtNext
  <2>7. CASE BtList(w)
    BY <1>1, <2>7 DEF BtList, BtGo
  <2>8. CASE \E r \in bw[w].todo : BtStream(w, r) \/ BtStreamFails(w, r)
    BY <1>1, <2>8 DEF BtStream, BtStreamFails, BtGo
  <2> QED
    BY <2>1, <2>2, <2>3, <2>4, <2>5, <2>6, <2>7, <2>8, <2>9 DEF BtWork
<1> QED
  BY <1>4, <1>5

LEMMA BtTyped == BtInv /\ DOMAIN btSerial \subseteq BtRows => BigtableTypeOK
<1> SUFFICES ASSUME BtInv, DOMAIN btSerial \subseteq BtRows PROVE BigtableTypeOK
  OBVIOUS
<1>1. tables \in Seq(BtTables) /\ current \in 0..Len(tables) /\ btContested \subseteq BtRows
  BY DEF BtInv, BtTypeInv
<1>2. ASSUME NEW t \in DOMAIN tables
      PROVE  /\ tables[t].families \subseteq BtFamilies
             /\ DOMAIN tables[t].rows \subseteq BtRows
             /\ \A r \in DOMAIN tables[t].rows : DOMAIN tables[t].rows[r] \subseteq BtColumns
  <2>1. tables[t] \in BtTables
    BY <1>1, ElementOfSeq, LenProperties
  <2>2. tables[t].families \subseteq BtFamilies /\ tables[t].rows \in BtRowDicts
    BY <2>1 DEF BtTables
  <2>3. PICK S \in SUBSET BtRows : tables[t].rows \in [S -> DictsOf(BtColumns, BtColumnLists)]
    BY <2>2 DEF BtRowDicts, DictsOf
  <2>4. ASSUME NEW r \in S PROVE DOMAIN tables[t].rows[r] \subseteq BtColumns
    <3>1. tables[t].rows[r] \in DictsOf(BtColumns, BtColumnLists)
      BY <2>3
    <3> QED
      BY <3>1 DEF DictsOf
  <2> QED
    BY <2>2, <2>3, <2>4
<1>3. ASSUME NEW w \in BtWorkers
      PROVE  /\ bw[w].pc \in {"idle", "first", "race", "ready", "lost", "create", "delete",
                              "next", "find", "change", "list", "stream"}
             /\ BtWriting(w) => bw[w].mut \in BtMutations
             /\ bw[w].pc \in {"change", "list", "stream"} => bw[w].table \in DOMAIN tables
  <2>1. BtCallInv(bw[w])
    BY DEF BtInv, BtTypeInv
  <2> QED
    BY <2>1 DEF BtCallInv, BtPlaces, BtResting, BtWriting
<1> QED
  BY <1>1, <1>2, <1>3 DEF BigtableTypeOK

(* Each service keeps its type and the others' alone. *)
THEOREM DataTyped == DataSpec => []TypeOK
<1> DEFINE Inv == /\ subject \in Subjects
                  /\ FsInv /\ FsStartInv /\ HeapInv /\ DsInv
                  /\ BtInv /\ BtStartInv /\ DOMAIN btSerial \subseteq BtRows
                  /\ subject = "queries" => QyInv
<1>1. DataInit => Inv
  <2> SUFFICES ASSUME DataInit PROVE Inv
    OBVIOUS
  <2>1. FsInv /\ FsStartInv /\ HeapInv /\ DsInv /\ BtInv /\ BtStartInv
    BY DataInits, FsInitInv, FsStartInit, HeapInit, DsInitInv, BtInitInv, BtStartInit
  <2>2. DOMAIN btSerial = {}
    BY DataInits DEF BigtableInit, BtNone
  <2>3. subject \in Subjects /\ (subject = "queries" => QyInv)
    BY QyInitInv DEF DataInit
  <2> QED
    BY <2>1, <2>2, <2>3
<1>2. Inv /\ [DataNext]_dataVars => Inv'
  <2> SUFFICES ASSUME Inv, [DataNext]_dataVars PROVE Inv'
    OBVIOUS
  <2>1. FsInv' /\ FsStartInv' /\ HeapInv'
    BY OneDataService, FsStepInv, HeapStep
  <2>2. DsInv' /\ BtInv' /\ BtStartInv' /\ DOMAIN btSerial' \subseteq BtRows
    BY OneDataService, DsStepInv, BtStepInv, BtSaidStep
  <2>3. subject' \in Subjects /\ (subject' = "queries" => QyInv')
    BY QueriesApart, QyStepInv
  <2> QED
    BY <2>1, <2>2, <2>3
<1>3. Inv => TypeOK
  <2> SUFFICES ASSUME Inv PROVE TypeOK
    OBVIOUS
  <2>1. FirestoreTypeOK /\ DatastoreTypeOK /\ BigtableTypeOK
    BY FsTyped, DsTyped, BtTyped
  <2>2. subject \in Subjects /\ (subject = "queries" => QueriesTypeOK)
    BY QyInvTyped
  <2> QED
    BY <2>1, <2>2 DEF TypeOK
<1> HIDE DEF Inv
<1> QED
  BY <1>1, <1>2, <1>3, PTL DEF DataSpec, dataVars
==============================================================================
