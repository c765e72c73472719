---------------------------- MODULE StorageProofs ----------------------------
(***************************************************************************)
(* Theorems about Storage for any buckets, names, clients, file and chunk. *)
(***************************************************************************)
EXTENDS Storage, SequenceTheorems, TLAPS

------------------------------------------------------------------------------
(* What strengthens the invariants of Storage until each step preserves    *)
(* them: SessionsInStep (CleanPrefix and InStep) for WholeObjects, IdsInv  *)
(* (with DrawnId) for NoSharedNumbers, VersionInv for VersionNamesContent. *)

(* The first bytes of the file. *)
Prefix(q) == Len(q) <= FileLen /\ \A k \in 1..Len(q) : q[k] = k

(* What a clean session holds is the beginning of the file. *)
CleanPrefix ==
  \A u \in DOMAIN uploads : uploads[u].clean => Prefix(uploads[u].data)

(* A client that was told the truth is where its session is. *)
InStep(c) ==
  Current(c) /\ Found(c) /\ Session(c).clean /\ client[c].doubt # "answer" =>
    Len(Session(c).data) = client[c].sent

(* The number of an upload under way has been drawn. *)
DrawnId(c) == Current(c) => client[c].id < clock

(* No version has a generation yet to be drawn; of the versions with the   *)
(* generation of an object, the object has the latest.                     *)
VersionsDrawn == \A v \in versions : v[2].generation < clock

ObjectsLatest ==
  \A p \in DOMAIN blobs : \A v \in versions :
    v[1] = p /\ v[2].generation = blobs[p].generation =>
      v[2].metageneration <= blobs[p].metageneration

VersionInv == VersionNamesContent /\ VersionsDrawn /\ ObjectsLatest

------------------------------------------------------------------------------
(* What the helpers return. *)

LEMMA FileFacts == File \in Seq(Nat) /\ Len(File) = FileLen
<1>1. File \in [1..FileLen -> Nat] /\ FileLen \in Nat
  BY StorageAssumption DEF File
<1> QED
  BY <1>1, SeqDef, LenProperties, DOMAIN File = 1..FileLen DEF File

(* A chunk is not empty and continues the file where its client is. *)
LEMMA ChunkFacts ==
  ASSUME TypeOK, NEW c \in Clients
  PROVE  /\ client[c].sent \in 0..(FileLen - 1)
         /\ Upto(c) \in (client[c].sent + 1)..FileLen
         /\ Chunk(c) \in Seq(Nat)
         /\ Len(Chunk(c)) = Upto(c) - client[c].sent
         /\ \A k \in 1..Len(Chunk(c)) : Chunk(c)[k] = client[c].sent + k
<1> DEFINE m == client[c].sent
<1>1. m \in 0..(FileLen - 1)
  BY DEF TypeOK
<1>2. Upto(c) \in (m + 1)..FileLen
  BY <1>1, StorageAssumption DEF Upto, MinOf
<1> HIDE DEF m
<1>3. FileLen \in Nat /\ m + 1 \in 1..FileLen /\ m \in Nat
  BY <1>1, StorageAssumption
<1>4. \A k \in (m + 1)..Upto(c) : File[k] \in Nat /\ File[k] = k
  BY <1>2, <1>3 DEF File
<1>5. /\ SubSeq(File, m + 1, Upto(c)) \in Seq(Nat)
      /\ Len(SubSeq(File, m + 1, Upto(c))) =
           IF m + 1 <= Upto(c) THEN Upto(c) - (m + 1) + 1 ELSE 0
      /\ \A k \in 1..(Upto(c) - (m + 1) + 1) :
           SubSeq(File, m + 1, Upto(c))[k] = File[m + 1 + k - 1]
  <2>1. /\ m + 1 \in Int /\ Upto(c) \in Int
        /\ \A k \in (m + 1)..Upto(c) : File[k] \in Nat
    BY <1>2, <1>3, <1>4
  <2> QED
    BY <2>1, SubSeqProperties
<1>6. Chunk(c) = SubSeq(File, m + 1, Upto(c))
  BY DEF Chunk, m
<1>7. Len(Chunk(c)) = Upto(c) - m
  BY <1>2, <1>3, <1>5, <1>6
<1>8. ASSUME NEW k \in 1..Len(Chunk(c)) PROVE Chunk(c)[k] = m + k
  <2>1. /\ k \in 1..(Upto(c) - (m + 1) + 1) /\ m + 1 + k - 1 = m + k
        /\ m + k \in (m + 1)..Upto(c)
    BY <1>2, <1>3, <1>7
  <2>2. Chunk(c)[k] = File[m + 1 + k - 1]
    BY <1>5, <1>6, <2>1
  <2> QED
    BY <1>4, <2>1, <2>2
<1> QED
  BY <1>1, <1>2, <1>5, <1>6, <1>7, <1>8 DEF m

(* The beginning of the file and the next chunk are a longer beginning.    *)
LEMMA PrefixGrows ==
  ASSUME TypeOK, NEW c \in Clients, NEW q \in Seq(Nat),
         Prefix(q), Len(q) = client[c].sent
  PROVE  Prefix(q \o Chunk(c)) /\ Len(q \o Chunk(c)) = Upto(c)
<1> DEFINE h == Chunk(c)
<1>1. /\ Len(q) \in 0..(FileLen - 1) /\ Upto(c) \in (Len(q) + 1)..FileLen
      /\ h \in Seq(Nat) /\ Len(h) = Upto(c) - Len(q)
      /\ \A k \in 1..Len(h) : h[k] = Len(q) + k
  BY ChunkFacts
<1> HIDE DEF h
<1>2. /\ Len(q \o h) = Len(q) + Len(h)
      /\ \A k \in 1..(Len(q) + Len(h)) :
           (q \o h)[k] = IF k <= Len(q) THEN q[k] ELSE h[k - Len(q)]
  BY <1>1, ConcatProperties
<1>3. Len(q \o h) = Upto(c)
  BY <1>1, <1>2, StorageAssumption
<1>4. ASSUME NEW k \in 1..Upto(c) PROVE (q \o h)[k] = k
  <2>1. CASE k <= Len(q)
    BY <1>1, <1>2, <1>3, <2>1 DEF Prefix
  <2>2. CASE k > Len(q)
    <3>1. Len(q) \in Nat /\ k \in Nat /\ Upto(c) \in Nat /\ k <= Upto(c)
      BY <1>1, StorageAssumption
    <3>2. k - Len(q) \in 1..Len(h) /\ Len(q) + (k - Len(q)) = k /\ ~(k <= Len(q))
      BY <1>1, <2>2, <3>1
    <3>3. k \in 1..(Len(q) + Len(h))
      BY <1>1, <3>1
    <3>4. (q \o h)[k] = h[k - Len(q)]
      BY <1>2, <3>2, <3>3
    <3> QED
      BY <1>1, <3>2, <3>4
  <2> QED
    BY <1>1, <2>1, <2>2
<1> QED
  BY <1>1, <1>3, <1>4 DEF Prefix, h

LEMMA WholeFile ==
  ASSUME NEW q \in Seq(Nat), Prefix(q), Len(q) = FileLen
  PROVE  q = File
<1>1. DOMAIN q = 1..FileLen /\ DOMAIN File = 1..FileLen
  BY LenProperties DEF File
<1>2. \A k \in 1..FileLen : q[k] = File[k]
  BY DEF Prefix, File
<1> QED
  BY <1>1, <1>2, FileFacts, SeqEqual

------------------------------------------------------------------------------
(* Type correctness *)

ObjectsOK(bs, n) ==
  /\ DOMAIN bs \subseteq Places
  /\ \A p \in DOMAIN bs : bs[p] \in Blob /\ bs[p].generation < n

UploadsOK(us, n) ==
  /\ DOMAIN us \subseteq 1..(n - 1)
  /\ \A u \in DOMAIN us :
       us[u] \in [place : Places, data : Seq(Nat), clean : BOOLEAN]

KeysOK(ks, n) ==
  /\ DOMAIN ks \subseteq 1..(n - 1)
  /\ \A k \in DOMAIN ks : ks[k] \in {"ACTIVE", "INACTIVE"}

Where == [id : Nat, sent : 0..(FileLen - 1), stale : BOOLEAN,
          doubt : {"none", "request", "answer"}]

LEMMA TypeSplit ==
  TypeOK <=> /\ buckets \subseteq Buckets
             /\ clock \in Nat \ {0}
             /\ ObjectsOK(blobs, clock)
             /\ \A p \in DOMAIN blobs : p[1] \in buckets
             /\ UploadsOK(uploads, clock)
             /\ KeysOK(keys, clock)
             /\ client \in [Clients -> Where]
             /\ versions \subseteq Places \X Blob
<1>1. ASSUME buckets \subseteq Buckets
      PROVE  DOMAIN blobs \subseteq buckets \X Names <=>
               /\ DOMAIN blobs \subseteq Places
               /\ \A p \in DOMAIN blobs : p[1] \in buckets
  BY <1>1 DEF Places
<1> QED
  BY <1>1 DEF TypeOK, ObjectsOK, UploadsOK, KeysOK, Where

LEMMA TypeJoin ==
  ASSUME buckets' \subseteq Buckets, clock' \in Nat \ {0},
         ObjectsOK(blobs', clock'), \A p \in DOMAIN blobs' : p[1] \in buckets',
         UploadsOK(uploads', clock'), KeysOK(keys', clock'),
         client' \in [Clients -> Where], versions' \subseteq Places \X Blob
  PROVE  TypeOK'
<1>1. DOMAIN blobs' \subseteq buckets' \X Names
  BY DEF Places, ObjectsOK
<1> QED
  BY <1>1 DEF TypeOK, ObjectsOK, UploadsOK, KeysOK, Where

(* What was drawn stays drawn. *)
LEMMA ObjectsLater ==
  ASSUME NEW m \in Nat, NEW n \in Nat, m <= n, NEW bs, ObjectsOK(bs, m)
  PROVE  ObjectsOK(bs, n)
  BY DEF ObjectsOK, Blob

LEMMA NumbersLater ==
  ASSUME NEW m \in Nat, NEW n \in Nat, m <= n
  PROVE  /\ \A us : UploadsOK(us, m) => UploadsOK(us, n)
         /\ \A ks : KeysOK(ks, m) => KeysOK(ks, n)
<1>1. 1..(m - 1) \subseteq 1..(n - 1)
  OBVIOUS
<1> QED
  BY <1>1 DEF UploadsOK, KeysOK

LEMMA PatchFacts ==
  ASSUME NEW b \in Blob, NEW meta \in Metas
  PROVE  LET new == [b EXCEPT !.meta = meta, !.metageneration = NextMeta(@)]
         IN  /\ new \in Blob
             /\ new.data = b.data /\ new.clean = b.clean
             /\ new.generation = b.generation
             /\ new.metageneration = b.metageneration + 1
<1> DEFINE n   == b.metageneration + 1
           new == [b EXCEPT !.meta = meta, !.metageneration = n]
<1>1. n \in Nat
  BY DEF Blob
<1>2. [b EXCEPT !.meta = meta, !.metageneration = NextMeta(@)] = new
  BY DEF NextMeta
<1>3. /\ new \in Blob
      /\ new.data = b.data /\ new.clean = b.clean
      /\ new.generation = b.generation /\ new.metageneration = n
  <2> HIDE DEF n
  <2> QED
    BY <1>1 DEF Blob
<1> QED
  BY <1>2, <1>3

LEMMA PutBlobType ==
  ASSUME TypeOK, NEW p \in Places, NEW data \in Seq(Nat), NEW meta \in Metas,
         NEW clean \in BOOLEAN, PutBlob(p, data, meta, clean)
  PROVE  /\ clock' = clock + 1
         /\ ObjectsOK(blobs', clock')
         /\ \A q \in DOMAIN blobs' : q[1] \in buckets
         /\ versions' \subseteq Places \X Blob
<1> DEFINE new == [data |-> data, meta |-> meta, generation |-> clock,
                   metageneration |-> 1, clean |-> clean]
<1>1. /\ clock \in Nat /\ ObjectsOK(blobs, clock) /\ versions \subseteq Places \X Blob
      /\ \A q \in DOMAIN blobs : q[1] \in buckets
  BY TypeSplit
<1>2. new \in Blob /\ new.generation = clock
  BY <1>1 DEF Blob
<1> HIDE DEF new
<1>3. /\ p[1] \in buckets /\ clock' = clock + 1 /\ blobs' = With(blobs, p, new)
      /\ versions' = versions \union {<<p, new>>}
  BY DEF PutBlob, Tick, new
<1>4. /\ DOMAIN blobs' = DOMAIN blobs \union {p} /\ blobs'[p] = new
      /\ \A q \in DOMAIN blobs \ {p} : blobs'[q] = blobs[q]
  BY <1>3 DEF With
<1>5. ObjectsOK(blobs, clock')
  <2>1. clock' \in Nat /\ clock <= clock'
    BY <1>1, <1>3
  <2> QED
    BY <1>1, <2>1, ObjectsLater
<1>6. ASSUME NEW q \in DOMAIN blobs'
      PROVE  blobs'[q] \in Blob /\ blobs'[q].generation < clock'
  <2>1. CASE q = p
    BY <1>1, <1>2, <1>3, <1>4, <2>1
  <2>2. CASE q # p
    BY <1>4, <1>5, <2>2 DEF ObjectsOK
  <2> QED
    BY <2>1, <2>2
<1> QED
  BY <1>1, <1>2, <1>3, <1>4, <1>6 DEF ObjectsOK

(* Where a client goes from here. *)
LEMMA ClientType ==
  ASSUME TypeOK, NEW c \in Clients
  PROVE  /\ AnswerLost(c) => client' \in [Clients -> Where]
         /\ Stops(c) => client' \in [Clients -> Where]
         /\ \A n \in 0..(FileLen - 1) :
              Continues(c, n) => client' \in [Clients -> Where]
<1>1. client \in [Clients -> Where] /\ Idle \in Where
  BY TypeSplit, StorageAssumption DEF Idle, Where
<1>2. AnswerLost(c) => client' \in [Clients -> Where]
  BY <1>1 DEF AnswerLost, Where
<1>3. Stops(c) => client' \in [Clients -> Where]
  BY <1>1 DEF Stops
<1>4. ASSUME NEW n \in 0..(FileLen - 1), Continues(c, n)
      PROVE  client' \in [Clients -> Where]
  BY <1>1, <1>4 DEF Continues, Where
<1> QED
  BY <1>2, <1>3, <1>4

(* The parts of the type that a step of an upload leaves alone. *)
LEMMA ObjectsType ==
  ASSUME TypeOK, Objects
  PROVE  TypeOK'
<1>1. /\ clock \in Nat \ {0} /\ ObjectsOK(blobs, clock)
      /\ UploadsOK(uploads, clock) /\ KeysOK(keys, clock)
      /\ buckets \subseteq Buckets /\ client \in [Clients -> Where]
      /\ versions \subseteq Places \X Blob
      /\ \A p \in DOMAIN blobs : p[1] \in buckets
  BY TypeSplit
<1>2. UNCHANGED <<buckets, uploads, keys, client>>
  BY DEF Objects, UploadObject, CopyBlob, PatchObject, DeleteBlob
<1>3. ASSUME NEW p \in Places, NEW data \in Seq(Nat), NEW meta \in Metas,
             NEW clean \in BOOLEAN, PutBlob(p, data, meta, clean)
      PROVE  TypeOK'
  <2>1. clock' \in Nat \ {0} /\ clock <= clock'
    BY <1>1, <1>3, PutBlobType
  <2>2. UploadsOK(uploads, clock') /\ KeysOK(keys, clock')
    BY <1>1, <2>1, NumbersLater
  <2> QED
    BY <1>1, <1>2, <1>3, <2>1, <2>2, PutBlobType, TypeJoin
<1>4. ASSUME NEW p \in Places, UploadObject(p) PROVE TypeOK'
  <2>1. Small \in Seq(Nat) /\ NoMeta \in Metas
    BY StorageAssumption DEF Small
  <2> QED
    BY <1>3, <1>4, <2>1 DEF UploadObject
<1>5. ASSUME NEW p \in Places, NEW q \in Places, CopyBlob(p, q) PROVE TypeOK'
  <2>1. blobs[p] \in Blob
    BY <1>1, <1>5 DEF CopyBlob, ObjectsOK
  <2>2. /\ blobs[p].data \in Seq(Nat) /\ blobs[p].meta \in Metas
        /\ blobs[p].clean \in BOOLEAN
    BY <2>1 DEF Blob
  <2> QED
    BY <1>3, <1>5, <2>2 DEF CopyBlob
<1>6. ASSUME NEW p \in Places, NEW meta \in Metas, PatchObject(p, meta)
      PROVE  TypeOK'
  <2> DEFINE new == [blobs[p] EXCEPT !.meta = meta, !.metageneration = NextMeta(@)]
  <2>1. p \in DOMAIN blobs /\ blobs[p] \in Blob /\ blobs[p].generation < clock
    BY <1>1, <1>6 DEF PatchObject, ObjectsOK
  <2>2. new \in Blob /\ new.generation < clock
    BY <2>1, PatchFacts
  <2> HIDE DEF new
  <2>3. /\ blobs' = [blobs EXCEPT ![p] = new] /\ clock' = clock
        /\ versions' = versions \union {<<p, new>>}
    BY <1>6 DEF PatchObject, new
  <2>4. ObjectsOK(blobs', clock')
    BY <1>1, <2>1, <2>2, <2>3 DEF ObjectsOK
  <2>5. versions' \subseteq Places \X Blob
    BY <1>1, <2>2, <2>3
  <2>6. \A q \in DOMAIN blobs' : q[1] \in buckets
    BY <1>1, <2>3
  <2> QED
    BY <1>1, <1>2, <2>3, <2>4, <2>5, <2>6, TypeJoin
<1>7. ASSUME NEW p \in Places, DeleteBlob(p) PROVE TypeOK'
  <2>1. /\ DOMAIN blobs' = DOMAIN blobs \ {p} /\ clock' = clock
        /\ \A q \in DOMAIN blobs' : blobs'[q] = blobs[q]
        /\ versions' = versions
    BY <1>7 DEF DeleteBlob, Without
  <2>2. ObjectsOK(blobs', clock') /\ \A q \in DOMAIN blobs' : q[1] \in buckets
    BY <1>1, <2>1 DEF ObjectsOK
  <2> QED
    BY <1>1, <1>2, <2>1, <2>2, TypeJoin
<1> QED
  BY <1>4, <1>5, <1>6, <1>7 DEF Objects

LEMMA HmacKeysType ==
  ASSUME TypeOK, HmacKeys
  PROVE  TypeOK'
<1>1. /\ clock \in Nat \ {0} /\ ObjectsOK(blobs, clock)
      /\ UploadsOK(uploads, clock) /\ KeysOK(keys, clock)
  BY TypeSplit
<1>2. UNCHANGED <<buckets, blobs, uploads, client, versions>>
  BY DEF HmacKeys, CreateHmacKey, UpdateHmacKey, DeleteHmacKey
<1>3. clock' \in Nat \ {0} /\ clock <= clock'
  BY <1>1 DEF HmacKeys, CreateHmacKey, UpdateHmacKey, DeleteHmacKey, Tick
<1>4. KeysOK(keys', clock')
  <2>1. CASE CreateHmacKey
    BY <1>1, <2>1 DEF CreateHmacKey, Tick, KeysOK, With
  <2>2. ASSUME NEW k \in DOMAIN keys, NEW st \in {"ACTIVE", "INACTIVE"},
               UpdateHmacKey(k, st)
        PROVE  KeysOK(keys', clock')
    BY <1>1, <2>2 DEF UpdateHmacKey, KeysOK
  <2>3. ASSUME NEW k \in DOMAIN keys, DeleteHmacKey(k)
        PROVE  KeysOK(keys', clock')
    BY <1>1, <2>3 DEF DeleteHmacKey, KeysOK, Without
  <2> QED
    BY <2>1, <2>2, <2>3 DEF HmacKeys
<1>5. ObjectsOK(blobs, clock') /\ UploadsOK(uploads, clock')
  BY <1>1, <1>3, ObjectsLater, NumbersLater
<1> QED
  BY <1>2, <1>3, <1>4, <1>5, TypeSplit, TypeJoin

(* The session a client writes into. *)
LEMMA SessionFacts ==
  ASSUME TypeOK, NEW c \in Clients, Found(c)
  PROVE  /\ client[c].id \in DOMAIN uploads
         /\ Session(c) \in [place : Places, data : Seq(Nat), clean : BOOLEAN]
         /\ Session(c).data \in Seq(Nat) /\ Session(c).place \in Places
         /\ Session(c).clean \in BOOLEAN
<1>1. UploadsOK(uploads, clock)
  BY TypeSplit
<1>2. /\ client[c].id \in DOMAIN uploads
      /\ Session(c) \in [place : Places, data : Seq(Nat), clean : BOOLEAN]
  BY <1>1 DEF Found, Session, UploadsOK
<1> QED
  BY <1>2

(* What the client is told when n bytes were received; nothing and one     *)
(* byte are told apart by nothing.                                         *)
LEMMA ToldFacts ==
  ASSUME NEW n \in Nat
  PROVE  /\ RangeEnd(n) + 1 \in Nat
         /\ RangeEnd(n) + 1 = IF n = 0 THEN 1 ELSE n
  BY DEF RangeEnd

LEMMA StartResumableType ==
  ASSUME TypeOK, NEW c \in Clients, NEW p \in Places, StartResumable(c, p)
  PROVE  TypeOK'
<1>1. /\ clock \in Nat \ {0} /\ ObjectsOK(blobs, clock)
      /\ UploadsOK(uploads, clock) /\ KeysOK(keys, clock)
  BY TypeSplit
<1>2. clock' = clock + 1 /\ UNCHANGED <<buckets, blobs, keys, versions>>
  BY DEF StartResumable, Tick
<1>3. ObjectsOK(blobs, clock') /\ KeysOK(keys, clock')
  <2>1. clock' \in Nat /\ clock <= clock'
    BY <1>1, <1>2
  <2> QED
    BY <1>1, <2>1, ObjectsLater, NumbersLater
<1>4. UploadsOK(uploads', clock')
  BY <1>1, <1>2 DEF StartResumable, UploadsOK, With
<1>5. client' \in [Clients -> Where]
  <2>1. client' = [client EXCEPT ![c] = [Idle EXCEPT !.id = clock]]
    BY DEF StartResumable
  <2>2. [Idle EXCEPT !.id = clock] \in Where
    <3>1. Idle \in Where
      BY StorageAssumption DEF Idle, Where
    <3> QED
      BY <1>1, <3>1 DEF Where
  <2> QED
    BY <2>1, <2>2, TypeSplit
<1> QED
  BY <1>1, <1>2, <1>3, <1>4, <1>5, TypeSplit, TypeJoin

LEMMA PutChunkType ==
  ASSUME TypeOK, NEW c \in Clients, PutChunk(c)
  PROVE  TypeOK'
<1> DEFINE u        == client[c].id
           received == Session(c).data \o Chunk(c)
           clean    == Session(c).clean /\ Honest(c)
           told     == RangeEnd(Len(received)) + 1
<1>1. UploadsOK(uploads, clock) /\ client \in [Clients -> Where]
  BY TypeSplit
<1>2. /\ u \in DOMAIN uploads
      /\ Session(c) \in [place : Places, data : Seq(Nat), clean : BOOLEAN]
      /\ Session(c) = uploads[u]
  BY SessionFacts DEF PutChunk, Session
<1>3. received \in Seq(Nat) /\ clean \in BOOLEAN
  BY <1>2, ChunkFacts, ConcatProperties
<1>4. uploads' = [uploads EXCEPT ![u].data = received, ![u].clean = @ /\ Honest(c)]
  BY DEF PutChunk
<1>5. UploadsOK(uploads', clock)
  <2> HIDE DEF received, u, clean
  <2>1. DOMAIN uploads' = DOMAIN uploads
    BY <1>4
  <2>2. \A w \in DOMAIN uploads \ {u} : uploads'[w] = uploads[w]
    BY <1>4
  <2>3. uploads'[u] = [[uploads[u] EXCEPT !.data = received]
                         EXCEPT !.clean = uploads[u].clean /\ Honest(c)]
    BY <1>2, <1>4
  <2>4. uploads'[u] \in [place : Places, data : Seq(Nat), clean : BOOLEAN]
    BY <1>2, <1>3, <2>3 DEF clean
  <2> QED
    BY <1>1, <2>1, <2>2, <2>4 DEF UploadsOK
<1>6. client' \in [Clients -> Where]
  <2>1. CASE told = Upto(c) /\ Continues(c, told)
    <3>1. told \in 0..(FileLen - 1)
      BY <2>1, ChunkFacts, StorageAssumption DEF PutChunk, IsFinal
    <3> QED
      BY <2>1, <3>1, ClientType
  <2> QED
    BY <2>1, ClientType DEF PutChunk
<1> QED
  BY <1>5, <1>6, TypeSplit, TypeJoin DEF PutChunk

LEMMA CompleteType ==
  ASSUME TypeOK, NEW c \in Clients, NEW data \in Seq(Nat), NEW clean \in BOOLEAN,
         Complete(c, data, clean)
  PROVE  TypeOK'
<1>1. /\ clock \in Nat \ {0} /\ ObjectsOK(blobs, clock)
      /\ UploadsOK(uploads, clock) /\ KeysOK(keys, clock)
  BY TypeSplit
<1>2. client' \in [Clients -> Where]
  BY ClientType DEF Complete
<1>3. /\ clock' \in Nat \ {0} /\ clock <= clock'
      /\ ObjectsOK(blobs', clock') /\ versions' \subseteq Places \X Blob
      /\ \A q \in DOMAIN blobs' : q[1] \in buckets
  <2>1. CASE PutBlob(Session(c).place, data, NoMeta, clean)
    <3>1. Session(c).place \in Places /\ NoMeta \in Metas
      BY SessionFacts, StorageAssumption DEF Complete
    <3> QED
      BY <1>1, <2>1, <3>1, PutBlobType
  <2>2. CASE UNCHANGED <<blobs, clock, versions>>
    BY <1>1, <2>2, TypeSplit
  <2> QED
    BY <2>1, <2>2 DEF Complete
<1>4. UploadsOK(uploads', clock)
  BY <1>1 DEF Complete, UploadsOK, Without
<1>5. UploadsOK(uploads', clock') /\ KeysOK(keys, clock')
  BY <1>1, <1>3, <1>4, NumbersLater
<1> QED
  BY <1>2, <1>3, <1>5, TypeSplit, TypeJoin DEF Complete

LEMMA RecoverType ==
  ASSUME TypeOK, NEW c \in Clients, Recover(c)
  PROVE  TypeOK'
<1> DEFINE u    == client[c].id
           told == RangeEnd(Len(Session(c).data)) + 1
<1>1. UploadsOK(uploads, clock) /\ client \in [Clients -> Where]
  BY TypeSplit
<1>2. /\ u \in DOMAIN uploads
      /\ Session(c) \in [place : Places, data : Seq(Nat), clean : BOOLEAN]
      /\ Session(c) = uploads[u]
  BY SessionFacts DEF Recover, Session
<1>3. uploads' = [uploads EXCEPT ![u].clean = @ /\ Session(c).data # <<>>]
  BY DEF Recover
<1>4. UploadsOK(uploads', clock)
  <2> HIDE DEF u
  <2>1. \A b : [uploads[u] EXCEPT !.clean = uploads[u].clean /\ b # <<>>] \in
                  [place : Places, data : Seq(Nat), clean : BOOLEAN]
    BY <1>2
  <2>2. /\ DOMAIN uploads' = DOMAIN uploads
        /\ \A w \in DOMAIN uploads \ {u} : uploads'[w] = uploads[w]
        /\ uploads'[u] = [uploads[u] EXCEPT
                            !.clean = uploads[u].clean /\ Session(c).data # <<>>]
    BY <1>2, <1>3
  <2> QED
    BY <1>1, <2>1, <2>2 DEF UploadsOK
<1>5. client' \in [Clients -> Where]
  <2>1. CASE told < FileLen /\ Continues(c, told)
    <3>1. Len(Session(c).data) \in Nat
      BY <1>2, LenProperties
    <3>2. told \in 0..(FileLen - 1)
      BY <2>1, <3>1, ToldFacts, StorageAssumption
    <3> QED
      BY <2>1, <3>2, ClientType
  <2> QED
    BY <2>1, ClientType DEF Recover
<1> QED
  BY <1>4, <1>5, TypeSplit, TypeJoin DEF Recover

LEMMA UploadType ==
  ASSUME TypeOK, NEW c \in Clients, Upload(c)
  PROVE  TypeOK'
<1>1. CASE PutLastChunk(c)
  <2>1. Found(c)
    BY <1>1 DEF PutLastChunk, Complete
  <2>2. /\ Session(c).data \o Chunk(c) \in Seq(Nat)
        /\ (Session(c).clean /\ Honest(c)) \in BOOLEAN
    BY <2>1, SessionFacts, ChunkFacts, ConcatProperties
  <2> QED
    BY <1>1, <2>2, CompleteType DEF PutLastChunk
<1>2. CASE AskWithTotal(c)
  <2>1. Session(c).data \in Seq(Nat)
    BY <1>2, SessionFacts DEF AskWithTotal, Complete
  <2> QED
    BY <1>2, <2>1, CompleteType DEF AskWithTotal
<1>3. CASE GiveUp(c) \/ RequestLost(c)
  <2>1. client' \in [Clients -> Where]
    <3>1. CASE GiveUp(c)
      BY <3>1, ClientType DEF GiveUp
    <3>2. CASE RequestLost(c)
      BY <3>2, TypeSplit DEF RequestLost, Where
    <3> QED
      BY <1>3, <3>1, <3>2
  <2>2. UNCHANGED <<buckets, blobs, uploads, keys, clock, versions>>
    BY <1>3 DEF GiveUp, RequestLost, server
  <2> QED
    BY <2>1, <2>2, TypeSplit, TypeJoin
<1> QED
  BY <1>1, <1>2, <1>3, StartResumableType, PutChunkType, RecoverType DEF Upload

LEMMA BucketType ==
  ASSUME TypeOK, NEW b \in Buckets, CreateBucket(b) \/ DeleteBucket(b)
  PROVE  TypeOK'
<1>1. /\ buckets' \subseteq Buckets
      /\ \A p \in DOMAIN blobs : p[1] \in buckets'
      /\ UNCHANGED <<blobs, uploads, keys, clock, client, versions>>
  BY TypeSplit DEF CreateBucket, DeleteBucket
<1> QED
  BY <1>1, TypeSplit, TypeJoin

LEMMA ResetType == TypeOK /\ Reset => TypeOK'
<1> SUFFICES ASSUME TypeOK, Reset PROVE TypeOK'
  OBVIOUS
<1>1. client' \in [Clients -> Where]
  BY TypeSplit DEF Reset, Where, InFlight
<1>2. ObjectsOK(blobs', clock') /\ UploadsOK(uploads', clock') /\ KeysOK(keys', clock')
  BY DEF Reset, ObjectsOK, UploadsOK, KeysOK, Empty
<1>3. /\ buckets' \subseteq Buckets /\ clock' \in Nat \ {0}
      /\ \A p \in DOMAIN blobs' : p[1] \in buckets'
      /\ versions' \subseteq Places \X Blob
  BY DEF Reset, Empty
<1> QED
  BY <1>1, <1>2, <1>3, TypeJoin

LEMMA StepType == TypeOK /\ [Next]_vars => TypeOK'
<1> SUFFICES ASSUME TypeOK, [Next]_vars PROVE TypeOK'
  OBVIOUS
<1>1. CASE UNCHANGED vars
  BY <1>1, TypeSplit, TypeJoin DEF vars, server
<1> QED
  BY <1>1, BucketType, ObjectsType, HmacKeysType, UploadType, ResetType DEF Next

(* Whatever mix of requests, losses and resets, every part of the store    *)
(* has its type, no session or key has a number yet to be drawn, and no    *)
(* object is in a bucket that does not exist.                              *)
THEOREM TypeCorrect == Spec => []TypeOK
<1>1. Init => TypeOK
  <2> SUFFICES ASSUME Init PROVE TypeOK
    OBVIOUS
  <2>1. Idle \in Where
    BY StorageAssumption DEF Idle, Where
  <2> QED
    BY <2>1, TypeSplit DEF Init, ObjectsOK, UploadsOK, KeysOK, Empty
<1> QED
  BY <1>1, StepType, PTL DEF Spec

------------------------------------------------------------------------------
(* Numbers are not shared *)

IdsUnique ==
  \A c, d \in Clients :
    Current(c) /\ Current(d) /\ client[c].id = client[d].id => c = d

IdsInv == IdsUnique /\ \A c \in Clients : DrawnId(c)

LEMMA ClientMoves ==
  ASSUME TypeOK, NEW c \in Clients
  PROVE  /\ Stops(c) => /\ client'[c] = Idle
                        /\ \A d \in Clients \ {c} : client'[d] = client[d]
         /\ AnswerLost(c) =>
              /\ client'[c].id = client[c].id /\ client'[c].stale = client[c].stale
              /\ client'[c].doubt = "answer"
              /\ \A d \in Clients \ {c} : client'[d] = client[d]
         /\ \A n : Continues(c, n) =>
              /\ client'[c].id = client[c].id /\ client'[c].stale = client[c].stale
              /\ client'[c].doubt = "none" /\ client'[c].sent = n
              /\ \A d \in Clients \ {c} : client'[d] = client[d]
<1>1. client \in [Clients -> Where]
  BY TypeSplit
<1> QED
  BY <1>1 DEF Stops, AnswerLost, Continues, Where

(* The clock goes back only when everything is forgotten. *)
LEMMA ClockGrows ==
  ASSUME TypeOK, Next, ~Reset
  PROVE  clock' \in Nat /\ clock <= clock'
<1>1. clock \in Nat
  BY TypeSplit
<1>2. ASSUME NEW p, NEW data, NEW meta, NEW clean, PutBlob(p, data, meta, clean)
      PROVE  clock' = clock + 1
  BY <1>2 DEF PutBlob, Tick
<1>3. ASSUME Objects PROVE clock' = clock \/ clock' = clock + 1
  <2>1. ASSUME NEW p \in Places, UploadObject(p) PROVE clock' = clock + 1
    BY <1>2, <2>1 DEF UploadObject
  <2>2. ASSUME NEW p \in Places, NEW q \in Places, CopyBlob(p, q)
        PROVE  clock' = clock + 1
    BY <1>2, <2>2 DEF CopyBlob
  <2>3. ASSUME NEW p \in Places, NEW meta \in Metas, PatchObject(p, meta)
        PROVE  clock' = clock
    BY <2>3 DEF PatchObject
  <2>4. ASSUME NEW p \in Places, DeleteBlob(p) PROVE clock' = clock
    BY <2>4 DEF DeleteBlob
  <2> QED
    BY <1>3, <2>1, <2>2, <2>3, <2>4 DEF Objects
<1>4. CASE HmacKeys
  BY <1>1, <1>4 DEF HmacKeys, CreateHmacKey, UpdateHmacKey, DeleteHmacKey, Tick
<1>5. ASSUME NEW c \in Clients, Upload(c) PROVE clock' = clock \/ clock' = clock + 1
  BY <1>1, <1>2, <1>5
  DEF Upload, StartResumable, PutChunk, PutLastChunk, AskWithTotal, Complete,
      Recover, GiveUp, RequestLost, Tick, server
<1>6. CASE \E b \in Buckets : CreateBucket(b) \/ DeleteBucket(b)
  BY <1>1, <1>6 DEF CreateBucket, DeleteBucket
<1> QED
  BY <1>1, <1>3, <1>4, <1>5, <1>6 DEF Next

(* A client whose upload goes on keeps its number. *)
LEMMA KeptNumbers ==
  ASSUME TypeOK, IdsInv, clock' \in Nat, clock <= clock', NEW c \in Clients,
         \A d \in Clients \ {c} : client'[d] = client[d],
         Current(c)' => client'[c].id = client[c].id /\ Current(c)
  PROVE  IdsInv'
<1>1. \A d \in Clients : Current(d)' => Current(d) /\ client'[d].id = client[d].id
  BY DEF Current, InFlight
<1>2. \A d \in Clients : client[d].id \in Nat
  BY DEF TypeOK
<1>3. clock \in Nat
  BY DEF TypeOK
<1> QED
  BY <1>1, <1>2, <1>3 DEF IdsInv, IdsUnique, DrawnId

LEMMA UploadIds ==
  ASSUME TypeOK, IdsInv, NEW c \in Clients, Upload(c), ~Reset
  PROVE  IdsInv'
<1>1. clock \in Nat /\ client \in [Clients -> Where]
  BY TypeSplit
<1>2. ASSUME NEW p \in Places, StartResumable(c, p) PROVE IdsInv'
  <2>1. /\ clock' = clock + 1
        /\ client' = [client EXCEPT ![c] = [Idle EXCEPT !.id = clock]]
    BY <1>2 DEF StartResumable, Tick
  <2>2. /\ client'[c].id = clock
        /\ \A d \in Clients \ {c} : client'[d] = client[d]
    BY <1>1, <2>1 DEF Idle
  <2>3. \A d \in Clients \ {c} : Current(d)' => Current(d) /\ client[d].id < clock
    BY <2>2 DEF IdsInv, DrawnId, Current, InFlight
  <2>4. \A d \in Clients : client[d].id \in Nat
    BY DEF TypeOK
  <2>5. \A d \in Clients : DrawnId(d)'
    BY <1>1, <2>1, <2>2, <2>3, <2>4 DEF DrawnId
  <2>6. IdsUnique'
    BY <1>1, <2>2, <2>3, <2>4 DEF IdsInv, IdsUnique
  <2> QED
    BY <2>5, <2>6 DEF IdsInv
<1>3. CASE \E n \in Nat : Stops(c) \/ AnswerLost(c) \/ Continues(c, n)
  <2>1. Current(c)' => client'[c].id = client[c].id /\ Current(c)
    BY <1>3, ClientMoves DEF Current, InFlight, Idle
  <2>2. \A d \in Clients \ {c} : client'[d] = client[d]
    BY <1>3, ClientMoves
  <2>3. clock' \in Nat /\ clock <= clock'
    BY ClockGrows DEF Next
  <2> QED
    BY <2>1, <2>2, <2>3, KeptNumbers
<1>4. CASE RequestLost(c)
  <2>1. /\ client'[c].id = client[c].id /\ client'[c].stale = client[c].stale
        /\ \A d \in Clients \ {c} : client'[d] = client[d] /\ clock' = clock
    BY <1>1, <1>4 DEF RequestLost, server, Where
  <2>2. Current(c)' => client'[c].id = client[c].id /\ Current(c)
    BY <2>1 DEF Current, InFlight
  <2>3. clock' \in Nat /\ clock <= clock'
    BY <1>1, <1>4 DEF RequestLost, server
  <2> QED
    BY <2>1, <2>2, <2>3, KeptNumbers
<1>5. CASE PutChunk(c) \/ Recover(c)
  <2>1. Len(Session(c).data) \in Nat /\ Len(Session(c).data \o Chunk(c)) \in Nat
    <3>1. Session(c).data \in Seq(Nat) /\ Chunk(c) \in Seq(Nat)
      BY <1>5, SessionFacts, ChunkFacts DEF PutChunk, Recover
    <3> QED
      BY <3>1, ConcatProperties, LenProperties
  <2>2. \E n \in Nat : Stops(c) \/ AnswerLost(c) \/ Continues(c, n)
    BY <1>5, <2>1, ToldFacts DEF PutChunk, Recover
  <2> QED
    BY <1>3, <2>2
<1>6. CASE PutLastChunk(c) \/ AskWithTotal(c) \/ GiveUp(c)
  BY <1>3, <1>6 DEF PutLastChunk, AskWithTotal, Complete, GiveUp
<1> QED
  BY <1>2, <1>4, <1>5, <1>6 DEF Upload

LEMMA StepIds == TypeOK /\ IdsInv /\ [Next]_vars => IdsInv'
<1> SUFFICES ASSUME TypeOK, IdsInv, [Next]_vars PROVE IdsInv'
  OBVIOUS
<1>1. CASE Reset
  <2>1. \A c \in Clients : ~ Current(c)'
    BY <1>1, TypeSplit DEF Reset, Current, InFlight, Where
  <2> QED
    BY <2>1 DEF IdsInv, IdsUnique, DrawnId
<1>2. CASE UNCHANGED client /\ clock' \in Nat /\ clock <= clock'
  <2>1. \A c \in Clients : client[c].id \in Nat /\ clock \in Nat
    BY DEF TypeOK
  <2> QED
    BY <1>2, <2>1 DEF IdsInv, IdsUnique, DrawnId, Current, InFlight
<1>3. CASE Objects \/ HmacKeys
  <2>1. UNCHANGED client
    BY <1>3 DEF Objects, UploadObject, CopyBlob, PatchObject, DeleteBlob,
       HmacKeys, CreateHmacKey, UpdateHmacKey, DeleteHmacKey
  <2> QED
    BY <1>1, <1>2, <1>3, <2>1, ClockGrows DEF Next
<1>4. CASE \E b \in Buckets : CreateBucket(b) \/ DeleteBucket(b)
  BY <1>2, <1>4, TypeSplit DEF CreateBucket, DeleteBucket
<1>5. CASE UNCHANGED vars
  BY <1>2, <1>5, TypeSplit DEF vars, server
<1> QED
  BY <1>1, <1>3, <1>4, <1>5, UploadIds DEF Next

LEMMA IdsHold == Spec => []IdsInv
<1>1. Init => IdsInv
  BY DEF Init, IdsInv, IdsUnique, DrawnId, Current, InFlight, Idle
<1> QED
  BY <1>1, StepIds, TypeCorrect, PTL DEF Spec
GenerationsApart ==
  \A p, q \in DOMAIN blobs : blobs[p].generation = blobs[q].generation => p = q

(* A new object: no object and no version had its generation before. *)
LEMMA PutBlobVersions ==
  ASSUME TypeOK, GenerationsApart, VersionInv,
         NEW p \in Places, NEW data \in Seq(Nat), NEW meta \in Metas,
         NEW clean \in BOOLEAN, PutBlob(p, data, meta, clean)
  PROVE  GenerationsApart' /\ VersionInv'
<1> DEFINE new == [data |-> data, meta |-> meta, generation |-> clock,
                   metageneration |-> 1, clean |-> clean]
<1>1. clock \in Nat /\ ObjectsOK(blobs, clock) /\ versions \subseteq Places \X Blob
  BY TypeSplit
<1>2. new.generation = clock /\ new.metageneration = 1
  OBVIOUS
<1> HIDE DEF new
<1>3. /\ clock' = clock + 1 /\ blobs' = With(blobs, p, new)
      /\ versions' = versions \union {<<p, new>>}
  BY DEF PutBlob, Tick, new
<1>4. /\ DOMAIN blobs' = DOMAIN blobs \union {p} /\ blobs'[p] = new
      /\ \A q \in DOMAIN blobs \ {p} : blobs'[q] = blobs[q]
  BY <1>3 DEF With
<1>5. \A q \in DOMAIN blobs : blobs[q].generation \in Nat /\ blobs[q].generation < clock
  BY <1>1 DEF ObjectsOK, Blob
<1>6. \A v \in versions : /\ v[2].generation \in Nat /\ v[2].generation < clock
                          /\ v = <<v[1], v[2]>>
  BY <1>1 DEF VersionInv, VersionsDrawn, Blob
<1>7. GenerationsApart'
  BY <1>1, <1>2, <1>4, <1>5 DEF GenerationsApart
<1>8. VersionNamesContent'
  BY <1>1, <1>2, <1>3, <1>6 DEF VersionInv, VersionNamesContent
<1>9. VersionsDrawn'
  BY <1>1, <1>2, <1>3, <1>6 DEF VersionsDrawn
<1>10. ObjectsLatest'
  <2>1. ASSUME NEW q \in DOMAIN blobs', NEW v \in versions', v[1] = q,
               v[2].generation = blobs'[q].generation
        PROVE  v[2].metageneration <= blobs'[q].metageneration
    <3>1. CASE q = p
      <4>1. v = <<p, new>>
        BY <1>1, <1>2, <1>3, <1>4, <1>6, <2>1, <3>1
      <4> QED
        BY <1>2, <1>4, <3>1, <4>1
    <3>2. CASE q # p
      <4>1. v \in versions /\ q \in DOMAIN blobs /\ blobs'[q] = blobs[q]
        BY <1>3, <1>4, <2>1, <3>2
      <4> QED
        BY <2>1, <4>1 DEF VersionInv, ObjectsLatest
    <3> QED
      BY <3>1, <3>2
  <2> QED
    BY <2>1 DEF ObjectsLatest
<1> QED
  BY <1>7, <1>8, <1>9, <1>10 DEF VersionInv

(* A patched object: the next metageneration of its generation. *)
LEMMA PatchVersions ==
  ASSUME TypeOK, GenerationsApart, VersionInv,
         NEW p \in Places, NEW meta \in Metas, PatchObject(p, meta)
  PROVE  GenerationsApart' /\ VersionInv'
<1> DEFINE new == [blobs[p] EXCEPT !.meta = meta, !.metageneration = NextMeta(@)]
<1>1. ObjectsOK(blobs, clock) /\ versions \subseteq Places \X Blob
  BY TypeSplit
<1>2. p \in DOMAIN blobs /\ blobs[p] \in Blob /\ blobs[p].generation < clock
  BY <1>1 DEF PatchObject, ObjectsOK
<1>3. /\ new.generation = blobs[p].generation
      /\ new.metageneration = blobs[p].metageneration + 1
      /\ blobs[p].metageneration \in Nat
  BY <1>2, PatchFacts DEF Blob
<1> HIDE DEF new
<1>4. /\ blobs' = [blobs EXCEPT ![p] = new] /\ clock' = clock
      /\ versions' = versions \union {<<p, new>>}
  BY DEF PatchObject, new
<1>5. GenerationsApart'
  BY <1>2, <1>3, <1>4 DEF GenerationsApart
<1>6. \A v \in versions : v[2].metageneration \in Nat /\ v = <<v[1], v[2]>>
  BY <1>1 DEF Blob
<1>7. \A v \in versions :
        v[1] = p /\ v[2].generation = new.generation =>
          v[2].metageneration < new.metageneration
  BY <1>2, <1>3, <1>6 DEF VersionInv, ObjectsLatest
<1>8. VersionNamesContent'
  BY <1>3, <1>4, <1>6, <1>7 DEF VersionInv, VersionNamesContent
<1>9. VersionsDrawn'
  BY <1>2, <1>3, <1>4 DEF VersionInv, VersionsDrawn
<1>10. ObjectsLatest'
  <2>1. ASSUME NEW q \in DOMAIN blobs', NEW v \in versions', v[1] = q,
               v[2].generation = blobs'[q].generation
        PROVE  v[2].metageneration <= blobs'[q].metageneration
    <3>1. CASE q = p
      <4>1. blobs'[q] = new
        BY <1>2, <1>4, <3>1
      <4>2. CASE v \in versions
        BY <1>3, <1>6, <1>7, <2>1, <3>1, <4>1, <4>2
      <4>3. CASE v = <<p, new>>
        BY <1>3, <4>1, <4>3
      <4> QED
        BY <1>4, <4>2, <4>3
    <3>2. CASE q # p
      <4>1. v \in versions /\ q \in DOMAIN blobs /\ blobs'[q] = blobs[q]
        BY <1>4, <2>1, <3>2
      <4> QED
        BY <2>1, <4>1 DEF VersionInv, ObjectsLatest
    <3> QED
      BY <3>1, <3>2
  <2> QED
    BY <2>1 DEF ObjectsLatest
<1> QED
  BY <1>5, <1>8, <1>9, <1>10 DEF VersionInv

LEMMA FewerObjects ==
  ASSUME GenerationsApart, VersionInv, clock' = clock, versions' = versions,
         DOMAIN blobs' \subseteq DOMAIN blobs,
         \A p \in DOMAIN blobs' : blobs'[p] = blobs[p]
  PROVE  GenerationsApart' /\ VersionInv'
  BY DEF GenerationsApart, VersionInv, VersionNamesContent, VersionsDrawn,
     ObjectsLatest

LEMMA SpentNumbers ==
  ASSUME TypeOK, GenerationsApart, VersionInv, clock' \in Nat, clock <= clock',
         UNCHANGED <<blobs, versions>>
  PROVE  GenerationsApart' /\ VersionInv'
<1>1. clock \in Nat /\ \A v \in versions : v[2].generation \in Nat
  BY DEF TypeOK, Blob
<1>2. VersionsDrawn'
  BY <1>1 DEF VersionInv, VersionsDrawn
<1> QED
  BY <1>2 DEF GenerationsApart, VersionInv, VersionNamesContent, ObjectsLatest

LEMMA StepVersions ==
  TypeOK /\ GenerationsApart /\ VersionInv /\ [Next]_vars =>
    GenerationsApart' /\ VersionInv'
<1> SUFFICES ASSUME TypeOK, GenerationsApart, VersionInv, [Next]_vars
             PROVE  GenerationsApart' /\ VersionInv'
  OBVIOUS
<1>1. CASE Reset
  BY <1>1 DEF Reset, Empty, GenerationsApart, VersionInv, VersionNamesContent,
     VersionsDrawn, ObjectsLatest
<1>2. ASSUME Next, ~Reset, UNCHANGED <<blobs, versions>>
      PROVE  GenerationsApart' /\ VersionInv'
  BY <1>2, SpentNumbers, ClockGrows
<1>3. ASSUME NEW p \in Places, UploadObject(p)
      PROVE  GenerationsApart' /\ VersionInv'
  <2>1. Small \in Seq(Nat) /\ NoMeta \in Metas
    BY StorageAssumption DEF Small
  <2> QED
    BY <1>3, <2>1, PutBlobVersions DEF UploadObject
<1>4. ASSUME NEW p \in Places, NEW q \in Places, CopyBlob(p, q)
      PROVE  GenerationsApart' /\ VersionInv'
  <2>1. blobs[p] \in Blob
    BY <1>4, TypeSplit DEF CopyBlob, ObjectsOK
  <2>2. /\ blobs[p].data \in Seq(Nat) /\ blobs[p].meta \in Metas
        /\ blobs[p].clean \in BOOLEAN
    BY <2>1 DEF Blob
  <2> QED
    BY <1>4, <2>2, PutBlobVersions DEF CopyBlob
<1>5. ASSUME NEW p \in Places, DeleteBlob(p)
      PROVE  GenerationsApart' /\ VersionInv'
  <2>1. /\ DOMAIN blobs' \subseteq DOMAIN blobs /\ clock' = clock
        /\ \A q \in DOMAIN blobs' : blobs'[q] = blobs[q]
        /\ versions' = versions
    BY <1>5 DEF DeleteBlob, Without
  <2> QED
    BY <2>1, FewerObjects
<1>6. ASSUME NEW c \in Clients, NEW data \in Seq(Nat), NEW clean \in BOOLEAN,
             Complete(c, data, clean)
      PROVE  GenerationsApart' /\ VersionInv'
  <2>1. CASE PutBlob(Session(c).place, data, NoMeta, clean)
    <3>1. Session(c).place \in Places /\ NoMeta \in Metas
      BY <1>6, SessionFacts, StorageAssumption DEF Complete
    <3> QED
      BY <1>6, <2>1, <3>1, PutBlobVersions
  <2>2. CASE UNCHANGED <<blobs, clock, versions>>
    BY <2>2, FewerObjects
  <2> QED
    BY <1>6, <2>1, <2>2 DEF Complete
<1>7. ASSUME NEW c \in Clients, PutLastChunk(c)
      PROVE  GenerationsApart' /\ VersionInv'
  <2>1. Found(c)
    BY <1>7 DEF PutLastChunk, Complete
  <2>2. /\ Session(c).data \o Chunk(c) \in Seq(Nat)
        /\ (Session(c).clean /\ Honest(c)) \in BOOLEAN
    BY <2>1, SessionFacts, ChunkFacts, ConcatProperties
  <2> QED
    BY <1>6, <1>7, <2>2 DEF PutLastChunk
<1>8. ASSUME NEW c \in Clients, AskWithTotal(c)
      PROVE  GenerationsApart' /\ VersionInv'
  <2>1. Session(c).data \in Seq(Nat)
    BY <1>8, SessionFacts DEF AskWithTotal, Complete
  <2> QED
    BY <1>6, <1>8, <2>1 DEF AskWithTotal
<1>9. ASSUME NEW c \in Clients, Upload(c), ~Reset
      PROVE  GenerationsApart' /\ VersionInv'
  <2>1. CASE PutLastChunk(c) \/ AskWithTotal(c)
    BY <1>7, <1>8, <2>1
  <2>2. CASE ~(PutLastChunk(c) \/ AskWithTotal(c))
    <3>1. UNCHANGED <<blobs, versions>>
      BY <1>9, <2>2 DEF Upload, StartResumable, PutChunk, Recover, GiveUp,
         RequestLost, server
    <3> QED
      BY <1>2, <1>9, <3>1 DEF Next
  <2> QED
    BY <2>1, <2>2
<1>10. CASE HmacKeys /\ ~Reset
  BY <1>2, <1>10 DEF Next, HmacKeys, CreateHmacKey, UpdateHmacKey, DeleteHmacKey
<1>11. CASE (\E b \in Buckets : CreateBucket(b) \/ DeleteBucket(b)) \/ UNCHANGED vars
  BY <1>11, FewerObjects DEF CreateBucket, DeleteBucket, vars, server
<1> QED
  BY <1>1, <1>3, <1>4, <1>5, <1>9, <1>10, <1>11, PatchVersions DEF Next, Objects
KeysApart == DOMAIN uploads \intersect DOMAIN keys = {}

LEMMA StepKeys == TypeOK /\ KeysApart /\ [Next]_vars => KeysApart'
<1> SUFFICES ASSUME TypeOK, KeysApart, [Next]_vars PROVE KeysApart'
  OBVIOUS
<1>1. DOMAIN uploads \subseteq 1..(clock - 1) /\ DOMAIN keys \subseteq 1..(clock - 1)
  BY DEF TypeOK
<1>2. clock \in Nat /\ clock \notin 1..(clock - 1)
  BY DEF TypeOK
<1>3. CASE CreateHmacKey
  BY <1>1, <1>2, <1>3 DEF CreateHmacKey, KeysApart, With
<1>4. ASSUME NEW c \in Clients, NEW p \in Places, StartResumable(c, p)
      PROVE  KeysApart'
  BY <1>1, <1>2, <1>4 DEF StartResumable, KeysApart, With
<1>5. ASSUME DOMAIN uploads' \subseteq DOMAIN uploads, DOMAIN keys' \subseteq DOMAIN keys
      PROVE  KeysApart'
  BY <1>5 DEF KeysApart
<1>6. ASSUME NEW c \in Clients, Upload(c), ~ \E p \in Places : StartResumable(c, p)
      PROVE  KeysApart'
  <2>1. keys' = keys
    BY <1>6 DEF Upload, PutChunk, PutLastChunk, AskWithTotal, Complete, Recover,
       GiveUp, RequestLost, server
  <2>2. DOMAIN uploads' \subseteq DOMAIN uploads
    BY <1>6 DEF Upload, PutChunk, PutLastChunk, AskWithTotal, Complete, Without,
       Recover, GiveUp, RequestLost, server
  <2> QED
    BY <1>5, <2>1, <2>2
<1>7. CASE HmacKeys /\ ~CreateHmacKey
  <2>1. uploads' = uploads /\ DOMAIN keys' \subseteq DOMAIN keys
    BY <1>7 DEF HmacKeys, UpdateHmacKey, DeleteHmacKey, Without
  <2> QED
    BY <1>5, <2>1
<1>8. CASE Objects
  BY <1>5, <1>8 DEF Objects, UploadObject, CopyBlob, PatchObject, DeleteBlob
<1>9. CASE (\E b \in Buckets : CreateBucket(b) \/ DeleteBucket(b)) \/ UNCHANGED vars
  BY <1>5, <1>9 DEF CreateBucket, DeleteBucket, vars, server
<1>10. CASE Reset
  BY <1>10 DEF Reset, KeysApart, Empty
<1> QED
  BY <1>3, <1>4, <1>6, <1>7, <1>8, <1>9, <1>10 DEF Next

LEMMA VersionsHold == Spec => [](GenerationsApart /\ VersionInv)
<1>1. Init => GenerationsApart /\ VersionInv
  BY DEF Init, Empty, GenerationsApart, VersionInv, VersionNamesContent,
     VersionsDrawn, ObjectsLatest
<1> QED
  BY <1>1, StepVersions, TypeCorrect, PTL DEF Spec

(* A generation and a metageneration of an object never come to stand for  *)
(* two contents, whether it is patched, replaced, or deleted with its      *)
(* bucket and uploaded again.                                              *)
THEOREM VersionsAreFinal == Spec => []VersionNamesContent
<1>1. GenerationsApart /\ VersionInv => VersionNamesContent
  BY DEF VersionInv
<1> QED
  BY <1>1, VersionsHold, PTL

(* What _tick gives out is given out once: uploads under way have sessions *)
(* of their own, objects generations of their own, and no HMAC key has the *)
(* number of a session.                                                    *)
THEOREM NumbersAreOwned == Spec => []NoSharedNumbers
<1>1. IdsInv /\ GenerationsApart /\ KeysApart => NoSharedNumbers
  BY DEF IdsInv, IdsUnique, GenerationsApart, KeysApart, NoSharedNumbers
<1>2. Init => KeysApart
  BY DEF Init, KeysApart, Empty
<1>3. Spec => []KeysApart
  BY <1>2, StepKeys, TypeCorrect, PTL DEF Spec
<1> QED
  BY <1>1, <1>3, IdsHold, VersionsHold, PTL

------------------------------------------------------------------------------
(* Objects are whole *)

SessionsInStep == CleanPrefix /\ \A c \in Clients : InStep(c)

(* What happens to the session of one client does not concern another. *)
LEMMA OtherClients ==
  ASSUME IdsInv, NEW c \in Clients, NEW d \in Clients, c # d,
         Current(c), Current(d)
  PROVE  client[c].id # client[d].id
  BY DEF IdsInv, IdsUnique

LEMMA StartInStep ==
  ASSUME TypeOK, IdsInv, SessionsInStep,
         NEW c \in Clients, NEW p \in Places, StartResumable(c, p)
  PROVE  SessionsInStep'
<1> DEFINE new == [place |-> p, data |-> <<>>, clean |-> TRUE]
<1>1. /\ clock \in Nat \ {0} /\ client \in [Clients -> Where]
      /\ clock \notin DOMAIN uploads
  BY TypeSplit DEF UploadsOK
<1>2. /\ client'[c].id = clock /\ client'[c].sent = 0
      /\ \A d \in Clients \ {c} : client'[d] = client[d]
  BY <1>1 DEF StartResumable, Idle
<1>3. new.data = <<>> /\ Prefix(new.data) /\ Len(new.data) = 0
  BY StorageAssumption DEF Prefix
<1> HIDE DEF new
<1>4. /\ DOMAIN uploads' = DOMAIN uploads \union {clock} /\ uploads'[clock] = new
      /\ \A u \in DOMAIN uploads : uploads'[u] = uploads[u]
  BY <1>1 DEF StartResumable, With, new
<1>5. CleanPrefix'
  BY <1>3, <1>4 DEF SessionsInStep, CleanPrefix
<1>6. InStep(c)'
  BY <1>2, <1>3, <1>4 DEF InStep, Session
<1>7. ASSUME NEW d \in Clients \ {c} PROVE InStep(d)'
  <2>1. Current(d)' => client[d].id # clock /\ Current(d)
    BY <1>1, <1>2 DEF IdsInv, DrawnId, Current, InFlight
  <2>2. ASSUME Current(d)', Found(d)' PROVE Found(d) /\ Session(d)' = Session(d)
    BY <1>2, <1>4, <2>1, <2>2 DEF Found, InFlight, Session
  <2> QED
    BY <1>2, <2>1, <2>2 DEF SessionsInStep, InStep
<1> QED
  BY <1>5, <1>6, <1>7 DEF SessionsInStep

LEMMA ChunkInStep ==
  ASSUME TypeOK, IdsInv, SessionsInStep, NEW c \in Clients, PutChunk(c)
  PROVE  SessionsInStep'
<1> DEFINE u        == client[c].id
           received == Session(c).data \o Chunk(c)
           told     == RangeEnd(Len(received)) + 1
           clean    == Session(c).clean /\ Honest(c)
<1>1. /\ Found(c) /\ u \in DOMAIN uploads /\ Session(c) = uploads[u]
      /\ uploads[u] \in [place : Places, data : Seq(Nat), clean : BOOLEAN]
      /\ Session(c).data \in Seq(Nat)
  BY SessionFacts DEF PutChunk, Session
<1>2. /\ DOMAIN uploads' = DOMAIN uploads
      /\ uploads'[u].data = received /\ uploads'[u].clean = clean
      /\ \A w \in DOMAIN uploads \ {u} : uploads'[w] = uploads[w]
  BY <1>1 DEF PutChunk
<1>3. ASSUME clean
      PROVE  Current(c) /\ Prefix(received) /\ Len(received) = Upto(c)
  <2>1. Current(c) /\ client[c].doubt # "answer"
    BY <1>1, <1>3 DEF Honest, Current, Found
  <2>2. Len(Session(c).data) = client[c].sent /\ Prefix(Session(c).data)
    BY <1>1, <1>3, <2>1 DEF SessionsInStep, CleanPrefix, InStep
  <2> QED
    BY <1>1, <2>1, <2>2, PrefixGrows
<1>4. CleanPrefix'
  BY <1>2, <1>3 DEF SessionsInStep, CleanPrefix
<1>5. \A d \in Clients \ {c} : client'[d] = client[d]
  BY ClientMoves DEF PutChunk
<1>6. ASSUME NEW d \in Clients \ {c} PROVE InStep(d)'
  <2>1. Current(d)' => Current(d)
    BY <1>5 DEF Current, InFlight
  <2>2. CASE client[d].id = u
    <3>1. Current(d) => ~clean
      BY <1>3, <2>2, OtherClients
    <3> QED
      BY <1>2, <1>5, <2>1, <2>2, <3>1 DEF InStep, Session
  <2>3. CASE client[d].id # u
    <3>1. Found(d)' => Found(d) /\ Session(d)' = Session(d)
      BY <1>2, <1>5, <2>3 DEF Found, InFlight, Session
    <3> QED
      BY <1>5, <2>1, <3>1 DEF SessionsInStep, InStep
  <2> QED
    BY <2>2, <2>3
<1>7. InStep(c)'
  <2>1. CASE Stops(c)
    BY <2>1, ClientMoves DEF InStep, Current, InFlight, Idle
  <2>2. CASE AnswerLost(c)
    BY <2>2, ClientMoves DEF InStep
  <2>3. CASE told = Upto(c) /\ Continues(c, told)
    BY <1>2, <1>3, <2>3, ClientMoves DEF InStep, Session
  <2> QED
    BY <2>1, <2>2, <2>3 DEF PutChunk
<1> QED
  BY <1>4, <1>6, <1>7 DEF SessionsInStep

LEMMA CompleteInStep ==
  ASSUME TypeOK, SessionsInStep, NEW c \in Clients, NEW data, NEW clean,
         Complete(c, data, clean)
  PROVE  SessionsInStep'
<1> DEFINE u == client[c].id
<1>1. /\ DOMAIN uploads' = DOMAIN uploads \ {u}
      /\ \A w \in DOMAIN uploads' : uploads'[w] = uploads[w]
  BY DEF Complete, Without
<1>2. /\ \A d \in Clients \ {c} : client'[d] = client[d]
      /\ client'[c].id \in {0, u}
  BY ClientMoves DEF Complete, Idle
<1>3. CleanPrefix'
  BY <1>1 DEF SessionsInStep, CleanPrefix
<1>4. InStep(c)'
  BY <1>1, <1>2 DEF InStep, Found, InFlight
<1>5. ASSUME NEW d \in Clients \ {c} PROVE InStep(d)'
  <2>1. Current(d)' => Current(d)
    BY <1>2 DEF Current, InFlight
  <2>2. Found(d)' => Found(d) /\ Session(d)' = Session(d)
    BY <1>1, <1>2 DEF Found, InFlight, Session
  <2> QED
    BY <1>2, <2>1, <2>2 DEF SessionsInStep, InStep
<1> QED
  BY <1>3, <1>4, <1>5 DEF SessionsInStep

LEMMA RecoverInStep ==
  ASSUME TypeOK, SessionsInStep, NEW c \in Clients, Recover(c)
  PROVE  SessionsInStep'
<1> DEFINE u    == client[c].id
           told == RangeEnd(Len(Session(c).data)) + 1
<1>1. /\ Found(c) /\ u \in DOMAIN uploads /\ Session(c) = uploads[u]
      /\ uploads[u] \in [place : Places, data : Seq(Nat), clean : BOOLEAN]
      /\ Session(c).data \in Seq(Nat)
  BY SessionFacts DEF Recover, Session
<1>2. /\ DOMAIN uploads' = DOMAIN uploads
      /\ \A w \in DOMAIN uploads :
           /\ uploads'[w].data = uploads[w].data
           /\ uploads'[w].clean => uploads[w].clean
      /\ uploads'[u].clean => uploads[u].data # <<>>
  BY <1>1 DEF Recover
<1>3. CleanPrefix'
  BY <1>2 DEF SessionsInStep, CleanPrefix
<1>4. \A d \in Clients \ {c} : client'[d] = client[d]
  BY ClientMoves DEF Recover
<1>5. ASSUME NEW d \in Clients \ {c} PROVE InStep(d)'
  <2>1. Current(d)' => Current(d)
    BY <1>4 DEF Current, InFlight
  <2>2. Found(d)' => Found(d) /\ Session(d)'.data = Session(d).data
                     /\ (Session(d)'.clean => Session(d).clean)
    BY <1>2, <1>4 DEF Found, InFlight, Session
  <2> QED
    BY <1>4, <2>1, <2>2 DEF SessionsInStep, InStep
<1>6. InStep(c)'
  <2>1. CASE Stops(c)
    BY <2>1, ClientMoves DEF InStep, Current, InFlight, Idle
  <2>2. CASE Continues(c, told)
    <3>1. client'[c].id = u /\ client'[c].sent = told
      BY <2>2, ClientMoves
    <3>2. ASSUME uploads'[u].clean PROVE told = Len(uploads'[u].data)
      <4>1. Len(Session(c).data) \in Nat /\ Len(Session(c).data) # 0
        BY <1>1, <1>2, <3>2, LenProperties, EmptySeq
      <4> QED
        BY <1>1, <1>2, <4>1, ToldFacts
    <3> QED
      BY <3>1, <3>2 DEF InStep, Session
  <2> QED
    BY <2>1, <2>2 DEF Recover
<1> QED
  BY <1>3, <1>5, <1>6 DEF SessionsInStep

LEMMA StepInStep ==
  TypeOK /\ IdsInv /\ SessionsInStep /\ [Next]_vars => SessionsInStep'
<1> SUFFICES ASSUME TypeOK, IdsInv, SessionsInStep, [Next]_vars
             PROVE  SessionsInStep'
  OBVIOUS
<1>1. CASE UNCHANGED <<uploads, client>>
  BY <1>1 DEF SessionsInStep, CleanPrefix, InStep, Current, Found, InFlight, Session
<1>2. CASE Reset
  <2>1. /\ DOMAIN uploads' = {}
        /\ \A c \in Clients : ~ Found(c)'
    BY <1>2 DEF Reset, Empty, Found
  <2> QED
    BY <2>1 DEF SessionsInStep, CleanPrefix, InStep
<1>3. ASSUME NEW c \in Clients, GiveUp(c) PROVE SessionsInStep'
  <2>1. /\ client'[c] = Idle /\ uploads' = uploads
        /\ \A d \in Clients \ {c} : client'[d] = client[d]
    BY <1>3, ClientMoves DEF GiveUp, server
  <2>2. InStep(c)'
    BY <2>1 DEF InStep, Current, InFlight, Idle
  <2> QED
    BY <2>1, <2>2 DEF SessionsInStep, CleanPrefix, InStep, Current, Found, InFlight,
       Session
<1>4. ASSUME NEW c \in Clients, RequestLost(c) PROVE SessionsInStep'
  <2>1. client \in [Clients -> Where]
    BY TypeSplit
  <2>2. /\ client'[c].id = client[c].id /\ client'[c].stale = client[c].stale
        /\ client'[c].sent = client[c].sent /\ uploads' = uploads
        /\ client[c].doubt = "none"
        /\ \A d \in Clients \ {c} : client'[d] = client[d]
    BY <1>4, <2>1 DEF RequestLost, server, Where
  <2>3. InStep(c)'
    BY <2>2 DEF SessionsInStep, InStep, Current, Found, InFlight, Session
  <2> QED
    BY <2>2, <2>3 DEF SessionsInStep, CleanPrefix, InStep, Current, Found, InFlight,
       Session
<1>5. ASSUME NEW c \in Clients, Upload(c) PROVE SessionsInStep'
  BY <1>3, <1>4, <1>5, StartInStep, ChunkInStep, CompleteInStep, RecoverInStep
  DEF Upload, PutLastChunk, AskWithTotal
<1>6. CASE Objects \/ HmacKeys
  BY <1>1, <1>6 DEF Objects, UploadObject, CopyBlob, PatchObject, DeleteBlob,
     HmacKeys, CreateHmacKey, UpdateHmacKey, DeleteHmacKey
<1>7. CASE (\E b \in Buckets : CreateBucket(b) \/ DeleteBucket(b)) \/ UNCHANGED vars
  BY <1>1, <1>7 DEF CreateBucket, DeleteBucket, vars, server
<1> QED
  BY <1>2, <1>5, <1>6, <1>7 DEF Next

LEMMA SessionsHold == Spec => []SessionsInStep
<1>1. Init => SessionsInStep
  BY DEF Init, SessionsInStep, CleanPrefix, InStep, Found, Empty
<1> QED
  BY <1>1, StepInStep, TypeCorrect, IdsHold, PTL DEF Spec

(* The last chunk of a clean upload completes the file. *)
LEMMA LastChunk ==
  ASSUME TypeOK, SessionsInStep, NEW c \in Clients, PutLastChunk(c),
         Session(c).clean, Honest(c)
  PROVE  Session(c).data \o Chunk(c) = File
<1>1. Found(c) /\ IsFinal(Upto(c))
  BY DEF PutLastChunk, Complete
<1>2. Current(c) /\ client[c].doubt # "answer" /\ client[c].id \in DOMAIN uploads
  BY <1>1 DEF Honest, Current, Found
<1>3. Len(Session(c).data) = client[c].sent /\ Prefix(Session(c).data)
  BY <1>1, <1>2 DEF SessionsInStep, CleanPrefix, InStep, Session
<1>4. Session(c).data \in Seq(Nat) /\ Chunk(c) \in Seq(Nat)
  BY <1>1, SessionFacts, ChunkFacts
<1>5. /\ Prefix(Session(c).data \o Chunk(c))
      /\ Len(Session(c).data \o Chunk(c)) = Upto(c)
      /\ Session(c).data \o Chunk(c) \in Seq(Nat)
  BY <1>3, <1>4, PrefixGrows, ConcatProperties
<1>6. Upto(c) = FileLen
  BY <1>1, ChunkFacts, StorageAssumption DEF IsFinal
<1> QED
  BY <1>5, <1>6, WholeFile

(* What a step does to the objects: nothing, a whole new one, a patch, or  *)
(* one of them goes.                                                       *)
WholePut(p, data, meta, clean) ==
  PutBlob(p, data, meta, clean) /\ (clean => data \in {Small, File})

ObjectStep ==
  \/ blobs' = blobs /\ clock <= clock'
  \/ \E p \in Places, data \in Seq(Nat), meta \in Metas, clean \in BOOLEAN :
       WholePut(p, data, meta, clean)
  \/ \E p \in Places, meta \in Metas : PatchObject(p, meta)
  \/ \E p \in Places : DeleteBlob(p)

LEMMA StepsOfObjects ==
  ASSUME TypeOK, SessionsInStep, WholeObjects, Next, ~Reset
  PROVE  ObjectStep
<1>1. ASSUME NEW p \in Places, UploadObject(p) PROVE ObjectStep
  <2>1. Small \in Seq(Nat) /\ NoMeta \in Metas
    BY StorageAssumption DEF Small
  <2>2. WholePut(p, Small, NoMeta, TRUE)
    BY <1>1 DEF UploadObject, WholePut
  <2> QED
    BY <2>1, <2>2 DEF ObjectStep
<1>2. ASSUME NEW p \in Places, NEW q \in Places, CopyBlob(p, q) PROVE ObjectStep
  <2>1. p \in DOMAIN blobs /\ blobs[p] \in Blob
    BY <1>2, TypeSplit DEF CopyBlob, ObjectsOK
  <2>2. /\ blobs[p].data \in Seq(Nat) /\ blobs[p].meta \in Metas
        /\ blobs[p].clean \in BOOLEAN
    BY <2>1 DEF Blob
  <2>3. WholePut(q, blobs[p].data, blobs[p].meta, blobs[p].clean)
    BY <1>2, <2>1 DEF CopyBlob, WholePut, WholeObjects
  <2> QED
    BY <2>2, <2>3 DEF ObjectStep
<1>3. ASSUME NEW c \in Clients, NEW data \in Seq(Nat), NEW clean \in BOOLEAN,
             Complete(c, data, clean), clean => data \in {Small, File}
      PROVE  ObjectStep
  <2>1. CASE PutBlob(Session(c).place, data, NoMeta, clean)
    <3>1. Session(c).place \in Places /\ NoMeta \in Metas
      BY <1>3, SessionFacts, StorageAssumption DEF Complete
    <3>2. WholePut(Session(c).place, data, NoMeta, clean)
      BY <1>3, <2>1 DEF WholePut
    <3> QED
      BY <3>1, <3>2 DEF ObjectStep
  <2>2. CASE UNCHANGED <<blobs, clock, versions>>
    BY <2>2, TypeSplit DEF ObjectStep
  <2> QED
    BY <1>3, <2>1, <2>2 DEF Complete
<1>4. ASSUME NEW c \in Clients, PutLastChunk(c) PROVE ObjectStep
  <2> DEFINE data  == Session(c).data \o Chunk(c)
             clean == Session(c).clean /\ Honest(c)
  <2>1. Found(c) /\ Complete(c, data, clean)
    BY <1>4 DEF PutLastChunk, Complete
  <2>2. data \in Seq(Nat) /\ clean \in BOOLEAN
    BY <2>1, SessionFacts, ChunkFacts, ConcatProperties
  <2>3. clean => data \in {Small, File}
    BY <1>4, LastChunk
  <2> HIDE DEF data, clean
  <2> QED
    BY <1>3, <2>1, <2>2, <2>3
<1>5. ASSUME NEW c \in Clients, AskWithTotal(c) PROVE ObjectStep
  <2>1. Session(c).data \in Seq(Nat) /\ Complete(c, Session(c).data, FALSE)
    BY <1>5, SessionFacts DEF AskWithTotal, Complete
  <2> QED
    BY <1>3, <2>1
<1>6. ASSUME blobs' = blobs PROVE ObjectStep
  BY <1>6, ClockGrows DEF ObjectStep
<1>7. ASSUME NEW c \in Clients, Upload(c) PROVE ObjectStep
  <2>1. CASE PutLastChunk(c) \/ AskWithTotal(c)
    BY <1>4, <1>5, <2>1
  <2>2. CASE ~(PutLastChunk(c) \/ AskWithTotal(c))
    <3>1. blobs' = blobs
      BY <1>7, <2>2 DEF Upload, StartResumable, PutChunk, Recover, GiveUp,
         RequestLost, server
    <3> QED
      BY <1>6, <3>1
  <2> QED
    BY <2>1, <2>2
<1>8. CASE HmacKeys \/ \E b \in Buckets : CreateBucket(b) \/ DeleteBucket(b)
  BY <1>6, <1>8 DEF HmacKeys, CreateHmacKey, UpdateHmacKey, DeleteHmacKey,
     CreateBucket, DeleteBucket
<1>9. CASE Objects
  BY <1>1, <1>2, <1>9 DEF Objects, ObjectStep
<1> QED
  BY <1>7, <1>8, <1>9 DEF Next

LEMMA StepWhole ==
  TypeOK /\ SessionsInStep /\ WholeObjects /\ [Next]_vars => WholeObjects'
<1> SUFFICES ASSUME TypeOK, SessionsInStep, WholeObjects, [Next]_vars
             PROVE  WholeObjects'
  OBVIOUS
<1>1. ASSUME NEW p \in Places, NEW data \in Seq(Nat), NEW meta \in Metas,
             NEW clean \in BOOLEAN, WholePut(p, data, meta, clean)
      PROVE  WholeObjects'
  <2>1. /\ blobs'[p].clean = clean /\ blobs'[p].data = data
        /\ DOMAIN blobs' = DOMAIN blobs \union {p}
        /\ \A q \in DOMAIN blobs \ {p} : blobs'[q] = blobs[q]
    BY <1>1 DEF WholePut, PutBlob, With
  <2>2. \A q \in DOMAIN blobs' \ {p} : q \in DOMAIN blobs /\ blobs'[q] = blobs[q]
    BY <2>1
  <2> QED
    BY <1>1, <2>1, <2>2 DEF WholePut, WholeObjects
<1>2. ASSUME NEW p \in Places, NEW meta \in Metas, PatchObject(p, meta)
      PROVE  WholeObjects'
  <2>1. p \in DOMAIN blobs /\ blobs[p] \in Blob
    BY <1>2, TypeSplit DEF PatchObject, ObjectsOK
  <2>2. /\ DOMAIN blobs' = DOMAIN blobs
        /\ blobs'[p].data = blobs[p].data /\ blobs'[p].clean = blobs[p].clean
        /\ \A q \in DOMAIN blobs \ {p} : blobs'[q] = blobs[q]
    BY <1>2, <2>1, PatchFacts DEF PatchObject
  <2> QED
    BY <2>1, <2>2 DEF WholeObjects
<1>3. ASSUME NEW p \in Places, DeleteBlob(p) PROVE WholeObjects'
  BY <1>3 DEF DeleteBlob, Without, WholeObjects
<1>4. CASE blobs' = blobs
  BY <1>4 DEF WholeObjects
<1>5. CASE Reset
  BY <1>5 DEF Reset, Empty, WholeObjects
<1> QED
  BY <1>1, <1>2, <1>3, <1>4, <1>5, StepsOfObjects DEF ObjectStep, vars, server

(* An object whose client was told the truth and sent no chunk twice is    *)
(* the whole file, for any file and chunk, any mix of lost requests and    *)
(* answers, other clients, and buckets that come and go meanwhile.         *)
THEOREM ObjectsAreWhole == Spec => []WholeObjects
<1>1. Init => WholeObjects
  BY DEF Init, Empty, WholeObjects
<1> QED
  BY <1>1, StepWhole, TypeCorrect, SessionsHold, PTL DEF Spec

------------------------------------------------------------------------------
(* The backend implements ObjectStore *)

View(blob) == [data |-> IF blob.clean THEN blob.data ELSE Damaged,
               generation |-> blob.generation,
               metageneration |-> blob.metageneration]

AllObjects == [p \in DOMAIN blobs |-> View(blobs[p])]

LEMMA PutRefines ==
  ASSUME TypeOK, NEW p \in Places, NEW data \in Seq(Nat), NEW meta \in Metas,
         NEW clean \in BOOLEAN, WholePut(p, data, meta, clean)
  PROVE  Store!Store
<1> DEFINE new == [data |-> data, meta |-> meta, generation |-> clock,
                   metageneration |-> 1, clean |-> clean]
           d   == IF clean THEN data ELSE Damaged
<1>1. clock \in Nat
  BY TypeSplit
<1>2. clock' = clock + 1 /\ blobs' = With(blobs, p, new)
  BY DEF WholePut, PutBlob, Tick
<1>3. View(new) = [data |-> d, generation |-> clock, metageneration |-> 1]
  BY DEF View
<1>4. d \in {Small, File, Damaged}
  BY DEF WholePut
<1> HIDE DEF new, d
<1>5. /\ DOMAIN blobs' = DOMAIN blobs \union {p} /\ blobs'[p] = new
      /\ \A q \in DOMAIN blobs \ {p} : blobs'[q] = blobs[q]
  BY <1>2 DEF With
<1>6. AllObjects' = [q \in DOMAIN AllObjects \union {p} |->
                       IF q = p THEN [data |-> d, generation |-> clock,
                                      metageneration |-> 1]
                                ELSE AllObjects[q]]
  <2>1. AllObjects' = [q \in DOMAIN blobs \union {p} |-> View(blobs'[q])]
    BY <1>5 DEF AllObjects
  <2>2. \A q \in DOMAIN blobs \ {p} : View(blobs'[q]) = AllObjects[q]
    BY <1>5 DEF AllObjects
  <2>3. DOMAIN AllObjects = DOMAIN blobs
    BY DEF AllObjects
  <2>4. View(blobs'[p]) = [data |-> d, generation |-> clock, metageneration |-> 1]
    BY <1>3, <1>5
  <2> QED
    BY <2>1, <2>2, <2>3, <2>4
<1>7. /\ clock \in clock..(clock' - 1) /\ clock' \in Nat /\ clock' > clock
  BY <1>1, <1>2
<1> QED
  BY <1>4, <1>6, <1>7 DEF Store!Store, AllObjects, View

LEMMA PatchRefines ==
  ASSUME TypeOK, NEW p \in Places, NEW meta \in Metas, PatchObject(p, meta)
  PROVE  Store!Touch
<1>1. p \in DOMAIN blobs /\ blobs[p] \in Blob
  BY TypeSplit DEF PatchObject, ObjectsOK
<1> DEFINE new == [blobs[p] EXCEPT !.meta = meta, !.metageneration = NextMeta(@)]
<1>2. /\ new.data = blobs[p].data /\ new.clean = blobs[p].clean
      /\ new.generation = blobs[p].generation
      /\ new.metageneration = blobs[p].metageneration + 1
  BY <1>1, PatchFacts
<1>3. clock' = clock /\ blobs' = [blobs EXCEPT ![p] = new]
  BY DEF PatchObject
<1> HIDE DEF new
<1>4. View(new) = [View(blobs[p]) EXCEPT !.metageneration = @ + 1]
  <2>1. View(new) = [data |-> IF blobs[p].clean THEN blobs[p].data ELSE Damaged,
                     generation |-> blobs[p].generation,
                     metageneration |-> blobs[p].metageneration + 1]
    BY <1>2 DEF View
  <2> QED
    BY <2>1 DEF View
<1>5. AllObjects' = [AllObjects EXCEPT ![p].metageneration = @ + 1]
  BY <1>1, <1>3, <1>4 DEF AllObjects
<1>6. p \in DOMAIN AllObjects
  BY <1>1 DEF AllObjects
<1> QED
  BY <1>3, <1>5, <1>6 DEF Store!Touch, AllObjects, View

LEMMA DeleteRefines ==
  ASSUME NEW p \in Places, DeleteBlob(p)
  PROVE  Store!Remove
<1>1. /\ DOMAIN blobs' = DOMAIN blobs \ {p} /\ clock' = clock /\ p \in DOMAIN blobs
      /\ \A q \in DOMAIN blobs \ {p} : blobs'[q] = blobs[q]
  BY DEF DeleteBlob, Without
<1>2. AllObjects' = [q \in DOMAIN AllObjects \ {p} |-> AllObjects[q]]
  BY <1>1 DEF AllObjects
<1>3. p \in DOMAIN AllObjects
  BY <1>1 DEF AllObjects
<1> QED
  BY <1>1, <1>2, <1>3 DEF Store!Remove, AllObjects, View

LEMMA StoreStep ==
  TypeOK /\ SessionsInStep /\ WholeObjects /\ [Next]_vars =>
    [Store!Next]_(Store!storeVars)
<1> SUFFICES ASSUME TypeOK, SessionsInStep, WholeObjects, [Next]_vars
             PROVE  Store!Next \/ UNCHANGED Store!storeVars
  OBVIOUS
<1>1. CASE Reset
  BY <1>1 DEF Reset, Empty, Store!Forget, Store!Next
<1>2. CASE Next /\ blobs' = blobs /\ ~Reset
  BY <1>2, ClockGrows DEF Store!Spend, Store!Next
<1>3. CASE UNCHANGED vars
  BY <1>3 DEF vars, server, Store!storeVars
<1> QED
  BY <1>1, <1>2, <1>3, StepsOfObjects, PutRefines, PatchRefines, DeleteRefines
  DEF ObjectStep, Store!Next

(* For any buckets, names, clients and file the backend is an object       *)
(* store: an object appears whole and at once under a new generation,      *)
(* changes under a new metageneration and goes one at a time.              *)
THEOREM BackendIsStore == Spec => ImplementsStore
<1>1. Init => Store!Init
  BY DEF Init, Empty, Store!Init
<1> QED
  BY <1>1, StoreStep, TypeCorrect, SessionsHold, ObjectsAreWhole, PTL
  DEF Spec, ImplementsStore, Store!Spec
==============================================================================
