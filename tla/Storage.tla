------------------------------- MODULE Storage -------------------------------
(***************************************************************************)
(* Cloud Storage: StorageBackend of services/storage/models.py and the     *)
(* handlers of responses.py, one action per request.  In the process a     *)
(* test's calls follow one another; in the standalone server they are      *)
(* serialised (Server), so a request is atomic, but it or its answer may   *)
(* be lost on the way.                                                     *)
(*                                                                         *)
(* The bytes of an object are a sequence of numbers.  The client of a      *)
(* resumable upload is the one of google-cloud-storage: it sends the file  *)
(* chunk by chunk, stops when the Range of a 308 answer is not what it has *)
(* sent, and after a failure sends the chunk again or asks what arrived.   *)
(***************************************************************************)
EXTENDS Naturals, Sequences

CONSTANTS
  Buckets, Names,
  Metas,          \* values of an object's metadata
  NoMeta,         \* the metadata of an upload that gives none
  Clients,        \* clients of resumable uploads
  FileLen,        \* bytes of the file they upload
  ChunkLen,       \* bytes of a chunk, the last one excepted
  MaxClock,       \* bound: numbers drawn from _tick
  MaxMeta,        \* bound: metageneration of an object
  MaxReceived     \* bound: bytes received in an upload session

ASSUME StorageAssumption ==
  /\ FileLen \in Nat \ {0} /\ ChunkLen \in Nat \ {0}
  /\ MaxClock \in Nat /\ MaxMeta \in Nat /\ MaxReceived \in Nat
  /\ NoMeta \in Metas

File   == [k \in 1..FileLen |-> k]    \* what a resumable upload sends
Small  == <<0>>                       \* what a simple upload sends
Places == Buckets \X Names

VARIABLES
  buckets,        \* keys of backend.buckets
  blobs,          \* Bucket.blobs of all buckets: place -> blob
  uploads,        \* backend.resumable_uploads: upload id -> session
  keys,           \* backend.hmac_keys: access id -> state
  clock,          \* backend._clock
  client,         \* where each uploading client is
  versions        \* ghost: every <<place, blob>> since the last reset

(* Blobs and sessions carry a ghost: clean says that the bytes come from a *)
(* client that was told the truth and did not send a chunk twice.          *)
server == <<buckets, blobs, uploads, keys, clock>>
vars   == <<server, client, versions>>

With(f, x, v) == [y \in DOMAIN f \union {x} |-> IF y = x THEN v ELSE f[y]]
Without(f, x) == [y \in DOMAIN f \ {x} |-> f[y]]
Empty         == [x \in {} |-> 0]
MinOf(a, b)   == IF a <= b THEN a ELSE b

(* doubt (ghost) says what was lost since the last answer. *)
Idle == [id |-> 0, sent |-> 0, doubt |-> "none", stale |-> FALSE]

Init ==
  /\ buckets = {} /\ blobs = Empty /\ uploads = Empty /\ keys = Empty
  /\ clock = 1
  /\ client = [c \in Clients |-> Idle]
  /\ versions = {}

(* _tick *)
Peek == clock <= MaxClock /\ clock' = clock          \* mutant
Tick == clock <= MaxClock /\ clock' = clock + 1

(* put_blob, after get_bucket *)
PutBlob(p, data, meta, clean) ==
  LET blob == [data |-> data, meta |-> meta, generation |-> clock,
               metageneration |-> 1, clean |-> clean]
  IN /\ p[1] \in buckets
     /\ Tick
     /\ blobs' = With(blobs, p, blob)
     /\ versions' = versions \union {<<p, blob>>}

------------------------------------------------------------------------------
CreateBucket(b) ==
  /\ b \notin buckets
  /\ buckets' = buckets \union {b}
  /\ UNCHANGED <<blobs, uploads, keys, clock, client, versions>>

ForceDelete(b) ==                     \* mutant
  /\ b \in buckets
  /\ buckets' = buckets \ {b}
  /\ blobs' = [p \in {q \in DOMAIN blobs : q[1] # b} |-> blobs[p]]
  /\ UNCHANGED <<uploads, keys, clock, client, versions>>

(* Upload sessions into the bucket stay. *)
DeleteBucket(b) ==
  /\ b \in buckets
  /\ \A p \in DOMAIN blobs : p[1] # b
  /\ buckets' = buckets \ {b}
  /\ UNCHANGED <<blobs, uploads, keys, clock, client, versions>>

(* uploadType media or multipart; metadata given here is as good as patched *)
UploadObject(p) ==
  /\ PutBlob(p, Small, NoMeta, TRUE)
  /\ UNCHANGED <<buckets, uploads, keys, client>>

(* copy and rewrite; place q may be p itself *)
CopyBlob(p, q) ==
  /\ p \in DOMAIN blobs
  /\ PutBlob(q, blobs[p].data, blobs[p].meta, blobs[p].clean)
  /\ UNCHANGED <<buckets, uploads, keys, client>>

SameMeta(m) == m                      \* mutant
NextMeta(m) == m + 1

PatchObject(p, meta) ==
  LET new == [blobs[p] EXCEPT !.meta = meta, !.metageneration = NextMeta(@)]
  IN /\ p \in DOMAIN blobs /\ blobs[p].metageneration < MaxMeta
     /\ blobs' = [blobs EXCEPT ![p] = new]
     /\ versions' = versions \union {<<p, new>>}
     /\ UNCHANGED <<buckets, uploads, keys, clock, client>>

DeleteBlob(p) ==
  /\ p \in DOMAIN blobs
  /\ blobs' = Without(blobs, p)
  /\ UNCHANGED <<buckets, uploads, keys, clock, client, versions>>

------------------------------------------------------------------------------
CreateHmacKey ==
  /\ Tick
  /\ keys' = With(keys, clock, "ACTIVE")
  /\ UNCHANGED <<buckets, blobs, uploads, client, versions>>

(* Any state is accepted; the body's default is ACTIVE. *)
UpdateHmacKey(k, st) ==
  /\ k \in DOMAIN keys
  /\ keys' = [keys EXCEPT ![k] = st]
  /\ UNCHANGED <<buckets, blobs, uploads, clock, client, versions>>

DeleteHmacKey(k) ==
  /\ k \in DOMAIN keys /\ keys[k] = "INACTIVE"
  /\ keys' = Without(keys, k)
  /\ UNCHANGED <<buckets, blobs, uploads, clock, client, versions>>

------------------------------------------------------------------------------
InFlight(c) == client[c].id # 0
Found(c)    == InFlight(c) /\ client[c].id \in DOMAIN uploads
Session(c)  == uploads[client[c].id]

(* The bucket need not exist. *)
StartResumable(c, p) ==
  /\ ~ InFlight(c)
  /\ Tick
  /\ uploads' = With(uploads, clock, [place |-> p, data |-> <<>>, clean |-> TRUE])
  /\ client' = [client EXCEPT ![c] = [Idle EXCEPT !.id = clock]]
  /\ UNCHANGED <<buckets, blobs, keys, versions>>

(* The chunk a client sends, or sends again. *)
Upto(c)  == MinOf(client[c].sent + ChunkLen, FileLen)
Chunk(c) == SubSeq(File, client[c].sent + 1, Upto(c))

(* end + 1 >= total *)
EndsEarly(n) == n + 1 >= FileLen      \* mutant
IsFinal(n)   == n >= FileLen

(* The last byte a 308 answer names when n were received. *)
RangeLen(n) == n                      \* mutant
RangeEnd(n) == IF n = 0 THEN 0 ELSE n - 1

(* Ghost: the session's next byte is the one the client sends next. *)
Honest(c) == client[c].doubt # "answer" /\ ~ client[c].stale

AnswerLost(c)  == client' = [client EXCEPT ![c].doubt = "answer"]
Stops(c)       == client' = [client EXCEPT ![c] = Idle]
Continues(c, n) ==
  client' = [client EXCEPT ![c].sent = n, ![c].doubt = "none"]

(* A chunk that is not the last is appended, wherever it says it belongs;  *)
(* the client compares the answer with what it has sent.                   *)
PutChunk(c) ==
  LET received == Session(c).data \o Chunk(c)
      told     == RangeEnd(Len(received)) + 1
  IN /\ Found(c) /\ ~ IsFinal(Upto(c))
     /\ Len(received) <= MaxReceived
     /\ uploads' = [uploads EXCEPT ![client[c].id].data = received,
                                   ![client[c].id].clean = @ /\ Honest(c)]
     /\ \/ told = Upto(c) /\ Continues(c, told)
        \/ told # Upto(c) /\ Stops(c)
        \/ AnswerLost(c)
     /\ UNCHANGED <<buckets, blobs, keys, clock, versions>>

(* The session is gone before put_blob looks for the bucket. *)
Complete(c, data, clean) ==
  /\ Found(c)
  /\ uploads' = Without(uploads, client[c].id)
  /\ \/ PutBlob(Session(c).place, data, NoMeta, clean)
     \/ /\ Session(c).place[1] \notin buckets
        /\ UNCHANGED <<blobs, clock, versions>>
  /\ Stops(c) \/ AnswerLost(c)
  /\ UNCHANGED <<buckets, keys>>

PutLastChunk(c) ==
  /\ IsFinal(Upto(c))
  /\ Complete(c, Session(c).data \o Chunk(c), Session(c).clean /\ Honest(c))

(* "bytes */N" asks what has arrived, but passes for the last chunk. *)
AskWithTotal(c) == Complete(c, Session(c).data, FALSE)

(* "bytes */*": with nothing received the answer names byte 0. *)
Recover(c) ==
  LET told == RangeEnd(Len(Session(c).data)) + 1
  IN /\ Found(c) /\ client[c].doubt # "none"
     /\ uploads' = [uploads EXCEPT ![client[c].id].clean =
                       @ /\ Session(c).data # <<>>]
     /\ \/ told < FileLen /\ Continues(c, told)
        \/ told >= FileLen /\ Stops(c)
     /\ UNCHANGED <<buckets, blobs, keys, clock, versions>>

(* 404, or the user has had enough; a session that is there stays. *)
GiveUp(c) ==
  /\ InFlight(c)
  /\ Stops(c)
  /\ UNCHANGED <<server, versions>>

RequestLost(c) ==
  /\ InFlight(c) /\ client[c].doubt = "none"
  /\ client' = [client EXCEPT ![c].doubt = "request"]
  /\ UNCHANGED <<server, versions>>

------------------------------------------------------------------------------
(* setup again: upload ids start over while clients are under way. *)
Reset ==
  /\ buckets' = {} /\ blobs' = Empty /\ uploads' = Empty /\ keys' = Empty
  /\ clock' = 1
  /\ client' = [c \in Clients |-> [client[c] EXCEPT !.stale = InFlight(c)]]
  /\ versions' = {}

Upload(c) ==
  \/ \E p \in Places : StartResumable(c, p)
  \/ PutChunk(c) \/ PutLastChunk(c)
  \/ AskWithTotal(c) \/ Recover(c)
  \/ GiveUp(c) \/ RequestLost(c)

Objects ==
  \/ \E p \in Places : UploadObject(p)
  \/ \E p, q \in Places : CopyBlob(p, q)
  \/ \E p \in Places, meta \in Metas : PatchObject(p, meta)
  \/ \E p \in Places : DeleteBlob(p)

HmacKeys ==
  \/ CreateHmacKey
  \/ \E k \in DOMAIN keys, st \in {"ACTIVE", "INACTIVE"} : UpdateHmacKey(k, st)
  \/ \E k \in DOMAIN keys : DeleteHmacKey(k)

Next ==
  \/ \E b \in Buckets : CreateBucket(b) \/ DeleteBucket(b)
  \/ Objects
  \/ HmacKeys
  \/ \E c \in Clients : Upload(c)
  \/ Reset

Spec == Init /\ [][Next]_vars

------------------------------------------------------------------------------
Blob == [data : Seq(Nat), meta : Metas, generation : Nat, metageneration : Nat,
         clean : BOOLEAN]

TypeOK ==
  /\ buckets \subseteq Buckets
  /\ clock \in Nat \ {0}
  /\ DOMAIN blobs \subseteq buckets \X Names
  /\ \A p \in DOMAIN blobs : blobs[p] \in Blob /\ blobs[p].generation < clock
  /\ DOMAIN uploads \subseteq 1..(clock - 1)
  /\ \A u \in DOMAIN uploads :
       uploads[u] \in [place : Places, data : Seq(Nat), clean : BOOLEAN]
  /\ DOMAIN keys \subseteq 1..(clock - 1)
  /\ \A k \in DOMAIN keys : keys[k] \in {"ACTIVE", "INACTIVE"}
  /\ client \in [Clients -> [id : Nat, sent : 0..(FileLen - 1), stale : BOOLEAN,
                             doubt : {"none", "request", "answer"}]]
  /\ versions \subseteq Places \X Blob

(* An object is what somebody sent, whole: however many requests or        *)
(* answers of its upload were lost, buckets deleted and uploads to the     *)
(* same name mixed, unless its client sent a chunk twice or was misled.    *)
WholeObjects ==
  \A p \in DOMAIN blobs : blobs[p].clean => blobs[p].data \in {Small, File}

(* Generation and metageneration of an object name one version of it: what *)
(* a reader has cached under them is not stale, even after the object or   *)
(* its bucket was deleted and created again.                               *)
VersionNamesContent ==
  \A v, w \in versions :
    ( /\ v[1] = w[1]
      /\ v[2].generation = w[2].generation
      /\ v[2].metageneration = w[2].metageneration ) => v = w

Current(c) == InFlight(c) /\ ~ client[c].stale

(* Numbers drawn from the clock are not shared: two uploads under way      *)
(* never write into one session, nor do two objects have one generation.   *)
NoSharedNumbers ==
  /\ \A c, d \in Clients :
       Current(c) /\ Current(d) /\ client[c].id = client[d].id => c = d
  /\ \A p, q \in DOMAIN blobs : blobs[p].generation = blobs[q].generation => p = q
  /\ DOMAIN uploads \intersect DOMAIN keys = {}

(* stands for the bytes of an object that is not clean *)
Damaged == <<>>

Store == INSTANCE ObjectStore WITH
  Contents <- {Small, File, Damaged},
  objects  <- [p \in DOMAIN blobs |->
                 [data |-> IF blobs[p].clean THEN blobs[p].data ELSE Damaged,
                  generation |-> blobs[p].generation,
                  metageneration |-> blobs[p].metageneration]],
  used     <- clock

(* The backend is an object store: objects appear whole and at once under  *)
(* a generation above all before, change one at a time, and leave only     *)
(* one by one or with everything else.                                     *)
ImplementsStore == Store!Spec
==============================================================================
