---------------------------- MODULE CheckpointStore ----------------------------
(***************************************************************************)
(* The GatedSpace Sync service (apps/sync): the database transactions of   *)
(* CheckpointStore and the chunk upload handler that drives it.            *)
(*                                                                         *)
(* A transaction that locks its row (FOR UPDATE) is one action.  The PUT   *)
(* handler awaits between reserving, storing and marking a chunk, so it is *)
(* three.  A refused transaction (404, 409, 413) changes nothing: refusals *)
(* are the negation of an action's guard.  A lease's wall-clock expiry is  *)
(* kept as the ticks it has left, ttl; the lease token, 32 fresh random    *)
(* bytes, is named by the fence it was issued with, 0 being SQL's NULL.    *)
(*                                                                         *)
(* A definition called ...Mutant is a wrong version of the one after it,   *)
(* which no action uses: it shows that a property can tell the two apart.  *)
(***************************************************************************)
EXTENDS Integers, FiniteSets, FiniteSetsExt

CONSTANTS
  Owner, Device, Stream, Checkpoint, Digest,
  Bytes,            \* digest |-> length: SHA-256 is checked before any row is touched
  Manifest,         \* the chunk lists a client may publish
  Upload,           \* PUT requests the server handles at once
  LEASE_SECONDS,    \* lease length, in ticks
  MAX_ACCOUNT_BYTES,
  MaxFence,         \* bound: leases issued per stream
  None              \* SQL NULL, and a row that is not there

Chunk == [id : Digest, bytes : Nat]

ASSUME BytesAssumption == Bytes \in [Digest -> Nat \ {0}]
ASSUME ManifestAssumption == Manifest \subseteq SUBSET Chunk
ASSUME LeaseAssumption == LEASE_SECONDS \in Nat \ {0}
ASSUME BoundAssumption == MAX_ACCOUNT_BYTES \in Nat /\ MaxFence \in Nat

\* The rows of packages/db/src/schema/continuity.ts.
StreamRow ==
  [ownerId : Owner, revision : Nat, checkpointId : Checkpoint \cup {None},
   deviceId : Device \cup {None}, leaseHash : Nat, ttl : 0..LEASE_SECONDS, fence : Nat]

CheckpointRow ==
  [ownerId : Owner, revision : Nat,
   fingerprint : [streamId : Stream, deviceId : Device, baseRevision : Nat,
                  manifest : Manifest]]

ASSUME NoneAssumption ==
  None \notin Owner \cup Device \cup Checkpoint \cup StreamRow \cup CheckpointRow

VARIABLES
  devices,       \* device |-> its ownerId or None; nothing ever sets "revoked"
  streams,       \* stream |-> its row or None
  checkpoints,   \* checkpoint |-> its row or None
  objects,       \* owner, digest |-> "absent", "reserved" or "ready"
  quotas,        \* owner |-> bytes reserved
  blobs,         \* the blob store: {<<owner, digest>>}
  uploads,       \* PUT handlers between two awaits
  granted,       \* history: stream |-> fence |-> [device, base] of that lease
  under          \* history: checkpoint |-> fence it was published under

streamVars == <<streams, checkpoints, granted, under>>
objectVars == <<objects, quotas, blobs, uploads>>
vars == <<devices, streamVars, objectVars>>

Free == [at |-> "free"]

Init ==
  /\ devices = [d \in Device |-> None]
  /\ streams = [s \in Stream |-> None]
  /\ checkpoints = [c \in Checkpoint |-> None]
  /\ objects = [o \in Owner |-> [h \in Digest |-> "absent"]]
  /\ quotas = [o \in Owner |-> 0]
  /\ blobs = {}
  /\ uploads = [u \in Upload |-> Free]
  /\ granted = [s \in Stream |-> << >>]
  /\ under = [c \in Checkpoint |-> 0]

--------------------------------------------------------------------------------
(* Devices *)

Registered(o, d) == devices[d] = o

Register(o, d) ==
  /\ devices[d] = None
  /\ devices' = [devices EXCEPT ![d] = o]
  /\ UNCHANGED <<streamVars, objectVars>>

--------------------------------------------------------------------------------
(* Streams and leases *)

Owns(o, s) == streams[s] # None /\ streams[s].ownerId = o

Create(o, s) ==
  /\ streams[s] = None
  /\ streams' = [streams EXCEPT ![s] =
       [ownerId |-> o, revision |-> 0, checkpointId |-> None, deviceId |-> None,
        leaseHash |-> 0, ttl |-> 0, fence |-> 0]]
  /\ UNCHANGED <<devices, checkpoints, granted, under, objectVars>>

\* The lease a request carries: who holds it, its fence and its token.
LeaseIdentity(d, fence) == [deviceId |-> d, fence |-> fence, leaseToken |-> fence]

DeviceOnlyMutant(row, identity) == row.deviceId = identity.deviceId /\ row.ttl > 0

AssertLease(row, identity) ==
  /\ row.deviceId = identity.deviceId
  /\ row.fence = identity.fence
  /\ row.leaseHash = identity.leaseToken
  /\ row.ttl > 0

ReleasedOnlyMutant(o, s, d, base) ==
  Registered(o, d) /\ Owns(o, s) /\ streams[s].revision = base /\ streams[s].leaseHash = 0

CanAcquire(o, s, d, base) ==
  /\ Registered(o, d)
  /\ Owns(o, s)
  /\ streams[s].revision = base
  /\ streams[s].ttl = 0

Acquire(o, s, d, base) ==
  /\ CanAcquire(o, s, d, base)
  /\ streams[s].fence < MaxFence
  /\ streams' = [streams EXCEPT ![s] =
       [@ EXCEPT !.deviceId = d, !.leaseHash = streams[s].fence + 1,
                 !.ttl = LEASE_SECONDS, !.fence = streams[s].fence + 1]]
  /\ granted' = [granted EXCEPT ![s] =
       [f \in 1..(streams[s].fence + 1) |->
          IF f <= streams[s].fence THEN granted[s][f] ELSE [device |-> d, base |-> base]]]
  /\ UNCHANGED <<devices, checkpoints, under, objectVars>>

RenewLateMutant(o, s, identity) ==
  /\ Owns(o, s) /\ streams[s].fence = identity.fence /\ streams[s].leaseHash = identity.leaseToken
  /\ streams' = [streams EXCEPT ![s] = [@ EXCEPT !.ttl = LEASE_SECONDS]]
  /\ UNCHANGED <<devices, checkpoints, granted, under, objectVars>>

Renew(o, s, identity) ==
  /\ Owns(o, s) /\ AssertLease(streams[s], identity)
  /\ streams' = [streams EXCEPT ![s] = [@ EXCEPT !.ttl = LEASE_SECONDS]]
  /\ UNCHANGED <<devices, checkpoints, granted, under, objectVars>>

Release(o, s, identity) ==
  /\ Owns(o, s) /\ AssertLease(streams[s], identity)
  /\ streams' = [streams EXCEPT ![s] = [@ EXCEPT !.ttl = 0, !.leaseHash = 0]]
  /\ UNCHANGED <<devices, checkpoints, granted, under, objectVars>>

\* One tick of the wall clock shortens every lease.
Tick ==
  /\ \E s \in Stream : streams[s] # None /\ streams[s].ttl > 0
  /\ streams' = [s \in Stream |->
       IF streams[s] # None /\ streams[s].ttl > 0
         THEN [streams[s] EXCEPT !.ttl = @ - 1] ELSE streams[s]]
  /\ UNCHANGED <<devices, checkpoints, granted, under, objectVars>>

--------------------------------------------------------------------------------
(* Publishing *)

\* A publish request: id, deviceId, baseRevision, manifest and its lease.
Fingerprint(s, input) ==
  [streamId |-> s, deviceId |-> input.deviceId,
   baseRevision |-> input.baseRevision, manifest |-> input.manifest]

ReservedIsCompleteMutant(o, manifest) ==
  \A chunk \in manifest : objects[o][chunk.id] # "absent" /\ Bytes[chunk.id] = chunk.bytes

Complete(o, manifest) ==
  \A chunk \in manifest :
    objects[o][chunk.id] = "ready" /\ Bytes[chunk.id] = chunk.bytes

AnyBaseMutant(o, s, input) ==
  /\ Owns(o, s) /\ checkpoints[input.id] = None
  /\ AssertLease(streams[s], input.lease) /\ Complete(o, input.manifest)

\* A known id is answered as the first time, or refused: nothing changes.
CanPublish(o, s, input) ==
  /\ Owns(o, s)
  /\ checkpoints[input.id] = None
  /\ AssertLease(streams[s], input.lease)
  /\ streams[s].revision = input.baseRevision
  /\ Complete(o, input.manifest)

\* A publish on an older base takes the place of what was published since.
ReplacesMutant(o, s, input) ==
  /\ Owns(o, s) /\ checkpoints[input.id] = None
  /\ AssertLease(streams[s], input.lease) /\ Complete(o, input.manifest)
  /\ checkpoints' = [c \in Checkpoint |->
       CASE c = input.id -> [ownerId |-> o, revision |-> input.baseRevision + 1,
                             fingerprint |-> Fingerprint(s, input)]
         [] c # input.id /\ checkpoints[c] # None
              /\ checkpoints[c].fingerprint.streamId = s
              /\ checkpoints[c].revision > input.baseRevision -> None
         [] OTHER -> checkpoints[c]]
  /\ streams' = [streams EXCEPT ![s] =
       [@ EXCEPT !.revision = input.baseRevision + 1, !.checkpointId = input.id]]
  /\ under' = [under EXCEPT ![input.id] = input.lease.fence]
  /\ UNCHANGED <<devices, granted, objectVars>>

Publish(o, s, input) ==
  /\ CanPublish(o, s, input)
  /\ checkpoints' = [checkpoints EXCEPT ![input.id] =
       [ownerId |-> o, revision |-> streams[s].revision + 1,
        fingerprint |-> Fingerprint(s, input)]]
  /\ streams' = [streams EXCEPT ![s] =
       [@ EXCEPT !.revision = streams[s].revision + 1, !.checkpointId = input.id]]
  /\ under' = [under EXCEPT ![input.id] = input.lease.fence]
  /\ UNCHANGED <<devices, granted, objectVars>>

--------------------------------------------------------------------------------
(* Chunk uploads: reserve in the database, store the blob, mark it ready *)

NotFullMutant(o, h) == quotas[o] < MAX_ACCOUNT_BYTES
CanReserve(o, h) == quotas[o] + Bytes[h] <= MAX_ACCOUNT_BYTES

\* reserveObject of a PUT: the row and the quota change together.  A chunk that
\* is ready answers at once, a reserved one is stored again.
PutReserve(u, o, h) ==
  /\ uploads[u] = Free
  /\ objects[o][h] # "ready"
  /\ \/ /\ objects[o][h] = "absent" /\ CanReserve(o, h)
        /\ objects' = [objects EXCEPT ![o][h] = "reserved"]
        /\ quotas' = [quotas EXCEPT ![o] = @ + Bytes[h]]
     \/ /\ objects[o][h] = "reserved"
        /\ UNCHANGED <<objects, quotas>>
  /\ uploads' = [uploads EXCEPT ![u] = [at |-> "put", ownerId |-> o, digest |-> h]]
  /\ UNCHANGED <<devices, streamVars, blobs>>

PutBlob(u) ==
  /\ uploads[u].at = "put"
  /\ blobs' = blobs \cup {<<uploads[u].ownerId, uploads[u].digest>>}
  /\ uploads' = [uploads EXCEPT ![u].at = "mark"]
  /\ UNCHANGED <<devices, streamVars, objects, quotas>>

PutMarkReady(u) ==
  /\ uploads[u].at = "mark"
  /\ objects' = [objects EXCEPT ![uploads[u].ownerId][uploads[u].digest] = "ready"]
  /\ uploads' = [uploads EXCEPT ![u] = Free]
  /\ UNCHANGED <<devices, streamVars, quotas, blobs>>

\* The blob store or the database fails, or the server stops: the rest is not done.
PutAbort(u) ==
  /\ uploads[u] # Free
  /\ uploads' = [uploads EXCEPT ![u] = Free]
  /\ UNCHANGED <<devices, streamVars, objects, quotas, blobs>>

--------------------------------------------------------------------------------
\* A PC presents a lease it was granted, however old.
Lease(s) == {LeaseIdentity(granted[s][f].device, f) : f \in DOMAIN granted[s]}

Input(s, base, identity, c, m) ==
  [id |-> c, deviceId |-> identity.deviceId, baseRevision |-> base,
   manifest |-> m, lease |-> identity]

Bases(s) == IF streams[s] = None THEN {} ELSE 0..streams[s].revision

StreamRequest(o, s) ==
  \/ Create(o, s)
  \/ \E d \in Device, base \in Bases(s) : Acquire(o, s, d, base)
  \/ \E identity \in Lease(s) : Renew(o, s, identity)
  \/ \E identity \in Lease(s) : Release(o, s, identity)
  \/ \E identity \in Lease(s), base \in Bases(s), c \in Checkpoint, m \in Manifest :
       Publish(o, s, Input(s, base, identity, c, m))

Next ==
  \/ Tick
  \/ \E o \in Owner, d \in Device : Register(o, d)
  \/ \E o \in Owner, s \in Stream : StreamRequest(o, s)
  \/ \E u \in Upload, o \in Owner, h \in Digest : PutReserve(u, o, h)
  \/ \E u \in Upload : PutBlob(u)
  \/ \E u \in Upload : PutMarkReady(u)
  \/ \E u \in Upload : PutAbort(u)

Spec == Init /\ [][Next]_vars

--------------------------------------------------------------------------------
(* Properties *)

Grant == [device : Device, base : Nat]
Issued(s) == IF streams[s] = None THEN 0 ELSE streams[s].fence

UploadState ==
  {Free} \cup [at : {"put", "mark"}, ownerId : Owner, digest : Digest]

\* Every row has its columns, and a stream granted n leases is at fence n.
TypeOK ==
  /\ devices \in [Device -> Owner \cup {None}]
  /\ streams \in [Stream -> StreamRow \cup {None}]
  /\ checkpoints \in [Checkpoint -> CheckpointRow \cup {None}]
  /\ objects \in [Owner -> [Digest -> {"absent", "reserved", "ready"}]]
  /\ quotas \in [Owner -> Nat]
  /\ blobs \subseteq Owner \X Digest
  /\ uploads \in [Upload -> UploadState]
  /\ under \in [Checkpoint -> Nat]
  /\ DOMAIN granted = Stream
  /\ \A s \in Stream : granted[s] \in [1..Issued(s) -> Grant]

In(c, s) == checkpoints[c] # None /\ checkpoints[c].fingerprint.streamId = s
Rev(c) == checkpoints[c].revision

NumberedInOrder(s) ==
  \A c \in Checkpoint : In(c, s) =>
    /\ Owns(checkpoints[c].ownerId, s)
    /\ Rev(c) \in 1..streams[s].revision
    /\ checkpoints[c].fingerprint.baseRevision = Rev(c) - 1
    /\ \A d \in Checkpoint : In(d, s) /\ Rev(d) = Rev(c) => d = c

HeadIsNewest(s) ==
  streams[s] # None =>
    /\ \A r \in 1..streams[s].revision : \E c \in Checkpoint : In(c, s) /\ Rev(c) = r
    /\ IF streams[s].revision = 0
         THEN streams[s].checkpointId = None
         ELSE /\ streams[s].checkpointId \in Checkpoint
              /\ In(streams[s].checkpointId, s)
              /\ Rev(streams[s].checkpointId) = streams[s].revision

\* publish: the checkpoints of a stream are numbered 1..revision without gap or
\* duplicate, each made on the one before it, all by the stream's owner, and the
\* row's checkpointId is the newest.
LinearHistory == \A s \in Stream : NumberedInOrder(s) /\ HeadIsNewest(s)

\* acquire, assertLease: what a PC read when it took a lease stays the newest
\* checkpoint until that PC publishes.  No checkpoint of an older lease lands
\* after a newer one was granted, however late its request arrives.
NoLateWriter ==
  \A s \in Stream, c \in Checkpoint : In(c, s) =>
    /\ under[c] \in DOMAIN granted[s]
    /\ checkpoints[c].fingerprint.deviceId = granted[s][under[c]].device
    /\ \A f \in DOMAIN granted[s] :
         Rev(c) <= granted[s][f].base <=> under[c] < f

\* acquire, renew, release: a lease that has run out, was given back or was taken over
\* is never good again, so a PC that was told lease_lost may forget it.
Lost(s, identity) == streams[s] # None /\ ~ AssertLease(streams[s], identity)
LostStaysLost ==
  [][\A s \in Stream : \A identity \in Lease(s) : Lost(s, identity) => Lost(s, identity)']_vars

\* The newest lease was granted at the newest revision or an older one: with the
\* two above, what a transaction preserves.
GrantsBehindHead ==
  \A s \in Stream : \A f \in DOMAIN granted[s] : granted[s][f].base <= streams[s].revision

\* publish, PUT objects: a published checkpoint can be downloaded, since every
\* chunk it names is in the blob store at its stated length, whatever uploads
\* failed half-way or ran twice.
PublishedIsStored ==
  \A c \in Checkpoint : checkpoints[c] # None =>
    \A chunk \in checkpoints[c].fingerprint.manifest :
      /\ <<checkpoints[c].ownerId, chunk.id>> \in blobs
      /\ objects[checkpoints[c].ownerId][chunk.id] = "ready"
      /\ Bytes[chunk.id] = chunk.bytes

\* A chunk is marked only after its blob was stored.
ReadyIsStored ==
  /\ \A o \in Owner, h \in Digest : objects[o][h] = "ready" => <<o, h>> \in blobs
  /\ \A u \in Upload : uploads[u].at = "mark" =>
       <<uploads[u].ownerId, uploads[u].digest>> \in blobs

StoreInv ==
  TypeOK /\ LinearHistory /\ NoLateWriter /\ GrantsBehindHead /\ PublishedIsStored /\ ReadyIsStored

\* reserveObject: each account is charged once for each chunk it has begun to
\* store, retries and concurrent uploads included, and stays within its limit.
Charged(o) == MapThenSumSet(LAMBDA h : Bytes[h], {h \in Digest : objects[o][h] # "absent"})
QuotaExact == \A o \in Owner : quotas[o] = Charged(o) /\ quotas[o] <= MAX_ACCOUNT_BYTES

\* The tables implement the append-only history: what a transaction publishes
\* becomes the head of one stream and is never altered, reordered or reused.
Numbered(s, r) == {c \in Checkpoint : In(c, s) /\ Rev(c) = r}
HistoryOf(s) ==
  [r \in 1..(IF streams[s] = None THEN 0 ELSE streams[s].revision) |->
     IF Numbered(s, r) = {} THEN None ELSE CHOOSE c \in Numbered(s, r) : TRUE]
History == INSTANCE CheckpointHistory WITH history <- [s \in Stream |-> HistoryOf(s)]
AppendOnly == History!Spec
================================================================================
