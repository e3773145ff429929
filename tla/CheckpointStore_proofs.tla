------------------------- MODULE CheckpointStore_proofs -------------------------
(***************************************************************************)
(* Proofs about CheckpointStore, for any number of owners, PCs, streams,   *)
(* checkpoints, chunks, uploads and leases.                                *)
(***************************************************************************)
EXTENDS CheckpointStore, SequenceTheorems, FiniteSetTheorems, WellFoundedInduction, TLAPS

USE DEF streamVars, objectVars

--------------------------------------------------------------------------------
(* Type correctness *)

LEMMA InitType == Init => TypeOK
BY BytesAssumption, LeaseAssumption DEF Init, TypeOK, Issued, UploadState, Free

LEMMA IssuedType == ASSUME TypeOK, NEW s \in Stream PROVE Issued(s) \in Nat
<1>1. streams[s] = None \/ streams[s] \in StreamRow
  BY DEF TypeOK
<1> QED
  BY <1>1 DEF Issued, StreamRow

\* A request only ever carries a lease that was granted.
LEMMA LeaseType ==
  ASSUME TypeOK, NEW s \in Stream, NEW identity \in Lease(s)
  PROVE  /\ identity.fence \in DOMAIN granted[s]
         /\ identity.fence \in Nat
         /\ identity.deviceId = granted[s][identity.fence].device
         /\ identity.deviceId \in Device
         /\ identity.leaseToken = identity.fence
<1>1. PICK f \in DOMAIN granted[s] : identity = LeaseIdentity(granted[s][f].device, f)
  BY DEF Lease
<1>2. granted[s] \in [1..Issued(s) -> Grant] /\ Issued(s) \in Nat
  BY IssuedType DEF TypeOK
<1>3. f \in 1..Issued(s) /\ granted[s][f] \in Grant
  BY <1>1, <1>2
<1>4. f \in Nat
  BY <1>2, <1>3
<1> QED
  BY <1>1, <1>3, <1>4 DEF LeaseIdentity, Grant

--------------------------------------------------------------------------------
(* What each transaction leaves in the row it updates *)

LEMMA CreateRow ==
  ASSUME TypeOK, NEW o \in Owner, NEW s \in Stream, Create(o, s)
  PROVE  /\ streams' = [streams EXCEPT ![s] = streams'[s]]
         /\ streams'[s] \in StreamRow
         /\ streams'[s].ownerId = o /\ streams'[s].revision = 0
         /\ streams'[s].checkpointId = None /\ streams'[s].fence = 0
<1>1. streams'[s] = [ownerId |-> o, revision |-> 0, checkpointId |-> None,
                     deviceId |-> None, leaseHash |-> 0, ttl |-> 0, fence |-> 0]
  BY DEF Create, TypeOK
<1> QED
  BY <1>1, LeaseAssumption DEF Create, TypeOK, StreamRow

LEMMA AcquireRow ==
  ASSUME TypeOK, NEW o \in Owner, NEW s \in Stream, NEW d \in Device,
         NEW base \in Bases(s), Acquire(o, s, d, base)
  PROVE  /\ streams[s] \in StreamRow /\ streams[s] # None
         /\ streams' = [streams EXCEPT ![s] = streams'[s]]
         /\ streams'[s] \in StreamRow
         /\ streams'[s].ownerId = streams[s].ownerId
         /\ streams'[s].revision = streams[s].revision
         /\ streams'[s].checkpointId = streams[s].checkpointId
         /\ streams'[s].fence = streams[s].fence + 1
<1> DEFINE row == [streams[s] EXCEPT
                     !.deviceId = d, !.leaseHash = streams[s].fence + 1,
                     !.ttl = LEASE_SECONDS, !.fence = streams[s].fence + 1]
<1>1. streams[s] \in StreamRow /\ streams[s] # None
  BY DEF Acquire, CanAcquire, Owns, TypeOK
<1>2. streams[s].fence + 1 \in Nat /\ LEASE_SECONDS \in 0..LEASE_SECONDS
  BY <1>1, LeaseAssumption DEF StreamRow
<1>3. row \in StreamRow
  BY <1>1, <1>2, Zenon DEF StreamRow
<1>4. /\ row.ownerId = streams[s].ownerId /\ row.revision = streams[s].revision
      /\ row.checkpointId = streams[s].checkpointId
      /\ row.fence = streams[s].fence + 1
  BY <1>1 DEF StreamRow
<1>5. streams' = [streams EXCEPT ![s] = row] /\ streams'[s] = row
  BY DEF Acquire, TypeOK
<1> HIDE DEF row
<1> QED
  BY <1>1, <1>3, <1>4, <1>5

LEMMA PublishRow ==
  ASSUME TypeOK, NEW o \in Owner, NEW s \in Stream, NEW identity \in Lease(s),
         NEW base \in Bases(s), NEW c \in Checkpoint, NEW m \in Manifest,
         Publish(o, s, Input(s, base, identity, c, m))
  PROVE  /\ streams[s] \in StreamRow /\ streams[s] # None
         /\ streams' = [streams EXCEPT ![s] = streams'[s]]
         /\ streams'[s] \in StreamRow
         /\ streams'[s].ownerId = streams[s].ownerId
         /\ streams'[s].revision = streams[s].revision + 1
         /\ streams'[s].checkpointId = c
         /\ streams'[s].fence = streams[s].fence
<1> DEFINE row == [streams[s] EXCEPT !.revision = streams[s].revision + 1,
                                     !.checkpointId = c]
<1>1. streams[s] \in StreamRow /\ streams[s] # None
  BY DEF Publish, CanPublish, Owns, TypeOK
<1>2. streams[s].revision + 1 \in Nat
  BY <1>1 DEF StreamRow
<1>3. row \in StreamRow
  BY <1>1, <1>2, Zenon DEF StreamRow
<1>4. /\ row.ownerId = streams[s].ownerId
      /\ row.revision = streams[s].revision + 1
      /\ row.checkpointId = c /\ row.fence = streams[s].fence
  BY <1>1 DEF StreamRow
<1>5. streams' = [streams EXCEPT ![s] = row] /\ streams'[s] = row
  BY DEF Publish, Input, TypeOK
<1> HIDE DEF row
<1> QED
  BY <1>1, <1>3, <1>4, <1>5

\* Renew, release and the clock only touch the time a lease has left.
SameButLease(row, new) ==
  /\ new.ownerId = row.ownerId /\ new.revision = row.revision
  /\ new.checkpointId = row.checkpointId /\ new.fence = row.fence

LEMMA LeaseRow ==
  ASSUME TypeOK, NEW o \in Owner, NEW s \in Stream, NEW identity \in Lease(s),
         Renew(o, s, identity) \/ Release(o, s, identity)
  PROVE  /\ streams[s] \in StreamRow /\ streams[s] # None
         /\ streams' = [streams EXCEPT ![s] = streams'[s]]
         /\ streams'[s] \in StreamRow
         /\ SameButLease(streams[s], streams'[s])
<1>1. streams[s] \in StreamRow /\ streams[s] # None
  BY DEF Renew, Release, Owns, TypeOK
<1>2. /\ 0 \in Nat /\ 0 \in 0..LEASE_SECONDS
      /\ LEASE_SECONDS \in 0..LEASE_SECONDS
  BY LeaseAssumption
<1>3. CASE Renew(o, s, identity)
  <2> DEFINE row == [streams[s] EXCEPT !.ttl = LEASE_SECONDS]
  <2>1. row \in StreamRow
    BY <1>1, <1>2, Zenon DEF StreamRow
  <2>2. SameButLease(streams[s], row)
    BY <1>1 DEF StreamRow, SameButLease
  <2>3. streams' = [streams EXCEPT ![s] = row] /\ streams'[s] = row
    BY <1>3 DEF Renew, TypeOK
  <2> HIDE DEF row
  <2> QED
    BY <1>1, <2>1, <2>2, <2>3
<1>4. CASE Release(o, s, identity)
  <2> DEFINE row == [streams[s] EXCEPT !.ttl = 0, !.leaseHash = 0]
  <2>1. row \in StreamRow
    BY <1>1, <1>2, Zenon DEF StreamRow
  <2>2. SameButLease(streams[s], row)
    BY <1>1 DEF StreamRow, SameButLease
  <2>3. streams' = [streams EXCEPT ![s] = row] /\ streams'[s] = row
    BY <1>4 DEF Release, TypeOK
  <2> HIDE DEF row
  <2> QED
    BY <1>1, <2>1, <2>2, <2>3
<1> QED
  BY <1>3, <1>4

LEMMA TickRow ==
  ASSUME TypeOK, Tick, NEW s \in Stream
  PROVE  IF streams[s] = None THEN streams'[s] = None
         ELSE /\ streams'[s] \in StreamRow /\ streams'[s] # None
              /\ SameButLease(streams[s], streams'[s])
<1>1. CASE streams[s] # None /\ streams[s].ttl > 0
  <2> DEFINE row == [streams[s] EXCEPT !.ttl = streams[s].ttl - 1]
  <2>1. streams[s] \in StreamRow
    BY <1>1 DEF TypeOK
  <2>2. streams[s].ttl - 1 \in 0..LEASE_SECONDS
    BY <1>1, <2>1, LeaseAssumption DEF StreamRow
  <2>3. row \in StreamRow
    BY <2>1, <2>2, Zenon DEF StreamRow
  <2>4. SameButLease(streams[s], row)
    BY <2>1 DEF StreamRow, SameButLease
  <2>5. streams'[s] = row
    BY <1>1 DEF Tick
  <2> HIDE DEF row
  <2> QED
    BY <1>1, <2>3, <2>4, <2>5, NoneAssumption
<1>2. CASE ~(streams[s] # None /\ streams[s].ttl > 0)
  BY <1>2 DEF Tick, TypeOK, SameButLease
<1> QED
  BY <1>1, <1>2

--------------------------------------------------------------------------------
(* Each action keeps the types *)

\* A transaction on one stream keeps the tables typed if the new row is, and if
\* a new fence comes with the lease it was granted for.
LEMMA StreamUpdateType ==
  ASSUME TypeOK, NEW s \in Stream,
         streams' = [streams EXCEPT ![s] = streams'[s]], streams'[s] \in StreamRow,
         DOMAIN granted' = Stream,
         granted'[s] \in [1..(streams'[s].fence) -> Grant],
         \A t \in Stream \ {s} : granted'[t] = granted[t]
  PROVE  /\ streams' \in [Stream -> StreamRow \cup {None}]
         /\ \A t \in Stream : granted'[t] \in [1..Issued(t)' -> Grant]
<1>1. streams' \in [Stream -> StreamRow \cup {None}]
  BY DEF TypeOK
<1>2. ASSUME NEW t \in Stream PROVE granted'[t] \in [1..Issued(t)' -> Grant]
  <2>1. CASE t = s
    BY <2>1, NoneAssumption DEF Issued
  <2>2. CASE t # s
    <3>1. streams'[t] = streams[t]
      BY <2>2 DEF TypeOK
    <3> QED
      BY <2>2, <3>1 DEF Issued, TypeOK
  <2> QED
    BY <2>1, <2>2
<1> QED
  BY <1>1, <1>2

LEMMA CreateType ==
  ASSUME TypeOK, NEW o \in Owner, NEW s \in Stream, Create(o, s)
  PROVE  TypeOK'
<1>1. granted[s] \in [1..0 -> Grant]
  BY DEF TypeOK, Create, Issued
<1> QED
  BY <1>1, CreateRow, StreamUpdateType DEF Create, TypeOK

LEMMA AcquireType ==
  ASSUME TypeOK, NEW o \in Owner, NEW s \in Stream, NEW d \in Device,
         NEW base \in Bases(s), Acquire(o, s, d, base)
  PROVE  TypeOK'
<1> DEFINE n == streams[s].fence + 1
<1>1. /\ streams[s].fence \in Nat /\ streams[s].fence = Issued(s)
      /\ n \in Nat /\ base \in Nat
  BY AcquireRow DEF StreamRow, Issued, Bases
<1>2. granted[s] \in [1..streams[s].fence -> Grant] /\ [device |-> d, base |-> base] \in Grant
  BY <1>1 DEF TypeOK, Grant
<1>3. granted' = [granted EXCEPT ![s] =
        [f \in 1..n |-> IF f <= streams[s].fence THEN granted[s][f]
                        ELSE [device |-> d, base |-> base]]]
  BY DEF Acquire
<1>4. granted'[s] = [f \in 1..n |-> IF f <= streams[s].fence THEN granted[s][f]
                                    ELSE [device |-> d, base |-> base]]
  BY <1>3 DEF TypeOK
<1>5. granted'[s] \in [1..n -> Grant]
  BY <1>1, <1>2, <1>4
<1>6. DOMAIN granted' = Stream /\ \A t \in Stream \ {s} : granted'[t] = granted[t]
  BY <1>3 DEF TypeOK
<1> HIDE DEF n
<1>7. streams'[s].fence = n
  BY AcquireRow DEF n
<1> QED
  BY <1>5, <1>6, <1>7, AcquireRow, StreamUpdateType DEF Acquire, TypeOK

LEMMA PublishType ==
  ASSUME TypeOK, NEW o \in Owner, NEW s \in Stream, NEW identity \in Lease(s),
         NEW base \in Bases(s), NEW c \in Checkpoint, NEW m \in Manifest,
         Publish(o, s, Input(s, base, identity, c, m))
  PROVE  TypeOK'
<1> DEFINE input == Input(s, base, identity, c, m)
<1>1. /\ input.id = c /\ input.lease = identity /\ identity.fence \in Nat
      /\ streams[s].revision + 1 \in Nat
      /\ Fingerprint(s, input) \in [streamId : Stream, deviceId : Device,
                                    baseRevision : Nat, manifest : Manifest]
  BY LeaseType, PublishRow DEF Input, Fingerprint, Bases, StreamRow
<1>2. [ownerId |-> o, revision |-> streams[s].revision + 1,
       fingerprint |-> Fingerprint(s, input)] \in CheckpointRow
  BY <1>1 DEF CheckpointRow
<1>3. /\ checkpoints' = [checkpoints EXCEPT ![c] =
           [ownerId |-> o, revision |-> streams[s].revision + 1,
            fingerprint |-> Fingerprint(s, input)]]
      /\ under' = [under EXCEPT ![c] = identity.fence]
  BY <1>1 DEF Publish
<1>4. checkpoints' \in [Checkpoint -> CheckpointRow \cup {None}]
  BY <1>2, <1>3 DEF TypeOK
<1>5. under' \in [Checkpoint -> Nat]
  BY <1>1, <1>3 DEF TypeOK
<1>6. granted[s] \in [1..(streams'[s].fence) -> Grant]
  BY PublishRow DEF TypeOK, Issued
<1> QED
  BY <1>4, <1>5, <1>6, PublishRow, StreamUpdateType DEF Publish, TypeOK

LEMMA LeaseTimeType ==
  ASSUME TypeOK, NEW o \in Owner, NEW s \in Stream, NEW identity \in Lease(s),
         Renew(o, s, identity) \/ Release(o, s, identity)
  PROVE  TypeOK'
<1>1. granted[s] \in [1..(streams'[s].fence) -> Grant]
  BY LeaseRow DEF TypeOK, Issued, SameButLease
<1> QED
  BY <1>1, LeaseRow, StreamUpdateType DEF Renew, Release, TypeOK

LEMMA TickType == TypeOK /\ Tick => TypeOK'
<1> SUFFICES ASSUME TypeOK, Tick PROVE TypeOK'
  OBVIOUS
<1>1. streams' \in [Stream -> StreamRow \cup {None}]
  BY TickRow DEF Tick
<1>2. \A s \in Stream : Issued(s)' = Issued(s)
  BY TickRow DEF Issued, SameButLease
<1> QED
  BY <1>1, <1>2 DEF Tick, TypeOK

LEMMA PutType ==
  ASSUME TypeOK, NEW u \in Upload,
         \/ \E o \in Owner, h \in Digest : PutReserve(u, o, h)
         \/ PutBlob(u) \/ PutMarkReady(u) \/ PutAbort(u)
  PROVE  TypeOK'
<1>0. /\ UNCHANGED <<devices, streams, checkpoints, granted, under>>
      /\ uploads \in [Upload -> UploadState]
      /\ objects \in [Owner -> [Digest -> {"absent", "reserved", "ready"}]]
  BY DEF PutReserve, PutBlob, PutMarkReady, PutAbort, TypeOK
<1>1. ASSUME uploads[u].at \in {"put", "mark"}
      PROVE  uploads[u] \in [at : {"put", "mark"}, ownerId : Owner, digest : Digest]
  BY <1>0, <1>1 DEF UploadState, Free
<1>2. /\ uploads' \in [Upload -> UploadState]
      /\ objects' \in [Owner -> [Digest -> {"absent", "reserved", "ready"}]]
      /\ quotas' \in [Owner -> Nat]
      /\ blobs' \subseteq Owner \X Digest
  <2>1. CASE \E o \in Owner, h \in Digest : PutReserve(u, o, h)
    <3>1. PICK o \in Owner, h \in Digest : PutReserve(u, o, h)
      BY <2>1
    <3>2. [at |-> "put", ownerId |-> o, digest |-> h] \in UploadState
      BY DEF UploadState
    <3>3. uploads' \in [Upload -> UploadState] /\ blobs' \subseteq Owner \X Digest
      BY <1>0, <3>1, <3>2 DEF PutReserve, TypeOK
    <3>4. objects' \in [Owner -> [Digest -> {"absent", "reserved", "ready"}]]
      BY <1>0, <3>1 DEF PutReserve
    <3>5. quotas' \in [Owner -> Nat]
      <4>1. quotas \in [Owner -> Nat] /\ quotas[o] + Bytes[h] \in Nat
        BY BytesAssumption DEF TypeOK
      <4>2. quotas' = quotas \/ quotas' = [quotas EXCEPT ![o] = quotas[o] + Bytes[h]]
        BY <3>1 DEF PutReserve
      <4> QED
        BY <4>1, <4>2
    <3> QED
      BY <3>3, <3>4, <3>5
  <2>2. CASE PutBlob(u)
    <3>1. [uploads[u] EXCEPT !.at = "mark"] \in UploadState
      BY <1>1, <2>2, Zenon DEF PutBlob, UploadState
    <3> QED
      BY <1>0, <1>1, <2>2, <3>1 DEF PutBlob, TypeOK
  <2>3. CASE PutMarkReady(u)
    BY <1>0, <1>1, <2>3 DEF PutMarkReady, UploadState, TypeOK
  <2>4. CASE PutAbort(u)
    BY <1>0, <2>4 DEF PutAbort, UploadState, TypeOK
  <2> QED
    BY <2>1, <2>2, <2>3, <2>4
<1> QED
  BY <1>0, <1>2 DEF TypeOK, Issued

LEMMA NextType == TypeOK /\ [Next]_vars => TypeOK'
<1> SUFFICES ASSUME TypeOK, [Next]_vars PROVE TypeOK'
  OBVIOUS
<1>1. CASE Tick
  BY <1>1, TickType
<1>2. CASE \E o \in Owner, d \in Device : Register(o, d)
  BY <1>2 DEF TypeOK, Register, Issued
<1>3. CASE \E o \in Owner, s \in Stream : StreamRequest(o, s)
  BY <1>3, CreateType, AcquireType, PublishType, LeaseTimeType DEF StreamRequest
<1>4. CASE \E u \in Upload : \/ \E o \in Owner, h \in Digest : PutReserve(u, o, h)
                             \/ PutBlob(u) \/ PutMarkReady(u) \/ PutAbort(u)
  BY <1>4, PutType
<1>5. CASE UNCHANGED vars
  BY <1>5 DEF TypeOK, vars, Issued
<1> QED
  BY <1>1, <1>2, <1>3, <1>4, <1>5 DEF Next

\* Rows always have the columns of the schema, and a stream at fence n has been
\* granted exactly n leases.
THEOREM StoreTypeCorrect == Spec => []TypeOK
BY InitType, NextType, PTL DEF Spec

--------------------------------------------------------------------------------
(* One line of history per stream *)

\* Every transaction but publish leaves the checkpoints alone and the owner and
\* the head of each stream as they were; a stream starts without checkpoints.
HeadsKept ==
  /\ checkpoints' = checkpoints
  /\ \A s \in Stream :
       IF streams[s] = None
         THEN \/ streams'[s] = None
              \/ /\ streams'[s] # None
                 /\ streams'[s].revision = 0 /\ streams'[s].checkpointId = None
         ELSE /\ streams'[s] # None
              /\ streams'[s].ownerId = streams[s].ownerId
              /\ streams'[s].revision = streams[s].revision
              /\ streams'[s].checkpointId = streams[s].checkpointId

LEMMA CreateKeepsHeads ==
  ASSUME TypeOK, NEW o \in Owner, NEW s \in Stream, Create(o, s)
  PROVE  HeadsKept
BY CreateRow, NoneAssumption DEF Create, TypeOK, HeadsKept

LEMMA AcquireKeepsHeads ==
  ASSUME TypeOK, NEW o \in Owner, NEW s \in Stream, NEW d \in Device,
         NEW base \in Bases(s), Acquire(o, s, d, base)
  PROVE  HeadsKept
<1>1. checkpoints' = checkpoints /\ \A t \in Stream \ {s} : streams'[t] = streams[t]
  BY AcquireRow DEF Acquire, TypeOK
<1> QED
  BY <1>1, AcquireRow, NoneAssumption DEF HeadsKept

LEMMA LeaseKeepsHeads ==
  ASSUME TypeOK, NEW o \in Owner, NEW s \in Stream, NEW identity \in Lease(s),
         Renew(o, s, identity) \/ Release(o, s, identity)
  PROVE  HeadsKept
<1>1. checkpoints' = checkpoints /\ \A t \in Stream \ {s} : streams'[t] = streams[t]
  BY LeaseRow DEF Renew, Release, TypeOK
<1> QED
  BY <1>1, LeaseRow, NoneAssumption DEF HeadsKept, SameButLease

LEMMA TickKeepsHeads == ASSUME TypeOK, Tick PROVE HeadsKept
BY TickRow, NoneAssumption DEF Tick, TypeOK, HeadsKept, SameButLease

LEMMA HeadsKeptLinear ==
  ASSUME TypeOK, LinearHistory, HeadsKept
  PROVE  LinearHistory'
<1>1. ASSUME NEW s \in Stream PROVE NumberedInOrder(s)'
  BY DEF LinearHistory, NumberedInOrder, HeadsKept, In, Rev, Owns
<1>2. ASSUME NEW s \in Stream PROVE HeadIsNewest(s)'
  <2>1. CASE streams[s] = None
    BY <2>1 DEF HeadIsNewest, HeadsKept
  <2>2. CASE streams[s] # None
    BY <2>2 DEF LinearHistory, HeadIsNewest, HeadsKept, In, Rev
  <2> QED
    BY <2>1, <2>2
<1> QED
  BY <1>1, <1>2 DEF LinearHistory

\* What publish adds: checkpoint c at the next revision of stream s.
LEMMA PublishAdds ==
  ASSUME TypeOK, NEW o \in Owner, NEW s \in Stream, NEW identity \in Lease(s),
         NEW base \in Bases(s), NEW c \in Checkpoint, NEW m \in Manifest,
         Publish(o, s, Input(s, base, identity, c, m))
  PROVE  /\ checkpoints[c] = None /\ checkpoints'[c] # None
         /\ checkpoints'[c].ownerId = o /\ Owns(o, s)
         /\ Rev(c)' = streams[s].revision + 1
         /\ checkpoints'[c].fingerprint = Fingerprint(s, Input(s, base, identity, c, m))
         /\ base = streams[s].revision
         /\ under'[c] = identity.fence /\ identity.fence = streams[s].fence
         /\ \A d \in Checkpoint \ {c} :
              checkpoints'[d] = checkpoints[d] /\ under'[d] = under[d]
         /\ \A t \in Stream \ {s} : streams'[t] = streams[t]
<1> DEFINE row == [ownerId |-> o, revision |-> streams[s].revision + 1,
                   fingerprint |-> Fingerprint(s, Input(s, base, identity, c, m))]
<1>1. checkpoints' = [checkpoints EXCEPT ![c] = row]
  BY DEF Publish, Input
<1>2. checkpoints'[c] \in CheckpointRow \cup {None} /\ checkpoints'[c] = row
  BY <1>1, PublishType DEF TypeOK
<1>3. row # None
  <2>1. /\ streams[s].revision + 1 \in Nat
        /\ Fingerprint(s, Input(s, base, identity, c, m)) \in
             [streamId : Stream, deviceId : Device, baseRevision : Nat, manifest : Manifest]
    BY LeaseType, PublishRow DEF Input, Fingerprint, Bases, StreamRow
  <2>2. row \in CheckpointRow
    BY <2>1 DEF CheckpointRow
  <2> QED
    BY <2>2, NoneAssumption
<1>4. /\ checkpoints[c] = None /\ Owns(o, s)
      /\ base = streams[s].revision /\ identity.fence = streams[s].fence
      /\ under' = [under EXCEPT ![c] = identity.fence]
  BY DEF Publish, CanPublish, AssertLease, Input
<1>5. /\ under'[c] = identity.fence
      /\ \A d \in Checkpoint \ {c} :
           checkpoints'[d] = checkpoints[d] /\ under'[d] = under[d]
  BY <1>1, <1>4 DEF TypeOK
<1>6. \A t \in Stream \ {s} : streams'[t] = streams[t]
  BY PublishRow DEF TypeOK
<1>7. /\ checkpoints'[c].ownerId = o /\ Rev(c)' = streams[s].revision + 1
      /\ checkpoints'[c].fingerprint = Fingerprint(s, Input(s, base, identity, c, m))
  BY <1>2 DEF Rev
<1> HIDE DEF row
<1> QED
  BY <1>2, <1>3, <1>4, <1>5, <1>6, <1>7

LEMMA PublishLinear ==
  ASSUME TypeOK, LinearHistory, NEW o \in Owner, NEW s \in Stream,
         NEW identity \in Lease(s), NEW base \in Bases(s), NEW c \in Checkpoint,
         NEW m \in Manifest, Publish(o, s, Input(s, base, identity, c, m))
  PROVE  LinearHistory'
<1> DEFINE n == streams[s].revision
<1>1. /\ n \in Nat /\ streams'[s].revision = n + 1 /\ streams'[s].checkpointId = c
      /\ streams'[s].ownerId = streams[s].ownerId
      /\ streams[s] # None /\ streams'[s] # None
  BY PublishRow, NoneAssumption DEF StreamRow
<1>2. /\ In(c, s)' /\ Rev(c)' = n + 1
      /\ checkpoints'[c].fingerprint.baseRevision = n
      /\ checkpoints'[c].ownerId = o /\ Owns(o, s)'
      /\ \A t \in Stream : In(c, t)' <=> t = s
  <2>1. /\ checkpoints'[c].fingerprint.streamId = s
        /\ checkpoints'[c].fingerprint.baseRevision = n
    <3>1. /\ Fingerprint(s, Input(s, base, identity, c, m)).streamId = s
          /\ Fingerprint(s, Input(s, base, identity, c, m)).baseRevision = base
      BY DEF Fingerprint, Input
    <3> QED
      BY <3>1, PublishAdds
  <2>2. checkpoints'[c] # None /\ checkpoints'[c].ownerId = o /\ Owns(o, s)
    BY PublishAdds
  <2>3. Rev(c)' = n + 1
    BY PublishAdds
  <2> QED
    BY <1>1, <2>1, <2>2, <2>3 DEF In, Owns
<1>3. \A d \in Checkpoint \ {c}, t \in Stream :
        /\ In(d, t)' <=> In(d, t)
        /\ Rev(d)' = Rev(d) /\ checkpoints'[d] = checkpoints[d]
  BY PublishAdds DEF In, Rev
<1>4. \A t \in Stream \ {s} : streams'[t] = streams[t]
  BY PublishAdds
<1> HIDE DEF n
<1>5. ASSUME NEW t \in Stream PROVE NumberedInOrder(t)' /\ HeadIsNewest(t)'
  <2>1. CASE t # s
    <3>1. ~ In(c, t)' /\ ~ In(c, t) /\ streams'[t] = streams[t]
      BY <1>2, <1>4, <2>1, PublishAdds DEF In
    <3> QED
      BY <1>3, <3>1 DEF LinearHistory, NumberedInOrder, HeadIsNewest, Owns
  <2>2. CASE t = s
    <3>1. ASSUME NEW d \in Checkpoint \ {c}, In(d, s)'
          PROVE  /\ In(d, s) /\ Rev(d)' = Rev(d) /\ Rev(d) \in 1..n
                 /\ Owns(checkpoints[d].ownerId, s)
                 /\ checkpoints'[d].fingerprint.baseRevision = Rev(d)' - 1
      BY <1>3, <3>1 DEF LinearHistory, NumberedInOrder, n
    <3>2. NumberedInOrder(s)'
      BY <1>1, <1>2, <1>3, <3>1 DEF NumberedInOrder, LinearHistory, Owns
    <3>3. HeadIsNewest(s)'
      <4>1. ASSUME NEW r \in 1..(n + 1)
            PROVE  \E d \in Checkpoint : In(d, s)' /\ Rev(d)' = r
        <5>1. CASE r = n + 1
          BY <1>2, <5>1
        <5>2. CASE r # n + 1
          <6>1. r \in 1..n
            BY <1>1, <5>2
          <6>2. PICK d \in Checkpoint : In(d, s) /\ Rev(d) = r
            BY <1>1, <6>1 DEF LinearHistory, HeadIsNewest, n
          <6>3. d # c
            BY <6>2, PublishAdds DEF In
          <6> QED
            BY <1>3, <6>2, <6>3
        <5> QED
          BY <5>1, <5>2
      <4> QED
        BY <1>1, <1>2, <4>1 DEF HeadIsNewest
    <3> QED
      BY <2>2, <3>2, <3>3
  <2> QED
    BY <2>1, <2>2
<1> QED
  BY <1>5 DEF LinearHistory

--------------------------------------------------------------------------------
(* A newer lease shuts out the older ones *)

\* Only acquire grants, and only publish dates a checkpoint.
LEMMA GrantsKept ==
  ASSUME TypeOK, NoLateWriter, GrantsBehindHead, HeadsKept, UNCHANGED <<granted, under>>
  PROVE  NoLateWriter' /\ GrantsBehindHead'
<1>1. NoLateWriter'
  BY DEF NoLateWriter, HeadsKept, In, Rev
<1>2. ASSUME NEW s \in Stream, NEW f \in DOMAIN granted[s]
      PROVE  granted[s][f].base <= streams'[s].revision
  <2>1. streams[s] # None
    BY <1>2 DEF TypeOK, Issued
  <2> QED
    BY <1>2, <2>1 DEF GrantsBehindHead, HeadsKept
<1> QED
  BY <1>1, <1>2 DEF GrantsBehindHead

LEMMA AcquireFences ==
  ASSUME TypeOK, LinearHistory, NoLateWriter, GrantsBehindHead,
         NEW o \in Owner, NEW s \in Stream, NEW d \in Device, NEW base \in Bases(s),
         Acquire(o, s, d, base)
  PROVE  NoLateWriter' /\ GrantsBehindHead'
<1> DEFINE n == streams[s].fence
<1>1. /\ n \in Nat /\ streams[s].revision \in Nat /\ base = streams[s].revision
      /\ DOMAIN granted[s] = 1..n /\ streams[s] # None
  <2>1. base = streams[s].revision
    BY DEF Acquire, CanAcquire
  <2>2. streams[s] # None /\ n \in Nat /\ streams[s].revision \in Nat
    BY AcquireRow DEF StreamRow
  <2>3. granted[s] \in [1..n -> Grant]
    BY <2>2 DEF TypeOK, Issued
  <2> QED
    BY <2>1, <2>2, <2>3
<1>2. granted'[s] = [f \in 1..(n + 1) |-> IF f <= n THEN granted[s][f]
                                          ELSE [device |-> d, base |-> base]]
  BY DEF Acquire, TypeOK
<1>3. /\ DOMAIN granted'[s] = 1..(n + 1)
      /\ \A f \in 1..n : granted'[s][f] = granted[s][f]
      /\ granted'[s][n + 1].base = streams[s].revision
  BY <1>1, <1>2
<1>4. \A t \in Stream \ {s} : granted'[t] = granted[t] /\ streams'[t] = streams[t]
  BY AcquireRow DEF Acquire, TypeOK
<1>5. under' = under /\ checkpoints' = checkpoints
  BY DEF Acquire
<1>6. streams'[s].revision = streams[s].revision
  BY AcquireRow
<1> HIDE DEF n
<1>7. GrantsBehindHead'
  <2>1. ASSUME NEW f \in 1..(n + 1) PROVE granted'[s][f].base <= streams'[s].revision
    <3>1. CASE f \in 1..n
      BY <1>1, <1>3, <1>6, <3>1 DEF GrantsBehindHead
    <3>2. CASE f = n + 1
      BY <1>1, <1>3, <1>6, <3>2
    <3> QED
      BY <1>1, <3>1, <3>2
  <2> QED
    BY <1>3, <1>4, <2>1 DEF GrantsBehindHead
<1>8. ASSUME NEW t \in Stream, NEW c \in Checkpoint, In(c, t)'
      PROVE  /\ under[c] \in DOMAIN granted'[t]
             /\ checkpoints[c].fingerprint.deviceId = granted'[t][under[c]].device
             /\ \A f \in DOMAIN granted'[t] :
                  Rev(c)' <= granted'[t][f].base <=> under[c] < f
  <2>1. In(c, t) /\ Rev(c)' = Rev(c)
    BY <1>5, <1>8 DEF In, Rev
  <2>2. CASE t # s
    BY <1>4, <2>1, <2>2 DEF NoLateWriter
  <2>3. CASE t = s
    <3>1. /\ under[c] \in 1..n
          /\ checkpoints[c].fingerprint.deviceId = granted[s][under[c]].device
          /\ \A f \in 1..n : Rev(c) <= granted[s][f].base <=> under[c] < f
      BY <1>1, <2>1, <2>3 DEF NoLateWriter
    <3>2. Rev(c) \in 1..streams[s].revision
      BY <2>1, <2>3 DEF LinearHistory, NumberedInOrder
    <3>3. ASSUME NEW f \in 1..(n + 1)
          PROVE  Rev(c) <= granted'[s][f].base <=> under[c] < f
      <4>1. CASE f \in 1..n
        BY <1>3, <3>1, <4>1
      <4>2. CASE f = n + 1
        BY <1>1, <1>3, <3>1, <3>2, <4>2
      <4> QED
        BY <1>1, <4>1, <4>2
    <3> QED
      BY <1>1, <1>3, <2>1, <2>3, <3>1, <3>3
  <2> QED
    BY <2>2, <2>3
<1> QED
  BY <1>5, <1>7, <1>8 DEF NoLateWriter

LEMMA PublishFences ==
  ASSUME TypeOK, LinearHistory, NoLateWriter, GrantsBehindHead,
         NEW o \in Owner, NEW s \in Stream, NEW identity \in Lease(s),
         NEW base \in Bases(s), NEW c \in Checkpoint, NEW m \in Manifest,
         Publish(o, s, Input(s, base, identity, c, m))
  PROVE  NoLateWriter' /\ GrantsBehindHead'
<1> DEFINE n == streams[s].revision
<1>1. n \in Nat /\ streams'[s].revision = n + 1
  BY PublishRow DEF StreamRow
<1>2. granted' = granted /\ \A t \in Stream \ {s} : streams'[t] = streams[t]
  BY PublishAdds DEF Publish
<1>3. \A t \in Stream : \A f \in DOMAIN granted[t] : granted[t][f].base \in Nat
  BY DEF TypeOK, Grant
<1>4. \A f \in DOMAIN granted[s] : granted[s][f].base <= n
  BY DEF GrantsBehindHead
<1> HIDE DEF n
<1>5. GrantsBehindHead'
  BY <1>1, <1>2, <1>3, <1>4 DEF GrantsBehindHead
<1>6. /\ identity.fence \in DOMAIN granted[s]
      /\ DOMAIN granted[s] = 1..identity.fence /\ identity.fence \in Nat
      /\ identity.deviceId = granted[s][identity.fence].device
  <2>1. identity.fence = Issued(s)
    BY PublishRow, PublishAdds DEF Issued
  <2> QED
    BY <2>1, LeaseType DEF TypeOK
<1>7. /\ under'[c] = identity.fence /\ Rev(c)' = n + 1
      /\ checkpoints'[c].fingerprint.deviceId = identity.deviceId
      /\ \A t \in Stream : In(c, t)' => t = s
  <2>1. LET print == Fingerprint(s, Input(s, base, identity, c, m))
        IN  print.deviceId = identity.deviceId /\ print.streamId = s
    BY DEF Fingerprint, Input
  <2> QED
    BY <2>1, PublishAdds DEF In, n
<1>8. ASSUME NEW t \in Stream, NEW e \in Checkpoint, In(e, t)'
      PROVE  /\ under'[e] \in DOMAIN granted[t]
             /\ checkpoints'[e].fingerprint.deviceId = granted[t][under'[e]].device
             /\ \A f \in DOMAIN granted[t] :
                  Rev(e)' <= granted[t][f].base <=> under'[e] < f
  <2>1. CASE e = c
    BY <1>1, <1>3, <1>4, <1>6, <1>7, <1>8, <2>1
  <2>2. CASE e # c
    <3>1. In(e, t) /\ Rev(e)' = Rev(e) /\ under'[e] = under[e] /\ checkpoints'[e] = checkpoints[e]
      BY <1>8, <2>2, PublishAdds DEF In, Rev
    <3> QED
      BY <3>1 DEF NoLateWriter
  <2> QED
    BY <2>1, <2>2
<1> QED
  BY <1>2, <1>5, <1>8 DEF NoLateWriter

--------------------------------------------------------------------------------
(* A published checkpoint is stored *)

LEMMA PutKeepsReady ==
  ASSUME TypeOK, ReadyIsStored, NEW u \in Upload,
         \/ \E o \in Owner, h \in Digest : PutReserve(u, o, h)
         \/ PutBlob(u) \/ PutMarkReady(u) \/ PutAbort(u)
  PROVE  /\ ReadyIsStored' /\ blobs \subseteq blobs'
         /\ \A o \in Owner, h \in Digest : objects[o][h] = "ready" => objects'[o][h] = "ready"
<1>0. /\ uploads \in [Upload -> UploadState]
      /\ objects \in [Owner -> [Digest -> {"absent", "reserved", "ready"}]]
      /\ Free.at # "mark"
  BY DEF TypeOK, Free
<1>1. CASE \E o \in Owner, h \in Digest : PutReserve(u, o, h)
  <2>1. PICK o \in Owner, h \in Digest : PutReserve(u, o, h)
    BY <1>1
  <2>2. /\ \A p \in Owner, g \in Digest : objects'[p][g] = "ready" <=> objects[p][g] = "ready"
        /\ blobs' = blobs
        /\ uploads'[u].at = "put" /\ \A v \in Upload \ {u} : uploads'[v] = uploads[v]
    BY <1>0, <2>1 DEF PutReserve
  <2> QED
    BY <1>0, <2>2 DEF ReadyIsStored
<1>2. CASE PutBlob(u)
  <2>1. /\ blobs' = blobs \cup {<<uploads[u].ownerId, uploads[u].digest>>}
        /\ objects' = objects
        /\ uploads' = [uploads EXCEPT ![u].at = "mark"]
    BY <1>2 DEF PutBlob
  <2>2. uploads[u] \in [at : {"put", "mark"}, ownerId : Owner, digest : Digest]
    BY <1>0, <1>2 DEF PutBlob, UploadState, Free
  <2>3. /\ uploads'[u].ownerId = uploads[u].ownerId /\ uploads'[u].digest = uploads[u].digest
        /\ \A v \in Upload \ {u} : uploads'[v] = uploads[v]
    BY <1>0, <2>1, <2>2
  <2> QED
    BY <2>1, <2>3 DEF ReadyIsStored
<1>3. CASE PutMarkReady(u)
  <2>1. /\ blobs' = blobs /\ uploads'[u] = Free
        /\ \A v \in Upload \ {u} : uploads'[v] = uploads[v]
        /\ objects' = [objects EXCEPT ![uploads[u].ownerId][uploads[u].digest] = "ready"]
        /\ <<uploads[u].ownerId, uploads[u].digest>> \in blobs
    BY <1>0, <1>3 DEF PutMarkReady, ReadyIsStored
  <2>2. \A o \in Owner, h \in Digest :
          /\ objects[o][h] = "ready" => objects'[o][h] = "ready"
          /\ objects'[o][h] = "ready" =>
               objects[o][h] = "ready" \/ <<o, h>> = <<uploads[u].ownerId, uploads[u].digest>>
    BY <1>0, <2>1
  <2> QED
    BY <1>0, <2>1, <2>2 DEF ReadyIsStored
<1>4. CASE PutAbort(u)
  BY <1>0, <1>4 DEF PutAbort, ReadyIsStored
<1> QED
  BY <1>1, <1>2, <1>3, <1>4

LEMMA StoredKept ==
  ASSUME TypeOK, PublishedIsStored, checkpoints' = checkpoints, blobs \subseteq blobs',
         \A o \in Owner, h \in Digest : objects[o][h] = "ready" => objects'[o][h] = "ready"
  PROVE  PublishedIsStored'
<1> SUFFICES ASSUME NEW c \in Checkpoint, checkpoints[c] # None,
                    NEW chunk \in checkpoints[c].fingerprint.manifest
             PROVE  /\ <<checkpoints[c].ownerId, chunk.id>> \in blobs'
                    /\ objects'[checkpoints[c].ownerId][chunk.id] = "ready"
                    /\ Bytes[chunk.id] = chunk.bytes
  BY DEF PublishedIsStored
<1>1. checkpoints[c].ownerId \in Owner /\ checkpoints[c].fingerprint.manifest \in Manifest
  BY DEF TypeOK, CheckpointRow
<1>2. chunk.id \in Digest
  BY <1>1, ManifestAssumption DEF Chunk
<1> QED
  BY <1>1, <1>2 DEF PublishedIsStored

LEMMA PublishStored ==
  ASSUME TypeOK, PublishedIsStored, ReadyIsStored, NEW o \in Owner, NEW s \in Stream,
         NEW identity \in Lease(s), NEW base \in Bases(s), NEW c \in Checkpoint,
         NEW m \in Manifest, Publish(o, s, Input(s, base, identity, c, m))
  PROVE  PublishedIsStored'
<1>1. objects' = objects /\ blobs' = blobs /\ Complete(o, m)
  BY DEF Publish, CanPublish, Input, objectVars
<1>2. checkpoints'[c].ownerId = o /\ checkpoints'[c].fingerprint.manifest = m
  <2>1. Fingerprint(s, Input(s, base, identity, c, m)).manifest = m
    BY DEF Fingerprint, Input
  <2> QED
    BY <2>1, PublishAdds
<1>3. ASSUME NEW chunk \in m
      PROVE  /\ <<o, chunk.id>> \in blobs /\ objects[o][chunk.id] = "ready"
             /\ Bytes[chunk.id] = chunk.bytes
  <2>1. chunk.id \in Digest
    BY <1>3, ManifestAssumption DEF Chunk
  <2> QED
    BY <1>1, <1>3, <2>1 DEF Complete, ReadyIsStored
<1> QED
  BY <1>1, <1>2, <1>3, PublishAdds DEF PublishedIsStored

--------------------------------------------------------------------------------
(* The invariant *)

LEMMA InitInv == Init => StoreInv
<1> SUFFICES ASSUME Init PROVE StoreInv
  OBVIOUS
<1>1. LinearHistory /\ NoLateWriter /\ PublishedIsStored
  BY DEF Init, LinearHistory, NumberedInOrder, HeadIsNewest, NoLateWriter,
         PublishedIsStored, In
<1>2. ReadyIsStored
  BY DEF Init, ReadyIsStored, Free
<1>3. GrantsBehindHead
  BY DEF Init, GrantsBehindHead
<1> QED
  BY <1>1, <1>2, <1>3, InitType DEF StoreInv

LEMMA NextInv == StoreInv /\ [Next]_vars => StoreInv'
<1> SUFFICES ASSUME StoreInv, [Next]_vars PROVE StoreInv'
  OBVIOUS
<1> USE DEF StoreInv
<1>0. TypeOK'
  BY NextType
<1>1. ASSUME HeadsKept, UNCHANGED <<granted, under, objectVars>> PROVE StoreInv'
  BY <1>0, <1>1, HeadsKeptLinear, GrantsKept, StoredKept DEF HeadsKept, ReadyIsStored
<1>2. CASE Tick
  BY <1>1, <1>2, TickKeepsHeads DEF Tick
<1>3. CASE \E o \in Owner, d \in Device : Register(o, d)
  BY <1>1, <1>3 DEF Register, HeadsKept
<1>4. CASE \E o \in Owner, s \in Stream : StreamRequest(o, s)
  <2>1. PICK o \in Owner, s \in Stream : StreamRequest(o, s)
    BY <1>4
  <2>2. CASE Create(o, s)
    BY <1>1, <2>2, CreateKeepsHeads DEF Create
  <2>3. CASE \E d \in Device, base \in Bases(s) : Acquire(o, s, d, base)
    <3>1. PICK d \in Device, base \in Bases(s) : Acquire(o, s, d, base)
      BY <2>3
    <3>2. LinearHistory' /\ NoLateWriter' /\ GrantsBehindHead'
      BY <3>1, AcquireKeepsHeads, HeadsKeptLinear, AcquireFences
    <3>3. UNCHANGED <<checkpoints, objects, blobs, uploads>>
      BY <3>1 DEF Acquire
    <3> QED
      BY <1>0, <3>2, <3>3, StoredKept DEF ReadyIsStored
  <2>4. CASE \E identity \in Lease(s) : Renew(o, s, identity) \/ Release(o, s, identity)
    BY <1>1, <2>4, LeaseKeepsHeads DEF Renew, Release
  <2>5. CASE \E identity \in Lease(s), base \in Bases(s), c \in Checkpoint, m \in Manifest :
               Publish(o, s, Input(s, base, identity, c, m))
    <3>1. PICK identity \in Lease(s), base \in Bases(s), c \in Checkpoint, m \in Manifest :
            Publish(o, s, Input(s, base, identity, c, m))
      BY <2>5
    <3>2. ReadyIsStored'
      BY <3>1 DEF Publish, ReadyIsStored
    <3> QED
      BY <1>0, <3>1, <3>2, PublishLinear, PublishFences, PublishStored
  <2> QED
    BY <2>1, <2>2, <2>3, <2>4, <2>5 DEF StreamRequest
<1>5. CASE \E u \in Upload : \/ \E o \in Owner, h \in Digest : PutReserve(u, o, h)
                             \/ PutBlob(u) \/ PutMarkReady(u) \/ PutAbort(u)
  <2>1. HeadsKept /\ UNCHANGED <<granted, under, checkpoints>>
    BY <1>5 DEF PutReserve, PutBlob, PutMarkReady, PutAbort, HeadsKept
  <2>2. PublishedIsStored' /\ ReadyIsStored'
    BY <1>5, <2>1, PutKeepsReady, StoredKept
  <2> QED
    BY <1>0, <2>1, <2>2, HeadsKeptLinear, GrantsKept
<1>6. CASE UNCHANGED vars
  BY <1>1, <1>6 DEF vars, HeadsKept
<1> QED
  BY <1>2, <1>3, <1>4, <1>5, <1>6 DEF Next

LEMMA StoreInvHolds == Spec => []StoreInv
BY InitInv, NextInv, PTL DEF Spec

\* Each conversation has one line of checkpoints without gap, fork or duplicate.
THEOREM StoreLinear == Spec => []LinearHistory
<1>1. StoreInv => LinearHistory
  BY DEF StoreInv
<1> QED
  BY <1>1, StoreInvHolds, PTL

\* No request made under an older lease publishes once a newer one was granted.
THEOREM StoreFencing == Spec => []NoLateWriter
<1>1. StoreInv => NoLateWriter
  BY DEF StoreInv
<1> QED
  BY <1>1, StoreInvHolds, PTL

\* Every chunk of every published checkpoint can be downloaded.
THEOREM StoreDurable == Spec => []PublishedIsStored
<1>1. StoreInv => PublishedIsStored
  BY DEF StoreInv
<1> QED
  BY <1>1, StoreInvHolds, PTL

--------------------------------------------------------------------------------
(* A lease that is lost stays lost *)

\* A row that still grants a lease grants the one it granted before.
GrantsTheSame(row, new) ==
  /\ new # None
  /\ new.ttl > 0 =>
       /\ row.ttl > 0
       /\ new.deviceId = row.deviceId /\ new.fence = row.fence /\ new.leaseHash = row.leaseHash

LEMMA RequestGrants ==
  ASSUME TypeOK, NEW o \in Owner, NEW s \in Stream, NEW identity \in Lease(s),
         \/ Renew(o, s, identity) \/ Release(o, s, identity)
         \/ \E base \in Bases(s), c \in Checkpoint, m \in Manifest :
              Publish(o, s, Input(s, base, identity, c, m))
  PROVE  GrantsTheSame(streams[s], streams'[s]) /\ \A t \in Stream \ {s} : streams'[t] = streams[t]
<1>1. CASE Renew(o, s, identity)
  <2>1. streams[s] \in StreamRow /\ streams'[s] # None /\ streams[s].ttl > 0
    BY <1>1, LeaseRow, NoneAssumption DEF Renew, AssertLease
  <2>2. streams'[s] = [streams[s] EXCEPT !.ttl = LEASE_SECONDS]
    BY <1>1 DEF Renew, TypeOK
  <2> QED
    BY <1>1, <2>1, <2>2 DEF StreamRow, GrantsTheSame, Renew, TypeOK
<1>2. CASE Release(o, s, identity)
  <2>1. streams[s] \in StreamRow /\ streams'[s] # None
    BY <1>2, LeaseRow, NoneAssumption
  <2>2. streams'[s] = [streams[s] EXCEPT !.ttl = 0, !.leaseHash = 0]
    BY <1>2 DEF Release, TypeOK
  <2>3. streams'[s].ttl = 0
    BY <2>1, <2>2 DEF StreamRow
  <2> QED
    BY <1>2, <2>1, <2>3 DEF GrantsTheSame, Release, TypeOK
<1>3. ASSUME NEW base \in Bases(s), NEW c \in Checkpoint, NEW m \in Manifest,
             Publish(o, s, Input(s, base, identity, c, m))
      PROVE  /\ GrantsTheSame(streams[s], streams'[s])
             /\ \A t \in Stream \ {s} : streams'[t] = streams[t]
  <2>1. streams[s] \in StreamRow /\ streams'[s] # None
    BY <1>3, PublishRow, NoneAssumption
  <2>2. streams'[s] = [streams[s] EXCEPT !.revision = streams[s].revision + 1, !.checkpointId = c]
    BY <1>3 DEF Publish, Input, TypeOK
  <2> QED
    BY <1>3, <2>1, <2>2 DEF StreamRow, GrantsTheSame, Publish, TypeOK
<1> QED
  BY <1>1, <1>2, <1>3

LEMMA TickGrants ==
  ASSUME TypeOK, Tick, NEW s \in Stream, streams[s] # None
  PROVE  GrantsTheSame(streams[s], streams'[s])
<1>1. streams[s] \in StreamRow /\ streams'[s] # None
  BY TickRow DEF TypeOK
<1>2. CASE streams[s].ttl > 0
  <2>1. streams'[s] = [streams[s] EXCEPT !.ttl = streams[s].ttl - 1]
    BY <1>2 DEF Tick
  <2> QED
    BY <1>1, <1>2, <2>1 DEF StreamRow, GrantsTheSame
<1>3. CASE ~ (streams[s].ttl > 0)
  BY <1>1, <1>3 DEF Tick, GrantsTheSame
<1> QED
  BY <1>2, <1>3

LEMMA LostStep ==
  ASSUME TypeOK, [Next]_vars, NEW s \in Stream, NEW identity \in Lease(s), Lost(s, identity)
  PROVE  Lost(s, identity)'
<1>1. ASSUME GrantsTheSame(streams[s], streams'[s]) PROVE Lost(s, identity)'
  BY <1>1 DEF GrantsTheSame, Lost, AssertLease
<1>2. ASSUME streams'[s] = streams[s] PROVE Lost(s, identity)'
  BY <1>2 DEF Lost, AssertLease
<1>3. ASSUME NEW o \in Owner, NEW t \in Stream, StreamRequest(o, t) PROVE Lost(s, identity)'
  <2>1. CASE Create(o, t)
    BY <1>2, <2>1 DEF Create, Lost, TypeOK
  <2>2. ASSUME NEW d \in Device, NEW base \in Bases(t), Acquire(o, t, d, base)
        PROVE  Lost(s, identity)'
    <3>1. CASE t = s
      <4>1. /\ streams[s] \in StreamRow /\ streams'[s] \in StreamRow
            /\ streams'[s].fence = streams[s].fence + 1
        BY <2>2, <3>1, AcquireRow
      <4>2. streams[s] # None /\ streams'[s] # None
        BY <4>1, NoneAssumption
      <4>3. streams[s].fence \in Nat /\ Issued(s) = streams[s].fence
        BY <4>1, <4>2 DEF StreamRow, Issued
      <4>4. identity.fence \in Nat /\ identity.fence <= streams[s].fence
        <5>1. granted[s] \in [1..streams[s].fence -> Grant]
          BY <4>3 DEF TypeOK
        <5>2. identity.fence \in 1..streams[s].fence
          BY <5>1, LeaseType
        <5> QED
          BY <4>3, <5>2
      <4> QED
        BY <4>1, <4>2, <4>3, <4>4 DEF Lost, AssertLease
    <3>2. CASE t # s
      BY <1>2, <2>2, <3>2 DEF Acquire, TypeOK
    <3> QED
      BY <3>1, <3>2
  <2>3. ASSUME NEW i \in Lease(t),
               \/ Renew(o, t, i) \/ Release(o, t, i)
               \/ \E base \in Bases(t), c \in Checkpoint, m \in Manifest :
                    Publish(o, t, Input(t, base, i, c, m))
        PROVE  Lost(s, identity)'
    BY <1>1, <1>2, <2>3, RequestGrants
  <2> QED
    BY <1>3, <2>1, <2>2, <2>3 DEF StreamRequest
<1>4. CASE Tick
  BY <1>1, <1>4, TickGrants DEF Lost
<1>5. CASE streams' = streams
  BY <1>2, <1>5
<1> QED
  BY <1>3, <1>4, <1>5
     DEF Next, vars, streamVars, Register, PutReserve, PutBlob, PutMarkReady, PutAbort

\* acquire, renew, release, publish: a lease that has run out, was given back or was
\* taken over is never good again, whoever presents it and however late.
THEOREM StoreLeasesEnd == Spec => LostStaysLost
<1>1. TypeOK /\ [Next]_vars =>
        [\A s \in Stream : \A identity \in Lease(s) : Lost(s, identity) => Lost(s, identity)']_vars
  BY LostStep
<1> QED
  BY <1>1, StoreTypeCorrect, PTL DEF Spec, LostStaysLost

--------------------------------------------------------------------------------
(* The tables implement the append-only history of CheckpointHistory: a       *)
(* refinement mapping, from StoreInv.                                         *)

Count(s) == IF streams[s] = None THEN 0 ELSE streams[s].revision

\* HistoryOf(s) lists exactly the checkpoints of s, each at its own revision.
ListsCheckpoints(s) ==
  /\ Count(s) \in Nat
  /\ HistoryOf(s) \in [1..Count(s) -> Checkpoint]
  /\ \A r \in 1..Count(s) : In(HistoryOf(s)[r], s) /\ Rev(HistoryOf(s)[r]) = r
  /\ \A c \in Checkpoint : In(c, s) => Rev(c) \in 1..Count(s) /\ HistoryOf(s)[Rev(c)] = c

LEMMA HistoryLists == StoreInv => \A s \in Stream : ListsCheckpoints(s)
<1> SUFFICES ASSUME StoreInv, NEW s \in Stream PROVE ListsCheckpoints(s)
  OBVIOUS
<1>1. Count(s) \in Nat
  <2>1. streams[s] # None => streams[s] \in StreamRow
    BY DEF StoreInv, TypeOK
  <2> QED
    BY <2>1 DEF Count, StreamRow
<1>2. HistoryOf(s) = [r \in 1..Count(s) |->
                        IF Numbered(s, r) = {} THEN None
                        ELSE CHOOSE c \in Numbered(s, r) : TRUE]
  BY DEF Count, HistoryOf
<1>3. ASSUME NEW r \in 1..Count(s)
      PROVE  /\ HistoryOf(s)[r] \in Checkpoint
             /\ In(HistoryOf(s)[r], s) /\ Rev(HistoryOf(s)[r]) = r
  <2>1. streams[s] # None /\ r \in 1..streams[s].revision
    BY <1>3 DEF Count
  <2>2. Numbered(s, r) # {}
    BY <2>1 DEF StoreInv, LinearHistory, HeadIsNewest, Numbered
  <2>3. HistoryOf(s)[r] \in Numbered(s, r)
    BY <1>2, <1>3, <2>2
  <2> QED
    BY <2>3 DEF Numbered
<1>4. ASSUME NEW c \in Checkpoint, In(c, s)
      PROVE  Rev(c) \in 1..Count(s) /\ HistoryOf(s)[Rev(c)] = c
  <2>1. NumberedInOrder(s)
    BY DEF StoreInv, LinearHistory
  <2>2. Rev(c) \in 1..Count(s)
    BY <1>4, <2>1 DEF NumberedInOrder, Owns, Count
  <2> QED
    BY <1>3, <1>4, <2>1, <2>2 DEF NumberedInOrder
<1> QED
  BY <1>1, <1>2, <1>3, <1>4 DEF ListsCheckpoints

LEMMA HistoryListsTwice ==
  StoreInv /\ StoreInv' => /\ \A s \in Stream : ListsCheckpoints(s)
                          /\ (\A s \in Stream : ListsCheckpoints(s))'
BY HistoryLists, PTL

\* The same checkpoints at the same revisions are the same list.
LEMMA SameHistory ==
  ASSUME NEW s \in Stream, ListsCheckpoints(s), ListsCheckpoints(s)',
         Count(s)' = Count(s),
         \A c \in Checkpoint : In(c, s) => In(c, s)' /\ Rev(c)' = Rev(c)
  PROVE  HistoryOf(s)' = HistoryOf(s)
<1>1. ASSUME NEW r \in 1..Count(s) PROVE (HistoryOf(s)')[r] = HistoryOf(s)[r]
  <2>1. PICK c \in Checkpoint : c = HistoryOf(s)[r]
    BY <1>1 DEF ListsCheckpoints
  <2>2. In(c, s) /\ Rev(c) = r
    BY <1>1, <2>1 DEF ListsCheckpoints
  <2>3. In(c, s)' /\ Rev(c)' = r
    BY <2>2
  <2> QED
    BY <2>1, <2>3 DEF ListsCheckpoints
<1>2. /\ HistoryOf(s) \in [1..Count(s) -> Checkpoint]
      /\ HistoryOf(s)' \in [1..Count(s) -> Checkpoint]
  BY DEF ListsCheckpoints
<1> DEFINE D == 1..Count(s)
<1>3. ASSUME NEW f \in [D -> Checkpoint], NEW g \in [D -> Checkpoint],
             \A r \in D : f[r] = g[r]
      PROVE  f = g
  <2> HIDE DEF D
  <2> QED
    BY <1>3
<1> QED
  BY <1>1, <1>2, <1>3

\* A transaction that keeps the heads is a stutter of the abstract history.
LEMMA HeadsKeptStutters ==
  ASSUME StoreInv, StoreInv', HeadsKept
  PROVE  [s \in Stream |-> HistoryOf(s)]' = [s \in Stream |-> HistoryOf(s)]
<1>0. (\A s \in Stream : ListsCheckpoints(s)) /\ (\A s \in Stream : ListsCheckpoints(s))'
  BY HistoryListsTwice
<1>1. ASSUME NEW s \in Stream PROVE HistoryOf(s)' = HistoryOf(s)
  <2>1. ListsCheckpoints(s) /\ ListsCheckpoints(s)'
    BY <1>0
  <2>2. Count(s)' = Count(s)
    BY DEF HeadsKept, Count
  <2>3. \A c \in Checkpoint : In(c, s) => In(c, s)' /\ Rev(c)' = Rev(c)
    BY DEF HeadsKept, In, Rev
  <2> QED
    BY <2>1, <2>2, <2>3, SameHistory
<1> QED
  BY <1>1

\* Publishing c in s is appending it to the history of s.
LEMMA PublishAppends ==
  ASSUME StoreInv, StoreInv', NEW o \in Owner, NEW s \in Stream,
         NEW identity \in Lease(s), NEW base \in Bases(s), NEW c \in Checkpoint,
         NEW m \in Manifest, Publish(o, s, Input(s, base, identity, c, m))
  PROVE  History!Append1(s, c)
<1>0. (\A t \in Stream : ListsCheckpoints(t)) /\ (\A t \in Stream : ListsCheckpoints(t))'
  BY HistoryListsTwice
<1>1. TypeOK
  BY DEF StoreInv
<1>2. /\ checkpoints[c] = None /\ checkpoints'[c] # None /\ Rev(c)' = Count(s) + 1
      /\ Count(s) \in Nat /\ Count(s)' = Count(s) + 1
      /\ \A t \in Stream : In(c, t)' <=> t = s
  <2>1. Fingerprint(s, Input(s, base, identity, c, m)).streamId = s
    BY DEF Fingerprint, Input
  <2>2. streams[s] # None /\ streams'[s] # None /\ streams'[s].revision = streams[s].revision + 1
    BY <1>1, PublishRow, NoneAssumption
  <2> QED
    BY <1>0, <1>1, <2>1, <2>2, PublishAdds DEF In, Count, ListsCheckpoints
<1>3. ASSUME NEW t \in Stream, NEW d \in Checkpoint, In(d, t)
      PROVE  d # c /\ In(d, t)' /\ Rev(d)' = Rev(d)
  BY <1>1, <1>3, PublishAdds DEF In, Rev
<1>4. c \notin UNION {{HistoryOf(t)[i] : i \in DOMAIN HistoryOf(t)} : t \in Stream}
  <2>1. ASSUME NEW t \in Stream, NEW i \in DOMAIN HistoryOf(t) PROVE HistoryOf(t)[i] # c
    <3>1. i \in 1..Count(t)
      BY <1>0 DEF ListsCheckpoints
    <3>2. In(HistoryOf(t)[i], t)
      BY <1>0, <3>1 DEF ListsCheckpoints
    <3> QED
      BY <1>2, <3>2 DEF In
  <2> QED
    BY <2>1
<1>5. ASSUME NEW t \in Stream \ {s} PROVE HistoryOf(t)' = HistoryOf(t)
  <2>1. Count(t)' = Count(t)
    BY <1>1, PublishAdds DEF Count
  <2>2. ListsCheckpoints(t) /\ ListsCheckpoints(t)'
    BY <1>0
  <2> QED
    BY <1>3, <2>1, <2>2, SameHistory
<1>6. HistoryOf(s)' = Append(HistoryOf(s), c)
  <2>1. PICK f \in [1..Count(s) -> Checkpoint] : f = HistoryOf(s)
    BY <1>0 DEF ListsCheckpoints
  <2>2. PICK g \in [1..(Count(s) + 1) -> Checkpoint] : g = HistoryOf(s)'
    BY <1>0, <1>2 DEF ListsCheckpoints
  <2>3. g[Count(s) + 1] = c
    BY <1>0, <1>2, <2>2 DEF ListsCheckpoints
  <2>4. ASSUME NEW r \in 1..Count(s) PROVE g[r] = f[r]
    <3>1. In(f[r], s) /\ Rev(f[r]) = r /\ f[r] \in Checkpoint
      BY <1>0, <2>1 DEF ListsCheckpoints
    <3>2. In(f[r], s)' /\ Rev(f[r])' = r
      BY <1>3, <3>1
    <3> QED
      BY <1>0, <2>2, <3>1, <3>2 DEF ListsCheckpoints
  <2>5. f \in Seq(Checkpoint) /\ Len(f) = Count(s)
    BY <1>2
  <2>6. g = Append(f, c)
    BY <1>2, <2>3, <2>4, <2>5
  <2> QED
    BY <2>1, <2>2, <2>6
<1> DEFINE h == [t \in Stream |-> HistoryOf(t)]
<1>7. h' = [h EXCEPT ![s] = Append(@, c)]
  BY <1>5, <1>6
<1> QED
  BY <1>4, <1>7 DEF History!Append1, History!Used

LEMMA InitHistory == Init => History!Init
BY DEF Init, History!Init, HistoryOf

\* Every step publishes nothing and keeps the heads, or publishes one checkpoint.
LEMMA StepKeepsOrPublishes ==
  ASSUME TypeOK, [Next]_vars
  PROVE  \/ HeadsKept
         \/ \E o \in Owner, s \in Stream : \E identity \in Lease(s), base \in Bases(s),
              c \in Checkpoint, m \in Manifest : Publish(o, s, Input(s, base, identity, c, m))
<1>1. CASE \E o \in Owner, s \in Stream : StreamRequest(o, s)
  BY <1>1, CreateKeepsHeads, AcquireKeepsHeads, LeaseKeepsHeads DEF StreamRequest
<1>2. CASE Tick
  BY <1>2, TickKeepsHeads
<1>3. CASE UNCHANGED streamVars
  BY <1>3 DEF HeadsKept, streamVars
<1> QED
  BY <1>1, <1>2, <1>3
     DEF Next, vars, streamVars, Register, PutReserve, PutBlob, PutMarkReady, PutAbort

\* A transaction appends one new checkpoint to one stream or leaves every history as
\* it was.
LEMMA StepAppends ==
  ASSUME StoreInv, StoreInv', [Next]_vars
  PROVE  [History!Next]_([s \in Stream |-> HistoryOf(s)])
<1>1. CASE HeadsKept
  BY <1>1, HeadsKeptStutters
<1>2. CASE \E o \in Owner, s \in Stream : \E identity \in Lease(s), base \in Bases(s),
             c \in Checkpoint, m \in Manifest : Publish(o, s, Input(s, base, identity, c, m))
  BY <1>2, PublishAppends DEF History!Next
<1> QED
  BY <1>1, <1>2, StepKeepsOrPublishes DEF StoreInv

\* The tables implement the append-only history: what is published becomes the head
\* of one stream, and is never altered, reordered or reused.
THEOREM StoreImplementsHistory == Spec => AppendOnly
<1>1. StoreInv /\ StoreInv' /\ [Next]_vars =>
        [History!Next]_([s \in Stream |-> HistoryOf(s)])
  BY StepAppends
<1> QED
  BY <1>1, InitHistory, StoreInvHolds, PTL DEF Spec, AppendOnly, History!Spec

--------------------------------------------------------------------------------
(* What an account is charged.  Sum is a fold that takes the elements of a   *)
(* set in an order of its own; that it grows by what one element weighs is   *)
(* shown by the smallest counterexample.                                     *)
Sum(S) == MapThenSumSet(LAMBDA h : Bytes[h], S)

LEMMA SmallestExists ==
  ASSUME NEW S, IsFiniteSet(S), NEW F, F \subseteq SUBSET S, F # {}
  PROVE  \E r \in F : \A q \in F : q \subseteq r => q = r
<1> DEFINE N == {Cardinality(r) : r \in F}
<1>1. \A r \in F : IsFiniteSet(r) /\ Cardinality(r) \in Nat
  BY FS_Subset, FS_CardinalityType
<1>2. N # {} /\ N \subseteq Nat
  BY <1>1
<1>3. PICK n \in N : \A m \in N : <<m, n>> \notin OpToRel(<, Nat)
  <2> HIDE DEF N
  <2> QED
    BY <1>2, NatLessThanWellFounded, WFMin
<1>4. PICK r \in F : n = Cardinality(r)
  BY <1>3
<1>5. ASSUME NEW q \in F, q \subseteq r PROVE q = r
  <2>1. Cardinality(q) \in N /\ Cardinality(q) \in Nat /\ Cardinality(r) \in Nat
    BY <1>1
  <2>2. ~ (Cardinality(q) < Cardinality(r))
    <3> HIDE DEF N
    <3> QED
      BY <1>3, <1>4, <2>1 DEF OpToRel
  <2>3. Cardinality(q) <= Cardinality(r) /\ (Cardinality(r) = Cardinality(q) => r = q)
    BY <1>1, <1>5, FS_Subset
  <2> QED
    BY <2>1, <2>2, <2>3
<1> QED
  BY <1>4, <1>5

(* The recursion of the fold, and its existence up to sets of n elements. *)
Pick(s) == CHOOSE x \in s : TRUE
Weigh(t, s) == IF s = {} THEN 0 ELSE Bytes[Pick(s)] + t[s \ {Pick(s)}]
Totals(t, T) == t = [s \in T |-> Weigh(t, s)]
UpTo(S, n) == {s \in SUBSET S : Cardinality(s) <= n}

LEMMA WeighAlike ==
  ASSUME NEW t, NEW u, NEW s, s # {} => t[s \ {Pick(s)}] = u[s \ {Pick(s)}]
  PROVE  Weigh(t, s) = Weigh(u, s)
BY DEF Weigh

LEMMA PickIn == ASSUME NEW s, s # {} PROVE Pick(s) \in s
BY DEF Pick

LEMMA TotalsExist ==
  ASSUME NEW S, IsFiniteSet(S)
  PROVE  \E t : Totals(t, SUBSET S)
<1> DEFINE P(n) == \E t : Totals(t, UpTo(S, n))
           N == {n \in Nat : ~P(n)}
<1>1. \A s \in SUBSET S : IsFiniteSet(s) /\ Cardinality(s) \in Nat /\ Cardinality(s) <= Cardinality(S)
  BY FS_Subset, FS_CardinalityType
<1>2. UpTo(S, Cardinality(S)) = SUBSET S /\ Cardinality(S) \in Nat
  BY <1>1, FS_CardinalityType DEF UpTo
<1>3. ASSUME N # {} PROVE FALSE
  <2>1. PICK n \in N : \A m \in N : <<m, n>> \notin OpToRel(<, Nat)
    <3>1. N \subseteq Nat
      OBVIOUS
    <3> HIDE DEF N
    <3> QED
      BY <1>3, <3>1, NatLessThanWellFounded, WFMin
  <2>2. P(0)
    <3> DEFINE h == [s \in UpTo(S, 0) |-> 0]
    <3>1. \A s \in UpTo(S, 0) : s = {}
      BY <1>1, FS_EmptySet DEF UpTo
    <3>2. \A s \in UpTo(S, 0) : Weigh(h, s) = 0
      BY <3>1 DEF Weigh
    <3>3. Totals(h, UpTo(S, 0))
      BY <3>2 DEF Totals
    <3> QED
      BY <3>3
  <2>3. n \in Nat /\ n # 0 /\ n - 1 \in Nat /\ n - 1 < n
    <3>1. n \in Nat /\ ~P(n)
      BY <2>1
    <3> HIDE DEF P
    <3> QED
      BY <2>2, <3>1
  <2>4. P(n - 1)
    <3>1. <<n - 1, n>> \in OpToRel(<, Nat)
      BY <2>3 DEF OpToRel
    <3>2. n - 1 \notin N
      <4> HIDE DEF N
      <4> QED
        BY <2>1, <3>1
    <3> QED
      BY <2>3, <3>2
  <2>5. PICK t : Totals(t, UpTo(S, n - 1))
    BY <2>4
  <2> DEFINE h == [s \in UpTo(S, n) |-> Weigh(t, s)]
  <2>6. ASSUME NEW s \in UpTo(S, n - 1) PROVE h[s] = t[s] /\ s \in UpTo(S, n)
    <3>1. s \in UpTo(S, n)
      BY <1>1, <2>3 DEF UpTo
    <3>2. t[s] = Weigh(t, s)
      BY <2>5 DEF Totals
    <3> QED
      BY <3>1, <3>2
  <2>7. ASSUME NEW s \in UpTo(S, n), s # {} PROVE s \ {Pick(s)} \in UpTo(S, n - 1)
    <3>1. IsFiniteSet(s) /\ Cardinality(s) \in Nat /\ Cardinality(s) <= n /\ Pick(s) \in s
      BY <1>1, <2>7, PickIn DEF UpTo
    <3>2. Cardinality(s \ {Pick(s)}) = Cardinality(s) - 1
      BY <3>1, FS_RemoveElement
    <3> QED
      BY <2>3, <3>1, <3>2 DEF UpTo
  <2>8. ASSUME NEW s \in UpTo(S, n) PROVE h[s] = Weigh(h, s)
    <3>1. s # {} => t[s \ {Pick(s)}] = h[s \ {Pick(s)}]
      BY <2>6, <2>7
    <3>2. h[s] = Weigh(t, s)
      OBVIOUS
    <3> HIDE DEF h
    <3> QED
      BY <3>1, <3>2, WeighAlike
  <2>9. Totals(h, UpTo(S, n))
    <3>1. h = [s \in UpTo(S, n) |-> h[s]]
      OBVIOUS
    <3> HIDE DEF h
    <3> QED
      BY <2>8, <3>1 DEF Totals
  <2> QED
    BY <2>1, <2>9
<1>4. P(Cardinality(S))
  BY <1>2, <1>3
<1> QED
  BY <1>2, <1>4

LEMMA SumIs ==
  ASSUME NEW S, IsFiniteSet(S)
  PROVE  \E t : Totals(t, SUBSET S) /\ Sum(S) = t[S]
<1> DEFINE t == CHOOSE u : Totals(u, SUBSET S)
<1>1. Totals(t, SUBSET S)
  BY TotalsExist
<1>2. Sum(S) = t[S]
  BY DEF Sum, MapThenSumSet, MapThenFoldSet, Totals, Weigh, Pick
<1> HIDE DEF t
<1> QED
  BY <1>1, <1>2

(* The order does not matter: any element may be taken first. *)
Even(t, r) == t[r] \in Nat /\ \A x \in r : t[r] = Bytes[x] + t[r \ {x}]

LEMMA TotalsEven ==
  ASSUME NEW S \in SUBSET Digest, IsFiniteSet(S), NEW t, Totals(t, SUBSET S), NEW q \in SUBSET S
  PROVE  Even(t, q)
<1> DEFINE F == {r \in SUBSET S : ~Even(t, r)}
<1> SUFFICES ASSUME F # {} PROVE FALSE
  OBVIOUS
<1>1. F \subseteq SUBSET S
  OBVIOUS
<1>2. PICK r \in F : \A p \in F : p \subseteq r => p = r
  <2> HIDE DEF F
  <2> QED
    BY <1>1, SmallestExists
<1>3. r \in SUBSET S /\ ~Even(t, r)
  BY <1>2
<1>4. ASSUME NEW p \in SUBSET r, p # r PROVE Even(t, p)
  BY <1>2, <1>3, <1>4
<1>5. t[r] = Weigh(t, r)
  BY <1>3 DEF Totals
<1>6. r # {}
  <2> SUFFICES ASSUME r = {} PROVE FALSE
    OBVIOUS
  <2>1. t[r] = 0
    BY <1>5 DEF Weigh
  <2> QED
    BY <1>3, <2>1 DEF Even
<1> DEFINE c == Pick(r)
<1>7. c \in r /\ \A x \in r : x \in Digest /\ Bytes[x] \in Nat
  BY <1>3, <1>6, PickIn, BytesAssumption
<1>8. t[r] = Bytes[c] + t[r \ {c}]
  BY <1>5, <1>6 DEF Weigh
<1> HIDE DEF F, c
<1>9. Even(t, r \ {c})
  BY <1>4, <1>7
<1>10. t[r] \in Nat
  BY <1>7, <1>8, <1>9 DEF Even
<1>11. ASSUME NEW x \in r PROVE t[r] = Bytes[x] + t[r \ {x}]
  <2>1. CASE x = c
    BY <1>8, <2>1
  <2>2. CASE x # c
    <3> DEFINE p == r \ {c, x}
    <3>1. (r \ {c}) \ {x} = p /\ (r \ {x}) \ {c} = p /\ p \in SUBSET r /\ p # r
      BY <1>7
    <3>2. t[r \ {c}] = Bytes[x] + t[p]
      <4>1. x \in r \ {c}
        BY <2>2
      <4> QED
        BY <1>9, <3>1, <4>1 DEF Even
    <3>3. t[r \ {x}] = Bytes[c] + t[p]
      <4>1. c \in r \ {x} /\ r \ {x} # r /\ r \ {x} \in SUBSET r
        BY <1>7, <2>2
      <4>2. Even(t, r \ {x})
        BY <1>4, <4>1
      <4> QED
        BY <3>1, <4>1, <4>2 DEF Even
    <3>4. t[p] \in Nat
      BY <1>4, <3>1 DEF Even
    <3> HIDE DEF p
    <3> QED
      BY <1>7, <1>8, <3>2, <3>3, <3>4
  <2> QED
    BY <2>1, <2>2
<1> QED
  BY <1>3, <1>10, <1>11 DEF Even

LEMMA TotalsAgree ==
  ASSUME NEW S, IsFiniteSet(S), NEW t, Totals(t, SUBSET S),
         NEW R, NEW u, Totals(u, SUBSET R), S \subseteq R
  PROVE  t[S] = u[S]
<1> DEFINE F == {r \in SUBSET S : t[r] # u[r]}
<1> SUFFICES ASSUME F # {} PROVE FALSE
  OBVIOUS
<1>1. F \subseteq SUBSET S
  OBVIOUS
<1>2. PICK r \in F : \A p \in F : p \subseteq r => p = r
  <2> HIDE DEF F
  <2> QED
    BY <1>1, SmallestExists
<1>3. r \in SUBSET S /\ r \in SUBSET R /\ t[r] # u[r]
  BY <1>2
<1>4. t[r] = Weigh(t, r) /\ u[r] = Weigh(u, r)
  BY <1>3 DEF Totals
<1>5. r # {} => t[r \ {Pick(r)}] = u[r \ {Pick(r)}]
  <2> SUFFICES ASSUME r # {} PROVE t[r \ {Pick(r)}] = u[r \ {Pick(r)}]
    OBVIOUS
  <2>1. r \ {Pick(r)} \in SUBSET S /\ r \ {Pick(r)} # r /\ r \ {Pick(r)} \subseteq r
    BY <1>3, PickIn
  <2> QED
    BY <1>2, <2>1
<1> QED
  BY <1>3, <1>4, <1>5, WeighAlike

LEMMA SumGrows ==
  ASSUME NEW S \in SUBSET Digest, IsFiniteSet(S), NEW h \in Digest \ S
  PROVE  /\ IsFiniteSet(S \cup {h}) /\ Sum(S) \in Nat
         /\ Sum(S \cup {h}) = Sum(S) + Bytes[h]
<1> DEFINE R == S \cup {h}
<1>1. IsFiniteSet(R) /\ R \in SUBSET Digest /\ S \in SUBSET R /\ h \in R /\ R \ {h} = S
  BY FS_AddElement
<1>2. PICK t : Totals(t, SUBSET S) /\ Sum(S) = t[S]
  BY SumIs
<1> HIDE DEF R
<1>3. PICK u : Totals(u, SUBSET R) /\ Sum(R) = u[R]
  BY <1>1, SumIs
<1>4. t[S] = u[S]
  BY <1>1, <1>2, <1>3, TotalsAgree
<1>5. Even(u, R) /\ Even(t, S)
  <2>1. R \in SUBSET R /\ S \in SUBSET S
    OBVIOUS
  <2> QED
    BY <1>1, <1>2, <1>3, <2>1, TotalsEven
<1>6. Bytes[h] \in Nat
  BY BytesAssumption
<1>7. u[R] = Bytes[h] + u[S]
  BY <1>1, <1>5 DEF Even
<1>8. t[S] \in Nat
  BY <1>5 DEF Even
<1>9. Sum(R) = Sum(S) + Bytes[h] /\ Sum(S) \in Nat
  BY <1>2, <1>3, <1>4, <1>6, <1>7, <1>8
<1> QED
  BY <1>1, <1>9 DEF R

LEMMA SumOfNone == Sum({}) = 0
<1>1. PICK t : Totals(t, SUBSET {}) /\ Sum({}) = t[{}]
  BY SumIs, FS_EmptySet
<1>2. t[{}] = Weigh(t, {})
  <2>1. {} \in SUBSET {}
    OBVIOUS
  <2> QED
    BY <1>1, <2>1 DEF Totals
<1> QED
  BY <1>1, <1>2 DEF Weigh

(* What an account has begun to store is finite, and an upload under way has *)
(* reserved its chunk.                                                       *)
Begun(o) == {h \in Digest : objects[o][h] # "absent"}
QuotaInv ==
  /\ QuotaExact
  /\ \A o \in Owner : IsFiniteSet(Begun(o))
  /\ \A u \in Upload : uploads[u] # Free =>
       objects[uploads[u].ownerId][uploads[u].digest] # "absent"

LEMMA ChargedIs == ASSUME NEW o \in Owner PROVE Charged(o) = Sum(Begun(o))
BY DEF Charged, Sum, Begun

LEMMA ChargedIsNext == ASSUME NEW o \in Owner PROVE Charged(o)' = Sum(Begun(o)')
BY DEF Charged, Sum, Begun, MapThenSumSet, MapThenFoldSet

LEMMA QuotaInit == Init => QuotaInv
<1> SUFFICES ASSUME Init PROVE QuotaInv
  OBVIOUS
<1>1. \A o \in Owner : Begun(o) = {}
  BY DEF Init, Begun
<1>2. \A o \in Owner : Charged(o) = 0
  BY <1>1, ChargedIs, SumOfNone
<1>3. \A o \in Owner : quotas[o] = 0
  BY DEF Init
<1>4. QuotaExact
  BY <1>2, <1>3, BoundAssumption DEF QuotaExact
<1>5. \A u \in Upload : uploads[u] = Free
  BY DEF Init
<1> QED
  BY <1>1, <1>4, <1>5, FS_EmptySet DEF QuotaInv

(* Most steps leave what is begun and what is charged alone. *)
LEMMA QuotaKept ==
  ASSUME QuotaInv, quotas' = quotas, \A o \in Owner : Begun(o)' = Begun(o),
         \A u \in Upload : uploads'[u] # Free =>
           objects'[uploads'[u].ownerId][uploads'[u].digest] # "absent"
  PROVE  QuotaInv'
<1>1. \A o \in Owner : Charged(o)' = Charged(o)
  BY ChargedIs, ChargedIsNext
<1>2. QuotaExact'
  BY <1>1 DEF QuotaInv, QuotaExact
<1> QED
  BY <1>2 DEF QuotaInv

LEMMA QuotaReserved ==
  ASSUME TypeOK, QuotaInv, NEW u \in Upload, NEW o \in Owner, NEW h \in Digest, PutReserve(u, o, h)
  PROVE  QuotaInv'
<1>1. /\ objects \in [Owner -> [Digest -> {"absent", "reserved", "ready"}]]
      /\ quotas \in [Owner -> Nat] /\ uploads \in [Upload -> UploadState]
  BY DEF TypeOK
<1> DEFINE put == [at |-> "put", ownerId |-> o, digest |-> h]
<1>2. uploads' = [uploads EXCEPT ![u] = put] /\ put.ownerId = o /\ put.digest = h
  BY DEF PutReserve
<1>3. uploads'[u] = put /\ \A v \in Upload \ {u} : uploads'[v] = uploads[v]
  BY <1>1, <1>2
<1>4. \A v \in Upload \ {u} : uploads[v] # Free =>
        uploads[v].ownerId \in Owner /\ uploads[v].digest \in Digest
  BY <1>1 DEF UploadState
<1> HIDE DEF put
<1>5. CASE UNCHANGED <<objects, quotas>> /\ objects[o][h] = "reserved"
  <2>1. objects' = objects /\ quotas' = quotas /\ objects[o][h] # "absent"
    BY <1>5
  <2>2. \A p \in Owner : Begun(p)' = Begun(p)
    BY <2>1 DEF Begun
  <2>3. \A v \in Upload : uploads'[v] # Free =>
          objects'[uploads'[v].ownerId][uploads'[v].digest] # "absent"
    BY <1>2, <1>3, <2>1 DEF QuotaInv
  <2> QED
    BY <2>1, <2>2, <2>3, QuotaKept
<1>6. CASE /\ objects[o][h] = "absent" /\ CanReserve(o, h)
           /\ objects' = [objects EXCEPT ![o][h] = "reserved"]
           /\ quotas' = [quotas EXCEPT ![o] = @ + Bytes[h]]
  <2>1. /\ objects'[o][h] = "reserved"
        /\ \A p \in Owner, g \in Digest : <<p, g>> # <<o, h>> => objects'[p][g] = objects[p][g]
    BY <1>1, <1>6
  <2>2. quotas'[o] = quotas[o] + Bytes[h] /\ \A p \in Owner \ {o} : quotas'[p] = quotas[p]
    BY <1>1, <1>6
  <2>3. Begun(o)' = Begun(o) \cup {h} /\ h \in Digest \ Begun(o) /\ Begun(o) \in SUBSET Digest
    BY <1>6, <2>1 DEF Begun
  <2>4. \A p \in Owner \ {o} : Begun(p)' = Begun(p)
    BY <2>1 DEF Begun
  <2>5. /\ IsFiniteSet(Begun(o)') /\ Sum(Begun(o)) \in Nat
        /\ Sum(Begun(o)') = Sum(Begun(o)) + Bytes[h]
    BY <2>3, SumGrows DEF QuotaInv
  <2>6. Charged(o)' = Charged(o) + Bytes[h]
    BY <2>5, ChargedIs, ChargedIsNext
  <2>7. \A p \in Owner \ {o} : Charged(p)' = Charged(p)
    BY <2>4, ChargedIs, ChargedIsNext
  <2>8. QuotaExact'
    <3>1. quotas'[o] = Charged(o)' /\ quotas'[o] <= MAX_ACCOUNT_BYTES
      BY <1>6, <2>2, <2>6 DEF QuotaInv, QuotaExact, CanReserve
    <3>2. \A p \in Owner \ {o} : quotas'[p] = Charged(p)' /\ quotas'[p] <= MAX_ACCOUNT_BYTES
      BY <2>2, <2>7 DEF QuotaInv, QuotaExact
    <3> QED
      BY <3>1, <3>2 DEF QuotaExact
  <2>9. \A p \in Owner : IsFiniteSet(Begun(p)')
    BY <2>4, <2>5 DEF QuotaInv
  <2>10. \A v \in Upload : uploads'[v] # Free =>
           objects'[uploads'[v].ownerId][uploads'[v].digest] # "absent"
    BY <1>2, <1>3, <1>4, <2>1 DEF QuotaInv
  <2> QED
    BY <2>8, <2>9, <2>10 DEF QuotaInv
<1> QED
  BY <1>5, <1>6 DEF PutReserve

LEMMA QuotaMarked ==
  ASSUME TypeOK, QuotaInv, NEW u \in Upload, PutMarkReady(u)
  PROVE  QuotaInv'
<1>1. /\ objects \in [Owner -> [Digest -> {"absent", "reserved", "ready"}]]
      /\ uploads \in [Upload -> UploadState]
  BY DEF TypeOK
<1>2. uploads[u].at = "mark" /\ uploads[u] # Free
  BY DEF PutMarkReady, Free
<1> DEFINE o == uploads[u].ownerId
           h == uploads[u].digest
<1>3. o \in Owner /\ h \in Digest
  BY <1>1, <1>2 DEF UploadState
<1>4. objects[o][h] # "absent"
  BY <1>2 DEF QuotaInv
<1>5. /\ objects' = [objects EXCEPT ![o][h] = "ready"] /\ quotas' = quotas
      /\ uploads' = [uploads EXCEPT ![u] = Free]
  BY DEF PutMarkReady
<1> HIDE DEF o, h
<1>6. /\ objects'[o][h] = "ready"
      /\ \A p \in Owner, g \in Digest : <<p, g>> # <<o, h>> => objects'[p][g] = objects[p][g]
  BY <1>1, <1>3, <1>5
<1>7. \A p \in Owner, g \in Digest : objects'[p][g] = "absent" <=> objects[p][g] = "absent"
  BY <1>3, <1>4, <1>6
<1>8. \A p \in Owner : Begun(p)' = Begun(p)
  BY <1>7 DEF Begun
<1>9. uploads'[u] = Free /\ \A v \in Upload \ {u} : uploads'[v] = uploads[v]
  BY <1>1, <1>5
<1>10. \A v \in Upload : uploads[v] # Free =>
         uploads[v].ownerId \in Owner /\ uploads[v].digest \in Digest
  BY <1>1 DEF UploadState
<1>11. \A v \in Upload : uploads'[v] # Free =>
         objects'[uploads'[v].ownerId][uploads'[v].digest] # "absent"
  BY <1>7, <1>9, <1>10 DEF QuotaInv
<1> QED
  BY <1>5, <1>8, <1>11, QuotaKept

LEMMA QuotaBlob ==
  ASSUME TypeOK, QuotaInv, NEW u \in Upload, PutBlob(u) \/ PutAbort(u)
  PROVE  QuotaInv'
<1>1. uploads \in [Upload -> UploadState]
  BY DEF TypeOK
<1>2. objects' = objects /\ quotas' = quotas
  BY DEF PutBlob, PutAbort
<1>3. \A p \in Owner : Begun(p)' = Begun(p)
  BY <1>2 DEF Begun
<1>4. \A v \in Upload \ {u} : uploads'[v] = uploads[v]
  BY <1>1 DEF PutBlob, PutAbort
<1>5. uploads'[u] # Free =>
        /\ uploads[u] # Free
        /\ uploads'[u].ownerId = uploads[u].ownerId /\ uploads'[u].digest = uploads[u].digest
  <2>1. CASE PutAbort(u)
    BY <1>1, <2>1 DEF PutAbort
  <2>2. CASE PutBlob(u)
    <3>1. uploads[u] # Free /\ uploads[u] \in UploadState
      BY <1>1, <2>2 DEF PutBlob, Free
    <3>2. uploads[u] \in [at : {"put", "mark"}, ownerId : Owner, digest : Digest]
      BY <3>1 DEF UploadState
    <3>3. uploads'[u] = [uploads[u] EXCEPT !.at = "mark"]
      BY <1>1, <2>2 DEF PutBlob
    <3> QED
      BY <3>1, <3>2, <3>3
  <2> QED
    BY <2>1, <2>2
<1>6. \A v \in Upload : uploads'[v] # Free =>
        objects'[uploads'[v].ownerId][uploads'[v].digest] # "absent"
  BY <1>2, <1>4, <1>5 DEF QuotaInv
<1> QED
  BY <1>2, <1>3, <1>6, QuotaKept

LEMMA QuotaStep == TypeOK /\ QuotaInv /\ [Next]_vars => QuotaInv'
<1> SUFFICES ASSUME TypeOK, QuotaInv, [Next]_vars PROVE QuotaInv'
  OBVIOUS
<1>1. CASE UNCHANGED objectVars
  <2>1. objects' = objects /\ quotas' = quotas /\ uploads' = uploads
    BY <1>1
  <2>2. \A p \in Owner : Begun(p)' = Begun(p)
    BY <2>1 DEF Begun
  <2>3. \A v \in Upload : uploads'[v] # Free =>
          objects'[uploads'[v].ownerId][uploads'[v].digest] # "absent"
    BY <2>1 DEF QuotaInv
  <2> QED
    BY <2>1, <2>2, <2>3, QuotaKept
<1>2. CASE UNCHANGED vars
  BY <1>1, <1>2 DEF vars
<1>3. CASE Tick
  BY <1>1, <1>3 DEF Tick
<1>4. CASE \E o \in Owner, d \in Device : Register(o, d)
  BY <1>1, <1>4 DEF Register
<1>5. CASE \E o \in Owner, s \in Stream : StreamRequest(o, s)
  <2>1. UNCHANGED objectVars
    <3>1. PICK o \in Owner, s \in Stream : StreamRequest(o, s)
      BY <1>5
    <3>2. Create(o, s) => UNCHANGED objectVars
      BY DEF Create
    <3>3. \A d \in Device, base \in Bases(s) : Acquire(o, s, d, base) => UNCHANGED objectVars
      BY DEF Acquire
    <3>4. \A identity \in Lease(s) : Renew(o, s, identity) => UNCHANGED objectVars
      BY DEF Renew
    <3>5. \A identity \in Lease(s) : Release(o, s, identity) => UNCHANGED objectVars
      BY DEF Release
    <3>6. \A input : Publish(o, s, input) => UNCHANGED objectVars
      BY DEF Publish
    <3> QED
      BY <3>1, <3>2, <3>3, <3>4, <3>5, <3>6, Zenon DEF StreamRequest
  <2> QED
    BY <1>1, <2>1
<1>6. CASE \E u \in Upload, o \in Owner, h \in Digest : PutReserve(u, o, h)
  BY <1>6, QuotaReserved
<1>7. CASE \E u \in Upload : PutBlob(u)
  BY <1>7, QuotaBlob
<1>8. CASE \E u \in Upload : PutMarkReady(u)
  BY <1>8, QuotaMarked
<1>9. CASE \E u \in Upload : PutAbort(u)
  BY <1>9, QuotaBlob
<1> QED
  BY <1>2, <1>3, <1>4, <1>5, <1>6, <1>7, <1>8, <1>9 DEF Next

(* An account is charged once for each chunk it has begun to store, retries  *)
(* and concurrent uploads included, and never beyond its limit               *)
(* (reserveObject).                                                          *)
THEOREM StoreChargesExactly == Spec => []QuotaExact
<1>1. Spec => []TypeOK
  BY StoreTypeCorrect
<1>2. QuotaInv => QuotaExact
  BY DEF QuotaInv
<1> QED
  BY <1>1, <1>2, QuotaInit, QuotaStep, PTL DEF Spec
================================================================================
