------------------------- MODULE ContinuitySync_proofs -------------------------
(***************************************************************************)
(* Proofs about ContinuitySync, for any PCs, checkpoints, leases and number *)
(* of faults.                                                              *)
(***************************************************************************)
EXTENDS ContinuitySync, WellFoundedInduction, TLAPS

USE DEF storeVars, diskVars, runVars

--------------------------------------------------------------------------------
(* The largest of a bounded set of numbers *)

LEMMA LeastExists ==
  ASSUME NEW T, T \subseteq Nat, T # {}
  PROVE  \E x \in T : \A y \in T : x <= y
<1>1. PICK x \in T : \A y \in T : <<y, x>> \notin OpToRel(<, Nat)
  BY NatLessThanWellFounded, WFMin
<1>2. ASSUME NEW y \in T PROVE x <= y
  <2>1. ~ (y < x)
    BY <1>1 DEF OpToRel
  <2> QED
    BY <2>1
<1> QED
  BY <1>2

LEMMA MaxExists ==
  ASSUME NEW S, NEW n \in Nat, S \subseteq 0..n, S # {}
  PROVE  Max(S) \in S /\ \A y \in S : y <= Max(S)
<1> DEFINE T == {n - r : r \in S}
<1>1. T \subseteq Nat /\ T # {}
  OBVIOUS
<1>2. PICK x \in T : \A y \in T : x <= y
  BY <1>1, LeastExists
<1>3. PICK r \in S : x = n - r
  OBVIOUS
<1>4. ASSUME NEW y \in S PROVE y <= r
  <2>1. n - r <= n - y
    BY <1>2, <1>3
  <2> QED
    BY <2>1
<1>5. \E m \in S : \A y \in S : m >= y
  BY <1>4
<1> QED
  BY <1>5 DEF Max

--------------------------------------------------------------------------------
(* The invariant *)

HeadRevision == IF Row = None THEN 0 ELSE Row.revision
Revision(c) == checkpoints[c].revision

\* work has all that was published up to revision r.
Knows(work, r) == \A d \in Checkpoint : Committed(d) /\ Revision(d) <= r => d \in work

StoreOK ==
  /\ streams \in [{Conversation} -> Store!StreamRow \cup {None}]
  /\ checkpoints \in [Checkpoint -> Store!CheckpointRow \cup {None}]

\* The service numbers the checkpoints 1, 2, ... and its head is the last one.
Numbered ==
  /\ \A c \in Checkpoint : Committed(c) =>
       /\ job[c] # None /\ Revision(c) = job[c].base + 1
       /\ Row # None /\ Revision(c) <= Row.revision
  /\ \A c, d \in Checkpoint : Committed(c) /\ Committed(d) /\ Revision(c) = Revision(d) => c = d
  /\ Row # None /\ Row.checkpointId # None =>
       /\ Row.checkpointId \in Checkpoint /\ Committed(Row.checkpointId)
       /\ Revision(Row.checkpointId) = Row.revision

\* Captured work has all that was published up to its base.
JobsKnow ==
  \A c \in Checkpoint : job[c] # None =>
    job[c].base <= HeadRevision /\ Knows(job[c].content, job[c].base)

LateOK ==
  \A r \in late :
    /\ r.kind = "acquire" => r.pc \in PC /\ r.base \in Nat
    /\ r.kind = "publish" =>
         /\ r.input.id \in Checkpoint /\ job[r.input.id] # None
         /\ r.input.deviceId \in PC /\ r.input.manifest = {}
         /\ r.input.baseRevision = job[r.input.id].base

\* What is bound, queued, acknowledged and under way on one PC.
BindingOK(p) ==
  binding[p] # None =>
    /\ local[p] \in SUBSET Checkpoint
    /\ binding[p].revision <= HeadRevision /\ Knows(local[p], binding[p].revision)

QueuedOK(p) ==
  \A c \in Checkpoint : "pending" \in files[p][c] /\ "sent" \notin files[p][c] =>
    /\ job[c] # None
    /\ local[p] \in SUBSET Checkpoint /\ job[c].content \cup {c} \subseteq local[p]

ReceiptsOK(p) ==
  \A c \in Checkpoint : "sent" \in files[p][c] =>
    /\ Committed(c) /\ Revision(c) = receipt[c]
    /\ local[p] \in SUBSET Checkpoint /\ Knows(local[p], Revision(c))

Uploading == {"head", "acquire", "upload", "publish"}

RunOK(p) ==
  /\ at[p] \in Uploading => cur[p] \in Queued(files[p])
  /\ at[p] = "restore" =>
       /\ cur[p] \in Checkpoint /\ Committed(cur[p])
       /\ \A c \in Receipts(p) : Revision(c) <= Revision(cur[p])
  /\ at[p] = "capture" => after[p] \in {"send", "syncNow", "tick"}
  /\ after[p] = "send" => local[p] \in SUBSET Checkpoint
  /\ after[p] = "syncNow" => binding[p] # None

PcOK(p) == BindingOK(p) /\ QueuedOK(p) /\ ReceiptsOK(p) /\ RunOK(p)

SyncInv ==
  /\ TypeOK /\ StoreOK /\ Numbered /\ JobsKnow /\ LateOK /\ NothingLost
  /\ \A p \in PC : PcOK(p)

LEMMA SyncInit == Init => SyncInv
<1> SUFFICES ASSUME Init PROVE SyncInv
  OBVIOUS
<1>1. TypeOK
  BY DEF Init, TypeOK, Queued, Awaits
<1>2. StoreOK /\ Numbered /\ JobsKnow /\ LateOK /\ NothingLost
  BY DEF Init, StoreOK, Numbered, JobsKnow, LateOK, NothingLost, Committed, Row
<1>3. ASSUME NEW p \in PC PROVE PcOK(p)
  BY <1>3 DEF Init, PcOK, BindingOK, QueuedOK, ReceiptsOK, RunOK, Uploading, Queued, Receipts
<1> QED
  BY <1>1, <1>2, <1>3 DEF SyncInv

--------------------------------------------------------------------------------
(* What a transaction of the service does to the head and the checkpoints *)

\* A transaction other than publish: nothing that is published changes.
SameHead ==
  /\ streams' \in [{Conversation} -> Store!StreamRow \cup {None}]
  /\ checkpoints' = checkpoints
  /\ HeadRevision' = HeadRevision
  /\ Row # None => Row' # None
  /\ Row' # None /\ Row'.checkpointId # None => Row # None /\ Row'.checkpointId = Row.checkpointId

\* c becomes the head, made on the one before it.
BecomesHead(c) ==
  /\ streams' \in [{Conversation} -> Store!StreamRow \cup {None}]
  /\ Row # None /\ Row' # None
  /\ Row'.revision = Row.revision + 1 /\ Row'.checkpointId = c
  /\ checkpoints[c] = None /\ job[c] # None /\ job[c].base = Row.revision
  /\ checkpoints' = [checkpoints EXCEPT ![c] = checkpoints'[c]]
  /\ checkpoints'[c] \in Store!CheckpointRow
  /\ checkpoints'[c].revision = Row.revision + 1

StoreMoves == SameHead \/ \E c \in Checkpoint : BecomesHead(c)

LEMMA RowType == ASSUME StoreOK PROVE Row = None \/ Row \in Store!StreamRow
BY DEF StoreOK, Row

LEMMA StoredUnchanged ==
  ASSUME StoreOK, UNCHANGED <<streams, checkpoints>> PROVE SameHead
BY DEF StoreOK, SameHead, HeadRevision, Row

LEMMA CreateMoves ==
  ASSUME StoreOK, Store!Create(Account, Conversation) PROVE SameHead
<1>1. Row = None /\ checkpoints' = checkpoints
  BY DEF Store!Create, Row
<1>2. Row' = [ownerId |-> Account, revision |-> 0, checkpointId |-> None,
              deviceId |-> None, leaseHash |-> 0, ttl |-> 0, fence |-> 0]
  BY DEF Store!Create, Row, StoreOK
<1>3. Row' \in Store!StreamRow
  BY <1>2, SyncBounds DEF Store!StreamRow
<1>4. streams' = [streams EXCEPT ![Conversation] = Row']
  BY <1>2 DEF Store!Create
<1> QED
  BY <1>1, <1>2, <1>3, <1>4, SyncNone DEF SameHead, HeadRevision, StoreOK, Row

\* The other transactions only write the columns of the lease.
LEMMA LeaseMoves ==
  ASSUME StoreOK, Row # None, checkpoints' = checkpoints,
         NEW row \in Store!StreamRow,
         row.revision = Row.revision, row.checkpointId = Row.checkpointId,
         streams' = [streams EXCEPT ![Conversation] = row]
  PROVE  SameHead
BY SyncNone DEF SameHead, HeadRevision, StoreOK, Row

LEMMA AcquireMoves ==
  ASSUME StoreOK, NEW p \in PC, NEW base, Store!Acquire(Account, Conversation, p, base)
  PROVE  SameHead
<1> DEFINE row == [Row EXCEPT !.deviceId = p, !.leaseHash = Row.fence + 1,
                             !.ttl = LEASE_SECONDS, !.fence = Row.fence + 1]
<1>1. Row # None /\ checkpoints' = checkpoints
  BY DEF Store!Acquire, Store!CanAcquire, Store!Owns, Row
<1>2. Row \in Store!StreamRow
  BY <1>1, RowType
<1>3. row \in Store!StreamRow /\ row.revision = Row.revision /\ row.checkpointId = Row.checkpointId
  <2>1. Row.fence + 1 \in Nat /\ LEASE_SECONDS \in 0..LEASE_SECONDS
    BY <1>2, SyncBounds DEF Store!StreamRow
  <2>2. row \in Store!StreamRow
    BY <1>2, <2>1, Zenon DEF Store!StreamRow
  <2>3. row.revision = Row.revision /\ row.checkpointId = Row.checkpointId
    BY <1>2 DEF Store!StreamRow
  <2> QED
    BY <2>2, <2>3
<1>4. streams' = [streams EXCEPT ![Conversation] = row]
  BY DEF Store!Acquire, Row
<1> QED
  BY <1>1, <1>3, <1>4, LeaseMoves

LEMMA RenewMoves ==
  ASSUME StoreOK, NEW identity, Store!Renew(Account, Conversation, identity)
  PROVE  SameHead
<1> DEFINE row == [Row EXCEPT !.ttl = LEASE_SECONDS]
<1>1. Row # None /\ checkpoints' = checkpoints
  BY DEF Store!Renew, Store!Owns, Row
<1>2. Row \in Store!StreamRow
  BY <1>1, RowType
<1>3. row \in Store!StreamRow /\ row.revision = Row.revision /\ row.checkpointId = Row.checkpointId
  BY <1>2, SyncBounds DEF Store!StreamRow
<1>4. streams' = [streams EXCEPT ![Conversation] = row]
  BY DEF Store!Renew, Row
<1> QED
  BY <1>1, <1>3, <1>4, LeaseMoves

LEMMA ReleaseMoves ==
  ASSUME StoreOK, NEW identity, Store!Release(Account, Conversation, identity)
  PROVE  SameHead
<1> DEFINE row == [Row EXCEPT !.ttl = 0, !.leaseHash = 0]
<1>1. Row # None /\ checkpoints' = checkpoints
  BY DEF Store!Release, Store!Owns, Row
<1>2. Row \in Store!StreamRow
  BY <1>1, RowType
<1>3. row \in Store!StreamRow /\ row.revision = Row.revision /\ row.checkpointId = Row.checkpointId
  <2>1. 0 \in Nat /\ 0 \in 0..LEASE_SECONDS
    BY <1>2, SyncBounds DEF Store!StreamRow
  <2>2. row \in Store!StreamRow
    BY <1>2, <2>1, Zenon DEF Store!StreamRow
  <2>3. row.revision = Row.revision /\ row.checkpointId = Row.checkpointId
    BY <1>2 DEF Store!StreamRow
  <2> QED
    BY <2>2, <2>3
<1>4. streams' = [streams EXCEPT ![Conversation] = row]
  BY DEF Store!Release, Row
<1> QED
  BY <1>1, <1>3, <1>4, LeaseMoves

LEMMA TickMoves == ASSUME StoreOK, Store!Tick PROVE SameHead
<1> DEFINE row == [Row EXCEPT !.ttl = Row.ttl - 1]
<1>1. Row # None /\ Row.ttl > 0 /\ checkpoints' = checkpoints
  BY DEF Store!Tick, Row
<1>2. Row \in Store!StreamRow
  BY <1>1, RowType
<1>3. row \in Store!StreamRow /\ row.revision = Row.revision /\ row.checkpointId = Row.checkpointId
  BY <1>1, <1>2, SyncBounds DEF Store!StreamRow
<1>4. streams' = [streams EXCEPT ![Conversation] = row]
  BY <1>1 DEF Store!Tick, Row, StoreOK
<1> QED
  BY <1>1, <1>3, <1>4, LeaseMoves

LEMMA PublishMoves ==
  ASSUME StoreOK, NEW input, input.id \in Checkpoint, job[input.id] # None,
         input.deviceId \in PC, input.manifest = {}, input.baseRevision \in Nat,
         input.baseRevision = job[input.id].base,
         Store!Publish(Account, Conversation, input)
  PROVE  BecomesHead(input.id)
<1> DEFINE row == [Row EXCEPT !.revision = Row.revision + 1, !.checkpointId = input.id]
           published == [ownerId |-> Account, revision |-> Row.revision + 1,
                         fingerprint |-> Store!Fingerprint(Conversation, input)]
<1>1. /\ Row # None /\ checkpoints[input.id] = None /\ Row.revision = input.baseRevision
      /\ streams' = [streams EXCEPT ![Conversation] = row]
      /\ checkpoints' = [checkpoints EXCEPT ![input.id] = published]
  BY DEF Store!Publish, Store!CanPublish, Store!Owns, Row
<1>2. Row \in Store!StreamRow
  BY <1>1, RowType
<1>3. row \in Store!StreamRow /\ row.revision = Row.revision + 1 /\ row.checkpointId = input.id
  <2>1. Row.revision + 1 \in Nat
    BY <1>2, SyncBounds DEF Store!StreamRow
  <2>2. row \in Store!StreamRow
    BY <1>2, <2>1, Zenon DEF Store!StreamRow
  <2>3. row.revision = Row.revision + 1 /\ row.checkpointId = input.id
    BY <1>2 DEF Store!StreamRow
  <2> QED
    BY <2>2, <2>3
<1>4. published \in Store!CheckpointRow /\ published.revision = Row.revision + 1
  BY <1>1, <1>2 DEF Store!CheckpointRow, Store!StreamRow, Store!Fingerprint
<1>5. Row' = row /\ row # None
  BY <1>1, <1>3, SyncNone DEF StoreOK, Row
<1>6. checkpoints'[input.id] = published
  BY <1>1 DEF StoreOK
<1> HIDE DEF row, published
<1> QED
  BY <1>1, <1>3, <1>4, <1>5, <1>6 DEF BecomesHead, StoreOK

--------------------------------------------------------------------------------
(* What stays true of work, jobs and receipts when the service moves on *)

JobsGrow == \A c \in Checkpoint : job[c] # None => job'[c] = job[c]
ReceiptsTrue ==
  \A c \in Checkpoint :
    \/ receipt'[c] = receipt[c]
    \/ checkpoints'[c] # None /\ checkpoints'[c].revision = receipt'[c]

KnowsAfter(work, r) ==
  \A d \in Checkpoint : checkpoints'[d] # None /\ checkpoints'[d].revision <= r => d \in work

LEMMA HeadType == ASSUME StoreOK PROVE HeadRevision \in Nat
<1>1. Row = None \/ Row \in Store!StreamRow
  BY RowType
<1> QED
  BY <1>1 DEF HeadRevision, Store!StreamRow

LEMMA RevisionType ==
  ASSUME StoreOK, Numbered, NEW c \in Checkpoint, Committed(c)
  PROVE  Revision(c) \in Nat /\ Revision(c) <= HeadRevision
<1>1. checkpoints[c] \in Store!CheckpointRow
  BY DEF StoreOK, Committed
<1> QED
  BY <1>1 DEF Numbered, HeadRevision, Revision, Store!CheckpointRow

LEMMA StoreAfter ==
  ASSUME StoreOK, StoreMoves
  PROVE  /\ StoreOK'
         /\ HeadRevision \in Nat /\ HeadRevision' \in Nat /\ HeadRevision <= HeadRevision'
         /\ Row # None => Row' # None
         /\ \A c \in Checkpoint : Committed(c) => checkpoints'[c] = checkpoints[c]
<1>1. CASE SameHead
  BY <1>1, HeadType DEF SameHead, StoreOK
<1>2. ASSUME NEW c \in Checkpoint, BecomesHead(c)
      PROVE  /\ StoreOK' /\ HeadRevision <= HeadRevision' /\ Row' # None
             /\ HeadRevision' = HeadRevision + 1
             /\ \A d \in Checkpoint : Committed(d) => checkpoints'[d] = checkpoints[d]
  <2>1. HeadRevision = Row.revision /\ HeadRevision' = Row.revision + 1
    BY <1>2 DEF BecomesHead, HeadRevision
  <2>2. HeadRevision' = HeadRevision + 1 /\ HeadRevision <= HeadRevision'
    BY <2>1, HeadType
  <2>3. checkpoints' \in [Checkpoint -> Store!CheckpointRow \cup {None}]
    BY <1>2 DEF BecomesHead, StoreOK
  <2>4. StoreOK'
    BY <1>2, <2>3 DEF BecomesHead, StoreOK
  <2>5. \A d \in Checkpoint : Committed(d) => checkpoints'[d] = checkpoints[d]
    BY <1>2 DEF BecomesHead, StoreOK, Committed
  <2> QED
    BY <1>2, <2>2, <2>4, <2>5 DEF BecomesHead
<1> QED
  BY <1>1, <1>2, HeadType DEF StoreMoves

\* What is published later is newer than all that is known.
LEMMA KnowsStays ==
  ASSUME StoreOK, StoreMoves, NEW work, NEW r \in Nat, r <= HeadRevision, Knows(work, r)
  PROVE  KnowsAfter(work, r)
<1>1. CASE SameHead
  BY <1>1 DEF SameHead, Knows, KnowsAfter, Committed, Revision
<1>2. ASSUME NEW c \in Checkpoint, BecomesHead(c)
      PROVE  KnowsAfter(work, r)
  <2>1. ASSUME NEW d \in Checkpoint, checkpoints'[d] # None, checkpoints'[d].revision <= r
        PROVE  d \in work
    <3>1. HeadRevision = Row.revision /\ HeadRevision \in Nat
      BY <1>2, HeadType DEF BecomesHead, HeadRevision
    <3>2. d # c
      BY <1>2, <2>1, <3>1 DEF BecomesHead
    <3>3. checkpoints'[d] = checkpoints[d]
      BY <1>2, <3>2 DEF BecomesHead, StoreOK
    <3> QED
      BY <2>1, <3>3 DEF Knows, Committed, Revision
  <2> QED
    BY <2>1 DEF KnowsAfter
<1> QED
  BY <1>1, <1>2 DEF StoreMoves

LEMMA NumberedAfter ==
  ASSUME StoreOK, Numbered, StoreMoves, JobsGrow
  PROVE  Numbered'
<1>1. CASE SameHead
  <2>1. \A c \in Checkpoint : Committed(c) => job'[c] = job[c]
    BY DEF Numbered, JobsGrow
  <2>2. ASSUME NEW c \in Checkpoint, Committed(c)
        PROVE  Row' # None /\ Revision(c) <= Row'.revision
    <3>1. Row # None /\ Revision(c) <= Row.revision
      BY <2>2 DEF Numbered
    <3> QED
      BY <1>1, <3>1 DEF SameHead, HeadRevision
  <2>3. Row' # None /\ Row'.checkpointId # None => Row'.revision = Row.revision
    BY <1>1 DEF SameHead, HeadRevision
  <2> QED
    BY <1>1, <2>1, <2>2, <2>3 DEF SameHead, Numbered, Committed, Revision
<1>2. ASSUME NEW c \in Checkpoint, BecomesHead(c)
      PROVE  Numbered'
  <2>1. /\ HeadRevision = Row.revision /\ Row.revision \in Nat
        /\ Row # None /\ Row' # None
        /\ Row'.revision = Row.revision + 1 /\ Row'.checkpointId = c
    BY <1>2, HeadType DEF BecomesHead, HeadRevision
  <2>2. /\ checkpoints'[c] # None /\ checkpoints'[c].revision = Row.revision + 1
        /\ job'[c] = job[c] /\ job[c] # None /\ job[c].base = Row.revision
    BY <1>2, SyncNone DEF BecomesHead, JobsGrow
  <2>3. ASSUME NEW d \in Checkpoint, checkpoints'[d] # None, d # c
        PROVE  /\ Committed(d) /\ checkpoints'[d] = checkpoints[d]
               /\ job'[d] = job[d] /\ job[d] # None
               /\ Revision(d) = job[d].base + 1 /\ Revision(d) <= Row.revision
               /\ Revision(d) \in Nat
    <3>1. checkpoints'[d] = checkpoints[d]
      BY <1>2, <2>3 DEF BecomesHead, StoreOK
    <3>2. Committed(d)
      BY <2>3, <3>1 DEF Committed
    <3> QED
      BY <2>1, <3>1, <3>2, RevisionType DEF Numbered, JobsGrow
  <2>4. \A d \in Checkpoint : checkpoints'[d] # None =>
          /\ job'[d] # None /\ checkpoints'[d].revision = job'[d].base + 1
          /\ checkpoints'[d].revision <= Row'.revision
    BY <2>1, <2>2, <2>3 DEF Revision
  <2>5. \A d, e \in Checkpoint :
          /\ checkpoints'[d] # None /\ checkpoints'[e] # None
          /\ checkpoints'[d].revision = checkpoints'[e].revision
          => d = e
    BY <2>1, <2>2, <2>3 DEF Revision, Numbered
  <2> QED
    BY <2>1, <2>2, <2>4, <2>5 DEF Numbered, Committed, Revision
<1> QED
  BY <1>1, <1>2 DEF StoreMoves

LEMMA JobAfter ==
  ASSUME TypeOK, StoreOK, JobsKnow, StoreMoves, JobsGrow, NEW c \in Checkpoint, job[c] # None
  PROVE  /\ job'[c] = job[c] /\ job[c].base <= HeadRevision'
         /\ KnowsAfter(job[c].content, job[c].base)
<1>1. job[c] \in Job /\ job[c].base \in Nat /\ job[c].base <= HeadRevision
  BY DEF TypeOK, Job, JobsKnow
<1>2. Knows(job[c].content, job[c].base)
  BY DEF JobsKnow
<1>3. KnowsAfter(job[c].content, job[c].base)
  BY <1>1, <1>2, KnowsStays
<1> QED
  BY <1>1, <1>3, StoreAfter DEF JobsGrow

LEMMA JobsAfter ==
  ASSUME TypeOK, StoreOK, JobsKnow, StoreMoves, job' = job
  PROVE  JobsKnow' /\ JobsGrow
<1>1. JobsGrow
  BY DEF JobsGrow
<1> QED
  BY <1>1, JobAfter DEF JobsKnow, Knows, KnowsAfter, Committed, Revision

\* The parts of a PC that a step does not write stay as they are.
LEMMA BindingAfter ==
  ASSUME SyncInv, StoreMoves, NEW p \in PC, binding'[p] = binding[p], local'[p] = local[p]
  PROVE  BindingOK(p)'
<1>1. StoreOK /\ BindingOK(p)
  BY DEF SyncInv, PcOK
<1>2. CASE binding[p] # None
  <2>1. binding[p] \in Binding /\ binding[p].revision \in Nat
    BY <1>2 DEF SyncInv, TypeOK, Binding
  <2>2. KnowsAfter(local[p], binding[p].revision)
    BY <1>1, <1>2, <2>1, KnowsStays DEF BindingOK
  <2>3. binding[p].revision <= HeadRevision'
    BY <1>1, <1>2, <2>1, StoreAfter DEF BindingOK
  <2> QED
    BY <1>1, <1>2, <2>2, <2>3 DEF BindingOK, Knows, KnowsAfter, Committed, Revision
<1>3. CASE binding[p] = None
  BY <1>3 DEF BindingOK
<1> QED
  BY <1>2, <1>3

LEMMA QueuedAfter ==
  ASSUME SyncInv, JobsGrow, NEW p \in PC, files'[p] = files[p], local'[p] = local[p]
  PROVE  QueuedOK(p)'
BY DEF SyncInv, PcOK, QueuedOK, JobsGrow

LEMMA ReceiptsAfter ==
  ASSUME SyncInv, StoreMoves, ReceiptsTrue,
         NEW p \in PC, files'[p] = files[p], local'[p] = local[p]
  PROVE  ReceiptsOK(p)'
<1> SUFFICES ASSUME NEW c \in Checkpoint, "sent" \in files[p][c]
             PROVE  /\ checkpoints'[c] # None /\ checkpoints'[c].revision = receipt'[c]
                    /\ local[p] \in SUBSET Checkpoint
                    /\ KnowsAfter(local[p], checkpoints'[c].revision)
  BY DEF ReceiptsOK, Knows, KnowsAfter, Committed, Revision
<1>1. StoreOK /\ Numbered /\ ReceiptsOK(p)
  BY DEF SyncInv, PcOK
<1>2. /\ Committed(c) /\ Revision(c) = receipt[c] /\ local[p] \in SUBSET Checkpoint
      /\ Knows(local[p], Revision(c))
  BY <1>1 DEF ReceiptsOK
<1>3. checkpoints'[c] = checkpoints[c]
  BY <1>1, <1>2, StoreAfter
<1>4. KnowsAfter(local[p], Revision(c))
  BY <1>1, <1>2, RevisionType, KnowsStays
<1> QED
  BY <1>2, <1>3, <1>4 DEF ReceiptsTrue, Committed, Revision

LEMMA RunAfter ==
  ASSUME SyncInv, StoreMoves, NEW p \in PC, files'[p] = files[p], local'[p] = local[p],
         binding'[p] = binding[p], at'[p] = at[p], after'[p] = after[p], cur'[p] = cur[p]
  PROVE  RunOK(p)'
<1>1. StoreOK /\ RunOK(p) /\ ReceiptsOK(p)
  BY DEF SyncInv, PcOK
<1>2. ASSUME at[p] = "restore"
      PROVE  /\ cur[p] \in Checkpoint /\ checkpoints'[cur[p]] # None
             /\ \A c \in Receipts(p) : checkpoints'[c].revision <= checkpoints'[cur[p]].revision
  <2>1. cur[p] \in Checkpoint /\ Committed(cur[p])
    BY <1>1, <1>2 DEF RunOK
  <2>2. checkpoints'[cur[p]] = checkpoints[cur[p]]
    BY <1>1, <2>1, StoreAfter
  <2>3. \A c \in Receipts(p) : checkpoints'[c] = checkpoints[c]
    BY <1>1, StoreAfter DEF ReceiptsOK, Receipts
  <2> QED
    BY <1>1, <1>2, <2>1, <2>2, <2>3 DEF RunOK, Committed, Revision
<1> QED
  BY <1>1, <1>2 DEF RunOK, Receipts, Queued, Committed, Revision

LEMMA PcAfter ==
  ASSUME SyncInv, StoreMoves, JobsGrow, ReceiptsTrue,
         NEW p \in PC, files'[p] = files[p], local'[p] = local[p],
         binding'[p] = binding[p], at'[p] = at[p], after'[p] = after[p], cur'[p] = cur[p]
  PROVE  PcOK(p)'
BY BindingAfter, QueuedAfter, ReceiptsAfter, RunAfter DEF PcOK

\* Nothing captured is lost where files are kept or the service has the work.
Keeps(p) ==
  \A c \in Checkpoint :
    \/ checkpoints'[c] # None
    \/ \A f \in {"chunks", "pending", "held"} : f \in files[p][c] => f \in files'[p][c]
    \/ /\ "chunks" \in files[p][c] => "chunks" \in files'[p][c]
       /\ "held" \in files'[p][c]

LEMMA NothingLostAfter ==
  ASSUME SyncInv, StoreMoves, job' = job, \A p \in PC : Keeps(p)
  PROVE  NothingLost'
<1> SUFFICES ASSUME NEW c \in Checkpoint, job[c] # None, checkpoints'[c] = None
             PROVE  /\ "chunks" \in files'[job[c].by][c]
                    /\ files'[job[c].by][c] \cap {"pending", "held"} # {}
  BY DEF NothingLost, Committed
<1>1. StoreOK /\ NothingLost /\ job[c].by \in PC
  BY DEF SyncInv, TypeOK, Job
<1>2. ~Committed(c)
  BY <1>1, StoreAfter DEF Committed
<1> QED
  BY <1>1, <1>2 DEF NothingLost, Keeps

LEMMA LateAfter ==
  ASSUME SyncInv, JobsGrow, NEW p \in PC, late' \subseteq late \cup Request(p)
  PROVE  LateOK'
<1> SUFFICES ASSUME NEW r \in late \cup Request(p)
             PROVE  /\ r.kind = "acquire" => r.pc \in PC /\ r.base \in Nat
                    /\ r.kind = "publish" =>
                         /\ r.input.id \in Checkpoint /\ job'[r.input.id] # None
                         /\ r.input.deviceId \in PC /\ r.input.manifest = {}
                         /\ r.input.baseRevision = job'[r.input.id].base
  BY DEF LateOK
<1>1. CASE r \in late
  BY <1>1 DEF SyncInv, LateOK, JobsGrow
<1>2. CASE r \in Request(p)
  <2>1. at[p] \in Uploading =>
          /\ cur[p] \in Checkpoint /\ job[cur[p]] # None /\ job'[cur[p]] = job[cur[p]]
          /\ job[cur[p]].base \in Nat
    BY DEF SyncInv, PcOK, RunOK, QueuedOK, Queued, JobsGrow, TypeOK, Job
  <2>2. CASE at[p] = "head"
    BY <1>2, <2>2 DEF Request
  <2>3. CASE at[p] = "acquire"
    <3>1. r = [kind |-> "acquire", pc |-> p, base |-> job[cur[p]].base]
      BY <1>2, <2>3 DEF Request
    <3> QED
      BY <2>1, <2>3, <3>1 DEF Uploading
  <2>4. CASE at[p] = "upload"
    BY <1>2, <2>4 DEF Request
  <2>5. CASE at[p] = "publish"
    <3>1. r = [kind |-> "publish", input |-> Input(p)]
      BY <1>2, <2>5 DEF Request
    <3> QED
      BY <2>1, <2>5, <3>1 DEF Uploading, Input
  <2>6. CASE at[p] = "release"
    BY <1>2, <2>6 DEF Request
  <2>7. CASE at[p] \notin Awaits
    <3>1. Request(p) = {}
      BY <2>7 DEF Request, Awaits
    <3> QED
      BY <1>2, <3>1
  <2> QED
    BY <2>2, <2>3, <2>4, <2>5, <2>6, <2>7 DEF Awaits
<1> QED
  BY <1>1, <1>2

--------------------------------------------------------------------------------
(* Steps that write no file *)

RunTypes ==
  /\ at \in [PC -> Awaits \cup {"idle", "capture", "receipts", "restore"}]
  /\ after \in [PC -> {"done", "send", "syncNow", "tick"}]
  /\ cur \in [PC -> Checkpoint \cup {None}]
  /\ failed \in [PC -> BOOLEAN] /\ conflicts \in [PC -> BOOLEAN]

LEMMA TypesSplit == ASSUME SyncInv PROVE RunTypes
BY DEF SyncInv, TypeOK, RunTypes

LEMMA Quiet1 ==
  ASSUME SyncInv, StoreMoves, UNCHANGED <<diskVars, local>>, RunTypes', LateOK',
         \A p \in PC : RunOK(p)'
  PROVE  SyncInv'
<1>1. TypeOK /\ StoreOK /\ Numbered /\ JobsKnow /\ job' = job /\ ReceiptsTrue
  BY DEF SyncInv, ReceiptsTrue
<1>2. TypeOK'
  BY <1>1 DEF TypeOK, RunTypes
<1>3. JobsKnow' /\ JobsGrow
  BY <1>1, JobsAfter
<1>4. StoreOK' /\ Numbered'
  BY <1>1, <1>3, StoreAfter, NumberedAfter
<1>5. NothingLost'
  <2>1. \A p \in PC : Keeps(p)
    BY DEF Keeps
  <2> QED
    BY <1>1, <2>1, NothingLostAfter
<1>6. ASSUME NEW p \in PC PROVE PcOK(p)'
  BY <1>1, <1>3, <1>6, BindingAfter, QueuedAfter, ReceiptsAfter DEF PcOK
<1> QED
  BY <1>2, <1>3, <1>4, <1>5, <1>6 DEF SyncInv

\* The same for a step of one PC.
LEMMA QuietStep ==
  ASSUME SyncInv, StoreMoves, UNCHANGED <<diskVars, local>>, NEW p \in PC, RunTypes',
         late' \subseteq late \cup Request(p), RunOK(p)',
         \A q \in PC \ {p} : at'[q] = at[q] /\ after'[q] = after[q] /\ cur'[q] = cur[q]
  PROVE  SyncInv'
<1>1. LateOK'
  <2>1. JobsGrow
    BY DEF JobsGrow
  <2> QED
    BY <2>1, LateAfter
<1>2. ASSUME NEW q \in PC PROVE RunOK(q)'
  BY <1>2, RunAfter
<1> QED
  BY <1>1, <1>2, Quiet1

\* The same for a step of the service or the clock.
LEMMA QuietService ==
  ASSUME SyncInv, StoreMoves, UNCHANGED <<diskVars, local, runVars>>, late' \subseteq late
  PROVE  SyncInv'
<1>1. RunTypes'
  BY TypesSplit DEF RunTypes
<1>2. LateOK'
  BY DEF SyncInv, LateOK
<1>3. ASSUME NEW q \in PC PROVE RunOK(q)'
  BY <1>3, RunAfter
<1> QED
  BY <1>1, <1>2, <1>3, Quiet1

\* drain takes up the queued row.
LEMMA FlushTypes ==
  ASSUME RunTypes, NEW p \in PC, NEW f, Flush(p, f)
  PROVE  /\ at' \in [PC -> Awaits \cup {"idle", "capture", "receipts", "restore"}]
         /\ cur' \in [PC -> Checkpoint \cup {None}]
         /\ at'[p] \in {"receipts", "head"}
         /\ at'[p] = "head" => cur'[p] \in Queued(f)
         /\ \A q \in PC \ {p} : at'[q] = at[q] /\ cur'[q] = cur[q]
<1>1. Queued(f) \subseteq Checkpoint
  BY DEF Queued
<1>2. CASE Queued(f) = {}
  BY <1>2 DEF Flush, RunTypes, Awaits
<1>3. CASE Queued(f) # {}
  <2>1. (CHOOSE c \in Queued(f) : TRUE) \in Queued(f)
    BY <1>3
  <2> QED
    BY <1>1, <1>3, <2>1 DEF Flush, RunTypes, Awaits
<1> QED
  BY <1>2, <1>3

LEMMA StopTypes ==
  ASSUME RunTypes, NEW p \in PC, Stop(p)
  PROVE  /\ RunTypes'
         /\ at'[p] = "idle" /\ after'[p] = "done"
         /\ \A q \in PC \ {p} : at'[q] = at[q] /\ after'[q] = after[q] /\ cur'[q] = cur[q]
BY DEF Stop, RunTypes

LEMMA IdleRuns ==
  ASSUME NEW p \in PC, at'[p] = "idle", after'[p] = "done"
  PROVE  RunOK(p)'
BY DEF RunOK, Uploading

LEMMA StartStep ==
  ASSUME SyncInv, NEW p \in PC, NEW kind \in {"send", "syncNow", "retry", "tick"},
         Start(p, kind)
  PROVE  SyncInv'
<1>1. RunTypes /\ SameHead /\ local \in [PC -> (SUBSET Checkpoint) \cup {None}]
  BY TypesSplit, StoredUnchanged DEF SyncInv, Start, TypeOK
<1>2. /\ after' \in [PC -> {"done", "send", "syncNow", "tick"}]
      /\ after'[p] = IF kind = "retry" THEN "done" ELSE kind
      /\ \A q \in PC \ {p} : after'[q] = after[q]
  BY <1>1 DEF Start, RunTypes
<1>3. CASE kind = "send"
  <2>1. RunTypes' /\ at'[p] = "capture" /\ local[p] \in SUBSET Checkpoint /\ after'[p] = "send"
    BY <1>1, <1>2, <1>3 DEF Start, RunTypes, Goto
  <2>2. RunOK(p)'
    BY <2>1 DEF RunOK, Uploading, Start
  <2>3. \A q \in PC \ {p} : at'[q] = at[q] /\ cur'[q] = cur[q]
    BY <1>1, <1>3 DEF Start, RunTypes, Goto
  <2> QED
    BY <1>1, <1>2, <2>1, <2>2, <2>3, QuietStep DEF Start, StoreMoves
<1>4. CASE kind # "send"
  <2>1. /\ Flush(p, files[p]) /\ UNCHANGED <<failed, conflicts>> /\ UNCHANGED <<diskVars, local>>
        /\ kind = "syncNow" => binding[p] # None
    BY <1>4 DEF Start
  <2>2. /\ RunTypes' /\ at'[p] \in {"receipts", "head"}
        /\ at'[p] = "head" => cur'[p] \in Queued(files[p])
        /\ \A q \in PC \ {p} : at'[q] = at[q] /\ cur'[q] = cur[q]
    BY <1>1, <1>2, <2>1, FlushTypes DEF RunTypes
  <2>3. RunOK(p)'
    BY <1>2, <1>4, <2>1, <2>2 DEF RunOK, Uploading, Queued
  <2> QED
    BY <1>1, <1>2, <2>1, <2>2, <2>3, QuietStep DEF Start, StoreMoves
<1> QED
  BY <1>3, <1>4

LEMMA CaptureNothingStep ==
  ASSUME SyncInv, NEW p \in PC, CaptureNothing(p)
  PROVE  SyncInv'
<1>1. RunTypes /\ SameHead
  BY TypesSplit, StoredUnchanged DEF SyncInv, CaptureNothing
<1>2. /\ after' \in [PC -> {"done", "send", "syncNow", "tick"}] /\ after'[p] = "done"
      /\ \A q \in PC \ {p} : after'[q] = after[q]
  BY <1>1 DEF CaptureNothing, RunTypes
<1>3. /\ RunTypes' /\ at'[p] \in {"idle", "receipts", "head"}
      /\ at'[p] = "head" => cur'[p] \in Queued(files[p])
      /\ \A q \in PC \ {p} : at'[q] = at[q] /\ cur'[q] = cur[q]
  <2>1. CASE Goto(p, "idle") /\ UNCHANGED cur
    BY <1>1, <1>2, <2>1 DEF CaptureNothing, RunTypes, Goto
  <2>2. CASE Flush(p, files[p])
    BY <1>1, <1>2, <2>2, FlushTypes DEF CaptureNothing, RunTypes
  <2> QED
    BY <2>1, <2>2 DEF CaptureNothing
<1>4. RunOK(p)'
  BY <1>2, <1>3 DEF RunOK, Uploading, Queued, CaptureNothing
<1> QED
  BY <1>1, <1>2, <1>3, <1>4, QuietStep DEF CaptureNothing, StoreMoves

\* A step of a flush that goes from one position to another, cur as it was.
LEMMA FlushStep ==
  ASSUME SyncInv, NEW p \in PC, StoreMoves, UNCHANGED <<diskVars, local, after, cur, late>>,
         NEW to \in Awaits \cup {"receipts"},
         to \in Uploading => at[p] \in Uploading,
         at' = [at EXCEPT ![p] = to], failed' \in [PC -> BOOLEAN],
         conflicts' \in [PC -> BOOLEAN]
  PROVE  SyncInv'
<1>1. RunTypes
  BY TypesSplit
<1>2. RunTypes' /\ at'[p] = to
  BY <1>1 DEF RunTypes
<1>3. RunOK(p)'
  BY <1>2 DEF SyncInv, PcOK, RunOK, Uploading, Queued, Awaits
<1> QED
  BY <1>1, <1>2, <1>3, QuietStep DEF RunTypes

LEMMA FlushSteps ==
  ASSUME SyncInv, NEW p \in PC,
         \/ FindConflict(p) \/ FindCurrent(p) \/ Acquire(p) \/ AcquireRefused(p)
         \/ Renew(p) \/ UploadChunks(p) \/ LeaseLost(p) \/ Release(p)
  PROVE  SyncInv'
<1>0. StoreOK /\ RunTypes
  BY TypesSplit DEF SyncInv
<1>1. CASE FindConflict(p)
  <2>1. SameHead /\ conflicts' \in [PC -> BOOLEAN]
    BY <1>0, <1>1, StoredUnchanged DEF FindConflict, RunTypes
  <2> QED
    BY <1>0, <1>1, <2>1, FlushStep DEF FindConflict, StoreMoves, Quiet, Goto, Uploading, RunTypes
<1>2. CASE FindCurrent(p)
  <2>1. SameHead
    BY <1>0, <1>2, StoredUnchanged, CreateMoves DEF FindCurrent
  <2> QED
    BY <1>0, <1>2, <2>1, FlushStep
       DEF FindCurrent, StoreMoves, Quiet, Goto, Uploading, RunTypes, Awaits
<1>3. CASE Acquire(p)
  <2>1. SameHead
    BY <1>0, <1>3, AcquireMoves DEF Acquire
  <2> QED
    BY <1>0, <1>3, <2>1, FlushStep DEF Acquire, StoreMoves, Quiet, Goto, Uploading, RunTypes, Awaits
<1>4. CASE AcquireRefused(p)
  <2>1. SameHead /\ conflicts' \in [PC -> BOOLEAN]
    BY <1>0, <1>4, StoredUnchanged DEF AcquireRefused, RunTypes
  <2> QED
    BY <1>0, <1>4, <2>1, FlushStep DEF AcquireRefused, StoreMoves, Quiet, Goto, Uploading, RunTypes
<1>5. CASE Renew(p)
  <2>1. PICK identity : Store!Renew(Account, Conversation, identity)
    BY <1>5 DEF Renew
  <2>2. SameHead
    BY <1>0, <2>1, RenewMoves
  <2>3. at' = [at EXCEPT ![p] = "upload"] /\ at[p] = "upload"
    BY <1>0, <1>5 DEF Renew, RunTypes
  <2> QED
    BY <1>0, <1>5, <2>2, <2>3, FlushStep DEF Renew, StoreMoves, Quiet, Uploading, RunTypes, Awaits
<1>6. CASE UploadChunks(p)
  <2>1. SameHead
    BY <1>0, <1>6, StoredUnchanged DEF UploadChunks
  <2> QED
    BY <1>0, <1>6, <2>1, FlushStep DEF UploadChunks, StoreMoves, Quiet, Goto, Uploading, RunTypes, Awaits
<1>7. CASE LeaseLost(p)
  <2>1. SameHead /\ conflicts' \in [PC -> BOOLEAN]
    BY <1>0, <1>7, StoredUnchanged DEF LeaseLost, RunTypes
  <2> QED
    BY <1>0, <1>7, <2>1, FlushStep
       DEF LeaseLost, StoreMoves, Quiet, Goto, Uploading, RunTypes, Awaits
<1>8. CASE Release(p)
  <2>1. \/ \E identity : Store!Release(Account, Conversation, identity)
        \/ UNCHANGED storeVars
    BY <1>8 DEF Release
  <2>2. SameHead
    BY <1>0, <2>1, StoredUnchanged, ReleaseMoves
  <2> QED
    BY <1>0, <1>8, <2>2, FlushStep DEF Release, StoreMoves, Quiet, Goto, Uploading, RunTypes
<1> QED
  BY <1>1, <1>2, <1>3, <1>4, <1>5, <1>6, <1>7, <1>8

LEMMA RestoreDownloadStep ==
  ASSUME SyncInv, NEW p \in PC, RestoreDownload(p)
  PROVE  SyncInv'
<1>1. RunTypes /\ SameHead /\ StoreOK /\ Numbered /\ ReceiptsOK(p)
  BY TypesSplit, StoredUnchanged DEF SyncInv, RestoreDownload, PcOK
<1>2. Row.checkpointId \in Checkpoint /\ Committed(Row.checkpointId)
      /\ Revision(Row.checkpointId) = Row.revision
  BY <1>1 DEF RestoreDownload, Numbered
<1>3. /\ RunTypes' /\ at'[p] = "restore" /\ cur'[p] = Row.checkpointId
      /\ \A q \in PC \ {p} : at'[q] = at[q] /\ cur'[q] = cur[q]
  BY <1>1, <1>2 DEF RestoreDownload, RunTypes, Goto, Awaits
<1>4. \A c \in Receipts(p) : Revision(c) <= Row.revision
  BY <1>1 DEF ReceiptsOK, Receipts, Numbered
<1>5. RunOK(p)'
  BY <1>2, <1>3, <1>4
     DEF RestoreDownload, SyncInv, PcOK, RunOK, Uploading, Receipts, Committed, Revision
<1> QED
  BY <1>1, <1>3, <1>5, QuietStep DEF RestoreDownload, StoreMoves

LEMMA UnansweredStep ==
  ASSUME SyncInv, NEW p \in PC, Unanswered(p)
  PROVE  SyncInv'
<1>1. RunTypes /\ SameHead
  BY TypesSplit, StoredUnchanged DEF SyncInv, Unanswered
<1>2. /\ RunTypes' /\ at'[p] \in {"release", "receipts"}
      /\ \A q \in PC \ {p} : at'[q] = at[q]
  BY <1>1 DEF Unanswered, RunTypes, Goto, Awaits
<1>3. RunOK(p)'
  BY <1>2 DEF Unanswered, SyncInv, PcOK, RunOK, Uploading
<1> QED
  BY <1>1, <1>2, <1>3, QuietStep DEF Unanswered, StoreMoves

LEMMA CrashStep ==
  ASSUME SyncInv, NEW p \in PC, Crash(p)
  PROVE  SyncInv'
<1>1. RunTypes /\ SameHead /\ Stop(p)
  BY TypesSplit, StoredUnchanged DEF SyncInv, Crash
<1> QED
  BY <1>1, StopTypes, IdleRuns, QuietStep DEF Crash, StoreMoves

LEMMA TickStep ==
  ASSUME SyncInv, Tick
  PROVE  SyncInv'
BY TickMoves, QuietService DEF SyncInv, Tick, StoreMoves

\* A late request meets a service that has moved on, or has not.
LEMMA ArriveStep ==
  ASSUME SyncInv, NEW r \in late, Arrive(r)
  PROVE  SyncInv'
<1>1. StoreOK /\ LateOK
  BY DEF SyncInv
<1>2. StoreMoves
  <2>1. CASE UNCHANGED storeVars
    BY <1>1, <2>1, StoredUnchanged DEF StoreMoves
  <2>2. CASE Store!Create(Account, Conversation)
    BY <1>1, <2>2, CreateMoves DEF StoreMoves
  <2>3. CASE r.kind = "acquire" /\ Store!Acquire(Account, Conversation, r.pc, r.base)
    <3>1. r.pc \in PC
      BY <1>1, <2>3 DEF LateOK
    <3> QED
      BY <1>1, <2>3, <3>1, AcquireMoves DEF StoreMoves
  <2>4. CASE Store!Renew(Account, Conversation, r.lease)
    BY <1>1, <2>4, RenewMoves DEF StoreMoves
  <2>5. CASE Store!Release(Account, Conversation, r.lease)
    BY <1>1, <2>5, ReleaseMoves DEF StoreMoves
  <2>6. CASE r.kind = "publish" /\ Store!Publish(Account, Conversation, r.input)
    <3>1. /\ r.input.id \in Checkpoint /\ job[r.input.id] # None
          /\ r.input.deviceId \in PC /\ r.input.manifest = {}
          /\ r.input.baseRevision = job[r.input.id].base
      BY <1>1, <2>6 DEF LateOK
    <3>2. r.input.baseRevision \in Nat
      BY <3>1 DEF SyncInv, TypeOK, Job
    <3>3. BecomesHead(r.input.id)
      BY <1>1, <2>6, <3>1, <3>2, PublishMoves
    <3> QED
      BY <3>1, <3>3 DEF StoreMoves
  <2> QED
    BY <2>1, <2>2, <2>3, <2>4, <2>5, <2>6 DEF Arrive
<1> QED
  BY <1>2, QuietService DEF Arrive

--------------------------------------------------------------------------------
(* Steps that write files *)

DiskTypes ==
  /\ files \in [PC -> [Checkpoint -> SUBSET {"chunks", "pending", "sent", "held"}]]
  /\ job \in [Checkpoint -> Job \cup {None}]
  /\ receipt \in [Checkpoint -> Nat]
  /\ binding \in [PC -> Binding \cup {None}]
  /\ local \in [PC -> (SUBSET Checkpoint) \cup {None}]
  /\ \A p \in PC : \A c, d \in Queued(files[p]) : c = d

LEMMA DiskSplit == ASSUME SyncInv PROVE DiskTypes
BY DEF SyncInv, TypeOK, DiskTypes

\* A step of one PC that writes only its own disk and captures nothing.
LEMMA DiskStep ==
  ASSUME SyncInv, StoreMoves, job' = job, NEW p \in PC, DiskTypes', RunTypes',
         late' \subseteq late \cup Request(p), ReceiptsTrue, Keeps(p), PcOK(p)',
         \A q \in PC \ {p} :
           /\ files'[q] = files[q] /\ binding'[q] = binding[q] /\ local'[q] = local[q]
           /\ at'[q] = at[q] /\ after'[q] = after[q] /\ cur'[q] = cur[q]
  PROVE  SyncInv'
<1>1. TypeOK /\ StoreOK /\ Numbered /\ JobsKnow
  BY DEF SyncInv
<1>2. TypeOK'
  BY DEF TypeOK, DiskTypes, RunTypes
<1>3. JobsKnow' /\ JobsGrow
  BY <1>1, JobsAfter
<1>4. StoreOK' /\ Numbered'
  BY <1>1, <1>3, StoreAfter, NumberedAfter
<1>5. NothingLost'
  <2>1. \A q \in PC : Keeps(q)
    BY DEF Keeps
  <2> QED
    BY <2>1, NothingLostAfter
<1>6. LateOK'
  BY <1>3, LateAfter
<1>7. ASSUME NEW q \in PC PROVE PcOK(q)'
  BY <1>3, <1>7, PcAfter
<1> QED
  BY <1>2, <1>3, <1>4, <1>5, <1>6, <1>7 DEF SyncInv

LEMMA EditStep ==
  ASSUME SyncInv, NEW p \in PC, Edit(p)
  PROVE  SyncInv'
<1>1. /\ RunTypes /\ DiskTypes /\ SameHead /\ binding[p] # None /\ binding[p] \in Binding
      /\ StoreMoves /\ JobsGrow /\ ReceiptsTrue /\ Keeps(p) /\ PcOK(p)
  BY TypesSplit, DiskSplit, StoredUnchanged
     DEF SyncInv, Edit, DiskTypes, StoreMoves, JobsGrow, ReceiptsTrue, Keeps
<1>2. /\ binding' = [binding EXCEPT ![p] = binding'[p]]
      /\ binding'[p] \in Binding /\ binding'[p].revision = binding[p].revision
  BY <1>1 DEF Edit, DiskTypes, Binding
<1>3. RunTypes' /\ DiskTypes'
  BY <1>1, <1>2 DEF Edit, RunTypes, DiskTypes
<1>4. BindingOK(p)'
  <2>1. HeadRevision' = HeadRevision
    BY <1>1 DEF SameHead
  <2> QED
    BY <1>1, <1>2, <2>1
       DEF Edit, PcOK, BindingOK, Knows, Committed, Revision
<1>5. QueuedOK(p)' /\ ReceiptsOK(p)'
  BY <1>1, QueuedAfter, ReceiptsAfter DEF Edit
<1>6. RunOK(p)'
  BY <1>1, <1>2, SyncNone
     DEF Edit, PcOK, RunOK, Receipts, Queued, Committed, Revision
<1> QED
  BY <1>1, <1>2, <1>3, <1>4, <1>5, <1>6, DiskStep DEF Edit, DiskTypes, PcOK

\* sent.json is written, pending.json perhaps removed, of a checkpoint that is
\* published at that revision.
LEMMA AcknowledgeDisk ==
  ASSUME SyncInv, StoreMoves, NEW p \in PC, NEW c \in Queued(files[p]), NEW revision \in Nat,
         NEW n \in 1..2, Acknowledge(p, c, revision, n),
         checkpoints'[c] # None, checkpoints'[c].revision = revision
  PROVE  /\ DiskTypes' /\ ReceiptsTrue /\ Keeps(p)
         /\ BindingOK(p)' /\ QueuedOK(p)' /\ ReceiptsOK(p)'
         /\ \A q \in PC \ {p} :
              files'[q] = files[q] /\ binding'[q] = binding[q] /\ local'[q] = local[q]
<1>0. /\ DiskTypes /\ TypeOK /\ StoreOK /\ Numbered /\ JobsKnow /\ PcOK(p)
      /\ UNCHANGED <<job, binding, local>>
  BY DiskSplit DEF SyncInv, Acknowledge
<1>1. /\ c \in Checkpoint /\ "pending" \in files[p][c] /\ "sent" \notin files[p][c]
      /\ job[c] # None /\ local[p] \in SUBSET Checkpoint
      /\ job[c].content \cup {c} \subseteq local[p]
  BY <1>0 DEF PcOK, QueuedOK, Queued
<1>2. /\ receipt' \in [Checkpoint -> Nat] /\ receipt'[c] = revision
      /\ \A d \in Checkpoint \ {c} : receipt'[d] = receipt[d]
  BY <1>0, <1>1 DEF Acknowledge, DiskTypes
<1>3. PICK gone \in SUBSET {"pending"} :
        files' = [files EXCEPT ![p][c] = (@ \cup {"sent"}) \ gone]
  BY DEF Acknowledge
<1>4. /\ files' \in [PC -> [Checkpoint -> SUBSET {"chunks", "pending", "sent", "held"}]]
      /\ files'[p][c] = (files[p][c] \cup {"sent"}) \ gone
      /\ \A d \in Checkpoint \ {c} : files'[p][d] = files[p][d]
      /\ \A q \in PC \ {p} : files'[q] = files[q]
  BY <1>0, <1>1, <1>3 DEF DiskTypes
<1>5. DiskTypes'
  <2>1. ASSUME NEW q \in PC, NEW d \in Queued(files'[q]) PROVE d \in Queued(files[q])
    BY <1>1, <1>4, <2>1 DEF Queued
  <2> QED
    BY <1>0, <1>2, <1>4, <2>1 DEF DiskTypes
<1>6. ReceiptsTrue
  BY <1>2 DEF ReceiptsTrue
<1>7. Keeps(p)
  BY <1>4 DEF Keeps
<1>8. BindingOK(p)'
  BY <1>0, BindingAfter
<1>9. QueuedOK(p)'
  BY <1>0, <1>4 DEF PcOK, QueuedOK
<1>10. ReceiptsOK(p)'
  <2>1. JobsGrow /\ Numbered'
    BY <1>0, JobsAfter, NumberedAfter
  <2>2. job[c] \in Job /\ job[c].base \in Nat /\ KnowsAfter(job[c].content, job[c].base)
    BY <1>0, <1>1, <2>1, JobAfter DEF TypeOK, Job
  <2>3. revision = job[c].base + 1
    BY <1>0, <1>1, <2>1 DEF Numbered, Committed, Revision
  <2>4. KnowsAfter(local[p], revision)
    <3>1. ASSUME NEW d \in Checkpoint, checkpoints'[d] # None,
                 checkpoints'[d].revision <= revision
          PROVE  d \in local[p]
      <4>1. checkpoints'[d].revision \in Nat
        <5>1. StoreOK'
          BY <1>0, StoreAfter
        <5> QED
          BY <3>1, <5>1 DEF StoreOK, Store!CheckpointRow
      <4>2. CASE checkpoints'[d].revision <= job[c].base
        BY <1>1, <2>2, <3>1, <4>2 DEF KnowsAfter
      <4>3. CASE checkpoints'[d].revision = revision
        <5>1. d = c
          BY <1>1, <2>1, <3>1, <4>3 DEF Numbered, Committed, Revision
        <5> QED
          BY <1>1, <5>1
      <4> QED
        BY <2>2, <2>3, <3>1, <4>1, <4>2, <4>3
    <3> QED
      BY <3>1 DEF KnowsAfter
  <2>5. ASSUME NEW d \in Checkpoint, d # c, "sent" \in files[p][d]
        PROVE  /\ checkpoints'[d] # None /\ checkpoints'[d].revision = receipt'[d]
               /\ KnowsAfter(local[p], checkpoints'[d].revision)
    <3>1. /\ Committed(d) /\ Revision(d) = receipt[d] /\ Knows(local[p], Revision(d))
      BY <1>0, <2>5 DEF PcOK, ReceiptsOK
    <3>2. checkpoints'[d] = checkpoints[d] /\ receipt'[d] = receipt[d]
      BY <1>0, <1>2, <2>5, <3>1, StoreAfter
    <3>3. KnowsAfter(local[p], Revision(d))
      BY <1>0, <3>1, RevisionType, KnowsStays
    <3> QED
      BY <3>1, <3>2, <3>3 DEF Committed, Revision
  <2> QED
    BY <1>0, <1>1, <1>2, <1>4, <2>4, <2>5
       DEF ReceiptsOK, Knows, KnowsAfter, Committed, Revision
<1> QED
  BY <1>0, <1>4, <1>5, <1>6, <1>7, <1>8, <1>9, <1>10

LEMMA UploadingQueued ==
  ASSUME SyncInv, NEW p \in PC, at[p] \in Uploading
  PROVE  /\ cur[p] \in Queued(files[p]) /\ cur[p] \in Checkpoint /\ job[cur[p]] # None
         /\ job[cur[p]].base \in Nat
BY DEF SyncInv, PcOK, RunOK, QueuedOK, Queued, TypeOK, Job

LEMMA FindCommittedStep ==
  ASSUME SyncInv, NEW p \in PC, NEW n \in 1..2, FindCommitted(p, n)
  PROVE  SyncInv'
<1> DEFINE c == cur[p]
<1>1. RunTypes /\ SameHead /\ StoreMoves /\ StoreOK /\ Numbered
  BY TypesSplit, StoredUnchanged DEF SyncInv, FindCommitted, StoreMoves
<1>2. c \in Queued(files[p]) /\ c \in Checkpoint
  BY UploadingQueued DEF FindCommitted, Uploading
<1>3. /\ Row # None /\ Row.checkpointId = c /\ c # None
      /\ Committed(c) /\ Revision(c) = Row.revision /\ Row.revision \in Nat
  BY <1>1, <1>2, SyncNone, HeadType DEF FindCommitted, IsCommitted, Numbered, HeadRevision
<1>4. checkpoints'[c] # None /\ checkpoints'[c].revision = Row.revision
  BY <1>1, <1>3 DEF SameHead, Committed, Revision
<1>5. Acknowledge(p, c, Row.revision, n) /\ UNCHANGED <<job, late>>
  BY DEF FindCommitted, Acknowledge
<1>6. /\ DiskTypes' /\ ReceiptsTrue /\ Keeps(p)
      /\ BindingOK(p)' /\ QueuedOK(p)' /\ ReceiptsOK(p)'
      /\ \A q \in PC \ {p} :
           files'[q] = files[q] /\ binding'[q] = binding[q] /\ local'[q] = local[q]
  BY <1>1, <1>2, <1>3, <1>4, <1>5, AcknowledgeDisk
<1>7. /\ RunTypes' /\ RunOK(p)'
      /\ \A q \in PC \ {p} : at'[q] = at[q] /\ after'[q] = after[q] /\ cur'[q] = cur[q]
  <2>1. CASE n = 2
    <3>1. RunTypes' /\ at'[p] = "receipts" /\ UNCHANGED <<after, cur, binding, local>>
      BY <1>1, <2>1 DEF FindCommitted, RunTypes, Goto, Acknowledge
    <3>2. RunOK(p)'
      BY <3>1 DEF SyncInv, PcOK, RunOK, Uploading
    <3> QED
      BY <1>1, <2>1, <3>1, <3>2 DEF FindCommitted, Goto, RunTypes
  <2>2. CASE n # 2
    BY <1>1, <2>2, StopTypes, IdleRuns DEF FindCommitted
  <2> QED
    BY <2>1, <2>2
<1> QED
  BY <1>1, <1>5, <1>6, <1>7, DiskStep DEF PcOK

LEMMA PublishStep ==
  ASSUME SyncInv, NEW p \in PC, NEW n \in 1..2, Publish(p, n)
  PROVE  SyncInv'
<1> DEFINE c == cur[p]
<1>1. RunTypes /\ StoreOK
  BY TypesSplit DEF SyncInv
<1>2. c \in Queued(files[p]) /\ c \in Checkpoint /\ job[c] # None /\ job[c].base \in Nat
  BY UploadingQueued DEF Publish, Uploading
<1>3. BecomesHead(c) /\ StoreMoves
  <2>1. PICK input : /\ input = Input(p)
                     /\ Store!Publish(Account, Conversation, input)
    BY DEF Publish
  <2>2. /\ input.id = c /\ input.deviceId = p /\ input.manifest = {}
        /\ input.baseRevision = job[c].base
    BY <2>1 DEF Input
  <2> QED
    BY <1>1, <1>2, <2>1, <2>2, PublishMoves DEF StoreMoves
<1>4. /\ checkpoints'[c] # None /\ checkpoints'[c].revision = Row.revision + 1
      /\ Row.revision + 1 \in Nat
  BY <1>1, <1>3, SyncNone, HeadType DEF BecomesHead, HeadRevision
<1>5. Acknowledge(p, c, Row.revision + 1, n) /\ UNCHANGED <<job, late>>
  BY DEF Publish, Acknowledge
<1>6. /\ DiskTypes' /\ ReceiptsTrue /\ Keeps(p)
      /\ BindingOK(p)' /\ QueuedOK(p)' /\ ReceiptsOK(p)'
      /\ \A q \in PC \ {p} :
           files'[q] = files[q] /\ binding'[q] = binding[q] /\ local'[q] = local[q]
  BY <1>2, <1>3, <1>4, <1>5, AcknowledgeDisk
<1>7. /\ RunTypes' /\ RunOK(p)'
      /\ \A q \in PC \ {p} : at'[q] = at[q] /\ after'[q] = after[q] /\ cur'[q] = cur[q]
  <2>1. CASE n = 2
    <3>1. RunTypes' /\ at'[p] = "release" /\ UNCHANGED <<after, cur, binding, local>>
      BY <1>1, <2>1 DEF Publish, RunTypes, Goto, Acknowledge, Awaits
    <3>2. RunOK(p)'
      BY <3>1 DEF SyncInv, PcOK, RunOK, Uploading
    <3> QED
      BY <1>1, <2>1, <3>1, <3>2 DEF Publish, Goto, RunTypes
  <2>2. CASE n # 2
    BY <1>1, <2>2, StopTypes, IdleRuns DEF Publish
  <2> QED
    BY <2>1, <2>2
<1> QED
  BY <1>3, <1>5, <1>6, <1>7, DiskStep DEF PcOK

\* Capturing c: what the files, the binding and the session are after n writes.
LEMMA CaptureFiles ==
  ASSUME SyncInv, NEW p \in PC, NEW c \in Checkpoint, NEW n \in 1..4, Capture(p, c, n)
  PROVE  /\ files' \in [PC -> [Checkpoint -> SUBSET {"chunks", "pending", "sent", "held"}]]
         /\ \A d \in Checkpoint \ {c} : files'[p][d] = files[p][d]
         /\ \A q \in PC \ {p} : files'[q] = files[q]
         /\ "sent" \notin files'[p][c]
         /\ "pending" \in files'[p][c] => n > 2
         /\ n > 2 => {"chunks", "pending"} \subseteq files'[p][c]
<1>1. files \in [PC -> [Checkpoint -> SUBSET {"chunks", "pending", "sent", "held"}]]
  BY DEF SyncInv, TypeOK
<1>2. PICK new : /\ files' = [files EXCEPT ![p][c] = new]
                 /\ new = CASE n = 1 -> {} [] n = 2 -> {"chunks"}
                            [] OTHER -> {"chunks", "pending"}
  BY Zenon DEF Capture
<1>3. \/ n = 1 /\ new = {}
      \/ n = 2 /\ new = {"chunks"}
      \/ n > 2 /\ new = {"chunks", "pending"}
  <2>1. n = 1 => new = {}
    BY <1>2
  <2>2. n = 2 => new = {"chunks"}
    BY <1>2
  <2>3. n # 1 /\ n # 2 => new = {"chunks", "pending"}
    BY <1>2
  <2> QED
    BY <2>1, <2>2, <2>3
<1>4. files'[p][c] = new
  BY <1>1, <1>2
<1>5. \A d \in Checkpoint \ {c} : files'[p][d] = files[p][d]
  BY <1>1, <1>2
<1>6. \A q \in PC \ {p} : files'[q] = files[q]
  BY <1>1, <1>2
<1>7. files' \in [PC -> [Checkpoint -> SUBSET {"chunks", "pending", "sent", "held"}]]
  BY <1>1, <1>2, <1>3
<1> QED
  BY <1>3, <1>4, <1>5, <1>6, <1>7

LEMMA CaptureStep ==
  ASSUME SyncInv, NEW p \in PC, NEW c \in Checkpoint, NEW n \in 1..4, Capture(p, c, n)
  PROVE  SyncInv'
<1>1. /\ RunTypes /\ DiskTypes /\ TypeOK /\ StoreOK /\ Numbered /\ JobsKnow /\ NothingLost
      /\ PcOK(p) /\ SameHead /\ StoreMoves
  BY TypesSplit, DiskSplit, StoredUnchanged DEF SyncInv, Capture, StoreMoves
<1>2. /\ at[p] = "capture" /\ Queued(files[p]) = {} /\ job[c] = None
      /\ \A q \in PC : files[q][c] = {}
  BY DEF Capture, MayCapture, Unused
<1>3. /\ \A d \in Checkpoint \ {c} : files'[p][d] = files[p][d]
      /\ \A q \in PC \ {p} : files'[q] = files[q]
      /\ "sent" \notin files'[p][c]
      /\ "pending" \in files'[p][c] => n > 2
      /\ n > 2 => {"chunks", "pending"} \subseteq files'[p][c]
  BY CaptureFiles
<1>4. local[p] \in SUBSET Checkpoint
  <2>1. after[p] \in {"send", "syncNow", "tick"}
    BY <1>1, <1>2 DEF PcOK, RunOK
  <2>2. after[p] # "send" => binding[p] # None
    BY <1>1, <2>1 DEF PcOK, RunOK, Capture, MayCapture
  <2> QED
    BY <1>1, <2>1, <2>2 DEF PcOK, RunOK, BindingOK
<1>5. /\ Base(p) \in Nat /\ Base(p) <= HeadRevision /\ KnowsAfter(local[p], Base(p))
  <2>1. CASE binding[p] = None
    <3>1. ASSUME NEW d \in Checkpoint, Committed(d) PROVE ~ (Revision(d) <= 0)
      <4>1. job[d] \in Job /\ job[d].base \in Nat /\ Revision(d) = job[d].base + 1
        BY <1>1, <3>1 DEF Numbered, TypeOK, Job
      <4> QED
        BY <4>1
    <3>2. Knows(local[p], 0)
      BY <3>1 DEF Knows
    <3>3. 0 <= HeadRevision /\ Base(p) = 0
      BY <1>1, <2>1, HeadType DEF Base
    <3> QED
      BY <1>1, <3>2, <3>3, KnowsStays
  <2>2. CASE binding[p] # None
    <3>1. /\ binding[p].revision \in Nat /\ binding[p].revision <= HeadRevision
          /\ Knows(local[p], binding[p].revision)
      BY <1>1, <2>2 DEF PcOK, BindingOK, DiskTypes, Binding
    <3> QED
      BY <1>1, <2>2, <3>1, KnowsStays DEF Base
  <2> QED
    BY <2>1, <2>2
<1>6. /\ job' \in [Checkpoint -> Job \cup {None}]
      /\ \A d \in Checkpoint \ {c} : job'[d] = job[d]
      /\ n <= 2 => job'[c] = None
      /\ n > 2 => /\ job'[c] \in Job /\ job'[c].base = Base(p)
                  /\ job'[c].content = local[p] /\ job'[c].by = p
  <2> DEFINE new == [base |-> Base(p), content |-> local[p], by |-> p]
  <2>1. job' = IF n <= 2 THEN job ELSE [job EXCEPT ![c] = new]
    BY DEF Capture
  <2>2. /\ new \in Job /\ new.base = Base(p) /\ new.content = local[p] /\ new.by = p
    BY <1>4, <1>5 DEF Job
  <2> HIDE DEF new
  <2> QED
    BY <1>1, <1>2, <2>1, <2>2 DEF DiskTypes
<1>7. JobsGrow
  BY <1>2, <1>6 DEF JobsGrow
<1>8. /\ local' \in [PC -> (SUBSET Checkpoint) \cup {None}]
      /\ \A q \in PC \ {p} : local'[q] = local[q]
      /\ local'[p] \in SUBSET Checkpoint /\ local[p] \subseteq local'[p]
      /\ n > 2 => c \in local'[p]
  BY <1>1, <1>4 DEF Capture, DiskTypes
<1>9. /\ binding' \in [PC -> Binding \cup {None}] /\ binding'[p].revision = Base(p)
      /\ binding'[p] # None
      /\ \A q \in PC \ {p} : binding'[q] = binding[q]
  <2>1. PICK new : /\ new = [revision |-> Base(p), stamped |-> n = 4]
                   /\ binding' = [binding EXCEPT ![p] = new]
    BY DEF Capture, Base
  <2>2. new \in Binding /\ new.revision = Base(p)
    BY <1>5, <2>1 DEF Binding
  <2> QED
    BY <1>1, <2>1, <2>2, SyncNone DEF DiskTypes
<1>10. DiskTypes'
  <2>1. receipt' = receipt
    BY DEF Capture
  <2>2. ASSUME NEW q \in PC, NEW d \in Queued(files'[q]), NEW e \in Queued(files'[q])
        PROVE  d = e
    <3>1. CASE q = p
      BY <1>2, <1>3, <3>1 DEF Queued
    <3>2. CASE q # p
      BY <1>1, <1>3, <3>2 DEF DiskTypes, Queued
    <3> QED
      BY <3>1, <3>2
  <2> QED
    BY <1>1, <1>6, <1>8, <1>9, <2>1, <2>2, CaptureFiles DEF DiskTypes
<1>11. /\ RunTypes' /\ at'[p] \in {"idle", "receipts", "head"} /\ after'[p] = "done"
       /\ at'[p] = "head" => cur'[p] \in Queued(files'[p])
       /\ \A q \in PC \ {p} : at'[q] = at[q] /\ after'[q] = after[q] /\ cur'[q] = cur[q]
  <2>1. CASE n = 4
    <3>1. PICK f : f = files'[p] /\ Flush(p, f)
      BY <2>1 DEF Capture
    <3>2. /\ at' \in [PC -> Awaits \cup {"idle", "capture", "receipts", "restore"}]
          /\ cur' \in [PC -> Checkpoint \cup {None}]
          /\ at'[p] \in {"receipts", "head"}
          /\ at'[p] = "head" => cur'[p] \in Queued(f)
          /\ \A q \in PC \ {p} : at'[q] = at[q] /\ cur'[q] = cur[q]
      BY <1>1, <3>1, FlushTypes
    <3> QED
      BY <1>1, <2>1, <3>1, <3>2 DEF Capture, RunTypes
  <2>2. CASE n # 4
    BY <1>1, <2>2, StopTypes DEF Capture, Uploading
  <2> QED
    BY <2>1, <2>2
<1>12. PcOK(p)'
  <2>1. BindingOK(p)'
    <3>1. HeadRevision' = HeadRevision
      BY <1>1 DEF SameHead
    <3> QED
      BY <1>5, <1>8, <1>9, <3>1 DEF BindingOK, Knows, KnowsAfter, Committed, Revision
  <2>2. QueuedOK(p)'
    <3>1. ASSUME NEW d \in Checkpoint, "pending" \in files'[p][d], "sent" \notin files'[p][d]
          PROVE  d = c /\ n > 2
      BY <1>2, <1>3, <3>1 DEF Queued
    <3>2. job'[c] \in Job => job'[c] # None
      BY SyncNone
    <3> QED
      BY <1>6, <1>8, <3>1, <3>2 DEF QueuedOK
  <2>3. ReceiptsOK(p)'
    <3>1. receipt' = receipt /\ checkpoints' = checkpoints
      BY DEF Capture
    <3>2. \A d \in Checkpoint : "sent" \in files'[p][d] => "sent" \in files[p][d]
      BY <1>3
    <3> QED
      BY <1>1, <1>8, <3>1, <3>2 DEF PcOK, ReceiptsOK, Knows, Committed, Revision
  <2>4. RunOK(p)'
    BY <1>11 DEF RunOK, Uploading
  <2> QED
    BY <2>1, <2>2, <2>3, <2>4 DEF PcOK
<1>13. ReceiptsTrue
  BY DEF Capture, ReceiptsTrue
<1>14. ASSUME NEW q \in PC PROVE PcOK(q)'
  BY <1>1, <1>3, <1>7, <1>8, <1>9, <1>11, <1>12, <1>13, <1>14, PcAfter
<1>15. JobsKnow'
  <2>1. ASSUME NEW d \in Checkpoint, job'[d] # None
        PROVE  job'[d].base <= HeadRevision' /\ KnowsAfter(job'[d].content, job'[d].base)
    <3>1. CASE d = c
      BY <1>1, <1>5, <1>6, <2>1, <3>1 DEF SameHead
    <3>2. CASE d # c
      BY <1>1, <1>6, <1>7, <2>1, <3>2, JobAfter
    <3> QED
      BY <3>1, <3>2
  <2> QED
    BY <2>1 DEF JobsKnow, Knows, KnowsAfter, Committed, Revision
<1>16. NothingLost'
  <2>1. ASSUME NEW d \in Checkpoint, job'[d] # None, checkpoints'[d] = None
        PROVE  /\ "chunks" \in files'[job'[d].by][d]
               /\ files'[job'[d].by][d] \cap {"pending", "held"} # {}
    <3>1. CASE d = c
      BY <1>3, <1>6, <2>1, <3>1
    <3>2. CASE d # c
      <4>1. job'[d] = job[d] /\ job[d] \in Job /\ job[d].by \in PC
        BY <1>1, <1>6, <2>1, <3>2 DEF DiskTypes, Job
      <4>2. files'[job[d].by][d] = files[job[d].by][d]
        BY <1>3, <3>2, <4>1
      <4>3. ~Committed(d)
        BY <1>1, <2>1 DEF SameHead, Committed
      <4> QED
        BY <1>1, <2>1, <4>1, <4>2, <4>3 DEF NothingLost
    <3> QED
      BY <3>1, <3>2
  <2> QED
    BY <2>1 DEF NothingLost, Committed
<1>17. TypeOK'
  BY <1>10, <1>11 DEF TypeOK, DiskTypes, RunTypes
<1>18. StoreOK' /\ Numbered' /\ LateOK'
  <2>1. late' \subseteq late \cup Request(p)
    BY DEF Capture
  <2> QED
    BY <1>1, <1>7, <2>1, StoreAfter, NumberedAfter, LateAfter
<1> QED
  BY <1>14, <1>15, <1>16, <1>17, <1>18 DEF SyncInv

\* Removing a receipt's files never brings its row back into the queue.
LEMMA ClearedFiles ==
  ASSUME NEW c, NEW f, NEW left \in 0..3
  PROVE  /\ Cleared(c, f, left) \subseteq f
         /\ "pending" \in Cleared(c, f, left) /\ "sent" \in f => "sent" \in Cleared(c, f, left)
BY DEF Cleared

\* The newest receipt is bound, or an even newer revision was.
LEMMA Bound ==
  ASSUME SyncInv, NEW p \in PC, binding[p] # None
  PROVE  /\ BoundRevision(p) \in Nat /\ BoundRevision(p) <= HeadRevision
         /\ BoundRevision(p) >= binding[p].revision
         /\ Knows(local[p], BoundRevision(p))
<1> DEFINE S == {binding[p].revision} \cup {receipt[c] : c \in Receipts(p)}
<1>1. StoreOK /\ Numbered /\ BindingOK(p) /\ ReceiptsOK(p)
  BY DEF SyncInv, PcOK
<1>2. binding[p].revision \in Nat /\ HeadRevision \in Nat
  BY <1>1, HeadType DEF SyncInv, TypeOK, Binding
<1>3. \A c \in Receipts(p) :
        /\ receipt[c] \in Nat /\ receipt[c] <= HeadRevision /\ Knows(local[p], receipt[c])
  BY <1>1, RevisionType DEF ReceiptsOK, Receipts
<1>4. \A r \in S : r \in Nat /\ r <= HeadRevision /\ Knows(local[p], r)
  BY <1>1, <1>2, <1>3 DEF BindingOK
<1>5. S \subseteq 0..HeadRevision /\ S # {}
  BY <1>2, <1>4
<1>6. BoundRevision(p) \in S /\ binding[p].revision <= BoundRevision(p)
  <2>1. binding[p].revision \in S
    OBVIOUS
  <2> HIDE DEF S
  <2>2. Max(S) \in S /\ \A r \in S : r <= Max(S)
    BY <1>2, <1>5, MaxExists
  <2>3. Max(S) = BoundRevision(p)
    BY DEF BoundRevision, S
  <2> QED
    BY <2>1, <2>2, <2>3
<1> QED
  BY <1>2, <1>4, <1>6

LEMMA KeepReceiptsStep ==
  ASSUME SyncInv, NEW p \in PC, NEW left, \A c \in Receipts(p) : left[c] \in 0..3,
         KeepReceipts(p, left)
  PROVE  SyncInv'
<1>1. /\ RunTypes /\ DiskTypes /\ TypeOK /\ StoreOK /\ PcOK(p) /\ SameHead /\ StoreMoves
      /\ UNCHANGED <<checkpoints, late, job, receipt, local>>
  BY TypesSplit, DiskSplit, StoredUnchanged DEF SyncInv, KeepReceipts, StoreMoves
<1>2. /\ files'[p] = [c \in Checkpoint |->
            IF c \in Receipts(p) THEN Cleared(c, files[p][c], left[c]) ELSE files[p][c]]
      /\ \A q \in PC \ {p} : files'[q] = files[q]
      /\ files' = [files EXCEPT ![p] = files'[p]]
  <2> DEFINE new == [c \in Checkpoint |->
               IF c \in Receipts(p) THEN Cleared(c, files[p][c], left[c]) ELSE files[p][c]]
  <2>1. files' = [files EXCEPT ![p] = new]
    BY DEF KeepReceipts
  <2> HIDE DEF new
  <2>2. files'[p] = new /\ \A q \in PC \ {p} : files'[q] = files[q]
    BY <1>1, <2>1 DEF DiskTypes
  <2>3. files' = [files EXCEPT ![p] = files'[p]]
    BY <2>1, <2>2
  <2> QED
    BY <2>2, <2>3 DEF new
<1>3. ASSUME NEW c \in Checkpoint
      PROVE  /\ files'[p][c] \subseteq files[p][c]
             /\ c \in Receipts(p) \/ files'[p][c] = files[p][c]
             /\ "pending" \in files'[p][c] /\ "sent" \in files[p][c] => "sent" \in files'[p][c]
  <2>1. CASE c \in Receipts(p)
    <3>1. files'[p][c] = Cleared(c, files[p][c], left[c])
      BY <1>2, <2>1
    <3> QED
      BY <2>1, <3>1, ClearedFiles
  <2>2. CASE c \notin Receipts(p)
    <3>1. files'[p][c] = files[p][c]
      BY <1>2, <2>2
    <3> QED
      BY <3>1
  <2> QED
    BY <2>1, <2>2
<1>4. /\ binding' \in [PC -> Binding \cup {None}]
      /\ \A q \in PC \ {p} : binding'[q] = binding[q]
      /\ binding[p] = None => binding'[p] = None
      /\ binding[p] # None => binding'[p] # None /\ binding'[p] \in Binding
      /\ binding[p] # None => binding'[p].revision \in {binding[p].revision, BoundRevision(p)}
  <2>1. CASE Receipts(p) = {} \/ binding[p] = None
    BY <1>1, <2>1 DEF KeepReceipts, DiskTypes
  <2>2. CASE Receipts(p) # {} /\ binding[p] # None
    <3> DEFINE new == [binding[p] EXCEPT !.revision = BoundRevision(p)]
    <3>1. binding[p] \in Binding /\ BoundRevision(p) \in Nat
      BY <1>1, <2>2, Bound DEF DiskTypes
    <3>2. new \in Binding /\ new.revision = BoundRevision(p)
      BY <3>1 DEF Binding
    <3>3. binding' = [binding EXCEPT ![p] = new]
      BY <2>2 DEF KeepReceipts
    <3> HIDE DEF new
    <3> QED
      BY <1>1, <2>2, <3>2, <3>3, SyncNone DEF DiskTypes
  <2> QED
    BY <2>1, <2>2
<1>5. DiskTypes'
  <2>1. files' \in [PC -> [Checkpoint -> SUBSET {"chunks", "pending", "sent", "held"}]]
    <3>1. files'[p] \in [Checkpoint -> SUBSET {"chunks", "pending", "sent", "held"}]
      <4>1. \A c \in Checkpoint : files'[p][c] \in SUBSET {"chunks", "pending", "sent", "held"}
        BY <1>1, <1>3 DEF DiskTypes
      <4> QED
        BY <1>2, <4>1
    <3> QED
      BY <1>1, <1>2, <3>1 DEF DiskTypes
  <2>2. \A q \in PC : Queued(files'[q]) \subseteq Queued(files[q])
    BY <1>2, <1>3 DEF Queued
  <2> QED
    BY <1>1, <1>4, <2>1, <2>2 DEF DiskTypes
<1>6. /\ RunTypes' /\ after'[p] \in {"done", after[p]}
      /\ \/ at'[p] = "idle"
         \/ at'[p] = "capture" /\ after'[p] \in {"send", "syncNow", "tick"}
      /\ \A q \in PC \ {p} : at'[q] = at[q] /\ after'[q] = after[q] /\ cur'[q] = cur[q]
  <2>1. CASE \A c \in Receipts(p) : left[c] = 3
    BY <1>1, <2>1 DEF KeepReceipts, RunTypes, Goto
  <2>2. CASE ~ \A c \in Receipts(p) : left[c] = 3
    BY <1>1, <2>2, StopTypes DEF KeepReceipts
  <2> QED
    BY <2>1, <2>2
<1>7. BindingOK(p)'
  <2>1. HeadRevision' = HeadRevision
    BY <1>1 DEF SameHead
  <2> QED
    BY <1>1, <1>4, <2>1, Bound DEF PcOK, BindingOK, Knows, Committed, Revision
<1>8. QueuedOK(p)'
  BY <1>1, <1>3 DEF PcOK, QueuedOK, Receipts
<1>9. ReceiptsOK(p)'
  BY <1>1, <1>3 DEF PcOK, ReceiptsOK, Knows, Committed, Revision
<1>10. RunOK(p)'
  BY <1>1, <1>4, <1>6 DEF PcOK, RunOK, Uploading
<1>11. Keeps(p) /\ ReceiptsTrue
  BY <1>1, <1>3 DEF PcOK, ReceiptsOK, Receipts, Keeps, ReceiptsTrue, Committed
<1> QED
  BY <1>1, <1>2, <1>4, <1>5, <1>6, <1>7, <1>8, <1>9, <1>10, <1>11, DiskStep DEF PcOK

\* Queued work is held, the session becomes the imported one.
LEMMA RestoreBindStep ==
  ASSUME SyncInv, NEW p \in PC, NEW n \in 1..2, NEW found \in BOOLEAN, RestoreBind(p, n, found)
  PROVE  SyncInv'
<1> DEFINE c == cur[p]
<1>1. /\ RunTypes /\ DiskTypes /\ TypeOK /\ StoreOK /\ Numbered /\ JobsKnow /\ PcOK(p)
      /\ SameHead /\ StoreMoves
      /\ UNCHANGED <<checkpoints, late, job, receipt>>
  BY TypesSplit, DiskSplit, StoredUnchanged DEF SyncInv, RestoreBind, StoreMoves
<1>2. /\ c \in Checkpoint /\ Committed(c)
      /\ \A d \in Receipts(p) : Revision(d) <= Revision(c)
      /\ Revision(c) \in Nat /\ Revision(c) <= HeadRevision
  BY <1>1, RevisionType DEF PcOK, RunOK, RestoreBind
<1>3. /\ job[c] # None /\ job[c].content \in SUBSET Checkpoint /\ job[c].base \in Nat
      /\ Revision(c) = job[c].base + 1 /\ Knows(job[c].content, job[c].base)
  BY <1>1, <1>2 DEF Numbered, JobsKnow, DiskTypes, Job
<1>4. Knows(job[c].content \cup {c}, Revision(c))
  <2>1. ASSUME NEW d \in Checkpoint, Committed(d), Revision(d) <= Revision(c)
        PROVE  d \in job[c].content \cup {c}
    <3>1. Revision(d) \in Nat
      BY <1>1, <2>1, RevisionType
    <3>2. Revision(d) <= job[c].base \/ Revision(d) = Revision(c)
      BY <1>3, <2>1, <3>1
    <3> QED
      BY <1>1, <1>2, <1>3, <2>1, <3>2 DEF Knows, Numbered
  <2> QED
    BY <2>1 DEF Knows
<1>5. /\ files'[p] = [d \in Checkpoint |->
            IF d \in Queued(files[p]) THEN Held(files[p][d]) ELSE files[p][d]]
      /\ \A q \in PC \ {p} : files'[q] = files[q]
      /\ files' = [files EXCEPT ![p] = files'[p]]
  BY <1>1 DEF RestoreBind, DiskTypes
<1>6. ASSUME NEW d \in Checkpoint
      PROVE  /\ files'[p][d] \in SUBSET {"chunks", "pending", "sent", "held"}
             /\ "sent" \in files'[p][d] <=> "sent" \in files[p][d]
             /\ ~ ("pending" \in files'[p][d] /\ "sent" \notin files'[p][d])
             /\ \/ files'[p][d] = files[p][d]
                \/ /\ "chunks" \in files[p][d] => "chunks" \in files'[p][d]
                   /\ "held" \in files'[p][d]
  <2>1. files[p][d] \in SUBSET {"chunks", "pending", "sent", "held"}
    BY <1>1 DEF DiskTypes
  <2>2. CASE d \in Queued(files[p])
    <3>1. files'[p][d] = Held(files[p][d])
      BY <1>5, <2>2
    <3> QED
      BY <2>1, <2>2, <3>1 DEF Queued, Held
  <2>3. CASE d \notin Queued(files[p])
    <3>1. files'[p][d] = files[p][d]
      BY <1>5, <2>3
    <3> QED
      BY <2>1, <2>3, <3>1 DEF Queued
  <2> QED
    BY <2>2, <2>3
<1>7. /\ local' \in [PC -> (SUBSET Checkpoint) \cup {None}]
      /\ binding' \in [PC -> Binding \cup {None}]
      /\ \A q \in PC \ {p} : binding'[q] = binding[q] /\ local'[q] = local[q]
      /\ \/ /\ n = 2 /\ local'[p] = job[c].content \cup {c}
            /\ binding'[p] # None /\ binding'[p].revision = Revision(c)
         \/ n # 2 /\ local'[p] = local[p] /\ binding'[p] = binding[p]
  <2>1. CASE n = 2
    <3>1. PICK new : /\ new = [revision |-> Revision(c), stamped |-> found]
                     /\ binding' = [binding EXCEPT ![p] = new]
      BY <2>1 DEF RestoreBind, Revision
    <3>2. new \in Binding /\ new.revision = Revision(c)
      BY <1>2, <3>1 DEF Binding
    <3>3. local' = [local EXCEPT ![p] = job[c].content \cup {c}]
      BY <2>1 DEF RestoreBind
    <3> QED
      BY <1>1, <1>2, <1>3, <2>1, <3>1, <3>2, <3>3, SyncNone DEF DiskTypes
  <2>2. CASE n # 2
    BY <1>1, <2>2 DEF RestoreBind, DiskTypes
  <2> QED
    BY <2>1, <2>2
<1>8. DiskTypes'
  <2>1. files' \in [PC -> [Checkpoint -> SUBSET {"chunks", "pending", "sent", "held"}]]
    <3>1. files'[p] \in [Checkpoint -> SUBSET {"chunks", "pending", "sent", "held"}]
      BY <1>5, <1>6
    <3> QED
      BY <1>1, <1>5, <3>1 DEF DiskTypes
  <2>2. \A q \in PC : Queued(files'[q]) \subseteq Queued(files[q])
    BY <1>5, <1>6 DEF Queued
  <2> QED
    BY <1>1, <1>7, <2>1, <2>2 DEF DiskTypes
<1>9. /\ RunTypes' /\ at'[p] = "idle" /\ after'[p] \in {"done", after[p]}
      /\ \A q \in PC \ {p} : at'[q] = at[q] /\ after'[q] = after[q] /\ cur'[q] = cur[q]
  <2>1. CASE n = 2
    BY <1>1, <2>1 DEF RestoreBind, RunTypes, Goto
  <2>2. CASE n # 2
    BY <1>1, <2>2, StopTypes DEF RestoreBind
  <2> QED
    BY <2>1, <2>2
<1>10. BindingOK(p)'
  <2>1. HeadRevision' = HeadRevision
    BY <1>1 DEF SameHead
  <2>2. CASE n = 2
    BY <1>1, <1>2, <1>3, <1>4, <1>7, <2>1, <2>2 DEF BindingOK, Knows, Committed, Revision
  <2>3. CASE n # 2
    BY <1>1, <1>7, <2>1, <2>3 DEF PcOK, BindingOK, Knows, Committed, Revision
  <2> QED
    BY <2>2, <2>3
<1>11. QueuedOK(p)'
  BY <1>6 DEF QueuedOK
<1>12. ReceiptsOK(p)'
  <2>1. ASSUME NEW d \in Checkpoint, "sent" \in files[p][d], n = 2
        PROVE  Knows(job[c].content \cup {c}, Revision(d))
    <3>1. Revision(d) <= Revision(c) /\ Committed(d)
      BY <1>1, <1>2, <2>1 DEF Receipts, PcOK, ReceiptsOK
    <3>2. Revision(d) \in Nat
      BY <1>1, <3>1, RevisionType
    <3>3. \A e \in Checkpoint : Committed(e) => Revision(e) \in Nat
      BY <1>1, RevisionType
    <3> QED
      BY <1>2, <1>4, <3>1, <3>2, <3>3 DEF Knows
  <2>2. CASE n = 2
    BY <1>1, <1>2, <1>3, <1>6, <1>7, <2>1, <2>2 DEF PcOK, ReceiptsOK, Knows, Committed, Revision
  <2>3. CASE n # 2
    BY <1>1, <1>6, <1>7, <2>3 DEF PcOK, ReceiptsOK, Knows, Committed, Revision
  <2> QED
    BY <2>2, <2>3
<1>13. RunOK(p)'
  BY <1>1, <1>2, <1>3, <1>7, <1>9 DEF PcOK, RunOK, Uploading
<1>14. Keeps(p) /\ ReceiptsTrue
  BY <1>1, <1>6 DEF Keeps, ReceiptsTrue
<1> QED
  BY <1>1, <1>5, <1>7, <1>8, <1>9, <1>10, <1>11, <1>12, <1>13, <1>14, DiskStep DEF PcOK

--------------------------------------------------------------------------------
(* The system *)

LEMMA WorkStep ==
  ASSUME SyncInv, NEW p \in PC, Work(p)
  PROVE  SyncInv'
<1>1. ASSUME NEW c \in Checkpoint, Capture(p, c, 4) PROVE SyncInv'
  BY <1>1, CaptureStep
<1>2. CASE KeepReceipts(p, [c \in Checkpoint |-> 3])
  <2>1. PICK left : left = [c \in Checkpoint |-> 3] /\ KeepReceipts(p, left)
    BY <1>2
  <2>2. \A c \in Receipts(p) : left[c] \in 0..3
    BY <2>1 DEF Receipts
  <2> QED
    BY <2>1, <2>2, KeepReceiptsStep
<1>3. ASSUME NEW found \in BOOLEAN, RestoreBind(p, 2, found) PROVE SyncInv'
  BY <1>3, RestoreBindStep
<1>4. CASE FindCommitted(p, 2) \/ Publish(p, 2)
  BY <1>4, FindCommittedStep, PublishStep
<1> QED
  BY <1>1, <1>2, <1>3, <1>4, CaptureNothingStep, FlushSteps DEF Work

LEMMA FaultStep ==
  ASSUME SyncInv, NEW p \in PC, Fault(p)
  PROVE  SyncInv'
<1>1. ASSUME NEW c \in Checkpoint, NEW n \in 1..3, Capture(p, c, n) PROVE SyncInv'
  BY <1>1, CaptureStep
<1>2. ASSUME NEW left \in ClearOrders(Receipts(p)), KeepReceipts(p, left) PROVE SyncInv'
  <2>1. \A c \in Receipts(p) : left[c] \in 0..3
    BY DEF ClearOrders
  <2> QED
    BY <1>2, <2>1, KeepReceiptsStep
<1>3. CASE RestoreBind(p, 1, FALSE)
  <2>1. 1 \in 1..2 /\ FALSE \in BOOLEAN
    OBVIOUS
  <2> QED
    BY <1>3, <2>1, RestoreBindStep, Zenon
<1>4. CASE FindCommitted(p, 1) \/ Publish(p, 1)
  BY <1>4, FindCommittedStep, PublishStep
<1> QED
  BY <1>1, <1>2, <1>3, <1>4, UnansweredStep, CrashStep DEF Fault

LEMMA SyncStep == SyncInv /\ [Next]_vars => SyncInv'
<1> SUFFICES ASSUME SyncInv, [Next]_vars PROVE SyncInv'
  OBVIOUS
<1>1. CASE Tick
  BY <1>1, TickStep
<1>2. ASSUME NEW r \in late, Arrive(r) PROVE SyncInv'
  BY <1>2, ArriveStep
<1>3. ASSUME NEW p \in PC, Edit(p) \/ Start(p, "tick") \/ Renew(p) \/ Work(p) \/ Fault(p)
      PROVE  SyncInv'
  BY <1>3, EditStep, StartStep, FlushSteps, WorkStep, FaultStep
<1>4. ASSUME NEW p \in PC, Use(p) PROVE SyncInv'
  BY <1>4, StartStep, RestoreDownloadStep DEF Use
<1>5. CASE UNCHANGED vars
  <2>1. SameHead
    BY <1>5, StoredUnchanged DEF SyncInv, vars
  <2> QED
    BY <1>5, <2>1, QuietService DEF vars, StoreMoves
<1> QED
  BY <1>1, <1>2, <1>3, <1>4, <1>5 DEF Next, Unattended

\* Whatever crashes and whatever request is lost or late, service and PCs agree on
\* what is published, queued and acknowledged.
THEOREM SyncInvariant == Spec => []SyncInv
<1> QED
  BY SyncInit, SyncStep, PTL DEF Spec

\* Files, jobs and program positions are what the code can write or reach, and no
\* PC ever has two rows of the conversation queued.
THEOREM SyncTypeCorrect == Spec => []TypeOK
<1>1. SyncInv => TypeOK
  BY DEF SyncInv
<1> QED
  BY <1>1, SyncInvariant, PTL

\* publish, restore, capture: a published checkpoint contains the work of all that were
\* published before it, however many PCs take turns, crash and have their requests
\* arrive late.
THEOREM NoLostUpdateAlways == Spec => []NoLostUpdate
<1>1. ASSUME SyncInv, NEW c \in Checkpoint, NEW d \in Checkpoint, Committed(c), Committed(d),
             checkpoints[c].revision < checkpoints[d].revision
      PROVE  c \in job[d].content
  <2>1. job[d] # None /\ Revision(d) = job[d].base + 1
    BY <1>1 DEF SyncInv, Numbered
  <2>2. job[d] \in Job /\ job[d].base \in Nat /\ Revision(c) \in Nat
    BY <1>1, <2>1, RevisionType DEF SyncInv, TypeOK, Job
  <2>3. Revision(c) <= job[d].base
    BY <1>1, <2>1, <2>2 DEF Revision
  <2> QED
    BY <1>1, <2>1, <2>3 DEF SyncInv, JobsKnow, Knows
<1>2. SyncInv => NoLostUpdate
  BY <1>1 DEF NoLostUpdate
<1> QED
  BY <1>2, SyncInvariant, PTL

\* capture, flush, restore: the base a PC will send is never a revision whose work
\* its session does not contain.
THEOREM BindingIsTrueAlways == Spec => []BindingIsTrue
<1>1. ASSUME SyncInv, NEW p \in PC, NEW c \in Checkpoint, binding[p] # None, Committed(c),
             checkpoints[c].revision = binding[p].revision
      PROVE  c \in local[p]
  <2>1. Revision(c) \in Nat /\ Revision(c) <= binding[p].revision
    BY <1>1, RevisionType DEF SyncInv, Revision
  <2> QED
    BY <1>1, <2>1 DEF SyncInv, PcOK, BindingOK, Knows
<1>2. SyncInv => BindingIsTrue
  BY <1>1 DEF BindingIsTrue
<1> QED
  BY <1>2, SyncInvariant, PTL

\* acknowledge: a receipt on disk is the service's own numbering of that checkpoint.
THEOREM ReceiptIsTrueAlways == Spec => []ReceiptIsTrue
<1>1. SyncInv => ReceiptIsTrue
  BY DEF SyncInv, PcOK, ReceiptsOK, ReceiptIsTrue, Receipts, Revision
<1> QED
  BY <1>1, SyncInvariant, PTL

\* enqueue, hold, acknowledge, clearReceipts: captured work stays on the PC that
\* made it until the service has it, whatever write or answer is lost.
THEOREM NothingLostAlways == Spec => []NothingLost
<1>1. SyncInv => NothingLost
  BY DEF SyncInv
<1> QED
  BY <1>1, SyncInvariant, PTL

--------------------------------------------------------------------------------
(* The service behind the PCs: CheckpointStore, with everything that is proved of it *)

Service == INSTANCE CheckpointStore_proofs WITH
  Owner <- {Account}, Device <- PC, Stream <- {Conversation}, Digest <- {},
  Bytes <- << >>, Manifest <- {{}}, Upload <- {}, MAX_ACCOUNT_BYTES <- 0,
  devices <- [p \in PC |-> Account], objects <- [o \in {Account} |-> << >>],
  quotas <- [o \in {Account} |-> 0], blobs <- {}, uploads <- << >>

\* What CheckpointStore assumes of its constants is true of this one's.
ServiceAssumptions ==
  /\ Service!BytesAssumption /\ Service!ManifestAssumption /\ Service!LeaseAssumption
  /\ Service!BoundAssumption /\ Service!NoneAssumption

LEMMA ServiceAssumed == ServiceAssumptions
<1>1. Service!BytesAssumption
  BY DEF Service!BytesAssumption
<1>2. Service!ManifestAssumption /\ Service!LeaseAssumption /\ Service!BoundAssumption
  BY SyncBounds DEF Service!ManifestAssumption, Service!LeaseAssumption, Service!BoundAssumption
<1>3. Service!NoneAssumption
  BY SyncNone DEF Service!NoneAssumption, Service!StreamRow, Service!CheckpointRow, Service!Chunk,
                  Store!StreamRow, Store!CheckpointRow
<1> QED
  BY <1>1, <1>2, <1>3 DEF ServiceAssumptions

Leases == Service!Lease(Conversation)

\* A PC that uploads, publishes or releases does so under a lease it was granted.
HoldsLease(p) ==
  at[p] \in {"upload", "publish", "release"} => lease[p] \in Leases /\ lease[p].deviceId = p

\* So does a request that nobody waits for any more.
AskedLease(r) ==
  /\ r.kind \in {"renew", "release"} => r.lease \in Leases
  /\ r.kind = "publish" =>
       \E base \in Nat, identity \in Leases, c \in Checkpoint :
         r.input = Service!Input(Conversation, base, identity, c, {})

LeasesOK ==
  /\ DOMAIN lease = PC
  /\ \A p \in PC : HoldsLease(p)
  /\ \A r \in late : AskedLease(r)

\* What a step asks of the service, if anything.
Serves ==
  \/ UNCHANGED storeVars
  \/ Service!Tick
  \/ Service!Create(Account, Conversation)
  \/ \E p \in PC, base \in Nat : Service!Acquire(Account, Conversation, p, base)
  \/ \E identity \in Leases : Service!Renew(Account, Conversation, identity)
  \/ \E identity \in Leases : Service!Release(Account, Conversation, identity)
  \/ \E base \in Nat, identity \in Leases, c \in Checkpoint :
       Service!Publish(Account, Conversation, Service!Input(Conversation, base, identity, c, {}))

LEMMA RowStored ==
  ASSUME Service!StoreInv
  PROVE  /\ Row = None \/ Row \in Service!StreamRow
         /\ Row # None => Row.fence \in Nat /\ Row.revision \in Nat
         /\ DOMAIN granted = {Conversation}
         /\ DOMAIN granted[Conversation] = 1..(IF Row = None THEN 0 ELSE Row.fence)
<1>1. /\ streams \in [{Conversation} -> Service!StreamRow \cup {None}]
      /\ DOMAIN granted = {Conversation}
      /\ granted[Conversation] \in [1..Service!Issued(Conversation) -> Service!Grant]
  BY DEF Service!StoreInv, Service!TypeOK
<1> QED
  BY <1>1 DEF Row, Service!StreamRow, Service!Issued

\* A PC asks for nothing that CheckpointStore does not expect of its clients.
LEMMA ServesIsNext ==
  ASSUME Service!StoreInv, Serves
  PROVE  [Service!Next]_(Service!vars)
<1>1. CASE UNCHANGED storeVars
  BY <1>1 DEF Service!vars, Service!streamVars, Service!objectVars
<1>2. CASE Service!Tick
  BY <1>2 DEF Service!Next
<1>3. ASSUME NEW base \in Nat, Row # None, Row.revision = base
      PROVE  base \in Service!Bases(Conversation)
  BY <1>3 DEF Service!Bases, Row
<1>4. Serves /\ ~ UNCHANGED storeVars /\ ~ Service!Tick => Service!StreamRequest(Account, Conversation)
  <2>1. ASSUME NEW p \in PC, NEW base \in Nat, Service!Acquire(Account, Conversation, p, base)
        PROVE  base \in Service!Bases(Conversation)
    BY <2>1, <1>3 DEF Service!Acquire, Service!CanAcquire, Service!Owns, Row
  <2>2. ASSUME NEW base \in Nat, NEW identity \in Leases, NEW c \in Checkpoint,
               Service!Publish(Account, Conversation, Service!Input(Conversation, base, identity, c, {}))
        PROVE  base \in Service!Bases(Conversation)
    BY <2>2, <1>3 DEF Service!Publish, Service!CanPublish, Service!Owns, Service!Input, Row
  <2> QED
    BY <2>1, <2>2 DEF Serves, Leases, Service!StreamRequest
<1> QED
  BY <1>1, <1>2, <1>4 DEF Service!Next

\* A lease that was granted stays granted.
LEMMA LeasesStay ==
  ASSUME Service!StoreInv, Serves
  PROVE  Leases \subseteq Leases'
<1>1. CASE granted' = granted
  BY <1>1 DEF Leases, Service!Lease, Service!LeaseIdentity
<1>2. ASSUME NEW p \in PC, NEW base \in Nat, Service!Acquire(Account, Conversation, p, base)
      PROVE  Leases \subseteq Leases'
  <2>1. Row # None /\ Row.fence \in Nat
    BY <1>2, RowStored DEF Service!Acquire, Service!CanAcquire, Service!Owns, Row
  <2>2. DOMAIN granted[Conversation] = 1..Row.fence
    BY <2>1, RowStored
  <2>3. granted'[Conversation] = [f \in 1..(Row.fence + 1) |->
           IF f <= Row.fence THEN granted[Conversation][f] ELSE [device |-> p, base |-> base]]
    BY <1>2, RowStored DEF Service!Acquire, Row
  <2>4. ASSUME NEW f \in DOMAIN granted[Conversation]
        PROVE  f \in DOMAIN granted'[Conversation] /\ granted'[Conversation][f] = granted[Conversation][f]
    BY <2>1, <2>2, <2>3, <2>4
  <2> QED
    BY <2>4 DEF Leases, Service!Lease, Service!LeaseIdentity
<1> QED
  BY <1>1, <1>2 DEF Serves, Service!Tick, Service!Create, Service!Renew, Service!Release, Service!Publish

\* Store and Service are the same module on the same variables.
LEMMA SameRequests ==
  /\ Store!Tick => Service!Tick
  /\ Store!Create(Account, Conversation) => Service!Create(Account, Conversation)
  /\ \A p \in PC, base \in Nat :
       Store!Acquire(Account, Conversation, p, base) => Service!Acquire(Account, Conversation, p, base)
  /\ \A identity \in Leases :
       /\ Store!Renew(Account, Conversation, identity) => Service!Renew(Account, Conversation, identity)
       /\ Store!Release(Account, Conversation, identity) => Service!Release(Account, Conversation, identity)
  /\ \A base \in Nat, identity \in Leases, c \in Checkpoint :
       LET input == Service!Input(Conversation, base, identity, c, {})
       IN  Store!Publish(Account, Conversation, input) => Service!Publish(Account, Conversation, input)
<1>1. Store!Tick => Service!Tick
  BY DEF Store!Tick, Service!Tick, Store!objectVars, Service!objectVars
<1>2. Store!Create(Account, Conversation) => Service!Create(Account, Conversation)
  BY DEF Store!Create, Service!Create, Store!objectVars, Service!objectVars
<1>3. ASSUME NEW p \in PC, NEW base \in Nat, Store!Acquire(Account, Conversation, p, base)
      PROVE  Service!Acquire(Account, Conversation, p, base)
  BY <1>3 DEF Store!Acquire, Service!Acquire, Store!CanAcquire, Service!CanAcquire, Store!Owns,
              Service!Owns, Store!Registered, Service!Registered, Store!objectVars, Service!objectVars
<1>4. ASSUME NEW identity \in Leases
      PROVE  /\ Store!Renew(Account, Conversation, identity) =>
                  Service!Renew(Account, Conversation, identity)
             /\ Store!Release(Account, Conversation, identity) =>
                  Service!Release(Account, Conversation, identity)
  BY DEF Store!Renew, Service!Renew, Store!Release, Service!Release, Store!Owns, Service!Owns,
         Store!AssertLease, Service!AssertLease, Store!objectVars, Service!objectVars
<1>5. ASSUME NEW input, Store!Publish(Account, Conversation, input)
      PROVE  Service!Publish(Account, Conversation, input)
  BY <1>5 DEF Store!Publish, Service!Publish, Store!CanPublish, Service!CanPublish, Store!Owns,
              Service!Owns, Store!AssertLease, Service!AssertLease, Store!Complete, Service!Complete,
              Store!Fingerprint, Service!Fingerprint, Store!objectVars, Service!objectVars
<1> QED
  BY <1>1, <1>2, <1>3, <1>4, <1>5

\* Service!StoreInv says of the tables what Store!StoreInv does.
LEMMA SameInv == Store!StoreInv <=> Service!StoreInv
BY DEF Store!StoreInv, Store!TypeOK, Store!LinearHistory, Store!NumberedInOrder, Store!HeadIsNewest,
  Store!NoLateWriter, Store!GrantsBehindHead, Store!PublishedIsStored, Store!ReadyIsStored, Store!In,
  Store!Rev, Store!Owns, Store!Grant, Store!Issued, Store!StreamRow, Store!CheckpointRow,
  Store!UploadState, Store!Free,
  Service!StoreInv, Service!TypeOK, Service!LinearHistory, Service!NumberedInOrder,
  Service!HeadIsNewest, Service!NoLateWriter, Service!GrantsBehindHead, Service!PublishedIsStored,
  Service!ReadyIsStored, Service!In, Service!Rev, Service!Owns, Service!Grant, Service!Issued,
  Service!StreamRow, Service!CheckpointRow, Service!UploadState, Service!Free

LEMMA SameNext == [Service!Next]_(Service!vars) <=> [Store!Next]_(Store!vars)
BY DEF Store!Next, Store!vars, Store!Tick, Store!Register, Store!StreamRequest, Store!Create,
  Store!Acquire, Store!Renew, Store!Release, Store!Publish, Store!PutReserve, Store!PutBlob,
  Store!PutMarkReady, Store!PutAbort, Store!Lease, Store!Input, Store!Bases, Store!LeaseIdentity,
  Store!CanAcquire, Store!CanPublish, Store!AssertLease, Store!Fingerprint, Store!Complete,
  Store!CanReserve, Store!Registered, Store!Owns, Store!objectVars, Store!streamVars, Store!Free,
  Service!Next, Service!vars, Service!Tick, Service!Register, Service!StreamRequest, Service!Create,
  Service!Acquire, Service!Renew, Service!Release, Service!Publish, Service!PutReserve,
  Service!PutBlob, Service!PutMarkReady, Service!PutAbort, Service!Lease, Service!Input,
  Service!Bases, Service!LeaseIdentity, Service!CanAcquire, Service!CanPublish, Service!AssertLease,
  Service!Fingerprint, Service!Complete, Service!CanReserve, Service!Registered, Service!Owns,
  Service!objectVars, Service!streamVars, Service!Free
--------------------------------------------------------------------------------
(* Each step of a PC *)

\* What a step leaves of LeasesOK.
LEMMA LeasesAfter ==
  ASSUME Service!StoreInv, Serves, LeasesOK, DOMAIN lease' = PC,
         \A p \in PC : HoldsLease(p)', \A r \in late' : r \in late \/ AskedLease(r)
  PROVE  LeasesOK'
<1>1. Leases \subseteq Leases'
  BY LeasesStay
<1>2. ASSUME NEW r \in late', AskedLease(r) PROVE AskedLease(r)'
  BY <1>1, <1>2 DEF AskedLease, Service!Input
<1> QED
  BY <1>2 DEF LeasesOK

\* p changes nothing of the service: it keeps the lease it works under, or none.
LEMMA KeepsLease ==
  ASSUME Service!StoreInv, LeasesOK, NEW p \in PC, Serves,
         \A q \in PC \ {p} : at'[q] = at[q] /\ lease'[q] = lease[q],
         DOMAIN lease' = PC,
         at'[p] \in {"upload", "publish", "release"} =>
           at[p] \in {"upload", "publish", "release"} /\ lease'[p] = lease[p],
         \A r \in late' : r \in late \/ AskedLease(r)
  PROVE  LeasesOK'
<1>1. Leases \subseteq Leases'
  BY LeasesStay
<1>2. ASSUME NEW q \in PC PROVE HoldsLease(q)'
  <2>1. CASE q = p
    BY <1>1, <2>1 DEF LeasesOK, HoldsLease
  <2>2. CASE q # p
    BY <1>1, <2>2 DEF LeasesOK, HoldsLease
  <2> QED
    BY <2>1, <2>2
<1> QED
  BY <1>2, LeasesAfter

\* A request p gives up on is one it makes under its own lease.
LEMMA RequestAsked ==
  ASSUME SyncInv, LeasesOK, NEW p \in PC, NEW r \in Request(p)
  PROVE  AskedLease(r)
<1>1. CASE at[p] \in {"upload", "release"}
  <2>1. lease[p] \in Leases
    BY <1>1 DEF LeasesOK, HoldsLease
  <2> QED
    BY <1>1, <2>1 DEF Request, AskedLease
<1>2. CASE at[p] = "publish"
  <2>1. lease[p] \in Leases /\ lease[p].deviceId = p
    BY <1>2 DEF LeasesOK, HoldsLease
  <2>2. cur[p] \in Checkpoint /\ job[cur[p]] # None
    BY <1>2 DEF SyncInv, PcOK, QueuedOK, RunOK, Uploading, Queued
  <2>3. job[cur[p]].base \in Nat
    BY <2>2 DEF SyncInv, TypeOK, Job
  <2>4. r.kind = "publish" /\ r.input = Input(p)
    BY <1>2 DEF Request
  <2>5. Input(p) = Service!Input(Conversation, job[cur[p]].base, lease[p], cur[p], {})
    BY <2>1 DEF Input, Service!Input
  <2> QED
    BY <2>1, <2>2, <2>3, <2>4, <2>5 DEF AskedLease
<1>3. CASE at[p] \notin {"upload", "release", "publish"}
  <2>1. r.kind \in {"create", "acquire"}
    BY <1>3 DEF Request
  <2> QED
    BY <2>1 DEF AskedLease
<1> QED
  BY <1>1, <1>2, <1>3

\* p goes on working under its lease, or stops working under one; no other PC moves.
KeptBy(p) ==
  /\ \A q \in PC \ {p} : at'[q] = at[q] /\ lease'[q] = lease[q]
  /\ DOMAIN lease' = PC
  /\ at'[p] \in {"upload", "publish", "release"} =>
       at[p] \in {"upload", "publish", "release"} /\ lease'[p] = lease[p]
  /\ \A r \in late' : r \in late \/ AskedLease(r)

LEMMA StopKeeps ==
  ASSUME SyncInv, LeasesOK, NEW p \in PC, Stop(p), late' \subseteq late \cup Request(p)
  PROVE  KeptBy(p)
<1>1. /\ at \in [PC -> Awaits \cup {"idle", "capture", "receipts", "restore"}] /\ DOMAIN lease = PC
  BY DEF SyncInv, TypeOK, LeasesOK
<1>2. \A r \in late' : r \in late \/ AskedLease(r)
  BY RequestAsked
<1> QED
  BY <1>1, <1>2 DEF Stop, KeptBy

\* The steps that ask the service nothing, or only read from it.
LEMMA QuietKeeps ==
  ASSUME SyncInv, LeasesOK, NEW p \in PC,
         \/ Edit(p) \/ RestoreDownload(p) \/ CaptureNothing(p)
         \/ \E kind \in {"send", "syncNow", "tick", "retry"} : Start(p, kind)
         \/ FindConflict(p) \/ AcquireRefused(p) \/ UploadChunks(p) \/ LeaseLost(p)
         \/ Unanswered(p) \/ Crash(p)
  PROVE  UNCHANGED storeVars /\ KeptBy(p)
<1>1. /\ at \in [PC -> Awaits \cup {"idle", "capture", "receipts", "restore"}] /\ DOMAIN lease = PC
  BY DEF SyncInv, TypeOK, LeasesOK
<1>2. CASE Edit(p)
  BY <1>1, <1>2 DEF Edit, KeptBy
<1>3. CASE RestoreDownload(p)
  BY <1>1, <1>3 DEF RestoreDownload, KeptBy, Goto
<1>4. CASE CaptureNothing(p)
  BY <1>1, <1>4 DEF CaptureNothing, KeptBy, Goto, Flush
<1>5. ASSUME NEW kind \in {"send", "syncNow", "tick", "retry"}, Start(p, kind)
      PROVE  UNCHANGED storeVars /\ KeptBy(p)
  BY <1>1, <1>5 DEF Start, KeptBy, Goto, Flush
<1>6. CASE FindConflict(p)
  BY <1>1, <1>6 DEF FindConflict, Quiet, KeptBy, Goto
<1>7. CASE AcquireRefused(p)
  BY <1>1, <1>7 DEF AcquireRefused, Quiet, KeptBy, Goto
<1>8. CASE UploadChunks(p)
  BY <1>1, <1>8 DEF UploadChunks, Quiet, KeptBy, Goto
<1>9. CASE LeaseLost(p)
  BY <1>1, <1>9 DEF LeaseLost, Quiet, KeptBy, Goto
<1>10. CASE Unanswered(p)
  <2>1. \A r \in late' : r \in late \/ AskedLease(r)
    BY <1>10, RequestAsked DEF Unanswered
  <2> QED
    BY <1>1, <1>10, <2>1 DEF Unanswered, KeptBy, Goto
<1>11. CASE Crash(p)
  BY <1>11, StopKeeps DEF Crash
<1> QED
  BY <1>2, <1>3, <1>4, <1>5, <1>6, <1>7, <1>8, <1>9, <1>10, <1>11

\* The steps that write the outbox: a crash between two writes is one of them.
LEMMA WriteKeeps ==
  ASSUME SyncInv, LeasesOK, NEW p \in PC,
         \/ \E c \in Checkpoint, n \in 1..4 : Capture(p, c, n)
         \/ \E n \in 1..2 : FindCommitted(p, n)
         \/ \E left : KeepReceipts(p, left)
         \/ \E n \in 1..2, found \in BOOLEAN : RestoreBind(p, n, found)
  PROVE  UNCHANGED storeVars /\ KeptBy(p)
<1>1. /\ at \in [PC -> Awaits \cup {"idle", "capture", "receipts", "restore"}] /\ DOMAIN lease = PC
  BY DEF SyncInv, TypeOK, LeasesOK
<1>2. ASSUME NEW c \in Checkpoint, NEW n \in 1..4, Capture(p, c, n)
      PROVE  UNCHANGED storeVars /\ KeptBy(p)
  <2>1. storeVars' = storeVars /\ late' = late
    BY <1>2 DEF Capture
  <2>2. CASE n = 4
    BY <1>1, <1>2, <2>1, <2>2 DEF Capture, Flush, KeptBy
  <2>3. CASE n # 4
    BY <1>2, <2>1, <2>3, StopKeeps DEF Capture
  <2> QED
    BY <2>1, <2>2, <2>3
<1>3. ASSUME NEW n \in 1..2, FindCommitted(p, n)
      PROVE  UNCHANGED storeVars /\ KeptBy(p)
  <2>1. storeVars' = storeVars /\ late' = late
    BY <1>3 DEF FindCommitted
  <2>2. CASE n = 2
    BY <1>1, <1>3, <2>1, <2>2 DEF FindCommitted, Goto, KeptBy
  <2>3. CASE n # 2
    BY <1>3, <2>1, <2>3, StopKeeps DEF FindCommitted
  <2> QED
    BY <2>1, <2>2, <2>3
<1>4. ASSUME NEW left, KeepReceipts(p, left)
      PROVE  UNCHANGED storeVars /\ KeptBy(p)
  <2>1. storeVars' = storeVars /\ late' = late
    BY <1>4 DEF KeepReceipts
  <2>2. CASE \A c \in Receipts(p) : left[c] = 3
    BY <1>1, <1>4, <2>1, <2>2 DEF KeepReceipts, Goto, KeptBy
  <2>3. CASE ~ \A c \in Receipts(p) : left[c] = 3
    <3>1. Stop(p)
      BY <1>4, <2>3 DEF KeepReceipts
    <3> QED
      BY <2>1, <3>1, StopKeeps
  <2> QED
    BY <2>1, <2>2, <2>3
<1>5. ASSUME NEW n \in 1..2, NEW found \in BOOLEAN, RestoreBind(p, n, found)
      PROVE  UNCHANGED storeVars /\ KeptBy(p)
  <2>1. storeVars' = storeVars /\ late' = late
    BY <1>5 DEF RestoreBind
  <2>2. CASE n = 2
    BY <1>1, <1>5, <2>1, <2>2 DEF RestoreBind, Goto, KeptBy
  <2>3. CASE n # 2
    BY <1>5, <2>1, <2>3, StopKeeps DEF RestoreBind
  <2> QED
    BY <2>1, <2>2, <2>3
<1> QED
  BY <1>2, <1>3, <1>4, <1>5

LEMMA PublishInput ==
  ASSUME SyncInv, LeasesOK, NEW p \in PC, at[p] = "publish"
  PROVE  \E base \in Nat, identity \in Leases, c \in Checkpoint :
           Input(p) = Service!Input(Conversation, base, identity, c, {})
<1>1. lease[p] \in Leases /\ lease[p].deviceId = p
  BY DEF LeasesOK, HoldsLease
<1>2. cur[p] \in Checkpoint /\ job[cur[p]] # None
  BY DEF SyncInv, PcOK, QueuedOK, RunOK, Uploading, Queued
<1>3. job[cur[p]].base \in Nat
  BY <1>2 DEF SyncInv, TypeOK, Job
<1>4. Input(p) = Service!Input(Conversation, job[cur[p]].base, lease[p], cur[p], {})
  BY <1>1 DEF Input, Service!Input
<1> QED
  BY <1>1, <1>2, <1>3, <1>4

\* The requests a running transfer makes, and has answered.
LEMMA AskKeeps ==
  ASSUME SyncInv, LeasesOK, NEW p \in PC,
         FindCurrent(p) \/ Renew(p) \/ Release(p) \/ \E n \in 1..2 : Publish(p, n)
  PROVE  Serves /\ KeptBy(p)
<1>1. /\ at \in [PC -> Awaits \cup {"idle", "capture", "receipts", "restore"}] /\ DOMAIN lease = PC
  BY DEF SyncInv, TypeOK, LeasesOK
<1>2. ASSUME FindCurrent(p) PROVE Serves /\ KeptBy(p)
  <2>1. Serves
    BY <1>2, SameRequests DEF FindCurrent, Serves
  <2>2. KeptBy(p)
    BY <1>1, <1>2 DEF FindCurrent, Quiet, Goto, KeptBy
  <2> QED
    BY <2>1, <2>2
<1>3. ASSUME Renew(p) PROVE Serves /\ KeptBy(p)
  <2>1. lease[p] \in Leases
    BY <1>3 DEF Renew, LeasesOK, HoldsLease
  <2>2. Serves
    BY <1>3, <2>1, SameRequests DEF Renew, Serves
  <2>3. KeptBy(p)
    BY <1>1, <1>3 DEF Renew, Quiet, KeptBy
  <2> QED
    BY <2>2, <2>3
<1>4. ASSUME Release(p) PROVE Serves /\ KeptBy(p)
  <2>1. lease[p] \in Leases
    BY <1>4 DEF Release, LeasesOK, HoldsLease
  <2>2. Serves
    BY <1>4, <2>1, SameRequests DEF Release, Serves
  <2>3. KeptBy(p)
    BY <1>1, <1>4 DEF Release, Quiet, Goto, KeptBy
  <2> QED
    BY <2>2, <2>3
<1>5. ASSUME NEW n \in 1..2, Publish(p, n) PROVE Serves /\ KeptBy(p)
  <2>1. at[p] = "publish" /\ late' = late
    BY <1>5 DEF Publish
  <2>2. PICK base \in Nat, identity \in Leases, c \in Checkpoint :
          Input(p) = Service!Input(Conversation, base, identity, c, {})
    BY <2>1, PublishInput
  <2>3. Serves
    <3>1. Store!Publish(Account, Conversation, Input(p))
      BY <1>5 DEF Publish
    <3>2. Service!Publish(Account, Conversation, Service!Input(Conversation, base, identity, c, {}))
      BY <2>2, <3>1, SameRequests
    <3> QED
      BY <3>2 DEF Serves
  <2>4. CASE n = 2
    <3>1. KeptBy(p)
      BY <1>1, <1>5, <2>1, <2>4 DEF Publish, Goto, KeptBy
    <3> QED
      BY <2>3, <3>1
  <2>5. CASE n # 2
    <3>1. Stop(p)
      BY <1>5, <2>5 DEF Publish
    <3> QED
      BY <2>1, <2>3, <3>1, StopKeeps
  <2> QED
    BY <2>4, <2>5
<1> QED
  BY <1>2, <1>3, <1>4, <1>5

LEMMA KeptStep ==
  ASSUME Service!StoreInv, LeasesOK, NEW p \in PC, Serves, KeptBy(p)
  PROVE  LeasesOK'
BY KeepsLease DEF KeptBy

\* The lease p is granted is a new one of the service's.
LEMMA AcquireLeases ==
  ASSUME Service!StoreInv, SyncInv, LeasesOK, NEW p \in PC, Acquire(p)
  PROVE  Serves /\ LeasesOK'
<1> DEFINE base == job[cur[p]].base
<1>1. Service!Acquire(Account, Conversation, p, base) /\ base \in Nat
  <2>1. cur[p] \in Checkpoint /\ job[cur[p]] # None
    BY DEF Acquire, SyncInv, PcOK, QueuedOK, RunOK, Uploading, Queued
  <2>2. base \in Nat
    BY <2>1 DEF SyncInv, TypeOK, Job
  <2> QED
    BY <2>2, SameRequests DEF Acquire
<1>2. Serves
  BY <1>1 DEF Serves
<1>3. Row # None /\ Row.fence \in Nat
  BY <1>1, RowStored DEF Service!Acquire, Service!CanAcquire, Service!Owns, Row
<1>4. granted'[Conversation] = [f \in 1..(Row.fence + 1) |->
         IF f <= Row.fence THEN granted[Conversation][f] ELSE [device |-> p, base |-> base]]
  BY <1>1, RowStored DEF Service!Acquire, Row
<1>5. lease'[p] \in Leases' /\ lease'[p].deviceId = p
  <2>1. lease'[p] = Service!LeaseIdentity(p, Row.fence + 1)
    BY DEF Acquire, LeasesOK, Store!LeaseIdentity, Service!LeaseIdentity
  <2>2. Row.fence + 1 \in DOMAIN granted'[Conversation]
    BY <1>3, <1>4
  <2>3. granted'[Conversation][Row.fence + 1].device = p
    BY <1>3, <1>4
  <2>4. Service!LeaseIdentity(granted'[Conversation][Row.fence + 1].device, Row.fence + 1) \in Leases'
    BY <2>2 DEF Leases, Service!Lease, Service!LeaseIdentity
  <2> QED
    BY <2>1, <2>3, <2>4 DEF Service!LeaseIdentity
<1>6. ASSUME NEW q \in PC PROVE HoldsLease(q)'
  <2>1. CASE q = p
    BY <1>5, <2>1 DEF HoldsLease
  <2>2. CASE q # p
    <3>1. at'[q] = at[q] /\ lease'[q] = lease[q]
      BY <2>2 DEF Acquire, Goto, SyncInv, TypeOK, LeasesOK
    <3>2. Leases \subseteq Leases'
      BY <1>2, LeasesStay
    <3> QED
      BY <3>1, <3>2 DEF HoldsLease, LeasesOK
  <2> QED
    BY <2>1, <2>2
<1>7. DOMAIN lease' = PC /\ late' = late
  BY DEF Acquire, Quiet, LeasesOK
<1> QED
  BY <1>2, <1>6, <1>7, LeasesAfter

LEMMA TickLeases ==
  ASSUME Service!StoreInv, SyncInv, LeasesOK, Tick
  PROVE  Serves /\ LeasesOK'
<1>1. Serves
  BY SameRequests DEF Tick, Serves
<1>2. /\ at' = at /\ lease' = lease /\ late' = late
  BY DEF Tick
<1>3. Leases \subseteq Leases'
  BY <1>1, LeasesStay
<1>4. \A p \in PC : HoldsLease(p)'
  BY <1>2, <1>3 DEF HoldsLease, LeasesOK
<1>5. DOMAIN lease' = PC /\ \A r \in late' : r \in late \/ AskedLease(r)
  BY <1>2 DEF LeasesOK
<1> QED
  BY <1>1, <1>4, <1>5, LeasesAfter

\* A request nobody waits for asks for what its sender once could.
LEMMA ArriveLeases ==
  ASSUME Service!StoreInv, SyncInv, LeasesOK, NEW r \in late, Arrive(r)
  PROVE  Serves /\ LeasesOK'
<1>1. AskedLease(r)
  BY DEF LeasesOK
<1>2. Serves
  <2>1. CASE r.kind = "create"
    BY <2>1, SameRequests DEF Arrive, Serves
  <2>2. CASE r.kind = "acquire"
    <3>1. r.pc \in PC /\ r.base \in Nat
      BY <2>2 DEF SyncInv, LateOK
    <3> QED
      BY <2>2, <3>1, SameRequests DEF Arrive, Serves
  <2>3. CASE r.kind = "renew"
    BY <1>1, <2>3, SameRequests DEF Arrive, Serves, AskedLease
  <2>4. CASE r.kind = "release"
    BY <1>1, <2>4, SameRequests DEF Arrive, Serves, AskedLease
  <2>5. CASE r.kind = "publish"
    <3>1. PICK base \in Nat, identity \in Leases, c \in Checkpoint :
            r.input = Service!Input(Conversation, base, identity, c, {})
      BY <1>1, <2>5 DEF AskedLease
    <3>2. Store!Publish(Account, Conversation, r.input) \/ UNCHANGED storeVars
      BY <2>5 DEF Arrive
    <3> QED
      BY <3>1, <3>2, SameRequests DEF Serves
  <2> QED
    BY <2>1, <2>2, <2>3, <2>4, <2>5 DEF Arrive
<1>3. /\ at' = at /\ lease' = lease /\ late' = late \ {r}
  BY DEF Arrive
<1>4. Leases \subseteq Leases'
  BY <1>2, LeasesStay
<1>5. \A p \in PC : HoldsLease(p)'
  BY <1>3, <1>4 DEF HoldsLease, LeasesOK
<1>6. DOMAIN lease' = PC /\ \A q \in late' : q \in late \/ AskedLease(q)
  BY <1>3 DEF LeasesOK
<1> QED
  BY <1>2, <1>5, <1>6, LeasesAfter

LEMMA ServiceInit == Init => Service!StoreInv /\ LeasesOK
<1> SUFFICES ASSUME Init PROVE Service!StoreInv /\ LeasesOK
  OBVIOUS
<1>1. Service!TypeOK
  BY SyncBounds DEF Init, Service!TypeOK, Service!Issued
<1>2. Service!LinearHistory /\ Service!NoLateWriter /\ Service!GrantsBehindHead
  BY DEF Init, Service!LinearHistory, Service!NumberedInOrder, Service!HeadIsNewest, Service!In,
         Service!NoLateWriter, Service!GrantsBehindHead
<1>3. Service!PublishedIsStored /\ Service!ReadyIsStored
  BY DEF Init, Service!PublishedIsStored, Service!ReadyIsStored
<1>4. LeasesOK
  BY DEF Init, LeasesOK, HoldsLease
<1> QED
  BY <1>1, <1>2, <1>3, <1>4 DEF Service!StoreInv

LEMMA ServesKeepsInv ==
  ASSUME Service!StoreInv, Serves
  PROVE  Service!StoreInv'
BY ServesIsNext, ServiceAssumed, Service!NextInv DEF ServiceAssumptions

\* Every step of the system is one the service expects of its clients.
LEMMA SyncServes ==
  ASSUME Service!StoreInv, SyncInv, LeasesOK, [Next]_vars
  PROVE  Serves /\ LeasesOK'
<1>1. CASE Tick
  BY <1>1, TickLeases
<1>2. ASSUME NEW r \in late, Arrive(r) PROVE Serves /\ LeasesOK'
  BY <1>2, ArriveLeases
<1>3. ASSUME NEW p \in PC, UNCHANGED storeVars, KeptBy(p) PROVE Serves /\ LeasesOK'
  <2>1. Serves
    BY <1>3 DEF Serves
  <2> QED
    BY <1>3, <2>1, KeptStep
<1>4. ASSUME NEW p \in PC, Serves, KeptBy(p) PROVE Serves /\ LeasesOK'
  BY <1>4, KeptStep
<1>5. ASSUME NEW p \in PC, Edit(p) \/ Start(p, "tick") \/ Renew(p) \/ Use(p)
      PROVE  Serves /\ LeasesOK'
  <2>1. Edit(p) \/ Start(p, "tick") \/ Use(p) => UNCHANGED storeVars /\ KeptBy(p)
    BY QuietKeeps DEF Use
  <2>2. Renew(p) => Serves /\ KeptBy(p)
    BY AskKeeps
  <2> QED
    BY <1>3, <1>4, <1>5, <2>1, <2>2
<1>6. ASSUME NEW p \in PC, Work(p) PROVE Serves /\ LeasesOK'
  <2>1. ASSUME CaptureNothing(p) \/ FindConflict(p) \/ AcquireRefused(p) \/ UploadChunks(p) \/ LeaseLost(p)
        PROVE  Serves /\ LeasesOK'
    BY <2>1, <1>3, QuietKeeps
  <2>2. ASSUME \/ \E c \in Checkpoint : Capture(p, c, 4)
               \/ FindCommitted(p, 2) \/ KeepReceipts(p, [c \in Checkpoint |-> 3])
               \/ \E found \in BOOLEAN : RestoreBind(p, 2, found)
        PROVE  Serves /\ LeasesOK'
    <3>1. 4 \in 1..4 /\ 2 \in 1..2
      OBVIOUS
    <3>2. UNCHANGED storeVars /\ KeptBy(p)
      BY <2>2, <3>1, WriteKeeps, Zenon
    <3> QED
      BY <3>2, <1>3
  <2>3. ASSUME FindCurrent(p) \/ Publish(p, 2) \/ Release(p) PROVE Serves /\ LeasesOK'
    BY <2>3, <1>4, AskKeeps
  <2>4. ASSUME Acquire(p) PROVE Serves /\ LeasesOK'
    BY <2>4, AcquireLeases
  <2> QED
    BY <1>6, <2>1, <2>2, <2>3, <2>4 DEF Work
<1>7. ASSUME NEW p \in PC, Fault(p) PROVE Serves /\ LeasesOK'
  <2>1. ASSUME Unanswered(p) \/ Crash(p) PROVE Serves /\ LeasesOK'
    BY <2>1, <1>3, QuietKeeps
  <2>2. ASSUME \/ \E c \in Checkpoint, n \in 1..3 : Capture(p, c, n)
               \/ FindCommitted(p, 1) \/ RestoreBind(p, 1, FALSE)
        PROVE  Serves /\ LeasesOK'
    <3>1. 1..3 \subseteq 1..4 /\ 1 \in 1..2 /\ FALSE \in BOOLEAN
      OBVIOUS
    <3>2. UNCHANGED storeVars /\ KeptBy(p)
      BY <2>2, <3>1, WriteKeeps, Zenon
    <3> QED
      BY <3>2, <1>3
  <2>3. ASSUME NEW left \in ClearOrders(Receipts(p)), KeepReceipts(p, left)
        PROVE  Serves /\ LeasesOK'
    BY <2>3, <1>3, WriteKeeps
  <2>4. ASSUME Publish(p, 1) PROVE Serves /\ LeasesOK'
    BY <2>4, <1>4, AskKeeps
  <2> QED
    BY <1>7, <2>1, <2>2, <2>3, <2>4 DEF Fault
<1>8. CASE UNCHANGED vars
  <2>1. Serves
    BY <1>8 DEF vars, Serves
  <2>2. /\ \A p \in PC : HoldsLease(p)'
        /\ DOMAIN lease' = PC
        /\ \A r \in late' : r \in late \/ AskedLease(r)
    BY <1>8, <2>1, LeasesStay DEF vars, LeasesOK, HoldsLease
  <2> QED
    BY <2>1, <2>2, LeasesAfter
<1> QED
  BY <1>1, <1>2, <1>5, <1>6, <1>7, <1>8 DEF Next, Unattended

\* What a restore is about to bind is no older than what the PC is bound to.
RestoresForward(p) ==
  at[p] = "restore" /\ binding[p] # None => binding[p].revision <= Revision(cur[p])

Forward(p) ==
  binding[p] # None => binding'[p] # None /\ binding'[p].revision >= binding[p].revision

LEMMA CommittedStays ==
  ASSUME Service!StoreInv, Serves, NEW c \in Checkpoint, Committed(c)
  PROVE  checkpoints'[c] = checkpoints[c]
<1>1. checkpoints \in [Checkpoint -> Service!CheckpointRow \cup {None}]
  BY DEF Service!StoreInv, Service!TypeOK
<1>2. ASSUME NEW base \in Nat, NEW identity \in Leases, NEW d \in Checkpoint,
             Service!Publish(Account, Conversation, Service!Input(Conversation, base, identity, d, {}))
      PROVE  checkpoints'[c] = checkpoints[c]
  BY <1>1, <1>2 DEF Service!Publish, Service!CanPublish, Service!Input, Committed
<1> QED
  BY <1>2 DEF Serves, Service!Tick, Service!Create, Service!Acquire, Service!Renew, Service!Release

\* The PC that moves keeps the two; the others do not notice.
LEMMA OthersForward ==
  ASSUME SyncInv, Service!StoreInv, Serves, NEW p \in PC, \A q \in PC : RestoresForward(q),
         \A q \in PC \ {p} : binding'[q] = binding[q] /\ at'[q] = at[q] /\ cur'[q] = cur[q],
         Forward(p), RestoresForward(p)'
  PROVE  \A q \in PC : Forward(q) /\ RestoresForward(q)'
<1>1. ASSUME NEW q \in PC \ {p} PROVE Forward(q) /\ RestoresForward(q)'
  <2>1. binding[q] # None => binding[q].revision \in Nat
    BY DEF SyncInv, TypeOK, Binding
  <2>2. at[q] = "restore" => cur[q] \in Checkpoint /\ Committed(cur[q])
    BY DEF SyncInv, PcOK, RunOK
  <2>3. at[q] = "restore" => checkpoints'[cur[q]] = checkpoints[cur[q]]
    BY <2>2, CommittedStays
  <2> QED
    BY <1>1, <2>1, <2>3 DEF Forward, RestoresForward, Revision
<1> QED
  BY <1>1

\* The steps that bind nothing, and do not begin a restore.
LEMMA UnboundForward ==
  ASSUME SyncInv, Service!StoreInv, Serves, NEW p \in PC, \A q \in PC : RestoresForward(q),
         binding' = binding,
         \A q \in PC \ {p} : at'[q] = at[q] /\ cur'[q] = cur[q],
         at'[p] # "restore" \/ (at'[p] = at[p] /\ cur'[p] = cur[p])
  PROVE  \A q \in PC : Forward(q) /\ RestoresForward(q)'
<1>1. binding[p] # None => binding[p].revision \in Nat
  BY DEF SyncInv, TypeOK, Binding
<1>2. at[p] = "restore" => cur[p] \in Checkpoint /\ Committed(cur[p])
  BY DEF SyncInv, PcOK, RunOK
<1>3. at[p] = "restore" => checkpoints'[cur[p]] = checkpoints[cur[p]]
  BY <1>2, CommittedStays
<1>4. Forward(p) /\ RestoresForward(p)'
  BY <1>1, <1>3 DEF Forward, RestoresForward, Revision
<1> QED
  BY <1>4, OthersForward

LEMMA StopRuns ==
  ASSUME SyncInv, NEW p \in PC, Stop(p)
  PROVE  at'[p] = "idle" /\ \A q \in PC \ {p} : at'[q] = at[q] /\ cur'[q] = cur[q]
BY DEF Stop, SyncInv, TypeOK

\* p binds nothing in any of these.
Unbinding(p) ==
  \/ \E kind \in {"send", "syncNow", "tick", "retry"} : Start(p, kind)
  \/ CaptureNothing(p) \/ FindConflict(p) \/ FindCurrent(p) \/ Acquire(p) \/ AcquireRefused(p)
  \/ Renew(p) \/ UploadChunks(p) \/ LeaseLost(p) \/ Release(p) \/ Unanswered(p) \/ Crash(p)
  \/ \E n \in 1..2 : FindCommitted(p, n) \/ Publish(p, n)

LEMMA UnbindingRuns ==
  ASSUME SyncInv, NEW p \in PC, Unbinding(p)
  PROVE  /\ binding' = binding
         /\ \A q \in PC \ {p} : at'[q] = at[q] /\ cur'[q] = cur[q]
         /\ at'[p] # "restore" \/ (at'[p] = at[p] /\ cur'[p] = cur[p])
<1> DEFINE Goal == /\ binding' = binding
                   /\ \A q \in PC \ {p} : at'[q] = at[q] /\ cur'[q] = cur[q]
                   /\ at'[p] # "restore" \/ (at'[p] = at[p] /\ cur'[p] = cur[p])
<1>1. /\ at \in [PC -> Awaits \cup {"idle", "capture", "receipts", "restore"}]
      /\ cur \in [PC -> Checkpoint \cup {None}]
  BY DEF SyncInv, TypeOK
<1>2. ASSUME NEW kind \in {"send", "syncNow", "tick", "retry"}, Start(p, kind) PROVE Goal
  BY <1>1, <1>2 DEF Start, Flush, Goto
<1>3. ASSUME CaptureNothing(p) PROVE Goal
  BY <1>1, <1>3 DEF CaptureNothing, Flush, Goto
<1>4. ASSUME FindConflict(p) \/ FindCurrent(p) \/ Acquire(p) \/ AcquireRefused(p) PROVE Goal
  BY <1>1, <1>4 DEF FindConflict, FindCurrent, Acquire, AcquireRefused, Quiet, Goto
<1>5. ASSUME Renew(p) \/ UploadChunks(p) \/ LeaseLost(p) \/ Release(p) PROVE Goal
  BY <1>1, <1>5 DEF Renew, UploadChunks, LeaseLost, Release, Quiet, Goto
<1>6. ASSUME Unanswered(p) PROVE Goal
  BY <1>1, <1>6 DEF Unanswered, Goto
<1>7. ASSUME Crash(p) PROVE Goal
  BY <1>7, StopRuns DEF Crash
<1>8. ASSUME NEW n \in 1..2, FindCommitted(p, n) PROVE Goal
  <2>1. binding' = binding
    BY <1>8 DEF FindCommitted, Acknowledge
  <2>2. CASE n = 2
    BY <1>1, <1>8, <2>1, <2>2 DEF FindCommitted, Goto
  <2>3. CASE n # 2
    BY <1>8, <2>1, <2>3, StopRuns DEF FindCommitted
  <2> QED
    BY <2>2, <2>3
<1>9. ASSUME NEW n \in 1..2, Publish(p, n) PROVE Goal
  <2>1. binding' = binding
    BY <1>9 DEF Publish, Acknowledge
  <2>2. CASE n = 2
    BY <1>1, <1>9, <2>1, <2>2 DEF Publish, Goto
  <2>3. CASE n # 2
    BY <1>9, <2>1, <2>3, StopRuns DEF Publish
  <2> QED
    BY <2>2, <2>3
<1> QED
  BY <1>2, <1>3, <1>4, <1>5, <1>6, <1>7, <1>8, <1>9, Zenon DEF Unbinding

\* p binds a revision in these, or is about to.
LEMMA EditForward ==
  ASSUME SyncInv, NEW p \in PC, RestoresForward(p), Edit(p)
  PROVE  /\ Forward(p) /\ RestoresForward(p)'
         /\ \A q \in PC \ {p} : binding'[q] = binding[q] /\ at'[q] = at[q] /\ cur'[q] = cur[q]
<1>1. binding \in [PC -> Binding \cup {None}] /\ binding[p] \in Binding
  BY DEF SyncInv, TypeOK, Edit
<1>2. binding'[p] \in Binding /\ binding'[p].revision = binding[p].revision
  BY <1>1 DEF Edit, Binding
<1>3. binding'[p] # None /\ binding[p].revision \in Nat
  BY <1>1, <1>2, SyncNone DEF Binding
<1>4. UNCHANGED <<at, cur, checkpoints>>
  BY DEF Edit
<1> QED
  BY <1>1, <1>2, <1>3, <1>4 DEF Edit, Forward, RestoresForward, Revision

LEMMA CaptureForward ==
  ASSUME SyncInv, NEW p \in PC, NEW c \in Checkpoint, NEW n \in 1..4, Capture(p, c, n)
  PROVE  /\ Forward(p) /\ RestoresForward(p)'
         /\ \A q \in PC \ {p} : binding'[q] = binding[q] /\ at'[q] = at[q] /\ cur'[q] = cur[q]
<1>1. /\ binding \in [PC -> Binding \cup {None}]
      /\ at \in [PC -> Awaits \cup {"idle", "capture", "receipts", "restore"}]
      /\ cur \in [PC -> Checkpoint \cup {None}]
  BY DEF SyncInv, TypeOK
<1>2. /\ binding'[p] = [revision |-> IF binding[p] = None THEN 0 ELSE binding[p].revision,
                        stamped |-> n = 4]
      /\ \A q \in PC \ {p} : binding'[q] = binding[q]
  BY <1>1 DEF Capture
<1>3. binding'[p] \in Binding
  <2>1. (IF binding[p] = None THEN 0 ELSE binding[p].revision) \in Nat
    BY <1>1 DEF Binding
  <2> QED
    BY <1>2, <2>1 DEF Binding
<1>4. Forward(p)
  <2>1. binding[p] # None => binding[p].revision \in Nat
    BY <1>1 DEF Binding
  <2> QED
    BY <1>2, <1>3, <2>1, SyncNone DEF Forward
<1>5. at'[p] # "restore" /\ \A q \in PC \ {p} : at'[q] = at[q] /\ cur'[q] = cur[q]
  <2>1. CASE n = 4
    BY <1>1, <2>1 DEF Capture, Flush
  <2>2. CASE n # 4
    BY <2>2, StopRuns DEF Capture
  <2> QED
    BY <2>1, <2>2
<1> QED
  BY <1>2, <1>4, <1>5 DEF RestoresForward

LEMMA KeepForward ==
  ASSUME SyncInv, NEW p \in PC, NEW left, KeepReceipts(p, left)
  PROVE  /\ Forward(p) /\ RestoresForward(p)'
         /\ \A q \in PC \ {p} : binding'[q] = binding[q] /\ at'[q] = at[q] /\ cur'[q] = cur[q]
<1>1. /\ binding \in [PC -> Binding \cup {None}] /\ DiskTypes /\ TypeOK /\ StoreOK /\ PcOK(p)
      /\ at \in [PC -> Awaits \cup {"idle", "capture", "receipts", "restore"}]
      /\ cur \in [PC -> Checkpoint \cup {None}]
  BY DiskSplit DEF SyncInv, TypeOK
<1>2. /\ Forward(p) /\ \A q \in PC \ {p} : binding'[q] = binding[q]
  <2>1. CASE Receipts(p) = {} \/ binding[p] = None
    <3>1. binding[p] # None => binding[p].revision \in Nat
      BY <1>1 DEF Binding
    <3> QED
      BY <2>1, <3>1 DEF KeepReceipts, Forward
  <2>2. CASE Receipts(p) # {} /\ binding[p] # None
    <3> DEFINE new == [binding[p] EXCEPT !.revision = BoundRevision(p)]
    <3>1. /\ binding[p] \in Binding /\ BoundRevision(p) \in Nat
          /\ BoundRevision(p) >= binding[p].revision
      BY <1>1, <2>2, Bound DEF DiskTypes
    <3>2. new \in Binding /\ new.revision = BoundRevision(p)
      BY <3>1 DEF Binding
    <3>3. binding' = [binding EXCEPT ![p] = new]
      BY <2>2 DEF KeepReceipts
    <3> HIDE DEF new
    <3> QED
      BY <1>1, <2>2, <3>1, <3>2, <3>3, SyncNone DEF Forward
  <2> QED
    BY <2>1, <2>2
<1>3. at'[p] # "restore" /\ \A q \in PC \ {p} : at'[q] = at[q] /\ cur'[q] = cur[q]
  <2>1. CASE \A c \in Receipts(p) : left[c] = 3
    BY <1>1, <2>1 DEF KeepReceipts, Goto
  <2>2. CASE ~ \A c \in Receipts(p) : left[c] = 3
    <3>1. Stop(p)
      BY <2>2 DEF KeepReceipts
    <3> QED
      BY <3>1, StopRuns
  <2> QED
    BY <2>1, <2>2
<1> QED
  BY <1>2, <1>3 DEF RestoresForward

LEMMA DownloadForward ==
  ASSUME SyncInv, NEW p \in PC, RestoreDownload(p)
  PROVE  /\ Forward(p) /\ RestoresForward(p)'
         /\ \A q \in PC \ {p} : binding'[q] = binding[q] /\ at'[q] = at[q] /\ cur'[q] = cur[q]
<1>1. /\ binding \in [PC -> Binding \cup {None}]
      /\ at \in [PC -> Awaits \cup {"idle", "capture", "receipts", "restore"}]
      /\ cur \in [PC -> Checkpoint \cup {None}]
      /\ binding' = binding /\ checkpoints' = checkpoints
  BY DEF SyncInv, TypeOK, RestoreDownload
<1>2. binding[p] # None => binding[p].revision <= Revision(cur'[p])
  <2>1. /\ Row # None /\ Row.checkpointId # None
        /\ cur'[p] = Row.checkpointId
    BY <1>1 DEF RestoreDownload
  <2>2. Revision(Row.checkpointId) = Row.revision /\ HeadRevision = Row.revision
    BY <2>1 DEF SyncInv, Numbered, HeadRevision
  <2> QED
    BY <2>1, <2>2 DEF SyncInv, PcOK, BindingOK
<1>3. \A q \in PC \ {p} : binding'[q] = binding[q] /\ at'[q] = at[q] /\ cur'[q] = cur[q]
  BY <1>1 DEF RestoreDownload, Goto
<1>4. Forward(p)
  <2>1. binding[p] # None => binding[p].revision \in Nat
    BY <1>1 DEF Binding
  <2> QED
    BY <1>1, <2>1 DEF Forward
<1> QED
  BY <1>1, <1>2, <1>3, <1>4 DEF RestoresForward, Revision

LEMMA BindForward ==
  ASSUME SyncInv, NEW p \in PC, RestoresForward(p), NEW n \in 1..2, NEW found \in BOOLEAN,
         RestoreBind(p, n, found)
  PROVE  /\ Forward(p) /\ RestoresForward(p)'
         /\ \A q \in PC \ {p} : binding'[q] = binding[q] /\ at'[q] = at[q] /\ cur'[q] = cur[q]
<1>1. /\ binding \in [PC -> Binding \cup {None}]
      /\ at \in [PC -> Awaits \cup {"idle", "capture", "receipts", "restore"}]
      /\ cur \in [PC -> Checkpoint \cup {None}]
      /\ binding[p] # None => binding[p].revision \in Nat
  BY DEF SyncInv, TypeOK, Binding
<1>2. CASE n = 2
  <2>1. at[p] = "restore" /\ cur[p] \in Checkpoint /\ Committed(cur[p])
    BY DEF RestoreBind, SyncInv, PcOK, RunOK
  <2>2. Revision(cur[p]) \in Nat
    BY <2>1, RevisionType DEF SyncInv
  <2>3. /\ binding'[p] = [revision |-> Revision(cur[p]), stamped |-> found]
        /\ \A q \in PC \ {p} : binding'[q] = binding[q] /\ at'[q] = at[q] /\ cur'[q] = cur[q]
        /\ at'[p] = "idle"
    BY <1>1, <1>2 DEF RestoreBind, Goto, Revision
  <2>4. binding'[p] \in Binding
    BY <2>2, <2>3 DEF Binding
  <2>5. Forward(p)
    BY <1>1, <2>1, <2>2, <2>3, <2>4, SyncNone DEF Forward, RestoresForward
  <2> QED
    BY <2>3, <2>5 DEF RestoresForward
<1>3. CASE n # 2
  <2>1. binding' = binding /\ Stop(p)
    BY <1>3 DEF RestoreBind
  <2>2. at'[p] = "idle" /\ \A q \in PC \ {p} : at'[q] = at[q] /\ cur'[q] = cur[q]
    BY <2>1, StopRuns
  <2>3. Forward(p)
    BY <1>1, <2>1 DEF Forward
  <2> QED
    BY <2>1, <2>2, <2>3 DEF RestoresForward
<1> QED
  BY <1>2, <1>3

AllForward == \A p \in PC : RestoresForward(p)

LEMMA ForwardStep ==
  ASSUME SyncInv, Service!StoreInv, LeasesOK, AllForward, [Next]_vars
  PROVE  (\A p \in PC : Forward(p)) /\ AllForward'
<1> DEFINE Goal == (\A q \in PC : Forward(q)) /\ AllForward'
<1>1. Serves
  BY SyncServes
<1>2. ASSUME NEW p \in PC, Forward(p), RestoresForward(p)',
             \A q \in PC \ {p} : binding'[q] = binding[q] /\ at'[q] = at[q] /\ cur'[q] = cur[q]
      PROVE  Goal
  BY <1>1, <1>2, OthersForward DEF AllForward
<1>3. ASSUME NEW p \in PC, binding' = binding,
             \A q \in PC \ {p} : at'[q] = at[q] /\ cur'[q] = cur[q],
             at'[p] # "restore" \/ (at'[p] = at[p] /\ cur'[p] = cur[p])
      PROVE  Goal
  BY <1>1, <1>3, UnboundForward DEF AllForward
<1>4. ASSUME NEW p \in PC, Unbinding(p) PROVE Goal
  BY <1>3, <1>4, UnbindingRuns
<1>5. ASSUME NEW p \in PC, Edit(p) PROVE Goal
  BY <1>2, <1>5, EditForward DEF AllForward
<1>6. ASSUME NEW p \in PC, NEW c \in Checkpoint, NEW n \in 1..4, Capture(p, c, n) PROVE Goal
  BY <1>2, <1>6, CaptureForward
<1>7. ASSUME NEW p \in PC, NEW left, KeepReceipts(p, left) PROVE Goal
  BY <1>2, <1>7, KeepForward
<1>8. ASSUME NEW p \in PC, RestoreDownload(p) PROVE Goal
  BY <1>2, <1>8, DownloadForward
<1>9. ASSUME NEW p \in PC, NEW n \in 1..2, NEW found \in BOOLEAN, RestoreBind(p, n, found)
      PROVE  Goal
  BY <1>2, <1>9, BindForward DEF AllForward
<1>10. ASSUME UNCHANGED <<binding, at, cur>> PROVE Goal
  <2>1. ASSUME NEW p \in PC PROVE Forward(p) /\ RestoresForward(p)'
    <3>1. Goal
      BY <1>3, <1>10
    <3> QED
      BY <3>1 DEF AllForward
  <2> QED
    BY <2>1 DEF AllForward
<1>11. 1..3 \subseteq 1..4 /\ 4 \in 1..4 /\ 1 \in 1..2 /\ 2 \in 1..2 /\ FALSE \in BOOLEAN
  OBVIOUS
<1> HIDE DEF Goal
<1>12. ASSUME NEW p \in PC, Work(p) PROVE Goal
  BY <1>4, <1>6, <1>7, <1>9, <1>11, <1>12, Zenon DEF Work, Unbinding
<1>13. ASSUME NEW p \in PC, Fault(p) PROVE Goal
  <2>1. ASSUME NEW left \in ClearOrders(Receipts(p)), KeepReceipts(p, left) PROVE Goal
    BY <1>7, <2>1
  <2>2. ASSUME NEW c \in Checkpoint, NEW n \in 1..3, Capture(p, c, n) PROVE Goal
    BY <1>6, <1>11, <2>2
  <2> QED
    BY <1>4, <1>9, <1>11, <1>13, <2>1, <2>2, Zenon DEF Fault, Unbinding
<1>14. ASSUME NEW p \in PC, Edit(p) \/ Start(p, "tick") \/ Renew(p) \/ Use(p) PROVE Goal
  BY <1>4, <1>5, <1>8, <1>14 DEF Use, Unbinding
<1>15. ASSUME Tick \/ (\E r \in late : Arrive(r)) \/ UNCHANGED vars PROVE Goal
  BY <1>10, <1>15 DEF Tick, Arrive, vars
<1>16. Goal
  BY <1>12, <1>13, <1>14, <1>15 DEF Next, Unattended
<1> QED
  BY <1>16 DEF Goal

--------------------------------------------------------------------------------
(* End to end *)

EndInv == SyncInv /\ Service!StoreInv /\ LeasesOK /\ AllForward

LEMMA EndInit == Init => EndInv
<1>1. Init => AllForward
  BY DEF Init, AllForward, RestoresForward
<1> QED
  BY <1>1, SyncInit, ServiceInit DEF EndInv

LEMMA EndStep ==
  ASSUME EndInv, [Next]_vars
  PROVE  EndInv' /\ [Service!Next]_(Service!vars) /\ \A p \in PC : Forward(p)
<1>1. Serves /\ LeasesOK' /\ SyncInv'
  BY SyncServes, SyncStep DEF EndInv
<1>2. Service!StoreInv' /\ [Service!Next]_(Service!vars)
  BY <1>1, ServesKeepsInv, ServesIsNext DEF EndInv
<1>3. AllForward' /\ \A p \in PC : Forward(p)
  BY ForwardStep DEF EndInv
<1> QED
  BY <1>1, <1>2, <1>3 DEF EndInv

LEMMA EndInvHolds == Spec => []EndInv
<1>1. EndInv /\ [Next]_vars => EndInv'
  BY EndStep
<1> QED
  BY <1>1, EndInit, PTL DEF Spec

\* SyncOutbox, SyncTransfers: whatever crashes, whatever arrives late, the PCs ask the
\* service for nothing but what CheckpointStore expects of its clients, so all that is
\* proved of the service holds of the whole.
THEOREM SyncServesStore == Spec => [][Store!Next]_(Store!vars)
<1>1. EndInv /\ [Next]_vars => [Store!Next]_(Store!vars)
  BY EndStep, SameNext
<1> QED
  BY <1>1, EndInvHolds, PTL DEF Spec

\* acquire, publish, behind the PCs that really call them: the checkpoints of the
\* conversation are numbered without gap, and none of an older lease lands after a
\* newer one was granted.
THEOREM SyncFencing == Spec => [](Store!LinearHistory /\ Store!NoLateWriter)
<1>1. EndInv => Store!StoreInv
  BY SameInv DEF EndInv
<1>2. EndInv => Store!LinearHistory /\ Store!NoLateWriter
  BY <1>1 DEF Store!StoreInv
<1> QED
  BY <1>2, EndInvHolds, PTL

\* The PCs and the service together implement the append-only history.
THEOREM SyncImplementsHistory == Spec => Store!AppendOnly
<1>1. Init => Service!History!Init
  BY DEF Init, Service!History!Init, Service!HistoryOf
<1>2. EndInv /\ EndInv' /\ [Next]_vars =>
        [Service!History!Next]_([s \in {Conversation} |-> Service!HistoryOf(s)])
  BY EndStep, ServiceAssumed, Service!StepAppends DEF EndInv, ServiceAssumptions
<1>3. Spec => Service!AppendOnly
  BY <1>1, <1>2, EndInvHolds, PTL DEF Spec, Service!AppendOnly, Service!History!Spec
<1>4. Service!AppendOnly <=> Store!AppendOnly
  BY DEF Store!AppendOnly, Store!History!Spec, Store!History!Init, Store!History!Next,
         Store!History!Append1, Store!History!Used, Store!HistoryOf, Store!Numbered, Store!In, Store!Rev,
         Service!AppendOnly, Service!History!Spec, Service!History!Init, Service!History!Next,
         Service!History!Append1, Service!History!Used, Service!HistoryOf, Service!Numbered,
         Service!In, Service!Rev
<1> QED
  BY <1>3, <1>4

\* flush, restore, capture: the revision a PC is bound to never goes back.
THEOREM BindingForwardAlways == Spec => BindingForward
<1>1. EndInv /\ [Next]_vars =>
        [\A p \in PC : binding[p] # None =>
           binding'[p] # None /\ binding'[p].revision >= binding[p].revision]_vars
  BY EndStep DEF Forward
<1> QED
  BY <1>1, EndInvHolds, PTL DEF Spec, BindingForward
================================================================================
