----------------------------- MODULE ContinuitySync -----------------------------
(***************************************************************************)
(* Several PCs that carry one conversation between them through the sync   *)
(* service: SyncTransfers and SyncOutbox on each PC, CheckpointStore behind *)
(* HTTP.                                                                   *)
(*                                                                         *)
(* A PC runs one transfer at a time (SyncTransfers.run); at[p] is the      *)
(* request it awaits or the block of code it is about to run.  A request   *)
(* and its answer are one step, unless the PC gives up on it (30 s timeout, *)
(* lost connection, crash): then it never arrives or arrives late.  Between *)
(* two awaits a PC writes its files in a fixed order; an action that writes *)
(* n of them with n short of all is a crash (or a failed write) there.     *)
(* Chunks are uploaded before publish is asked, so the store's manifests   *)
(* are empty here: CheckpointStore models the uploads.  As there, a        *)
(* definition called ...Mutant is a wrong version of the one after it.     *)
(***************************************************************************)
EXTENDS Integers, FiniteSets, FiniteSetsExt

CONSTANTS
  PC,              \* the computers
  Checkpoint,      \* checkpoint ids (randomUUID)
  Account, Conversation,
  LEASE_SECONDS,
  MaxFence,        \* bound: leases granted
  MaxFaults,       \* bound: crashes, failed writes and unanswered requests
  None

ASSUME SyncBounds == LEASE_SECONDS \in Nat \ {0} /\ {MaxFence, MaxFaults} \subseteq Nat

VARIABLES
  streams, checkpoints, granted, under,   \* CheckpointStore
  late,        \* requests nobody waits for any more
  files,       \* PC |-> checkpoint |-> files in its outbox directory
  job,         \* checkpoint |-> what its pending.json was written with, or None
  receipt,     \* checkpoint |-> revision in sent.json
  binding,     \* PC |-> [revision, stamped] of the conversation, or None; stamped
               \*       says that sourceStamp is the session file's stamp now
  local,       \* PC |-> checkpoints whose work the native session contains, or
               \*       None: the PC has no session of the conversation
  at, after,   \* PC |-> where its transfer is, and what follows the next flush
  cur, lease,  \* PC |-> the row it uploads or restores, the lease it holds
  failed,      \* PC |-> drain threw something other than a conflict
  conflicts,   \* PC |-> lastResult.conflicts names the conversation
  faults       \* crashes, failed writes and unanswered requests so far

storeVars == <<streams, checkpoints, granted, under>>
diskVars == <<files, job, receipt, binding>>
runVars == <<at, after, cur, lease, failed, conflicts>>
vars == <<storeVars, late, diskVars, local, runVars, faults>>

Store == INSTANCE CheckpointStore WITH
  Owner <- {Account}, Device <- PC, Stream <- {Conversation}, Digest <- {},
  Bytes <- << >>, Manifest <- {{}}, Upload <- {}, MAX_ACCOUNT_BYTES <- 0,
  devices <- [p \in PC |-> Account], objects <- [o \in {Account} |-> << >>],
  quotas <- [o \in {Account} |-> 0], blobs <- {}, uploads <- << >>

\* What pending.json and the binding say, once written.
Job == [base : Nat, content : SUBSET Checkpoint, by : PC]
Binding == [revision : Nat, stamped : BOOLEAN]

ASSUME SyncNone ==
  None \notin {Account} \cup PC \cup Checkpoint \cup Job \cup Binding
              \cup Store!StreamRow \cup Store!CheckpointRow

Row == streams[Conversation]
Committed(c) == checkpoints[c] # None

Init ==
  /\ streams = [s \in {Conversation} |-> None]
  /\ checkpoints = [c \in Checkpoint |-> None]
  /\ granted = [s \in {Conversation} |-> << >>]
  /\ under = [c \in Checkpoint |-> 0]
  /\ late = {}
  /\ files = [p \in PC |-> [c \in Checkpoint |-> {}]]
  /\ job = [c \in Checkpoint |-> None]
  /\ receipt = [c \in Checkpoint |-> 0]
  /\ binding = [p \in PC |-> None]
  /\ \E first \in PC : local = [p \in PC |-> IF p = first THEN {} ELSE None]
  /\ at = [p \in PC |-> "idle"]
  /\ after = [p \in PC |-> "done"]
  /\ cur = [p \in PC |-> None]
  /\ lease = [p \in PC |-> None]
  /\ failed = [p \in PC |-> FALSE]
  /\ conflicts = [p \in PC |-> FALSE]
  /\ faults = 0

--------------------------------------------------------------------------------
(* The outbox directory *)

\* SyncOutbox.list and SyncOutbox.receipts.
Queued(f) == {c \in Checkpoint : "pending" \in f[c] /\ "sent" \notin f[c]}
Receipts(p) == {c \in Checkpoint : "sent" \in files[p][c]}

\* The process ends here: what it held in memory is gone.
Stop(p) ==
  /\ faults < MaxFaults
  /\ faults' = faults + 1
  /\ at' = [at EXCEPT ![p] = "idle"]
  /\ after' = [after EXCEPT ![p] = "done"]
  /\ cur' = [cur EXCEPT ![p] = None]
  /\ lease' = [lease EXCEPT ![p] = None]
  /\ failed' = [failed EXCEPT ![p] = FALSE]
  /\ conflicts' = [conflicts EXCEPT ![p] = FALSE]

\* SyncTransfers.flush begins: drain uploads the queued row, if there is one.
Flush(p, f) ==
  /\ at' = [at EXCEPT ![p] = IF Queued(f) = {} THEN "receipts" ELSE "head"]
  /\ cur' = [cur EXCEPT ![p] = IF Queued(f) = {} THEN None ELSE CHOOSE c \in Queued(f) : TRUE]

Goto(p, next) == at' = [at EXCEPT ![p] = next]

\* acknowledge writes sent.json, then removes pending.json.
Acknowledge(p, c, revision, n) ==
  /\ receipt' = [receipt EXCEPT ![c] = revision]
  /\ files' = [files EXCEPT ![p][c] = (@ \cup {"sent"}) \ (IF n = 2 THEN {"pending"} ELSE {})]
  /\ UNCHANGED <<job, binding, local>>

--------------------------------------------------------------------------------
(* The user, the agent and the clock *)

\* The agent works in the conversation this PC has.
Edit(p) ==
  /\ binding[p] # None /\ binding[p].stamped
  /\ binding' = [binding EXCEPT ![p].stamped = FALSE]
  /\ UNCHANGED <<storeVars, late, files, job, receipt, local, runVars, faults>>

\* "Sync now" and the scheduler's tick flush first; "send" captures first.
Start(p, kind) ==
  /\ at[p] = "idle"
  /\ kind = "send" => local[p] # None
  /\ kind = "syncNow" => binding[p] # None
  /\ kind = "tick" => binding[p] # None \/ Queued(files[p]) # {} \/ Receipts(p) # {}
  /\ after' = [after EXCEPT ![p] = IF kind = "retry" THEN "done" ELSE kind]
  /\ IF kind = "send" THEN Goto(p, "capture") /\ UNCHANGED cur ELSE Flush(p, files[p])
  /\ UNCHANGED <<storeVars, late, diskVars, local, lease, failed, conflicts, faults>>

Tick ==
  /\ Store!Tick
  /\ UNCHANGED <<late, diskVars, local, runVars, faults>>

--------------------------------------------------------------------------------
(* Capturing a checkpoint *)

\* Nothing is queued; the tick also wants another stamp than the one last taken.
MayCapture(p) ==
  /\ Queued(files[p]) = {}
  /\ after[p] = "tick" => binding[p] # None /\ ~binding[p].stamped

\* The revision this PC says its work is based on: the one last bound.
BaseFromHeadMutant(p) == IF Row = None THEN 0 ELSE Row.revision
Base(p) == IF binding[p] = None THEN 0 ELSE binding[p].revision

Unused(c) == job[c] = None /\ \A p \in PC : files[p][c] = {}

\* The capture throws or finds a row queued, or the tick passes the conversation
\* over: same stamp, row queued, agent busy, automatic sync off.
CaptureNothing(p) ==
  /\ at[p] = "capture"
  /\ \/ Goto(p, "idle") /\ UNCHANGED cur
     \/ after[p] = "tick" /\ Flush(p, files[p])
  /\ after' = [after EXCEPT ![p] = "done"]
  /\ UNCHANGED <<storeVars, late, diskVars, local, lease, failed, conflicts, faults>>

\* Four writes: the binding with no stamp, the chunks, pending.json (renamed into
\* place), the binding with its stamp.
Capture(p, c, n) ==
  /\ at[p] = "capture"
  /\ MayCapture(p) /\ Unused(c)
  /\ binding' = [binding EXCEPT ![p] =
       [revision |-> IF @ = None THEN 0 ELSE @.revision, stamped |-> n = 4]]
  /\ job' = IF n <= 2 THEN job
            ELSE [job EXCEPT ![c] = [base |-> Base(p), content |-> local[p], by |-> p]]
  /\ files' = [files EXCEPT ![p][c] =
       CASE n = 1 -> {} [] n = 2 -> {"chunks"} [] OTHER -> {"chunks", "pending"}]
  /\ local' = IF n > 2 THEN [local EXCEPT ![p] = @ \cup {c}] ELSE local
  /\ IF n = 4
       THEN /\ Flush(p, files'[p]) /\ after' = [after EXCEPT ![p] = "done"]
            /\ UNCHANGED <<lease, failed, conflicts, faults>>
       ELSE Stop(p)
  /\ UNCHANGED <<storeVars, late, receipt>>

--------------------------------------------------------------------------------
(* SyncOutbox.flush: one queued row *)

Input(p) == [id |-> cur[p], deviceId |-> p, baseRevision |-> job[cur[p]].base,
             manifest |-> {}, lease |-> lease[p]]

Quiet(p) == UNCHANGED <<late, diskVars, local, after, cur, failed, faults>>

\* The head is this very checkpoint: its answer was lost.
NextRevisionMutant(p) == Row.revision = job[cur[p]].base + 1
IsCommitted(p) == Row.checkpointId = cur[p]

FindCommitted(p, n) ==
  /\ at[p] = "head" /\ Row # None /\ IsCommitted(p)
  /\ Acknowledge(p, cur[p], Row.revision, n)
  /\ IF n = 2
       THEN /\ Goto(p, "receipts") /\ conflicts' = [conflicts EXCEPT ![p] = FALSE]
            /\ UNCHANGED <<after, cur, lease, failed, faults>>
       ELSE Stop(p)
  /\ UNCHANGED <<storeVars, late>>

FindConflict(p) ==
  /\ at[p] = "head" /\ Row # None
  /\ ~IsCommitted(p) /\ Row.revision # job[cur[p]].base
  /\ Goto(p, "receipts") /\ conflicts' = [conflicts EXCEPT ![p] = TRUE]
  /\ UNCHANGED <<storeVars, lease>> /\ Quiet(p)

\* The stream is created if need be, and is where this row was captured.
FindCurrent(p) ==
  /\ at[p] = "head"
  /\ \/ Store!Create(Account, Conversation)
     \/ /\ Row # None /\ ~IsCommitted(p) /\ Row.revision = job[cur[p]].base
        /\ UNCHANGED storeVars
  /\ Goto(p, "acquire")
  /\ UNCHANGED <<lease, conflicts>> /\ Quiet(p)

Acquire(p) ==
  /\ at[p] = "acquire"
  /\ Store!Acquire(Account, Conversation, p, job[cur[p]].base)
  /\ lease' = [lease EXCEPT ![p] = Store!LeaseIdentity(p, Row.fence + 1)]
  /\ Goto(p, "upload")
  /\ UNCHANGED conflicts /\ Quiet(p)

AcquireRefused(p) ==
  /\ at[p] = "acquire" /\ ~ Store!CanAcquire(Account, Conversation, p, job[cur[p]].base)
  /\ Goto(p, "receipts") /\ conflicts' = [conflicts EXCEPT ![p] = TRUE]
  /\ UNCHANGED <<storeVars, lease>> /\ Quiet(p)

\* beforeChunk renews a lease older than 40 s.
Renew(p) ==
  /\ at[p] = "upload"
  /\ Store!Renew(Account, Conversation, lease[p])
  /\ UNCHANGED <<at, lease, conflicts>> /\ Quiet(p)

UploadChunks(p) ==
  /\ at[p] = "upload" /\ Goto(p, "publish")
  /\ UNCHANGED <<storeVars, lease, conflicts>> /\ Quiet(p)

Publish(p, n) ==
  /\ at[p] = "publish"
  /\ Store!Publish(Account, Conversation, Input(p))
  /\ Acknowledge(p, cur[p], Row.revision + 1, n)
  /\ IF n = 2
       THEN /\ Goto(p, "release") /\ conflicts' = [conflicts EXCEPT ![p] = FALSE]
            /\ UNCHANGED <<after, cur, lease, failed, faults>>
       ELSE Stop(p)
  /\ UNCHANGED late

\* 409 lease_lost, from a renewal or from publish itself.
LeaseLost(p) ==
  /\ at[p] \in {"upload", "publish"} /\ ~ Store!AssertLease(Row, lease[p])
  /\ Goto(p, "release") /\ conflicts' = [conflicts EXCEPT ![p] = TRUE]
  /\ UNCHANGED <<storeVars, lease>> /\ Quiet(p)

\* Releasing is best effort: a refusal is swallowed.
Release(p) ==
  /\ at[p] = "release"
  /\ \/ Store!Release(Account, Conversation, lease[p])
     \/ ~ Store!AssertLease(Row, lease[p]) /\ UNCHANGED storeVars
  /\ Goto(p, "receipts") /\ lease' = [lease EXCEPT ![p] = None]
  /\ UNCHANGED conflicts /\ Quiet(p)

--------------------------------------------------------------------------------
(* The end of a flush: receipts move the binding forward, then are cleared *)

\* Per receipt: the chunks, a left-over pending.json, then sent.json; left[c] of
\* these three removals are done.  One receipt at a time.
Cleared(c, f, left) ==
  f \ (CASE left = 0 -> {} [] left = 1 -> {"chunks"}
         [] left = 2 -> {"chunks", "pending"} [] OTHER -> {"chunks", "pending", "sent"})

ClearOrders(R) == {left \in [R -> 0..3] : Cardinality({c \in R : left[c] \in 1..2}) <= 1}

AnyReceiptMutant(p) == CHOOSE r \in {receipt[c] : c \in Receipts(p)} : TRUE
BoundRevision(p) == Max({binding[p].revision} \cup {receipt[c] : c \in Receipts(p)})

KeepReceipts(p, left) ==
  /\ at[p] = "receipts"
  /\ binding' = IF Receipts(p) = {} \/ binding[p] = None THEN binding
                ELSE [binding EXCEPT ![p].revision = BoundRevision(p)]
  /\ files' = [files EXCEPT ![p] = [c \in Checkpoint |->
                 IF c \in Receipts(p) THEN Cleared(c, @[c], left[c]) ELSE @[c]]]
  /\ IF \A c \in Receipts(p) : left[c] = 3
       THEN /\ IF after[p] = "done" \/ failed[p]
                 THEN Goto(p, "idle") /\ after' = [after EXCEPT ![p] = "done"]
                 ELSE Goto(p, "capture") /\ UNCHANGED after
            /\ failed' = [failed EXCEPT ![p] = FALSE]
            /\ cur' = [cur EXCEPT ![p] = None]
            /\ UNCHANGED <<lease, conflicts, faults>>
       ELSE Stop(p)
  /\ UNCHANGED <<storeVars, late, job, receipt, local>>

--------------------------------------------------------------------------------
(* Restoring the conversation from the service *)

\* The head and its checkpoint are downloaded; the import runs beside it.
RestoreDownload(p) ==
  /\ at[p] = "idle" /\ Row # None /\ Row.checkpointId # None
  /\ cur' = [cur EXCEPT ![p] = Row.checkpointId]
  /\ Goto(p, "restore")
  /\ UNCHANGED <<storeVars, late, diskVars, local, after, lease, failed, conflicts, faults>>

\* SyncOutbox.hold keeps the ciphertext of queued work.
DiscardedMutant(f) == {}
Held(f) == (f \ {"pending"}) \cup {"held"}

\* Two writes: queued rows are held, then the binding names the imported copy,
\* with its stamp if the new session file was found.
RestoreBind(p, n, found) ==
  /\ at[p] = "restore"
  /\ files' = [files EXCEPT ![p] = [c \in Checkpoint |->
       IF c \in Queued(@) THEN Held(@[c]) ELSE @[c]]]
  /\ IF n = 2
       THEN /\ local' = [local EXCEPT ![p] = job[cur[p]].content \cup {cur[p]}]
            /\ binding' = [binding EXCEPT ![p] =
                 [revision |-> checkpoints[cur[p]].revision,
                  stamped |-> found]]
            /\ Goto(p, "idle") /\ cur' = [cur EXCEPT ![p] = None]
            /\ conflicts' = [conflicts EXCEPT ![p] = FALSE]
            /\ UNCHANGED <<after, lease, failed, faults>>
       ELSE UNCHANGED <<local, binding>> /\ Stop(p)
  /\ UNCHANGED <<storeVars, late, job, receipt>>

--------------------------------------------------------------------------------
(* Unanswered requests, crashes and late arrivals *)

Awaits == {"head", "acquire", "upload", "publish", "release"}

\* The request a PC awaits that would change the service if it arrived late, or
\* was handled while its answer got lost; it may as well never arrive.
Request(p) ==
  CASE at[p] = "head" -> IF Row = None THEN {[kind |-> "create"]} ELSE {}
    [] at[p] = "acquire" -> {[kind |-> "acquire", pc |-> p, base |-> job[cur[p]].base]}
    [] at[p] = "upload" -> {[kind |-> "renew", lease |-> lease[p]]}
    [] at[p] = "publish" -> {[kind |-> "publish", input |-> Input(p)]}
    [] at[p] = "release" -> {[kind |-> "release", lease |-> lease[p]]}
    [] OTHER -> {}

\* Timeout or connection error: not a 409, so drain throws once the lease, if
\* there is one, was given back.
Unanswered(p) ==
  /\ at[p] \in Awaits /\ faults < MaxFaults
  /\ faults' = faults + 1
  /\ late' = late \cup Request(p)
  /\ failed' = [failed EXCEPT ![p] = @ \/ at[p] # "release"]
  /\ Goto(p, IF at[p] \in {"upload", "publish"} THEN "release" ELSE "receipts")
  /\ lease' = IF at[p] = "release" THEN [lease EXCEPT ![p] = None] ELSE lease
  /\ UNCHANGED <<storeVars, diskVars, local, after, cur, conflicts>>

Crash(p) ==
  /\ at[p] # "idle" /\ Stop(p)
  /\ late' = late \cup Request(p)
  /\ UNCHANGED <<storeVars, diskVars, local>>

\* The service handles a request whose sender has given up: at most once.
Arrive(r) ==
  /\ late' = late \ {r}
  /\ \/ /\ r.kind = "create"
        /\ Store!Create(Account, Conversation) \/ (Row # None /\ UNCHANGED storeVars)
     \/ /\ r.kind = "acquire"
        /\ \/ Store!Acquire(Account, Conversation, r.pc, r.base)
           \/ ~ Store!CanAcquire(Account, Conversation, r.pc, r.base) /\ UNCHANGED storeVars
     \/ /\ r.kind = "renew"
        /\ \/ Store!Renew(Account, Conversation, r.lease)
           \/ ~ Store!AssertLease(Row, r.lease) /\ UNCHANGED storeVars
     \/ /\ r.kind = "publish"
        /\ \/ Store!Publish(Account, Conversation, r.input)
           \/ ~ Store!CanPublish(Account, Conversation, r.input) /\ UNCHANGED storeVars
     \/ /\ r.kind = "release"
        /\ \/ Store!Release(Account, Conversation, r.lease)
           \/ ~ Store!AssertLease(Row, r.lease) /\ UNCHANGED storeVars
  /\ UNCHANGED <<diskVars, local, runVars, faults>>

--------------------------------------------------------------------------------
(* The system *)

\* What a running transfer does by itself.
Work(p) ==
  \/ CaptureNothing(p)
  \/ \E c \in Checkpoint : Capture(p, c, 4)
  \/ FindCommitted(p, 2)
  \/ FindConflict(p)
  \/ FindCurrent(p)
  \/ Acquire(p)
  \/ AcquireRefused(p)
  \/ UploadChunks(p)
  \/ Publish(p, 2)
  \/ LeaseLost(p)
  \/ Release(p)
  \/ KeepReceipts(p, [c \in Checkpoint |-> 3])
  \/ \E found \in BOOLEAN : RestoreBind(p, 2, found)

\* What the user does.
Use(p) ==
  \/ \E kind \in {"send", "syncNow", "retry"} : Start(p, kind)
  \/ RestoreDownload(p)

\* What goes wrong.
Fault(p) ==
  \/ Unanswered(p)
  \/ Crash(p)
  \/ \E c \in Checkpoint, n \in 1..3 : Capture(p, c, n)
  \/ FindCommitted(p, 1)
  \/ Publish(p, 1)
  \/ \E left \in ClearOrders(Receipts(p)) :
       (\E c \in Receipts(p) : left[c] < 3) /\ KeepReceipts(p, left)
  \/ RestoreBind(p, 1, FALSE)

\* Nobody at the PCs: the agent works, the scheduler ticks, things go wrong.
Unattended ==
  \/ Tick
  \/ \E r \in late : Arrive(r)
  \/ \E p \in PC : Edit(p)
  \/ \E p \in PC : Start(p, "tick")
  \/ \E p \in PC : Renew(p)
  \/ \E p \in PC : Work(p)
  \/ \E p \in PC : Fault(p)

Next == Unattended \/ \E p \in PC : Use(p)

Spec == Init /\ [][Next]_vars

\* A PC that is up renews in time: a lease runs out only under a PC that has
\* stopped or given up.  The scheduler ticks for ever on every PC.
InTime == \A p \in PC : at[p] \in {"upload", "publish"} => Row.ttl > 1

Fairness ==
  /\ WF_vars(Tick /\ InTime)
  /\ \A p \in PC : WF_vars(Work(p)) /\ SF_vars(Start(p, "tick"))

--------------------------------------------------------------------------------
(* Properties *)

\* Files, jobs and program positions are what the code can write or reach, and a
\* PC never has two rows of the conversation queued.
TypeOK ==
  /\ files \in [PC -> [Checkpoint -> SUBSET {"chunks", "pending", "sent", "held"}]]
  /\ job \in [Checkpoint -> Job \cup {None}]
  /\ receipt \in [Checkpoint -> Nat]
  /\ binding \in [PC -> Binding \cup {None}]
  /\ local \in [PC -> (SUBSET Checkpoint) \cup {None}]
  /\ at \in [PC -> Awaits \cup {"idle", "capture", "receipts", "restore"}]
  /\ after \in [PC -> {"done", "send", "syncNow", "tick"}]
  /\ cur \in [PC -> Checkpoint \cup {None}]
  /\ failed \in [PC -> BOOLEAN] /\ conflicts \in [PC -> BOOLEAN]
  /\ \A p \in PC : \A c, d \in Queued(files[p]) : c = d

\* SETUP.md "stop an old writer from publishing over newer work": whatever the PC
\* that made a checkpoint, its content includes all the checkpoints before it, so no
\* published work is ever overwritten by a PC that had not seen it.
NoLostUpdate ==
  \A c, d \in Checkpoint :
    Committed(c) /\ Committed(d) /\ checkpoints[c].revision < checkpoints[d].revision
      => c \in job[d].content

\* capture, flush, restore: the revision a PC is bound to is one its session really
\* contains, so the base it sends is never a claim about work it has not seen.
BindingIsTrue ==
  \A p \in PC, c \in Checkpoint :
    binding[p] # None /\ Committed(c) /\ checkpoints[c].revision = binding[p].revision
      => c \in local[p]

\* flush, restore, capture: the revision a PC is bound to never goes back, whatever
\* receipts were left over and whenever the restored head was downloaded.
BindingForward ==
  [][\A p \in PC : binding[p] # None =>
       binding'[p] # None /\ binding'[p].revision >= binding[p].revision]_vars

\* acknowledge: a receipt is the service's own numbering of that checkpoint, even
\* when it was written from a later stream listing instead of publish's answer.
ReceiptIsTrue ==
  \A p \in PC : \A c \in Receipts(p) :
    Committed(c) /\ checkpoints[c].revision = receipt[c]

\* enqueue, hold, acknowledge, clearReceipts: from its pending.json on, captured
\* work is on the PC that made it, ciphertext and all, queued or held, until the
\* service has it; no crash between two writes and no lost answer loses it.
NothingLost ==
  \A c \in Checkpoint : job[c] # None =>
    \/ Committed(c)
    \/ "chunks" \in files[job[c].by][c] /\ files[job[c].by][c] \cap {"pending", "held"} # {}

\* tick, drain, acquire: with the PCs running, queued work is published or turns
\* into a conflict (another revision is the head) or is held by a restore; a PC
\* that died holding the lease does not block the others for ever.
QueueSettles ==
  \A p \in PC, c \in Checkpoint :
    c \in Queued(files[p]) ~>
      (c \notin Queued(files[p]) \/ (Row # None /\ Row.revision # job[c].base))

\* SETUP.md:102 "If both PCs changed the same checkpoint, uploads pause": a row
\* that can no longer be published is so because another PC published.
ConflictNeedsAnotherPC ==
  \A p \in PC : \A c \in Queued(files[p]) :
    conflicts[p] /\ Row.revision # job[c].base /\ ~Committed(c) =>
      \E d \in Checkpoint : /\ Committed(d) /\ job[d].by # p
                            /\ checkpoints[d].revision > job[c].base
================================================================================
