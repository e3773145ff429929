--------------------------- MODULE MCContinuitySync ---------------------------
(* Two PCs, one conversation. *)
EXTENDS ContinuitySync, TLC

CONSTANTS laptop, omen, c1, c2, c3
VARIABLE pool   \* the checkpoints this instance may use

\* What a run tells apart.  Left out is what no step reads any more: granted, under
\* and conflicts, the receipt of a checkpoint with no sent.json, whose lease it was
\* once it has ended, and a request that can change nothing: a lease that is lost
\* stays lost, with all that is asked under it, and a stream never goes back to a base.
Live(identity) == Row # None /\ Store!AssertLease(Row, identity)
Stream ==
  IF Row = None THEN None
  ELSE <<Row.revision, Row.fence, Row.ttl, IF Row.ttl = 0 THEN None ELSE Row.deviceId>>
Answerable ==
  {r \in late : CASE r.kind = "create" -> Row = None
                  [] r.kind = "acquire" -> Row.revision = r.base
                  [] r.kind = "publish" -> Live(r.input.lease)
                  [] OTHER -> Live(r.lease)}
Known == [c \in Checkpoint |-> {receipt[d] : d \in {c} \cap UNION {Receipts(p) : p \in PC}}]
Holds == [p \in PC |-> lease[p] # None /\ Live(lease[p])]
WithoutHistory ==
  <<Stream, checkpoints, pool, Answerable, files, job, Known, binding, local, at, after, cur,
    Holds, failed, faults>>

\* The state Init reaches when one PC has sent c1 and the others restored it: from
\* here each of the PCs can have newer work of its own.
Shared(first) ==
  /\ streams = [s \in {Conversation} |->
       [ownerId |-> Account, revision |-> 1, checkpointId |-> c1, deviceId |-> first,
        leaseHash |-> 0, ttl |-> 0, fence |-> 1]]
  /\ checkpoints = [c \in Checkpoint |-> IF c # c1 THEN None ELSE
       [ownerId |-> Account, revision |-> 1,
        fingerprint |-> [streamId |-> Conversation, deviceId |-> first,
                         baseRevision |-> 0, manifest |-> {}]]]
  /\ granted = [s \in {Conversation} |-> <<[device |-> first, base |-> 0]>>]
  /\ under = [c \in Checkpoint |-> IF c = c1 THEN 1 ELSE 0]
  /\ late = {}
  /\ files = [p \in PC |-> [c \in Checkpoint |-> {}]]
  /\ job = [c \in Checkpoint |->
       IF c # c1 THEN None ELSE [base |-> 0, content |-> {}, by |-> first]]
  /\ receipt = [c \in Checkpoint |-> IF c = c1 THEN 1 ELSE 0]
  /\ binding = [p \in PC |-> [revision |-> 1, stamped |-> TRUE]]
  /\ local = [p \in PC |-> {c1}]
  /\ at = [p \in PC |-> "idle"]
  /\ after = [p \in PC |-> "done"]
  /\ cur = [p \in PC |-> None]
  /\ lease = [p \in PC |-> None]
  /\ failed = [p \in PC |-> FALSE]
  /\ conflicts = [p \in PC |-> FALSE]
  /\ faults = 0

\* Two checkpoints from the start, or three from the shared one on.
BothInit ==
  \/ Init /\ pool = Checkpoint \ {c1}
  \/ (\E first \in PC : Shared(first)) /\ pool = Checkpoint
InPool ==
  /\ UNCHANGED pool
  /\ \A c \in Checkpoint \ pool : job'[c] = None /\ \A p \in PC : files'[p][c] = {}

BothSpec == BothInit /\ [][Next /\ InPool]_<<vars, pool>>
FirstSpec == Init /\ pool = Checkpoint /\ [][Next /\ InPool]_<<vars, pool>>
UnattendedSpec ==
  /\ Shared(laptop) /\ pool = Checkpoint
  /\ [][Unattended /\ (Tick => InTime) /\ InPool]_<<vars, pool>>
  /\ Fairness

Interchangeable == Permutations(PC) \cup Permutations(Checkpoint \ {c1})
================================================================================
