--------------------------- MODULE CheckpointHistory ---------------------------
(***************************************************************************)
(* What the sync service promises about one account's conversations: each  *)
(* stream is an append-only list of checkpoints, and a checkpoint id is    *)
(* used once, in one stream.  No lease, fence, quota or request is visible *)
(* here; CheckpointStore is the program that keeps this promise.           *)
(***************************************************************************)
EXTENDS Sequences, Naturals

CONSTANTS Stream,       \* conversations
          Checkpoint    \* checkpoint ids, chosen by the PCs

VARIABLE history        \* stream |-> the checkpoints published in it, oldest first

Used == UNION {{history[s][i] : i \in DOMAIN history[s]} : s \in Stream}

Init == history = [s \in Stream |-> << >>]

\* A new checkpoint becomes the head of exactly one stream.
Append1(s, c) ==
  /\ c \notin Used
  /\ history' = [history EXCEPT ![s] = Append(@, c)]

Next == \E s \in Stream, c \in Checkpoint : Append1(s, c)

Spec == Init /\ [][Next]_history
================================================================================
