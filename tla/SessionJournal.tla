----------------------------- MODULE SessionJournal -----------------------------
(***************************************************************************)
(* The ring buffer of session update envelopes (journal.ts).  `entries` has *)
(* one slot per unit of capacity; the logical head is startIndex and never  *)
(* moves until the ring is full.                                            *)
(***************************************************************************)
EXTENDS Integers, Sequences

CONSTANTS
  Capacity,    \* journalCapacity
  Frame, None,
  MaxSeq       \* bound: envelopes appended

ASSUME CapacityAssumption == Capacity \in Nat \ {0}
ASSUME FrameAssumption == None \notin [seq : Nat \ {0}, frame : Frame]

VARIABLES entries, startIndex, size, nextSeq
vars == <<entries, startIndex, size, nextSeq>>

Slot == 0 .. Capacity - 1
Envelope == [seq : Nat \ {0}, frame : Frame]

LatestSeq == nextSeq - 1
OldestSeq == IF size = 0 THEN 0 ELSE nextSeq - size
(* MUTANT: the reader forgets that the head moved. *)
EntryAtMutant(index) == entries[index]
EntryAt(index) == entries[(startIndex + index) % Capacity]

Init ==
  /\ entries = [i \in Slot |-> None]
  /\ startIndex = 0
  /\ size = 0
  /\ nextSeq = 1

HeadAfter == (startIndex + 1) % Capacity

AppendFrame(f) ==
  LET e == [seq |-> nextSeq, frame |-> f] IN
  /\ nextSeq <= MaxSeq
  /\ nextSeq' = nextSeq + 1
  /\ \/ /\ size < Capacity
        /\ entries' = [entries EXCEPT ![(startIndex + size) % Capacity] = e]
        /\ size' = size + 1
        /\ UNCHANGED startIndex
     \/ /\ size = Capacity
        /\ entries' = [entries EXCEPT ![startIndex] = e]
        /\ startIndex' = HeadAfter
        /\ UNCHANGED size

Next == \E f \in Frame : AppendFrame(f)

Spec == Init /\ [][Next]_vars

--------------------------------------------------------------------------------
(* Readers *)

(* MUTANT: one evicted envelope is not noticed. *)
AfterMutant(since) ==
  IF since = LatestSeq THEN << >>
  ELSE IF since > LatestSeq THEN None
  ELSE LET start == since + 1 - OldestSeq IN
       IF start < -1 THEN None
       ELSE [i \in 1 .. size - start |-> EntryAt(start + i - 1)]
After(since) ==
  IF since = LatestSeq THEN << >>
  ELSE IF since > LatestSeq THEN None
  ELSE LET start == since + 1 - OldestSeq IN
       IF start < 0 THEN None
       ELSE [i \in 1 .. size - start |-> EntryAt(start + i - 1)]

(* The walk of page() from the newest entry down; at[i] is its state once   *)
(* the entries from logical offset i up have been seen.                     *)

(* MUTANT: the next page starts at the first envelope left, not after it. *)
WalkMutant(before, limit, kinds) ==
  LET at[i \in 0 .. size] ==
        IF i = size THEN [items |-> << >>, next |-> None, stopped |-> FALSE]
        ELSE LET s == at[i + 1]  e == EntryAt(i) IN
             IF s.stopped \/ e.seq >= before \/ e.frame \notin kinds THEN s
             ELSE IF Len(s.items) < limit THEN [s EXCEPT !.items = <<e>> \o @]
             ELSE [s EXCEPT !.next = e.seq, !.stopped = TRUE]
  IN at[0]
Walk(before, limit, kinds) ==
  LET at[i \in 0 .. size] ==
        IF i = size THEN [items |-> << >>, next |-> None, stopped |-> FALSE]
        ELSE LET s == at[i + 1]  e == EntryAt(i) IN
             IF s.stopped \/ e.seq >= before \/ e.frame \notin kinds THEN s
             ELSE IF Len(s.items) < limit THEN [s EXCEPT !.items = <<e>> \o @]
             ELSE [s EXCEPT !.next = s.items[1].seq, !.stopped = TRUE]
  IN at[0]
Page(before, limit, kinds) ==
  LET s == Walk(before, limit, kinds) IN [items |-> s.items, next |-> s.next]

--------------------------------------------------------------------------------
(* Properties *)

TypeOK ==
  /\ entries \in [Slot -> Envelope \cup {None}]
  /\ startIndex \in Slot
  /\ size \in 0 .. Capacity
  /\ nextSeq \in Nat \ {0}

(* The ring is what the log promises: read from its head it is the gapless  *)
(* newest part of everything journaled (journal.ts:13-17).                  *)
Window == [i \in 1 .. size |-> EntryAt(i - 1)]
Log == INSTANCE SessionLog WITH latest <- LatestSeq, retained <- Window
ImplementsLog == Log!LogSpec

(* A resuming subscriber is replayed exactly the envelopes after its cursor, *)
(* and told to start over when one of them was evicted or the cursor is     *)
(* ahead of the log (journal.ts:65-72): never a tail with a hole in it.     *)
ReplayIsExact == \A since \in 0 .. nextSeq : After(since) = Log!After(since)

(* Paging back through the ring finds every matching envelope it retains    *)
(* once: each page is the newest part of what precedes its cursor, and the  *)
(* next cursor is set exactly when an older one is left (journal.ts:86-91). *)
PagesAreExact ==
  \A before \in 1 .. nextSeq, limit \in 1 .. Capacity, kinds \in SUBSET Frame :
    Page(before, limit, kinds) = Log!Page(before, limit, kinds)
================================================================================
