------------------------------- MODULE SessionLog -------------------------------
(***************************************************************************)
(* What a session's journal promises: the newest `Capacity` envelopes of an *)
(* unbounded log that is numbered from 1.  SessionJournal's ring implements *)
(* it; SessionStream is built on it.  An envelope is [seq, frame]: session  *)
(* id and time say nothing here.                                            *)
(***************************************************************************)
EXTENDS Integers, Sequences

CONSTANTS Capacity, Frame, None

ASSUME CapacityAssumption == Capacity \in Nat \ {0}

VARIABLES
  latest,     \* seq of the newest envelope, 0 before the first
  retained    \* the envelopes still served, oldest first

logVars == <<latest, retained>>

Envelope == [seq : Nat \ {0}, frame : Frame]
Oldest == latest - Len(retained) + 1

LogInit == latest = 0 /\ retained = << >>

Room == Len(retained) < Capacity

Append1(f) ==
  LET e == [seq |-> latest + 1, frame |-> f] IN
  /\ latest' = latest + 1
  /\ retained' = IF Room
                 THEN Append(retained, e) ELSE Append(Tail(retained), e)

LogNext == \E f \in Frame : Append1(f)

LogSpec == LogInit /\ [][LogNext]_logVars

(* The envelopes after cursor `since`, or None where some are gone or the  *)
(* cursor is ahead of the log.                                             *)

(* MUTANT: a cursor ahead of the log has nothing to catch up on. *)
AfterMutant(since) ==
  IF since >= latest THEN << >>
  ELSE IF since + 1 < Oldest THEN None
  ELSE SubSeq(retained, since - Oldest + 2, Len(retained))
After(since) ==
  IF since = latest THEN << >>
  ELSE IF since > latest \/ since + 1 < Oldest THEN None
  ELSE SubSeq(retained, since - Oldest + 2, Len(retained))

(* What s has at the positions in I, in order: SelectSeq as a function that  *)
(* a proof can expand.                                                       *)
Chosen(s, I) ==
  LET upTo[i \in 0 .. Len(s)] ==
        IF i = 0 THEN << >>
        ELSE IF i \in I THEN Append(upTo[i - 1], s[i]) ELSE upTo[i - 1]
  IN upTo[Len(s)]

(* The newest `limit` envelopes before `before` whose frame is in `kinds`,  *)
(* and the seq before which the next page starts, None on the last page.   *)
Page(before, limit, kinds) ==
  LET matches == {i \in DOMAIN retained : retained[i].seq < before /\ retained[i].frame \in kinds}
      wanted == Chosen(retained, matches)
      n == Len(wanted)
      items == IF n <= limit THEN wanted ELSE SubSeq(wanted, n - limit + 1, n)
  IN [items |-> items, next |-> IF n > limit THEN items[1].seq ELSE None]
================================================================================
