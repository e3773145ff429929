-------------------------- MODULE SessionQueue_proofs --------------------------
(***************************************************************************)
(* Proofs about SessionQueue, for any prompts, conversations and bounds.   *)
(***************************************************************************)
EXTENDS SessionQueue, SequenceTheorems, TLAPS

(* What TypeOK says of the list of prompts.                                  *)
IsList(s) == s \in Seq(Prompt) /\ IsInjective(s) /\ Len(s) <= MaxQueued

LEMMA Appended ==
  ASSUME NEW s, IsList(s), NEW m \in Prompt, m \notin Range(s), Len(s) < MaxQueued
  PROVE  IsList(Append(s, m)) /\ Range(Append(s, m)) = Range(s) \cup {m}
<1> DEFINE t == Append(s, m)
<1>1. s \in Seq(Prompt) /\ IsInjective(s) /\ Len(s) \in Nat /\ DOMAIN s = 1 .. Len(s)
  BY LenProperties DEF IsList
<1>2. /\ t \in Seq(Prompt) /\ Len(t) = Len(s) + 1
      /\ \A i \in 1 .. Len(s) : t[i] = s[i]
      /\ t[Len(s) + 1] = m
  BY <1>1, AppendProperties
<1>3. DOMAIN t = 1 .. Len(s) + 1
  BY <1>2, LenProperties
<1> HIDE DEF t
<1>4. \A i \in 1 .. Len(s) : t[i] \in Range(s)
  BY <1>1, <1>2 DEF Range
<1>5. IsInjective(t)
  <2> SUFFICES ASSUME NEW i \in 1 .. Len(s) + 1, NEW j \in 1 .. Len(s) + 1, t[i] = t[j]
               PROVE  i = j
    BY <1>3 DEF IsInjective
  <2>1. (i \in 1 .. Len(s) \/ i = Len(s) + 1) /\ (j \in 1 .. Len(s) \/ j = Len(s) + 1)
    BY <1>1
  <2> QED
    BY <2>1, <1>1, <1>2, <1>4 DEF IsInjective
<1>6. Len(t) <= MaxQueued
  BY <1>1, <1>2, QueueBounds
<1>7. Range(t) = Range(s) \cup {m}
  <2>1. Range(t) \subseteq Range(s) \cup {m}
    BY <1>1, <1>2, <1>3, <1>4 DEF Range
  <2>2. Range(s) \cup {m} \subseteq Range(t)
    BY <1>1, <1>2, <1>3 DEF Range
  <2> QED
    BY <2>1, <2>2
<1> QED
  BY <1>2, <1>5, <1>6, <1>7 DEF t, IsList

LEMMA WithoutIs ==
  ASSUME IsList(queue.entries), NEW m \in Ids(queue)
  PROVE  IsList(Without(m)) /\ Range(Without(m)) = Ids(queue) \ {m}
<1> DEFINE s == queue.entries
           n == Len(s)
           at == CHOOSE i \in DOMAIN s : s[i] = m
           a == SubSeq(s, 1, at - 1)
           b == SubSeq(s, at + 1, n)
           t == a \o b
<1>1. s \in Seq(Prompt) /\ IsInjective(s) /\ n \in Nat /\ DOMAIN s = 1 .. n /\ n <= MaxQueued
  BY LenProperties DEF IsList
<1>2. at \in 1 .. n /\ s[at] = m
  BY <1>1 DEF Ids, Range
<1>3. \A i \in 1 .. n : s[i] = m => i = at
  BY <1>1, <1>2 DEF IsInjective
<1>4. t = Without(m)
  BY DEF Without
<1>5. \A i \in 1 .. n : s[i] \in Prompt
  BY <1>1, ElementOfSeq
<1> HIDE DEF s, at
<1>6. a \in Seq(Prompt) /\ Len(a) = at - 1 /\ \A i \in 1 .. at - 1 : a[i] = s[i]
  <2>1. \A i \in 1 .. at - 1 : s[i] \in Prompt
    BY <1>1, <1>2, <1>5
  <2>2. 1 \in Int /\ at - 1 \in Int
    BY <1>2
  <2>3. a \in Seq(Prompt)
    BY <2>1, <2>2, SubSeqProperties
  <2>4. Len(a) = IF 1 <= at - 1 THEN (at - 1) - 1 + 1 ELSE 0
    BY <2>1, <2>2, SubSeqProperties
  <2>5. \A i \in 1 .. (at - 1) - 1 + 1 : a[i] = s[1 + i - 1]
    BY <2>1, <2>2, SubSeqProperties
  <2> HIDE DEF a
  <2> QED
    BY <2>3, <2>4, <2>5, <1>1, <1>2
<1>7. b \in Seq(Prompt) /\ Len(b) = n - at /\ \A i \in 1 .. n - at : b[i] = s[at + i]
  <2>1. \A i \in at + 1 .. n : s[i] \in Prompt
    BY <1>1, <1>2, <1>5
  <2>2. at + 1 \in Int /\ n \in Int
    BY <1>1, <1>2
  <2>3. b \in Seq(Prompt)
    BY <2>1, <2>2, SubSeqProperties
  <2>4. Len(b) = IF at + 1 <= n THEN n - (at + 1) + 1 ELSE 0
    BY <2>1, <2>2, SubSeqProperties
  <2>5. \A i \in 1 .. n - (at + 1) + 1 : b[i] = s[(at + 1) + i - 1]
    BY <2>1, <2>2, SubSeqProperties
  <2> HIDE DEF b, n
  <2>6. n - (at + 1) + 1 = n - at
    BY <1>1, <1>2
  <2>7. \A i \in 1 .. n - at : (at + 1) + i - 1 = at + i
    BY <1>1, <1>2
  <2>8. Len(b) = n - at
    BY <2>4, <2>6, <1>1, <1>2
  <2> QED
    BY <2>3, <2>5, <2>6, <2>7, <2>8
<1> HIDE DEF a, b, n
<1>8. /\ t \in Seq(Prompt) /\ Len(t) = n - 1 /\ DOMAIN t = 1 .. n - 1
      /\ \A i \in 1 .. n - 1 : t[i] = IF i < at THEN s[i] ELSE s[i + 1]
  <2>1. t \in Seq(Prompt) /\ Len(t) = Len(a) + Len(b)
    BY <1>6, <1>7, ConcatProperties
  <2>2. \A i \in 1 .. Len(a) + Len(b) : t[i] = IF i <= Len(a) THEN a[i] ELSE b[i - Len(a)]
    BY <1>6, <1>7, ConcatProperties
  <2>3. Len(t) = n - 1
    BY <2>1, <1>6, <1>7, <1>1, <1>2
  <2>4. DOMAIN t = 1 .. n - 1
    BY <2>1, <2>3, LenProperties
  <2> HIDE DEF t
  <2> QED
    BY <2>1, <2>2, <2>3, <2>4, <1>1, <1>2, <1>6, <1>7
<1> HIDE DEF t
<1>9. IsInjective(t)
  <2> SUFFICES ASSUME NEW i \in 1 .. n - 1, NEW j \in 1 .. n - 1, t[i] = t[j] PROVE i = j
    BY <1>8 DEF IsInjective
  <2>1. \A k, l \in 1 .. n : s[k] = s[l] => k = l
    BY <1>1 DEF IsInjective
  <2>2. i + 1 \in 1 .. n /\ j + 1 \in 1 .. n /\ i \in 1 .. n /\ j \in 1 .. n
    BY <1>1
  <2> QED
    BY <2>1, <2>2, <1>1, <1>2, <1>8
<1>10. Range(t) \subseteq Range(s) \ {m}
  <2> SUFFICES ASSUME NEW i \in 1 .. n - 1 PROVE t[i] \in Range(s) \ {m}
    BY <1>8 DEF Range
  <2>1. PICK k \in 1 .. n : t[i] = s[k] /\ k # at
    BY <1>1, <1>2, <1>8
  <2> QED
    BY <2>1, <1>1, <1>3 DEF Range
<1>11. Range(s) \ {m} \subseteq Range(t)
  <2> SUFFICES ASSUME NEW k \in 1 .. n, s[k] # m PROVE s[k] \in Range(t)
    BY <1>1 DEF Range
  <2>1. PICK i \in 1 .. n - 1 : t[i] = s[k]
    <3>1. CASE k < at
      BY <3>1, <1>1, <1>2, <1>8
    <3>2. CASE k > at
      <4>1. k - 1 \in 1 .. n - 1 /\ ~(k - 1 < at) /\ (k - 1) + 1 = k
        BY <3>2, <1>1, <1>2
      <4> QED
        BY <4>1, <1>8
    <3> QED
      BY <3>1, <3>2, <1>1, <1>2
  <2> QED
    BY <2>1, <1>8 DEF Range
<1>12. Len(t) <= MaxQueued
  BY <1>1, <1>8, QueueBounds
<1> QED
  BY <1>4, <1>8, <1>9, <1>10, <1>11, <1>12 DEF s, IsList, Ids

--------------------------------------------------------------------------------
(* The invariant *)

(* A prompt is queued once, in a conversation.                               *)
Named == \A m \in Ids(queue) : home[m] # None
MemoryIsSaved == saved.entries = queue.entries /\ saved.session = queue.session
Acknowledged == kept \subseteq got \cup Ids(queue)
ReachedIsGot == flight # None /\ flight.reached => flight.id \in got

(* An open edit has paused the queue, and a later pause is newer.            *)
EditIsQueued ==
  edit # None => edit.id \in Ids(queue) /\ queue.paused /\ edit.version <= queue.version

InItsConversation == \A m \in Ids(queue) \ early : queue.session = home[m]

Safe ==
  /\ TypeOK /\ Named /\ MemoryIsSaved /\ Acknowledged /\ ReachedIsGot /\ InFlightIsHeld
  /\ EditIsQueued /\ InItsConversation /\ RightConversation

(* The queue sends by itself, now or once an edit is closed.                 *)
Runs == ~queue.paused \/ (edit # None /\ edit.resume /\ edit.version = queue.version)
Sending == IF flight = None THEN {} ELSE {flight.id}

FullOnce == fills \in Nat /\ (full => fills # 0)
AskedFor == fills = 0 /\ Runs => Ids(queue) \ Sending \subseteq asked \cup again

(* What is sent and may not be sent again pauses the queue when it fails.    *)
Lively == pane.open /\ pane.status \notin {"idle", "error"}
SentStillRuns ==
  fills = 0 /\ Runs /\ flight # None /\ ~flight.steer /\ flight.id \notin asked => Lively

Allowed == FullOnce /\ AskedFor /\ SentStillRuns /\ OnlyWhatWasAsked

QueueInv == Safe /\ Allowed

PaneType ==
  [open : BOOLEAN, conv : Conversation, bound : BOOLEAN, status : Status,
   active : {"none", "starting", "running"}]

LEMMA EmptyHasNone == ASSUME NEW q, q.entries = << >> PROVE Ids(q) = {}
BY DEF Ids, Range

LEMMA QueueInit == Init => QueueInv
<1> SUFFICES ASSUME Init PROVE QueueInv
  OBVIOUS
<1>1. EmptyQueue \in Queue
  BY EmptySeq, QueueBounds DEF EmptyQueue, Queue
<1>2. IsInjective(<< >>) /\ Len(<< >>) <= MaxQueued
  BY QueueBounds DEF IsInjective
<1>3. Ids(queue) = {}
  BY EmptyHasNone DEF Init, EmptyQueue
<1>4. TypeOK
  <2>1. queue \in Queue /\ saved \in Queue /\ queue.entries = << >>
    BY <1>1 DEF Init, EmptyQueue
  <2>2. pane \in PaneType
    BY DEF Init, Closed, Status, PaneType
  <2>3. /\ flight = None /\ edit = None /\ home \in [Prompt -> Conversation \cup {None}]
        /\ {full, pump, deferred, told} \subseteq BOOLEAN
        /\ early \cup kept \cup got \cup again \cup asked \subseteq Prompt
    BY DEF Init
  <2> QED
    BY <1>2, <2>1, <2>2, <2>3 DEF TypeOK, PaneType
<1>5. Safe
  BY <1>3, <1>4 DEF Init, Safe, Named, MemoryIsSaved, Acknowledged, ReachedIsGot, InFlightIsHeld,
        EditIsQueued, InItsConversation, RightConversation
<1>6. Allowed
  BY <1>3 DEF Init, disk, Allowed, FullOnce, AskedFor, SentStillRuns, OnlyWhatWasAsked
<1> QED
  BY <1>5, <1>6 DEF QueueInv

(* Whoever leaves the list of prompts and the delivery alone, and resumes    *)
(* only where no edit is open, keeps Safe.                                   *)
LEMMA Framed ==
  ASSUME Safe, TypeOK', UNCHANGED <<flight, ghosts>>, edit' \in {edit, None},
         queue'.entries = queue.entries, saved'.entries = queue.entries,
         saved'.session = queue'.session,
         queue'.sending = queue.sending,
         queue'.session = queue.session \/ queue.session = None,
         edit' # None /\ queue.paused => queue'.paused, queue'.version >= queue.version
  PROVE  Safe'
<1> USE DEF Safe
<1>1. Ids(queue') = Ids(queue)
  BY DEF Ids
<1>2. /\ Named' /\ MemoryIsSaved' /\ Acknowledged' /\ ReachedIsGot'
      /\ InFlightIsHeld' /\ RightConversation'
  BY <1>1 DEF ghosts, Named, MemoryIsSaved, Acknowledged, ReachedIsGot, InFlightIsHeld, RightConversation
<1>3. InItsConversation'
  BY <1>1 DEF ghosts, Named, InItsConversation
<1>4. EditIsQueued'
  <2>1. edit # None => edit.version \in Nat
    BY QueueBounds DEF TypeOK, Edit
  <2>2. queue.version \in Nat /\ queue'.version \in Nat
    BY QueueBounds DEF TypeOK, Queue
  <2> QED
    BY <1>1, <2>1, <2>2 DEF EditIsQueued
<1> QED
  BY <1>2, <1>3, <1>4

(* Who leaves the list of prompts, the delivery and the pane alone and does  *)
(* not set the queue going, or does so when the disk was full, keeps Allowed. *)
LEMMA Quiet ==
  ASSUME Allowed, UNCHANGED <<flight, full, fills, asked, again>>, edit' \in {edit, None},
         queue'.entries = queue.entries, full \/ (Runs' => Runs), Lively => Lively'
  PROVE  Allowed'
<1>1. Ids(queue') = Ids(queue)
  BY DEF Ids
<1> QED
  BY <1>1 DEF Allowed, FullOnce, AskedFor, SentStillRuns, OnlyWhatWasAsked, Sending

--------------------------------------------------------------------------------
(* The session *)

Stopped ==
  /\ queue.entries # << >> /\ queue.version < MaxPauses /\ asked' = {}
  /\ Commit(Paused(queue)) \/ InMemory(Unsaved(queue))

(* What every step of the session does to the queue: it pauses it, or the    *)
(* turn of what is being sent goes on.                                       *)
SessionStep ==
  /\ UNCHANGED others
  /\ pane' \in PaneType /\ {pump', deferred', told'} \subseteq BOOLEAN
  /\ \/ Stopped
     \/ UNCHANGED <<queue, saved, asked>> /\ (queue.entries = << >> \/ (Lively => Lively'))

LEMMA PaneIs == TypeOK => pane \in PaneType
BY DEF TypeOK, PaneType

LEMMA ChangedIs ==
  ASSUME NEW status \in Status, Changed(status), pane'.open = pane.open \/ status = "idle",
         pane'.status = status
  PROVE  /\ pump' \in BOOLEAN
         /\ \/ Stopped
            \/ UNCHANGED <<queue, saved, asked>> /\ (queue.entries = << >> \/ (Lively => Lively'))
<1>1. pump' \in BOOLEAN
  BY DEF Changed
<1>2. CASE Pauses(status)
  BY <1>1, <1>2 DEF Changed, Pauses, Stopped
<1>3. CASE ~Pauses(status)
  BY <1>1, <1>3 DEF Changed, Pauses, Lively
<1> QED
  BY <1>2, <1>3

LEMMA SetStatusIs ==
  ASSUME TypeOK, NEW status \in Status, NEW active \in {"none", "starting", "running"},
         SetStatus(status, active), UNCHANGED others, {deferred', told'} \subseteq BOOLEAN
  PROVE  SessionStep
<1>1. pane' \in PaneType /\ pane'.open = pane.open /\ pane'.status = status
  BY PaneIs DEF SetStatus, PaneType
<1>2. CASE status = pane.status
  <2>1. pump \in BOOLEAN
    BY DEF TypeOK
  <2> QED
    BY <1>1, <1>2, <2>1 DEF SetStatus, SessionStep, Lively
<1>3. CASE status # pane.status
  BY <1>1, <1>3, ChangedIs DEF SetStatus, SessionStep
<1> QED
  BY <1>2, <1>3

LEMMA OpenIs == ASSUME TypeOK, NEW c \in Conversation, Open(c) PROVE SessionStep
<1>1. pane' \in PaneType /\ pane'.status = "idle"
  BY DEF Open, Closed, Status, PaneType
<1>2. {deferred', told'} \subseteq BOOLEAN /\ UNCHANGED others /\ Changed("idle")
  BY DEF Open, TypeOK
<1>3. "idle" \in Status
  BY DEF Status
<1> QED
  BY <1>1, <1>2, <1>3, ChangedIs DEF SessionStep

LEMMA CloseIs == ASSUME TypeOK, Close PROVE SessionStep
<1>1. pane' \in PaneType /\ pane'.status = "idle"
  BY PaneIs DEF Close, Closed, Status, PaneType
<1>2. {deferred', told', pump} \subseteq BOOLEAN /\ UNCHANGED others
  BY DEF Close, TypeOK
<1>3. CASE pane.status = "idle"
  BY <1>1, <1>2, <1>3 DEF Close, SessionStep, Lively
<1>4. CASE pane.status # "idle"
  <2>1. Changed("idle") /\ "idle" \in Status
    BY <1>4 DEF Close, Status
  <2> QED
    BY <1>1, <1>2, <2>1, ChangedIs DEF SessionStep
<1> QED
  BY <1>3, <1>4

LEMMA SendIs == ASSUME TypeOK, Send PROVE SessionStep
<1>1. pane' \in PaneType
  BY PaneIs DEF Send, Status, PaneType
<1> QED
  BY <1>1 DEF Send, SessionStep, TypeOK

LEMMA SessionIs ==
  ASSUME TypeOK, Session, ~Bind
  PROVE  SessionStep
<1>1. {"completed", "idle", "attention", "working", "error"} \subseteq Status
  BY DEF Status
<1>2. ASSUME NEW s \in {"completed", "idle", "attention"}, Finish(s) PROVE SessionStep
  <2>1. {deferred', told'} \subseteq BOOLEAN /\ SetStatus(s, "none") /\ UNCHANGED others
    BY <1>2 DEF Finish, TypeOK
  <2> QED
    BY <1>1, <2>1, SetStatusIs
<1>3. ASSUME Attend PROVE SessionStep
  <2> DEFINE s == IF pane.status = "working" THEN "attention" ELSE "working"
  <2>1. {deferred', told'} \subseteq BOOLEAN /\ SetStatus(s, "running") /\ UNCHANGED others
    BY <1>3 DEF Attend, TypeOK
  <2>2. s \in Status
    BY <1>1
  <2> QED
    BY <2>1, <2>2, SetStatusIs
<1>4. ASSUME Stop \/ Fail \/ Publish PROVE SessionStep
  <2>1. {deferred', told'} \subseteq BOOLEAN /\ UNCHANGED others
    BY <1>4 DEF Stop, Fail, Publish, TypeOK
  <2>2. PICK s \in {"working", "idle", "error"} : SetStatus(s, "none")
    BY <1>4 DEF Stop, Fail, Publish
  <2> QED
    BY <1>1, <2>1, <2>2, SetStatusIs
<1> QED
  BY <1>2, <1>3, <1>4, OpenIs, CloseIs, SendIs DEF Session

LEMMA PausedIs ==
  ASSUME NEW q \in Queue, q.entries # << >>, q.version < MaxPauses
  PROVE  /\ Paused(q) \in Queue
         /\ Paused(q) = [q EXCEPT !.paused = TRUE, !.version = @ + 1]
<1>1. q.version + 1 \in 0 .. MaxPauses
  BY QueueBounds DEF Queue
<1> QED
  BY <1>1 DEF Paused, Queue

LEMMA UnsavedIs ==
  ASSUME NEW q \in Queue
  PROVE  /\ Unsaved(q) \in Queue
         /\ Unsaved(q).entries = q.entries /\ Unsaved(q).sending = q.sending
         /\ Unsaved(q).session = q.session /\ Unsaved(q).paused
         /\ Unsaved(q).version = q.version /\ q.version \in Nat
<1>1. q.version \in Nat
  BY QueueBounds DEF Queue
<1> QED
  BY <1>1 DEF Unsaved, Queue

LEMMA StoppedKeepsSafe ==
  ASSUME Safe, Stopped, UNCHANGED others, pane' \in PaneType,
         {pump', deferred', told'} \subseteq BOOLEAN
  PROVE  Safe'
<1>1. TypeOK /\ queue \in Queue /\ saved \in Queue /\ saved.entries = queue.entries
      /\ saved.session = queue.session
  BY DEF Safe, MemoryIsSaved, TypeOK
<1>2. CASE Commit(Paused(queue))
  <2>1. /\ queue' \in Queue /\ saved' = queue'
        /\ queue' = [queue EXCEPT !.paused = TRUE, !.version = @ + 1]
    BY <1>1, <1>2, PausedIs DEF Commit, Stopped
  <2>2. /\ queue'.entries = queue.entries /\ queue'.sending = queue.sending
        /\ queue'.session = queue.session /\ queue'.paused
        /\ queue'.version = queue.version + 1 /\ queue.version \in Nat
    BY <1>1, <2>1, QueueBounds DEF Queue
  <2>3. TypeOK'
    BY <1>1, <2>1, <2>2 DEF TypeOK, PaneType, others, disk, ghosts, Stopped
  <2> QED
    BY <2>1, <2>2, <2>3, Framed DEF others
<1>3. CASE InMemory(Unsaved(queue))
  <2>1. /\ queue' \in Queue /\ saved' = saved
        /\ queue'.entries = queue.entries /\ queue'.sending = queue.sending
        /\ queue'.session = queue.session /\ queue'.paused
        /\ queue'.version = queue.version /\ queue.version \in Nat
    BY <1>1, <1>3, UnsavedIs DEF InMemory
  <2>2. TypeOK'
    BY <1>1, <2>1 DEF TypeOK, PaneType, others, disk, ghosts, Stopped
  <2> QED
    BY <1>1, <2>1, <2>2, Framed DEF others
<1> QED
  BY <1>2, <1>3 DEF Stopped

LEMMA StoppedIsAllowed ==
  ASSUME Safe, Allowed, Stopped, UNCHANGED others
  PROVE  Allowed'
<1>1. queue \in Queue /\ queue.version \in Nat
  BY QueueBounds DEF Safe, TypeOK, Queue
<1>2. UNCHANGED <<flight, edit, full, fills, again>>
  BY DEF others, disk, ghosts
<1>3. fills = 0 => ~Runs'
  <2> SUFFICES ASSUME fills = 0 PROVE ~Runs'
    OBVIOUS
  <2>1. Commit(Paused(queue))
    BY DEF Allowed, FullOnce, InMemory, Stopped
  <2>2. queue' = [queue EXCEPT !.paused = TRUE, !.version = @ + 1]
    BY <1>1, <2>1, PausedIs DEF Stopped, Commit
  <2>3. queue'.paused /\ queue'.version = queue.version + 1
    BY <1>1, <2>2 DEF Queue
  <2>4. edit # None => edit.version <= queue.version /\ edit.version \in Nat
    BY QueueBounds DEF Safe, EditIsQueued, TypeOK, Edit
  <2> QED
    BY <1>1, <1>2, <2>3, <2>4 DEF Runs
<1> QED
  BY <1>2, <1>3 DEF Allowed, FullOnce, AskedFor, SentStillRuns, OnlyWhatWasAsked

LEMMA SessionKeeps == ASSUME QueueInv, SessionStep PROVE QueueInv'
<1> USE DEF QueueInv
<1>1. CASE Stopped
  BY <1>1, StoppedKeepsSafe, StoppedIsAllowed DEF SessionStep
<1>2. CASE /\ UNCHANGED <<queue, saved, asked>>
           /\ queue.entries = << >> \/ (Lively => Lively')
  <2>1. UNCHANGED <<flight, edit, full, fills>> /\ UNCHANGED ghosts
    BY DEF SessionStep, others, disk
  <2>2. TypeOK'
    BY <1>2, <2>1 DEF SessionStep, Safe, TypeOK, PaneType, ghosts
  <2>3. Safe'
    <3>1. /\ saved.entries = queue.entries /\ saved.session = queue.session
          /\ queue.version \in Nat
      BY QueueBounds DEF Safe, MemoryIsSaved, TypeOK, Queue
    <3> QED
      BY <1>2, <2>1, <2>2, <3>1, Framed
  <2>4. FullOnce' /\ AskedFor' /\ OnlyWhatWasAsked'
    BY <1>2, <2>1 DEF Allowed, FullOnce, AskedFor, OnlyWhatWasAsked, Runs, Sending, ghosts
  <2>5. SentStillRuns'
    <3>1. flight # None => queue.entries # << >>
      BY EmptyHasNone DEF Safe, InFlightIsHeld
    <3> QED
      BY <1>2, <2>1, <3>1 DEF Allowed, SentStillRuns, Runs
  <2> QED
    BY <2>3, <2>4, <2>5 DEF Allowed
<1> QED
  BY <1>1, <1>2 DEF SessionStep

LEMMA BindKeeps == ASSUME QueueInv, Bind PROVE QueueInv'
<1> USE DEF QueueInv
<1>1. /\ TypeOK /\ queue \in Queue /\ saved \in Queue /\ saved.entries = queue.entries
      /\ saved.session = queue.session /\ pane \in PaneType /\ queue.version \in Nat
  BY PaneIs, QueueBounds DEF Safe, TypeOK, Queue, MemoryIsSaved
<1>2. /\ UNCHANGED <<flight, edit, full, fills, asked>> /\ UNCHANGED ghosts
      /\ pane' \in PaneType /\ (Lively => Lively')
      /\ UNCHANGED <<disk, pump, deferred, told>>
  BY <1>1 DEF Bind, others, disk, PaneType, Lively
<1>3. CASE Commit([queue EXCEPT !.session = pane.conv]) /\ queue.session = None
  <2>1. /\ queue' \in Queue /\ saved' = queue'
        /\ queue'.entries = queue.entries /\ queue'.sending = queue.sending
        /\ queue'.paused = queue.paused /\ queue'.version = queue.version
    BY <1>1, <1>3 DEF Commit, Queue, PaneType
  <2>2. TypeOK'
    BY <1>1, <1>2, <2>1 DEF TypeOK, PaneType, disk, ghosts
  <2>3. Safe'
    BY <1>1, <1>2, <1>3, <2>1, <2>2, Framed
  <2>4. Runs' => Runs
    BY <1>2, <2>1 DEF Runs
  <2> QED
    BY <1>2, <2>1, <2>3, <2>4, Quiet DEF ghosts
<1>4. CASE InMemory(Unsaved(queue))
  <2>1. /\ queue' \in Queue /\ saved' = saved /\ full
        /\ queue'.entries = queue.entries /\ queue'.sending = queue.sending
        /\ queue'.session = queue.session /\ queue'.paused /\ queue'.version = queue.version
    BY <1>1, <1>4, UnsavedIs DEF InMemory
  <2>2. TypeOK'
    BY <1>1, <1>2, <2>1 DEF TypeOK, PaneType, disk, ghosts
  <2>3. Safe'
    BY <1>1, <1>2, <2>1, <2>2, Framed
  <2> QED
    BY <1>2, <2>1, <2>3, Quiet DEF ghosts
<1>5. CASE UNCHANGED <<queue, saved>>
  <2>1. TypeOK'
    BY <1>1, <1>2, <1>5 DEF TypeOK, PaneType, disk, ghosts
  <2>2. Safe'
    BY <1>1, <1>2, <1>5, <2>1, Framed
  <2>3. Runs' => Runs
    BY <1>2, <1>5 DEF Runs
  <2> QED
    BY <1>2, <1>5, <2>2, <2>3, Quiet DEF ghosts
<1> QED
  BY <1>3, <1>4, <1>5 DEF Bind

--------------------------------------------------------------------------------
(* The user *)

LEMMA EventsKept == UNCHANGED events => /\ UNCHANGED <<full, fills, flight, pane, deferred, got, again>>
                                       /\ (Lively => Lively')
BY DEF events, disk, Lively

LEMMA ResumedIs ==
  ASSUME NEW q \in Queue
  PROVE  /\ Resumed(q) \in Queue
         /\ Resumed(q).entries = q.entries /\ Resumed(q).sending = q.sending
         /\ Resumed(q).session = q.session /\ ~Resumed(q).paused
         /\ Resumed(q).version = q.version /\ q.version \in Nat
<1>1. q.version \in Nat
  BY QueueBounds DEF Queue
<1> QED
  BY <1>1 DEF Resumed, Queue

LEMMA EnqueueKeeps == ASSUME QueueInv, NEW m \in Prompt, Enqueue(m) PROVE QueueInv'
<1> USE DEF QueueInv
<1>1. /\ TypeOK /\ queue \in Queue /\ pane \in PaneType /\ m \notin Ids(queue)
      /\ IsList(queue.entries) /\ Len(queue.entries) < MaxQueued /\ pane.open
      /\ SessionId \in Conversation \cup {None}
  BY PaneIs DEF Safe, TypeOK, Queue, IsList, Named, Enqueue, Room, SessionId, PaneType
<1>2. /\ UNCHANGED <<full, fills, flight, pane, deferred, got, again, told, edit>>
      /\ home' = [home EXCEPT ![m] = pane.conv]
      /\ early' = (IF pane.bound THEN early ELSE early \cup {m})
      /\ kept' = kept \cup {m} /\ asked' = asked \cup {m} /\ pump' = TRUE
  BY EventsKept DEF Enqueue
<1>3. IsList(Append(queue.entries, m)) /\ Range(Append(queue.entries, m)) = Ids(queue) \cup {m}
  BY <1>1, Appended DEF Ids
<1>4. /\ queue' = [queue EXCEPT !.entries = Append(queue.entries, m), !.session = SessionId,
                               !.paused = @ /\ queue.entries # << >>,
                               !.error = @ /\ queue.entries # << >>]
      /\ saved' = queue'
  BY DEF Enqueue, Commit
<1>5. /\ queue' \in Queue /\ queue'.entries = Append(queue.entries, m)
      /\ queue'.session = SessionId /\ queue'.version = queue.version
      /\ queue'.sending = queue.sending
      /\ queue'.paused = (queue.paused /\ queue.entries # << >>)
  BY <1>1, <1>3, <1>4 DEF Queue, IsList
<1>6. Ids(queue') = Ids(queue) \cup {m}
  BY <1>3, <1>5 DEF Ids
<1>7. /\ home \in [Prompt -> Conversation \cup {None}] /\ pane.conv \in Conversation
      /\ pane.conv # None /\ home'[m] = pane.conv
      /\ \A p \in Prompt : p # m => home'[p] = home[p]
      /\ home' \in [Prompt -> Conversation \cup {None}]
      /\ Ids(queue) \subseteq Prompt
  BY <1>1, <1>2, NobodyAssumption, RangeOfSeq DEF TypeOK, PaneType, IsList, Ids
<1>8. TypeOK'
  BY <1>1, <1>2, <1>3, <1>4, <1>5, <1>7 DEF TypeOK, PaneType, IsList
<1>9. queue.entries # << >> => queue.session = SessionId
  BY DEF Enqueue
<1>10. queue.entries = << >> => Ids(queue) = {}
  BY EmptyHasNone
<1>11. Safe'
  <2>1. Named' /\ MemoryIsSaved' /\ Acknowledged' /\ ReachedIsGot' /\ InFlightIsHeld'
    BY <1>2, <1>4, <1>5, <1>6, <1>7 DEF Safe, Named, MemoryIsSaved, Acknowledged, ReachedIsGot,
          InFlightIsHeld
  <2>2. EditIsQueued'
    BY <1>2, <1>5, <1>6, <1>10 DEF Safe, EditIsQueued
  <2>3. InItsConversation'
    <3> SUFFICES ASSUME NEW p \in Ids(queue'), p \notin early' PROVE queue'.session = home'[p]
      BY DEF InItsConversation
    <3>1. CASE p = m
      BY <1>1, <1>2, <1>5, <1>7, <3>1 DEF SessionId
    <3>2. CASE p # m
      BY <1>2, <1>5, <1>6, <1>7, <1>9, <1>10, <3>2 DEF Safe, InItsConversation
    <3> QED
      BY <3>1, <3>2
  <2>4. RightConversation'
    BY <1>1, <1>2, <1>7 DEF Safe, InFlightIsHeld, RightConversation
  <2> QED
    BY <1>8, <2>1, <2>2, <2>3, <2>4 DEF Safe
<1>12. Allowed'
  <2>1. FullOnce' /\ OnlyWhatWasAsked'
    BY <1>2 DEF Allowed, FullOnce, OnlyWhatWasAsked
  <2>2. queue.entries # << >> => (Runs' <=> Runs)
    BY <1>2, <1>5 DEF Runs
  <2>3. AskedFor'
    BY <1>2, <1>6, <1>10, <2>2 DEF Allowed, AskedFor, Sending
  <2>4. SentStillRuns'
    BY <1>2, <1>10, <2>2 DEF Safe, InFlightIsHeld, Allowed, SentStillRuns, Lively
  <2> QED
    BY <2>1, <2>3, <2>4 DEF Allowed
<1> QED
  BY <1>11, <1>12

LEMMA ResumeKeeps == ASSUME QueueInv, Resume PROVE QueueInv'
<1> USE DEF QueueInv
<1>1. TypeOK /\ queue \in Queue /\ edit = None /\ Ids(queue) \subseteq Prompt
  BY RangeOfSeq DEF Safe, TypeOK, Queue, Ids, Resume
<1>2. /\ UNCHANGED <<full, fills, flight, pane, deferred, got, again, told, edit, home, early, kept>>
      /\ asked' = Ids(queue) /\ pump' = TRUE
  BY EventsKept DEF Resume
<1>3. queue' = Resumed(queue) /\ saved' = queue'
  BY DEF Resume, Commit
<1>4. /\ queue' \in Queue /\ queue'.entries = queue.entries /\ queue'.sending = queue.sending
      /\ queue'.session = queue.session /\ queue'.version = queue.version
      /\ queue.version \in Nat
  BY <1>1, <1>3, ResumedIs
<1>5. TypeOK'
  BY <1>1, <1>2, <1>3, <1>4 DEF TypeOK
<1>6. Safe'
  BY <1>1, <1>2, <1>3, <1>4, <1>5, Framed DEF ghosts
<1>7. Ids(queue') = Ids(queue)
  BY <1>4 DEF Ids
<1>8. Allowed'
  BY <1>1, <1>2, <1>7 DEF Allowed, FullOnce, AskedFor, SentStillRuns,
        OnlyWhatWasAsked, Safe, InFlightIsHeld
<1> QED
  BY <1>6, <1>8

LEMMA RemoveKeeps == ASSUME QueueInv, NEW m \in Prompt, Remove(m) PROVE QueueInv'
<1> USE DEF QueueInv
<1>1. /\ TypeOK /\ queue \in Queue /\ edit = None /\ m \in Ids(queue)
      /\ IsList(queue.entries) /\ (flight # None => flight.id # m)
  BY DEF Safe, TypeOK, Queue, IsList, Remove, Held, InFlightIsHeld
<1>2. /\ UNCHANGED <<full, fills, flight, pane, deferred, got, again, edit, home, early, asked, pump>>
      /\ kept' = kept \ {m} /\ told' \in BOOLEAN
  BY <1>1, EventsKept DEF Remove, TypeOK
<1>3. queue' = [queue EXCEPT !.entries = Without(m)] /\ saved' = queue'
  BY DEF Remove, Commit
<1>4. IsList(Without(m)) /\ Range(Without(m)) = Ids(queue) \ {m}
  BY <1>1, WithoutIs
<1>5. /\ queue' \in Queue /\ queue'.entries = Without(m) /\ queue'.sending = queue.sending
      /\ queue'.session = queue.session /\ queue'.version = queue.version
      /\ queue'.paused = queue.paused
  BY <1>1, <1>3, <1>4 DEF Queue, IsList
<1>6. Ids(queue') = Ids(queue) \ {m}
  BY <1>4, <1>5 DEF Ids
<1>7. TypeOK'
  BY <1>1, <1>2, <1>3, <1>4, <1>5 DEF TypeOK, IsList
<1>8. Safe'
  BY <1>1, <1>2, <1>3, <1>5, <1>6, <1>7 DEF Safe, Named, MemoryIsSaved, Acknowledged,
        ReachedIsGot, InFlightIsHeld, EditIsQueued, InItsConversation,
        RightConversation
<1>9. Allowed'
  BY <1>1, <1>2, <1>5, <1>6 DEF Allowed, FullOnce, AskedFor, SentStillRuns,
        OnlyWhatWasAsked, Runs, Sending, Lively
<1> QED
  BY <1>8, <1>9

LEMMA BeginEditKeeps == ASSUME QueueInv, NEW m \in Prompt, BeginEdit(m) PROVE QueueInv'
<1> USE DEF QueueInv
<1>1. /\ TypeOK /\ queue \in Queue /\ edit = None /\ m \in Ids(queue) /\ queue.entries # << >>
      /\ queue.version < MaxPauses /\ queue.version \in Nat
      /\ (flight # None => flight.id # m)
  BY EmptyHasNone, QueueBounds
     DEF Safe, TypeOK, Queue, BeginEdit, Held, InFlightIsHeld
<1>2. /\ UNCHANGED <<full, fills, flight, pane, deferred, got, again, told, pump>>
      /\ UNCHANGED <<home, early, kept, asked>>
      /\ edit' = [id |-> m, resume |-> ~queue.paused, version |-> queue.version + 1]
  BY EventsKept DEF BeginEdit
<1>3. queue' = [queue EXCEPT !.paused = TRUE, !.version = @ + 1] /\ saved' = queue'
      /\ queue' \in Queue
  BY <1>1, PausedIs DEF BeginEdit, Editing, Commit
<1>4. /\ queue'.entries = queue.entries /\ queue'.sending = queue.sending
      /\ queue'.session = queue.session /\ queue'.version = queue.version + 1 /\ queue'.paused
  BY <1>1, <1>3 DEF Queue
<1>5. Ids(queue') = Ids(queue)
  BY <1>4 DEF Ids
<1>6. /\ edit' \in Edit
      /\ edit'.id = m /\ edit'.resume = ~queue.paused /\ edit'.version = queue.version + 1
  <2>1. queue.version + 1 \in 1 .. MaxPauses
    BY <1>1, QueueBounds
  <2>2. (~queue.paused) \in BOOLEAN
    OBVIOUS
  <2> DEFINE r == ~queue.paused
             v == queue.version + 1
  <2>3. edit' = [id |-> m, resume |-> r, version |-> v] /\ r \in BOOLEAN /\ v \in 1 .. MaxPauses
    BY <1>2, <2>1, <2>2
  <2> HIDE DEF r, v
  <2>4. /\ edit' \in Edit
        /\ edit'.id = m /\ edit'.resume = r /\ edit'.version = v
    BY <2>3 DEF Edit
  <2> QED
    BY <2>4 DEF r, v
<1>7. TypeOK'
  BY <1>1, <1>2, <1>3, <1>4, <1>6 DEF TypeOK
<1>8. Safe'
  <2>1. EditIsQueued'
    BY <1>1, <1>4, <1>5, <1>6 DEF EditIsQueued
  <2> QED
    BY <1>1, <1>2, <1>3, <1>4, <1>5, <1>6, <1>7, <2>1 DEF Safe, Named, MemoryIsSaved,
       Acknowledged, ReachedIsGot, InFlightIsHeld, InItsConversation,
       RightConversation
<1>9. Runs' => Runs
  BY <1>4, <1>6 DEF Runs
<1>10. Allowed'
  BY <1>1, <1>2, <1>5, <1>9 DEF Allowed, FullOnce, AskedFor, SentStillRuns,
        OnlyWhatWasAsked, Sending, Lively
<1> QED
  BY <1>8, <1>10

LEMMA EndEditKeeps == ASSUME QueueInv, EndEdit PROVE QueueInv'
<1> USE DEF QueueInv
<1>1. /\ TypeOK /\ queue \in Queue /\ edit # None /\ queue.paused /\ queue.version \in Nat
      /\ saved.entries = queue.entries /\ saved.session = queue.session
  BY QueueBounds DEF Safe, TypeOK, Queue, EndEdit, EditIsQueued, MemoryIsSaved
<1>2. /\ UNCHANGED <<full, fills, flight, pane, deferred, got, again, told, home, early, kept, asked>>
      /\ edit' = None /\ (Lively => Lively')
  BY EventsKept DEF EndEdit
<1>3. CASE edit.resume /\ StillMine /\ Commit(Resumed(queue)) /\ pump' = TRUE
  <2>1. queue' = Resumed(queue) /\ saved' = queue'
    BY <1>3 DEF Commit
  <2>2. /\ queue' \in Queue /\ queue'.entries = queue.entries /\ queue'.sending = queue.sending
        /\ queue'.session = queue.session /\ queue'.version = queue.version
    BY <1>1, <2>1, ResumedIs
  <2>3. TypeOK'
    BY <1>1, <1>2, <1>3, <2>1, <2>2 DEF TypeOK
  <2>4. Safe'
    BY <1>1, <1>2, <2>1, <2>2, <2>3, Framed DEF ghosts
  <2>5. Runs
    BY <1>1, <1>3 DEF StillMine, Runs
  <2> QED
    BY <1>2, <2>2, <2>4, <2>5, Quiet
<1>4. CASE UNCHANGED <<queue, saved, pump>>
  <2>1. TypeOK'
    BY <1>1, <1>2, <1>4 DEF TypeOK
  <2>2. Safe'
    BY <1>1, <1>2, <1>4, <2>1, Framed DEF ghosts
  <2>3. ~Runs'
    BY <1>1, <1>2, <1>4 DEF Runs
  <2> QED
    BY <1>2, <1>4, <2>2, <2>3, Quiet
<1> QED
  BY <1>3, <1>4 DEF EndEdit

--------------------------------------------------------------------------------
(* Delivery *)

LEMMA DeliverKeeps ==
  ASSUME QueueInv, NEW m \in Ids(queue), NEW steer \in BOOLEAN, NEW allowed \in BOOLEAN,
         Deliver(m, steer, allowed), flight = None, edit = None,
         fills = 0 => allowed \/ m \in again,
         UNCHANGED <<disk, edit, ghosts>>
  PROVE  QueueInv'
<1> USE DEF QueueInv
<1>1. /\ TypeOK /\ queue \in Queue /\ pane \in PaneType /\ m \in Prompt /\ m # None
      /\ saved.entries = queue.entries /\ saved.session = queue.session
  BY PaneIs, RangeOfSeq, NobodyAssumption DEF Safe, TypeOK, Queue, Ids, MemoryIsSaved
<1>2. /\ UNCHANGED <<full, fills, edit, home, early, kept, got, again>>
      /\ queue.session = SessionId /\ asked' = IF full THEN asked ELSE asked \ {m}
  BY DEF Deliver, MayDeliver, disk, ghosts
<1>3. CASE /\ Commit([queue EXCEPT !.sending = m]) /\ pane.open
           /\ flight' = [id |-> m, steer |-> steer, reached |-> FALSE, to |-> pane.conv,
                         asked |-> allowed]
           /\ pump' = FALSE
           /\ IF steer THEN UNCHANGED <<pane, deferred, told>>
              ELSE /\ pane' = [pane EXCEPT !.status = "working", !.active = "starting"]
                   /\ deferred' = FALSE /\ told' = FALSE
  <2>1. /\ queue' \in Queue /\ saved' = queue' /\ queue'.entries = queue.entries
        /\ queue'.session = queue.session /\ queue'.paused = queue.paused
        /\ queue'.version = queue.version /\ queue'.sending = m
    BY <1>1, <1>3 DEF Commit, Queue
  <2>2. /\ flight' \in Flight /\ flight' # None
        /\ flight'.id = m /\ flight'.steer = steer /\ ~flight'.reached
        /\ flight'.to = pane.conv /\ flight'.asked = allowed
    <3>1. pane.conv \in Conversation
      BY <1>1 DEF PaneType
    <3>2. flight' \in Flight
      BY <1>1, <1>3, <3>1 DEF Flight
    <3> QED
      BY <1>3, <3>2, NobodyAssumption
  <2>3. /\ pane' \in PaneType /\ {deferred', told', pump'} \subseteq BOOLEAN
        /\ (steer \/ Lively')
    BY <1>1, <1>3 DEF PaneType, TypeOK, Status, Lively
  <2>4. Ids(queue') = Ids(queue)
    BY <2>1 DEF Ids
  <2>5. TypeOK'
    BY <1>1, <1>2, <2>1, <2>2, <2>3 DEF TypeOK, PaneType
  <2>6. RightConversation'
    BY <1>2, <1>3, <2>2 DEF Safe, RightConversation, InItsConversation, Named, SessionId
  <2>7. Safe'
    BY <1>2, <2>1, <2>2, <2>4, <2>5, <2>6 DEF Safe, Named, MemoryIsSaved, Acknowledged,
       ReachedIsGot, InFlightIsHeld, EditIsQueued, InItsConversation
  <2>8. ~full
    BY <1>3 DEF Commit
  <2>9. Runs' => Runs
    BY <1>2, <2>1 DEF Runs
  <2>10. Allowed'
    BY <1>2, <2>2, <2>3, <2>4, <2>8, <2>9 DEF Allowed, FullOnce, AskedFor,
       SentStillRuns, OnlyWhatWasAsked, Sending
  <2> QED
    BY <2>7, <2>10
<1>4. CASE /\ Commit([queue EXCEPT !.sending = None, !.paused = TRUE, !.error = TRUE])
           /\ pump' = TRUE /\ UNCHANGED <<flight, pane, deferred, told>>
  <2>1. /\ queue' \in Queue /\ saved' = queue' /\ queue'.entries = queue.entries
        /\ queue'.session = queue.session /\ queue'.paused
        /\ queue'.version = queue.version
    BY <1>1, <1>4 DEF Commit, Queue
  <2>2. Ids(queue') = Ids(queue)
    BY <2>1 DEF Ids
  <2>3. TypeOK'
    BY <1>1, <1>2, <1>4, <2>1 DEF TypeOK, PaneType
  <2>4. Safe'
    BY <1>2, <1>4, <2>1, <2>2, <2>3 DEF Safe, Named, MemoryIsSaved, Acknowledged, ReachedIsGot,
       InFlightIsHeld, EditIsQueued, InItsConversation, RightConversation
  <2>5. ~Runs'
    BY <1>2, <2>1 DEF Runs
  <2>6. Allowed'
    BY <1>2, <1>4, <2>5 DEF Allowed, FullOnce, AskedFor, SentStillRuns,
       OnlyWhatWasAsked
  <2> QED
    BY <2>4, <2>6
<1>5. CASE full /\ UNCHANGED <<queue, saved, flight, pane, deferred, told>> /\ pump' = TRUE
  <2>1. UNCHANGED ghosts /\ asked' = asked /\ (Lively => Lively')
    BY <1>2, <1>5 DEF ghosts, Lively
  <2>2. TypeOK'
    BY <1>1, <1>2, <1>5, <2>1 DEF TypeOK, PaneType
  <2>3. queue.version \in Nat
    BY <1>1, QueueBounds DEF Queue
  <2>4. Safe'
    BY <1>1, <1>2, <1>5, <2>1, <2>2, <2>3, Framed
  <2> QED
    BY <1>2, <1>5, <2>1, <2>4, Quiet
<1> QED
  BY <1>3, <1>4, <1>5 DEF Deliver

LEMMA PumpKeeps == ASSUME QueueInv, Pump PROVE QueueInv'
<1> USE DEF QueueInv
<1>1. /\ TypeOK /\ queue \in Queue /\ saved.entries = queue.entries
      /\ saved.session = queue.session /\ queue.version \in Nat
  BY QueueBounds DEF Safe, TypeOK, Queue, MemoryIsSaved
<1>2. UNCHANGED <<disk, edit, ghosts>>
  BY DEF Pump
<1>3. CASE Ready /\ flight = None /\ pane.status \in {"completed", "idle"}
  <2> DEFINE m == Head(queue.entries)
  <2>1. Deliver(m, FALSE, m \in asked) /\ queue.entries # << >> /\ ~queue.paused
    BY <1>3 DEF Pump, Ready
  <2>2. m = queue.entries[1] /\ 1 \in DOMAIN queue.entries
    BY <1>1, <2>1, EmptySeq, LenProperties DEF Queue
  <2>3. m \in Ids(queue)
    BY <2>2 DEF Ids, Range
  <2>4. edit = None
    BY <2>1 DEF Safe, EditIsQueued
  <2>5. fills = 0 => m \in asked \/ m \in again
    BY <1>3, <2>1, <2>3 DEF Allowed, AskedFor, Runs, Sending
  <2>6. (m \in asked) \in BOOLEAN /\ FALSE \in BOOLEAN
    OBVIOUS
  <2> HIDE DEF m
  <2> QED
    BY <1>2, <1>3, <2>1, <2>3, <2>4, <2>5, <2>6, DeliverKeeps
<1>4. CASE ~(Ready /\ flight = None /\ pane.status \in {"completed", "idle"})
  <2>1. /\ UNCHANGED <<queue, saved, flight, pane, deferred, told, asked>> /\ pump' = FALSE
        /\ UNCHANGED <<full, fills, edit>> /\ UNCHANGED ghosts
    BY <1>2, <1>4 DEF Pump, disk
  <2>2. TypeOK' /\ (Lively => Lively') /\ (Runs' => Runs)
    BY <1>1, <2>1 DEF TypeOK, ghosts, Lively, Runs
  <2>3. Safe'
    BY <1>1, <2>1, <2>2, Framed
  <2> QED
    BY <2>1, <2>2, <2>3, Quiet DEF ghosts
<1> QED
  BY <1>3, <1>4

LEMMA SteerKeeps == ASSUME QueueInv, NEW m \in Prompt, Steer(m) PROVE QueueInv'
<1>1. /\ m \in Ids(queue) /\ flight = None /\ edit = None /\ UNCHANGED <<disk, edit, ghosts>>
      /\ Deliver(m, pane.status = "working", TRUE)
  BY DEF Steer
<1>2. (pane.status = "working") \in BOOLEAN /\ TRUE \in BOOLEAN
  OBVIOUS
<1> QED
  BY <1>1, <1>2, DeliverKeeps

LEMMA ReachKeeps == ASSUME QueueInv, Reach PROVE QueueInv'
<1> USE DEF QueueInv
<1>1. TypeOK /\ pane \in PaneType /\ flight # None /\ flight \in Flight
  BY PaneIs DEF Safe, TypeOK, Reach
<1>2. /\ UNCHANGED <<queue, saved, full, fills, pump, edit, deferred, told>>
      /\ UNCHANGED <<home, early, kept, again, asked>>
      /\ got' = got \cup {flight.id}
  BY DEF Reach, disk
<1>3. /\ flight' \in Flight
      /\ flight'.id = flight.id /\ flight'.steer = flight.steer /\ flight'.to = flight.to
      /\ flight'.asked = flight.asked /\ flight' # None
  BY <1>1, NobodyAssumption DEF Reach, Flight
<1>4. pane' \in PaneType /\ (Lively => Lively')
  <2> DEFINE active == IF pane.active = "starting" THEN "running" ELSE pane.active
  <2>1. pane' = [pane EXCEPT !.active = active]
    BY DEF Reach
  <2>2. active \in {"none", "starting", "running"}
    BY <1>1 DEF PaneType
  <2> HIDE DEF active
  <2> QED
    BY <1>1, <2>1, <2>2 DEF PaneType, Lively
<1>5. TypeOK'
  <2>1. (got \cup {flight.id}) \subseteq Prompt
    BY <1>1 DEF TypeOK, Flight
  <2> QED
    BY <1>1, <1>2, <1>3, <1>4, <2>1 DEF TypeOK, PaneType
<1>6. Safe'
  BY <1>1, <1>2, <1>3, <1>5 DEF Safe, Named, MemoryIsSaved, Acknowledged, ReachedIsGot,
     InFlightIsHeld, EditIsQueued, InItsConversation, RightConversation
<1>7. Allowed'
  BY <1>1, <1>2, <1>3, <1>4 DEF Allowed, FullOnce, AskedFor, SentStillRuns,
     OnlyWhatWasAsked, Runs, Sending
<1> QED
  BY <1>6, <1>7

LEMMA DeliveredKeeps == ASSUME QueueInv, Delivered PROVE QueueInv'
<1> USE DEF QueueInv
<1> DEFINE m == flight.id
<1>1. /\ TypeOK /\ queue \in Queue /\ flight # None /\ m \in Ids(queue) /\ m \in got
      /\ IsList(queue.entries) /\ (edit # None => edit.id # m)
      /\ saved.entries = queue.entries /\ saved.session = queue.session
      /\ queue.version \in Nat
  BY QueueBounds DEF Safe, TypeOK, Queue, IsList, Delivered, InFlightIsHeld, ReachedIsGot, MemoryIsSaved
<1>2. /\ UNCHANGED <<full, fills, pane, edit, home, early, kept, got, again, asked>>
      /\ flight' = None /\ pump' \in BOOLEAN
  BY DEF Delivered, disk, ghosts, PumpAfter
<1>3. CASE /\ Commit([queue EXCEPT !.entries = Without(m), !.sending = None])
           /\ deferred' = (deferred /\ Without(m) # << >>)
           /\ told' = (told \/ (Without(m) = << >> /\ deferred /\ pane.status = "completed"))
  <2>1. IsList(Without(m)) /\ Range(Without(m)) = Ids(queue) \ {m}
    BY <1>1, WithoutIs
  <2>2. /\ queue' \in Queue /\ saved' = queue' /\ queue'.entries = Without(m)
        /\ queue'.session = queue.session /\ queue'.paused = queue.paused
        /\ queue'.version = queue.version
    BY <1>1, <1>3, <2>1 DEF Commit, Queue, IsList
  <2>3. Ids(queue') = Ids(queue) \ {m}
    BY <2>1, <2>2 DEF Ids
  <2>4. {deferred', told'} \subseteq BOOLEAN
    BY <1>1, <1>3 DEF TypeOK
  <2>5. TypeOK'
    BY <1>1, <1>2, <2>1, <2>2, <2>4 DEF TypeOK, IsList
  <2>6. Safe'
    BY <1>1, <1>2, <2>2, <2>3, <2>5 DEF Safe, Named, MemoryIsSaved, Acknowledged,
       ReachedIsGot, InFlightIsHeld, EditIsQueued, InItsConversation,
       RightConversation
  <2>7. Runs' => Runs
    BY <1>2, <2>2 DEF Runs
  <2>8. Allowed'
    BY <1>1, <1>2, <2>3, <2>7 DEF Allowed, FullOnce, AskedFor, SentStillRuns,
       OnlyWhatWasAsked, Sending
  <2> QED
    BY <2>6, <2>8
<1>4. CASE full /\ UNCHANGED <<queue, saved, deferred, told>>
  <2>1. TypeOK'
    BY <1>1, <1>2, <1>4 DEF TypeOK
  <2>2. Safe'
    BY <1>1, <1>2, <1>4, <2>1 DEF Safe, Named, MemoryIsSaved, Acknowledged,
       ReachedIsGot, InFlightIsHeld, EditIsQueued, InItsConversation,
       RightConversation
  <2>3. Allowed'
    BY <1>2, <1>4 DEF Allowed, FullOnce, AskedFor, SentStillRuns, OnlyWhatWasAsked
  <2> QED
    BY <2>2, <2>3
<1> QED
  BY <1>3, <1>4 DEF Delivered

LEMMA UndeliveredKeeps == ASSUME QueueInv, Undelivered PROVE QueueInv'
<1> USE DEF QueueInv
<1> DEFINE ends == ~flight.steer /\ pane.open /\ pane.status # "error"
           stopped == IF ends THEN Paused(queue) ELSE queue
<1>1. /\ TypeOK /\ queue \in Queue /\ saved \in Queue /\ pane \in PaneType /\ flight # None
      /\ saved.entries = queue.entries /\ saved.session = queue.session
      /\ queue.version \in Nat /\ queue.version < MaxPauses /\ queue.entries # << >>
  BY PaneIs, QueueBounds, EmptyHasNone DEF Safe, TypeOK, Queue, Undelivered, InFlightIsHeld,
     MemoryIsSaved
<1>2. /\ UNCHANGED <<full, fills, edit, home, early, kept, got, deferred, told>>
      /\ flight' = None /\ pump' \in BOOLEAN
      /\ asked' = IF ends THEN {} ELSE asked
      /\ again' = IF flight.steer /\ edit # None /\ edit.resume /\ StillMine
                  THEN again \cup {flight.id} ELSE again \ {flight.id}
      /\ pane' = IF ends THEN [pane EXCEPT !.status = "error", !.active = "none"] ELSE pane
  BY DEF Undelivered, disk, ghosts, PumpAfter
<1>3. pane' \in PaneType /\ again' \subseteq Prompt
  BY <1>1, <1>2 DEF TypeOK, Flight, PaneType, Status
<1>4. CASE Commit([stopped EXCEPT !.sending = None, !.paused = TRUE, !.error = TRUE])
  <2>1. /\ stopped \in Queue /\ stopped.entries = queue.entries
        /\ stopped.session = queue.session
        /\ stopped.version = IF ends THEN queue.version + 1 ELSE queue.version
    <3>1. CASE ends
      BY <1>1, <3>1, PausedIs DEF Queue
    <3>2. CASE ~ends
      BY <1>1, <3>2
    <3> QED
      BY <3>1, <3>2
  <2>2. queue' = [stopped EXCEPT !.sending = None, !.paused = TRUE, !.error = TRUE]
        /\ saved' = queue'
    BY <1>4 DEF Commit
  <2> HIDE DEF stopped
  <2>3. /\ queue' \in Queue /\ queue'.entries = queue.entries
        /\ queue'.session = queue.session /\ queue'.paused
        /\ queue'.version = IF ends THEN queue.version + 1 ELSE queue.version
    BY <2>1, <2>2 DEF Queue
  <2> HIDE DEF ends
  <2>4. Ids(queue') = Ids(queue)
    BY <2>3 DEF Ids
  <2>5. TypeOK'
    BY <1>1, <1>2, <1>3, <2>2, <2>3 DEF TypeOK, PaneType
  <2>6. edit # None => edit.version <= queue.version /\ edit.version \in Nat
    BY <1>1, QueueBounds DEF Safe, EditIsQueued, TypeOK, Edit
  <2>7. Safe'
    <3>1. EditIsQueued'
      BY <1>1, <1>2, <2>3, <2>4, <2>6 DEF Safe, EditIsQueued
    <3> QED
      BY <1>1, <1>2, <2>2, <2>3, <2>4, <2>5, <3>1 DEF Safe, Named, MemoryIsSaved,
         Acknowledged, ReachedIsGot, InFlightIsHeld, InItsConversation,
         RightConversation
  <2>8. Runs' => Runs /\ ~ends /\ edit # None /\ edit.resume /\ StillMine
    BY <1>1, <1>2, <2>3, <2>6 DEF Runs, StillMine
  <2>9. fills = 0 /\ Runs' => flight.id \in asked \cup again'
    <3>1. CASE flight.steer
      BY <1>2, <2>8, <3>1
    <3>2. CASE ~flight.steer
      BY <1>1, <2>8, <3>2 DEF Allowed, SentStillRuns, Lively, ends
    <3> QED
      BY <3>1, <3>2
  <2>10. Allowed'
    BY <1>1, <1>2, <2>4, <2>8, <2>9 DEF Allowed, FullOnce, AskedFor, SentStillRuns,
       OnlyWhatWasAsked, Sending
  <2> QED
    BY <2>7, <2>10
<1>5. CASE InMemory(IF ends THEN Unsaved(queue) ELSE queue)
  <2>1. /\ queue' \in Queue /\ saved' = saved /\ full /\ queue'.entries = queue.entries
        /\ queue'.session = queue.session /\ (queue.paused => queue'.paused)
        /\ queue'.version = queue.version
    BY <1>1, <1>5, UnsavedIs DEF InMemory
  <2> HIDE DEF ends
  <2>2. Ids(queue') = Ids(queue)
    BY <2>1 DEF Ids
  <2>3. TypeOK'
    BY <1>1, <1>2, <1>3, <2>1 DEF TypeOK, PaneType
  <2>4. Safe'
    BY <1>1, <1>2, <2>1, <2>2, <2>3 DEF Safe, Named, MemoryIsSaved, Acknowledged, ReachedIsGot,
       InFlightIsHeld, EditIsQueued, InItsConversation, RightConversation
  <2>5. Allowed'
    BY <1>2, <2>1 DEF Allowed, FullOnce, AskedFor, SentStillRuns, OnlyWhatWasAsked
  <2> QED
    BY <2>4, <2>5
<1> QED
  BY <1>4, <1>5 DEF Undelivered

--------------------------------------------------------------------------------
(* The machine *)

LEMMA RestartKeeps == ASSUME QueueInv, Restart PROVE QueueInv'
<1> USE DEF QueueInv
<1>1. /\ TypeOK /\ queue \in Queue /\ saved \in Queue /\ pane \in PaneType
      /\ saved.entries = queue.entries /\ saved.session = queue.session
  BY PaneIs DEF Safe, TypeOK, MemoryIsSaved
<1>2. /\ queue' = [saved EXCEPT !.paused = TRUE, !.error = @ \/ saved.sending # None,
                                !.sending = None]
      /\ UNCHANGED <<saved, full, fills, home, early, kept, got, again>>
      /\ flight' = None /\ edit' = None /\ asked' = {}
      /\ pump' = FALSE /\ deferred' = FALSE /\ told' = FALSE /\ pane' = Closed(pane.conv)
  BY DEF Restart, Restored, disk, ghosts
<1>3. /\ queue' \in Queue /\ queue'.entries = queue.entries
      /\ queue'.session = queue.session /\ queue'.paused
  BY <1>1, <1>2 DEF Queue
<1>4. Ids(queue') = Ids(queue)
  BY <1>3 DEF Ids
<1>5. pane' \in PaneType
  BY <1>1, <1>2 DEF Closed, PaneType, Status
<1>6. TypeOK'
  BY <1>1, <1>2, <1>3, <1>5 DEF TypeOK, PaneType
<1>7. Safe'
  BY <1>1, <1>2, <1>3, <1>4, <1>6 DEF Safe, Named, MemoryIsSaved, Acknowledged, ReachedIsGot,
     InFlightIsHeld, EditIsQueued, InItsConversation, RightConversation
<1>8. Allowed'
  BY <1>2, <1>3 DEF Allowed, FullOnce, AskedFor, SentStillRuns, OnlyWhatWasAsked, Runs
<1> QED
  BY <1>7, <1>8

LEMMA DiskKeeps == ASSUME QueueInv, Disk PROVE QueueInv'
<1> USE DEF QueueInv
<1>1. /\ UNCHANGED <<queue, saved, pump, flight, pane, edit, deferred, told, asked>>
      /\ UNCHANGED ghosts /\ full' = (~full)
      /\ fills' = (IF full THEN fills ELSE fills + 1)
  BY DEF Disk
<1>2. /\ TypeOK /\ saved.entries = queue.entries /\ saved.session = queue.session
      /\ queue.version \in Nat
  BY QueueBounds DEF Safe, TypeOK, Queue, MemoryIsSaved
<1>3. TypeOK'
  BY <1>1, <1>2 DEF TypeOK, ghosts
<1>4. Safe'
  BY <1>1, <1>2, <1>3, Framed
<1>5. fills' \in Nat /\ fills' # 0
  BY <1>1 DEF Allowed, FullOnce
<1>6. Allowed'
  BY <1>1, <1>5 DEF Allowed, FullOnce, AskedFor, SentStillRuns, OnlyWhatWasAsked
<1> QED
  BY <1>4, <1>6

LEMMA QueueStep == QueueInv /\ [Next]_vars => QueueInv'
<1> SUFFICES ASSUME QueueInv, [Next]_vars PROVE QueueInv'
  OBVIOUS
<1>1. TypeOK
  BY DEF QueueInv, Safe
<1>2. ASSUME Session PROVE QueueInv'
  BY <1>1, <1>2, SessionIs, SessionKeeps, BindKeeps
<1>3. ASSUME User PROVE QueueInv'
  BY <1>3, EnqueueKeeps, RemoveKeeps, BeginEditKeeps, SteerKeeps, ResumeKeeps, EndEditKeeps
     DEF User
<1>4. ASSUME Delivery PROVE QueueInv'
  BY <1>4, PumpKeeps, ReachKeeps, DeliveredKeeps, UndeliveredKeeps DEF Delivery
<1>5. CASE UNCHANGED vars
  <2>1. /\ UNCHANGED <<queue, saved, pump, flight, pane, edit, deferred, told, asked, full, fills>>
        /\ UNCHANGED ghosts
    BY <1>5 DEF vars, disk
  <2>2. TypeOK'
    BY <1>1, <2>1 DEF TypeOK, ghosts
  <2>3. /\ saved.entries = queue.entries /\ saved.session = queue.session
        /\ queue.version \in Nat
    BY QueueBounds DEF QueueInv, Safe, TypeOK, Queue, MemoryIsSaved
  <2>4. Safe'
    BY <2>1, <2>2, <2>3, Framed DEF QueueInv
  <2>5. (Runs' => Runs) /\ (Lively => Lively')
    BY <2>1 DEF Runs, Lively
  <2> QED
    BY <2>1, <2>4, <2>5, Quiet DEF QueueInv, ghosts
<1> QED
  BY <1>2, <1>3, <1>4, <1>5, RestartKeeps, DiskKeeps DEF Next

LEMMA QueueInvHolds == Spec => []QueueInv
BY QueueInit, QueueStep, PTL DEF Spec

--------------------------------------------------------------------------------
(* The notice of a completed turn *)

LEMMA SessionKeepsEntries ==
  ASSUME TypeOK, SessionStep PROVE queue'.entries = queue.entries
<1>1. queue \in Queue
  BY DEF TypeOK
<1>2. CASE Commit(Paused(queue)) /\ queue.entries # << >> /\ queue.version < MaxPauses
  <2>1. queue' = [queue EXCEPT !.paused = TRUE, !.version = @ + 1]
    BY <1>1, <1>2, PausedIs DEF Commit
  <2> QED
    BY <1>1, <2>1 DEF Queue
<1>3. CASE InMemory(Unsaved(queue))
  BY <1>1, <1>3, UnsavedIs DEF InMemory
<1>4. CASE queue' = queue
  BY <1>4
<1> QED
  BY <1>2, <1>3, <1>4 DEF SessionStep, Stopped

LEMMA SessionTells ==
  ASSUME TypeOK, Session, CompletionIsTold PROVE CompletionIsTold'
<1>1. pane \in PaneType /\ queue \in Queue
  BY PaneIs DEF TypeOK
<1>2. CASE Bind
  <2>1. pane'.status = pane.status /\ UNCHANGED <<deferred, told>>
    BY <1>1, <1>2 DEF Bind, PaneType
  <2>2. queue'.entries = queue.entries
    <3>1. CASE Commit([queue EXCEPT !.session = pane.conv])
      BY <1>1, <3>1 DEF Commit, Queue
    <3>2. CASE InMemory(Unsaved(queue))
      BY <1>1, <3>2, UnsavedIs DEF InMemory
    <3>3. CASE queue' = queue
      BY <3>3
    <3> QED
      BY <1>2, <3>1, <3>2, <3>3 DEF Bind
  <2> QED
    BY <2>1, <2>2 DEF CompletionIsTold
<1>3. CASE ~Bind
  <2>1. queue'.entries = queue.entries
    BY <1>3, SessionIs, SessionKeepsEntries
  <2>2. ASSUME NEW s \in {"completed", "idle", "attention"}, Finish(s) PROVE CompletionIsTold'
    <3>1. /\ pane'.status = s /\ (Ready => queue.entries # << >>)
          /\ deferred' = (deferred \/ (s = "completed" /\ Ready))
          /\ told' = (told \/ (s = "completed" /\ ~Ready))
      BY <1>1, <2>2 DEF Finish, SetStatus, Ready, Defer, PaneType
    <3> QED
      BY <2>1, <3>1 DEF CompletionIsTold
  <2>3. ASSUME (\E c \in Conversation : Open(c)) \/ Close \/ Send PROVE pane'.status # "completed"
    <3>1. ASSUME NEW c \in Conversation, Open(c) PROVE pane'.status # "completed"
      <4>1. pane' = [Closed(c) EXCEPT !.open = TRUE]
        BY <3>1 DEF Open
      <4> QED
        BY <4>1 DEF Closed
    <3>2. ASSUME Close PROVE pane'.status # "completed"
      BY <3>2 DEF Close, Closed
    <3>3. ASSUME Send PROVE pane'.status # "completed"
      BY <1>1, <3>3 DEF Send, PaneType
    <3> QED
      BY <2>3, <3>1, <3>2, <3>3
  <2>4. ASSUME Attend \/ Stop \/ Fail \/ Publish PROVE pane'.status # "completed"
    <3>1. ASSUME NEW t, NEW b, SetStatus(t, b), t # "completed" PROVE pane'.status # "completed"
      BY <1>1, <3>1 DEF SetStatus, PaneType
    <3>2. ASSUME Attend \/ Stop PROVE pane'.status # "completed"
      BY <1>1, <3>1, <3>2 DEF Attend, Stop, PaneType
    <3>3. ASSUME Fail PROVE pane'.status # "completed"
      BY <3>1, <3>3 DEF Fail
    <3>4. ASSUME Publish PROVE pane'.status # "completed"
      BY <3>1, <3>4 DEF Publish
    <3> QED
      BY <2>4, <3>2, <3>3, <3>4
  <2> QED
    BY <1>3, <2>2, <2>3, <2>4 DEF Session, CompletionIsTold
<1> QED
  BY <1>2, <1>3

LEMMA DeliverTells ==
  ASSUME TypeOK, CompletionIsTold, NEW m, NEW steer \in BOOLEAN, NEW allowed,
         Deliver(m, steer, allowed)
  PROVE  CompletionIsTold'
<1>1. pane \in PaneType /\ queue \in Queue
  BY PaneIs DEF TypeOK
<1>2. queue'.entries = queue.entries
  BY <1>1 DEF Deliver, Commit, Queue
<1>3. pane'.status = "working" \/ UNCHANGED <<pane, deferred, told>>
  BY <1>1 DEF Deliver, PaneType
<1> QED
  BY <1>2, <1>3 DEF CompletionIsTold

LEMMA QueueTells ==
  ASSUME QueueInv, CompletionIsTold, [Next]_vars PROVE CompletionIsTold'
<1>1. TypeOK /\ pane \in PaneType /\ queue \in Queue
  BY PaneIs DEF QueueInv, Safe, TypeOK
<1>2. ASSUME NEW m \in Prompt, Enqueue(m) PROVE CompletionIsTold'
  <2>1. pane' = pane /\ deferred' = deferred /\ told' = told
    BY <1>2, EventsKept DEF Enqueue
  <2>2. queue'.entries = Append(queue.entries, m)
    BY <1>1, <1>2 DEF Enqueue, Commit, Queue
  <2>3. queue'.entries # << >>
    BY <1>1, <2>2, AppendProperties DEF Queue
  <2> QED
    BY <2>1, <2>3 DEF CompletionIsTold
<1>3. ASSUME NEW m \in Prompt, Remove(m) PROVE CompletionIsTold'
  <2>1. /\ pane' = pane /\ deferred' = deferred
        /\ told' = (told \/ Without(m) = << >>)
        /\ queue'.entries = Without(m)
    BY <1>1, <1>3, EventsKept DEF Remove, Commit, Queue
  <2> QED
    BY <2>1 DEF CompletionIsTold
<1>4. ASSUME NEW m \in Prompt, BeginEdit(m) PROVE CompletionIsTold'
  <2>1. pane' = pane /\ deferred' = deferred /\ told' = told
    BY <1>4, EventsKept DEF BeginEdit
  <2>2. queue'.entries = queue.entries
    BY <1>1, <1>4 DEF BeginEdit, Editing, Paused, Commit, Queue
  <2> QED
    BY <2>1, <2>2 DEF CompletionIsTold
<1>5. ASSUME NEW m \in Prompt, Steer(m) PROVE CompletionIsTold'
  <2>1. Deliver(m, pane.status = "working", TRUE) /\ (pane.status = "working") \in BOOLEAN
    BY <1>5 DEF Steer
  <2> QED
    BY <1>1, <2>1, DeliverTells
<1>6. ASSUME Resume \/ EndEdit PROVE CompletionIsTold'
  <2>1. pane' = pane /\ deferred' = deferred /\ told' = told
    BY <1>6, EventsKept DEF Resume, EndEdit
  <2>2. queue'.entries = queue.entries
    BY <1>1, <1>6, ResumedIs DEF Resume, EndEdit, Commit
  <2> QED
    BY <2>1, <2>2 DEF CompletionIsTold
<1>7. ASSUME Pump PROVE CompletionIsTold'
  <2>1. FALSE \in BOOLEAN
    OBVIOUS
  <2>2. CASE Ready /\ flight = None /\ pane.status \in {"completed", "idle"}
    <3>1. Deliver(Head(queue.entries), FALSE, Head(queue.entries) \in asked)
      BY <1>7, <2>2 DEF Pump
    <3> QED
      BY <1>1, <2>1, <3>1, DeliverTells
  <2>3. CASE ~(Ready /\ flight = None /\ pane.status \in {"completed", "idle"})
    BY <1>7, <2>3 DEF Pump, CompletionIsTold
  <2> QED
    BY <2>2, <2>3
<1>8. ASSUME Reach PROVE CompletionIsTold'
  <2>1. pane'.status = pane.status /\ UNCHANGED <<queue, deferred, told>>
    BY <1>1, <1>8 DEF Reach, PaneType
  <2> QED
    BY <2>1 DEF CompletionIsTold
<1>9. ASSUME Delivered PROVE CompletionIsTold'
  <2>1. CASE full /\ UNCHANGED <<queue, saved, deferred, told>>
    BY <1>9, <2>1 DEF Delivered, CompletionIsTold
  <2>2. CASE ~(full /\ UNCHANGED <<queue, saved, deferred, told>>)
    <3> DEFINE left == Without(flight.id)
    <3>1. /\ queue'.entries = left /\ pane' = pane
          /\ deferred' = (deferred /\ left # << >>)
          /\ told' = (told \/ (left = << >> /\ deferred /\ pane.status = "completed"))
      BY <1>1, <1>9, <2>2 DEF Delivered, Commit, Queue
    <3> HIDE DEF left
    <3> QED
      BY <3>1 DEF CompletionIsTold
  <2> QED
    BY <2>1, <2>2
<1>10. ASSUME Undelivered PROVE CompletionIsTold'
  <2>1. (pane'.status = "error" \/ pane' = pane) /\ deferred' = deferred /\ told' = told
    BY <1>1, <1>10 DEF Undelivered, PaneType
  <2>2. queue'.entries = queue.entries
    <3> DEFINE ends == ~flight.steer /\ pane.open /\ pane.status # "error"
               stopped == IF ends THEN Paused(queue) ELSE queue
    <3>1. CASE queue' = [stopped EXCEPT !.sending = None, !.paused = TRUE, !.error = TRUE]
      BY <1>1, <3>1 DEF Paused, Queue
    <3>2. CASE queue' = (IF ends THEN Unsaved(queue) ELSE queue)
      BY <1>1, <3>2, UnsavedIs
    <3> QED
      BY <1>10, <3>1, <3>2 DEF Undelivered, Commit, InMemory
  <2> QED
    BY <2>1, <2>2 DEF CompletionIsTold
<1>11. ASSUME Restart PROVE CompletionIsTold'
  BY <1>11 DEF Restart, Closed, CompletionIsTold
<1>12. ASSUME Disk \/ UNCHANGED vars PROVE CompletionIsTold'
  BY <1>12 DEF Disk, vars, CompletionIsTold
<1> QED
  BY <1>1, <1>2, <1>3, <1>4, <1>5, <1>6, <1>7, <1>8, <1>9, <1>10, <1>11, <1>12, SessionTells
     DEF Next, User, Delivery

--------------------------------------------------------------------------------
(* The order of the list *)

Listed ==
  \/ queue'.entries = queue.entries
  \/ \E m \in Prompt : home[m] = None /\ queue'.entries = Append(queue.entries, m)
  \/ \E m \in Ids(queue) : (m \in got \/ m \notin kept') /\ queue'.entries = Without(m)

LEMMA QueueLists ==
  ASSUME QueueInv, [Next]_vars PROVE Listed
<1>1. TypeOK /\ pane \in PaneType /\ queue \in Queue
  BY PaneIs DEF QueueInv, Safe, TypeOK
<1>2. ASSUME NEW m \in Prompt, Enqueue(m) PROVE Listed
  <2>1. home[m] = None /\ queue'.entries = Append(queue.entries, m)
    BY <1>1, <1>2 DEF Enqueue, Commit, Queue
  <2> QED
    BY <2>1 DEF Listed
<1>3. ASSUME NEW m \in Prompt, Remove(m) PROVE Listed
  <2>1. m \in Ids(queue) /\ m \notin kept' /\ queue'.entries = Without(m)
    BY <1>1, <1>3 DEF Remove, Commit, Queue
  <2> QED
    BY <2>1 DEF Listed
<1>4. ASSUME NEW m \in Prompt, BeginEdit(m) PROVE Listed
  BY <1>1, <1>4 DEF BeginEdit, Editing, Paused, Commit, Queue, Listed
<1>5. ASSUME NEW m, NEW steer, NEW allowed, Deliver(m, steer, allowed) PROVE Listed
  BY <1>1, <1>5 DEF Deliver, Commit, Queue, Listed
<1>6. ASSUME NEW m \in Prompt, Steer(m) PROVE Listed
  BY <1>5, <1>6 DEF Steer
<1>7. ASSUME Pump PROVE Listed
  <2>1. CASE Ready /\ flight = None /\ pane.status \in {"completed", "idle"}
    BY <1>5, <1>7, <2>1 DEF Pump
  <2>2. CASE ~(Ready /\ flight = None /\ pane.status \in {"completed", "idle"})
    BY <1>7, <2>2 DEF Pump, Listed
  <2> QED
    BY <2>1, <2>2
<1>8. ASSUME Resume \/ EndEdit PROVE Listed
  BY <1>1, <1>8, ResumedIs DEF Resume, EndEdit, Commit, Listed
<1>9. ASSUME Reach \/ Disk \/ UNCHANGED vars PROVE Listed
  BY <1>9 DEF Reach, Disk, vars, Listed
<1>10. ASSUME Delivered PROVE Listed
  <2>1. flight # None /\ flight.reached /\ flight.id \in got /\ flight.id \in Ids(queue)
    BY <1>10 DEF Delivered, QueueInv, Safe, ReachedIsGot, InFlightIsHeld
  <2>2. queue' = queue \/ queue'.entries = Without(flight.id)
    BY <1>1, <1>10 DEF Delivered, Commit, Queue
  <2> QED
    BY <2>1, <2>2 DEF Listed
<1>11. ASSUME Undelivered PROVE Listed
  <2> DEFINE ends == ~flight.steer /\ pane.open /\ pane.status # "error"
             stopped == IF ends THEN Paused(queue) ELSE queue
  <2>1. CASE queue' = [stopped EXCEPT !.sending = None, !.paused = TRUE, !.error = TRUE]
    BY <1>1, <2>1 DEF Paused, Queue, Listed
  <2>2. CASE queue' = (IF ends THEN Unsaved(queue) ELSE queue)
    BY <1>1, <2>2, UnsavedIs DEF Listed
  <2> QED
    BY <1>11, <2>1, <2>2 DEF Undelivered, Commit, InMemory
<1>12. ASSUME Restart PROVE Listed
  <2>1. saved.entries = queue.entries /\ saved \in Queue
    BY DEF QueueInv, Safe, TypeOK, MemoryIsSaved
  <2>2. queue'.entries = saved.entries
    BY <1>12, <2>1 DEF Restart, Restored, Queue
  <2> QED
    BY <2>1, <2>2 DEF Listed
<1>13. ASSUME Bind PROVE Listed
  BY <1>1, <1>13, UnsavedIs DEF Bind, Commit, InMemory, Queue, Listed
<1>14. ASSUME SessionStep PROVE Listed
  BY <1>1, <1>14, SessionKeepsEntries DEF Listed
<1>15. Session => SessionStep \/ Bind
  BY <1>1, SessionIs
<1> QED
  BY <1>2, <1>3, <1>4, <1>6, <1>7, <1>8, <1>9, <1>10, <1>11, <1>12, <1>13, <1>14, <1>15
     DEF Next, User, Delivery

--------------------------------------------------------------------------------
(* Theorems *)

(* The queue, its file, the delivery, the edit and the pane keep their types, *)
(* and no prompt is queued twice.                                            *)
THEOREM QueueTypeCorrect == Spec => []TypeOK
<1>1. QueueInv => TypeOK
  BY DEF QueueInv, Safe
<1> QED
  BY <1>1, QueueInvHolds, PTL

(* An acknowledged prompt is in memory and in queues.json until the agent has *)
(* it or the user removes it.                                                *)
THEOREM QueueKeepsPrompts == Spec => []NothingLost
<1>1. QueueInv => NothingLost
  BY DEF QueueInv, Safe, MemoryIsSaved, Acknowledged, NothingLost, Ids
<1> QED
  BY <1>1, QueueInvHolds, PTL

(* What is being delivered is marked as sent, stays queued and is not open   *)
(* in the composer.                                                          *)
THEOREM QueueHoldsWhatIsSent == Spec => []InFlightIsHeld
<1>1. QueueInv => InFlightIsHeld
  BY DEF QueueInv, Safe
<1> QED
  BY <1>1, QueueInvHolds, PTL

(* A prompt goes to the conversation it was written for, if that had a name. *)
THEOREM QueueKnowsConversation == Spec => []RightConversation
<1>1. QueueInv => RightConversation
  BY DEF QueueInv, Safe
<1> QED
  BY <1>1, QueueInvHolds, PTL

(* While the disk never filled up, nothing goes out by itself that was tried *)
(* or stopped, except once more a steer that failed while an edit begun      *)
(* beside it could still resume the queue (session-queue.ts:237).            *)
THEOREM QueueSendsWhatWasAsked == Spec => []OnlyWhatWasAsked
<1>1. QueueInv => OnlyWhatWasAsked
  BY DEF QueueInv, Allowed
<1> QED
  BY <1>1, QueueInvHolds, PTL

(* The notice of a completed turn is given or still held back for a prompt.  *)
THEOREM QueueTellsCompletion == Spec => []CompletionIsTold
<1>1. Init => CompletionIsTold
  BY DEF Init, Closed, CompletionIsTold
<1>2. QueueInv /\ CompletionIsTold /\ [Next]_vars => CompletionIsTold'
  BY QueueTells
<1> QED
  BY <1>1, <1>2, QueueInvHolds, PTL DEF Spec

(* Prompts go out in the order they were queued: only an acknowledged prompt *)
(* is added, at the end, only one the agent received or the user took out is *)
(* removed, and a restart puts back the very same list.                      *)
THEOREM QueueKeepsOrder == Spec => InOrder
<1>1. QueueInv /\ [Next]_vars => [Listed]_vars
  BY QueueLists
<1>2. QueueInv /\ [Next]_vars =>
        [\/ queue'.entries = queue.entries
         \/ \E m \in Prompt : home[m] = None /\ queue'.entries = Append(queue.entries, m)
         \/ \E m \in Ids(queue) : (m \in got \/ m \notin kept') /\ queue'.entries = Without(m)]_vars
  BY <1>1, Zenon DEF Listed
<1> QED
  BY <1>2, QueueInvHolds, PTL DEF Spec, InOrder
================================================================================
