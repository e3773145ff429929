------------------------------ MODULE SessionQueue ------------------------------
(***************************************************************************)
(* The desktop's outbox of prompts for one pane (session-queue.ts), the     *)
(* session status it listens to (session-events.ts) and the composer that   *)
(* edits a queued message (useQueuedMessageEdit.ts).                        *)
(*                                                                         *)
(* A handler runs to its end and its microtasks, which only ever pump, run  *)
(* before the next handler.  Handing a prompt to the agent is awaited: turns *)
(* end, users stop and edit, and the process dies meanwhile.  A save works  *)
(* unless the disk is full; a request of the user that cannot be saved is   *)
(* refused and is not a step.                                               *)
(***************************************************************************)
EXTENDS Integers, Sequences, Functions

CONSTANTS
  Prompt, Conversation, None,
  MaxQueued,      \* 20 in the code
  MaxPauses, MaxOpens, MaxRestarts, MaxDiskFull   \* bounds

ASSUME QueueBounds ==
  {MaxQueued, MaxPauses, MaxOpens, MaxRestarts, MaxDiskFull} \subseteq Nat

VARIABLES
  queue,          \* the queue in memory
  saved,          \* queues.json
  full,           \* the disk is full
  pump,           \* a queued microtask
  flight,         \* the delivery under way (busy), or None
  pane,           \* SessionEvents: open, conv, bound, status, active
  edit,           \* the edit open in the composer, or None
  deferred, told, \* completion held back for the queue, completion announced
  home, early,    \* prompt |-> the conversation it was queued in, prompts queued
                  \* before that had a name
  kept,           \* prompts acknowledged and not removed by the user
  got,            \* prompts the agent received
  again,          \* history: prompts whose last try was a steer that failed behind
                  \* an edit that may still resume the queue
  asked,          \* prompts that may go out without asking the user again
  opens, restarts, fills

disk == <<full, fills>>
ghosts == <<home, early, kept, got, again>>
vars == <<queue, saved, disk, pump, flight, pane, edit, deferred, told, ghosts,
          asked, opens, restarts>>

Queue == [entries : Seq(Prompt), paused : BOOLEAN, version : 0 .. MaxPauses,
          error : BOOLEAN, sending : Prompt \cup {None}, session : Conversation \cup {None}]
Flight ==
  [id : Prompt, steer : BOOLEAN, reached : BOOLEAN, to : Conversation, asked : BOOLEAN]
Edit == [id : Prompt, resume : BOOLEAN, version : 1 .. MaxPauses]
ASSUME NobodyAssumption == None \notin Prompt \cup Conversation \cup Flight \cup Edit

Status == {"idle", "working", "attention", "completed", "error"}
Ids(q) == Range(q.entries)
EmptyQueue == [entries |-> << >>, paused |-> FALSE, version |-> 0, error |-> FALSE,
               sending |-> None, session |-> None]
Closed(c) == [open |-> FALSE, conv |-> c, bound |-> FALSE, status |-> "idle", active |-> "none"]

Init ==
  /\ queue = EmptyQueue /\ saved = EmptyQueue
  /\ full = FALSE /\ fills = 0
  /\ pump = FALSE /\ flight = None /\ edit = None
  /\ \E c \in Conversation : pane = Closed(c)
  /\ deferred = FALSE /\ told = FALSE
  /\ home = [m \in Prompt |-> None] /\ early = {} /\ kept = {} /\ got = {} /\ asked = {}
  /\ again = {}
  /\ opens = 0 /\ restarts = 0

--------------------------------------------------------------------------------
(* Saving and pausing *)

Commit(q) == ~full /\ saved' = q /\ queue' = q
InMemory(q) == full /\ queue' = q /\ UNCHANGED saved

SessionId == IF pane.open /\ pane.bound THEN pane.conv ELSE None
Ready ==
  queue.entries # << >> /\ ~queue.paused /\ pane.open /\ queue.session = SessionId

Paused(q) ==
  IF q.entries = << >> THEN q ELSE [q EXCEPT !.paused = TRUE, !.version = @ + 1]
Unsaved(q) == [q EXCEPT !.paused = TRUE, !.error = TRUE]

(* The queue's "change" listener: an end of the turn that is no success      *)
(* pauses it, a success pumps it.                                            *)
Pauses(status) == status \in {"idle", "error"} /\ queue.entries # << >>
Changed(status) ==
  /\ pump' = (status = "completed")
  /\ IF Pauses(status)
     THEN /\ queue.version < MaxPauses
          /\ asked' = {}
          /\ Commit(Paused(queue)) \/ InMemory(Unsaved(queue))
     ELSE UNCHANGED <<queue, saved, asked>>

--------------------------------------------------------------------------------
(* The session, as SessionEvents reports it *)

SetStatus(status, active) ==
  /\ pane' = [pane EXCEPT !.status = status, !.active = active]
  /\ IF status = pane.status THEN UNCHANGED <<pump, queue, saved, asked>> ELSE Changed(status)

others == <<disk, flight, edit, ghosts, restarts>>

Open(c) ==
  /\ ~pump /\ opens < MaxOpens
  /\ ~pane.open \/ (pane.status = "error" /\ c = pane.conv)
  /\ opens' = opens + 1
  /\ pane' = [Closed(c) EXCEPT !.open = TRUE]
  /\ Changed("idle")
  /\ UNCHANGED <<others, deferred, told>>

Close ==
  /\ ~pump /\ pane.open
  /\ pane' = Closed(pane.conv)
  /\ IF pane.status = "idle" THEN UNCHANGED <<pump, queue, saved, asked>> ELSE Changed("idle")
  /\ UNCHANGED <<others, deferred, told, opens>>

(* bind, and the queue's "bound" listener. *)
Bind ==
  /\ ~pump /\ pane.open /\ ~pane.bound
  /\ pane' = [pane EXCEPT !.bound = TRUE]
  /\ IF queue.session = None /\ ~queue.paused /\ queue.entries # << >>
     THEN Commit([queue EXCEPT !.session = pane.conv]) \/ InMemory(Unsaved(queue))
     ELSE UNCHANGED <<queue, saved>>
  /\ UNCHANGED <<others, pump, asked, deferred, told, opens>>

(* A prompt sent from the composer, which queues it while a turn runs. *)
Send ==
  /\ ~pump /\ pane.open /\ flight = None /\ queue.entries = << >>
  /\ pane.status # "working"
  /\ pane' = [pane EXCEPT !.status = "working", !.active = "running"]
  /\ deferred' = FALSE /\ told' = FALSE
  /\ UNCHANGED <<others, pump, queue, saved, asked, opens>>

(* MUTANT: the completion of a turn with queued prompts behind it is lost. *)
DeferMutant == FALSE
Defer == Ready

(* finish, with an approval still pending or not. *)
Finish(status) ==
  /\ ~pump /\ pane.open /\ pane.active = "running"
  /\ SetStatus(status, "none")
  /\ deferred' = (deferred \/ (status = "completed" /\ Defer))
  /\ told' = (told \/ (status = "completed" /\ ~Ready))
  /\ UNCHANGED <<others, opens>>

Attend ==
  /\ ~pump /\ pane.open /\ pane.status \in {"working", "attention"} /\ pane.active = "running"
  /\ SetStatus(IF pane.status = "working" THEN "attention" ELSE "working", "running")
  /\ UNCHANGED <<others, deferred, told, opens>>

(* interrupt *)
Stop ==
  /\ ~pump /\ pane.open /\ pane.status \in {"working", "attention", "completed"}
  /\ SetStatus("idle", "none")
  /\ UNCHANGED <<others, deferred, told, opens>>

(* The process or the turn fails. *)
Fail ==
  /\ ~pump /\ pane.open /\ pane.status # "error"
  /\ SetStatus("error", "none")
  /\ UNCHANGED <<others, deferred, told, opens>>

(* publish reports what the agent does although no turn is followed any more. *)
Publish ==
  /\ ~pump /\ pane.open /\ pane.active = "none" /\ flight = None
  /\ \/ pane.status = "idle" /\ SetStatus("working", "none")
     \/ pane.status \in {"working", "attention"} /\ SetStatus("idle", "none")
  /\ UNCHANGED <<others, deferred, told, opens>>

--------------------------------------------------------------------------------
(* The user *)

events == <<disk, flight, pane, deferred, got, again, opens, restarts>>

Room == Len(queue.entries) < MaxQueued

Enqueue(m) ==
  /\ ~pump /\ pane.open /\ home[m] = None
  /\ Room
  /\ queue.entries # << >> => queue.session = SessionId
  /\ LET first == queue.entries = << >> IN
     Commit([queue EXCEPT !.entries = Append(@, m), !.session = SessionId,
                          !.paused = @ /\ ~first, !.error = @ /\ ~first])
  /\ pump' = TRUE
  /\ home' = [home EXCEPT ![m] = pane.conv]
  /\ early' = IF pane.bound THEN early ELSE early \cup {m}
  /\ kept' = kept \cup {m} /\ asked' = asked \cup {m}
  /\ UNCHANGED <<events, told, edit>>

Resumed(q) == [q EXCEPT !.paused = FALSE, !.error = FALSE]

MayResume == queue.session = SessionId

Resume ==
  /\ ~pump /\ queue.paused /\ queue.entries # << >> /\ edit = None
  /\ MayResume
  /\ Commit(Resumed(queue))
  /\ pump' = TRUE /\ asked' = Ids(queue)
  /\ UNCHANGED <<events, told, edit, home, early, kept>>

(* MUTANT: what is being sent can be removed. *)
HeldMutant(m) == FALSE
Held(m) == queue.sending = m

(* A message is queued once.                                                 *)
Without(m) ==
  LET at == CHOOSE i \in DOMAIN queue.entries : queue.entries[i] = m IN
  SubSeq(queue.entries, 1, at - 1) \o SubSeq(queue.entries, at + 1, Len(queue.entries))

(* Who removes the last message sees that the turn is over. *)
Remove(m) ==
  /\ ~pump /\ edit = None /\ m \in Ids(queue) /\ ~Held(m)
  /\ Commit([queue EXCEPT !.entries = Without(m)])
  /\ kept' = kept \ {m}
  /\ told' = (told \/ Without(m) = << >>)
  /\ UNCHANGED <<events, edit, pump, home, early, asked>>

Editing(q) == Paused(q)

(* The queue's pause and the edit that opens in the composer are one step.    *)
BeginEdit(m) ==
  /\ ~pump /\ edit = None /\ m \in Ids(queue) /\ ~Held(m)
  /\ queue.version < MaxPauses
  /\ Commit(Editing(queue))
  /\ edit' = [id |-> m, resume |-> ~queue.paused, version |-> queue.version + 1]
  /\ UNCHANGED <<events, told, pump, home, early, kept, asked>>

(* MUTANT: whatever happened during the edit, saving it resumes the queue. *)
StillMineMutant == TRUE
StillMine == edit.version = queue.version

(* save or cancel: the edit is closed first, then the queue resumed. *)
EndEdit ==
  /\ ~pump /\ edit # None
  /\ edit' = None
  /\ \/ /\ edit.resume /\ StillMine /\ MayResume /\ Commit(Resumed(queue))
        /\ pump' = TRUE
     \/ /\ ~(edit.resume /\ StillMine /\ MayResume) \/ full
        /\ UNCHANGED <<queue, saved, pump>>
  /\ UNCHANGED <<events, told, home, early, kept, asked>>

--------------------------------------------------------------------------------
(* Delivery *)

(* MUTANT: a prompt can be delivered to any conversation. *)
MayDeliverMutant == TRUE
MayDeliver == queue.session = SessionId

(* deliver.  Where saving fails the catch cannot save either. *)
Deliver(m, steer, allowed) ==
  /\ MayDeliver
  /\ asked' = IF full THEN asked ELSE asked \ {m}
  /\ \/ /\ Commit([queue EXCEPT !.sending = m]) /\ pane.open
        /\ flight' = [id |-> m, steer |-> steer, reached |-> FALSE, to |-> pane.conv,
                      asked |-> allowed]
        /\ pump' = FALSE
        /\ IF steer THEN UNCHANGED <<pane, deferred, told>>
           ELSE /\ pane' = [pane EXCEPT !.status = "working", !.active = "starting"]
                /\ deferred' = FALSE /\ told' = FALSE
     \/ /\ Commit([queue EXCEPT !.sending = None, !.paused = TRUE, !.error = TRUE])
        /\ pump' = TRUE /\ UNCHANGED <<flight, pane, deferred, told>>
     \/ /\ full /\ UNCHANGED <<queue, saved, flight, pane, deferred, told>>
        /\ pump' = TRUE

Pump ==
  /\ pump
  /\ IF Ready /\ flight = None /\ pane.status \in {"completed", "idle"}
     THEN LET m == Head(queue.entries) IN Deliver(m, FALSE, m \in asked)
     ELSE pump' = FALSE /\ UNCHANGED <<queue, saved, flight, pane, deferred, told, asked>>
  /\ UNCHANGED <<disk, edit, ghosts, opens, restarts>>

Steer(m) ==
  /\ ~pump /\ edit = None /\ m \in Ids(queue)
  /\ pane.status # "attention" /\ flight = None
  /\ Deliver(m, pane.status = "working", TRUE)
  /\ UNCHANGED <<disk, edit, ghosts, opens, restarts>>

Reach ==
  /\ flight # None /\ ~flight.reached
  /\ flight' = [flight EXCEPT !.reached = TRUE]
  /\ got' = got \cup {flight.id}
  /\ pane' = [pane EXCEPT !.active = IF @ = "starting" THEN "running" ELSE @]
  /\ UNCHANGED <<queue, saved, disk, pump, edit, deferred, told, home, early, kept, again,
                 asked, opens, restarts>>

(* MUTANT: deliver does not pump when it is done. *)
PumpAfterMutant == FALSE
PumpAfter == TRUE

Delivered ==
  LET left == Without(flight.id) IN
  /\ ~pump /\ flight # None /\ flight.reached
  /\ flight' = None /\ pump' = PumpAfter
  /\ \/ /\ Commit([queue EXCEPT !.entries = left, !.sending = None])
        /\ deferred' = (deferred /\ left # << >>)
        /\ told' = (told \/ (left = << >> /\ deferred /\ pane.status = "completed"))
     \/ full /\ UNCHANGED <<queue, saved, deferred, told>>
  /\ UNCHANGED <<disk, pane, edit, ghosts, asked, opens, restarts>>

(* The agent refuses, or the connection breaks.  A failed send is published  *)
(* as an error of the session, a failed steer is not.                        *)
Undelivered ==
  LET ends == ~flight.steer /\ pane.open /\ pane.status # "error"
      stopped == IF ends THEN Paused(queue) ELSE queue
  IN
  /\ ~pump /\ flight # None
  /\ queue.version < MaxPauses
  /\ flight' = None /\ pump' = PumpAfter
  /\ pane' = IF ends THEN [pane EXCEPT !.status = "error", !.active = "none"] ELSE pane
  /\ asked' = IF ends THEN {} ELSE asked
  /\ \/ Commit([stopped EXCEPT !.sending = None, !.paused = TRUE, !.error = TRUE])
     \/ InMemory(IF ends THEN Unsaved(queue) ELSE queue)
  /\ again' = IF flight.steer /\ edit # None /\ edit.resume /\ StillMine
              THEN again \cup {flight.id} ELSE again \ {flight.id}
  /\ UNCHANGED <<disk, edit, deferred, told, home, early, kept, got, opens, restarts>>

--------------------------------------------------------------------------------
(* The machine *)

(* MUTANT: what was being sent is put back although it is still there. *)
RestoredTwiceMutant ==
  [saved EXCEPT !.paused = TRUE, !.sending = None,
                !.entries = IF saved.sending = None THEN @ ELSE <<saved.sending>> \o @]
(* MUTANT: what was being sent is taken for sent. *)
RestoredMutant ==
  [saved EXCEPT !.paused = TRUE, !.sending = None,
                !.entries = SelectSeq(@, LAMBDA e : e # saved.sending)]
Restored ==
  [saved EXCEPT !.paused = TRUE, !.error = @ \/ saved.sending # None, !.sending = None]

Restart ==
  /\ restarts < MaxRestarts
  /\ restarts' = restarts + 1
  /\ queue' = Restored
  /\ pump' = FALSE /\ flight' = None /\ edit' = None
  /\ pane' = Closed(pane.conv) /\ deferred' = FALSE /\ told' = FALSE
  /\ asked' = {}
  /\ UNCHANGED <<saved, disk, ghosts, opens>>

Disk ==
  /\ full \/ fills < MaxDiskFull
  /\ full' = ~full
  /\ fills' = IF full THEN fills ELSE fills + 1
  /\ UNCHANGED <<queue, saved, pump, flight, pane, edit, deferred, told, ghosts,
                 asked, opens, restarts>>

Session ==
  \/ \E c \in Conversation : Open(c)
  \/ Close \/ Bind \/ Send
  \/ \E s \in {"completed", "idle", "attention"} : Finish(s)
  \/ Attend \/ Stop \/ Fail \/ Publish
User ==
  \/ \E m \in Prompt : Enqueue(m) \/ Remove(m) \/ BeginEdit(m) \/ Steer(m)
  \/ Resume \/ EndEdit
Delivery == Pump \/ Reach \/ Delivered \/ Undelivered

Next == Session \/ User \/ Delivery \/ Restart \/ Disk

Spec == Init /\ [][Next]_vars

(* Microtasks run, requests are answered, turns and questions come to an end. *)
FairSpec ==
  Spec /\ WF_vars(Pump) /\ WF_vars(Reach) /\ WF_vars(Delivered \/ Undelivered)
       /\ SF_vars(\E s \in {"completed", "idle"} : Finish(s))
       /\ SF_vars(pane.status # "idle" /\ Publish)
       /\ WF_vars(EndEdit)

--------------------------------------------------------------------------------
(* Properties *)

TypeOK ==
  /\ queue \in Queue /\ saved \in Queue
  /\ IsInjective(queue.entries) /\ Len(queue.entries) <= MaxQueued
  /\ {full, pump, deferred, told} \subseteq BOOLEAN
  /\ flight \in Flight \cup {None}
  /\ pane \in [open : BOOLEAN, conv : Conversation, bound : BOOLEAN, status : Status,
               active : {"none", "starting", "running"}]
  /\ edit \in Edit \cup {None}
  /\ home \in [Prompt -> Conversation \cup {None}]
  /\ early \cup kept \cup got \cup again \cup asked \subseteq Prompt

(* Prompts go out in the order they were queued (session-queue.ts:34, 89):   *)
(* the list gains one at its end or loses one that the agent received or the *)
(* user took out, and no pause, edit, failed save or restart reorders it,    *)
(* repeats a prompt or drops one.                                            *)
InOrder ==
  [][\/ queue'.entries = queue.entries
     \/ \E m \in Prompt : home[m] = None /\ queue'.entries = Append(queue.entries, m)
     \/ \E m \in Ids(queue) : (m \in got \/ m \notin kept') /\ queue'.entries = Without(m)]_vars

(* A prompt that was acknowledged is in memory and in queues.json until the  *)
(* agent has it or the user removes it, whatever stops, fails or is queued   *)
(* while it is being delivered (session-queue.ts:25, 89).                    *)
NothingLost == \A m \in kept : m \in got \/ m \in Ids(queue) \cap Ids(saved)

(* What is being delivered is marked as sent and stays in the queue, out of  *)
(* reach of edit, replace and remove; and what was open in the composer      *)
(* before is not sent as it was (session-queue.test.ts:114), given that an   *)
(* edit pauses the queue and opens in one step (BeginEdit).                  *)
InFlightIsHeld ==
  flight # None =>
    /\ queue.sending = flight.id /\ flight.id \in Ids(queue)
    /\ edit = None \/ edit.id # flight.id

(* Nothing goes out by itself that was already tried, or stopped by the user *)
(* or by a failed turn or a restart: that takes a resume or a steer          *)
(* (session-queue.ts:25, 150, session-queue.test.ts:194, 221, 238), as long  *)
(* as every outcome could be saved, and except for a steer that failed while *)
(* an edit begun beside it could still resume the queue: the pause after a   *)
(* failure has no new pauseVersion (session-queue.ts:237), so the end of     *)
(* that edit sends it once more.                                             *)
OnlyWhatWasAsked ==
  fills = 0 /\ flight # None => flight.asked \/ flight.id \in again

(* A prompt goes to the conversation it was written for, if that had a name  *)
(* when it was queued (session-queue.ts:47, 222).                            *)
RightConversation ==
  flight # None /\ flight.id \notin early => flight.to = home[flight.id]

(* The notice of a completed turn is given, or held back for prompts that    *)
(* are still queued behind it, and never dropped (session-queue.test.ts:208; *)
(* a user who removes the last of them needs no notice).                     *)
CompletionIsTold ==
  pane.status = "completed" => told \/ (deferred /\ queue.entries # << >>)

(* An unpaused queue never waits for nobody: a prompt that arrives or ends   *)
(* at any moment is followed by a pump that delivers the next one.  (The     *)
(* last disjunct: the bound on pauses is used up.)                           *)
Drains ==
  (queue.entries # << >> /\ ~queue.paused)
    ~> (queue.entries = << >> \/ queue.paused \/ pane.status = "error" \/ ~pane.open
        \/ queue.version = MaxPauses)

(* A queue that was made in the open conversation can be resumed in it       *)
(* (session-queue.ts:46, 157).                                               *)
NotOrphaned ==
  pane.open /\ pane.bound /\ pane.status # "error" /\ queue.entries # << >>
  /\ (\A m \in Ids(queue) : home[m] = pane.conv) => MayResume

================================================================================
