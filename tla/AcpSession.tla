------------------------------- MODULE AcpSession -------------------------------
(***************************************************************************)
(* One running session of AcpSessionManager: turns, parked permission       *)
(* requests and question cards, tool calls and the death of the adapter.    *)
(*                                                                         *)
(* Every handler runs to its end without yielding, promise callbacks        *)
(* included, so each is one action; the adapter, its process and the        *)
(* clients interleave freely.  The journal is kept as what a reader folds   *)
(* out of it: `shown`, `verdicts` and the last state frame.                 *)
(* The adapter is external.  A tidy one reports and asks only inside a      *)
(* turn, asks about a tool it has announced, waits for the answer, and ends  *)
(* no turn with a request open.                                            *)
(***************************************************************************)
EXTENDS Integers, FiniteSets, Sequences

CONSTANTS
  Tool,          \* tool call ids of the adapter
  Form,          \* ids of tool rows made up for elicitations without one
  Questions,     \* bound: questions of one elicitation
  MaxPrompts, MaxRequests    \* bounds: turns, parked requests and cards

ASSUME SessionBounds == {Questions, MaxPrompts, MaxRequests} \subseteq Nat

VARIABLES
  tidy,          \* what kind of adapter this is
  dead,
  link,          \* "open", "exited": the process is gone but its output is not
                 \* read to the end, "closed": it is
  prompts,       \* turns whose session/prompt is unanswered (activePromptCount)
  asked,         \* turns started so far; a turn is its number
  parked,        \* pendingResolvers and pendingPermissions: [id, tool, left]
  issued,        \* requests parked so far; a request is its number
  open,          \* openToolCalls
  lastError,     \* NoError, Died, or the turn that failed
  shown,         \* tool |-> its row in the folded journal
  verdicts,      \* request |-> outcomes journaled and sent to the adapter
  won,           \* request |-> clients told that their answer resolved it
  published      \* the last state frame

vars == <<tidy, dead, link, prompts, asked, parked, issued, open, lastError, shown,
          verdicts, won, published>>

NoError == 0
Died == MaxPrompts + 1
Row == {"none", "running", "ended"}
Outcome == {"selected", "cancelled"}

(* MUTANT: a turn that is unanswered counts for more than the death. *)
StatusMutant(d, pk, pr) ==
  CASE pk # {} -> "awaiting_permission"
    [] pk = {} /\ pr # {} -> "running"
    [] OTHER -> IF d THEN "dead" ELSE "idle"

(* computeStatus *)
Status(d, pk, pr) ==
  CASE d -> "dead"
    [] ~d /\ pk # {} -> "awaiting_permission"
    [] ~d /\ pk = {} /\ pr # {} -> "running"
    [] OTHER -> "idle"

Frame(d, pk, pr, e) ==
  [status |-> Status(d, pk, pr), pending |-> {r.id : r \in pk}, error |-> e]

(* syncStatus({ force: true }) and emitState. *)

(* MUTANT: only a change of status is emitted. *)
EmitStateMutant(d, pk, pr, e) ==
  published' = IF Status(d, pk, pr) = published.status THEN published
               ELSE Frame(d, pk, pr, e)
EmitState(d, pk, pr, e) == published' = Frame(d, pk, pr, e)

Init ==
  /\ tidy \in BOOLEAN
  /\ dead = FALSE /\ link = "open"
  /\ prompts = {} /\ asked = 0
  /\ parked = {} /\ issued = 0
  /\ open = {} /\ lastError = NoError
  /\ shown = [t \in Tool \cup Form |-> "none"]
  /\ verdicts = << >> /\ won = << >>
  /\ published = Frame(FALSE, {}, {}, NoError)

--------------------------------------------------------------------------------
(* Turns *)

Prompt ==
  /\ ~dead /\ asked < MaxPrompts
  /\ asked' = asked + 1
  /\ prompts' = prompts \cup {asked + 1}
  /\ lastError' = NoError
  /\ EmitState(dead, parked, prompts', NoError)
  /\ UNCHANGED <<tidy, dead, link, parked, issued, open, shown, verdicts, won>>

(* terminalizeOpenToolCalls, on top of the rows s. *)
Terminalized(s) == [t \in DOMAIN s |-> IF t \in open THEN "ended" ELSE s[t]]

(* MUTANT: a turn that ends leaves its tool calls as they are. *)
LastTurnMutant(p) == FALSE
LastTurn(p) == prompts = {p}

(* The finally of prompt. *)
TurnEnds(p) ==
  /\ prompts' = prompts \ {p}
  /\ shown' = IF LastTurn(p) THEN Terminalized(shown) ELSE shown
  /\ open' = IF LastTurn(p) THEN {} ELSE open
  /\ EmitState(dead, parked, prompts', lastError')
  /\ UNCHANGED <<tidy, dead, link, asked, parked, issued, verdicts, won>>

Return(p) ==
  /\ p \in prompts /\ link # "closed"
  /\ tidy => parked = {} \/ ~LastTurn(p)
  /\ UNCHANGED lastError
  /\ TurnEnds(p)

(* An error answer, or no answer any more. *)
Reject(p) ==
  /\ p \in prompts
  /\ tidy => parked = {} \/ ~LastTurn(p)
  /\ lastError' = IF dead THEN lastError ELSE p
  /\ TurnEnds(p)

--------------------------------------------------------------------------------
(* Tool calls *)

Update(t, row) ==
  /\ link # "closed"
  /\ tidy => prompts # {}
  /\ tidy => \A r \in parked : r.tool # t
  /\ shown' = [shown EXCEPT ![t] = row]
  /\ open' = IF row = "ended" THEN open \ {t} ELSE open \cup {t}
  /\ UNCHANGED <<tidy, dead, link, prompts, asked, parked, issued, lastError, verdicts,
                 won, published>>

--------------------------------------------------------------------------------
(* Permissions and questions *)

(* A card with `left` more questions behind it.  Its permission_requested    *)
(* frame shows the tool as pending.                                          *)

Card(t, left) == [id |-> issued + 1, tool |-> t, left |-> left]
Parked(t, left) ==
  /\ issued < MaxRequests
  /\ issued' = issued + 1
  /\ verdicts' = Append(verdicts, << >>) /\ won' = Append(won, 0)
  /\ shown' = [shown EXCEPT ![t] = "running"]

Announced(t) == tidy => prompts # {} /\ t \in open

(* parkPermission and parkElicitation; a dead session cancels at once. *)
Ask(t, left) ==
  /\ link # "closed" /\ ~dead
  /\ \/ t \in Tool /\ Announced(t)
     \/ t \in Form /\ shown[t] = "none" /\ (tidy => prompts # {})
  /\ Parked(t, left)
  /\ parked' = parked \cup {Card(t, left)}
  /\ EmitState(dead, parked', prompts, lastError)
  /\ UNCHANGED <<tidy, dead, link, prompts, asked, open, lastError>>

(* settlePermission of the requests rs.  An elicitation that ends closes the *)
(* row it made up (finish).                                                  *)
Verdicts(rs, o) ==
  [i \in DOMAIN verdicts |->
     IF \E r \in rs : r.id = i THEN Append(verdicts[i], o) ELSE verdicts[i]]
Finished(s, rs) ==
  [t \in DOMAIN s |-> IF t \in Form /\ \E r \in rs : r.tool = t THEN "ended" ELSE s[t]]
Settle(rs, o) ==
  /\ parked' = parked \ rs
  /\ verdicts' = Verdicts(rs, o)
  /\ shown' = Finished(shown, rs)
  /\ EmitState(dead, parked', prompts, lastError)
  /\ UNCHANGED <<tidy, dead, link, prompts, asked, issued, open, lastError>>

(* The next question of an elicitation takes the place of the answered one. *)
NextQuestion(r) ==
  /\ issued < MaxRequests
  /\ issued' = issued + 1
  /\ parked' = (parked \ {r}) \cup {Card(r.tool, r.left - 1)}
  /\ verdicts' = Append(Verdicts({r}, "selected"), << >>)
  /\ shown' = [shown EXCEPT ![r.tool] = "running"]
  /\ EmitState(dead, parked', prompts, lastError)
  /\ UNCHANGED <<tidy, dead, link, prompts, asked, open, lastError>>

(* MUTANT: an answer counts although the request was settled before. *)
StillParkedMutant(i) == {[id |-> i, tool |-> CHOOSE t \in Tool : TRUE, left |-> 0]}
StillParked(i) == {r \in parked : r.id = i}

(* respondToPermission, with the id of any request a client ever saw. *)
Respond(i, o) ==
  /\ ~dead
  /\ \A r \in StillParked(i) :
       /\ won' = [won EXCEPT ![i] = @ + 1] \o
                 (IF o = "selected" /\ r.left > 0 THEN <<0>> ELSE << >>)
       /\ IF o = "selected" /\ r.left > 0 THEN NextQuestion(r) ELSE Settle({r}, o)
  /\ StillParked(i) = {} => UNCHANGED vars

(* cancel *)
Cancel ==
  /\ ~dead /\ parked # {}
  /\ Settle(parked, "cancelled")
  /\ UNCHANGED won

(* The adapter withdraws a request. *)
Abort(r) ==
  /\ r \in parked /\ link # "closed"
  /\ Settle({r}, "cancelled")
  /\ UNCHANGED won

--------------------------------------------------------------------------------
(* Death *)

(* MUTANT: what clients were asked stays open. *)
LeftOpenMutant == {}
LeftOpen == parked

MarkDead ==
  /\ dead' = TRUE
  /\ IF dead
     THEN UNCHANGED <<parked, verdicts, shown, open, lastError, published>>
     ELSE /\ parked' = parked \ LeftOpen
          /\ verdicts' = Verdicts(LeftOpen, "cancelled")
          /\ shown' = Terminalized(Finished(shown, LeftOpen)) /\ open' = {}
          /\ lastError' = Died
          /\ EmitState(TRUE, parked', prompts, Died)
  /\ UNCHANGED <<tidy, prompts, asked, issued, won>>

(* The exit event may precede the last output of the process. *)
Exit == link = "open" /\ link' = "exited" /\ MarkDead

Close == link # "closed" /\ link' = "closed" /\ MarkDead

Next ==
  \/ Prompt \/ \E p \in prompts : Return(p) \/ Reject(p)
  \/ \E t \in Tool, row \in {"running", "ended"} : Update(t, row)
  \/ \E t \in Tool \cup Form, left \in 0 .. Questions - 1 : Ask(t, left)
  \/ \E i \in 1 .. issued, o \in Outcome : Respond(i, o)
  \/ Cancel \/ \E r \in parked : Abort(r)
  \/ Exit \/ Close

Spec == Init /\ [][Next]_vars

(* The output of a process that exited comes to an end, and then its         *)
(* unanswered requests are rejected.                                         *)
FairSpec == Spec /\ WF_vars(link = "exited" /\ Close)
                 /\ WF_vars(link = "closed" /\ \E p \in prompts : Reject(p))

--------------------------------------------------------------------------------
(* Properties *)

TypeOK ==
  /\ {tidy, dead} \subseteq BOOLEAN /\ link \in {"open", "exited", "closed"}
  /\ asked \in 0 .. MaxPrompts /\ prompts \subseteq 1 .. asked
  /\ issued \in 0 .. MaxRequests
  /\ parked \subseteq [id : 1 .. issued, tool : Tool \cup Form, left : 0 .. Questions - 1]
  /\ open \subseteq Tool
  /\ lastError \in {NoError, Died} \cup 1 .. asked
  /\ shown \in [Tool \cup Form -> Row]
  /\ verdicts \in [1 .. issued -> Seq(Outcome)] /\ won \in [1 .. issued -> Nat]

(* First answer wins: a request is open exactly as long as it has no verdict, *)
(* gets one verdict whoever answers, cancels, aborts or dies, and at most one *)
(* client is told that its answer did it (acp-sessions.ts:429, 1138).         *)
FirstAnswerWins ==
  \A i \in 1 .. issued :
    /\ Len(verdicts[i]) = IF \E r \in parked : r.id = i THEN 0 ELSE 1
    /\ won[i] <= Len(verdicts[i])

(* The newest state frame tells the truth between any two steps: its status, *)
(* the requests a client can answer and the error (acp-sessions.ts:1188).    *)
PublishedIsTrue == published = Frame(dead, parked, prompts, lastError)

(* When the last turn has ended no row is left running, however the turn     *)
(* ended and whoever asked or died in it (acp-sessions.ts:142-146).          *)
NothingOutlivesTheTurn ==
  tidy /\ prompts = {} => \A t \in DOMAIN shown : shown[t] # "running"

(* A request that has its verdict keeps it, and who was told of it, through  *)
(* every later answer, cancel, abort, turn and death; a client never learns  *)
(* two outcomes of one request (acp-sessions.ts:429, 1138).                  *)
VerdictsFinal ==
  [][\A i \in 1 .. issued : verdicts[i] # << >> =>
       verdicts'[i] = verdicts[i] /\ won'[i] = won[i]]_vars

(* Death is final: output that is still read, turns that are rejected and    *)
(* clients that answer afterwards ask nothing, settle nothing and neither    *)
(* replace the cause of death nor show the session as anything but dead      *)
(* (acp-sessions.ts:874).                                                    *)
DeathIsFinal ==
  [][dead => /\ dead' /\ parked' = {} /\ verdicts' = verdicts
             /\ prompts' \subseteq prompts /\ lastError' = lastError
             /\ published'.status = "dead"]_vars

(* The death of the adapter ends every turn and every request, and the rows  *)
(* of a tidy one, and the session is shown as dead (acp-sessions.ts:874).    *)
DeathSettlesAll ==
  dead ~> /\ prompts = {} /\ parked = {} /\ published.status = "dead"
          /\ tidy => \A t \in DOMAIN shown : shown[t] # "running"

================================================================================
