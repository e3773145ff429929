---------------------------- MODULE AcpSessionManager ----------------------------
(***************************************************************************)
(* Which ACP sessions a host has: AcpSessionManager's maps of running,      *)
(* starting and offline sessions, the table acp_sessions they are saved in, *)
(* and the adapter processes behind them.  What a running session does is   *)
(* AcpSession.                                                             *)
(*                                                                         *)
(* An adapter is a process; the session it mints is named after it.  An    *)
(* action is what runs between two awaits; creations[s].at is the answer   *)
(* createRuntime awaits.  A definition called ...Mutant is a wrong version  *)
(* of the one after it.                                                    *)
(***************************************************************************)
EXTENDS Integers, FiniteSets

CONSTANTS
  Session, Workspace,   \* public session ids, made by clients; workspaces
  Adapter,              \* adapter processes, over all lives of the host
  MAX_DEAD_RUNTIMES,
  MaxRestarts,          \* bound: lives of the host
  None

Record == [workspace : Workspace, acp : Adapter]
Runtime == [workspace : Workspace, acp : Adapter, child : Adapter, dead : BOOLEAN]
Creation == [workspace : Workspace, resume : Adapter \cup {None},
             at : {"cwd", "initialize", "open", "mode", "ready"},
             child : Adapter \cup {None}]
Mode == {"default", "plan", "bypass"}

ASSUME GraveyardAssumption == MAX_DEAD_RUNTIMES \in Nat /\ MaxRestarts \in Nat
ASSUME NoneAssumption == None \notin Adapter \cup Record \cup Runtime \cup Creation
ASSUME FiniteAssumption == IsFiniteSet(Session)

VARIABLES
  runtimes,    \* session |-> its runtime, alive or dead, or None
  creations,   \* session |-> the createRuntime under way, or None
  offline,     \* session |-> the record read at startup, or None
  rows,        \* the table: session |-> record, or None
  proc,        \* adapter |-> "none", "up" or "gone"
  open,        \* adapters whose connection to this host is open
  killed,      \* adapters that were sent a signal
  holds,       \* adapter |-> the ACP session it writes, or None
  mode,        \* adapter |-> its permission mode
  disposal,    \* dispose: "no", "waiting" for the creations, "done"
  zombies,     \* what dispose removed from runtimes, until the exit is seen
  told,        \* session |-> records create ever answered with (history)
  forgot,      \* sessions evicted, or not in the table when it was read (history)
  lost,        \* adapters that closed their connection themselves (history)
  chosen,      \* sessions whose user chose to bypass permissions (history)
  restarts

mapVars == <<runtimes, creations, offline, zombies>>
adapterVars == <<proc, open, killed, holds, mode>>
historyVars == <<told, forgot, lost, chosen>>
vars == <<mapVars, rows, adapterVars, disposal, historyVars, restarts>>

Nothing == [s \in Session |-> None]

Init ==
  /\ runtimes = Nothing /\ creations = Nothing /\ offline = Nothing /\ zombies = Nothing
  /\ rows = Nothing
  /\ proc = [a \in Adapter |-> "none"] /\ open = {} /\ killed = {}
  /\ holds = [a \in Adapter |-> None] /\ mode = [a \in Adapter |-> "default"]
  /\ disposal = "no"
  /\ told = [s \in Session |-> {}] /\ forgot = {} /\ lost = {} /\ chosen = {}
  /\ restarts = 0

RecordOf(r) == [workspace |-> r.workspace, acp |-> r.acp]

\* emitState saves the row; a failure is logged and changes nothing.
Save(s, r) == rows' \in {rows, [rows EXCEPT ![s] = RecordOf(r)]}

LivingTooMutant(map) == {s \in Session : map[s] # None}
Dead(map) == {s \in Session : map[s] # None /\ map[s].dead}

\* markDead ends with evictDeadRuntimes.  updatedAt decides which of the dead goes
\* first: nothing here depends on it, so any of them may.
KeepsAllMutant(map, victims) == victims = {}
Victims(map, victims) ==
  /\ victims \subseteq Dead(map)
  /\ Cardinality(victims) =
       (IF Cardinality(Dead(map)) <= MAX_DEAD_RUNTIMES THEN 0
        ELSE Cardinality(Dead(map)) - MAX_DEAD_RUNTIMES)

Evict(map, victims) ==
  /\ Victims(map, victims)
  /\ runtimes' = [s \in Session |-> IF s \in victims THEN None ELSE map[s]]
  /\ forgot' = forgot \cup victims

--------------------------------------------------------------------------------
(* create and ensureLive, up to their first await *)

Start(s, w, acp) ==
  creations' = [creations EXCEPT ![s] =
    [workspace |-> w, resume |-> acp, at |-> "cwd", child |-> None]]

Tell(s, r) == told' = [told EXCEPT ![s] = @ \cup {RecordOf(r)}]

\* A session that exists is answered with, alive or dead.  One that is being
\* created is waited for (no step here); another workspace is refused.
CreateExisting(s, w) ==
  /\ disposal = "no"
  /\ runtimes[s] # None /\ runtimes[s].workspace = w
  /\ Tell(s, runtimes[s])
  /\ UNCHANGED <<mapVars, rows, adapterVars, disposal, forgot, lost, chosen, restarts>>

LoadsTwiceMutant(s) == runtimes[s] = None /\ offline[s] # None

\* ensureLive: nothing to do for a session that runs; a load under way is shared.
MayResurrect(s) == runtimes[s] = None /\ creations[s] = None /\ offline[s] # None

Resurrect(s) ==
  /\ disposal = "no"
  /\ MayResurrect(s)
  /\ Start(s, offline[s].workspace, offline[s].acp)
  /\ UNCHANGED <<runtimes, offline, zombies, rows, adapterVars, disposal, historyVars,
                 restarts>>

MintsOverOfflineMutant(s) == runtimes[s] = None /\ creations[s] = None
MayMint(s) == runtimes[s] = None /\ creations[s] = None /\ offline[s] = None

CreateNew(s, w) ==
  /\ disposal = "no"
  /\ MayMint(s)
  /\ Start(s, w, None)
  /\ UNCHANGED <<runtimes, offline, zombies, rows, adapterVars, disposal, historyVars,
                 restarts>>

--------------------------------------------------------------------------------
(* createRuntime *)

Goto(s, next) == creations' = [creations EXCEPT ![s].at = next]
Settle(s) == creations' = [creations EXCEPT ![s] = None]
Busy(s, at) == creations[s] # None /\ creations[s].at = at
Up(a) == proc[a] = "up" /\ a \in open

\* resolveWorkspaceCwd throws: the workspace is gone.
CwdFails(s) ==
  /\ Busy(s, "cwd")
  /\ Settle(s)
  /\ UNCHANGED <<runtimes, offline, zombies, rows, adapterVars, disposal, historyVars,
                 restarts>>

Spawn(s, a) ==
  /\ Busy(s, "cwd") /\ proc[a] = "none"
  /\ proc' = [proc EXCEPT ![a] = "up"] /\ open' = open \cup {a}
  /\ creations' = [creations EXCEPT ![s].at = "initialize", ![s].child = a]
  /\ UNCHANGED <<runtimes, offline, zombies, rows, killed, holds, mode, disposal,
                 historyVars, restarts>>

\* initialize is answered; session/load makes the adapter open the transcript.
Initialized(s) ==
  /\ Busy(s, "initialize") /\ Up(creations[s].child)
  /\ Goto(s, "open")
  /\ holds' = [holds EXCEPT ![creations[s].child] = creations[s].resume]
  /\ UNCHANGED <<runtimes, offline, zombies, rows, proc, open, killed, mode, disposal,
                 historyVars, restarts>>

\* Fresh sessions must be in the default mode; of resumed ones only a bypass is undone.
FreshOnlyMutant(resume, m) == resume = None /\ m # "default"
ForceDefault(resume, m) == IF resume = None THEN m # "default" ELSE m = "bypass"

\* session/new or session/load is answered, with the mode the adapter is in.
Opened(s, m) ==
  LET a == creations[s].child IN
  /\ Busy(s, "open") /\ Up(a)
  /\ holds' = [holds EXCEPT ![a] = IF @ = None THEN a ELSE @]
  /\ mode' = [mode EXCEPT ![a] = m]
  /\ Goto(s, IF ForceDefault(creations[s].resume, m) THEN "mode" ELSE "ready")
  /\ UNCHANGED <<runtimes, offline, zombies, rows, proc, open, killed, disposal,
                 historyVars, restarts>>

\* session/set_mode is answered.
Defaulted(s) ==
  /\ Busy(s, "mode") /\ Up(creations[s].child)
  /\ mode' = [mode EXCEPT ![creations[s].child] = "default"]
  /\ Goto(s, "ready")
  /\ UNCHANGED <<runtimes, offline, zombies, rows, proc, open, killed, holds, disposal,
                 historyVars, restarts>>

ClosesOnlyMutant(a) == open' = open \ {a} /\ UNCHANGED killed

\* connection.close() and child.kill().
Drop(a) == open' = open \ {a} /\ killed' = killed \cup {a}

\* A request is answered with an error, or not at all because the adapter is gone.
CreationFails(s) ==
  /\ creations[s] # None /\ creations[s].at \in {"initialize", "open", "mode"}
  /\ Drop(creations[s].child)
  /\ Settle(s)
  /\ UNCHANGED <<runtimes, offline, zombies, rows, proc, holds, mode, disposal, historyVars,
                 restarts>>

\* The last answer has been read.  An adapter that died meanwhile is marked dead
\* first (and room made for it), then the runtime takes its place.
Created(s) ==
  LET c == creations[s]
      made == [workspace |-> c.workspace, acp |-> holds[c.child], child |-> c.child,
               dead |-> ~Up(c.child)]
  IN
  /\ Busy(s, "ready")
  /\ \E victims \in SUBSET Session :
       /\ made.dead \/ victims = {}
       /\ made.dead => Victims(runtimes, victims)
       /\ runtimes' = [r \in Session |->
            IF r = s THEN made ELSE IF r \in victims THEN None ELSE runtimes[r]]
       /\ forgot' = forgot \cup victims
  /\ offline' = [offline EXCEPT ![s] = IF c.resume = None THEN @ ELSE None]
  /\ Settle(s) /\ Save(s, made) /\ Tell(s, made)
  /\ chosen' = chosen \ {s}
  /\ UNCHANGED <<zombies, adapterVars, disposal, lost, restarts>>

--------------------------------------------------------------------------------
(* Running sessions and their adapters *)

\* A title, a mode, the end of a turn: emitState, after death as well as before.
Emit(s) ==
  /\ runtimes[s] # None
  /\ Save(s, runtimes[s])
  /\ UNCHANGED <<mapVars, adapterVars, disposal, historyVars, restarts>>

SetMode(s, m) ==
  /\ runtimes[s] # None /\ ~runtimes[s].dead /\ Up(runtimes[s].child)
  /\ mode' = [mode EXCEPT ![runtimes[s].child] = m]
  /\ chosen' = IF m = "bypass" THEN chosen \cup {s} ELSE chosen \ {s}
  /\ Save(s, runtimes[s])
  /\ UNCHANGED <<mapVars, proc, open, killed, holds, disposal, told, forgot, lost,
                 restarts>>

\* markDead, once per runtime; one that dispose removed is saved and no more.
MarkDead(a) ==
  LET dying == {s \in Session : runtimes[s] # None /\ runtimes[s].child = a
                                /\ ~runtimes[s].dead}
      ended == {s \in Session : zombies[s] # None /\ zombies[s].child = a}
  IN
  \/ \E s \in dying, victims \in SUBSET Session :
       /\ Evict([runtimes EXCEPT ![s].dead = TRUE], victims)
       /\ Save(s, runtimes[s])
       /\ UNCHANGED zombies
  \/ /\ dying = {}
     /\ \E s \in ended :
          /\ Save(s, zombies[s])
          /\ zombies' = [zombies EXCEPT ![s] = None]
     /\ UNCHANGED <<runtimes, forgot>>
  \/ dying = {} /\ ended = {} /\ UNCHANGED <<runtimes, forgot, rows, zombies>>

\* The process exits by itself or after a signal; its pipes close with it.
Exit(a) ==
  /\ proc[a] = "up"
  /\ proc' = [proc EXCEPT ![a] = "gone"] /\ open' = open \ {a}
  /\ MarkDead(a)
  /\ UNCHANGED <<creations, offline, killed, holds, mode, disposal, told, lost, chosen,
                 restarts>>

\* Its connection closes and the process stays; nothing kills it then.
Disconnect(a) ==
  /\ Up(a)
  /\ open' = open \ {a} /\ lost' = lost \cup {a}
  /\ MarkDead(a)
  /\ UNCHANGED <<creations, offline, proc, killed, holds, mode, disposal, told, chosen,
                 restarts>>

--------------------------------------------------------------------------------
(* The end of the manager *)

\* Only tests dispose of a manager, and then ask nothing more of it.
Dispose ==
  /\ disposal = "no"
  /\ disposal' = "waiting"
  /\ UNCHANGED <<mapVars, rows, adapterVars, historyVars, restarts>>

AllSettled == creations = Nothing

Disposed ==
  /\ disposal = "waiting" /\ AllSettled
  /\ disposal' = "done"
  /\ LET children == {runtimes[s].child : s \in {r \in Session : runtimes[r] # None}} IN
     /\ open' = open \ children /\ killed' = killed \cup children
  /\ zombies' = [s \in Session |->
       IF runtimes[s] # None /\ ~runtimes[s].dead THEN runtimes[s] ELSE None]
  /\ runtimes' = Nothing
  /\ UNCHANGED <<creations, offline, rows, proc, holds, mode, historyVars, restarts>>

\* The host process ends, disposed or not, and another one starts: it reads the table,
\* or goes without when that fails.  The old adapters lose their connection.
Restart(read) ==
  /\ restarts < MaxRestarts
  /\ restarts' = restarts + 1
  /\ runtimes' = Nothing /\ creations' = Nothing /\ zombies' = Nothing
  /\ offline' = IF read THEN rows ELSE Nothing
  /\ open' = {} /\ lost' = lost \cup open
  /\ disposal' = "no"
  /\ forgot' = forgot \cup {s \in Session : told[s] # {} /\ offline'[s] = None}
  /\ chosen' = {}
  /\ UNCHANGED <<rows, proc, killed, holds, mode, told>>

Next ==
  \/ \E s \in Session, w \in Workspace : CreateExisting(s, w) \/ CreateNew(s, w)
  \/ \E s \in Session : \/ Resurrect(s) \/ CwdFails(s) \/ Initialized(s) \/ Defaulted(s)
                        \/ CreationFails(s) \/ Created(s) \/ Emit(s)
                        \/ \E m \in Mode : Opened(s, m) \/ SetMode(s, m)
                        \/ \E a \in Adapter : Spawn(s, a)
  \/ \E a \in Adapter : Exit(a) \/ Disconnect(a)
  \/ Dispose \/ Disposed
  \/ \E read \in BOOLEAN : Restart(read)

Spec == Init /\ [][Next]_vars

--------------------------------------------------------------------------------
(* Properties *)

\* The maps, the table and the processes are what the code can write or start.
TypeOK ==
  /\ runtimes \in [Session -> Runtime \cup {None}]
  /\ zombies \in [Session -> Runtime \cup {None}]
  /\ creations \in [Session -> Creation \cup {None}]
  /\ offline \in [Session -> Record \cup {None}]
  /\ rows \in [Session -> Record \cup {None}]
  /\ proc \in [Adapter -> {"none", "up", "gone"}]
  /\ open \subseteq Adapter /\ killed \subseteq Adapter
  /\ holds \in [Adapter -> Adapter \cup {None}]
  /\ mode \in [Adapter -> Mode]
  /\ disposal \in {"no", "waiting", "done"}
  /\ told \in [Session -> SUBSET Record]
  /\ forgot \subseteq Session /\ lost \subseteq Adapter /\ chosen \subseteq Session
  /\ restarts \in Nat

\* resurrectRuntime, createRuntime: whatever clients ask at the same time and whatever
\* fails, no two adapters of this host write the transcript of one ACP session.
OneWriter ==
  \A a, b \in Adapter : Up(a) /\ Up(b) /\ holds[a] = holds[b] /\ holds[a] # None => a = b

Known(s) ==
  IF runtimes[s] # None THEN {RecordOf(runtimes[s])}
  ELSE IF offline[s] # None THEN {offline[s]} ELSE {}

\* acp-sessions.md "Create is idempotent", "Their registry rows remain": a session a
\* client was told of can be found with the workspace and the transcript it was told
\* of, alive, dead or offline, through failed loads and restarts; except one that the
\* graveyard evicted or whose row could not be written or read.
StillThere ==
  disposal # "done" => \A s \in Session \ forgot : told[s] # {} => Known(s) = told[s]

\* createRuntime's catch block, dispose ("Kill every adapter process"): an adapter that
\* runs belongs to a session that is known or being created, or was told to stop; except
\* one that closed its own connection, which nobody kills once its session is evicted.
NoStray ==
  \A a \in Adapter : proc[a] = "up" /\ a \notin killed \cup lost =>
    /\ disposal # "done"
    /\ \E s \in Session : \/ runtimes[s] # None /\ runtimes[s].child = a
                          \/ creations[s] # None /\ creations[s].child = a

\* evictDeadRuntimes: at most one dead session more than the limit is kept, the one
\* that died while it was being created; nothing that lives is ever evicted.
Graveyard ==
  /\ Cardinality(Dead(runtimes)) <= MAX_DEAD_RUNTIMES + 1
  /\ \A s \in Session : runtimes[s] # None /\ ~Up(runtimes[s].child) => runtimes[s].dead

\* createRuntime ("a Superset session must never sit in bypass unless the user chose
\* it"): a session that takes prompts bypasses permissions only if its user said so in
\* this life of the host.
Unbypassed ==
  \A s \in Session :
    runtimes[s] # None /\ ~runtimes[s].dead /\ mode[runtimes[s].child] = "bypass"
      => s \in chosen

\* createRuntime, evictDeadRuntimes and the exit handlers work on the maps of all
\* sessions: a session that lives keeps its runtime, its adapter and its transcript
\* through whatever other sessions do, fail at or die of, until its own adapter ends
\* or the host does.
Undisturbed ==
  [][\A s \in Session : runtimes[s] # None /\ ~runtimes[s].dead =>
       LET a == runtimes[s].child IN
       \/ proc'[a] = "gone" \/ a \in lost' \ lost \/ disposal' = "done"
       \/ /\ runtimes'[s] = runtimes[s] /\ holds'[a] = holds[a]
          /\ Up(a)' /\ a \notin killed' \ killed]_vars
================================================================================
