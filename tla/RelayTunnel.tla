------------------------------ MODULE RelayTunnel ------------------------------
(***************************************************************************)
(* How a host stays reachable through the relay: the tunnel sockets it opens *)
(* to relay machines, TunnelManager on each machine, the directory the      *)
(* machines share in Redis, and the requests and channels of clients.       *)
(* Nothing in the code relates two hosts, so there is one.                   *)
(*                                                                         *)
(* A call of the directory takes effect, if at all, before its answer.  A   *)
(* definition called ...Mutant is a wrong version of the one after it.      *)
(***************************************************************************)
EXTENDS Integers, FiniteSets

CONSTANTS
  Machine, Socket,      \* relay machines; tunnel sockets, over all time
  Request, Channel,     \* what clients ask of the host through the tunnel
  MAX_PENDING_REQUESTS_PER_TUNNEL,
  MaxCrashes,           \* bound: relay processes killed
  None

Call == Request \cup Channel

ASSUME RelayAssumption ==
  /\ None \notin Machine \cup Socket
  /\ Request \cap Channel = {}
  /\ MAX_PENDING_REQUESTS_PER_TUNNEL \in Nat /\ MaxCrashes \in Nat

VARIABLES
  on,          \* socket |-> its machine, or None before it is opened
  at,          \* socket |-> where its onOpen is
  ready,       \* socket |-> "open"; "closing": its close event is to come; "closed"
  landed,      \* sockets whose directory entry was written
  tunnel,      \* machine |-> the socket in its map of tunnels, or None
  waiting,     \* call |-> the socket in whose tunnel it waits, or None
  owner,       \* the directory: the machine it names, or None
  stale,       \* the entry was not refreshed for TTL_GRACE_MS
  flights,     \* machine |-> directory.unregister calls nobody waits for
  leaked,      \* a call that should have removed the entry failed (history)
  up,          \* machines whose relay runs
  drain,       \* machine |-> "no", "waiting" for the directory, "cleared", "done"
  crashes

socketVars == <<on, at, ready, landed>>
managerVars == <<tunnel, waiting, flights>>
directoryVars == <<owner, stale, leaked>>
processVars == <<up, drain, crashes>>
vars == <<socketVars, managerVars, directoryVars, processVars>>

Init ==
  /\ on = [w \in Socket |-> None] /\ at = [w \in Socket |-> "unused"]
  /\ ready = [w \in Socket |-> "closed"] /\ landed = {}
  /\ tunnel = [m \in Machine |-> None] /\ waiting = [c \in Call |-> None]
  /\ flights = [m \in Machine |-> 0]
  /\ owner = None /\ stale = FALSE /\ leaked = FALSE
  /\ up = Machine /\ drain = [m \in Machine |-> "no"] /\ crashes = 0

--------------------------------------------------------------------------------
(* The directory *)

\* REGISTER_SCRIPT
Write(m) == owner' = m /\ stale' = FALSE /\ leaked' = FALSE

\* UNREGISTER_SCRIPT, and the share of CLEAR_STALE_SCRIPT: only the machine's own entry.
Remove(m) ==
  IF owner = m THEN owner' = None /\ stale' = FALSE /\ leaked' = FALSE
  ELSE UNCHANGED directoryVars

\* The same, or an error that is logged.
TryRemove(m) ==
  \/ Remove(m)
  \/ leaked' = (leaked \/ owner = m) /\ UNCHANGED <<owner, stale>>

\* heartbeat, after a pong: whoever the entry names.
Refresh == stale' = FALSE /\ UNCHANGED <<owner, leaked>>

Expires ==
  /\ owner # None /\ ~stale
  /\ stale' = TRUE
  /\ UNCHANGED <<socketVars, managerVars, owner, leaked, processVars>>

\* sweepStale, on any machine.
Sweeps ==
  /\ stale /\ up # {}
  /\ owner' = None /\ stale' = FALSE /\ leaked' = FALSE
  /\ UNCHANGED <<socketVars, managerVars, processVars>>

--------------------------------------------------------------------------------
(* Tunnels *)

ClosesOnlyMutant(w) ==
  /\ ready' = [v \in Socket |-> IF v = w /\ ready[v] = "open" THEN "closing" ELSE ready[v]]
  /\ UNCHANGED waiting

\* disposeTunnel: what waits is told, the socket is closed.
DisposeTunnel(w) ==
  /\ ready' = [v \in Socket |-> IF v = w /\ ready[v] = "open" THEN "closing" ELSE ready[v]]
  /\ waiting' = [c \in Call |-> IF waiting[c] = w THEN None ELSE waiting[c]]

Hang(w) == ready' = [ready EXCEPT ![w] = IF @ = "open" THEN "closing" ELSE @]

Connect(w, m) ==
  /\ at[w] = "unused" /\ m \in up /\ drain[m] = "no"
  /\ on' = [on EXCEPT ![w] = m]
  /\ at' = [at EXCEPT ![w] = "auth"]
  /\ ready' = [ready EXCEPT ![w] = "open"]
  /\ UNCHANGED <<landed, managerVars, directoryVars, processVars>>

\* The token or the access is refused, or the relay has begun to drain.
Denied(w) ==
  /\ at[w] = "auth"
  /\ at' = [at EXCEPT ![w] = "over"] /\ Hang(w)
  /\ UNCHANGED <<on, landed, managerVars, directoryVars, processVars>>

\* register, until it awaits the directory; its socket may have closed before.
Register(w) ==
  /\ at[w] = "auth" /\ drain[on[w]] = "no"
  /\ at' = [at EXCEPT ![w] = "registering"]
  /\ DisposeTunnel(tunnel[on[w]])
  /\ tunnel' = [tunnel EXCEPT ![on[w]] = None]
  /\ UNCHANGED <<on, landed, flights, directoryVars, processVars>>

\* One of three attempts; when its answer is lost, another one may follow.
Lands(w) ==
  /\ at[w] = "registering"
  /\ Write(on[w]) /\ landed' = landed \cup {w}
  /\ UNCHANGED <<on, at, ready, managerVars, processVars>>

\* The last attempt failed, which nothing makes good: an entry may be left.
Refused(w) ==
  /\ at[w] = "registering"
  /\ at' = [at EXCEPT ![w] = "over"] /\ Hang(w)
  /\ leaked' = (leaked \/ owner = on[w])
  /\ UNCHANGED <<on, landed, managerVars, owner, stale, processVars>>

Usable(w) == ready[w] = "open" /\ drain[on[w]] = "no"

KeepsRacerMutant(w) == UNCHANGED <<ready, waiting>>

\* Another socket may have become the tunnel meanwhile.
DisposeRaced(w) == DisposeTunnel(tunnel[on[w]])

Registered(w) ==
  /\ at[w] = "registering" /\ w \in landed /\ Usable(w)
  /\ DisposeRaced(w)
  /\ tunnel' = [tunnel EXCEPT ![on[w]] = w]
  /\ at' = [at EXCEPT ![w] = "registered"]
  /\ UNCHANGED <<on, landed, flights, directoryVars, processVars>>

ForgetsEntryMutant(w) == "over"
AfterUnusable(w) == "rollback"

\* The close event came before registeredWs was set and did nothing.
GoesBack(w) ==
  /\ at[w] = "registering" /\ w \in landed /\ ~Usable(w)
  /\ at' = [at EXCEPT ![w] = AfterUnusable(w)]
  /\ UNCHANGED <<on, ready, landed, managerVars, directoryVars, processVars>>

RolledBack(w) ==
  /\ at[w] = "rollback"
  /\ TryRemove(on[w])
  /\ at' = [at EXCEPT ![w] = "over"]
  /\ IF drain[on[w]] # "no" THEN Hang(w) ELSE UNCHANGED ready
  /\ UNCHANGED <<on, landed, managerVars, processVars>>

\* The host, the network or the third unanswered ping ends a connection.
Closes(w) ==
  /\ ready[w] = "open"
  /\ Hang(w)
  /\ UNCHANGED <<on, at, landed, managerVars, directoryVars, processVars>>

AnySocketMutant(w) == at[w] = "registered" /\ tunnel[on[w]] # None

\* unregister: only the socket that is still the tunnel.
Ends(w) == at[w] = "registered" /\ tunnel[on[w]] = w

\* The close event; before onOpen has registered the socket it does nothing.
OnClose(w) ==
  /\ ready[w] = "closing"
  /\ IF Ends(w)
       THEN LET t == tunnel[on[w]] IN
            /\ ready' = [v \in Socket |-> IF v = w THEN "closed"
                           ELSE IF v = t /\ ready[v] = "open" THEN "closing" ELSE ready[v]]
            /\ waiting' = [c \in Call |-> IF waiting[c] = t THEN None ELSE waiting[c]]
            /\ tunnel' = [tunnel EXCEPT ![on[w]] = None]
            /\ flights' = [flights EXCEPT ![on[w]] = @ + 1]
       ELSE /\ ready' = [ready EXCEPT ![w] = "closed"]
            /\ UNCHANGED managerVars
  /\ UNCHANGED <<on, at, landed, directoryVars, processVars>>

Unregistered(m) ==
  /\ flights[m] > 0
  /\ flights' = [flights EXCEPT ![m] = @ - 1]
  /\ TryRemove(m)
  /\ UNCHANGED <<socketVars, tunnel, waiting, processVars>>

--------------------------------------------------------------------------------
(* Calls of clients *)

Ask(r, m) ==
  /\ waiting[r] = None /\ tunnel[m] # None
  /\ Cardinality({q \in Request : waiting[q] = tunnel[m]}) < MAX_PENDING_REQUESTS_PER_TUNNEL
  /\ waiting' = [waiting EXCEPT ![r] = tunnel[m]]
  /\ UNCHANGED <<socketVars, tunnel, flights, directoryVars, processVars>>

OpenChannel(c, m) ==
  /\ waiting[c] = None /\ tunnel[m] # None /\ ready[tunnel[m]] = "open"
  /\ waiting' = [waiting EXCEPT ![c] = tunnel[m]]
  /\ UNCHANGED <<socketVars, tunnel, flights, directoryVars, processVars>>

Heard(w) == at[w] = "registered" /\ ready[w] # "closed"

\* http:response, ws:close: looked up in the tunnel of now, whatever brought it.
Answer(c, w) ==
  /\ Heard(w)
  /\ waiting[c] # None /\ waiting[c] = tunnel[on[w]]
  /\ waiting' = [waiting EXCEPT ![c] = None]
  /\ UNCHANGED <<socketVars, tunnel, flights, directoryVars, processVars>>

\* The request's timer fires; the client closes its channel.
GiveUp(c) ==
  /\ waiting[c] # None
  /\ waiting' = [waiting EXCEPT ![c] = None]
  /\ UNCHANGED <<socketVars, tunnel, flights, directoryVars, processVars>>

Pong(w) ==
  /\ Heard(w) /\ tunnel[on[w]] # None
  /\ owner # None /\ Refresh
  /\ UNCHANGED <<socketVars, managerVars, processVars>>

--------------------------------------------------------------------------------
(* Relay processes *)

\* SIGTERM; the hosts are told.
Drain(m) ==
  /\ m \in up /\ drain[m] = "no"
  /\ drain' = [drain EXCEPT ![m] = "waiting"]
  /\ UNCHANGED <<socketVars, managerVars, directoryVars, up, crashes>>

\* clearDirectory
Cleared(m) ==
  /\ m \in up /\ drain[m] = "waiting"
  /\ drain' = [drain EXCEPT ![m] = "cleared"]
  /\ TryRemove(m)
  /\ UNCHANGED <<socketVars, managerVars, up, crashes>>

\* It is answered; no tunnel was added since drain took its list.
Drained(m) ==
  /\ m \in up /\ drain[m] = "cleared"
  /\ drain' = [drain EXCEPT ![m] = "done"]
  /\ DisposeTunnel(tunnel[m])
  /\ tunnel' = [tunnel EXCEPT ![m] = None]
  /\ UNCHANGED <<on, at, landed, flights, directoryVars, up, crashes>>

\* The process ends, with its sockets and what waits for an answer through it.
Stop(m) ==
  /\ m \in up
  /\ drain[m] # "done" => crashes < MaxCrashes
  /\ crashes' = IF drain[m] = "done" THEN crashes ELSE crashes + 1
  /\ up' = up \ {m} /\ drain' = [drain EXCEPT ![m] = "no"]
  /\ at' = [w \in Socket |-> IF on[w] = m THEN "over" ELSE at[w]]
  /\ ready' = [w \in Socket |-> IF on[w] = m THEN "closed" ELSE ready[w]]
  /\ waiting' = [c \in Call |->
       IF waiting[c] # None /\ on[waiting[c]] = m THEN None ELSE waiting[c]]
  /\ tunnel' = [tunnel EXCEPT ![m] = None]
  /\ UNCHANGED <<on, landed, flights, directoryVars>>

\* clearStaleEntriesForMachine, before the first connection.
Boot(m) ==
  /\ m \notin up
  /\ up' = up \cup {m} /\ TryRemove(m)
  /\ UNCHANGED <<socketVars, managerVars, drain, crashes>>

Next ==
  \/ \E w \in Socket : \/ Denied(w) \/ Register(w) \/ Lands(w) \/ Refused(w) \/ Registered(w)
                       \/ GoesBack(w) \/ RolledBack(w) \/ Closes(w) \/ OnClose(w) \/ Pong(w)
                       \/ \E m \in Machine : Connect(w, m)
                       \/ \E c \in Call : Answer(c, w)
  \/ \E m \in Machine : \/ Unregistered(m) \/ Drain(m) \/ Cleared(m) \/ Drained(m) \/ Stop(m)
                        \/ Boot(m)
                        \/ \E r \in Request : Ask(r, m)
                        \/ \E c \in Channel : OpenChannel(c, m)
  \/ \E c \in Call : GiveUp(c)
  \/ Expires \/ Sweeps

Spec == Init /\ [][Next]_vars

--------------------------------------------------------------------------------
(* Properties *)

\* Sockets, tunnels, calls and the directory are what the code can make them.
TypeOK ==
  /\ on \in [Socket -> Machine \cup {None}]
  /\ at \in [Socket -> {"unused", "auth", "registering", "rollback", "registered", "over"}]
  /\ ready \in [Socket -> {"open", "closing", "closed"}]
  /\ landed \subseteq Socket
  /\ tunnel \in [Machine -> Socket \cup {None}]
  /\ waiting \in [Call -> Socket \cup {None}]
  /\ flights \in [Machine -> Nat]
  /\ owner \in Machine \cup {None} /\ stale \in BOOLEAN /\ leaked \in BOOLEAN
  /\ up \subseteq Machine /\ drain \in [Machine -> {"no", "waiting", "cleared", "done"}]
  /\ crashes \in Nat

\* register and unregister, with any number of sockets registering at once: a tunnel's
\* close event is always still to come, so it will be removed; and a registered socket
\* that is open is the tunnel, so none lives on that nothing would ever close.
NoDangling ==
  /\ \A m \in Machine : tunnel[m] # None =>
       /\ m \in up /\ on[tunnel[m]] = m
       /\ at[tunnel[m]] = "registered" /\ ready[tunnel[m]] # "closed"
  /\ \A w \in Socket : at[w] = "registered" /\ ready[w] = "open" => tunnel[on[w]] = w

\* disposeTunnel, on every way a tunnel is left: no client waits for an answer or keeps
\* a channel through a tunnel that is no more.
NoneStranded ==
  \A c \in Call : waiting[c] # None => tunnel[on[waiting[c]]] = waiting[c]

\* register's rollback ("otherwise other machines fly-replay traffic to a dead local
\* tunnel"): while a machine runs, the directory names it only if it has the tunnel,
\* or something is under way there, or a call that should have removed the entry failed.
NoGhostEntry ==
  owner # None /\ owner \in up /\ tunnel[owner] = None =>
    \/ leaked
    \/ flights[owner] > 0
    \/ \E w \in Socket : on[w] = owner /\ at[w] \in {"registering", "rollback"}

\* unregister ("Prevents the close handler of a just-disposed old socket from tearing
\* down a freshly-registered new tunnel"): a tunnel whose socket is open is given up
\* only for another socket of the host, or because the relay stops.
OnlyReplaced ==
  [][\A m \in Machine :
       tunnel[m] # None /\ ready[tunnel[m]] = "open" /\ tunnel'[m] # tunnel[m] =>
         \/ \E w \in Socket \ {tunnel[m]} :
              on[w] = m /\ at[w] # at'[w] /\ at'[w] \in {"registering", "registered"}
         \/ drain[m] = "cleared" \/ m \notin up']_vars

\* disposeTunnel and the tunnels map, through races, drains and crashes: calls go out
\* on one line per machine, lose it in the step in which the line goes, and no socket
\* serves again that was given up: the relay keeps the promise of HostReach.
Spent == {w \in Socket : at[w] \in {"registered", "over"}}
Reach == INSTANCE HostReach WITH line <- tunnel, held <- waiting, spent <- Spent
KeepsReach == Reach!Spec
================================================================================
