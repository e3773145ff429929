------------------------------- MODULE HostReach -------------------------------
(***************************************************************************)
(* What the relay promises about one host: each machine has one line to it  *)
(* or none, a call holds on to the line it went out on, and a line that is  *)
(* given up or replaced lets go of its calls in the same step and never     *)
(* serves again.  No socket state, directory or drain is visible here;      *)
(* RelayTunnel is the program that keeps this promise.                     *)
(***************************************************************************)
CONSTANTS
  Machine, Socket, Call,
  None

VARIABLES
  line,    \* machine |-> the socket its calls go out on, or None
  held,    \* call |-> the line it holds on to, or None
  spent    \* sockets that are no new line any more

reachVars == <<line, held, spent>>

Init ==
  /\ line = [m \in Machine |-> None] /\ held = [c \in Call |-> None]
  /\ spent = {}

Spend(ws) == ws \subseteq spent' /\ spent \subseteq spent' /\ spent' \subseteq Socket

\* The line of a machine is given up (for None) or replaced by a new one.
Turn(m, l) ==
  /\ l \notin spent
  /\ line' = [line EXCEPT ![m] = l]
  /\ held' = [c \in Call |-> IF held[c] = line[m] THEN None ELSE held[c]]
  /\ Spend({l} \ {None})

Take(c, m) ==
  /\ held[c] = None /\ line[m] # None
  /\ held' = [held EXCEPT ![c] = line[m]]
  /\ UNCHANGED <<line, spent>>

LetGo(c) ==
  /\ held' = [held EXCEPT ![c] = None]
  /\ UNCHANGED <<line, spent>>

\* Some sockets never become a line.
Discard == Spend({}) /\ UNCHANGED <<line, held>>

Next ==
  \/ \E m \in Machine, l \in Socket \cup {None} : Turn(m, l)
  \/ \E c \in Call : LetGo(c) \/ \E m \in Machine : Take(c, m)
  \/ Discard

Spec == Init /\ [][Next]_reachVars
================================================================================
