-------------------------- MODULE RelayTunnel_proofs --------------------------
(***************************************************************************)
(* Proofs about RelayTunnel, for any machines, sockets, calls, limits and     *)
(* number of crashes.                                                        *)
(***************************************************************************)
EXTENDS RelayTunnel, TLAPS

--------------------------------------------------------------------------------
(* The invariant *)

(* An onOpen that is under way, and a tunnel, is on a machine that runs.       *)
Placed ==
  \A w \in Socket :
    at[w] \in {"auth", "registering", "rollback", "registered"} => on[w] \in up

(* What waits, waits in the tunnel of a registered socket.                     *)
Waits ==
  \A c \in Call : waiting[c] # None =>
    at[waiting[c]] = "registered" /\ tunnel[on[waiting[c]]] = waiting[c]

RelayInv == TypeOK /\ Placed /\ NoDangling /\ Waits

LEMMA RelayInit == Init => RelayInv
<1> SUFFICES ASSUME Init PROVE RelayInv
  OBVIOUS
<1>1. TypeOK
  BY RelayAssumption DEF Init, TypeOK
<1>2. Placed
  BY DEF Init, Placed
<1>3. NoDangling
  BY DEF Init, NoDangling
<1>4. Waits
  BY DEF Init, Waits
<1> QED
  BY <1>1, <1>2, <1>3, <1>4 DEF RelayInv

LEMMA CallsHaveTunnels ==
  ASSUME RelayInv, NEW c \in Call, waiting[c] # None
  PROVE  /\ waiting[c] \in Socket /\ on[waiting[c]] \in Machine /\ on[waiting[c]] \in up
         /\ at[waiting[c]] = "registered" /\ tunnel[on[waiting[c]]] = waiting[c]
BY DEF RelayInv, TypeOK, Placed, Waits

--------------------------------------------------------------------------------
(* Type correctness *)

LEMMA DirectoryTypes ==
  ASSUME TypeOK, NEW m \in Machine, Write(m) \/ Remove(m) \/ TryRemove(m) \/ Refresh
  PROVE  owner' \in Machine \cup {None} /\ stale' \in BOOLEAN /\ leaked' \in BOOLEAN
BY DEF TypeOK, Write, Remove, TryRemove, Refresh, directoryVars

LEMMA DisposeTypes ==
  ASSUME TypeOK, NEW w, DisposeTunnel(w)
  PROVE  /\ ready' \in [Socket -> {"open", "closing", "closed"}]
         /\ waiting' \in [Call -> Socket \cup {None}]
BY DEF TypeOK, DisposeTunnel

LEMMA HangTypes ==
  ASSUME TypeOK, NEW w \in Socket, Hang(w)
  PROVE  ready' \in [Socket -> {"open", "closing", "closed"}]
BY DEF TypeOK, Hang

(* Every step leaves sockets, tunnels, calls and the directory well formed.    *)
LEMMA TypeStep ==
  ASSUME RelayInv, [Next]_vars
  PROVE  TypeOK'
<1>0. TypeOK /\ Placed
  BY DEF RelayInv
<1>1. ASSUME NEW w \in Socket, Denied(w) PROVE TypeOK'
  BY <1>0, <1>1, HangTypes DEF Denied, TypeOK, managerVars, directoryVars, processVars
<1>2. ASSUME NEW w \in Socket, Register(w) PROVE TypeOK'
  BY <1>0, <1>2, DisposeTypes DEF Register, TypeOK, directoryVars, processVars
<1>3. ASSUME NEW w \in Socket, Lands(w) PROVE TypeOK'
  <2>1. on[w] \in Machine
    BY <1>0, <1>3 DEF Lands, Placed, TypeOK
  <2> QED
    BY <1>0, <2>1, <1>3, DirectoryTypes DEF Lands, TypeOK, managerVars, processVars
<1>4. ASSUME NEW w \in Socket, Refused(w) PROVE TypeOK'
  BY <1>0, <1>4, HangTypes DEF Refused, TypeOK, managerVars, processVars
<1>5. ASSUME NEW w \in Socket, Registered(w) PROVE TypeOK'
  <2>1. on[w] \in Machine /\ DisposeTunnel(tunnel[on[w]])
    BY <1>0, <1>5 DEF Registered, DisposeRaced, Placed, TypeOK
  <2> QED
    BY <1>0, <2>1, <1>5, DisposeTypes DEF Registered, TypeOK, directoryVars, processVars
<1>6. ASSUME NEW w \in Socket, GoesBack(w) PROVE TypeOK'
  BY <1>0, <1>6 DEF GoesBack, AfterUnusable, TypeOK, managerVars, directoryVars, processVars
<1>7. ASSUME NEW w \in Socket, RolledBack(w) PROVE TypeOK'
  <2>1. on[w] \in Machine
    BY <1>0, <1>7 DEF RolledBack, Placed, TypeOK
  <2>2. ready' \in [Socket -> {"open", "closing", "closed"}]
    BY <1>0, <1>7, HangTypes DEF RolledBack, TypeOK
  <2>3. owner' \in Machine \cup {None} /\ stale' \in BOOLEAN /\ leaked' \in BOOLEAN
    BY <1>0, <2>1, <1>7, DirectoryTypes DEF RolledBack
  <2> QED
    BY <1>0, <2>2, <2>3, <1>7 DEF RolledBack, TypeOK, managerVars, processVars
<1>8. ASSUME NEW w \in Socket, Closes(w) PROVE TypeOK'
  BY <1>0, <1>8, HangTypes DEF Closes, TypeOK, managerVars, directoryVars, processVars
<1>9. ASSUME NEW w \in Socket, OnClose(w) PROVE TypeOK'
  <2>1. CASE Ends(w)
    <3>1. on[w] \in Machine
      BY <1>0, <2>1 DEF Ends, Placed, TypeOK
    <3>2. /\ ready' \in [Socket -> {"open", "closing", "closed"}]
          /\ waiting' \in [Call -> Socket \cup {None}]
          /\ tunnel' \in [Machine -> Socket \cup {None}] /\ flights' \in [Machine -> Nat]
      BY <1>0, <2>1, <3>1, <1>9 DEF OnClose, TypeOK
    <3> QED
      BY <1>0, <3>2, <1>9 DEF OnClose, TypeOK, directoryVars, processVars
  <2>2. CASE ~Ends(w)
    BY <1>0, <2>2, <1>9 DEF OnClose, TypeOK, managerVars, directoryVars, processVars
  <2> QED
    BY <2>1, <2>2
<1>10. ASSUME NEW w \in Socket, Pong(w) PROVE TypeOK'
  BY <1>0, <1>10, RelayAssumption DEF Pong, Refresh, TypeOK, socketVars, managerVars,
     processVars
<1>11. ASSUME NEW w \in Socket, NEW m \in Machine, Connect(w, m) PROVE TypeOK'
  BY <1>0, <1>11 DEF Connect, TypeOK, managerVars, directoryVars, processVars
<1>12. ASSUME NEW c \in Call, NEW w \in Socket, Answer(c, w) PROVE TypeOK'
  BY <1>0, <1>12 DEF Answer, TypeOK, socketVars, directoryVars, processVars
<1>13. ASSUME NEW m \in Machine, Unregistered(m) PROVE TypeOK'
  BY <1>0, <1>13, DirectoryTypes DEF Unregistered, TypeOK, socketVars, processVars
<1>14. ASSUME NEW m \in Machine, Drain(m) PROVE TypeOK'
  BY <1>0, <1>14 DEF Drain, TypeOK, socketVars, managerVars, directoryVars
<1>15. ASSUME NEW m \in Machine, Cleared(m) PROVE TypeOK'
  BY <1>0, <1>15, DirectoryTypes DEF Cleared, TypeOK, socketVars, managerVars
<1>16. ASSUME NEW m \in Machine, Drained(m) PROVE TypeOK'
  BY <1>0, <1>16, DisposeTypes DEF Drained, TypeOK, directoryVars
<1>17. ASSUME NEW m \in Machine, Stop(m) PROVE TypeOK'
  <2>1. crashes' \in Nat
    BY <1>0, <1>17 DEF Stop, TypeOK
  <2> QED
    BY <1>0, <2>1, <1>17 DEF Stop, TypeOK, directoryVars
<1>18. ASSUME NEW m \in Machine, Boot(m) PROVE TypeOK'
  BY <1>0, <1>18, DirectoryTypes DEF Boot, TypeOK, socketVars, managerVars
<1>19. ASSUME NEW r \in Request, NEW m \in Machine, Ask(r, m) PROVE TypeOK'
  <2>1. r \in Call
    BY DEF Call
  <2> QED
    BY <1>0, <2>1, <1>19 DEF Ask, TypeOK, socketVars, directoryVars, processVars
<1>20. ASSUME NEW c \in Channel, NEW m \in Machine, OpenChannel(c, m) PROVE TypeOK'
  <2>1. c \in Call
    BY DEF Call
  <2> QED
    BY <1>0, <2>1, <1>20 DEF OpenChannel, TypeOK, socketVars, directoryVars, processVars
<1>21. ASSUME NEW c \in Call, GiveUp(c) PROVE TypeOK'
  BY <1>0, <1>21 DEF GiveUp, TypeOK, socketVars, directoryVars, processVars
<1>22. CASE Expires
  BY <1>0, <1>22 DEF Expires, TypeOK, socketVars, managerVars, processVars
<1>23. CASE Sweeps
  BY <1>0, <1>23 DEF Sweeps, TypeOK, socketVars, managerVars, processVars
<1>24. CASE UNCHANGED vars
  BY <1>0, <1>24 DEF vars, TypeOK, socketVars, managerVars, directoryVars, processVars
<1> QED
  BY <1>1, <1>2, <1>3, <1>4, <1>5, <1>6, <1>7, <1>8, <1>9, <1>10, <1>11, <1>12, <1>13,
     <1>14, <1>15, <1>16, <1>17, <1>18, <1>19, <1>20, <1>21, <1>22, <1>23, <1>24 DEF Next

--------------------------------------------------------------------------------
(* Sockets, tunnels and what waits in them *)

LEMMA PlacedStep ==
  ASSUME RelayInv, [Next]_vars
  PROVE  Placed'
<1>0. TypeOK /\ Placed
  BY DEF RelayInv
<1>1. ASSUME NEW w \in Socket, Denied(w) PROVE Placed'
  BY <1>0, <1>1 DEF Denied, Placed, TypeOK, managerVars, directoryVars, processVars
<1>2. ASSUME NEW w \in Socket, Register(w) PROVE Placed'
  BY <1>0, <1>2 DEF Register, Placed, TypeOK, directoryVars, processVars
<1>3. ASSUME NEW w \in Socket, Lands(w) PROVE Placed'
  BY <1>0, <1>3 DEF Lands, Placed, TypeOK, managerVars, processVars
<1>4. ASSUME NEW w \in Socket, Refused(w) PROVE Placed'
  BY <1>0, <1>4 DEF Refused, Placed, TypeOK, managerVars, processVars
<1>5. ASSUME NEW w \in Socket, Registered(w) PROVE Placed'
  BY <1>0, <1>5 DEF Registered, Placed, TypeOK, directoryVars, processVars
<1>6. ASSUME NEW w \in Socket, GoesBack(w) PROVE Placed'
  BY <1>0, <1>6 DEF GoesBack, AfterUnusable, Placed, TypeOK, managerVars, directoryVars,
     processVars
<1>7. ASSUME NEW w \in Socket, RolledBack(w) PROVE Placed'
  BY <1>0, <1>7 DEF RolledBack, Placed, TypeOK, managerVars, processVars
<1>8. ASSUME NEW w \in Socket, Closes(w) PROVE Placed'
  BY <1>0, <1>8 DEF Closes, Placed, TypeOK, managerVars, directoryVars, processVars
<1>9. ASSUME NEW w \in Socket, OnClose(w) PROVE Placed'
  BY <1>0, <1>9 DEF OnClose, Placed, processVars
<1>10. ASSUME NEW w \in Socket, Pong(w) PROVE Placed'
  BY <1>0, <1>10 DEF Pong, Placed, TypeOK, socketVars, managerVars, processVars
<1>11. ASSUME NEW w \in Socket, NEW m \in Machine, Connect(w, m) PROVE Placed'
  BY <1>0, <1>11 DEF Connect, Placed, TypeOK, managerVars, directoryVars, processVars
<1>12. ASSUME NEW c \in Call, NEW w \in Socket, Answer(c, w) PROVE Placed'
  BY <1>0, <1>12 DEF Answer, Placed, TypeOK, socketVars, directoryVars, processVars
<1>13. ASSUME NEW m \in Machine, Unregistered(m) PROVE Placed'
  BY <1>0, <1>13 DEF Unregistered, Placed, TypeOK, socketVars, processVars
<1>14. ASSUME NEW m \in Machine, Drain(m) PROVE Placed'
  BY <1>0, <1>14 DEF Drain, Placed, TypeOK, socketVars, managerVars, directoryVars
<1>15. ASSUME NEW m \in Machine, Cleared(m) PROVE Placed'
  BY <1>0, <1>15 DEF Cleared, Placed, TypeOK, socketVars, managerVars
<1>16. ASSUME NEW m \in Machine, Drained(m) PROVE Placed'
  BY <1>0, <1>16 DEF Drained, Placed, TypeOK, directoryVars
<1>17. ASSUME NEW m \in Machine, Stop(m) PROVE Placed'
  BY <1>0, <1>17 DEF Stop, Placed, TypeOK, directoryVars
<1>18. ASSUME NEW m \in Machine, Boot(m) PROVE Placed'
  BY <1>0, <1>18 DEF Boot, Placed, TypeOK, socketVars, managerVars
<1>19. ASSUME NEW r \in Request, NEW m \in Machine, Ask(r, m) PROVE Placed'
  BY <1>0, <1>19 DEF Ask, Placed, TypeOK, socketVars, directoryVars, processVars
<1>20. ASSUME NEW c \in Channel, NEW m \in Machine, OpenChannel(c, m) PROVE Placed'
  BY <1>0, <1>20 DEF OpenChannel, Placed, TypeOK, socketVars, directoryVars, processVars
<1>21. ASSUME NEW c \in Call, GiveUp(c) PROVE Placed'
  BY <1>0, <1>21 DEF GiveUp, Placed, TypeOK, socketVars, directoryVars, processVars
<1>22. CASE Expires
  BY <1>0, <1>22 DEF Expires, Placed, TypeOK, socketVars, managerVars, processVars
<1>23. CASE Sweeps
  BY <1>0, <1>23 DEF Sweeps, Placed, TypeOK, socketVars, managerVars, processVars
<1>24. CASE UNCHANGED vars
  BY <1>0, <1>24 DEF vars, Placed, socketVars, processVars
<1> QED
  BY <1>1, <1>2, <1>3, <1>4, <1>5, <1>6, <1>7, <1>8, <1>9, <1>10, <1>11, <1>12, <1>13,
     <1>14, <1>15, <1>16, <1>17, <1>18, <1>19, <1>20, <1>21, <1>22, <1>23, <1>24 DEF Next

(* Closing a socket and telling what waits in its tunnel leaves the other tunnels. *)
LEMMA Disposal ==
  ASSUME RelayInv, NEW m \in Machine, DisposeTunnel(tunnel[m])
  PROVE  /\ \A v \in Socket : /\ ready[v] = "closed" <=> ready'[v] = "closed"
                              /\ ready'[v] = "open" => ready[v] = "open" /\ v # tunnel[m]
         /\ \A c \in Call : waiting'[c] # None =>
              waiting'[c] = waiting[c] /\ waiting[c] # tunnel[m]
BY RelayAssumption DEF RelayInv, TypeOK, DisposeTunnel

(* Tunnels stay what they are while sockets stay where they are and only close.  *)
LEMMA NoDanglingKept ==
  ASSUME RelayInv, UNCHANGED <<on, tunnel>>, up \subseteq up',
         \A v \in Socket : /\ at[v] = "registered" <=> at'[v] = "registered"
                           /\ ready'[v] = "open" /\ at'[v] = "registered" => ready[v] = "open"
                           /\ ready'[v] = "closed" /\ at'[v] = "registered" =>
                                ready[v] = "closed" \/ tunnel[on[v]] # v
  PROVE  NoDangling'
BY DEF RelayInv, NoDangling, TypeOK

LEMMA NoDanglingStep ==
  ASSUME RelayInv, [Next]_vars
  PROVE  NoDangling'
<1>0. TypeOK /\ Placed /\ NoDangling
  BY DEF RelayInv
<1>1. ASSUME NEW w \in Socket, Denied(w) PROVE NoDangling'
  <2>1. /\ UNCHANGED <<on, tunnel, up>>
        /\ ready' = ready \/ Hang(w)
    BY <1>1 DEF Denied, managerVars, directoryVars, processVars
  <2>2. \A v \in Socket : at[v] = "registered" <=> at'[v] = "registered"
    BY <1>0, <1>1 DEF Denied, TypeOK
  <2>3. \A v \in Socket : /\ ready'[v] = "open" => ready[v] = "open"
                          /\ ready'[v] = "closed" => ready[v] = "closed"
    BY <1>0, <2>1 DEF Hang, TypeOK
  <2> QED
    BY <2>1, <2>2, <2>3, NoDanglingKept
<1>2. ASSUME NEW w \in Socket, Register(w) PROVE NoDangling'
  <2>1. on[w] \in Machine /\ DisposeTunnel(tunnel[on[w]])
    BY <1>0, <1>2 DEF Register, Placed, TypeOK
  <2>2. /\ UNCHANGED <<on, up>> /\ at[w] = "auth" /\ at'[w] = "registering"
        /\ tunnel'[on[w]] = None
        /\ \A m \in Machine \ {on[w]} : tunnel'[m] = tunnel[m]
        /\ \A v \in Socket \ {w} : at'[v] = at[v]
    BY <1>0, <2>1, <1>2 DEF Register, TypeOK, processVars
  <2>3. \A v \in Socket : /\ ready[v] = "closed" <=> ready'[v] = "closed"
                          /\ ready'[v] = "open" => ready[v] = "open" /\ v # tunnel[on[w]]
    BY <2>1, Disposal
  <2>4. \A v \in Socket : at'[v] = "registered" => at[v] = "registered" /\ on[v] \in Machine
    BY <1>0, <2>2 DEF Placed, TypeOK
  <2> QED
    BY <1>0, <2>1, <2>2, <2>3, <2>4 DEF NoDangling, TypeOK
<1>3. ASSUME NEW w \in Socket, Lands(w) PROVE NoDangling'
  <2>1. UNCHANGED <<on, at, ready, tunnel>> /\ up \subseteq up'
    BY <1>3 DEF Lands, managerVars, processVars
  <2> QED
    BY <2>1, NoDanglingKept
<1>4. ASSUME NEW w \in Socket, Refused(w) PROVE NoDangling'
  <2>1. /\ UNCHANGED <<on, tunnel, up>>
        /\ ready' = ready \/ Hang(w)
    BY <1>4 DEF Refused, managerVars, processVars
  <2>2. \A v \in Socket : at[v] = "registered" <=> at'[v] = "registered"
    BY <1>0, <1>4 DEF Refused, TypeOK
  <2>3. \A v \in Socket : /\ ready'[v] = "open" => ready[v] = "open"
                          /\ ready'[v] = "closed" => ready[v] = "closed"
    BY <1>0, <2>1 DEF Hang, TypeOK
  <2> QED
    BY <2>1, <2>2, <2>3, NoDanglingKept
<1>5. ASSUME NEW w \in Socket, Registered(w) PROVE NoDangling'
  <2>1. on[w] \in Machine /\ DisposeTunnel(tunnel[on[w]]) /\ on[w] \in up
    BY <1>0, <1>5 DEF Registered, DisposeRaced, Placed, TypeOK
  <2>2. /\ UNCHANGED <<on, up>> /\ at[w] = "registering" /\ at'[w] = "registered"
        /\ ready[w] = "open" /\ tunnel'[on[w]] = w
        /\ \A m \in Machine \ {on[w]} : tunnel'[m] = tunnel[m]
        /\ \A v \in Socket \ {w} : at'[v] = at[v]
    BY <1>0, <2>1, <1>5 DEF Registered, Usable, TypeOK, processVars
  <2>3. \A v \in Socket : /\ ready[v] = "closed" <=> ready'[v] = "closed"
                          /\ ready'[v] = "open" => ready[v] = "open" /\ v # tunnel[on[w]]
    BY <2>1, Disposal
  <2>4. \A v \in Socket \ {w} : at'[v] = "registered" => at[v] = "registered" /\ on[v] \in Machine
    BY <1>0, <2>2 DEF Placed, TypeOK
  <2> QED
    BY <1>0, <2>1, <2>2, <2>3, <2>4, RelayAssumption DEF NoDangling, TypeOK
<1>6. ASSUME NEW w \in Socket, GoesBack(w) PROVE NoDangling'
  <2>1. /\ UNCHANGED <<on, ready, tunnel, up>>
        /\ \A v \in Socket : at[v] = "registered" <=> at'[v] = "registered"
    BY <1>0, <1>6 DEF GoesBack, AfterUnusable, TypeOK, managerVars, processVars
  <2> QED
    BY <2>1, NoDanglingKept
<1>7. ASSUME NEW w \in Socket, RolledBack(w) PROVE NoDangling'
  <2>1. /\ UNCHANGED <<on, tunnel, up>>
        /\ ready' = ready \/ Hang(w)
    BY <1>7 DEF RolledBack, managerVars, processVars
  <2>2. \A v \in Socket : at[v] = "registered" <=> at'[v] = "registered"
    BY <1>0, <1>7 DEF RolledBack, TypeOK
  <2>3. \A v \in Socket : /\ ready'[v] = "open" => ready[v] = "open"
                          /\ ready'[v] = "closed" => ready[v] = "closed"
    BY <1>0, <2>1 DEF Hang, TypeOK
  <2> QED
    BY <2>1, <2>2, <2>3, NoDanglingKept
<1>8. ASSUME NEW w \in Socket, Closes(w) PROVE NoDangling'
  <2>1. /\ UNCHANGED <<on, tunnel, up>>
        /\ ready' = ready \/ Hang(w)
    BY <1>8 DEF Closes, managerVars, directoryVars, processVars
  <2>2. \A v \in Socket : at[v] = "registered" <=> at'[v] = "registered"
    BY <1>0, <1>8 DEF Closes, TypeOK
  <2>3. \A v \in Socket : /\ ready'[v] = "open" => ready[v] = "open"
                          /\ ready'[v] = "closed" => ready[v] = "closed"
    BY <1>0, <2>1 DEF Hang, TypeOK
  <2> QED
    BY <2>1, <2>2, <2>3, NoDanglingKept
<1>9. ASSUME NEW w \in Socket, OnClose(w) PROVE NoDangling'
  <2>1. CASE Ends(w)
    <3>1. on[w] \in Machine /\ at[w] = "registered" /\ tunnel[on[w]] = w
      BY <1>0, <2>1 DEF Ends, Placed, TypeOK
    <3>2. /\ UNCHANGED <<on, at, up>> /\ tunnel'[on[w]] = None
          /\ \A m \in Machine \ {on[w]} : tunnel'[m] = tunnel[m]
          /\ ready'[w] = "closed"
          /\ \A v \in Socket \ {w} : ready'[v] = ready[v]
      BY <1>0, <2>1, <3>1, <1>9 DEF OnClose, TypeOK, processVars
    <3>3. \A v \in Socket : at[v] = "registered" => on[v] \in Machine
      BY <1>0 DEF Placed, TypeOK
    <3> QED
      BY <1>0, <3>1, <3>2, <3>3 DEF NoDangling, TypeOK
  <2>2. CASE ~Ends(w)
    <3>1. /\ UNCHANGED <<on, at, tunnel, up>> /\ ready'[w] = "closed"
          /\ \A v \in Socket \ {w} : ready'[v] = ready[v]
          /\ at[w] = "registered" => tunnel[on[w]] # w
      BY <1>0, <2>2, <1>9 DEF OnClose, Ends, TypeOK, managerVars, processVars
    <3> QED
      BY <3>1, NoDanglingKept
  <2> QED
    BY <2>1, <2>2
<1>10. ASSUME NEW w \in Socket, Pong(w) PROVE NoDangling'
  <2>1. UNCHANGED <<on, at, ready, tunnel>> /\ up \subseteq up'
    BY <1>10 DEF Pong, socketVars, managerVars, processVars
  <2> QED
    BY <2>1, NoDanglingKept
<1>11. ASSUME NEW w \in Socket, NEW m \in Machine, Connect(w, m) PROVE NoDangling'
  <2>1. /\ at[w] = "unused" /\ UNCHANGED <<tunnel, up>>
        /\ \A v \in Socket \ {w} : UNCHANGED <<on[v], at[v], ready[v]>>
        /\ at'[w] = "auth"
    BY <1>0, <1>11 DEF Connect, TypeOK, managerVars, processVars
  <2> QED
    BY <1>0, <2>1 DEF NoDangling, TypeOK
<1>12. ASSUME NEW c \in Call, NEW w \in Socket, Answer(c, w) PROVE NoDangling'
  <2>1. UNCHANGED <<on, at, ready, tunnel>> /\ up \subseteq up'
    BY <1>12 DEF Answer, socketVars, directoryVars, processVars
  <2> QED
    BY <2>1, NoDanglingKept
<1>13. ASSUME NEW m \in Machine, Unregistered(m) PROVE NoDangling'
  <2>1. UNCHANGED <<on, at, ready, tunnel>> /\ up \subseteq up'
    BY <1>13 DEF Unregistered, socketVars, processVars
  <2> QED
    BY <2>1, NoDanglingKept
<1>14. ASSUME NEW m \in Machine, Drain(m) PROVE NoDangling'
  <2>1. UNCHANGED <<on, at, ready, tunnel>> /\ up \subseteq up'
    BY <1>14 DEF Drain, socketVars, managerVars, directoryVars
  <2> QED
    BY <2>1, NoDanglingKept
<1>15. ASSUME NEW m \in Machine, Cleared(m) PROVE NoDangling'
  <2>1. UNCHANGED <<on, at, ready, tunnel>> /\ up \subseteq up'
    BY <1>15 DEF Cleared, socketVars, managerVars
  <2> QED
    BY <2>1, NoDanglingKept
<1>16. ASSUME NEW m \in Machine, Drained(m) PROVE NoDangling'
  <2>1. DisposeTunnel(tunnel[m])
    BY <1>16 DEF Drained
  <2>2. /\ UNCHANGED <<on, at, up>> /\ tunnel'[m] = None
        /\ \A n \in Machine \ {m} : tunnel'[n] = tunnel[n]
    BY <1>0, <1>16 DEF Drained, TypeOK
  <2>3. \A v \in Socket : /\ ready[v] = "closed" <=> ready'[v] = "closed"
                          /\ ready'[v] = "open" => ready[v] = "open" /\ v # tunnel[m]
    BY <2>1, Disposal
  <2>4. \A v \in Socket : at[v] = "registered" => on[v] \in Machine
    BY <1>0 DEF Placed, TypeOK
  <2> QED
    BY <1>0, <2>2, <2>3, <2>4 DEF NoDangling, TypeOK
<1>17. ASSUME NEW m \in Machine, Stop(m) PROVE NoDangling'
  <2>1. /\ UNCHANGED on /\ up' = up \ {m} /\ tunnel'[m] = None
        /\ \A n \in Machine \ {m} : tunnel'[n] = tunnel[n]
        /\ \A v \in Socket : IF on[v] = m THEN at'[v] = "over"
                             ELSE at'[v] = at[v] /\ ready'[v] = ready[v]
    BY <1>0, <1>17 DEF Stop, TypeOK
  <2>2. \A v \in Socket : at[v] = "registered" => on[v] \in Machine
    BY <1>0 DEF Placed, TypeOK
  <2> QED
    BY <1>0, <2>1, <2>2 DEF NoDangling, TypeOK
<1>18. ASSUME NEW m \in Machine, Boot(m) PROVE NoDangling'
  <2>1. UNCHANGED <<on, at, ready, tunnel>> /\ up \subseteq up'
    BY <1>18 DEF Boot, socketVars, managerVars
  <2> QED
    BY <2>1, NoDanglingKept
<1>19. ASSUME NEW r \in Request, NEW m \in Machine, Ask(r, m) PROVE NoDangling'
  <2>1. UNCHANGED <<on, at, ready, tunnel>> /\ up \subseteq up'
    BY <1>19 DEF Ask, socketVars, directoryVars, processVars
  <2> QED
    BY <2>1, NoDanglingKept
<1>20. ASSUME NEW c \in Channel, NEW m \in Machine, OpenChannel(c, m) PROVE NoDangling'
  <2>1. UNCHANGED <<on, at, ready, tunnel>> /\ up \subseteq up'
    BY <1>20 DEF OpenChannel, socketVars, directoryVars, processVars
  <2> QED
    BY <2>1, NoDanglingKept
<1>21. ASSUME NEW c \in Call, GiveUp(c) PROVE NoDangling'
  <2>1. UNCHANGED <<on, at, ready, tunnel>> /\ up \subseteq up'
    BY <1>21 DEF GiveUp, socketVars, directoryVars, processVars
  <2> QED
    BY <2>1, NoDanglingKept
<1>22. CASE Expires
  <2>1. UNCHANGED <<on, at, ready, tunnel>> /\ up \subseteq up'
    BY <1>22 DEF Expires, socketVars, managerVars, processVars
  <2> QED
    BY <2>1, NoDanglingKept
<1>23. CASE Sweeps
  <2>1. UNCHANGED <<on, at, ready, tunnel>> /\ up \subseteq up'
    BY <1>23 DEF Sweeps, socketVars, managerVars, processVars
  <2> QED
    BY <2>1, NoDanglingKept
<1>24. CASE UNCHANGED vars
  <2>1. UNCHANGED <<on, at, ready, tunnel>> /\ up \subseteq up'
    BY <1>24 DEF vars, socketVars, managerVars, directoryVars, processVars
  <2> QED
    BY <2>1, NoDanglingKept
<1> QED
  BY <1>1, <1>2, <1>3, <1>4, <1>5, <1>6, <1>7, <1>8, <1>9, <1>10, <1>11, <1>12, <1>13,
     <1>14, <1>15, <1>16, <1>17, <1>18, <1>19, <1>20, <1>21, <1>22, <1>23, <1>24 DEF Next

LEMMA WaitsKept ==
  ASSUME RelayInv, UNCHANGED <<on, tunnel>>,
         \A v \in Socket : at[v] = "registered" => at'[v] = "registered",
         \A c \in Call : waiting'[c] # None => waiting'[c] = waiting[c]
  PROVE  Waits'
BY CallsHaveTunnels DEF Waits

LEMMA WaitsStep ==
  ASSUME RelayInv, [Next]_vars
  PROVE  Waits'
<1>0. TypeOK /\ Placed /\ NoDangling /\ Waits
  BY DEF RelayInv
<1>1. ASSUME NEW w \in Socket, Denied(w) PROVE Waits'
  <2>1. /\ UNCHANGED <<on, tunnel, waiting>>
        /\ \A v \in Socket : at[v] = "registered" => at'[v] = "registered"
    BY <1>0, <1>1 DEF Denied, TypeOK, managerVars, directoryVars, processVars
  <2> QED
    BY <2>1, WaitsKept
<1>2. ASSUME NEW w \in Socket, Register(w) PROVE Waits'
  <2>1. on[w] \in Machine /\ DisposeTunnel(tunnel[on[w]])
    BY <1>0, <1>2 DEF Register, Placed, TypeOK
  <2>2. \A c \in Call : waiting'[c] # None =>
          waiting'[c] = waiting[c] /\ waiting[c] # tunnel[on[w]]
    BY <2>1, Disposal
  <2>3. /\ UNCHANGED on /\ \A v \in Socket : at[v] = "registered" => at'[v] = "registered"
        /\ \A n \in Machine \ {on[w]} : tunnel'[n] = tunnel[n]
    BY <1>0, <2>1, <1>2 DEF Register, TypeOK
  <2> QED
    BY <2>2, <2>3, CallsHaveTunnels DEF Waits
<1>3. ASSUME NEW w \in Socket, Lands(w) PROVE Waits'
  <2>1. /\ UNCHANGED <<on, tunnel, waiting>>
        /\ \A v \in Socket : at[v] = "registered" => at'[v] = "registered"
    BY <1>0, <1>3 DEF Lands, TypeOK, managerVars, processVars
  <2> QED
    BY <2>1, WaitsKept
<1>4. ASSUME NEW w \in Socket, Refused(w) PROVE Waits'
  <2>1. /\ UNCHANGED <<on, tunnel, waiting>>
        /\ \A v \in Socket : at[v] = "registered" => at'[v] = "registered"
    BY <1>0, <1>4 DEF Refused, TypeOK, managerVars, processVars
  <2> QED
    BY <2>1, WaitsKept
<1>5. ASSUME NEW w \in Socket, Registered(w) PROVE Waits'
  <2>1. on[w] \in Machine /\ DisposeTunnel(tunnel[on[w]])
    BY <1>0, <1>5 DEF Registered, DisposeRaced, Placed, TypeOK
  <2>2. \A c \in Call : waiting'[c] # None =>
          waiting'[c] = waiting[c] /\ waiting[c] # tunnel[on[w]]
    BY <2>1, Disposal
  <2>3. /\ UNCHANGED on /\ \A v \in Socket : at[v] = "registered" => at'[v] = "registered"
        /\ \A n \in Machine \ {on[w]} : tunnel'[n] = tunnel[n]
    BY <1>0, <2>1, <1>5 DEF Registered, TypeOK
  <2> QED
    BY <2>2, <2>3, CallsHaveTunnels DEF Waits
<1>6. ASSUME NEW w \in Socket, GoesBack(w) PROVE Waits'
  <2>1. /\ UNCHANGED <<on, tunnel, waiting>>
        /\ \A v \in Socket : at[v] = "registered" => at'[v] = "registered"
    BY <1>0, <1>6 DEF GoesBack, AfterUnusable, TypeOK, managerVars, directoryVars,
       processVars
  <2> QED
    BY <2>1, WaitsKept
<1>7. ASSUME NEW w \in Socket, RolledBack(w) PROVE Waits'
  <2>1. /\ UNCHANGED <<on, tunnel, waiting>>
        /\ \A v \in Socket : at[v] = "registered" => at'[v] = "registered"
    BY <1>0, <1>7 DEF RolledBack, TypeOK, managerVars, processVars
  <2> QED
    BY <2>1, WaitsKept
<1>8. ASSUME NEW w \in Socket, Closes(w) PROVE Waits'
  <2>1. /\ UNCHANGED <<on, tunnel, waiting>>
        /\ \A v \in Socket : at[v] = "registered" => at'[v] = "registered"
    BY <1>0, <1>8 DEF Closes, TypeOK, managerVars, directoryVars, processVars
  <2> QED
    BY <2>1, WaitsKept
<1>9. ASSUME NEW w \in Socket, OnClose(w) PROVE Waits'
  <2>1. CASE Ends(w)
    <3>1. on[w] \in Machine /\ tunnel[on[w]] = w
      BY <1>0, <2>1 DEF Ends, Placed, TypeOK
    <3>2. /\ UNCHANGED <<on, at>> /\ \A m \in Machine \ {on[w]} : tunnel'[m] = tunnel[m]
          /\ \A c \in Call : waiting'[c] # None => waiting'[c] = waiting[c] /\ waiting[c] # w
      BY <1>0, <2>1, <3>1, <1>9, RelayAssumption DEF OnClose, TypeOK
    <3> QED
      BY <3>1, <3>2, CallsHaveTunnels DEF Waits
  <2>2. CASE ~Ends(w)
    <3>1. UNCHANGED <<on, at, tunnel, waiting>>
      BY <2>2, <1>9 DEF OnClose, managerVars
    <3> QED
      BY <3>1, WaitsKept
  <2> QED
    BY <2>1, <2>2
<1>10. ASSUME NEW w \in Socket, Pong(w) PROVE Waits'
  <2>1. /\ UNCHANGED <<on, tunnel, waiting>>
        /\ \A v \in Socket : at[v] = "registered" => at'[v] = "registered"
    BY <1>0, <1>10 DEF Pong, TypeOK, socketVars, managerVars, processVars
  <2> QED
    BY <2>1, WaitsKept
<1>11. ASSUME NEW w \in Socket, NEW m \in Machine, Connect(w, m) PROVE Waits'
  <2>1. /\ UNCHANGED <<tunnel, waiting>> /\ at[w] = "unused"
        /\ \A v \in Socket \ {w} : UNCHANGED <<on[v], at[v]>>
    BY <1>0, <1>11 DEF Connect, TypeOK, managerVars
  <2> QED
    BY <2>1, CallsHaveTunnels DEF Waits
<1>12. ASSUME NEW c \in Call, NEW w \in Socket, Answer(c, w) PROVE Waits'
  <2>1. UNCHANGED <<on, at, tunnel>> /\ \A d \in Call : waiting'[d] \in {waiting[d], None}
    BY <1>0, <1>12 DEF Answer, TypeOK, socketVars
  <2> QED
    BY <2>1, WaitsKept
<1>13. ASSUME NEW m \in Machine, Unregistered(m) PROVE Waits'
  <2>1. /\ UNCHANGED <<on, tunnel, waiting>>
        /\ \A v \in Socket : at[v] = "registered" => at'[v] = "registered"
    BY <1>0, <1>13 DEF Unregistered, TypeOK, socketVars, processVars
  <2> QED
    BY <2>1, WaitsKept
<1>14. ASSUME NEW m \in Machine, Drain(m) PROVE Waits'
  <2>1. /\ UNCHANGED <<on, tunnel, waiting>>
        /\ \A v \in Socket : at[v] = "registered" => at'[v] = "registered"
    BY <1>0, <1>14 DEF Drain, TypeOK, socketVars, managerVars, directoryVars
  <2> QED
    BY <2>1, WaitsKept
<1>15. ASSUME NEW m \in Machine, Cleared(m) PROVE Waits'
  <2>1. /\ UNCHANGED <<on, tunnel, waiting>>
        /\ \A v \in Socket : at[v] = "registered" => at'[v] = "registered"
    BY <1>0, <1>15 DEF Cleared, TypeOK, socketVars, managerVars
  <2> QED
    BY <2>1, WaitsKept
<1>16. ASSUME NEW m \in Machine, Drained(m) PROVE Waits'
  <2>1. DisposeTunnel(tunnel[m])
    BY <1>16 DEF Drained
  <2>2. \A c \in Call : waiting'[c] # None => waiting'[c] = waiting[c] /\ waiting[c] # tunnel[m]
    BY <2>1, Disposal
  <2>3. UNCHANGED <<on, at>> /\ \A n \in Machine \ {m} : tunnel'[n] = tunnel[n]
    BY <1>0, <1>16 DEF Drained, TypeOK
  <2> QED
    BY <2>2, <2>3, CallsHaveTunnels DEF Waits
<1>17. ASSUME NEW m \in Machine, Stop(m) PROVE Waits'
  <2>1. /\ UNCHANGED on
        /\ \A n \in Machine \ {m} : tunnel'[n] = tunnel[n]
        /\ \A v \in Socket : on[v] # m => at'[v] = at[v]
        /\ \A c \in Call : waiting'[c] # None => waiting'[c] = waiting[c] /\ on[waiting[c]] # m
    BY <1>0, <1>17 DEF Stop, TypeOK
  <2> QED
    BY <2>1, CallsHaveTunnels DEF Waits
<1>18. ASSUME NEW m \in Machine, Boot(m) PROVE Waits'
  <2>1. /\ UNCHANGED <<on, tunnel, waiting>>
        /\ \A v \in Socket : at[v] = "registered" => at'[v] = "registered"
    BY <1>0, <1>18 DEF Boot, TypeOK, socketVars, managerVars
  <2> QED
    BY <2>1, WaitsKept
<1>19. ASSUME NEW r \in Request, NEW m \in Machine, Ask(r, m) PROVE Waits'
  <2>1. r \in Call /\ tunnel[m] \in Socket /\ on[tunnel[m]] = m /\ at[tunnel[m]] = "registered"
    BY <1>0, <1>19 DEF Ask, Call, NoDangling, TypeOK
  <2>2. /\ UNCHANGED <<on, at, tunnel>> /\ waiting'[r] = tunnel[m]
        /\ \A d \in Call \ {r} : waiting'[d] = waiting[d]
    BY <1>0, <2>1, <1>19 DEF Ask, TypeOK, socketVars
  <2> QED
    BY <2>1, <2>2, CallsHaveTunnels DEF Waits
<1>20. ASSUME NEW c \in Channel, NEW m \in Machine, OpenChannel(c, m) PROVE Waits'
  <2>1. c \in Call /\ tunnel[m] \in Socket /\ on[tunnel[m]] = m /\ at[tunnel[m]] = "registered"
    BY <1>0, <1>20 DEF OpenChannel, Call, NoDangling, TypeOK
  <2>2. /\ UNCHANGED <<on, at, tunnel>> /\ waiting'[c] = tunnel[m]
        /\ \A d \in Call \ {c} : waiting'[d] = waiting[d]
    BY <1>0, <2>1, <1>20 DEF OpenChannel, TypeOK, socketVars
  <2> QED
    BY <2>1, <2>2, CallsHaveTunnels DEF Waits
<1>21. ASSUME NEW c \in Call, GiveUp(c) PROVE Waits'
  <2>1. UNCHANGED <<on, at, tunnel>> /\ \A d \in Call : waiting'[d] \in {waiting[d], None}
    BY <1>0, <1>21 DEF GiveUp, TypeOK, socketVars
  <2> QED
    BY <2>1, WaitsKept
<1>22. CASE Expires
  <2>1. /\ UNCHANGED <<on, tunnel, waiting>>
        /\ \A v \in Socket : at[v] = "registered" => at'[v] = "registered"
    BY <1>0, <1>22 DEF Expires, TypeOK, socketVars, managerVars, processVars
  <2> QED
    BY <2>1, WaitsKept
<1>23. CASE Sweeps
  <2>1. /\ UNCHANGED <<on, tunnel, waiting>>
        /\ \A v \in Socket : at[v] = "registered" => at'[v] = "registered"
    BY <1>0, <1>23 DEF Sweeps, TypeOK, socketVars, managerVars, processVars
  <2> QED
    BY <2>1, WaitsKept
<1>24. CASE UNCHANGED vars
  <2>1. /\ UNCHANGED <<on, tunnel, waiting>>
        /\ \A v \in Socket : at[v] = "registered" => at'[v] = "registered"
    BY <1>0, <1>24 DEF vars, TypeOK, socketVars, managerVars, directoryVars, processVars
  <2> QED
    BY <2>1, WaitsKept
<1> QED
  BY <1>1, <1>2, <1>3, <1>4, <1>5, <1>6, <1>7, <1>8, <1>9, <1>10, <1>11, <1>12, <1>13,
     <1>14, <1>15, <1>16, <1>17, <1>18, <1>19, <1>20, <1>21, <1>22, <1>23, <1>24 DEF Next

--------------------------------------------------------------------------------
(* The entry of the directory *)

(* Also while a machine drains, which disposes of its tunnel only in the end.   *)
Accounted ==
  owner # None /\ owner \in up =>
    \/ tunnel[owner] # None /\ drain[owner] \in {"no", "waiting"}
    \/ leaked
    \/ flights[owner] > 0
    \/ \E w \in Socket : on[w] = owner /\ at[w] \in {"registering", "rollback"}

LEMMA RemovedOrLeaked ==
  ASSUME TypeOK, NEW m \in Machine, TryRemove(m)
  PROVE  \/ owner' = None
         \/ owner' = owner /\ owner # m /\ leaked' = leaked
         \/ leaked'
BY DEF TypeOK, TryRemove, Remove, directoryVars

(* What accounts for the entry of a machine is left alone.                      *)
LEMMA AccountedKept ==
  ASSUME RelayInv, Accounted, UNCHANGED <<owner, leaked>>, owner # None,
         owner \in up' => owner \in up,
         tunnel'[owner] = tunnel[owner], flights'[owner] = flights[owner],
         drain'[owner] # drain[owner] => drain'[owner] \in {"no", "waiting"},
         \A v \in Socket : on[v] = owner /\ at[v] \in {"registering", "rollback"} =>
           on'[v] = on[v] /\ at'[v] \in {"registering", "rollback"}
  PROVE  Accounted'
BY DEF Accounted

LEMMA AccountedStep ==
  ASSUME RelayInv, Accounted, [Next]_vars
  PROVE  Accounted'
<1> SUFFICES ASSUME owner' # None PROVE Accounted'
  BY DEF Accounted
<1>0. TypeOK /\ Placed
  BY DEF RelayInv
<1>1. ASSUME NEW w \in Socket, Denied(w) PROVE Accounted'
  <2>1. UNCHANGED <<owner, leaked, tunnel, flights, up, drain>>
    BY <1>0, <1>1 DEF Denied, managerVars, directoryVars, processVars
  <2>2. \A v \in Socket : at[v] \in {"registering", "rollback"} =>
          on'[v] = on[v] /\ at'[v] \in {"registering", "rollback"}
    BY <1>0, <1>1 DEF Denied, TypeOK, managerVars, directoryVars, processVars
  <2> QED
    BY <2>1, <2>2, AccountedKept
<1>2. ASSUME NEW w \in Socket, Register(w) PROVE Accounted'
  <2>1. /\ on[w] \in Machine /\ UNCHANGED <<on, owner, leaked, flights, up, drain>>
        /\ at'[w] = "registering" /\ \A v \in Socket \ {w} : at'[v] = at[v]
        /\ \A m \in Machine \ {on[w]} : tunnel'[m] = tunnel[m]
    BY <1>0, <1>2 DEF Register, Placed, TypeOK, directoryVars, processVars
  <2>2. CASE owner = on[w]
    BY <2>1, <2>2 DEF Accounted
  <2>3. CASE owner # on[w]
    BY <1>0, <2>1, <2>3, AccountedKept DEF TypeOK
  <2> QED
    BY <2>2, <2>3
<1>3. ASSUME NEW w \in Socket, Lands(w) PROVE Accounted'
  BY <1>3 DEF Lands, Write, Accounted
<1>4. ASSUME NEW w \in Socket, Refused(w) PROVE Accounted'
  <2>1. /\ on[w] \in Machine /\ UNCHANGED <<on, owner, tunnel, flights, up, drain>>
        /\ \A v \in Socket \ {w} : at'[v] = at[v]
        /\ leaked' = (leaked \/ owner = on[w])
    BY <1>0, <1>4 DEF Refused, Placed, TypeOK, managerVars, processVars
  <2>2. CASE owner = on[w]
    BY <2>1, <2>2 DEF Accounted
  <2>3. CASE owner # on[w]
    <3>1. leaked' = leaked
      BY <1>0, <2>1, <2>3 DEF TypeOK
    <3> QED
      BY <2>1, <2>3, <3>1, AccountedKept
  <2> QED
    BY <2>2, <2>3
<1>5. ASSUME NEW w \in Socket, Registered(w) PROVE Accounted'
  <2>1. /\ on[w] \in Machine /\ UNCHANGED <<on, owner, leaked, flights, up, drain>>
        /\ tunnel'[on[w]] = w /\ drain[on[w]] = "no"
        /\ \A v \in Socket \ {w} : at'[v] = at[v]
        /\ \A m \in Machine \ {on[w]} : tunnel'[m] = tunnel[m]
    BY <1>0, <1>5 DEF Registered, Usable, Placed, TypeOK, directoryVars, processVars
  <2>2. CASE owner = on[w]
    BY <2>1, <2>2, RelayAssumption DEF Accounted
  <2>3. CASE owner # on[w]
    BY <1>0, <2>1, <2>3, AccountedKept DEF TypeOK
  <2> QED
    BY <2>2, <2>3
<1>6. ASSUME NEW w \in Socket, GoesBack(w) PROVE Accounted'
  <2>1. UNCHANGED <<owner, leaked, tunnel, flights, up, drain>>
    BY <1>0, <1>6 DEF GoesBack, managerVars, directoryVars, processVars
  <2>2. \A v \in Socket : at[v] \in {"registering", "rollback"} =>
          on'[v] = on[v] /\ at'[v] \in {"registering", "rollback"}
    BY <1>0, <1>6 DEF GoesBack, AfterUnusable, TypeOK, managerVars, directoryVars,
       processVars
  <2> QED
    BY <2>1, <2>2, AccountedKept
<1>7. ASSUME NEW w \in Socket, RolledBack(w) PROVE Accounted'
  <2>1. /\ on[w] \in Machine /\ UNCHANGED <<on, tunnel, flights, up, drain>>
        /\ \A v \in Socket \ {w} : at'[v] = at[v]
    BY <1>0, <1>7 DEF RolledBack, Placed, TypeOK, managerVars, processVars
  <2>2. TryRemove(on[w])
    BY <1>7 DEF RolledBack
  <2>3. CASE leaked'
    BY <2>3 DEF Accounted
  <2>4. CASE ~leaked'
    <3>1. owner' = owner /\ owner # on[w] /\ leaked' = leaked
      BY <1>0, <2>1, <2>2, <2>4, RemovedOrLeaked
    <3> QED
      BY <2>1, <3>1, AccountedKept
  <2> QED
    BY <2>3, <2>4
<1>8. ASSUME NEW w \in Socket, Closes(w) PROVE Accounted'
  <2>1. UNCHANGED <<owner, leaked, tunnel, flights, up, drain>>
    BY <1>0, <1>8 DEF Closes, managerVars, directoryVars, processVars
  <2>2. \A v \in Socket : at[v] \in {"registering", "rollback"} =>
          on'[v] = on[v] /\ at'[v] \in {"registering", "rollback"}
    BY <1>0, <1>8 DEF Closes, TypeOK, managerVars, directoryVars, processVars
  <2> QED
    BY <2>1, <2>2, AccountedKept
<1>9. ASSUME NEW w \in Socket, OnClose(w) PROVE Accounted'
  <2>1. CASE Ends(w)
    <3>1. /\ on[w] \in Machine
          /\ UNCHANGED <<on, at, owner, leaked, up, drain>>
          /\ flights'[on[w]] = flights[on[w]] + 1
          /\ \A m \in Machine \ {on[w]} : tunnel'[m] = tunnel[m] /\ flights'[m] = flights[m]
      BY <1>0, <2>1, <1>9 DEF OnClose, Ends, Placed, TypeOK, directoryVars, processVars
    <3>2. CASE owner = on[w]
      BY <1>0, <3>1, <3>2 DEF Accounted, TypeOK
    <3>3. CASE owner # on[w]
      BY <1>0, <3>1, <3>3, AccountedKept DEF TypeOK
    <3> QED
      BY <3>2, <3>3
  <2>2. CASE ~Ends(w)
    <3>1. UNCHANGED <<on, at, owner, leaked, tunnel, flights, up, drain>>
      BY <2>2, <1>9 DEF OnClose, managerVars, directoryVars, processVars
    <3> QED
      BY <3>1, AccountedKept
  <2> QED
    BY <2>1, <2>2
<1>10. ASSUME NEW w \in Socket, Pong(w) PROVE Accounted'
  <2>1. UNCHANGED <<owner, leaked, tunnel, flights, up, drain>>
    BY <1>0, <1>10 DEF Pong, Refresh, socketVars, managerVars, processVars
  <2>2. \A v \in Socket : at[v] \in {"registering", "rollback"} =>
          on'[v] = on[v] /\ at'[v] \in {"registering", "rollback"}
    BY <1>0, <1>10 DEF Pong, TypeOK, socketVars, managerVars, processVars
  <2> QED
    BY <2>1, <2>2, AccountedKept
<1>11. ASSUME NEW w \in Socket, NEW m \in Machine, Connect(w, m) PROVE Accounted'
  <2>1. UNCHANGED <<owner, leaked, tunnel, flights, up, drain>>
    BY <1>0, <1>11 DEF Connect, managerVars, directoryVars, processVars
  <2>2. \A v \in Socket : at[v] \in {"registering", "rollback"} =>
          on'[v] = on[v] /\ at'[v] \in {"registering", "rollback"}
    BY <1>0, <1>11 DEF Connect, TypeOK, managerVars, directoryVars, processVars
  <2> QED
    BY <2>1, <2>2, AccountedKept
<1>12. ASSUME NEW c \in Call, NEW w \in Socket, Answer(c, w) PROVE Accounted'
  <2>1. UNCHANGED <<owner, leaked, tunnel, flights, up, drain>>
    BY <1>0, <1>12 DEF Answer, socketVars, directoryVars, processVars
  <2>2. \A v \in Socket : at[v] \in {"registering", "rollback"} =>
          on'[v] = on[v] /\ at'[v] \in {"registering", "rollback"}
    BY <1>0, <1>12 DEF Answer, TypeOK, socketVars, directoryVars, processVars
  <2> QED
    BY <2>1, <2>2, AccountedKept
<1>13. ASSUME NEW m \in Machine, Unregistered(m) PROVE Accounted'
  <2>1. /\ UNCHANGED <<on, at, tunnel>> /\ TryRemove(m)
        /\ up' \subseteq up \cup {m}
        /\ \A n \in Machine \ {m} : flights'[n] = flights[n] /\ drain'[n] = drain[n]
    BY <1>0, <1>13 DEF Unregistered, TypeOK, socketVars, processVars
  <2>2. CASE leaked'
    BY <2>2 DEF Accounted
  <2>3. CASE ~leaked'
    <3>1. owner' = owner /\ owner # m /\ leaked' = leaked
      BY <1>0, <2>1, <2>3, RemovedOrLeaked
    <3>2. owner \in Machine \ {m}
      BY <1>0, <3>1 DEF TypeOK
    <3> QED
      BY <2>1, <3>1, <3>2, AccountedKept
  <2> QED
    BY <2>2, <2>3
<1>14. ASSUME NEW m \in Machine, Drain(m) PROVE Accounted'
  <2>1. /\ UNCHANGED <<on, at, owner, leaked, tunnel, flights, up>>
        /\ drain'[m] = "waiting" /\ \A n \in Machine \ {m} : drain'[n] = drain[n]
    BY <1>0, <1>14 DEF Drain, TypeOK, socketVars, managerVars, directoryVars
  <2> QED
    BY <1>0, <2>1, AccountedKept DEF TypeOK
<1>15. ASSUME NEW m \in Machine, Cleared(m) PROVE Accounted'
  <2>1. /\ UNCHANGED <<on, at, tunnel>> /\ TryRemove(m)
        /\ up' \subseteq up \cup {m}
        /\ \A n \in Machine \ {m} : flights'[n] = flights[n] /\ drain'[n] = drain[n]
    BY <1>0, <1>15 DEF Cleared, TypeOK, socketVars, managerVars
  <2>2. CASE leaked'
    BY <2>2 DEF Accounted
  <2>3. CASE ~leaked'
    <3>1. owner' = owner /\ owner # m /\ leaked' = leaked
      BY <1>0, <2>1, <2>3, RemovedOrLeaked
    <3>2. owner \in Machine \ {m}
      BY <1>0, <3>1 DEF TypeOK
    <3> QED
      BY <2>1, <3>1, <3>2, AccountedKept
  <2> QED
    BY <2>2, <2>3
<1>16. ASSUME NEW m \in Machine, Drained(m) PROVE Accounted'
  <2>1. /\ UNCHANGED <<on, at, owner, leaked, flights, up>> /\ drain[m] = "cleared"
        /\ \A n \in Machine \ {m} : drain'[n] = drain[n] /\ tunnel'[n] = tunnel[n]
    BY <1>0, <1>16 DEF Drained, TypeOK, directoryVars
  <2>2. CASE owner = m
    BY <2>1, <2>2 DEF Accounted
  <2>3. CASE owner # m
    BY <1>0, <2>1, <2>3, AccountedKept DEF TypeOK
  <2> QED
    BY <2>2, <2>3
<1>17. ASSUME NEW m \in Machine, Stop(m) PROVE Accounted'
  <2>1. /\ UNCHANGED <<on, owner, leaked, flights>> /\ up' = up \ {m}
        /\ \A n \in Machine \ {m} : drain'[n] = drain[n] /\ tunnel'[n] = tunnel[n]
        /\ \A v \in Socket : on[v] # m => at'[v] = at[v]
    BY <1>0, <1>17 DEF Stop, TypeOK, directoryVars
  <2>2. CASE owner = m
    BY <2>1, <2>2 DEF Accounted
  <2>3. CASE owner # m
    BY <1>0, <2>1, <2>3, AccountedKept DEF TypeOK
  <2> QED
    BY <2>2, <2>3
<1>18. ASSUME NEW m \in Machine, Boot(m) PROVE Accounted'
  <2>1. /\ UNCHANGED <<on, at, tunnel>> /\ TryRemove(m)
        /\ up' \subseteq up \cup {m}
        /\ \A n \in Machine \ {m} : flights'[n] = flights[n] /\ drain'[n] = drain[n]
    BY <1>0, <1>18 DEF Boot, TypeOK, socketVars, managerVars
  <2>2. CASE leaked'
    BY <2>2 DEF Accounted
  <2>3. CASE ~leaked'
    <3>1. owner' = owner /\ owner # m /\ leaked' = leaked
      BY <1>0, <2>1, <2>3, RemovedOrLeaked
    <3>2. owner \in Machine \ {m}
      BY <1>0, <3>1 DEF TypeOK
    <3> QED
      BY <2>1, <3>1, <3>2, AccountedKept
  <2> QED
    BY <2>2, <2>3
<1>19. ASSUME NEW r \in Request, NEW m \in Machine, Ask(r, m) PROVE Accounted'
  <2>1. UNCHANGED <<owner, leaked, tunnel, flights, up, drain>>
    BY <1>0, <1>19 DEF Ask, socketVars, directoryVars, processVars
  <2>2. \A v \in Socket : at[v] \in {"registering", "rollback"} =>
          on'[v] = on[v] /\ at'[v] \in {"registering", "rollback"}
    BY <1>0, <1>19 DEF Ask, TypeOK, socketVars, directoryVars, processVars
  <2> QED
    BY <2>1, <2>2, AccountedKept
<1>20. ASSUME NEW c \in Channel, NEW m \in Machine, OpenChannel(c, m) PROVE Accounted'
  <2>1. UNCHANGED <<owner, leaked, tunnel, flights, up, drain>>
    BY <1>0, <1>20 DEF OpenChannel, socketVars, directoryVars, processVars
  <2>2. \A v \in Socket : at[v] \in {"registering", "rollback"} =>
          on'[v] = on[v] /\ at'[v] \in {"registering", "rollback"}
    BY <1>0, <1>20 DEF OpenChannel, TypeOK, socketVars, directoryVars, processVars
  <2> QED
    BY <2>1, <2>2, AccountedKept
<1>21. ASSUME NEW c \in Call, GiveUp(c) PROVE Accounted'
  <2>1. UNCHANGED <<owner, leaked, tunnel, flights, up, drain>>
    BY <1>0, <1>21 DEF GiveUp, socketVars, directoryVars, processVars
  <2>2. \A v \in Socket : at[v] \in {"registering", "rollback"} =>
          on'[v] = on[v] /\ at'[v] \in {"registering", "rollback"}
    BY <1>0, <1>21 DEF GiveUp, TypeOK, socketVars, directoryVars, processVars
  <2> QED
    BY <2>1, <2>2, AccountedKept
<1>22. CASE Expires
  <2>1. UNCHANGED <<owner, leaked, tunnel, flights, up, drain>>
    BY <1>0, <1>22 DEF Expires, socketVars, managerVars, processVars
  <2>2. \A v \in Socket : at[v] \in {"registering", "rollback"} =>
          on'[v] = on[v] /\ at'[v] \in {"registering", "rollback"}
    BY <1>0, <1>22 DEF Expires, TypeOK, socketVars, managerVars, processVars
  <2> QED
    BY <2>1, <2>2, AccountedKept
<1>23. CASE Sweeps
  BY <1>23 DEF Sweeps
<1>24. CASE UNCHANGED vars
  <2>1. UNCHANGED <<owner, leaked, tunnel, flights, up, drain>>
    BY <1>0, <1>24 DEF vars, socketVars, managerVars, directoryVars, processVars
  <2>2. \A v \in Socket : at[v] \in {"registering", "rollback"} =>
          on'[v] = on[v] /\ at'[v] \in {"registering", "rollback"}
    BY <1>0, <1>24 DEF vars, TypeOK, socketVars, managerVars, directoryVars, processVars
  <2> QED
    BY <2>1, <2>2, AccountedKept
<1> QED
  BY <1>1, <1>2, <1>3, <1>4, <1>5, <1>6, <1>7, <1>8, <1>9, <1>10, <1>11, <1>12, <1>13,
     <1>14, <1>15, <1>16, <1>17, <1>18, <1>19, <1>20, <1>21, <1>22, <1>23, <1>24 DEF Next

--------------------------------------------------------------------------------
(* Theorems *)

LEMMA RelayStep == RelayInv /\ [Next]_vars => RelayInv'
BY TypeStep, PlacedStep, NoDanglingStep, WaitsStep DEF RelayInv

(* Every reachable state of the relay satisfies the invariant.                  *)
THEOREM RelayInvariant == Spec => []RelayInv
BY RelayInit, RelayStep, PTL DEF Spec

(* Sockets, tunnels, calls and the directory are always what the code can make  *)
(* of them.                                                                    *)
THEOREM RelayTypeCorrect == Spec => []TypeOK
BY RelayInvariant, PTL DEF RelayInv

(* Whatever sockets register at once and whenever they close, a tunnel's close  *)
(* event is still to come and no open registered socket is left without a tunnel. *)
THEOREM NoDanglingAlways == Spec => []NoDangling
BY RelayInvariant, PTL DEF RelayInv

(* No client ever waits in a tunnel that was replaced, closed or drained.       *)
THEOREM NoneStrandedAlways == Spec => []NoneStranded
<1>1. RelayInv => NoneStranded
  BY CallsHaveTunnels DEF NoneStranded
<1> QED
  BY <1>1, RelayInvariant, PTL

(* The directory names a running machine without a tunnel only for a while, or   *)
(* after a failed call: register rolls back, unregister and drain remove.        *)
THEOREM NoGhostEntryAlways == Spec => []NoGhostEntry
<1>1. Init => Accounted
  BY DEF Init, Accounted
<1>2. RelayInv /\ Accounted /\ [Next]_vars => Accounted'
  BY AccountedStep
<1>3. Accounted => NoGhostEntry
  BY DEF Accounted, NoGhostEntry
<1> QED
  BY <1>1, <1>2, <1>3, RelayInvariant, PTL DEF Spec

(* Only another socket of the host, or the end of the relay, takes the tunnel    *)
(* from a socket that is open: the close handler of an older one cannot.         *)
LEMMA OnlyReplacedStep ==
  ASSUME RelayInv, [Next]_vars, NEW m \in Machine,
         tunnel[m] # None, ready[tunnel[m]] = "open", tunnel'[m] # tunnel[m]
  PROVE  \/ \E w \in Socket \ {tunnel[m]} :
              on[w] = m /\ at[w] # at'[w] /\ at'[w] \in {"registering", "registered"}
         \/ drain[m] = "cleared" \/ m \notin up'
<1> DEFINE Goal == \/ \E w \in Socket \ {tunnel[m]} :
                        /\ on[w] = m /\ at[w] # at'[w]
                        /\ at'[w] \in {"registering", "registered"}
                   \/ drain[m] = "cleared" \/ m \notin up'
<1>0. TypeOK /\ NoDangling
  BY DEF RelayInv
<1>1. ASSUME NEW w \in Socket, Denied(w) PROVE Goal
  BY <1>1 DEF Denied, managerVars
<1>2. ASSUME NEW w \in Socket, Register(w) PROVE Goal
  <2>1. on[w] = m /\ at[w] = "auth" /\ at'[w] = "registering"
    BY <1>0, <1>2 DEF Register, TypeOK
  <2>2. w # tunnel[m]
    BY <1>0, <2>1 DEF NoDangling
  <2> QED
    BY <2>1, <2>2
<1>3. ASSUME NEW w \in Socket, Lands(w) PROVE Goal
  BY <1>3 DEF Lands, managerVars
<1>4. ASSUME NEW w \in Socket, Refused(w) PROVE Goal
  BY <1>4 DEF Refused, managerVars
<1>5. ASSUME NEW w \in Socket, Registered(w) PROVE Goal
  <2>1. on[w] = m /\ at[w] = "registering" /\ at'[w] = "registered"
    BY <1>0, <1>5 DEF Registered, TypeOK
  <2>2. w # tunnel[m]
    BY <1>0, <2>1 DEF NoDangling
  <2> QED
    BY <2>1, <2>2
<1>6. ASSUME NEW w \in Socket, GoesBack(w) PROVE Goal
  BY <1>6 DEF GoesBack, managerVars
<1>7. ASSUME NEW w \in Socket, RolledBack(w) PROVE Goal
  BY <1>7 DEF RolledBack, managerVars
<1>8. ASSUME NEW w \in Socket, Closes(w) PROVE Goal
  BY <1>8 DEF Closes, managerVars
<1>9. ASSUME NEW w \in Socket, OnClose(w) PROVE Goal
  BY <1>0, <1>9 DEF OnClose, Ends, TypeOK, managerVars
<1>10. ASSUME NEW w \in Socket, Pong(w) PROVE Goal
  BY <1>10 DEF Pong, managerVars
<1>11. ASSUME NEW w \in Socket, NEW n \in Machine, Connect(w, n) PROVE Goal
  BY <1>11 DEF Connect, managerVars
<1>12. ASSUME NEW c \in Call, NEW w \in Socket, Answer(c, w) PROVE Goal
  BY <1>12 DEF Answer
<1>13. ASSUME NEW n \in Machine, Unregistered(n) PROVE Goal
  BY <1>13 DEF Unregistered
<1>14. ASSUME NEW n \in Machine, Drain(n) PROVE Goal
  BY <1>14 DEF Drain, managerVars
<1>15. ASSUME NEW n \in Machine, Cleared(n) PROVE Goal
  BY <1>15 DEF Cleared, managerVars
<1>16. ASSUME NEW n \in Machine, Drained(n) PROVE Goal
  BY <1>0, <1>16 DEF Drained, TypeOK
<1>17. ASSUME NEW n \in Machine, Stop(n) PROVE Goal
  BY <1>0, <1>17 DEF Stop, TypeOK
<1>18. ASSUME NEW n \in Machine, Boot(n) PROVE Goal
  BY <1>18 DEF Boot, managerVars
<1>19. ASSUME NEW r \in Request, NEW n \in Machine, Ask(r, n) PROVE Goal
  BY <1>19 DEF Ask
<1>20. ASSUME NEW c \in Channel, NEW n \in Machine, OpenChannel(c, n) PROVE Goal
  BY <1>20 DEF OpenChannel
<1>21. ASSUME NEW c \in Call, GiveUp(c) PROVE Goal
  BY <1>21 DEF GiveUp
<1>22. CASE Expires
  BY <1>22 DEF Expires, managerVars
<1>23. CASE Sweeps
  BY <1>23 DEF Sweeps, managerVars
<1>24. CASE UNCHANGED vars
  BY <1>24 DEF vars, managerVars
<1> QED
  BY <1>1, <1>2, <1>3, <1>4, <1>5, <1>6, <1>7, <1>8, <1>9, <1>10, <1>11, <1>12, <1>13,
     <1>14, <1>15, <1>16, <1>17, <1>18, <1>19, <1>20, <1>21, <1>22, <1>23, <1>24 DEF Next

(* The same of every step of the relay, from its invariant.                      *)
THEOREM OnlyReplacedAlways == Spec => OnlyReplaced
<1>1. RelayInv /\ [Next]_vars =>
        [\A m \in Machine :
           tunnel[m] # None /\ ready[tunnel[m]] = "open" /\ tunnel'[m] # tunnel[m] =>
             \/ \E w \in Socket \ {tunnel[m]} :
                  on[w] = m /\ at[w] # at'[w] /\ at'[w] \in {"registering", "registered"}
             \/ drain[m] = "cleared" \/ m \notin up']_vars
  BY OnlyReplacedStep
<1> QED
  BY <1>1, RelayInvariant, PTL DEF Spec, OnlyReplaced

--------------------------------------------------------------------------------
(* The relay implements HostReach *)

(* The two ways a line and its sockets change, as steps of HostReach.            *)
LEMMA Discards ==
  ASSUME UNCHANGED <<tunnel, waiting>>, Spent \subseteq Spent'
  PROVE  Reach!Next
<1>1. Spent' \subseteq Socket
  BY DEF Spent
<1> QED
  BY <1>1 DEF Reach!Next, Reach!Discard, Reach!Spend

LEMMA Turns ==
  ASSUME NEW m \in Machine, NEW l \in Socket \cup {None}, l \notin Spent,
         tunnel' = [tunnel EXCEPT ![m] = l],
         waiting' = [c \in Call |-> IF waiting[c] = tunnel[m] THEN None ELSE waiting[c]],
         Spent \subseteq Spent', l # None => l \in Spent'
  PROVE  Reach!Next
<1>1. Spent' \subseteq Socket
  BY DEF Spent
<1>2. Reach!Turn(m, l)
  BY <1>1 DEF Reach!Turn, Reach!Spend
<1> QED
  BY <1>2 DEF Reach!Next

LEMMA ReachInit == Init => Reach!Init
BY DEF Init, Reach!Init, Spent

LEMMA ReachStep ==
  ASSUME RelayInv, Next
  PROVE  Reach!Next \/ UNCHANGED <<tunnel, waiting, Spent>>
<1> DEFINE Goal == Reach!Next \/ UNCHANGED <<tunnel, waiting, Spent>>
<1>0. TypeOK /\ Placed /\ NoDangling /\ Waits /\ None \notin Spent
  BY RelayAssumption DEF RelayInv, Spent
<1>1. ASSUME UNCHANGED <<tunnel, waiting>>, Spent \subseteq Spent' PROVE Goal
  BY <1>1, Discards
<1>a. ASSUME UNCHANGED <<tunnel, waiting, at>> PROVE Goal
  BY <1>a DEF Spent
<1>2. ASSUME NEW w \in Socket, Denied(w) PROVE Goal
  <2>1. Spent \subseteq Spent'
    BY <1>0, <1>2 DEF Denied, Spent, TypeOK
  <2> QED
    BY <1>1, <1>2, <2>1 DEF Denied, managerVars
<1>3. ASSUME NEW w \in Socket, Register(w) PROVE Goal
  <2>1. on[w] \in Machine /\ Spent \subseteq Spent'
    BY <1>0, <1>3 DEF Register, Spent, TypeOK, Placed
  <2>2. /\ tunnel' = [tunnel EXCEPT ![on[w]] = None]
        /\ waiting' = [c \in Call |-> IF waiting[c] = tunnel[on[w]] THEN None ELSE waiting[c]]
    BY <1>3 DEF Register, DisposeTunnel
  <2> QED
    BY <1>0, <2>1, <2>2, Turns
<1>4. ASSUME NEW w \in Socket, Refused(w) PROVE Goal
  <2>1. Spent \subseteq Spent'
    BY <1>0, <1>4 DEF Refused, Spent, TypeOK
  <2> QED
    BY <1>1, <1>4, <2>1 DEF Refused, managerVars
<1>5. ASSUME NEW w \in Socket, Registered(w) PROVE Goal
  <2>1. on[w] \in Machine /\ Spent \subseteq Spent' /\ w \notin Spent /\ w \in Spent'
    BY <1>0, <1>5 DEF Registered, Spent, TypeOK, Placed
  <2>2. /\ tunnel' = [tunnel EXCEPT ![on[w]] = w]
        /\ waiting' = [c \in Call |-> IF waiting[c] = tunnel[on[w]] THEN None ELSE waiting[c]]
    BY <1>5 DEF Registered, DisposeRaced, DisposeTunnel
  <2> QED
    BY <2>1, <2>2, Turns
<1>6. ASSUME NEW w \in Socket, GoesBack(w) PROVE Goal
  <2>1. Spent \subseteq Spent'
    BY <1>0, <1>6 DEF GoesBack, AfterUnusable, Spent, TypeOK
  <2> QED
    BY <1>1, <1>6, <2>1 DEF GoesBack, managerVars
<1>7. ASSUME NEW w \in Socket, RolledBack(w) PROVE Goal
  <2>1. Spent \subseteq Spent'
    BY <1>0, <1>7 DEF RolledBack, Spent, TypeOK
  <2> QED
    BY <1>1, <1>7, <2>1 DEF RolledBack, managerVars
<1>8. ASSUME NEW w \in Socket, OnClose(w) PROVE Goal
  <2>1. CASE Ends(w)
    <3>1. on[w] \in Machine /\ Spent \subseteq Spent'
      BY <1>0, <1>8, <2>1 DEF OnClose, Ends, Spent, TypeOK, Placed
    <3>2. /\ tunnel' = [tunnel EXCEPT ![on[w]] = None]
          /\ waiting' = [c \in Call |-> IF waiting[c] = tunnel[on[w]] THEN None ELSE waiting[c]]
      BY <1>8, <2>1 DEF OnClose
    <3> QED
      BY <1>0, <3>1, <3>2, Turns
  <2>2. CASE ~Ends(w)
    BY <1>8, <1>a, <2>2 DEF OnClose, managerVars
  <2> QED
    BY <2>1, <2>2
<1>9. ASSUME NEW w \in Socket, NEW m \in Machine, Connect(w, m) PROVE Goal
  <2>1. Spent \subseteq Spent'
    BY <1>0, <1>9 DEF Connect, Spent, TypeOK
  <2> QED
    BY <1>1, <1>9, <2>1 DEF Connect, managerVars
<1>10. ASSUME NEW c \in Call, NEW m \in Machine, waiting[c] = None, tunnel[m] # None,
              waiting' = [waiting EXCEPT ![c] = tunnel[m]], UNCHANGED <<tunnel, at>>
       PROVE  Goal
  <2>1. Reach!Take(c, m)
    BY <1>10 DEF Reach!Take, Spent
  <2> QED
    BY <2>1 DEF Reach!Next
<1>11. ASSUME NEW c \in Call, waiting' = [waiting EXCEPT ![c] = None], UNCHANGED <<tunnel, at>>
       PROVE  Goal
  <2>1. Reach!LetGo(c)
    BY <1>11 DEF Reach!LetGo, Spent
  <2> QED
    BY <2>1 DEF Reach!Next
<1>12. ASSUME NEW r \in Request, NEW m \in Machine, Ask(r, m) PROVE Goal
  BY <1>10, <1>12 DEF Ask, Call, socketVars
<1>13. ASSUME NEW c \in Channel, NEW m \in Machine, OpenChannel(c, m) PROVE Goal
  BY <1>10, <1>13 DEF OpenChannel, Call, socketVars
<1>14. ASSUME NEW c \in Call, NEW w \in Socket, Answer(c, w) PROVE Goal
  BY <1>11, <1>14 DEF Answer, socketVars
<1>15. ASSUME NEW c \in Call, GiveUp(c) PROVE Goal
  BY <1>11, <1>15 DEF GiveUp, socketVars
<1>16. ASSUME NEW m \in Machine, Drained(m) PROVE Goal
  <2>1. /\ tunnel' = [tunnel EXCEPT ![m] = None] /\ at' = at
        /\ waiting' = [c \in Call |-> IF waiting[c] = tunnel[m] THEN None ELSE waiting[c]]
    BY <1>16 DEF Drained, DisposeTunnel
  <2>2. Spent \subseteq Spent'
    BY <2>1 DEF Spent
  <2> QED
    BY <1>0, <2>1, <2>2, Turns
<1>17. ASSUME NEW m \in Machine, Stop(m) PROVE Goal
  <2>1. tunnel' = [tunnel EXCEPT ![m] = None]
    BY <1>17 DEF Stop
  <2>2. Spent \subseteq Spent'
    BY <1>17 DEF Stop, Spent
  <2>3. ASSUME NEW c \in Call
        PROVE  waiting[c] # None /\ on[waiting[c]] = m <=> waiting[c] # None /\ waiting[c] = tunnel[m]
    BY <1>0, CallsHaveTunnels, RelayAssumption DEF RelayInv, NoDangling, TypeOK
  <2>4. waiting' = [c \in Call |-> IF waiting[c] = tunnel[m] THEN None ELSE waiting[c]]
    <3>1. waiting' = [c \in Call |->
             IF waiting[c] # None /\ on[waiting[c]] = m THEN None ELSE waiting[c]]
      BY <1>17 DEF Stop
    <3> QED
      BY <2>3, <3>1
  <2> QED
    BY <1>0, <2>1, <2>2, <2>4, Turns
<1>18. ASSUME NEW m \in Machine, Unregistered(m) PROVE Goal
  BY <1>a, <1>18 DEF Unregistered, socketVars
<1>19. ASSUME NEW w \in Socket, Lands(w) \/ Closes(w) \/ Pong(w) PROVE Goal
  BY <1>a, <1>19 DEF Lands, Closes, Pong, socketVars, managerVars
<1>20. ASSUME NEW m \in Machine, Drain(m) \/ Cleared(m) \/ Boot(m) PROVE Goal
  BY <1>a, <1>20 DEF Drain, Cleared, Boot, socketVars, managerVars
<1>21. ASSUME Expires \/ Sweeps PROVE Goal
  BY <1>a, <1>21 DEF Expires, Sweeps, socketVars, managerVars
<1> HIDE DEF Goal
<1>22. Goal
  BY <1>2, <1>3, <1>4, <1>5, <1>6, <1>7, <1>8, <1>9, <1>12, <1>13, <1>14, <1>15, <1>16, <1>17,
     <1>18, <1>19, <1>20, <1>21 DEF Next
<1> QED
  BY <1>22 DEF Goal

(* For any machines, sockets and calls, every step of the relay is a step of     *)
(* HostReach or invisible there.                                              *)
THEOREM RelayKeepsReach == Spec => KeepsReach
<1>1. RelayInv /\ [Next]_vars => [Reach!Next]_(Reach!reachVars)
  <2> SUFFICES ASSUME RelayInv, [Next]_vars PROVE [Reach!Next]_(Reach!reachVars)
    OBVIOUS
  <2>1. CASE Next
    BY <2>1, ReachStep DEF Reach!reachVars
  <2>2. CASE UNCHANGED vars
    BY <2>2 DEF vars, socketVars, managerVars, Spent, Reach!reachVars
  <2> QED
    BY <2>1, <2>2
<1> QED
  BY <1>1, ReachInit, RelayInvariant, PTL DEF Spec, KeepsReach, Reach!Spec
================================================================================
