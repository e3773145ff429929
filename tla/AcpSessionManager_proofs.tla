------------------------ MODULE AcpSessionManager_proofs ------------------------
(***************************************************************************)
(* Proofs about AcpSessionManager, for any sessions, workspaces, adapters,  *)
(* limits and number of restarts.                                          *)
(***************************************************************************)
EXTENDS AcpSessionManager, FiniteSetTheorems, TLAPS

--------------------------------------------------------------------------------
(* The invariant *)

(* The adapters a session speaks of: processes it has, transcripts it names.  *)
Names(s) ==
  {a \in Adapter :
     \/ runtimes[s] # None /\ a \in {runtimes[s].acp, runtimes[s].child}
     \/ creations[s] # None /\ a \in {creations[s].resume, creations[s].child}
     \/ zombies[s] # None /\ a \in {zombies[s].acp, zombies[s].child}
     \/ offline[s] # None /\ a = offline[s].acp
     \/ rows[s] # None /\ a = rows[s].acp}

(* No adapter is spoken of before it is started, nor by two sessions.         *)
Named ==
  \A s \in Session : \A a \in Names(s) :
    proc[a] # "none" /\ \A t \in Session \ {s} : a \notin Names(t)

HasChild(s, a) ==
  \/ runtimes[s] # None /\ runtimes[s].child = a
  \/ creations[s] # None /\ creations[s].child = a

(* A creation is of a session that has no runtime, and knows what it loads.    *)
Serial ==
  \A s \in Session : creations[s] # None =>
    /\ runtimes[s] = None
    /\ creations[s].at = "cwd" <=> creations[s].child = None
    /\ offline[s] = IF creations[s].resume = None THEN None
                    ELSE [workspace |-> creations[s].workspace, acp |-> creations[s].resume]

(* What an adapter writes is what its session says it writes.                 *)
Loads(c) ==
  /\ c.at = "initialize" => holds[c.child] = None
  /\ c.at = "open" => holds[c.child] = c.resume
  /\ c.at \in {"mode", "ready"} =>
       holds[c.child] = (IF c.resume = None THEN c.child ELSE c.resume)
  /\ c.at = "ready" => mode[c.child] # "bypass"

Holding ==
  \A s \in Session :
    /\ runtimes[s] # None => holds[runtimes[s].child] = runtimes[s].acp
    /\ creations[s] # None => Loads(creations[s])

(* What is open runs and is somebody's; what runs is open or was given up.    *)
Processes ==
  \A a \in Adapter :
    /\ proc[a] = "none" => holds[a] = None
    /\ a \in open => proc[a] = "up" /\ \E s \in Session : HasChild(s, a)
    /\ proc[a] = "up" => a \in open \cup killed \cup lost

(* Only what ended is marked as dead.                                         *)
Vital ==
  \A s \in Session : runtimes[s] # None => (runtimes[s].dead <=> ~Up(runtimes[s].child))

(* Runtimes wait for their exit in zombies only after they were disposed of.  *)
Stages ==
  \A s \in Session :
    /\ disposal = "done" => runtimes[s] = None /\ creations[s] = None
    /\ disposal # "done" => zombies[s] = None

Ownership == Named /\ Serial /\ Holding /\ Processes /\ Vital /\ Stages

ManagerInv == TypeOK /\ Ownership

LEMMA ManagerInit == Init => ManagerInv
<1> SUFFICES ASSUME Init PROVE ManagerInv
  OBVIOUS
<1>1. TypeOK
  BY DEF Init, Nothing, TypeOK, Mode
<1>2. Named /\ Serial /\ Holding /\ Vital /\ Stages
  BY DEF Init, Nothing, Names, Named, Serial, Holding, Vital, Stages
<1>3. Processes
  BY DEF Init, Processes
<1> QED
  BY <1>1, <1>2, <1>3 DEF ManagerInv, Ownership

--------------------------------------------------------------------------------
(* Type correctness *)

LEMMA RecordsAreRecords ==
  /\ \A r \in Runtime : RecordOf(r) \in Record
  /\ \A r \in Record : r # None
  /\ \A r \in Runtime : r # None
  /\ \A r \in Creation : r # None
  /\ \A a \in Adapter : a # None
BY NoneAssumption DEF Record, Runtime, RecordOf

LEMMA SavedRows ==
  ASSUME TypeOK, NEW s \in Session, NEW r \in Runtime, Save(s, r)
  PROVE  rows' \in [Session -> Record \cup {None}]
BY RecordsAreRecords DEF TypeOK, Save

LEMMA EvictedTypes ==
  ASSUME TypeOK, NEW map \in [Session -> Runtime \cup {None}], NEW victims, Evict(map, victims)
  PROVE  runtimes' \in [Session -> Runtime \cup {None}] /\ forgot' \subseteq Session
BY DEF TypeOK, Evict, Victims, Dead

LEMMA MarkDeadTypes ==
  ASSUME TypeOK, NEW a \in Adapter, MarkDead(a)
  PROVE  /\ runtimes' \in [Session -> Runtime \cup {None}] /\ forgot' \subseteq Session
         /\ zombies' \in [Session -> Runtime \cup {None}]
         /\ rows' \in [Session -> Record \cup {None}]
<1>1. CASE \E s \in Session, victims \in SUBSET Session :
             /\ runtimes[s] # None
             /\ Evict([runtimes EXCEPT ![s].dead = TRUE], victims)
             /\ Save(s, runtimes[s]) /\ UNCHANGED zombies
  <2>1. PICK s \in Session, victims \in SUBSET Session :
          /\ runtimes[s] # None
          /\ Evict([runtimes EXCEPT ![s].dead = TRUE], victims)
          /\ Save(s, runtimes[s]) /\ UNCHANGED zombies
    BY <1>1
  <2>2. runtimes[s] \in Runtime
    BY <2>1 DEF TypeOK
  <2>3. [runtimes EXCEPT ![s].dead = TRUE] \in [Session -> Runtime \cup {None}]
    BY <2>2 DEF TypeOK, Runtime
  <2> QED
    BY <2>1, <2>2, <2>3, EvictedTypes, SavedRows DEF TypeOK
<1>2. CASE \E s \in Session : /\ zombies[s] # None /\ Save(s, zombies[s])
                              /\ zombies' = [zombies EXCEPT ![s] = None]
                              /\ UNCHANGED <<runtimes, forgot>>
  <2>1. PICK s \in Session : /\ zombies[s] # None /\ Save(s, zombies[s])
                             /\ zombies' = [zombies EXCEPT ![s] = None]
                             /\ UNCHANGED <<runtimes, forgot>>
    BY <1>2
  <2>2. zombies[s] \in Runtime
    BY <2>1 DEF TypeOK
  <2>3. rows' \in [Session -> Record \cup {None}]
    BY <2>1, <2>2, SavedRows
  <2> QED
    BY <2>1, <2>3 DEF TypeOK
<1>3. CASE UNCHANGED <<runtimes, forgot, rows, zombies>>
  BY <1>3 DEF TypeOK
<1> QED
  BY <1>1, <1>2, <1>3 DEF MarkDead

(* The child of a creation under way is an adapter, and what it made a runtime. *)
LEMMA LoserIsAdapter ==
  ASSUME ManagerInv, NEW s \in Session, creations[s] # None, creations[s].at # "cwd"
  PROVE  creations[s].child \in Adapter
BY DEF ManagerInv, Ownership, Serial, TypeOK, Creation

LEMMA MadeIsRuntime ==
  ASSUME ManagerInv, NEW s \in Session, Busy(s, "ready")
  PROVE  [workspace |-> creations[s].workspace, acp |-> holds[creations[s].child],
          child |-> creations[s].child, dead |-> ~Up(creations[s].child)] \in Runtime
<1>1. creations[s] \in Creation /\ creations[s].child \in Adapter
  BY LoserIsAdapter DEF Busy, ManagerInv, TypeOK
<1>2. holds[creations[s].child] \in Adapter
  BY <1>1, NoneAssumption DEF Busy, ManagerInv, Ownership, Holding, Loads, Creation
<1> QED
  BY <1>1, <1>2 DEF Runtime, Creation

(* Every step leaves the maps, the table and the processes well formed.       *)
LEMMA TypeStep ==
  ASSUME ManagerInv, [Next]_vars
  PROVE  TypeOK'
<1> USE DEF ManagerInv
<1>1. ASSUME NEW s \in Session, NEW w \in Workspace, CreateExisting(s, w) PROVE TypeOK'
  <2>1. runtimes[s] \in Runtime /\ RecordOf(runtimes[s]) \in Record
    BY <1>1, RecordsAreRecords DEF CreateExisting, TypeOK
  <2> QED
    BY <1>1, <2>1 DEF CreateExisting, Tell, TypeOK, mapVars, adapterVars
<1>2. ASSUME NEW s \in Session, NEW w \in Workspace, CreateNew(s, w) PROVE TypeOK'
  <2>1. creations' \in [Session -> Creation \cup {None}]
    BY <1>2 DEF CreateNew, Start, Creation, TypeOK
  <2> QED
    BY <1>2, <2>1 DEF CreateNew, TypeOK, adapterVars, historyVars
<1>3. ASSUME NEW s \in Session, Resurrect(s) PROVE TypeOK'
  <2>1. offline[s] \in Record
    BY <1>3 DEF Resurrect, MayResurrect, TypeOK
  <2>2. creations' \in [Session -> Creation \cup {None}]
    BY <1>3, <2>1 DEF Resurrect, Start, Record, Creation, TypeOK
  <2> QED
    BY <1>3, <2>2 DEF Resurrect, TypeOK, adapterVars, historyVars
<1>4. ASSUME NEW s \in Session, CwdFails(s) PROVE TypeOK'
  <2>1. creations[s] \in Creation
    BY <1>4 DEF CwdFails, Busy, TypeOK
  <2>2. creations' \in [Session -> Creation \cup {None}]
    BY <1>4, <2>1 DEF CwdFails, Settle, Creation, TypeOK
  <2> QED
    BY <1>4, <2>2 DEF CwdFails, TypeOK, adapterVars, historyVars
<1>5. ASSUME NEW s \in Session, NEW a \in Adapter, Spawn(s, a) PROVE TypeOK'
  <2>1. creations[s] \in Creation
    BY <1>5 DEF Spawn, Busy, TypeOK
  <2>2. creations' \in [Session -> Creation \cup {None}]
    BY <1>5, <2>1 DEF Spawn, Creation, TypeOK
  <2> QED
    BY <1>5, <2>2 DEF Spawn, TypeOK, historyVars
<1>6. ASSUME NEW s \in Session, Initialized(s) PROVE TypeOK'
  <2>1. creations[s] \in Creation
    BY <1>6 DEF Initialized, Busy, TypeOK
  <2>2. creations' \in [Session -> Creation \cup {None}]
    BY <1>6, <2>1 DEF Initialized, Goto, Creation, TypeOK
  <2>3. creations[s].child \in Adapter /\ creations[s].resume \in Adapter \cup {None}
    BY <1>6, <2>1 DEF Initialized, Up, Creation, TypeOK
  <2>4. holds' \in [Adapter -> Adapter \cup {None}] /\ mode' \in [Adapter -> Mode]
    BY <1>6, <2>3 DEF Initialized, Mode, TypeOK
  <2> QED
    BY <1>6, <2>2, <2>4 DEF Initialized, TypeOK, historyVars
<1>7. ASSUME NEW s \in Session, NEW m \in Mode, Opened(s, m) PROVE TypeOK'
  <2>1. creations[s] \in Creation
    BY <1>7 DEF Opened, Busy, TypeOK
  <2>2. creations' \in [Session -> Creation \cup {None}]
    BY <1>7, <2>1 DEF Opened, Goto, ForceDefault, Creation, TypeOK
  <2>3. creations[s].child \in Adapter /\ creations[s].resume \in Adapter \cup {None}
    BY <1>7, <2>1 DEF Opened, Up, Creation, TypeOK
  <2>4. holds' \in [Adapter -> Adapter \cup {None}] /\ mode' \in [Adapter -> Mode]
    BY <1>7, <2>3 DEF Opened, Mode, TypeOK
  <2> QED
    BY <1>7, <2>2, <2>4 DEF Opened, TypeOK, historyVars
<1>8. ASSUME NEW s \in Session, Defaulted(s) PROVE TypeOK'
  <2>1. creations[s] \in Creation
    BY <1>8 DEF Defaulted, Busy, TypeOK
  <2>2. creations' \in [Session -> Creation \cup {None}]
    BY <1>8, <2>1 DEF Defaulted, Goto, Creation, TypeOK
  <2>3. creations[s].child \in Adapter /\ creations[s].resume \in Adapter \cup {None}
    BY <1>8, <2>1 DEF Defaulted, Up, Creation, TypeOK
  <2>4. holds' \in [Adapter -> Adapter \cup {None}] /\ mode' \in [Adapter -> Mode]
    BY <1>8, <2>3 DEF Defaulted, Mode, TypeOK
  <2> QED
    BY <1>8, <2>2, <2>4 DEF Defaulted, TypeOK, historyVars
<1>9. ASSUME NEW s \in Session, CreationFails(s) PROVE TypeOK'
  <2>1. creations[s] \in Creation
    BY <1>9 DEF CreationFails, TypeOK
  <2>2. creations' \in [Session -> Creation \cup {None}]
    BY <1>9, <2>1 DEF CreationFails, Settle, Creation, TypeOK
  <2>3. creations[s].child \in Adapter \cup {None}
    BY <2>1 DEF Creation
  <2>4. open' \subseteq Adapter
    BY <1>9 DEF CreationFails, Drop, TypeOK
  <2>5. killed' \subseteq Adapter
    BY <1>9, <2>3, LoserIsAdapter DEF CreationFails, Drop, TypeOK
  <2> QED
    BY <1>9, <2>2, <2>4, <2>5 DEF CreationFails, TypeOK, historyVars
<1>10. ASSUME NEW s \in Session, Created(s) PROVE TypeOK'
  <2> DEFINE c == creations[s]
             made == [workspace |-> c.workspace, acp |-> holds[c.child], child |-> c.child,
                      dead |-> ~Up(c.child)]
  <2>1. c \in Creation
    BY <1>10 DEF Created, Busy, TypeOK
  <2>2. made \in Runtime
    BY <1>10, <2>1, MadeIsRuntime DEF Created
  <2>3. rows' \in [Session -> Record \cup {None}] /\ told' \in [Session -> SUBSET Record]
    BY <1>10, <2>2, SavedRows, RecordsAreRecords DEF Created, Tell, TypeOK
  <2>4. runtimes' \in [Session -> Runtime \cup {None}] /\ forgot' \subseteq Session
    BY <1>10, <2>2 DEF Created, TypeOK
  <2>5. creations' \in [Session -> Creation \cup {None}]
    BY <1>10 DEF Created, Settle, TypeOK
  <2>6. offline' \in [Session -> Record \cup {None}]
    BY <1>10 DEF Created, TypeOK
  <2> QED
    BY <1>10, <2>3, <2>4, <2>5, <2>6 DEF Created, TypeOK, adapterVars
<1>11. ASSUME NEW s \in Session, Emit(s) PROVE TypeOK'
  <2>1. rows' \in [Session -> Record \cup {None}]
    BY <1>11, SavedRows DEF Emit, TypeOK
  <2> QED
    BY <1>11, <2>1 DEF Emit, TypeOK, mapVars, adapterVars, historyVars
<1>12. ASSUME NEW s \in Session, NEW m \in Mode, SetMode(s, m) PROVE TypeOK'
  <2>1. rows' \in [Session -> Record \cup {None}]
    BY <1>12, SavedRows DEF SetMode, TypeOK
  <2> QED
    BY <1>12, <2>1 DEF SetMode, Mode, TypeOK, mapVars
<1>13. ASSUME NEW a \in Adapter, Exit(a) PROVE TypeOK'
  BY <1>13, MarkDeadTypes DEF Exit, TypeOK
<1>14. ASSUME NEW a \in Adapter, Disconnect(a) PROVE TypeOK'
  BY <1>14, MarkDeadTypes DEF Disconnect, TypeOK
<1>15. CASE Dispose
  BY <1>15 DEF Dispose, TypeOK, mapVars, adapterVars, historyVars
<1>16. CASE Disposed
  <2>1. \A s \in Session : runtimes[s] # None => runtimes[s].child \in Adapter
    BY DEF TypeOK, Runtime
  <2>2. killed' \subseteq Adapter /\ open' \subseteq Adapter
    BY <1>16, <2>1 DEF Disposed, TypeOK
  <2>3. zombies' \in [Session -> Runtime \cup {None}] /\ runtimes' \in [Session -> Runtime \cup {None}]
    BY <1>16 DEF Disposed, Nothing, TypeOK
  <2> QED
    BY <1>16, <2>2, <2>3 DEF Disposed, TypeOK, historyVars
<1>17. ASSUME NEW read \in BOOLEAN, Restart(read) PROVE TypeOK'
  BY <1>17 DEF Restart, Nothing, TypeOK
<1>18. CASE UNCHANGED vars
  BY <1>18 DEF vars, TypeOK, mapVars, adapterVars, historyVars
<1> QED
  BY <1>1, <1>2, <1>3, <1>4, <1>5, <1>6, <1>7, <1>8, <1>9, <1>10, <1>11, <1>12, <1>13,
     <1>14, <1>15, <1>16, <1>17, <1>18 DEF Next

--------------------------------------------------------------------------------
(* No adapter is shared by two sessions *)

LEMMA NamedKept ==
  ASSUME Named, \A t \in Session : Names(t)' \subseteq Names(t),
         \A a \in Adapter : proc[a] # "none" => proc'[a] # "none"
  PROVE  Named'
BY DEF Named, Names

(* A row that is saved names the transcript of a runtime or a zombie.          *)
LEMMA SavedNames ==
  ASSUME TypeOK, NEW s \in Session, NEW r \in Runtime, Save(s, r)
  PROVE  \A t \in Session : rows'[t] # None =>
           \/ rows[t] # None /\ rows'[t] = rows[t]
           \/ t = s /\ rows'[t].acp = r.acp
<1>1. RecordOf(r).acp = r.acp
  BY DEF RecordOf
<1>2. rows' = rows \/ rows' = [rows EXCEPT ![s] = RecordOf(r)]
  BY DEF Save
<1>3. CASE rows' = rows
  BY <1>3
<1>4. CASE rows' = [rows EXCEPT ![s] = RecordOf(r)]
  <2>1. \A t \in Session : rows'[t] = IF t = s THEN RecordOf(r) ELSE rows[t]
    BY <1>4 DEF TypeOK
  <2> QED
    BY <2>1, <1>1
<1> QED
  BY <1>2, <1>3, <1>4

LEMMA EvictedRuntimes ==
  ASSUME NEW map \in [Session -> Runtime \cup {None}], NEW victims, Evict(map, victims)
  PROVE  /\ \A t \in Session : runtimes'[t] # None => runtimes'[t] = map[t] /\ map[t] # None
         /\ \A t \in Session : map[t] # None /\ runtimes'[t] = None => map[t].dead
BY DEF Evict, Victims, Dead

LEMMA MarkDeadEffect ==
  ASSUME TypeOK, NEW a \in Adapter, MarkDead(a)
  PROVE  /\ \A t \in Session : runtimes'[t] # None =>
              /\ runtimes[t] # None /\ RecordOf(runtimes'[t]) = RecordOf(runtimes[t])
              /\ runtimes'[t].acp = runtimes[t].acp /\ runtimes'[t].child = runtimes[t].child
              /\ runtimes'[t].dead = runtimes[t].dead \/ runtimes[t].child = a
         /\ \A t \in Session : zombies'[t] # None => zombies'[t] = zombies[t]
         /\ \A t \in Session : rows'[t] # None =>
              \/ rows[t] # None /\ rows'[t] = rows[t]
              \/ runtimes[t] # None /\ rows'[t] = RecordOf(runtimes[t])
              \/ zombies[t] # None /\ rows'[t] = RecordOf(zombies[t])
<1>1. CASE \E s \in Session, victims \in SUBSET Session :
             /\ runtimes[s] # None /\ runtimes[s].child = a
             /\ Evict([runtimes EXCEPT ![s].dead = TRUE], victims)
             /\ Save(s, runtimes[s]) /\ UNCHANGED zombies
  <2>1. PICK s \in Session, victims \in SUBSET Session :
          /\ runtimes[s] # None /\ runtimes[s].child = a
          /\ Evict([runtimes EXCEPT ![s].dead = TRUE], victims)
          /\ Save(s, runtimes[s]) /\ UNCHANGED zombies
    BY <1>1
  <2>2. runtimes[s] \in Runtime
    BY <2>1 DEF TypeOK
  <2> DEFINE map == [runtimes EXCEPT ![s].dead = TRUE]
  <2>3. /\ map \in [Session -> Runtime \cup {None}]
        /\ \A t \in Session : map[t] # None =>
             /\ runtimes[t] # None /\ RecordOf(map[t]) = RecordOf(runtimes[t])
             /\ map[t].acp = runtimes[t].acp /\ map[t].child = runtimes[t].child
             /\ map[t].dead = runtimes[t].dead \/ runtimes[t].child = a
    BY <2>1, <2>2 DEF TypeOK, Runtime, RecordOf
  <2> HIDE DEF map
  <2>4. Evict(map, victims)
    BY <2>1 DEF map
  <2>5. \A t \in Session : runtimes'[t] # None => runtimes'[t] = map[t] /\ map[t] # None
    BY <2>3, <2>4, EvictedRuntimes
  <2>6. \A t \in Session : rows'[t] # None =>
          \/ rows[t] # None /\ rows'[t] = rows[t]
          \/ runtimes[t] # None /\ rows'[t] = RecordOf(runtimes[t])
    BY <2>1 DEF Save, TypeOK
  <2> QED
    BY <2>1, <2>3, <2>5, <2>6
<1>2. CASE \E s \in Session : /\ zombies[s] # None /\ Save(s, zombies[s])
                              /\ zombies' = [zombies EXCEPT ![s] = None]
                              /\ UNCHANGED <<runtimes, forgot>>
  BY <1>2 DEF TypeOK, Save
<1>3. CASE UNCHANGED <<runtimes, forgot, rows, zombies>>
  BY <1>3
<1> QED
  BY <1>1, <1>2, <1>3 DEF MarkDead

LEMMA MarkDeadNames ==
  ASSUME TypeOK, NEW a \in Adapter, MarkDead(a), UNCHANGED <<creations, offline>>
  PROVE  \A t \in Session : Names(t)' \subseteq Names(t)
<1> SUFFICES ASSUME NEW t \in Session, NEW b \in Names(t)'
             PROVE  b \in Names(t)
  OBVIOUS
<1>1. /\ runtimes'[t] # None => /\ runtimes[t] # None
                               /\ runtimes'[t].acp = runtimes[t].acp
                               /\ runtimes'[t].child = runtimes[t].child
      /\ zombies'[t] # None => zombies'[t] = zombies[t]
      /\ rows'[t] # None => \/ rows[t] # None /\ rows'[t] = rows[t]
                            \/ runtimes[t] # None /\ rows'[t] = RecordOf(runtimes[t])
                            \/ zombies[t] # None /\ rows'[t] = RecordOf(zombies[t])
  BY MarkDeadEffect
<1> QED
  BY <1>1 DEF Names, RecordOf

LEMMA NamedStep ==
  ASSUME ManagerInv, [Next]_vars
  PROVE  Named'
<1> USE DEF ManagerInv, Ownership
<1>1. ASSUME NEW s \in Session, NEW w \in Workspace, CreateExisting(s, w) PROVE Named'
  <2>1. \A t \in Session : Names(t)' \subseteq Names(t)
    BY <1>1, RecordsAreRecords DEF CreateExisting, Tell, Names, Record, TypeOK, mapVars,
       adapterVars
  <2> QED
    BY <1>1, <2>1, NamedKept DEF CreateExisting, mapVars, adapterVars, TypeOK
<1>2. ASSUME NEW s \in Session, NEW w \in Workspace, CreateNew(s, w) PROVE Named'
  <2>1. \A t \in Session : Names(t)' \subseteq Names(t)
    BY <1>2, RecordsAreRecords DEF CreateNew, Start, Names, Record, TypeOK, adapterVars,
       historyVars
  <2> QED
    BY <1>2, <2>1, NamedKept DEF CreateNew, adapterVars, historyVars, TypeOK
<1>3. ASSUME NEW s \in Session, Resurrect(s) PROVE Named'
  <2>1. \A t \in Session : Names(t)' \subseteq Names(t)
    BY <1>3, RecordsAreRecords DEF Resurrect, Start, MayResurrect, Names, Record, TypeOK,
       adapterVars, historyVars
  <2> QED
    BY <1>3, <2>1, NamedKept DEF Resurrect, adapterVars, historyVars, TypeOK
<1>4. ASSUME NEW s \in Session, CwdFails(s) PROVE Named'
  <2>1. \A t \in Session : Names(t)' \subseteq Names(t)
    BY <1>4, RecordsAreRecords DEF CwdFails, Settle, Names, Record, TypeOK, adapterVars,
       historyVars
  <2> QED
    BY <1>4, <2>1, NamedKept DEF CwdFails, adapterVars, historyVars, TypeOK
<1>5. ASSUME NEW s \in Session, NEW a \in Adapter, Spawn(s, a) PROVE Named'
  <2>1. \A t \in Session : Names(t)' \subseteq IF t = s THEN Names(t) \cup {a} ELSE Names(t)
    BY <1>5 DEF Spawn, Busy, Names, Creation, TypeOK, historyVars
  <2>2. \A t \in Session : a \notin Names(t)
    BY <1>5 DEF Spawn, Named
  <2>3. \A b \in Adapter : proc[b] # "none" => proc'[b] # "none"
    BY <1>5 DEF Spawn, TypeOK
  <2>4. proc'[a] # "none"
    BY <1>5 DEF Spawn, TypeOK
  <2> QED
    BY <2>1, <2>2, <2>3, <2>4 DEF Named, Names
<1>6. ASSUME NEW s \in Session, Initialized(s) PROVE Named'
  <2>1. \A t \in Session : Names(t)' \subseteq Names(t)
    BY <1>6, RecordsAreRecords DEF Initialized, Goto, Busy, Creation, Names, Record,
       TypeOK, historyVars
  <2> QED
    BY <1>6, <2>1, NamedKept DEF Initialized, historyVars, TypeOK
<1>7. ASSUME NEW s \in Session, NEW m \in Mode, Opened(s, m) PROVE Named'
  <2>1. \A t \in Session : Names(t)' \subseteq Names(t)
    BY <1>7, RecordsAreRecords DEF Opened, Goto, Busy, Creation, Names, Record, TypeOK,
       historyVars
  <2> QED
    BY <1>7, <2>1, NamedKept DEF Opened, historyVars, TypeOK
<1>8. ASSUME NEW s \in Session, Defaulted(s) PROVE Named'
  <2>1. \A t \in Session : Names(t)' \subseteq Names(t)
    BY <1>8, RecordsAreRecords DEF Defaulted, Goto, Busy, Creation, Names, Record, TypeOK,
       historyVars
  <2> QED
    BY <1>8, <2>1, NamedKept DEF Defaulted, historyVars, TypeOK
<1>9. ASSUME NEW s \in Session, CreationFails(s) PROVE Named'
  <2>1. \A t \in Session : Names(t)' \subseteq Names(t)
    BY <1>9, RecordsAreRecords DEF CreationFails, Settle, Names, Record, TypeOK, historyVars
  <2> QED
    BY <1>9, <2>1, NamedKept DEF CreationFails, historyVars, TypeOK
<1>10. ASSUME NEW s \in Session, Created(s) PROVE Named'
  <2> DEFINE c == creations[s]
             made == [workspace |-> c.workspace, acp |-> holds[c.child], child |-> c.child,
                      dead |-> ~Up(c.child)]
  <2>1. made \in Runtime /\ made.acp = holds[c.child] /\ made.child = c.child
    BY <1>10, MadeIsRuntime DEF Created
  <2>2. made.acp \in Names(s) /\ made.child \in Names(s)
    BY <1>10, <2>1 DEF Created, Busy, Holding, Loads, Names, Runtime
  <2>3. Save(s, made) /\ \A t \in Session : runtimes'[t] \in {runtimes[t], None} \/ t = s
    BY <1>10 DEF Created
  <2>4. runtimes'[s] = made
    BY <1>10 DEF Created
  <2>5. \A t \in Session : rows'[t] # None =>
          \/ rows[t] # None /\ rows'[t] = rows[t]
          \/ t = s /\ rows'[t].acp = made.acp
    BY <2>1, <2>3, SavedNames
  <2>6. \A t \in Session : /\ creations'[t] \in {creations[t], None}
                           /\ offline'[t] \in {offline[t], None}
                           /\ zombies'[t] = zombies[t]
    BY <1>10 DEF Created, Settle, TypeOK
  <2> HIDE DEF made
  <2>7. \A t \in Session : Names(t)' \subseteq Names(t)
    BY <2>2, <2>3, <2>4, <2>5, <2>6 DEF Names
  <2> QED
    BY <1>10, <2>7, NamedKept DEF Created, adapterVars
<1>11. ASSUME NEW s \in Session, Emit(s) PROVE Named'
  <2>1. \A t \in Session : rows'[t] # None =>
          \/ rows[t] # None /\ rows'[t] = rows[t]
          \/ t = s /\ rows'[t].acp = runtimes[s].acp
    BY <1>11, SavedNames DEF Emit, TypeOK
  <2>2. \A t \in Session : Names(t)' \subseteq Names(t)
    BY <1>11, <2>1 DEF Emit, Names, TypeOK, mapVars, adapterVars, historyVars
  <2> QED
    BY <1>11, <2>2, NamedKept DEF Emit, mapVars, adapterVars, historyVars, TypeOK
<1>12. ASSUME NEW s \in Session, NEW m \in Mode, SetMode(s, m) PROVE Named'
  <2>1. \A t \in Session : rows'[t] # None =>
          \/ rows[t] # None /\ rows'[t] = rows[t]
          \/ t = s /\ rows'[t].acp = runtimes[s].acp
    BY <1>12, SavedNames DEF SetMode, TypeOK
  <2>2. \A t \in Session : Names(t)' \subseteq Names(t)
    BY <1>12, <2>1 DEF SetMode, Names, TypeOK, mapVars
  <2> QED
    BY <1>12, <2>2, NamedKept DEF SetMode, mapVars, TypeOK
<1>13. ASSUME NEW a \in Adapter, Exit(a) PROVE Named'
  <2>1. \A t \in Session : Names(t)' \subseteq Names(t)
    BY <1>13, MarkDeadNames DEF Exit
  <2> QED
    BY <1>13, <2>1, NamedKept DEF Exit, TypeOK
<1>14. ASSUME NEW a \in Adapter, Disconnect(a) PROVE Named'
  <2>1. \A t \in Session : Names(t)' \subseteq Names(t)
    BY <1>14, MarkDeadNames DEF Disconnect
  <2> QED
    BY <1>14, <2>1, NamedKept DEF Disconnect, TypeOK
<1>15. CASE Dispose
  <2>1. \A t \in Session : Names(t)' \subseteq Names(t)
    BY <1>15, RecordsAreRecords DEF Dispose, Stages, Names, Record, TypeOK, mapVars,
       adapterVars, historyVars
  <2> QED
    BY <1>15, <2>1, NamedKept DEF Dispose, mapVars, adapterVars, historyVars, TypeOK
<1>16. CASE Disposed
  <2>1. \A t \in Session : Names(t)' \subseteq Names(t)
    BY <1>16, RecordsAreRecords DEF Disposed, Nothing, Names, Record, TypeOK, historyVars
  <2> QED
    BY <1>16, <2>1, NamedKept DEF Disposed, historyVars, TypeOK
<1>17. ASSUME NEW read \in BOOLEAN, Restart(read) PROVE Named'
  <2>1. \A t \in Session : Names(t)' \subseteq Names(t)
    BY <1>17, RecordsAreRecords DEF Restart, Nothing, Names, Record, TypeOK
  <2> QED
    BY <1>17, <2>1, NamedKept DEF Restart, TypeOK
<1>18. CASE UNCHANGED vars
  <2>1. \A t \in Session : Names(t)' \subseteq Names(t)
    BY <1>18 DEF Names, vars, mapVars
  <2> QED
    BY <1>18, <2>1, NamedKept DEF vars, adapterVars
<1> QED
  BY <1>1, <1>2, <1>3, <1>4, <1>5, <1>6, <1>7, <1>8, <1>9, <1>10, <1>11, <1>12, <1>13,
     <1>14, <1>15, <1>16, <1>17, <1>18 DEF Next

--------------------------------------------------------------------------------
(* Creations, and where the manager is in its life *)

LEMMA ChildTypes ==
  ASSUME ManagerInv, NEW s \in Session
  PROVE  /\ runtimes[s] # None =>
              /\ runtimes[s] \in Runtime
              /\ runtimes[s].child \in Adapter /\ runtimes[s].acp \in Adapter
         /\ creations[s] # None =>
              /\ creations[s] \in Creation
              /\ creations[s].resume \in Adapter \cup {None}
              /\ creations[s].child \in Adapter \cup {None}
              /\ creations[s].at # "cwd" => creations[s].child \in Adapter
BY DEF ManagerInv, Ownership, Serial, TypeOK, Runtime, Creation

(* A process is the child of one session.                                     *)
LEMMA Apart ==
  ASSUME ManagerInv, NEW s \in Session, NEW t \in Session, NEW a \in Adapter,
         HasChild(s, a), HasChild(t, a)
  PROVE  s = t
BY DEF ManagerInv, Ownership, Named, Names, HasChild

LEMMA SerialStep ==
  ASSUME ManagerInv, [Next]_vars
  PROVE  Serial'
<1>0. TypeOK /\ Serial /\ Stages
  BY DEF ManagerInv, Ownership
<1>1. ASSUME NEW s \in Session, NEW w \in Workspace, CreateExisting(s, w) PROVE Serial'
  BY <1>0, <1>1 DEF CreateExisting, Serial, Stages, TypeOK, mapVars, adapterVars
<1>2. ASSUME NEW s \in Session, NEW w \in Workspace, CreateNew(s, w) PROVE Serial'
  <2>1. \A t \in Session : creations'[t] =
          IF t = s THEN [workspace |-> w, resume |-> None, at |-> "cwd", child |-> None]
          ELSE creations[t]
    BY <1>0, <1>2 DEF CreateNew, Start, TypeOK
  <2>2. UNCHANGED <<runtimes, offline>> /\ runtimes[s] = None /\ offline[s] = None
    BY <1>0, <1>2 DEF CreateNew, MayMint
  <2> QED
    BY <1>0, <2>1, <2>2 DEF Serial
<1>3. ASSUME NEW s \in Session, Resurrect(s) PROVE Serial'
  <2>1. /\ offline[s] \in Record /\ offline[s].acp # None
        /\ offline[s] = [workspace |-> offline[s].workspace, acp |-> offline[s].acp]
    BY <1>0, <1>3, RecordsAreRecords DEF Resurrect, MayResurrect, TypeOK, Record
  <2>2. \A t \in Session : creations'[t] =
          IF t = s THEN [workspace |-> offline[s].workspace, resume |-> offline[s].acp,
                         at |-> "cwd", child |-> None]
          ELSE creations[t]
    BY <1>0, <1>3 DEF Resurrect, Start, TypeOK
  <2>3. UNCHANGED <<runtimes, offline>> /\ runtimes[s] = None
    BY <1>0, <1>3 DEF Resurrect, MayResurrect
  <2> QED
    BY <1>0, <2>1, <2>2, <2>3 DEF Serial
<1>4. ASSUME NEW s \in Session, CwdFails(s) PROVE Serial'
  BY <1>0, <1>4, ChildTypes DEF CwdFails, Serial, Busy, Settle, TypeOK, adapterVars,
     historyVars
<1>5. ASSUME NEW s \in Session, NEW a \in Adapter, Spawn(s, a) PROVE Serial'
  <2>1. a # None /\ creations[s] \in Creation
    BY <1>0, <1>5, RecordsAreRecords, ChildTypes DEF Spawn, Busy
  <2>2. \A t \in Session \ {s} : creations'[t] = creations[t]
    BY <1>0, <1>5 DEF Spawn, TypeOK
  <2>3. /\ creations'[s].at = "initialize" /\ creations'[s].child = a
        /\ creations'[s].resume = creations[s].resume
        /\ creations'[s].workspace = creations[s].workspace
    BY <1>0, <1>5, <2>1 DEF Spawn, Creation, TypeOK
  <2>4. creations[s] # None /\ creations[s].at = "cwd" /\ UNCHANGED <<runtimes, offline>>
    BY <1>5 DEF Spawn, Busy
  <2> QED
    BY <1>0, <2>1, <2>2, <2>3, <2>4 DEF Serial
<1>6. ASSUME NEW s \in Session, Initialized(s) PROVE Serial'
  <2>1. creations[s].at # "cwd" /\ creations[s].child # None /\ creations[s] # None
    BY <1>0, <1>6, ChildTypes, RecordsAreRecords DEF Initialized, Busy
  <2>2. \E at \in {"open", "mode", "ready"} : creations' = [creations EXCEPT ![s].at = at]
    BY <1>0, <1>6 DEF Initialized, Goto
  <2>3. PICK at \in {"open", "mode", "ready"} : creations' = [creations EXCEPT ![s].at = at]
    BY <2>2
  <2>4. \A t \in Session \ {s} : creations'[t] = creations[t]
    BY <1>0, <2>3 DEF TypeOK
  <2>5. /\ creations'[s].at # "cwd" /\ creations'[s].child = creations[s].child
        /\ creations'[s].resume = creations[s].resume
        /\ creations'[s].workspace = creations[s].workspace
    BY <1>0, <2>1, <2>3, ChildTypes DEF TypeOK, Creation
  <2>6. UNCHANGED <<runtimes, offline>>
    BY <1>0, <1>6 DEF Initialized
  <2> QED
    BY <1>0, <2>1, <2>4, <2>5, <2>6 DEF Serial
<1>7. ASSUME NEW s \in Session, NEW m \in Mode, Opened(s, m) PROVE Serial'
  <2>1. creations[s].at # "cwd" /\ creations[s].child # None /\ creations[s] # None
    BY <1>0, <1>7, ChildTypes, RecordsAreRecords DEF Opened, Busy
  <2>2. \E at \in {"open", "mode", "ready"} : creations' = [creations EXCEPT ![s].at = at]
    BY <1>0, <1>7 DEF Opened, Goto
  <2>3. PICK at \in {"open", "mode", "ready"} : creations' = [creations EXCEPT ![s].at = at]
    BY <2>2
  <2>4. \A t \in Session \ {s} : creations'[t] = creations[t]
    BY <1>0, <2>3 DEF TypeOK
  <2>5. /\ creations'[s].at # "cwd" /\ creations'[s].child = creations[s].child
        /\ creations'[s].resume = creations[s].resume
        /\ creations'[s].workspace = creations[s].workspace
    BY <1>0, <2>1, <2>3, ChildTypes DEF TypeOK, Creation
  <2>6. UNCHANGED <<runtimes, offline>>
    BY <1>0, <1>7 DEF Opened
  <2> QED
    BY <1>0, <2>1, <2>4, <2>5, <2>6 DEF Serial
<1>8. ASSUME NEW s \in Session, Defaulted(s) PROVE Serial'
  <2>1. creations[s].at # "cwd" /\ creations[s].child # None /\ creations[s] # None
    BY <1>0, <1>8, ChildTypes, RecordsAreRecords DEF Defaulted, Busy
  <2>2. \E at \in {"open", "mode", "ready"} : creations' = [creations EXCEPT ![s].at = at]
    BY <1>0, <1>8 DEF Defaulted, Goto
  <2>3. PICK at \in {"open", "mode", "ready"} : creations' = [creations EXCEPT ![s].at = at]
    BY <2>2
  <2>4. \A t \in Session \ {s} : creations'[t] = creations[t]
    BY <1>0, <2>3 DEF TypeOK
  <2>5. /\ creations'[s].at # "cwd" /\ creations'[s].child = creations[s].child
        /\ creations'[s].resume = creations[s].resume
        /\ creations'[s].workspace = creations[s].workspace
    BY <1>0, <2>1, <2>3, ChildTypes DEF TypeOK, Creation
  <2>6. UNCHANGED <<runtimes, offline>>
    BY <1>0, <1>8 DEF Defaulted
  <2> QED
    BY <1>0, <2>1, <2>4, <2>5, <2>6 DEF Serial
<1>9. ASSUME NEW s \in Session, CreationFails(s) PROVE Serial'
  BY <1>0, <1>9, ChildTypes DEF CreationFails, Serial, Settle, TypeOK, historyVars
<1>10. ASSUME NEW s \in Session, Created(s) PROVE Serial'
  <2>1. \A t \in Session : creations'[t] = IF t = s THEN None ELSE creations[t]
    BY <1>0, <1>10 DEF Created, Settle, TypeOK
  <2>2. \A t \in Session \ {s} :
          /\ offline'[t] = offline[t]
          /\ runtimes[t] = None => runtimes'[t] = None
    BY <1>0, <1>10 DEF Created, TypeOK
  <2> QED
    BY <1>0, <2>1, <2>2 DEF Serial
<1>11. ASSUME NEW s \in Session, Emit(s) PROVE Serial'
  BY <1>0, <1>11 DEF Emit, Serial, Stages, TypeOK, mapVars, adapterVars, historyVars
<1>12. ASSUME NEW s \in Session, NEW m \in Mode, SetMode(s, m) PROVE Serial'
  BY <1>0, <1>12 DEF SetMode, Serial, Stages, TypeOK, mapVars
<1>13. ASSUME NEW a \in Adapter, Exit(a) PROVE Serial'
  <2>1. \A t \in Session : runtimes'[t] # None => runtimes[t] # None
    BY <1>0, <1>13, MarkDeadEffect DEF Exit
  <2> QED
    BY <1>0, <1>13, <2>1 DEF Exit, Serial
<1>14. ASSUME NEW a \in Adapter, Disconnect(a) PROVE Serial'
  <2>1. \A t \in Session : runtimes'[t] # None => runtimes[t] # None
    BY <1>0, <1>14, MarkDeadEffect DEF Disconnect
  <2> QED
    BY <1>0, <1>14, <2>1 DEF Disconnect, Serial
<1>15. CASE Dispose
  BY <1>0, <1>15 DEF Dispose, Serial, Stages, TypeOK, mapVars, adapterVars, historyVars
<1>16. CASE Disposed
  BY <1>0, <1>16 DEF Disposed, Serial, AllSettled, Nothing, TypeOK
<1>17. ASSUME NEW read \in BOOLEAN, Restart(read) PROVE Serial'
  BY <1>0, <1>17 DEF Restart, Serial, Nothing, TypeOK
<1>18. CASE UNCHANGED vars
  BY <1>0, <1>18 DEF vars, mapVars, Serial
<1> QED
  BY <1>1, <1>2, <1>3, <1>4, <1>5, <1>6, <1>7, <1>8, <1>9, <1>10, <1>11, <1>12, <1>13,
     <1>14, <1>15, <1>16, <1>17, <1>18 DEF Next

LEMMA StagesStep ==
  ASSUME ManagerInv, [Next]_vars
  PROVE  Stages'
<1>0. TypeOK /\ Serial /\ Stages
  BY DEF ManagerInv, Ownership
<1>1. ASSUME NEW s \in Session, NEW w \in Workspace, CreateExisting(s, w) PROVE Stages'
  BY <1>0, <1>1 DEF CreateExisting, Stages, TypeOK, mapVars, adapterVars
<1>2. ASSUME NEW s \in Session, NEW w \in Workspace, CreateNew(s, w) PROVE Stages'
  BY <1>0, <1>2 DEF CreateNew, Stages, Start, TypeOK, adapterVars, historyVars
<1>3. ASSUME NEW s \in Session, Resurrect(s) PROVE Stages'
  BY <1>0, <1>3 DEF Resurrect, Stages, Start, TypeOK, adapterVars, historyVars
<1>4. ASSUME NEW s \in Session, CwdFails(s) PROVE Stages'
  BY <1>0, <1>4 DEF CwdFails, Stages, Settle, Busy, TypeOK, adapterVars, historyVars
<1>5. ASSUME NEW s \in Session, NEW a \in Adapter, Spawn(s, a) PROVE Stages'
  BY <1>0, <1>5 DEF Spawn, Stages, Busy, TypeOK, historyVars
<1>6. ASSUME NEW s \in Session, Initialized(s) PROVE Stages'
  BY <1>0, <1>6 DEF Initialized, Stages, Goto, Busy, TypeOK, historyVars
<1>7. ASSUME NEW s \in Session, NEW m \in Mode, Opened(s, m) PROVE Stages'
  BY <1>0, <1>7 DEF Opened, Stages, Goto, Busy, TypeOK, historyVars
<1>8. ASSUME NEW s \in Session, Defaulted(s) PROVE Stages'
  BY <1>0, <1>8 DEF Defaulted, Stages, Goto, Busy, TypeOK, historyVars
<1>9. ASSUME NEW s \in Session, CreationFails(s) PROVE Stages'
  BY <1>0, <1>9 DEF CreationFails, Stages, Settle, TypeOK, historyVars
<1>10. ASSUME NEW s \in Session, Created(s) PROVE Stages'
  BY <1>0, <1>10 DEF Created, Stages, Settle, Busy, TypeOK, adapterVars
<1>11. ASSUME NEW s \in Session, Emit(s) PROVE Stages'
  BY <1>0, <1>11 DEF Emit, Stages, TypeOK, mapVars, adapterVars, historyVars
<1>12. ASSUME NEW s \in Session, NEW m \in Mode, SetMode(s, m) PROVE Stages'
  BY <1>0, <1>12 DEF SetMode, Stages, TypeOK, mapVars
<1>13. ASSUME NEW a \in Adapter, Exit(a) PROVE Stages'
  <2>1. \A t \in Session :
          /\ runtimes'[t] # None => runtimes[t] # None
          /\ zombies'[t] # None => zombies[t] # None
    BY <1>0, <1>13, MarkDeadEffect DEF Exit
  <2>2. UNCHANGED <<creations, disposal>>
    BY <1>0, <1>13 DEF Exit
  <2> QED
    BY <1>0, <2>1, <2>2 DEF Stages
<1>14. ASSUME NEW a \in Adapter, Disconnect(a) PROVE Stages'
  <2>1. \A t \in Session :
          /\ runtimes'[t] # None => runtimes[t] # None
          /\ zombies'[t] # None => zombies[t] # None
    BY <1>0, <1>14, MarkDeadEffect DEF Disconnect
  <2>2. UNCHANGED <<creations, disposal>>
    BY <1>0, <1>14 DEF Disconnect
  <2> QED
    BY <1>0, <2>1, <2>2 DEF Stages
<1>15. CASE Dispose
  BY <1>0, <1>15 DEF Dispose, Stages, TypeOK, mapVars, adapterVars, historyVars
<1>16. CASE Disposed
  BY <1>0, <1>16 DEF Disposed, Stages, Nothing, AllSettled, TypeOK, historyVars
<1>17. ASSUME NEW read \in BOOLEAN, Restart(read) PROVE Stages'
  BY <1>0, <1>17 DEF Restart, Stages, Nothing, TypeOK
<1>18. CASE UNCHANGED vars
  BY <1>0, <1>18 DEF vars, mapVars, Stages
<1> QED
  BY <1>1, <1>2, <1>3, <1>4, <1>5, <1>6, <1>7, <1>8, <1>9, <1>10, <1>11, <1>12, <1>13,
     <1>14, <1>15, <1>16, <1>17, <1>18 DEF Next

--------------------------------------------------------------------------------
(* What an adapter writes *)

(* The child of a creation is the child of nothing else.                      *)
LEMMA OwnChild ==
  ASSUME ManagerInv, NEW s \in Session, creations[s] # None, creations[s].child # None
  PROVE  /\ runtimes[s] = None /\ creations[s].child \in Adapter
         /\ \A t \in Session :
              runtimes[t] # None => runtimes[t].child # creations[s].child
         /\ \A t \in Session \ {s} :
              creations[t] # None => creations[t].child # creations[s].child
<1>1. runtimes[s] = None /\ creations[s].child \in Adapter
  BY ChildTypes DEF ManagerInv, Ownership, Serial
<1>2. HasChild(s, creations[s].child)
  BY DEF HasChild
<1>3. \A t \in Session : HasChild(t, creations[s].child) => t = s
  BY <1>1, <1>2, Apart
<1> QED
  BY <1>1, <1>3 DEF HasChild

(* Holding is kept where runtimes and creations stay or go.                    *)
LEMMA HoldingKept ==
  ASSUME Holding, UNCHANGED <<holds, mode>>,
         \A t \in Session :
           runtimes'[t] # None =>
             /\ runtimes[t] # None /\ runtimes'[t].acp = runtimes[t].acp
             /\ runtimes'[t].child = runtimes[t].child,
         \A t \in Session : creations'[t] # None =>
           creations'[t] = creations[t] \/ creations'[t].at = "cwd"
  PROVE  Holding'
BY DEF Holding, Loads

LEMMA HoldingStep ==
  ASSUME ManagerInv, [Next]_vars
  PROVE  Holding'
<1>0. TypeOK /\ Serial /\ Holding /\ Processes
  BY DEF ManagerInv, Ownership
<1>1. ASSUME NEW s \in Session, NEW w \in Workspace, CreateExisting(s, w) PROVE Holding'
  <2>1. \A t \in Session :
          creations'[t] # None => creations'[t] = creations[t] \/ creations'[t].at = "cwd"
    BY <1>0, <1>1 DEF CreateExisting, TypeOK, mapVars, adapterVars
  <2>2. \A t \in Session : runtimes'[t] # None => runtimes'[t] = runtimes[t]
    BY <1>0, <1>1 DEF CreateExisting, mapVars, adapterVars
  <2>3. UNCHANGED <<holds, mode>>
    BY <1>1 DEF CreateExisting, mapVars, adapterVars
  <2> QED
    BY <1>0, <2>1, <2>2, <2>3, HoldingKept
<1>2. ASSUME NEW s \in Session, NEW w \in Workspace, CreateNew(s, w) PROVE Holding'
  <2>1. \A t \in Session :
          creations'[t] # None => creations'[t] = creations[t] \/ creations'[t].at = "cwd"
    BY <1>0, <1>2 DEF CreateNew, Start, TypeOK, adapterVars, historyVars
  <2>2. \A t \in Session : runtimes'[t] # None => runtimes'[t] = runtimes[t]
    BY <1>0, <1>2 DEF CreateNew, adapterVars, historyVars
  <2>3. UNCHANGED <<holds, mode>>
    BY <1>2 DEF CreateNew, adapterVars, historyVars
  <2> QED
    BY <1>0, <2>1, <2>2, <2>3, HoldingKept
<1>3. ASSUME NEW s \in Session, Resurrect(s) PROVE Holding'
  <2>1. \A t \in Session :
          creations'[t] # None => creations'[t] = creations[t] \/ creations'[t].at = "cwd"
    BY <1>0, <1>3 DEF Resurrect, Start, TypeOK, adapterVars, historyVars
  <2>2. \A t \in Session : runtimes'[t] # None => runtimes'[t] = runtimes[t]
    BY <1>0, <1>3 DEF Resurrect, adapterVars, historyVars
  <2>3. UNCHANGED <<holds, mode>>
    BY <1>3 DEF Resurrect, adapterVars, historyVars
  <2> QED
    BY <1>0, <2>1, <2>2, <2>3, HoldingKept
<1>4. ASSUME NEW s \in Session, CwdFails(s) PROVE Holding'
  <2>1. \A t \in Session :
          creations'[t] # None => creations'[t] = creations[t] \/ creations'[t].at = "cwd"
    BY <1>0, <1>4 DEF CwdFails, Settle, TypeOK, adapterVars, historyVars
  <2>2. \A t \in Session : runtimes'[t] # None => runtimes'[t] = runtimes[t]
    BY <1>0, <1>4 DEF CwdFails, adapterVars, historyVars
  <2>3. UNCHANGED <<holds, mode>>
    BY <1>4 DEF CwdFails, adapterVars, historyVars
  <2> QED
    BY <1>0, <2>1, <2>2, <2>3, HoldingKept
<1>5. ASSUME NEW s \in Session, NEW a \in Adapter, Spawn(s, a) PROVE Holding'
  <2>1. UNCHANGED <<runtimes, holds, mode>> /\ proc[a] = "none"
    BY <1>5 DEF Spawn
  <2>2. \A t \in Session \ {s} : creations'[t] = creations[t]
    BY <1>0, <1>5 DEF Spawn, TypeOK
  <2>3. creations'[s].at = "initialize" /\ creations'[s].child = a
    BY <1>0, <1>5, ChildTypes DEF Spawn, Busy, Creation, TypeOK
  <2>4. holds[a] = None
    BY <1>0, <2>1 DEF Processes
  <2> QED
    BY <1>0, <2>1, <2>2, <2>3, <2>4 DEF Holding, Loads
<1>6. ASSUME NEW s \in Session, Initialized(s) PROVE Holding'
  <2> DEFINE c == creations[s].child
  <2>1. creations[s] # None /\ creations[s].at = "initialize" /\ c # None
    BY <1>6, ChildTypes, RecordsAreRecords DEF Initialized, Busy
  <2>2. /\ runtimes[s] = None /\ c \in Adapter
        /\ \A t \in Session : runtimes[t] # None => runtimes[t].child # c
        /\ \A t \in Session \ {s} : creations[t] # None => creations[t].child # c
    BY <2>1, OwnChild
  <2>3. /\ \A b \in Adapter \ {c} : holds'[b] = holds[b] /\ mode'[b] = mode[b]
        /\ holds'[c] = creations[s].resume
    BY <1>0, <2>2, <1>6, <2>1 DEF Initialized, TypeOK, Holding, Loads
  <2>4. \A t \in Session : /\ t # s => creations'[t] = creations[t]
                           /\ runtimes'[t] = runtimes[t]
    BY <1>0, <1>6 DEF Initialized, Goto, TypeOK
  <2>5. /\ creations'[s].child = c /\ creations'[s].resume = creations[s].resume
        /\ creations'[s].at = "open"
    BY <1>0, <1>6, <2>1, ChildTypes DEF Initialized, Goto, TypeOK, Creation
  <2>6. \A t \in Session : runtimes'[t] # None => holds'[runtimes'[t].child] = runtimes'[t].acp
    BY <1>0, <2>2, <2>3, <2>4, ChildTypes DEF Holding
  <2>7. \A t \in Session \ {s} : creations'[t] # None => Loads(creations[t])'
    BY <1>0, <2>2, <2>3, <2>4, ChildTypes DEF Holding, Loads
  <2>8. Loads(creations[s])'
    BY <2>1, <2>3, <2>5 DEF Loads, ForceDefault, Mode
  <2> QED
    BY <2>6, <2>7, <2>8 DEF Holding
<1>7. ASSUME NEW s \in Session, NEW m \in Mode, Opened(s, m) PROVE Holding'
  <2> DEFINE c == creations[s].child
  <2>1. creations[s] # None /\ creations[s].at = "open" /\ c # None
    BY <1>7, ChildTypes, RecordsAreRecords DEF Opened, Busy
  <2>2. /\ runtimes[s] = None /\ c \in Adapter
        /\ \A t \in Session : runtimes[t] # None => runtimes[t].child # c
        /\ \A t \in Session \ {s} : creations[t] # None => creations[t].child # c
    BY <2>1, OwnChild
  <2>3. /\ \A b \in Adapter \ {c} : holds'[b] = holds[b] /\ mode'[b] = mode[b]
        /\ holds'[c] = (IF holds[c] = None THEN c ELSE holds[c]) /\ mode'[c] = m
        /\ holds[c] = creations[s].resume
    BY <1>0, <2>2, <1>7, <2>1 DEF Opened, TypeOK, Holding, Loads
  <2>4. \A t \in Session : /\ t # s => creations'[t] = creations[t]
                           /\ runtimes'[t] = runtimes[t]
    BY <1>0, <1>7 DEF Opened, Goto, TypeOK
  <2>5. /\ creations'[s].child = c /\ creations'[s].resume = creations[s].resume
        /\ creations'[s].at = IF ForceDefault(creations[s].resume, m) THEN "mode" ELSE "ready"
    BY <1>0, <1>7, <2>1, ChildTypes DEF Opened, Goto, TypeOK, Creation
  <2>6. \A t \in Session : runtimes'[t] # None => holds'[runtimes'[t].child] = runtimes'[t].acp
    BY <1>0, <2>2, <2>3, <2>4, ChildTypes DEF Holding
  <2>7. \A t \in Session \ {s} : creations'[t] # None => Loads(creations[t])'
    BY <1>0, <2>2, <2>3, <2>4, ChildTypes DEF Holding, Loads
  <2>8. Loads(creations[s])'
    BY <2>1, <2>3, <2>5 DEF Loads, ForceDefault, Mode
  <2> QED
    BY <2>6, <2>7, <2>8 DEF Holding
<1>8. ASSUME NEW s \in Session, Defaulted(s) PROVE Holding'
  <2> DEFINE c == creations[s].child
  <2>1. creations[s] # None /\ creations[s].at = "mode" /\ c # None
    BY <1>8, ChildTypes, RecordsAreRecords DEF Defaulted, Busy
  <2>2. /\ runtimes[s] = None /\ c \in Adapter
        /\ \A t \in Session : runtimes[t] # None => runtimes[t].child # c
        /\ \A t \in Session \ {s} : creations[t] # None => creations[t].child # c
    BY <2>1, OwnChild
  <2>3. /\ \A b \in Adapter \ {c} : holds'[b] = holds[b] /\ mode'[b] = mode[b]
        /\ holds'[c] = holds[c] /\ mode'[c] = "default"
        /\ holds[c] = (IF creations[s].resume = None THEN c ELSE creations[s].resume)
    BY <1>0, <2>2, <1>8, <2>1 DEF Defaulted, TypeOK, Holding, Loads
  <2>4. \A t \in Session : /\ t # s => creations'[t] = creations[t]
                           /\ runtimes'[t] = runtimes[t]
    BY <1>0, <1>8 DEF Defaulted, Goto, TypeOK
  <2>5. /\ creations'[s].child = c /\ creations'[s].resume = creations[s].resume
        /\ creations'[s].at = "ready"
    BY <1>0, <1>8, <2>1, ChildTypes DEF Defaulted, Goto, TypeOK, Creation
  <2>6. \A t \in Session : runtimes'[t] # None => holds'[runtimes'[t].child] = runtimes'[t].acp
    BY <1>0, <2>2, <2>3, <2>4, ChildTypes DEF Holding
  <2>7. \A t \in Session \ {s} : creations'[t] # None => Loads(creations[t])'
    BY <1>0, <2>2, <2>3, <2>4, ChildTypes DEF Holding, Loads
  <2>8. Loads(creations[s])'
    BY <2>1, <2>3, <2>5 DEF Loads, ForceDefault, Mode
  <2> QED
    BY <2>6, <2>7, <2>8 DEF Holding
<1>9. ASSUME NEW s \in Session, CreationFails(s) PROVE Holding'
  <2>1. \A t \in Session :
          creations'[t] # None => creations'[t] = creations[t] \/ creations'[t].at = "cwd"
    BY <1>0, <1>9 DEF CreationFails, Settle, TypeOK, historyVars
  <2>2. \A t \in Session : runtimes'[t] # None => runtimes'[t] = runtimes[t]
    BY <1>0, <1>9 DEF CreationFails, historyVars
  <2>3. UNCHANGED <<holds, mode>>
    BY <1>9 DEF CreationFails, historyVars
  <2> QED
    BY <1>0, <2>1, <2>2, <2>3, HoldingKept
<1>10. ASSUME NEW s \in Session, Created(s) PROVE Holding'
  <2> DEFINE c == creations[s].child
             made == [workspace |-> creations[s].workspace, acp |-> holds[c], child |-> c,
                      dead |-> ~Up(c)]
  <2>1. UNCHANGED <<holds, mode>>
    BY <1>10 DEF Created, adapterVars
  <2>2. \A t \in Session : runtimes'[t] \in {runtimes[t], None} \/ t = s
    BY <1>10 DEF Created
  <2>3. runtimes'[s] = made
    BY <1>10 DEF Created
  <2>4. made.acp = holds[c] /\ made.child = c
    OBVIOUS
  <2>5. \A t \in Session : creations'[t] \in {creations[t], None}
    BY <1>0, <1>10 DEF Created, Settle, TypeOK
  <2> HIDE DEF made
  <2> QED
    BY <1>0, <2>1, <2>2, <2>3, <2>4, <2>5 DEF Holding, Loads
<1>11. ASSUME NEW s \in Session, Emit(s) PROVE Holding'
  <2>1. \A t \in Session :
          creations'[t] # None => creations'[t] = creations[t] \/ creations'[t].at = "cwd"
    BY <1>0, <1>11 DEF Emit, TypeOK, mapVars, adapterVars, historyVars
  <2>2. \A t \in Session : runtimes'[t] # None => runtimes'[t] = runtimes[t]
    BY <1>0, <1>11 DEF Emit, mapVars, adapterVars, historyVars
  <2>3. UNCHANGED <<holds, mode>>
    BY <1>11 DEF Emit, mapVars, adapterVars, historyVars
  <2> QED
    BY <1>0, <2>1, <2>2, <2>3, HoldingKept
<1>12. ASSUME NEW s \in Session, NEW m \in Mode, SetMode(s, m) PROVE Holding'
  <2>1. UNCHANGED <<runtimes, creations, holds>> /\ runtimes[s] # None
    BY <1>12 DEF SetMode, mapVars
  <2>2. \A t \in Session : creations[t] # None => creations[t].child # runtimes[s].child
    BY <2>1, OwnChild, ChildTypes, RecordsAreRecords
  <2>3. \A b \in Adapter \ {runtimes[s].child} : mode'[b] = mode[b]
    BY <1>0, <1>12 DEF SetMode, TypeOK
  <2>4. \A t \in Session : creations[t] # None /\ creations[t].at = "ready" =>
          mode'[creations[t].child] = mode[creations[t].child]
    BY <2>2, <2>3, ChildTypes
  <2> QED
    BY <1>0, <2>1, <2>4 DEF Holding, Loads
<1>13. ASSUME NEW a \in Adapter, Exit(a) PROVE Holding'
  <2>1. \A t \in Session : runtimes'[t] # None =>
          /\ runtimes[t] # None /\ runtimes'[t].acp = runtimes[t].acp
          /\ runtimes'[t].child = runtimes[t].child
    BY <1>0, <1>13, MarkDeadEffect DEF Exit
  <2>2. UNCHANGED <<creations, holds, mode>>
    BY <1>13 DEF Exit
  <2> QED
    BY <1>0, <2>1, <2>2, HoldingKept
<1>14. ASSUME NEW a \in Adapter, Disconnect(a) PROVE Holding'
  <2>1. \A t \in Session : runtimes'[t] # None =>
          /\ runtimes[t] # None /\ runtimes'[t].acp = runtimes[t].acp
          /\ runtimes'[t].child = runtimes[t].child
    BY <1>0, <1>14, MarkDeadEffect DEF Disconnect
  <2>2. UNCHANGED <<creations, holds, mode>>
    BY <1>14 DEF Disconnect
  <2> QED
    BY <1>0, <2>1, <2>2, HoldingKept
<1>15. CASE Dispose
  <2>1. \A t \in Session :
          creations'[t] # None => creations'[t] = creations[t] \/ creations'[t].at = "cwd"
    BY <1>0, <1>15 DEF Dispose, TypeOK, mapVars, adapterVars, historyVars
  <2>2. \A t \in Session : runtimes'[t] # None => runtimes'[t] = runtimes[t]
    BY <1>0, <1>15 DEF Dispose, mapVars, adapterVars, historyVars
  <2>3. UNCHANGED <<holds, mode>>
    BY <1>15 DEF Dispose, mapVars, adapterVars, historyVars
  <2> QED
    BY <1>0, <2>1, <2>2, <2>3, HoldingKept
<1>16. CASE Disposed
  <2>1. \A t \in Session :
          creations'[t] # None => creations'[t] = creations[t] \/ creations'[t].at = "cwd"
    BY <1>0, <1>16 DEF Disposed, Nothing, TypeOK, historyVars
  <2>2. \A t \in Session : runtimes'[t] # None => runtimes'[t] = runtimes[t]
    BY <1>0, <1>16 DEF Disposed, Nothing, historyVars
  <2>3. UNCHANGED <<holds, mode>>
    BY <1>16 DEF Disposed, historyVars
  <2> QED
    BY <1>0, <2>1, <2>2, <2>3, HoldingKept
<1>17. ASSUME NEW read \in BOOLEAN, Restart(read) PROVE Holding'
  <2>1. \A t \in Session :
          creations'[t] # None => creations'[t] = creations[t] \/ creations'[t].at = "cwd"
    BY <1>0, <1>17 DEF Restart, Nothing, TypeOK
  <2>2. \A t \in Session : runtimes'[t] # None => runtimes'[t] = runtimes[t]
    BY <1>0, <1>17 DEF Restart, Nothing
  <2>3. UNCHANGED <<holds, mode>>
    BY <1>17 DEF Restart
  <2> QED
    BY <1>0, <2>1, <2>2, <2>3, HoldingKept
<1>18. CASE UNCHANGED vars
  <2>1. UNCHANGED <<runtimes, creations, holds, mode>>
    BY <1>18 DEF vars, mapVars, adapterVars
  <2> QED
    BY <1>0, <2>1 DEF Holding, Loads
<1> QED
  BY <1>1, <1>2, <1>3, <1>4, <1>5, <1>6, <1>7, <1>8, <1>9, <1>10, <1>11, <1>12, <1>13,
     <1>14, <1>15, <1>16, <1>17, <1>18 DEF Next

--------------------------------------------------------------------------------
(* Processes, and what is marked as dead *)

(* A runtime that is removed was dead or its child is the one that ended; the    *)
(* runtime whose child ended is dead.                                         *)
LEMMA MarkDeadRuntimes ==
  ASSUME ManagerInv, NEW a \in Adapter, MarkDead(a)
  PROVE  /\ \A t \in Session : runtimes[t] # None /\ runtimes'[t] = None =>
              runtimes[t].dead \/ runtimes[t].child = a
         /\ \A t \in Session : runtimes'[t] # None =>
              /\ runtimes[t] # None
              /\ runtimes'[t].child = runtimes[t].child
              /\ runtimes'[t].dead <=> (runtimes[t].dead \/ runtimes[t].child = a)
<1>0. TypeOK
  BY DEF ManagerInv
<1>1. CASE \E s \in Session, victims \in SUBSET Session :
             /\ runtimes[s] # None /\ runtimes[s].child = a
             /\ Evict([runtimes EXCEPT ![s].dead = TRUE], victims)
  <2>1. PICK s \in Session, victims \in SUBSET Session :
          /\ runtimes[s] # None /\ runtimes[s].child = a
          /\ Evict([runtimes EXCEPT ![s].dead = TRUE], victims)
    BY <1>1
  <2>2. runtimes[s] \in Runtime
    BY <1>0, <2>1 DEF TypeOK
  <2>3. \A t \in Session \ {s} : runtimes[t] # None => runtimes[t].child # a
    BY <2>1, Apart DEF HasChild
  <2> DEFINE map == [runtimes EXCEPT ![s].dead = TRUE]
  <2>4. /\ map \in [Session -> Runtime \cup {None}]
        /\ map[s] # None /\ map[s].dead = TRUE /\ map[s].child = runtimes[s].child
        /\ \A t \in Session \ {s} : map[t] = runtimes[t]
    BY <1>0, <2>1, <2>2, RecordsAreRecords DEF TypeOK, Runtime
  <2>5. \A t \in Session \ {s} : runtimes[t] # None => runtimes[t].dead \in BOOLEAN
    BY <1>0 DEF TypeOK, Runtime
  <2> HIDE DEF map
  <2>6. Evict(map, victims)
    BY <2>1 DEF map
  <2>7. /\ \A t \in Session : runtimes'[t] # None => runtimes'[t] = map[t] /\ map[t] # None
        /\ \A t \in Session : map[t] # None /\ runtimes'[t] = None => map[t].dead
    BY <2>4, <2>6, EvictedRuntimes
  <2>8. \A t \in Session : runtimes[t] # None /\ runtimes'[t] = None =>
          runtimes[t].dead \/ runtimes[t].child = a
    BY <2>1, <2>4, <2>7
  <2>9. \A t \in Session : runtimes'[t] # None =>
          /\ runtimes[t] # None
          /\ runtimes'[t].child = runtimes[t].child
          /\ runtimes'[t].dead <=> (runtimes[t].dead \/ runtimes[t].child = a)
    BY <2>1, <2>3, <2>4, <2>5, <2>7
  <2> QED
    BY <2>8, <2>9
<1>2. CASE /\ UNCHANGED runtimes
           /\ {s \in Session : /\ runtimes[s] # None /\ runtimes[s].child = a
                               /\ ~runtimes[s].dead} = {}
  <2>1. \A t \in Session : runtimes[t] # None =>
          runtimes[t].dead \in BOOLEAN /\ (runtimes[t].child = a => runtimes[t].dead)
    BY <1>0, <1>2 DEF TypeOK, Runtime
  <2> QED
    BY <1>2, <2>1
<1> QED
  BY <1>1, <1>2 DEF MarkDead

(* Processes are kept where adapters only close, and where what is open keeps   *)
(* its session.                                                               *)
LEMMA ProcessesKept ==
  ASSUME Processes, UNCHANGED <<proc, holds>>, open' \subseteq open, killed \subseteq killed',
         lost \subseteq lost', open \ open' \subseteq killed' \cup lost',
         \A a \in open', s \in Session : HasChild(s, a) => \E t \in Session : HasChild(t, a)'
  PROVE  Processes'
BY DEF Processes

LEMMA ProcessesStep ==
  ASSUME ManagerInv, [Next]_vars
  PROVE  Processes'
<1>0. TypeOK /\ Serial /\ Processes /\ Stages /\ Vital
  BY DEF ManagerInv, Ownership
<1>1. ASSUME NEW s \in Session, NEW w \in Workspace, CreateExisting(s, w) PROVE Processes'
  <2>1. \A t \in Session : \A a \in Adapter : HasChild(t, a) => HasChild(t, a)'
    BY <1>0, <1>1, RecordsAreRecords DEF CreateExisting, HasChild, Serial, TypeOK,
       mapVars, adapterVars
  <2>2. UNCHANGED <<proc, holds, open, killed, lost>>
    BY <1>1 DEF CreateExisting, mapVars, adapterVars
  <2> QED
    BY <1>0, <2>1, <2>2, ProcessesKept DEF TypeOK
<1>2. ASSUME NEW s \in Session, NEW w \in Workspace, CreateNew(s, w) PROVE Processes'
  <2>1. \A t \in Session : \A a \in Adapter : HasChild(t, a) => HasChild(t, a)'
    BY <1>0, <1>2, RecordsAreRecords DEF CreateNew, HasChild, MayMint, Start, Serial,
       TypeOK, adapterVars, historyVars
  <2>2. UNCHANGED <<proc, holds, open, killed, lost>>
    BY <1>2 DEF CreateNew, adapterVars, historyVars
  <2> QED
    BY <1>0, <2>1, <2>2, ProcessesKept DEF TypeOK
<1>3. ASSUME NEW s \in Session, Resurrect(s) PROVE Processes'
  <2>1. \A t \in Session : \A a \in Adapter : HasChild(t, a) => HasChild(t, a)'
    BY <1>0, <1>3, RecordsAreRecords DEF Resurrect, HasChild, MayResurrect, Start, Serial,
       TypeOK, adapterVars, historyVars
  <2>2. UNCHANGED <<proc, holds, open, killed, lost>>
    BY <1>3 DEF Resurrect, adapterVars, historyVars
  <2> QED
    BY <1>0, <2>1, <2>2, ProcessesKept DEF TypeOK
<1>4. ASSUME NEW s \in Session, CwdFails(s) PROVE Processes'
  <2>1. creations[s] # None /\ creations[s].child = None
    BY <1>0, <1>4 DEF CwdFails, Busy, Serial
  <2>2. \A t \in Session : \A a \in Adapter : HasChild(t, a) => HasChild(t, a)'
    BY <1>0, <1>4, <2>1, RecordsAreRecords DEF CwdFails, Settle, HasChild, TypeOK
  <2>3. UNCHANGED <<proc, holds, open, killed, lost>>
    BY <1>4 DEF CwdFails, adapterVars, historyVars
  <2> QED
    BY <1>0, <2>2, <2>3, ProcessesKept DEF TypeOK
<1>5. ASSUME NEW s \in Session, NEW a \in Adapter, Spawn(s, a) PROVE Processes'
  <2>1. /\ \A t \in Session \ {s} : creations'[t] = creations[t]
        /\ creations'[s] # None /\ creations'[s].child = a
        /\ creations[s].child = None
    BY <1>0, <1>5, ChildTypes, RecordsAreRecords DEF Spawn, Busy, Serial, TypeOK, Creation
  <2>2. \A t \in Session : \A b \in Adapter : HasChild(t, b) => HasChild(t, b)'
    BY <1>5, <2>1, RecordsAreRecords DEF Spawn, HasChild
  <2>3. HasChild(s, a)'
    BY <2>1 DEF HasChild
  <2>4. /\ \A b \in Adapter \ {a} : proc'[b] = proc[b]
        /\ proc'[a] = "up" /\ open' = open \cup {a} /\ UNCHANGED <<holds, killed, lost>>
    BY <1>0, <1>5 DEF Spawn, historyVars, TypeOK
  <2> QED
    BY <1>0, <2>2, <2>3, <2>4 DEF Processes
<1>6. ASSUME NEW s \in Session, Initialized(s) PROVE Processes'
  <2> DEFINE c == creations[s].child
  <2>1. creations[s] # None /\ creations[s].at # "cwd" /\ c \in Adapter /\ Up(c)
    BY <1>6, ChildTypes DEF Initialized, Busy
  <2>2. \A t \in Session : \A a \in Adapter : HasChild(t, a) => HasChild(t, a)'
    <3>1. /\ \A t \in Session \ {s} : creations'[t] = creations[t]
          /\ creations'[s] # None /\ creations'[s].child = c
      BY <1>0, <1>6, <2>1, ChildTypes, RecordsAreRecords DEF Initialized, Goto, TypeOK,
         Creation
    <3>2. UNCHANGED runtimes
      BY <1>6 DEF Initialized
    <3> QED
      BY <3>1, <3>2 DEF HasChild
  <2>3. \A b \in Adapter \ {c} : holds'[b] = holds[b]
    BY <1>0, <1>6 DEF Initialized, TypeOK
  <2>4. UNCHANGED <<proc, open, killed, lost>> /\ proc[c] = "up"
    BY <1>6, <2>1 DEF Initialized, historyVars, Up
  <2> QED
    BY <1>0, <2>2, <2>3, <2>4 DEF Processes
<1>7. ASSUME NEW s \in Session, NEW m \in Mode, Opened(s, m) PROVE Processes'
  <2> DEFINE c == creations[s].child
  <2>1. creations[s] # None /\ creations[s].at # "cwd" /\ c \in Adapter /\ Up(c)
    BY <1>7, ChildTypes DEF Opened, Busy
  <2>2. \A t \in Session : \A a \in Adapter : HasChild(t, a) => HasChild(t, a)'
    <3>1. /\ \A t \in Session \ {s} : creations'[t] = creations[t]
          /\ creations'[s] # None /\ creations'[s].child = c
      BY <1>0, <1>7, <2>1, ChildTypes, RecordsAreRecords DEF Opened, Goto, TypeOK, Creation
    <3>2. UNCHANGED runtimes
      BY <1>7 DEF Opened
    <3> QED
      BY <3>1, <3>2 DEF HasChild
  <2>3. \A b \in Adapter \ {c} : holds'[b] = holds[b]
    BY <1>0, <1>7 DEF Opened, TypeOK
  <2>4. UNCHANGED <<proc, open, killed, lost>> /\ proc[c] = "up"
    BY <1>7, <2>1 DEF Opened, historyVars, Up
  <2> QED
    BY <1>0, <2>2, <2>3, <2>4 DEF Processes
<1>8. ASSUME NEW s \in Session, Defaulted(s) PROVE Processes'
  <2> DEFINE c == creations[s].child
  <2>1. creations[s] # None /\ creations[s].at # "cwd" /\ c \in Adapter /\ Up(c)
    BY <1>8, ChildTypes DEF Defaulted, Busy
  <2>2. \A t \in Session : \A a \in Adapter : HasChild(t, a) => HasChild(t, a)'
    <3>1. /\ \A t \in Session \ {s} : creations'[t] = creations[t]
          /\ creations'[s] # None /\ creations'[s].child = c
      BY <1>0, <1>8, <2>1, ChildTypes, RecordsAreRecords DEF Defaulted, Goto, TypeOK,
         Creation
    <3>2. UNCHANGED runtimes
      BY <1>8 DEF Defaulted
    <3> QED
      BY <3>1, <3>2 DEF HasChild
  <2>3. \A b \in Adapter \ {c} : holds'[b] = holds[b]
    BY <1>0, <1>8 DEF Defaulted, TypeOK
  <2>4. UNCHANGED <<proc, open, killed, lost>> /\ proc[c] = "up"
    BY <1>8, <2>1 DEF Defaulted, historyVars, Up
  <2> QED
    BY <1>0, <2>2, <2>3, <2>4 DEF Processes
<1>9. ASSUME NEW s \in Session, CreationFails(s) PROVE Processes'
  <2> DEFINE c == creations[s].child
  <2>1. open' = open \ {c} /\ killed' = killed \cup {c} /\ UNCHANGED <<proc, holds, lost, runtimes>>
    BY <1>9 DEF CreationFails, Drop, historyVars
  <2>2. \A t \in Session \ {s} : creations'[t] = creations[t]
    BY <1>0, <1>9 DEF CreationFails, Settle, TypeOK
  <2>3. \A t \in Session : \A a \in Adapter \ {c} : HasChild(t, a) => HasChild(t, a)'
    BY <2>1, <2>2 DEF HasChild
  <2> QED
    BY <1>0, <2>1, <2>3, ProcessesKept DEF TypeOK
<1>10. ASSUME NEW s \in Session, Created(s) PROVE Processes'
  <2> DEFINE c == creations[s].child
  <2>1. UNCHANGED <<proc, holds, open, killed, lost>>
    BY <1>10 DEF Created, adapterVars
  <2>2. /\ runtimes'[s] # None /\ runtimes'[s].child = c
        /\ \A t \in Session \ {s} : runtimes'[t] = runtimes[t] \/ runtimes[t].dead
    BY <1>0, <1>10, MadeIsRuntime, RecordsAreRecords DEF Created, Victims, Dead
  <2>3. \A t \in Session \ {s} : creations'[t] = creations[t]
    BY <1>0, <1>10 DEF Created, Settle, TypeOK
  <2>4. runtimes[s] = None
    BY <1>0, <1>10 DEF Created, Busy, Serial
  <2>5. \A a \in open, t \in Session : HasChild(t, a) => HasChild(t, a)'
    BY <1>0, <2>2, <2>3, <2>4 DEF HasChild, Vital, Processes, Up, TypeOK
  <2> QED
    BY <1>0, <2>1, <2>5, ProcessesKept DEF TypeOK
<1>11. ASSUME NEW s \in Session, Emit(s) PROVE Processes'
  <2>1. \A t \in Session : \A a \in Adapter : HasChild(t, a) => HasChild(t, a)'
    BY <1>0, <1>11, RecordsAreRecords DEF Emit, HasChild, Serial, TypeOK, mapVars,
       adapterVars, historyVars
  <2>2. UNCHANGED <<proc, holds, open, killed, lost>>
    BY <1>11 DEF Emit, mapVars, adapterVars, historyVars
  <2> QED
    BY <1>0, <2>1, <2>2, ProcessesKept DEF TypeOK
<1>12. ASSUME NEW s \in Session, NEW m \in Mode, SetMode(s, m) PROVE Processes'
  <2>1. \A t \in Session : \A a \in Adapter : HasChild(t, a) => HasChild(t, a)'
    BY <1>0, <1>12, RecordsAreRecords DEF SetMode, HasChild, Serial, TypeOK, mapVars
  <2>2. UNCHANGED <<proc, holds, open, killed, lost>>
    BY <1>12 DEF SetMode, mapVars
  <2> QED
    BY <1>0, <2>1, <2>2, ProcessesKept DEF TypeOK
<1>13. ASSUME NEW a \in Adapter, Exit(a) PROVE Processes'
  <2>1. \A b \in Adapter, t \in Session :
          HasChild(t, b) => HasChild(t, b)' \/ b = a \/ b \notin open
    BY <1>0, <1>13, MarkDeadRuntimes, RecordsAreRecords DEF Exit, HasChild, Vital,
       Processes, Up
  <2>2. open' = open \ {a} /\ UNCHANGED <<holds, killed>>
    BY <1>13 DEF Exit
  <2>3. /\ proc[a] = "up" /\ proc'[a] = "gone" /\ UNCHANGED lost
        /\ \A b \in Adapter \ {a} : proc'[b] = proc[b]
    BY <1>0, <1>13 DEF Exit, TypeOK
  <2> QED
    BY <1>0, <2>1, <2>2, <2>3 DEF Processes
<1>14. ASSUME NEW a \in Adapter, Disconnect(a) PROVE Processes'
  <2>1. \A b \in Adapter, t \in Session :
          HasChild(t, b) => HasChild(t, b)' \/ b = a \/ b \notin open
    BY <1>0, <1>14, MarkDeadRuntimes, RecordsAreRecords DEF Disconnect, HasChild, Vital,
       Processes, Up
  <2>2. open' = open \ {a} /\ UNCHANGED <<holds, killed>>
    BY <1>14 DEF Disconnect
  <2>3. UNCHANGED proc /\ lost' = lost \cup {a}
    BY <1>14 DEF Disconnect
  <2> QED
    BY <1>0, <2>1, <2>2, <2>3 DEF Processes
<1>15. CASE Dispose
  <2>1. \A t \in Session : \A a \in Adapter : HasChild(t, a) => HasChild(t, a)'
    BY <1>0, <1>15, RecordsAreRecords DEF Dispose, HasChild, Serial, TypeOK, mapVars,
       adapterVars, historyVars
  <2>2. UNCHANGED <<proc, holds, open, killed, lost>>
    BY <1>15 DEF Dispose, mapVars, adapterVars, historyVars
  <2> QED
    BY <1>0, <2>1, <2>2, ProcessesKept DEF TypeOK
<1>16. CASE Disposed
  <2>1. \A t \in Session : creations[t] = None
    BY <1>16 DEF Disposed, AllSettled, Nothing
  <2>2. \A a \in open : \E t \in Session : runtimes[t] # None /\ runtimes[t].child = a
    BY <1>0, <2>1 DEF Processes, HasChild, TypeOK
  <2>3. open' = {} /\ open \subseteq killed' /\ killed \subseteq killed'
    BY <1>16, <2>2 DEF Disposed
  <2>4. UNCHANGED <<proc, holds, lost>>
    BY <1>16 DEF Disposed, historyVars
  <2> QED
    BY <1>0, <2>3, <2>4, ProcessesKept
<1>17. ASSUME NEW read \in BOOLEAN, Restart(read) PROVE Processes'
  <2>1. open' = {} /\ open \subseteq lost' /\ lost \subseteq lost' /\ UNCHANGED <<proc, holds, killed>>
    BY <1>17 DEF Restart
  <2> QED
    BY <1>0, <2>1, ProcessesKept
<1>18. CASE UNCHANGED vars
  <2>1. UNCHANGED <<runtimes, creations, proc, holds, open, killed, lost>>
    BY <1>18 DEF vars, mapVars, adapterVars, historyVars
  <2> QED
    BY <1>0, <2>1 DEF Processes, HasChild
<1> QED
  BY <1>1, <1>2, <1>3, <1>4, <1>5, <1>6, <1>7, <1>8, <1>9, <1>10, <1>11, <1>12, <1>13,
     <1>14, <1>15, <1>16, <1>17, <1>18 DEF Next

LEMMA VitalStep ==
  ASSUME ManagerInv, [Next]_vars
  PROVE  Vital'
<1>0. TypeOK /\ Serial /\ Processes /\ Stages /\ Vital
  BY DEF ManagerInv, Ownership
<1>1. ASSUME NEW s \in Session, NEW w \in Workspace, CreateExisting(s, w) PROVE Vital'
  <2>1. UNCHANGED <<runtimes, proc, open>>
    BY <1>1 DEF CreateExisting, mapVars, adapterVars
  <2> QED
    BY <1>0, <2>1 DEF Vital, Up
<1>2. ASSUME NEW s \in Session, NEW w \in Workspace, CreateNew(s, w) PROVE Vital'
  <2>1. UNCHANGED <<runtimes, proc, open>>
    BY <1>2 DEF CreateNew, adapterVars, historyVars
  <2> QED
    BY <1>0, <2>1 DEF Vital, Up
<1>3. ASSUME NEW s \in Session, Resurrect(s) PROVE Vital'
  <2>1. UNCHANGED <<runtimes, proc, open>>
    BY <1>3 DEF Resurrect, adapterVars, historyVars
  <2> QED
    BY <1>0, <2>1 DEF Vital, Up
<1>4. ASSUME NEW s \in Session, CwdFails(s) PROVE Vital'
  <2>1. UNCHANGED <<runtimes, proc, open>>
    BY <1>4 DEF CwdFails, adapterVars, historyVars
  <2> QED
    BY <1>0, <2>1 DEF Vital, Up
<1>5. ASSUME NEW s \in Session, NEW a \in Adapter, Spawn(s, a) PROVE Vital'
  <2>1. UNCHANGED runtimes /\ open' = open \cup {a}
    BY <1>5 DEF Spawn
  <2>2. \A t \in Session : runtimes[t] # None => runtimes[t].child # a
    BY <1>5, ChildTypes DEF Spawn, ManagerInv, Ownership, Named, Names
  <2>3. \A b \in Adapter \ {a} : proc'[b] = proc[b]
    BY <1>0, <1>5 DEF Spawn, TypeOK
  <2> QED
    BY <1>0, <2>1, <2>2, <2>3, ChildTypes DEF Vital, Up
<1>6. ASSUME NEW s \in Session, Initialized(s) PROVE Vital'
  <2>1. UNCHANGED <<runtimes, proc, open>>
    BY <1>6 DEF Initialized, historyVars
  <2> QED
    BY <1>0, <2>1 DEF Vital, Up
<1>7. ASSUME NEW s \in Session, NEW m \in Mode, Opened(s, m) PROVE Vital'
  <2>1. UNCHANGED <<runtimes, proc, open>>
    BY <1>7 DEF Opened, historyVars
  <2> QED
    BY <1>0, <2>1 DEF Vital, Up
<1>8. ASSUME NEW s \in Session, Defaulted(s) PROVE Vital'
  <2>1. UNCHANGED <<runtimes, proc, open>>
    BY <1>8 DEF Defaulted, historyVars
  <2> QED
    BY <1>0, <2>1 DEF Vital, Up
<1>9. ASSUME NEW s \in Session, CreationFails(s) PROVE Vital'
  <2>1. UNCHANGED <<runtimes, proc>> /\ open' = open \ {creations[s].child}
    BY <1>9 DEF CreationFails, Drop
  <2>2. creations[s] # None /\ creations[s].child # None
    BY <1>9, ChildTypes, RecordsAreRecords DEF CreationFails
  <2>3. \A t \in Session : runtimes[t] # None => runtimes[t].child # creations[s].child
    BY <2>2, OwnChild
  <2> QED
    BY <1>0, <2>1, <2>3 DEF Vital, Up
<1>10. ASSUME NEW s \in Session, Created(s) PROVE Vital'
  <2> DEFINE made == [workspace |-> creations[s].workspace, acp |-> holds[creations[s].child],
                      child |-> creations[s].child, dead |-> ~Up(creations[s].child)]
  <2>1. UNCHANGED <<proc, open>> /\ runtimes'[s] = made
    BY <1>10 DEF Created, adapterVars
  <2>2. \A t \in Session \ {s} : runtimes'[t] \in {runtimes[t], None}
    BY <1>10 DEF Created
  <2>3. made.dead = ~Up(made.child)
    OBVIOUS
  <2> HIDE DEF made
  <2> QED
    BY <1>0, <2>1, <2>2, <2>3 DEF Vital, Up
<1>11. ASSUME NEW s \in Session, Emit(s) PROVE Vital'
  <2>1. UNCHANGED <<runtimes, proc, open>>
    BY <1>11 DEF Emit, mapVars, adapterVars, historyVars
  <2> QED
    BY <1>0, <2>1 DEF Vital, Up
<1>12. ASSUME NEW s \in Session, NEW m \in Mode, SetMode(s, m) PROVE Vital'
  <2>1. UNCHANGED <<runtimes, proc, open>>
    BY <1>12 DEF SetMode, mapVars
  <2> QED
    BY <1>0, <2>1 DEF Vital, Up
<1>13. ASSUME NEW a \in Adapter, Exit(a) PROVE Vital'
  <2>1. \A b \in Adapter : Up(b)' <=> Up(b) /\ b # a
    BY <1>0, <1>13 DEF Exit, Up, TypeOK
  <2>2. \A t \in Session : runtimes'[t] # None =>
          /\ runtimes[t] # None
          /\ runtimes'[t].child = runtimes[t].child
          /\ runtimes'[t].dead <=> (runtimes[t].dead \/ runtimes[t].child = a)
    BY <1>13, MarkDeadRuntimes DEF Exit
  <2> QED
    BY <1>0, <2>1, <2>2, ChildTypes DEF Vital
<1>14. ASSUME NEW a \in Adapter, Disconnect(a) PROVE Vital'
  <2>1. \A b \in Adapter : Up(b)' <=> Up(b) /\ b # a
    BY <1>0, <1>14 DEF Disconnect, Up, TypeOK
  <2>2. \A t \in Session : runtimes'[t] # None =>
          /\ runtimes[t] # None
          /\ runtimes'[t].child = runtimes[t].child
          /\ runtimes'[t].dead <=> (runtimes[t].dead \/ runtimes[t].child = a)
    BY <1>14, MarkDeadRuntimes DEF Disconnect
  <2> QED
    BY <1>0, <2>1, <2>2, ChildTypes DEF Vital
<1>15. CASE Dispose
  <2>1. UNCHANGED <<runtimes, proc, open>>
    BY <1>15 DEF Dispose, mapVars, adapterVars, historyVars
  <2> QED
    BY <1>0, <2>1 DEF Vital, Up
<1>16. CASE Disposed
  BY <1>16 DEF Disposed, Nothing, Vital
<1>17. ASSUME NEW read \in BOOLEAN, Restart(read) PROVE Vital'
  BY <1>17 DEF Restart, Nothing, Vital
<1>18. CASE UNCHANGED vars
  <2>1. UNCHANGED <<runtimes, proc, open>>
    BY <1>18 DEF vars, mapVars, adapterVars, historyVars
  <2> QED
    BY <1>0, <2>1 DEF Vital, Up
<1> QED
  BY <1>1, <1>2, <1>3, <1>4, <1>5, <1>6, <1>7, <1>8, <1>9, <1>10, <1>11, <1>12, <1>13,
     <1>14, <1>15, <1>16, <1>17, <1>18 DEF Next

--------------------------------------------------------------------------------
(* Theorems: types, one writer, no stray adapter *)

LEMMA ManagerStep == ManagerInv /\ [Next]_vars => ManagerInv'
<1> SUFFICES ASSUME ManagerInv, [Next]_vars PROVE ManagerInv'
  OBVIOUS
<1>1. TypeOK'
  BY TypeStep
<1>2. Named' /\ Serial' /\ Holding'
  BY NamedStep, SerialStep, HoldingStep
<1>3. Processes' /\ Vital' /\ Stages'
  BY ProcessesStep, VitalStep, StagesStep
<1> QED
  BY <1>1, <1>2, <1>3 DEF ManagerInv, Ownership

(* Whatever clients ask for and whatever fails, the maps, the rows and the       *)
(* adapter processes fit together.                                            *)
THEOREM ManagerInvariant == Spec => []ManagerInv
<1> QED
  BY ManagerInit, ManagerStep, PTL DEF Spec

(* What the maps, the table and the processes are is what the code can write    *)
(* or start: AcpSessionManager keeps its types.                               *)
THEOREM ManagerTypeCorrect == Spec => []TypeOK
<1>1. ManagerInv => TypeOK
  BY DEF ManagerInv
<1> QED
  BY <1>1, ManagerInvariant, PTL

(* resurrectRuntime and createRuntime, for any clients, failures and restarts:  *)
(* two adapters of one host never write the transcript of one ACP session.      *)
THEOREM OneWriterAlways == Spec => []OneWriter
<1>1. ASSUME ManagerInv PROVE OneWriter
  <2> SUFFICES ASSUME NEW a \in Adapter, NEW b \in Adapter, Up(a), Up(b),
                      holds[a] = holds[b], holds[a] # None
               PROVE  a = b
    BY DEF OneWriter
  <2>1. \A c \in Adapter : Up(c) => \E s \in Session : HasChild(s, c)
    BY <1>1 DEF ManagerInv, Ownership, Processes, Up
  <2>2. PICK s \in Session, t \in Session : HasChild(s, a) /\ HasChild(t, b)
    BY <2>1
  <2>3. ASSUME NEW r \in Session, NEW c \in Adapter, HasChild(r, c), holds[c] # None
        PROVE  holds[c] \in Names(r)
    <3>1. holds[c] \in Adapter
      BY <1>1, <2>3 DEF ManagerInv, TypeOK
    <3>2. CASE runtimes[r] # None /\ runtimes[r].child = c
      BY <1>1, <3>1, <3>2 DEF ManagerInv, Ownership, Holding, Names
    <3>3. CASE creations[r] # None /\ creations[r].child = c
      <4>1. creations[r] \in Creation /\ creations[r].at # "cwd"
        BY <1>1, <3>3, ChildTypes, RecordsAreRecords DEF ManagerInv, Ownership, Serial
      <4>2. holds[c] \in {creations[r].resume, creations[r].child}
        BY <1>1, <2>3, <3>3, <4>1 DEF ManagerInv, Ownership, Holding, Loads, Creation
      <4> QED
        BY <3>1, <3>3, <4>2 DEF Names
    <3> QED
      BY <2>3, <3>2, <3>3 DEF HasChild
  <2>4. holds[a] \in Names(s) /\ holds[a] \in Names(t)
    BY <2>2, <2>3
  <2>5. s = t
    BY <1>1, <2>4 DEF ManagerInv, Ownership, Named
  <2> QED
    BY <1>1, <2>2, <2>5 DEF HasChild, ManagerInv, Ownership, Serial
<1> QED
  BY <1>1, ManagerInvariant, PTL

(* createRuntime's catch block and dispose: an adapter process that runs is the *)
(* child of a session that is known or being created, or was given up.          *)
THEOREM NoStrayAlways == Spec => []NoStray
<1>1. ASSUME ManagerInv PROVE NoStray
  <2> SUFFICES ASSUME NEW a \in Adapter, proc[a] = "up", a \notin killed \cup lost
               PROVE  /\ disposal # "done"
                      /\ \E s \in Session : HasChild(s, a)
    BY DEF NoStray, HasChild
  <2>1. PICK s \in Session : HasChild(s, a)
    BY <1>1 DEF ManagerInv, Ownership, Processes
  <2> QED
    BY <1>1, <2>1 DEF HasChild, ManagerInv, Ownership, Stages
<1> QED
  BY <1>1, ManagerInvariant, PTL

--------------------------------------------------------------------------------
(* Nobody bypasses permissions unasked *)

LEMMA UnbypassedStep ==
  ASSUME ManagerInv, Unbypassed, [Next]_vars
  PROVE  Unbypassed'
<1>0. TypeOK /\ Serial /\ Holding /\ Stages
  BY DEF ManagerInv, Ownership
<1>1. ASSUME NEW s \in Session, NEW w \in Workspace, CreateExisting(s, w) PROVE Unbypassed'
  <2>1. UNCHANGED <<runtimes, mode, chosen>>
    BY <1>1 DEF CreateExisting, mapVars, adapterVars
  <2> QED
    BY <2>1 DEF Unbypassed
<1>2. ASSUME NEW s \in Session, NEW w \in Workspace, CreateNew(s, w) PROVE Unbypassed'
  <2>1. UNCHANGED <<runtimes, mode, chosen>>
    BY <1>2 DEF CreateNew, adapterVars, historyVars
  <2> QED
    BY <2>1 DEF Unbypassed
<1>3. ASSUME NEW s \in Session, Resurrect(s) PROVE Unbypassed'
  <2>1. UNCHANGED <<runtimes, mode, chosen>>
    BY <1>3 DEF Resurrect, adapterVars, historyVars
  <2> QED
    BY <2>1 DEF Unbypassed
<1>4. ASSUME NEW s \in Session, CwdFails(s) PROVE Unbypassed'
  <2>1. UNCHANGED <<runtimes, mode, chosen>>
    BY <1>4 DEF CwdFails, adapterVars, historyVars
  <2> QED
    BY <2>1 DEF Unbypassed
<1>5. ASSUME NEW s \in Session, NEW a \in Adapter, Spawn(s, a) PROVE Unbypassed'
  <2>1. UNCHANGED <<runtimes, mode, chosen>>
    BY <1>5 DEF Spawn, historyVars
  <2> QED
    BY <2>1 DEF Unbypassed
<1>6. ASSUME NEW s \in Session, Initialized(s) PROVE Unbypassed'
  <2>1. UNCHANGED <<runtimes, mode, chosen>>
    BY <1>6 DEF Initialized, historyVars
  <2> QED
    BY <2>1 DEF Unbypassed
<1>7. ASSUME NEW s \in Session, NEW m \in Mode, Opened(s, m) PROVE Unbypassed'
  <2> DEFINE c == creations[s].child
  <2>1. creations[s] # None /\ c # None
    BY <1>7, ChildTypes, RecordsAreRecords DEF Opened, Busy
  <2>2. \A t \in Session : runtimes[t] # None => runtimes[t].child # c
    BY <2>1, OwnChild
  <2>3. \A b \in Adapter \ {c} : mode'[b] = mode[b]
    BY <1>0, <1>7 DEF Opened, TypeOK
  <2>4. UNCHANGED <<runtimes, chosen>>
    BY <1>7 DEF Opened, historyVars
  <2> QED
    BY <2>2, <2>3, <2>4, ChildTypes DEF Unbypassed
<1>8. ASSUME NEW s \in Session, Defaulted(s) PROVE Unbypassed'
  <2> DEFINE c == creations[s].child
  <2>1. creations[s] # None /\ c # None
    BY <1>8, ChildTypes, RecordsAreRecords DEF Defaulted, Busy
  <2>2. \A t \in Session : runtimes[t] # None => runtimes[t].child # c
    BY <2>1, OwnChild
  <2>3. \A b \in Adapter \ {c} : mode'[b] = mode[b]
    BY <1>0, <1>8 DEF Defaulted, TypeOK
  <2>4. UNCHANGED <<runtimes, chosen>>
    BY <1>8 DEF Defaulted, historyVars
  <2> QED
    BY <2>2, <2>3, <2>4, ChildTypes DEF Unbypassed
<1>9. ASSUME NEW s \in Session, CreationFails(s) PROVE Unbypassed'
  <2>1. UNCHANGED <<runtimes, mode, chosen>>
    BY <1>9 DEF CreationFails, historyVars
  <2> QED
    BY <2>1 DEF Unbypassed
<1>10. ASSUME NEW s \in Session, Created(s) PROVE Unbypassed'
  <2> DEFINE made == [workspace |-> creations[s].workspace, acp |-> holds[creations[s].child],
                      child |-> creations[s].child, dead |-> ~Up(creations[s].child)]
  <2>1. UNCHANGED mode /\ runtimes'[s] = made /\ chosen' = chosen \ {s}
    BY <1>10 DEF Created, adapterVars
  <2>2. \A t \in Session \ {s} : runtimes'[t] \in {runtimes[t], None}
    BY <1>10 DEF Created
  <2>3. made.child = creations[s].child
    OBVIOUS
  <2>4. mode[creations[s].child] # "bypass"
    BY <1>0, <1>10 DEF Created, Busy, Holding, Loads
  <2> HIDE DEF made
  <2> QED
    BY <2>1, <2>2, <2>3, <2>4 DEF Unbypassed
<1>11. ASSUME NEW s \in Session, Emit(s) PROVE Unbypassed'
  <2>1. UNCHANGED <<runtimes, mode, chosen>>
    BY <1>11 DEF Emit, mapVars, adapterVars, historyVars
  <2> QED
    BY <2>1 DEF Unbypassed
<1>12. ASSUME NEW s \in Session, NEW m \in Mode, SetMode(s, m) PROVE Unbypassed'
  <2>1. UNCHANGED runtimes /\ runtimes[s] # None
    BY <1>12 DEF SetMode, mapVars
  <2>2. \A t \in Session \ {s} : runtimes[t] # None => runtimes[t].child # runtimes[s].child
    BY <2>1, Apart, ChildTypes DEF HasChild
  <2>3. \A b \in Adapter \ {runtimes[s].child} : mode'[b] = mode[b]
    BY <1>0, <1>12 DEF SetMode, TypeOK
  <2>4. mode'[runtimes[s].child] = "bypass" => s \in chosen'
    BY <1>0, <2>1, <1>12, ChildTypes DEF SetMode, TypeOK
  <2>5. \A t \in Session \ {s} : t \in chosen => t \in chosen'
    BY <1>12 DEF SetMode
  <2> QED
    BY <2>1, <2>2, <2>3, <2>4, <2>5, ChildTypes DEF Unbypassed
<1>13. ASSUME NEW a \in Adapter, Exit(a) PROVE Unbypassed'
  <2>1. UNCHANGED <<mode, chosen>>
    BY <1>13 DEF Exit
  <2>2. \A t \in Session : runtimes'[t] # None =>
          /\ runtimes[t] # None
          /\ runtimes'[t].child = runtimes[t].child
          /\ runtimes'[t].dead <=> (runtimes[t].dead \/ runtimes[t].child = a)
    BY <1>13, MarkDeadRuntimes DEF Exit
  <2> QED
    BY <2>1, <2>2 DEF Unbypassed
<1>14. ASSUME NEW a \in Adapter, Disconnect(a) PROVE Unbypassed'
  <2>1. UNCHANGED <<mode, chosen>>
    BY <1>14 DEF Disconnect
  <2>2. \A t \in Session : runtimes'[t] # None =>
          /\ runtimes[t] # None
          /\ runtimes'[t].child = runtimes[t].child
          /\ runtimes'[t].dead <=> (runtimes[t].dead \/ runtimes[t].child = a)
    BY <1>14, MarkDeadRuntimes DEF Disconnect
  <2> QED
    BY <2>1, <2>2 DEF Unbypassed
<1>15. CASE Dispose
  <2>1. UNCHANGED <<runtimes, mode, chosen>>
    BY <1>15 DEF Dispose, mapVars, adapterVars, historyVars
  <2> QED
    BY <2>1 DEF Unbypassed
<1>16. CASE Disposed
  BY <1>16 DEF Disposed, Nothing, Unbypassed
<1>17. ASSUME NEW read \in BOOLEAN, Restart(read) PROVE Unbypassed'
  BY <1>17 DEF Restart, Nothing, Unbypassed
<1>18. CASE UNCHANGED vars
  <2>1. UNCHANGED <<runtimes, mode, chosen>>
    BY <1>18 DEF vars, mapVars, adapterVars, historyVars
  <2> QED
    BY <2>1 DEF Unbypassed
<1> QED
  BY <1>1, <1>2, <1>3, <1>4, <1>5, <1>6, <1>7, <1>8, <1>9, <1>10, <1>11, <1>12, <1>13,
     <1>14, <1>15, <1>16, <1>17, <1>18 DEF Next

(* createRuntime: a session that takes prompts is in the bypass mode only if its *)
(* user chose it in this life of the host.                                    *)
THEOREM UnbypassedAlways == Spec => []Unbypassed
<1>1. Init => Unbypassed
  BY DEF Init, Nothing, Unbypassed
<1>2. ManagerInv /\ Unbypassed /\ [Next]_vars => Unbypassed'
  BY UnbypassedStep
<1> QED
  BY <1>1, <1>2, ManagerInvariant, PTL DEF Spec

--------------------------------------------------------------------------------
(* The dead that are kept *)

FewDead == Cardinality(Dead(runtimes)) <= MAX_DEAD_RUNTIMES + 1

LEMMA DeadAreFinite ==
  ASSUME NEW map
  PROVE  IsFiniteSet(Dead(map))
BY FiniteAssumption, FS_Subset DEF Dead

LEMMA FewerDead ==
  ASSUME NEW S, IsFiniteSet(S), NEW T \in SUBSET S
  PROVE  Cardinality(T) \in Nat /\ Cardinality(S) \in Nat /\ Cardinality(T) <= Cardinality(S)
<1>1. IsFiniteSet(T) /\ Cardinality(T) <= Cardinality(S)
  BY FS_Subset
<1> QED
  BY <1>1, FS_CardinalityType

LEMMA VictimsLeaveRoom ==
  ASSUME NEW map, NEW victims, Victims(map, victims)
  PROVE  /\ IsFiniteSet(Dead(map) \ victims)
         /\ Cardinality(Dead(map) \ victims) \in Nat
         /\ Cardinality(Dead(map) \ victims) <= MAX_DEAD_RUNTIMES
<1>1. IsFiniteSet(Dead(map)) /\ victims \subseteq Dead(map)
  BY DeadAreFinite DEF Victims
<1>2. Dead(map) \cap victims = victims
  BY <1>1
<1>3. /\ IsFiniteSet(Dead(map) \ victims)
      /\ Cardinality(Dead(map) \ victims) = Cardinality(Dead(map)) - Cardinality(victims)
  BY <1>1, <1>2, FS_Difference
<1>4. Cardinality(Dead(map)) \in Nat /\ Cardinality(Dead(map) \ victims) \in Nat
  BY <1>1, <1>3, FS_CardinalityType
<1> QED
  BY <1>3, <1>4, GraveyardAssumption DEF Victims

LEMMA EvictedDead ==
  ASSUME NEW map \in [Session -> Runtime \cup {None}], NEW victims, Evict(map, victims)
  PROVE  FewDead'
<1>1. Dead(runtimes)' \subseteq Dead(map) \ victims
  BY DEF Dead, Evict
<1> DEFINE kept == Dead(map) \ victims
<1>2. IsFiniteSet(kept) /\ Cardinality(kept) \in Nat /\ Cardinality(kept) <= MAX_DEAD_RUNTIMES
  BY VictimsLeaveRoom DEF Evict
<1> HIDE DEF kept
<1>3. Dead(runtimes)' \in SUBSET kept
  BY <1>1 DEF kept
<1>4. Cardinality(Dead(runtimes)') \in Nat /\ Cardinality(Dead(runtimes)') <= Cardinality(kept)
  BY <1>2, <1>3, FewerDead
<1> QED
  BY <1>2, <1>4, GraveyardAssumption DEF FewDead

(* Fewer dead than there were are few.                                        *)
LEMMA FewDeadKept ==
  ASSUME FewDead, Dead(runtimes)' \subseteq Dead(runtimes)
  PROVE  FewDead'
BY DeadAreFinite, FewerDead, GraveyardAssumption DEF FewDead

LEMMA FewDeadStep ==
  ASSUME ManagerInv, FewDead, [Next]_vars
  PROVE  FewDead'
<1>0. TypeOK /\ Serial
  BY DEF ManagerInv, Ownership
<1>1. ASSUME NEW s \in Session, NEW w \in Workspace, CreateExisting(s, w) PROVE FewDead'
  <2>1. UNCHANGED runtimes
    BY <1>1 DEF CreateExisting, mapVars, adapterVars
  <2> QED
    BY <2>1 DEF FewDead, Dead
<1>2. ASSUME NEW s \in Session, NEW w \in Workspace, CreateNew(s, w) PROVE FewDead'
  <2>1. UNCHANGED runtimes
    BY <1>2 DEF CreateNew, adapterVars, historyVars
  <2> QED
    BY <2>1 DEF FewDead, Dead
<1>3. ASSUME NEW s \in Session, Resurrect(s) PROVE FewDead'
  <2>1. UNCHANGED runtimes
    BY <1>3 DEF Resurrect, adapterVars, historyVars
  <2> QED
    BY <2>1 DEF FewDead, Dead
<1>4. ASSUME NEW s \in Session, CwdFails(s) PROVE FewDead'
  <2>1. UNCHANGED runtimes
    BY <1>4 DEF CwdFails, adapterVars, historyVars
  <2> QED
    BY <2>1 DEF FewDead, Dead
<1>5. ASSUME NEW s \in Session, NEW a \in Adapter, Spawn(s, a) PROVE FewDead'
  <2>1. UNCHANGED runtimes
    BY <1>5 DEF Spawn, historyVars
  <2> QED
    BY <2>1 DEF FewDead, Dead
<1>6. ASSUME NEW s \in Session, Initialized(s) PROVE FewDead'
  <2>1. UNCHANGED runtimes
    BY <1>6 DEF Initialized, historyVars
  <2> QED
    BY <2>1 DEF FewDead, Dead
<1>7. ASSUME NEW s \in Session, NEW m \in Mode, Opened(s, m) PROVE FewDead'
  <2>1. UNCHANGED runtimes
    BY <1>7 DEF Opened, historyVars
  <2> QED
    BY <2>1 DEF FewDead, Dead
<1>8. ASSUME NEW s \in Session, Defaulted(s) PROVE FewDead'
  <2>1. UNCHANGED runtimes
    BY <1>8 DEF Defaulted, historyVars
  <2> QED
    BY <2>1 DEF FewDead, Dead
<1>9. ASSUME NEW s \in Session, CreationFails(s) PROVE FewDead'
  <2>1. UNCHANGED runtimes
    BY <1>9 DEF CreationFails, historyVars
  <2> QED
    BY <2>1 DEF FewDead, Dead
<1>10. ASSUME NEW s \in Session, Created(s) PROVE FewDead'
  <2> DEFINE made == [workspace |-> creations[s].workspace, acp |-> holds[creations[s].child],
                      child |-> creations[s].child, dead |-> ~Up(creations[s].child)]
  <2>1. PICK victims \in SUBSET Session :
          /\ made.dead => Victims(runtimes, victims)
          /\ runtimes' = [r \in Session |->
               IF r = s THEN made ELSE IF r \in victims THEN None ELSE runtimes[r]]
    BY <1>10 DEF Created
  <2>2. made.dead \in BOOLEAN
    BY DEF Up
  <2> HIDE DEF made
  <2>3. CASE made.dead
    <3> DEFINE kept == Dead(runtimes) \ victims
    <3>1. IsFiniteSet(kept) /\ Cardinality(kept) \in Nat /\ Cardinality(kept) <= MAX_DEAD_RUNTIMES
      BY <2>1, <2>3, VictimsLeaveRoom
    <3>2. Dead(runtimes)' \subseteq kept \cup {s}
      BY <2>1 DEF Dead
    <3> HIDE DEF kept
    <3>3. IsFiniteSet(kept \cup {s}) /\ Cardinality(kept \cup {s}) <= MAX_DEAD_RUNTIMES + 1
      BY <3>1, FS_AddElement, GraveyardAssumption
    <3>4. /\ Cardinality(Dead(runtimes)') \in Nat /\ Cardinality(kept \cup {s}) \in Nat
          /\ Cardinality(Dead(runtimes)') <= Cardinality(kept \cup {s})
      BY <3>2, <3>3, FewerDead
    <3> QED
      BY <3>3, <3>4, GraveyardAssumption DEF FewDead
  <2>4. CASE ~made.dead
    <3>1. Dead(runtimes)' \subseteq Dead(runtimes)
      BY <2>1, <2>4 DEF Dead
    <3> QED
      BY <3>1, FewDeadKept
  <2> QED
    BY <2>2, <2>3, <2>4
<1>11. ASSUME NEW s \in Session, Emit(s) PROVE FewDead'
  <2>1. UNCHANGED runtimes
    BY <1>11 DEF Emit, mapVars, adapterVars, historyVars
  <2> QED
    BY <2>1 DEF FewDead, Dead
<1>12. ASSUME NEW s \in Session, NEW m \in Mode, SetMode(s, m) PROVE FewDead'
  <2>1. UNCHANGED runtimes
    BY <1>12 DEF SetMode, mapVars
  <2> QED
    BY <2>1 DEF FewDead, Dead
<1>13. ASSUME NEW a \in Adapter, Exit(a) PROVE FewDead'
  <2>1. MarkDead(a)
    BY <1>13 DEF Exit
  <2>2. CASE \E s \in Session, victims \in SUBSET Session :
               /\ runtimes[s] # None
               /\ Evict([runtimes EXCEPT ![s].dead = TRUE], victims)
    <3>1. PICK s \in Session, victims \in SUBSET Session :
            /\ runtimes[s] # None
            /\ Evict([runtimes EXCEPT ![s].dead = TRUE], victims)
      BY <2>2
    <3>2. runtimes[s] \in Runtime
      BY <1>0, <3>1 DEF TypeOK
    <3>3. [runtimes EXCEPT ![s].dead = TRUE] \in [Session -> Runtime \cup {None}]
      BY <1>0, <3>2 DEF TypeOK, Runtime
    <3> QED
      BY <3>1, <3>3, EvictedDead
  <2>3. CASE UNCHANGED runtimes
    BY <2>3 DEF FewDead, Dead
  <2> QED
    BY <2>1, <2>2, <2>3 DEF MarkDead
<1>14. ASSUME NEW a \in Adapter, Disconnect(a) PROVE FewDead'
  <2>1. MarkDead(a)
    BY <1>14 DEF Disconnect
  <2>2. CASE \E s \in Session, victims \in SUBSET Session :
               /\ runtimes[s] # None
               /\ Evict([runtimes EXCEPT ![s].dead = TRUE], victims)
    <3>1. PICK s \in Session, victims \in SUBSET Session :
            /\ runtimes[s] # None
            /\ Evict([runtimes EXCEPT ![s].dead = TRUE], victims)
      BY <2>2
    <3>2. runtimes[s] \in Runtime
      BY <1>0, <3>1 DEF TypeOK
    <3>3. [runtimes EXCEPT ![s].dead = TRUE] \in [Session -> Runtime \cup {None}]
      BY <1>0, <3>2 DEF TypeOK, Runtime
    <3> QED
      BY <3>1, <3>3, EvictedDead
  <2>3. CASE UNCHANGED runtimes
    BY <2>3 DEF FewDead, Dead
  <2> QED
    BY <2>1, <2>2, <2>3 DEF MarkDead
<1>15. CASE Dispose
  <2>1. UNCHANGED runtimes
    BY <1>15 DEF Dispose, mapVars, adapterVars, historyVars
  <2> QED
    BY <2>1 DEF FewDead, Dead
<1>16. CASE Disposed
  <2>1. Dead(runtimes)' = {}
    BY <1>16 DEF Disposed, Nothing, Dead
  <2> QED
    BY <2>1, FewDeadKept
<1>17. ASSUME NEW read \in BOOLEAN, Restart(read) PROVE FewDead'
  <2>1. Dead(runtimes)' = {}
    BY <1>17 DEF Restart, Nothing, Dead
  <2> QED
    BY <2>1, FewDeadKept
<1>18. CASE UNCHANGED vars
  <2>1. UNCHANGED runtimes
    BY <1>18 DEF vars, mapVars, adapterVars, historyVars
  <2> QED
    BY <2>1 DEF FewDead, Dead
<1> QED
  BY <1>1, <1>2, <1>3, <1>4, <1>5, <1>6, <1>7, <1>8, <1>9, <1>10, <1>11, <1>12, <1>13,
     <1>14, <1>15, <1>16, <1>17, <1>18 DEF Next

(* evictDeadRuntimes: at most one dead runtime more than the limit is kept, and  *)
(* every runtime without an adapter is marked as dead.                        *)
THEOREM GraveyardAlways == Spec => []Graveyard
<1>1. ASSUME Init PROVE FewDead
  <2>1. Dead(runtimes) = {}
    BY <1>1 DEF Init, Nothing, Dead
  <2> QED
    BY <2>1, FS_EmptySet, GraveyardAssumption DEF FewDead
<1>2. ManagerInv /\ FewDead /\ [Next]_vars => FewDead'
  BY FewDeadStep
<1>3. ManagerInv /\ FewDead => Graveyard
  BY DEF ManagerInv, Ownership, Vital, FewDead, Graveyard
<1> QED
  BY <1>1, <1>2, <1>3, ManagerInvariant, PTL DEF Spec

--------------------------------------------------------------------------------
(* What a client was told stays true *)

Agrees(s, r) == told[s] # {} /\ (s \notin forgot => told[s] = {r})

(* A row, a runtime, a zombie and an offline record say what a client was told, *)
(* and until the manager is disposed of one of them can be found.             *)
Truth ==
  \A s \in Session :
    /\ rows[s] # None => Agrees(s, rows[s])
    /\ runtimes[s] # None => Agrees(s, RecordOf(runtimes[s])) /\ offline[s] = None
    /\ zombies[s] # None => Agrees(s, RecordOf(zombies[s]))
    /\ offline[s] # None => Agrees(s, offline[s])

Found ==
  disposal # "done" =>
    \A s \in Session \ forgot : told[s] # {} => runtimes[s] # None \/ offline[s] # None

LEMMA MarkDeadForgets ==
  ASSUME NEW a \in Adapter, TypeOK, MarkDead(a)
  PROVE  /\ forgot \subseteq forgot'
         /\ \A t \in Session : runtimes[t] # None /\ runtimes'[t] = None => t \in forgot'
<1>1. CASE \E s \in Session, victims \in SUBSET Session :
             /\ runtimes[s] # None
             /\ Evict([runtimes EXCEPT ![s].dead = TRUE], victims)
  <2>1. PICK s \in Session, victims \in SUBSET Session :
          /\ runtimes[s] # None
          /\ Evict([runtimes EXCEPT ![s].dead = TRUE], victims)
    BY <1>1
  <2>2. runtimes[s] \in Runtime
    BY <2>1 DEF TypeOK
  <2> DEFINE map == [runtimes EXCEPT ![s].dead = TRUE]
  <2>3. \A t \in Session : runtimes[t] # None => map[t] # None
    <3>1. map[s] \in Runtime /\ \A t \in Session \ {s} : map[t] = runtimes[t]
      BY <2>2 DEF TypeOK, Runtime
    <3> QED
      BY <3>1, RecordsAreRecords
  <2> HIDE DEF map
  <2>4. Evict(map, victims)
    BY <2>1 DEF map
  <2> QED
    BY <2>3, <2>4 DEF Evict
<1>2. CASE UNCHANGED <<runtimes, forgot>>
  BY <1>2
<1> QED
  BY <1>1, <1>2 DEF MarkDead

LEMMA MarkDeadKeepsTruth ==
  ASSUME ManagerInv, Truth, Found, NEW a \in Adapter, MarkDead(a),
         UNCHANGED <<offline, told, disposal>>
  PROVE  Truth' /\ Found'
<1>1. \A t \in Session :
        /\ runtimes'[t] # None =>
             runtimes[t] # None /\ RecordOf(runtimes'[t]) = RecordOf(runtimes[t])
        /\ zombies'[t] # None => zombies'[t] = zombies[t]
        /\ rows'[t] # None =>
             \/ rows[t] # None /\ rows'[t] = rows[t]
             \/ runtimes[t] # None /\ rows'[t] = RecordOf(runtimes[t])
             \/ zombies[t] # None /\ rows'[t] = RecordOf(zombies[t])
  BY MarkDeadEffect DEF ManagerInv
<1>2. /\ forgot \subseteq forgot'
      /\ \A t \in Session : runtimes[t] # None /\ runtimes'[t] = None => t \in forgot'
  BY MarkDeadForgets DEF ManagerInv
<1> DEFINE Agreed(t, r) == told[t] # {} /\ (t \notin forgot' => told[t] = {r})
<1>3. \A t \in Session :
        /\ rows[t] # None => Agreed(t, rows[t])
        /\ runtimes[t] # None => Agreed(t, RecordOf(runtimes[t])) /\ offline[t] = None
        /\ zombies[t] # None => Agreed(t, RecordOf(zombies[t]))
        /\ offline[t] # None => Agreed(t, offline[t])
  BY <1>2 DEF Truth, Agrees
<1> HIDE DEF Agreed
<1>4. \A t \in Session :
        /\ rows'[t] # None => Agreed(t, rows'[t])
        /\ runtimes'[t] # None => Agreed(t, RecordOf(runtimes'[t])) /\ offline'[t] = None
        /\ zombies'[t] # None => Agreed(t, RecordOf(zombies'[t]))
        /\ offline'[t] # None => Agreed(t, offline'[t])
  BY <1>1, <1>3
<1>5. Truth'
  BY <1>4 DEF Truth, Agrees, RecordOf, Agreed
<1>6. Found'
  BY <1>2 DEF Found
<1> QED
  BY <1>5, <1>6

(* Saving what a session is leaves the truth.                                 *)
LEMMA SavedTruth ==
  ASSUME ManagerInv, Truth, Found, NEW s \in Session, runtimes[s] # None, Save(s, runtimes[s]),
         UNCHANGED <<mapVars, told, forgot, disposal>>
  PROVE  Truth' /\ Found'
<1>1. \A t \in Session : rows'[t] # None =>
        \/ rows[t] # None /\ rows'[t] = rows[t]
        \/ runtimes[t] # None /\ rows'[t] = RecordOf(runtimes[t])
  BY DEF Save, ManagerInv, TypeOK
<1> QED
  BY <1>1 DEF Truth, Found, Agrees, RecordOf, mapVars

LEMMA CreatedTruth ==
  ASSUME ManagerInv, Truth, Found, NEW s \in Session, Created(s)
  PROVE  Truth' /\ Found'
<1> DEFINE c == creations[s]
           made == [workspace |-> c.workspace, acp |-> holds[c.child], child |-> c.child,
                    dead |-> ~Up(c.child)]
<1>0. TypeOK /\ Serial /\ Holding /\ Stages
  BY DEF ManagerInv, Ownership
<1>1. /\ runtimes[s] = None /\ zombies[s] = None /\ disposal # "done"
      /\ c # None /\ c.at = "ready" /\ c \in Creation
  BY <1>0 DEF Created, Busy, Serial, Stages, TypeOK
<1>2. made \in Runtime /\ made # None
  BY MadeIsRuntime, RecordsAreRecords DEF Created
<1>3. c.resume # None => offline[s] = RecordOf(made)
  BY <1>0, <1>1 DEF Serial, Holding, Loads, RecordOf
<1>4. c.resume = None => offline[s] = None
  BY <1>0, <1>1 DEF Serial
<1> HIDE DEF made
<1> DEFINE rec == RecordOf(made)
<1>5. PICK victims \in SUBSET Session :
        /\ made.dead \/ victims = {}
        /\ made.dead => Victims(runtimes, victims)
        /\ runtimes' = [r \in Session |->
             IF r = s THEN made ELSE IF r \in victims THEN None ELSE runtimes[r]]
        /\ forgot' = forgot \cup victims
  BY DEF Created, made
<1>6. victims \subseteq Dead(runtimes)
  BY <1>5 DEF Victims
<1>7. /\ told' = [told EXCEPT ![s] = @ \cup {rec}]
      /\ rows' = rows \/ rows' = [rows EXCEPT ![s] = rec]
      /\ offline' = [offline EXCEPT ![s] = IF c.resume = None THEN @ ELSE None]
      /\ UNCHANGED <<zombies, disposal>>
  BY DEF Created, Save, Tell, made
<1> HIDE DEF rec, c
<1>8. told'[s] = told[s] \cup {rec} /\ \A t \in Session \ {s} : told'[t] = told[t]
  BY <1>0, <1>7 DEF TypeOK
<1>9. rows'[s] \in {rows[s], rec} /\ \A t \in Session \ {s} : rows'[t] = rows[t]
  BY <1>0, <1>7 DEF TypeOK
<1>10. offline'[s] = None /\ \A t \in Session \ {s} : offline'[t] = offline[t]
  BY <1>0, <1>4, <1>7 DEF TypeOK
<1>11. s \notin victims /\ (s \notin forgot' => s \notin forgot)
  BY <1>1, <1>5, <1>6 DEF Dead
<1>12. s \notin forgot => told[s] \in { {}, {rec} } /\ (rows[s] # None => rows[s] = rec)
  <2>1. CASE c.resume # None
    <3>1. offline[s] = rec /\ offline[s] # None
      BY <1>0, <1>2, <1>3, <2>1, RecordsAreRecords DEF rec, c
    <3> QED
      BY <3>1 DEF Truth, Agrees
  <2>2. CASE c.resume = None
    <3>1. offline[s] = None
      BY <1>4, <2>2
    <3> QED
      BY <1>1, <3>1 DEF Truth, Found, Agrees
  <2> QED
    BY <2>1, <2>2
<1>13. \A t \in Session \ {s} :
         /\ runtimes'[t] # None => runtimes'[t] = runtimes[t]
         /\ runtimes'[t] = None /\ runtimes[t] # None => t \in forgot'
  BY <1>5
<1>14. forgot \subseteq forgot' /\ runtimes'[s] = made
  BY <1>5
<1>15. ASSUME NEW t \in Session \ {s}
       PROVE  /\ rows'[t] # None => Agrees(t, rows[t])'
              /\ runtimes'[t] # None => Agrees(t, RecordOf(runtimes[t]))' /\ offline'[t] = None
              /\ zombies'[t] # None => Agrees(t, RecordOf(zombies[t]))'
              /\ offline'[t] # None => Agrees(t, offline[t])'
  BY <1>7, <1>8, <1>9, <1>10, <1>13, <1>14 DEF Truth, Agrees, RecordOf
<1>16. /\ rows'[s] # None => Agrees(s, rows[s])'
       /\ runtimes'[s] # None => Agrees(s, RecordOf(runtimes[s]))' /\ offline'[s] = None
       /\ zombies'[s] # None => Agrees(s, RecordOf(zombies[s]))'
       /\ offline'[s] # None => Agrees(s, offline[s])'
  <2>1. told'[s] # {} /\ (s \notin forgot' => told'[s] = {rec})
    BY <1>8, <1>11, <1>12
  <2>2. s \notin forgot' /\ rows'[s] # None => rows'[s] = rec
    BY <1>9, <1>11, <1>12
  <2>3. zombies'[s] = None
    BY <1>1, <1>7
  <2>4. RecordOf(runtimes[s])' = rec
    BY <1>14 DEF rec, RecordOf
  <2> QED
    BY <1>10, <2>1, <2>2, <2>3, <2>4 DEF Agrees
<1>17. Truth'
  BY <1>15, <1>16 DEF Truth
<1>18. Found'
  BY <1>2, <1>7, <1>8, <1>10, <1>13, <1>14 DEF Found
<1> QED
  BY <1>17, <1>18

LEMMA TruthStep ==
  ASSUME ManagerInv, Truth, Found, [Next]_vars
  PROVE  Truth' /\ Found'
<1>0. TypeOK /\ Serial /\ Stages
  BY DEF ManagerInv, Ownership
<1>1. ASSUME NEW s \in Session, NEW w \in Workspace, CreateExisting(s, w) PROVE Truth' /\ Found'
  <2>1. /\ UNCHANGED <<runtimes, offline, zombies, rows, forgot, disposal>>
        /\ runtimes[s] # None /\ disposal = "no"
    BY <1>1 DEF CreateExisting, mapVars
  <2>2. Agrees(s, RecordOf(runtimes[s]))
    BY <2>1 DEF Truth
  <2>3. /\ told'[s] = told[s] \cup {RecordOf(runtimes[s])}
        /\ \A t \in Session \ {s} : told'[t] = told[t]
    BY <1>0, <1>1 DEF CreateExisting, Tell, TypeOK
  <2>4. told'[s] # {} /\ (s \notin forgot => told'[s] = told[s])
    BY <2>2, <2>3 DEF Agrees
  <2>5. \A t \in Session : told[t] # {} => told'[t] # {} /\ (t \notin forgot => told'[t] = told[t])
    BY <2>3, <2>4
  <2>6. Truth'
    BY <2>1, <2>5 DEF Truth, Agrees, RecordOf
  <2> QED
    BY <2>1, <2>3, <2>6 DEF Found
<1>2. ASSUME NEW s \in Session, NEW w \in Workspace, CreateNew(s, w) PROVE Truth' /\ Found'
  <2>1. UNCHANGED <<runtimes, offline, zombies, rows, told, forgot, disposal>>
    BY <1>2 DEF CreateNew, adapterVars, historyVars
  <2> QED
    BY <2>1 DEF Truth, Found, Agrees, RecordOf
<1>3. ASSUME NEW s \in Session, Resurrect(s) PROVE Truth' /\ Found'
  <2>1. UNCHANGED <<runtimes, offline, zombies, rows, told, forgot, disposal>>
    BY <1>3 DEF Resurrect, adapterVars, historyVars
  <2> QED
    BY <2>1 DEF Truth, Found, Agrees, RecordOf
<1>4. ASSUME NEW s \in Session, CwdFails(s) PROVE Truth' /\ Found'
  <2>1. UNCHANGED <<runtimes, offline, zombies, rows, told, forgot, disposal>>
    BY <1>4 DEF CwdFails, adapterVars, historyVars
  <2> QED
    BY <2>1 DEF Truth, Found, Agrees, RecordOf
<1>5. ASSUME NEW s \in Session, NEW a \in Adapter, Spawn(s, a) PROVE Truth' /\ Found'
  <2>1. UNCHANGED <<runtimes, offline, zombies, rows, told, forgot, disposal>>
    BY <1>5 DEF Spawn, historyVars
  <2> QED
    BY <2>1 DEF Truth, Found, Agrees, RecordOf
<1>6. ASSUME NEW s \in Session, Initialized(s) PROVE Truth' /\ Found'
  <2>1. UNCHANGED <<runtimes, offline, zombies, rows, told, forgot, disposal>>
    BY <1>6 DEF Initialized, historyVars
  <2> QED
    BY <2>1 DEF Truth, Found, Agrees, RecordOf
<1>7. ASSUME NEW s \in Session, NEW m \in Mode, Opened(s, m) PROVE Truth' /\ Found'
  <2>1. UNCHANGED <<runtimes, offline, zombies, rows, told, forgot, disposal>>
    BY <1>7 DEF Opened, historyVars
  <2> QED
    BY <2>1 DEF Truth, Found, Agrees, RecordOf
<1>8. ASSUME NEW s \in Session, Defaulted(s) PROVE Truth' /\ Found'
  <2>1. UNCHANGED <<runtimes, offline, zombies, rows, told, forgot, disposal>>
    BY <1>8 DEF Defaulted, historyVars
  <2> QED
    BY <2>1 DEF Truth, Found, Agrees, RecordOf
<1>9. ASSUME NEW s \in Session, CreationFails(s) PROVE Truth' /\ Found'
  <2>1. UNCHANGED <<runtimes, offline, zombies, rows, told, forgot, disposal>>
    BY <1>9 DEF CreationFails, historyVars
  <2> QED
    BY <2>1 DEF Truth, Found, Agrees, RecordOf
<1>10. ASSUME NEW s \in Session, Created(s) PROVE Truth' /\ Found'
  BY <1>10, CreatedTruth
<1>11. ASSUME NEW s \in Session, Emit(s) PROVE Truth' /\ Found'
  <2>1. /\ runtimes[s] # None /\ Save(s, runtimes[s])
        /\ UNCHANGED <<mapVars, told, forgot, disposal>>
    BY <1>11 DEF Emit, historyVars
  <2> QED
    BY <2>1, SavedTruth
<1>12. ASSUME NEW s \in Session, NEW m \in Mode, SetMode(s, m) PROVE Truth' /\ Found'
  <2>1. /\ runtimes[s] # None /\ Save(s, runtimes[s])
        /\ UNCHANGED <<mapVars, told, forgot, disposal>>
    BY <1>12 DEF SetMode
  <2> QED
    BY <2>1, SavedTruth
<1>13. ASSUME NEW a \in Adapter, Exit(a) PROVE Truth' /\ Found'
  <2>1. MarkDead(a) /\ UNCHANGED <<offline, told, disposal>>
    BY <1>13 DEF Exit
  <2> QED
    BY <2>1, MarkDeadKeepsTruth
<1>14. ASSUME NEW a \in Adapter, Disconnect(a) PROVE Truth' /\ Found'
  <2>1. MarkDead(a) /\ UNCHANGED <<offline, told, disposal>>
    BY <1>14 DEF Disconnect
  <2> QED
    BY <2>1, MarkDeadKeepsTruth
<1>15. CASE Dispose
  <2>1. UNCHANGED <<runtimes, offline, zombies, rows, told, forgot>> /\ disposal # "done"
    BY <1>15 DEF Dispose, mapVars, historyVars
  <2> QED
    BY <2>1 DEF Truth, Found, Agrees, RecordOf
<1>16. CASE Disposed
  <2>1. /\ UNCHANGED <<offline, rows, told, forgot>> /\ disposal' = "done"
        /\ \A t \in Session : runtimes'[t] = None /\ zombies'[t] \in {runtimes[t], None}
    BY <1>16 DEF Disposed, Nothing, historyVars
  <2> QED
    BY <2>1 DEF Truth, Found, Agrees, RecordOf
<1>17. ASSUME NEW read \in BOOLEAN, Restart(read) PROVE Truth' /\ Found'
  <2>1. /\ UNCHANGED <<rows, told>> /\ forgot \subseteq forgot'
        /\ \A t \in Session :
             /\ runtimes'[t] = None /\ zombies'[t] = None
             /\ offline'[t] \in {rows[t], None}
             /\ told[t] # {} /\ offline'[t] = None => t \in forgot'
    BY <1>17 DEF Restart, Nothing
  <2> QED
    BY <2>1 DEF Truth, Found, Agrees, RecordOf
<1>18. CASE UNCHANGED vars
  <2>1. UNCHANGED <<runtimes, offline, zombies, rows, told, forgot, disposal>>
    BY <1>18 DEF vars, mapVars, adapterVars, historyVars
  <2> QED
    BY <2>1 DEF Truth, Found, Agrees, RecordOf
<1> QED
  BY <1>1, <1>2, <1>3, <1>4, <1>5, <1>6, <1>7, <1>8, <1>9, <1>10, <1>11, <1>12, <1>13,
     <1>14, <1>15, <1>16, <1>17, <1>18 DEF Next

(* "Create is idempotent": whatever fails and however often the host restarts, a *)
(* session a client was told of can be found as it was told, unless it was      *)
(* evicted or its row could not be written or read.                           *)
THEOREM StillThereAlways == Spec => []StillThere
<1>1. Init => Truth /\ Found
  BY DEF Init, Nothing, Truth, Found
<1>2. ManagerInv /\ Truth /\ Found /\ [Next]_vars => Truth' /\ Found'
  BY TruthStep
<1>3. Truth /\ Found => StillThere
  BY DEF Truth, Found, Agrees, StillThere, Known
<1> QED
  BY <1>1, <1>2, <1>3, ManagerInvariant, PTL DEF Spec


--------------------------------------------------------------------------------
(* Nobody disturbs a session that lives *)

(* What closed its connection stays closed. *)
Closed == \A a \in lost : a \notin open /\ proc[a] # "none"

LEMMA ClosedStep == TypeOK /\ Processes /\ Closed /\ [Next]_vars => Closed'
<1> SUFFICES ASSUME TypeOK, Processes, Closed, [Next]_vars PROVE Closed'
  OBVIOUS
<1>1. ASSUME NEW s \in Session, NEW a \in Adapter, Spawn(s, a) PROVE Closed'
  BY <1>1 DEF Spawn, Closed, TypeOK, historyVars
<1>2. ASSUME NEW a \in Adapter, Exit(a) PROVE Closed'
  BY <1>2 DEF Exit, Closed, TypeOK
<1>3. ASSUME NEW a \in Adapter, Disconnect(a) PROVE Closed'
  BY <1>3 DEF Disconnect, Closed, TypeOK, Up
<1>4. ASSUME NEW read \in BOOLEAN, Restart(read) PROVE Closed'
  BY <1>4 DEF Restart, Closed, TypeOK, Processes
<1>5. CASE Disposed
  BY <1>5 DEF Disposed, Closed, historyVars
<1>6. ASSUME NEW s \in Session, CreationFails(s) PROVE Closed'
  BY <1>6 DEF CreationFails, Drop, Closed, historyVars
<1>7. CASE UNCHANGED <<lost, open, proc>>
  BY <1>7 DEF Closed
<1> QED
  BY <1>1, <1>2, <1>3, <1>4, <1>5, <1>6, <1>7 DEF Next, vars, mapVars, adapterVars, historyVars,
     CreateExisting, CreateNew, Resurrect, CwdFails, Initialized, Defaulted, Created, Emit, Opened,
     SetMode, Dispose

(* What Undisturbed asks of a step for a session that lives. *)
Untouched(s) ==
  LET a == runtimes[s].child IN
  \/ proc'[a] = "gone" \/ a \in lost' \ lost \/ disposal' = "done"
  \/ /\ runtimes'[s] = runtimes[s] /\ holds'[a] = holds[a]
     /\ Up(a)' /\ a \notin killed' \ killed

(* The end of another adapter, and the eviction that follows it. *)
LEMMA AdapterEnds ==
  ASSUME ManagerInv, NEW s \in Session, runtimes[s] # None, ~runtimes[s].dead,
         NEW a \in Adapter, Exit(a) \/ Disconnect(a), runtimes[s].child # a
  PROVE  runtimes'[s] = runtimes[s]
<1>1. runtimes[s] \in Runtime /\ MarkDead(a) /\ TypeOK
  BY ChildTypes DEF Exit, Disconnect, ManagerInv
<1>2. ASSUME NEW t \in Session, NEW victims \in SUBSET Session, t # s, runtimes[t] # None,
             Evict([runtimes EXCEPT ![t].dead = TRUE], victims)
      PROVE  runtimes'[s] = runtimes[s]
  <2> DEFINE map == [runtimes EXCEPT ![t].dead = TRUE]
  <2>1. map[s] = runtimes[s]
    BY <1>1, <1>2 DEF TypeOK
  <2> HIDE DEF map
  <2>2. Evict(map, victims)
    BY <1>2 DEF map
  <2> QED
    BY <2>1, <2>2 DEF Evict, Victims, Dead
<1> QED
  BY <1>1, <1>2 DEF MarkDead

LEMMA UntouchedStep ==
  ASSUME ManagerInv, ManagerInv', Closed, Next, NEW s \in Session,
         runtimes[s] # None, ~runtimes[s].dead
  PROVE  Untouched(s)
<1> DEFINE a == runtimes[s].child
<1>0. /\ TypeOK /\ a \in Adapter /\ Up(a) /\ HasChild(s, a) /\ a \notin lost
  BY ChildTypes DEF ManagerInv, Ownership, Vital, HasChild, Closed, Up
<1>a. \A t \in Session : creations[t] # None => creations[t].child # a
  <2>1. \A t \in Session : HasChild(t, a) => t = s
    BY <1>0, Apart
  <2> QED
    BY <2>1 DEF HasChild, ManagerInv, Ownership, Serial
<1> HIDE DEF a
<1>1. ASSUME runtimes'[s] = runtimes[s], holds'[a] = holds[a], proc'[a] = proc[a],
             a \in open', a \notin killed' \ killed
      PROVE  Untouched(s)
  BY <1>0, <1>1 DEF Untouched, Up, a
<1>2. ASSUME NEW t \in Session, NEW b \in Adapter, Spawn(t, b) PROVE Untouched(s)
  BY <1>0, <1>1, <1>2 DEF Spawn, TypeOK, Up
<1>3. ASSUME NEW t \in Session, Initialized(t) PROVE Untouched(s)
  BY <1>0, <1>a, <1>1, <1>3 DEF Initialized, TypeOK, Up, Busy
<1>4. ASSUME NEW t \in Session, NEW m \in Mode, Opened(t, m) PROVE Untouched(s)
  BY <1>0, <1>a, <1>1, <1>4 DEF Opened, TypeOK, Up, Busy
<1>5. ASSUME NEW t \in Session, CreationFails(t) PROVE Untouched(s)
  BY <1>0, <1>a, <1>1, <1>5 DEF CreationFails, Drop, Up
<1>6. ASSUME NEW t \in Session, Created(t) PROVE Untouched(s)
  <2>1. t # s
    BY <1>6 DEF Created, Busy, ManagerInv, Ownership, Serial
  <2>2. runtimes'[s] = runtimes[s]
    BY <1>6, <2>1 DEF Created, Victims, Dead
  <2> QED
    BY <1>0, <1>1, <1>6, <2>2 DEF Created, adapterVars, Up
<1>7. ASSUME NEW b \in Adapter, Exit(b) PROVE Untouched(s)
  <2>1. CASE b = a
    BY <1>0, <1>7, <2>1 DEF Exit, TypeOK, Untouched, a
  <2>2. CASE b # a
    <3>1. runtimes'[s] = runtimes[s]
      BY <1>7, <2>2, AdapterEnds DEF a
    <3> QED
      BY <1>0, <1>1, <1>7, <2>2, <3>1 DEF Exit, TypeOK, Up
  <2> QED
    BY <2>1, <2>2
<1>8. ASSUME NEW b \in Adapter, Disconnect(b) PROVE Untouched(s)
  <2>1. CASE b = a
    BY <1>0, <1>8, <2>1 DEF Disconnect, Untouched, a
  <2>2. CASE b # a
    <3>1. runtimes'[s] = runtimes[s]
      BY <1>8, <2>2, AdapterEnds DEF a
    <3> QED
      BY <1>0, <1>1, <1>8, <2>2, <3>1 DEF Disconnect, TypeOK, Up
  <2> QED
    BY <2>1, <2>2
<1>9. CASE Disposed
  BY <1>9 DEF Disposed, Untouched
<1>10. ASSUME NEW read \in BOOLEAN, Restart(read) PROVE Untouched(s)
  BY <1>0, <1>10 DEF Restart, Untouched, Up, a
<1>11. CASE UNCHANGED <<runtimes, holds, proc, open, killed>>
  BY <1>0, <1>1, <1>11 DEF Up
<1> QED
  BY <1>2, <1>3, <1>4, <1>5, <1>6, <1>7, <1>8, <1>9, <1>10, <1>11 DEF Next, mapVars, adapterVars,
     historyVars, CreateExisting, CreateNew, Resurrect, CwdFails, Defaulted, Emit, SetMode, Dispose

(* createRuntime, evictDeadRuntimes, the exit handlers, for any number of        *)
(* sessions: what others do takes neither runtime, adapter nor transcript from   *)
(* a session that lives.                                                      *)
THEOREM UndisturbedAlways == Spec => Undisturbed
<1>1. Init => Closed
  BY DEF Init, Closed
<1>2. ManagerInv /\ Closed /\ [Next]_vars => Closed'
  BY ClosedStep DEF ManagerInv, Ownership
<1>3. ManagerInv /\ ManagerInv' /\ Closed /\ [Next]_vars =>
        [\A s \in Session : runtimes[s] # None /\ ~runtimes[s].dead =>
           LET a == runtimes[s].child IN
           \/ proc'[a] = "gone" \/ a \in lost' \ lost \/ disposal' = "done"
           \/ /\ runtimes'[s] = runtimes[s] /\ holds'[a] = holds[a]
              /\ Up(a)' /\ a \notin killed' \ killed]_vars
  BY UntouchedStep DEF Untouched
<1> QED
  BY <1>1, <1>2, <1>3, ManagerInvariant, PTL DEF Spec, Undisturbed
=================================================================================
