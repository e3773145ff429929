------------------------------ MODULE SessionStream ------------------------------
(***************************************************************************)
(* One ACP session followed by one reader: the host's journal (SessionLog)  *)
(* behind the WebSocket route of stream.ts, and in the reader the reconnect *)
(* loop of subscribeToSession.ts inside the resync of useAcpSession.ts.     *)
(*                                                                         *)
(* A resync asks the host for its state, then for the newest page, then     *)
(* subscribes; the host answers each request at one moment and the session  *)
(* moves on before the answer is used.  A socket the reader has left       *)
(* reaches nobody and is not kept.  The network may break a socket or a    *)
(* request, and where it is lossy lose or repeat a single frame, which the *)
(* reader is written for.                                                  *)
(***************************************************************************)
EXTENDS SessionLog

CONSTANTS
  PageSize,      \* getMessages limit
  MaxReplay,     \* bound: messages session/load replays
  MaxSeq,        \* bound: envelopes per incarnation
  MaxLives,      \* bound: incarnations of the host
  MaxFaults,     \* bound: network faults and failed loads
  MaxRefresh,    \* bound: resyncs asked by the user
  Reset          \* the reset envelope

ASSUME StreamAssumption ==
  /\ {"message", "state"} \subseteq Frame /\ None \notin Nat /\ Reset \notin Envelope
  /\ {PageSize, MaxLives} \subseteq Nat \ {0}
  /\ {MaxReplay, MaxSeq, MaxFaults, MaxRefresh} \subseteq Nat /\ MaxReplay < MaxSeq

VARIABLES
  written,       \* every frame journaled in this incarnation
  life,          \* incarnation of the host; the envelope does not carry it
  host,          \* "offline" until session/load has filled the journal, "live"
  sock,          \* the reader's WebSocket, or None
  epoch,         \* epochRef
  fetches,       \* resyncs under way
  olders,        \* loadOlder requests under way
  lines,         \* envelopesRef
  olderCursor, loadingOlder,
  lastSeq,       \* cursor of the subscription, or None without one
  error,         \* the last resync failed and the user sees why
  overtaken,     \* history: a page asked for during the resync that made this
                 \* timeline was still to come when it was made
  faults, refreshes,
  lossy          \* whether this network may lose or repeat a single frame

hostVars == <<latest, retained, written, life, host>>
readerVars == <<epoch, fetches, olders, lines, olderCursor, loadingOlder, lastSeq, error,
                overtaken>>
vars == <<hostVars, sock, readerVars, faults, refreshes, lossy>>

Message == {"message"}
NoPage == [items |-> << >>, next |-> None]
Numbered(frames) == [i \in 1 .. Len(frames) |-> [seq |-> i, frame |-> frames[i]]]

Fresh(e) == [epoch |-> e, at |-> "get", seen |-> 0, page |-> NoPage]

Init ==
  /\ LogInit /\ written = << >> /\ life = 1 /\ host = "offline"
  /\ sock = None
  /\ epoch = 1 /\ fetches = {Fresh(1)} /\ olders = {}
  /\ lines = << >> /\ olderCursor = None /\ loadingOlder = FALSE
  /\ lastSeq = None /\ error = FALSE /\ overtaken = FALSE
  /\ faults = 0 /\ refreshes = 0 /\ lossy \in BOOLEAN

--------------------------------------------------------------------------------
(* The host *)

Waiting ==
  \/ sock # None /\ sock.server = "opening"
  \/ \E r \in fetches : r.at = "page"
  \/ \E o \in olders : ~o.answered

(* ensureLive: session/load replays the transcript into a new journal, of    *)
(* which the buffer in front of it kept the newest `Capacity`, and a state   *)
(* frame follows.                                                            *)
Load ==
  /\ host = "offline" /\ Waiting
  /\ \E n \in 0 .. MaxReplay :
       /\ n <= Capacity
       /\ written' = [i \in 1 .. n + 1 |-> IF i <= n THEN "message" ELSE "state"]
       /\ latest' = n + 1
       /\ retained' = LET all == Numbered(written')
                      IN SubSeq(all, IF n + 1 > Capacity THEN 2 ELSE 1, n + 1)
  /\ host' = "live"
  /\ UNCHANGED <<lossy, life, sock, readerVars, faults, refreshes>>

Pushed(e) == [sock EXCEPT !.wire = Append(@, e), !.sent = e.seq]

(* MUTANT: a subscriber that cannot keep up misses the envelope and stays. *)
SlowMutant == sock
Slow == [sock EXCEPT !.server = "closed"]

(* journalFrame: append, and hand the envelope to the attached socket, which *)
(* is closed instead when what it was handed before is still unsent.         *)
Emit(f) ==
  /\ host = "live" /\ latest < MaxSeq
  /\ Append1(f)
  /\ written' = Append(written, f)
  /\ IF sock = None \/ sock.server # "attached" THEN UNCHANGED sock
     ELSE \/ sock' = Pushed([seq |-> latest + 1, frame |-> f])
          \/ sock.wire # << >> /\ sock' = Slow
  /\ UNCHANGED <<lossy, life, host, readerVars, faults, refreshes>>

(* Replay and attach in one block.  A backlog that fills the send buffer is  *)
(* cut short by closing the socket.                                          *)
Attach ==
  LET tail == After(sock.since) IN
  /\ sock # None /\ sock.server = "opening" /\ host = "live"
  /\ \/ tail = None /\ sock' = [sock EXCEPT !.wire = <<Reset>>, !.server = "closed"]
     \/ tail # None /\ sock' = [sock EXCEPT !.wire = tail, !.server = "attached",
                                            !.sent = latest]
     \/ /\ tail # None
        /\ \E n \in 1 .. Len(tail) - 1 :
             sock' = [sock EXCEPT !.wire = SubSeq(tail, 1, n), !.server = "closed"]
  /\ UNCHANGED <<lossy, hostVars, readerVars, faults, refreshes>>

(* The host stops: its journal and its subscribers are gone.  A request it   *)
(* had not answered fails (FetchFails) or reaches the next incarnation.      *)
Restart ==
  /\ life < MaxLives
  /\ life' = life + 1 /\ host' = "offline"
  /\ latest' = 0 /\ retained' = << >> /\ written' = << >>
  /\ sock' = None
  /\ UNCHANGED <<lossy, readerVars, faults, refreshes>>

--------------------------------------------------------------------------------
(* The reader: resync *)

Resync ==
  /\ epoch' = epoch + 1
  /\ fetches' = fetches \cup {Fresh(epoch + 1)}
  /\ lastSeq' = None /\ sock' = None
  /\ loadingOlder' = FALSE /\ error' = FALSE
  /\ UNCHANGED <<olders, lines, olderCursor, overtaken>>

Refresh ==
  /\ refreshes < MaxRefresh
  /\ refreshes' = refreshes + 1
  /\ Resync
  /\ UNCHANGED <<lossy, hostVars, faults>>

(* MUTANT: the answer to an earlier resync or page request is used all the same. *)
CurrentMutant(r) == r.epoch <= epoch
Current(r) == r.epoch = epoch

Replace(r, s) == fetches' = (fetches \ {r}) \cup s

(* get: an offline session answers with lastSeq 0. *)
Get(r) ==
  /\ r \in fetches /\ r.at = "get"
  /\ Replace(r, IF Current(r) THEN {[r EXCEPT !.at = "page", !.seen = latest]} ELSE {})
  /\ UNCHANGED <<lossy, hostVars, sock, epoch, olders, lines, olderCursor, loadingOlder,
                 lastSeq, error, overtaken, faults, refreshes>>

(* getMessages, once the session is live. *)
GetMessages(r) ==
  /\ r \in fetches /\ r.at = "page" /\ host = "live"
  /\ Replace(r, {[r EXCEPT !.at = "answer",
                           !.page = Page(latest + 1, PageSize, Message)]})
  /\ UNCHANGED <<lossy, hostVars, sock, epoch, olders, lines, olderCursor, loadingOlder,
                 lastSeq, error, overtaken, faults, refreshes>>

(* MUTANT: the cursor is the state's, although the page is newer. *)
SinceMutant(r) == r.seen
Since(r) ==
  LET items == r.page.items IN
  IF items # << >> THEN items[Len(items)].seq ELSE r.seen

Subscribe(r) ==
  /\ r \in fetches /\ r.at = "answer"
  /\ Replace(r, {})
  /\ \/ ~Current(r) /\ UNCHANGED <<lines, olderCursor, loadingOlder, lastSeq, overtaken>>
     \/ /\ Current(r)
        /\ lines' = r.page.items /\ olderCursor' = r.page.next /\ loadingOlder' = FALSE
        /\ lastSeq' = Since(r)
        /\ overtaken' = \E o \in olders : Current(o)
  /\ UNCHANGED <<lossy, hostVars, sock, epoch, olders, error, faults, refreshes>>

FetchFails(r) ==
  /\ r \in fetches /\ faults < MaxFaults
  /\ faults' = faults + 1
  /\ Replace(r, {})
  /\ error' = (error \/ Current(r))
  /\ UNCHANGED <<lossy, hostVars, sock, epoch, olders, lines, olderCursor, loadingOlder,
                 lastSeq, overtaken, refreshes>>

--------------------------------------------------------------------------------
(* The reader: loadOlder *)

(* A resync ends with loadingOlder cleared, so a second request of its epoch *)
(* may join one that is under way: `second` tells the two apart.             *)
LoadOlder ==
  /\ olderCursor # None /\ ~loadingOlder
  /\ loadingOlder' = TRUE
  /\ olders' = olders \cup
       {[epoch |-> epoch, second |-> \E o \in olders : Current(o) /\ ~o.second,
         before |-> olderCursor, answered |-> FALSE, page |-> NoPage]}
  /\ UNCHANGED <<lossy, hostVars, sock, epoch, fetches, lines, olderCursor, lastSeq, error,
                 overtaken, faults, refreshes>>

OlderAnswer(o) ==
  /\ o \in olders /\ ~o.answered /\ host = "live"
  /\ olders' = (olders \ {o}) \cup
       {[o EXCEPT !.answered = TRUE, !.page = Page(o.before, PageSize, Message)]}
  /\ UNCHANGED <<lossy, hostVars, sock, epoch, fetches, lines, olderCursor, loadingOlder,
                 lastSeq, error, overtaken, faults, refreshes>>

Prepend(o) ==
  /\ o \in olders /\ o.answered
  /\ olders' = olders \ {o}
  /\ \/ ~Current(o) /\ UNCHANGED <<lines, olderCursor, loadingOlder>>
     \/ /\ Current(o)
        /\ lines' = o.page.items \o lines
        /\ olderCursor' = o.page.next /\ loadingOlder' = FALSE
  /\ UNCHANGED <<lossy, hostVars, sock, epoch, fetches, lastSeq, error, overtaken, faults,
                 refreshes>>

OlderFails(o) ==
  /\ o \in olders /\ faults < MaxFaults
  /\ faults' = faults + 1
  /\ olders' = olders \ {o}
  /\ loadingOlder' = (loadingOlder /\ ~Current(o))
  /\ UNCHANGED <<lossy, hostVars, sock, epoch, fetches, lines, olderCursor, lastSeq, error,
                 overtaken, refreshes>>

--------------------------------------------------------------------------------
(* The reader: the stream *)

Connect ==
  /\ lastSeq # None /\ sock = None
  /\ sock' = [since |-> lastSeq, server |-> "opening", wire |-> << >>, sent |-> lastSeq]
  /\ UNCHANGED <<lossy, hostVars, readerVars, faults, refreshes>>

(* State frames are full snapshots: only the newest is kept. *)
Folded(e) ==
  LET others == {i \in DOMAIN lines : lines[i].frame # "state"}
  IN Append(IF e.frame = "state" THEN Chosen(lines, others) ELSE lines, e)

IsNext(e) == e.seq = lastSeq + 1

(* handleEnvelope *)
Receive ==
  LET e == Head(sock.wire)
      read == sock' = [sock EXCEPT !.wire = Tail(@)]
  IN
  /\ lastSeq # None /\ sock # None /\ sock.wire # << >>
  /\ \/ e = Reset /\ Resync
     \/ /\ e # Reset
        /\ \/ e.seq <= lastSeq /\ read /\ UNCHANGED <<lines, lastSeq>>
           \/ e.seq > lastSeq /\ ~IsNext(e) /\ sock' = None /\ UNCHANGED <<lines, lastSeq>>
           \/ IsNext(e) /\ read /\ lines' = Folded(e) /\ lastSeq' = e.seq
        /\ UNCHANGED <<epoch, fetches, olders, olderCursor, loadingOlder, error, overtaken>>
  /\ UNCHANGED <<lossy, hostVars, faults, refreshes>>

(* The close arrives behind what was sent. *)
Closed ==
  /\ sock # None /\ sock.server = "closed" /\ sock.wire = << >>
  /\ sock' = None
  /\ UNCHANGED <<lossy, hostVars, readerVars, faults, refreshes>>

--------------------------------------------------------------------------------
(* The network, and a session/load that fails *)

Fault(s) ==
  /\ sock # None /\ faults < MaxFaults
  /\ faults' = faults + 1
  /\ sock' = s
  /\ UNCHANGED <<lossy, hostVars, readerVars, refreshes>>

Break == Fault(None)     \* also what a garbled frame makes the reader do
Lose == lossy /\ sock # None /\ sock.wire # << >> /\ Fault([sock EXCEPT !.wire = Tail(@)])
Repeat == lossy /\ sock # None /\ sock.wire # << >> /\ Fault([sock EXCEPT !.wire = <<Head(@)>> \o @])

LoadFails ==
  /\ host = "offline" /\ Waiting /\ faults < MaxFaults
  /\ faults' = faults + 1
  /\ sock' = IF sock # None /\ sock.server = "opening"
             THEN [sock EXCEPT !.wire = <<Reset>>, !.server = "closed"] ELSE sock
  /\ error' = (error \/ \E r \in fetches : r.at = "page" /\ Current(r))
  /\ fetches' = {r \in fetches : r.at # "page"}
  /\ loadingOlder' = (loadingOlder /\ \A o \in olders : o.answered \/ ~Current(o))
  /\ olders' = {o \in olders : o.answered}
  /\ UNCHANGED <<lossy, hostVars, epoch, lines, olderCursor, lastSeq, overtaken, refreshes>>

Next ==
  \/ Load \/ \E f \in Frame : Emit(f)
  \/ Attach \/ Restart \/ Refresh
  \/ \E r \in fetches : Get(r) \/ GetMessages(r) \/ Subscribe(r) \/ FetchFails(r)
  \/ LoadOlder
  \/ \E o \in olders : OlderAnswer(o) \/ Prepend(o) \/ OlderFails(o)
  \/ Connect \/ Receive \/ Closed
  \/ Break \/ Lose \/ Repeat \/ LoadFails

(* Requests are answered, sockets are accepted and deliver, timers fire.     *)
Fairness ==
  /\ WF_vars(Load) /\ WF_vars(Attach) /\ WF_vars(Connect)
  /\ WF_vars(Receive) /\ WF_vars(Closed)
  /\ WF_vars(\E r \in fetches : Get(r) \/ GetMessages(r) \/ Subscribe(r))
  /\ WF_vars(\E o \in olders : OlderAnswer(o) \/ Prepend(o))

Spec == Init /\ [][Next]_vars
FairSpec == Spec /\ Fairness

--------------------------------------------------------------------------------
(* Properties *)

TypeOK ==
  /\ latest \in 0 .. MaxSeq /\ retained \in Seq(Envelope) /\ written \in Seq(Frame)
  /\ Len(written) = latest /\ Len(retained) <= Capacity
  /\ life \in 1 .. MaxLives /\ host \in {"offline", "live"}
  /\ sock \in [since : Nat, server : {"opening", "attached", "closed"},
               wire : Seq(Envelope \cup {Reset}), sent : Nat] \cup {None}
  /\ \A r \in fetches : r.epoch \in 1 .. epoch /\ r.at \in {"get", "page", "answer"}
  /\ \A o \in olders : o.epoch \in 1 .. epoch /\ o.before \in Nat
  /\ lines \in Seq(Envelope) /\ olderCursor \in Nat \cup {None}
  /\ lastSeq \in Nat \cup {None} /\ {loadingOlder, error, lossy, overtaken} \subseteq BOOLEAN

(* A socket that is still attached was handed every envelope journaled since *)
(* its cursor: nothing falls between replay and attach, and one that cannot  *)
(* keep up is closed rather than skipped (acp-sessions.ts:526, stream.ts:127). *)
AttachedIsCurrent ==
  sock # None /\ sock.server = "attached" => sock.sent = latest

Messages(s) == {i \in DOMAIN s : s[i].frame \in Message}
Newest == IF lastSeq # None THEN lastSeq ELSE lines[Len(lines)].seq

Ascending(s) == \A i, j \in DOMAIN s : i < j => s[i].seq < s[j].seq

(* What the reader shows is the journal: from its first line on, every       *)
(* message once and in order up to its cursor, and no message that is not    *)
(* in it, however resyncs, older pages, replays and lost or repeated frames  *)
(* interleave (useAcpSession.ts:101-110, subscribeToSession.ts:129-147), as  *)
(* long as the host lives (a new life numbers its envelopes from 1 again),   *)
(* and except for a timeline that was made while a page asked for during the *)
(* same resync was still to come: loadOlder looks at loadingOlderRef only,   *)
(* which the resync clears (useAcpSession.ts:120, 190), so the page is put   *)
(* in front of a timeline it is not a page of.                               *)
TimelineIsJournal ==
  life = 1 /\ ~overtaken /\ lines # << >> =>
    /\ Ascending(lines)
    /\ \A i \in DOMAIN lines : lines[i].frame = written[lines[i].seq]
    /\ {s \in lines[1].seq .. Newest : written[s] \in Message} =
       {lines[i].seq : i \in Messages(lines)}

(* While a subscription lasts, whatever earlier resyncs, older pages, sockets *)
(* and restarts of the host still answer, the cursor moves by one or not at  *)
(* all and no message leaves the screen: a stale resync "must not clobber a  *)
(* newer one" (useAcpSession.ts:101-102, subscribeToSession.ts:129-147).     *)
ShownStays ==
  [][lastSeq # None /\ epoch' = epoch =>
       /\ lastSeq' \in {lastSeq, lastSeq + 1}
       /\ \A i \in DOMAIN lines : lines[i].frame \in Message =>
            \E j \in DOMAIN lines' : lines'[j] = lines[i]]_vars

(* When the host falls silent the reader either knows that its resync failed *)
(* or ends up with everything: no stream stays attached behind the journal   *)
(* and no cursor is reset for ever (useAcpSession.ts:146-148).               *)
CatchesUp == lossy \/ <>[](error \/ lastSeq = latest)
================================================================================
