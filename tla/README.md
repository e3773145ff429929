# GatedSpace in TLA+

TLA+ models of the parts of GatedSpace where several processes share state, TLC
configurations that check them on small instances, and TLAPS proofs of what
matters most for instances of every size. Paths are relative to the repository;
`PROJECT.json` maps every definition to the lines it models.

    tlc -workers 2 -config MCCheckpointStore.cfg MCCheckpointStore.tla
    tlapm CheckpointStore_proofs.tla

A definition whose name ends in `Mutant` is a wrong version of a definition that
the specification uses: a dropped guard, a stale value, an off-by-one. No action
uses it. It is there to show that a property can tell the two apart.

## 1. The system

GatedSpace is an Electron workspace for coding agents. Most of its lines are
user interface. The program's own logic is in a handful of state machines that
talk through files, sockets, a database and in-process listeners.

### Parts that are modelled

| Part | State | Operations | What is hard |
|---|---|---|---|
| **Sync service** (`src/apps/sync/src/server/store.ts`, `http.ts`, `blobs.ts`) | rows for devices, streams, checkpoints, objects and quotas; a blob store | register, create, acquire / renew / release a lease, publish, PUT a chunk | a lease that expires under its holder, requests that arrive late or twice, a PUT that fails between its three awaits |
| **Desktop sync** (`src/apps/desktop/src/main/lib/continuity/outbox.ts`, `transfers.ts`, `index.ts`; `src/packages/shared/src/continuity/client.ts`) | per PC an outbox directory (chunks, `pending.json`, `sent.json`, `held`), bindings, the native session, one running transfer | capture, enqueue, drain, acknowledge, receipts, restore, hold, the scheduler's tick | a crash between any two writes, lost answers, two PCs that both worked |
| **ACP journal** (`src/packages/host-service/src/runtime/acp-sessions/journal.ts`) | ring buffer of envelopes | append, after, page | wrap-around, eviction, cursors below, at and above the window |
| **ACP stream and client** (`stream.ts`, `acp-sessions.ts`, `subscribeToSession.ts`, `useAcpSession.ts`) | journal, WebSocket, resyncs and older pages under way, the timeline the user sees | load, emit, attach, resync, subscribe, receive, load older | replay against attach, back-pressure, answers that overtake one another, a host that restarts |
| **ACP session** (`acp-sessions.ts`) | turns, parked permission requests and question cards, open tool calls, status | prompt, cancel, update, ask, respond, abort, death | overlapping turns, two clients that answer one request, exit before the last output |
| **ACP session manager** (`acp-sessions.ts`, `persistence.ts`) | maps of running, starting and offline sessions, the graveyard of dead ones, the table `acp_sessions`, adapter processes | create, open an offline session, spawn / initialize / load, default mode, mark dead, evict, dispose, restart | clients that ask at the same time, a session that is in three maps at different moments, an adapter that dies between two awaits, rows that are not saved |
| **Relay** (`src/apps/relay/src/tunnel.ts`, `directory.ts`, `index.ts`) | per machine the tunnel of the host with the requests and channels that wait in it; in Redis which machine has the host; sockets being registered | register, unregister, request, channel, heartbeat, sweep, drain, boot | a socket that closes while its registration awaits Redis, two sockets that register at once, a late close event, a deploy, calls that fail |
| **Session queue** (`src/apps/desktop/src/main/lib/session-queue/session-queue.ts`, `session-events.ts`, `useQueuedMessageEdit.ts`) | queued prompts in memory and in `queues.json`, the status of the pane, the delivery under way, the edit in the composer | enqueue, edit, remove, resume, steer, pump, deliver, restart | everything that can happen while a delivery is awaited; a disk that is full; a conversation that gets its name late |

How they interact: the manager makes a session (`AcpSession`) and its journal
from an adapter, and every state frame of a session saves the manager's row;
clients reach the host, and with it all of the above, through the relay;
the desktop's outbox calls the sync service over HTTP;
`SessionEvents` calls the queue through its `change` and `bound` listeners and
the queue calls the agent's session manager (`send`, `steer`); the ACP session
appends to the journal and pushes the same envelope to every attached stream;
the stream's client folds envelopes into the timeline and calls back
(`getMessages`, `respondToPermission`, `prompt`).

What makes each correct is stated under *Properties* at the end of its module
and in section 4.

### Parts that are not modelled yet

| Part | State | Hard behaviour | What would make it correct |
|---|---|---|---|
| **Device sign-in and vault** (`continuity/connection.ts`, `vault.ts`) | a generation counter, the vault file | `begin` awaits the approval while `cancel`, `disconnect` or another `begin` runs | an old approval never writes the vault; after disconnect nothing is left |
| **pty daemon, supervisor, clients** (`src/packages/pty-daemon/src`, `src/packages/host-service/src/daemon`, `terminal/DaemonClient`) | sessions with their process and subscribers, the hand-over snapshot, the supervisor's manifest and crash circuit | output against exit and kill, hand-over of live terminals to a new daemon, adoption after a restart | one owner per terminal, no output lost or repeated across a hand-over, at most one daemon |
| **Host terminals, agents, reaper** (`terminal/terminal.ts`, `terminal/reaper`, `terminal-agents`) | terminals in the database against those in the daemon; agents and their hook events | events in any order, restart | nothing in use is reaped; an agent is resumed at most once |
| **Online flag of a host** (`tunnel.ts:265`) | debounced, versioned, retried writes to the API | a retry that overlaps a newer write | the flag ends up true to the tunnels |
| **Terminal host of version 1** (`src/apps/desktop/src/main/terminal-host`) | sessions, clients, snapshots | create against kill, attach at a snapshot boundary | a client sees every byte once |
| **Codex and Claude session managers** (`codex-session`, `claude-session`) | one process per conversation, approvals, compaction | notifications that precede the answer to `turn/start` | one process per conversation, every approval answered once |
| **Ensemble** (`lib/ensemble`) | rounds, one answer per agent | restart in the middle of a round | a round ends exactly once, with every agent's answer |
| **Automations** (`src/packages/trpc/src/router/automation`) | runs, due times | the scheduler calls twice | one run per due time |
| **Panes** (`src/packages/panes`) | a tree of tabs and splits | none concurrent | the tree stays well-formed and keeps every pane |

Mobile bridge, notifications, git watcher, pull requests, files, search and
ports, the cloud API and its integrations, and all user interfaces are listed in
`PROJECT.json` with the reason they are left out: they keep no protocol of their
own, or are input and output around one of the parts above.

## 2. Modules

| Module | Stands for | Relation to others |
|---|---|---|
| `CheckpointHistory` | what the service promises: per conversation an append-only list of checkpoints | abstract specification of `CheckpointStore`, and proved of `ContinuitySync` too |
| `CheckpointStore` | the service's transactions and the PUT handler | implements `CheckpointHistory` |
| `ContinuitySync` | the PCs and what goes wrong between them and the service | uses `CheckpointStore`'s transactions (`INSTANCE`); its steps are proved to be steps of `CheckpointStore` |
| `SessionLog` | what the journal promises: the newest `Capacity` envelopes of a log | abstract specification of `SessionJournal`, base of `SessionStream` |
| `SessionJournal` | the ring buffer | implements `SessionLog` |
| `SessionStream` | host, socket and one reader | EXTENDS `SessionLog` |
| `AcpSession` | one running session and its adapter | stands alone; what it publishes is what `SessionStream` carries |
| `AcpSessionManager` | all ACP sessions of a host and their adapters | what one of them does is `AcpSession` |
| `HostReach` | what the relay promises: one line per machine, calls that end with it, lines that never serve again | abstract specification of `RelayTunnel` |
| `RelayTunnel` | one host, the relay machines and their directory | implements `HostReach` |
| `SessionQueue` | one pane: queue, session events, composer | stands alone |
| `CheckpointStore_proofs`, `ContinuitySync_proofs`, `SessionJournal_proofs`, `SessionStream_proofs`, `AcpSession_proofs`, `AcpSessionManager_proofs`, `RelayTunnel_proofs`, `SessionQueue_proofs` | theorems | EXTEND the module they are about and `TLAPS` |
| `MC...` | small instances for TLC | EXTEND the module they check |

### Granularity

* **Service.** A transaction that locks its row (`FOR UPDATE`) is one action. A
  request that is refused changes nothing, so refusal is the negation of the
  action's guard. The PUT handler awaits between `reserveObject`, `blobs.put` and
  `markReady`: three actions, any of which may be the last (`PutAbort`). A lease's
  expiry is the number of ticks it has left. The lease token, 32 random bytes, is
  named by the fence it was issued with.
* **PC.** A PC runs one transfer at a time (`SyncTransfers.run`); `at[p]` is the
  request it awaits or the block it is about to run. Between two awaits it writes
  files in a fixed order; an action that writes `n` of them with `n` short of all
  is a crash or a failed write at that point. An unanswered request may never
  arrive, have been handled, or arrive later (`late`). Chunk uploads
  precede publish and are modelled in `CheckpointStore`, so manifests are empty
  here.
* **ACP session, stream.** JavaScript handlers run to their end, so each is one
  action. A request, its handling and the use of its answer are three (`Get`,
  `GetMessages`, `Subscribe`). What is sent on a socket is received in order; the
  socket may break at any moment and, where the network is `lossy`, lose or
  repeat a single envelope, which is what `subscribeToSession`'s sequence check is
  for.
* **ACP session manager.** An action is what runs between two awaits;
  `creations[s].at` is the answer `createRuntime` awaits. `runtimes.set` and
  `offline.delete` happen without anything in between that a client could see, so
  they are one action (`Created`). A client that meets a creation waits for it:
  that is no step. The session an adapter mints is named after the adapter. Which
  of the dead goes first is left open (`Victims`).
* **Relay.** Each of the three attempts to write the directory takes effect before
  its answer, or not at all (`Lands`, then `Registered`, `GoesBack` or `Refused`). A
  removal that is awaited is `TryRemove` inside the action; one that nobody awaits
  is a flight (`flights`) that lands at any time, even after its process has ended.
  `readyState` is `ready`: a socket that was closed is `"closing"` until its close
  event runs. `onError` does what `onClose` does. Nothing in the code relates two
  hosts, so there is one.
* **Queue.** A handler runs to its end. The only microtask it starts is `pump`,
  which runs before the next handler (`~pump` guards all others). A delivery is
  awaited: `Deliver`, `Reach` (the agent has the prompt), then `Delivered` or
  `Undelivered`, with anything in between.

### What the environment may do

* The **adapter** of an ACP session is external. A `tidy` one keeps to the
  protocol: it reports and asks inside a turn, asks about tools it has announced,
  waits for the answer, and ends no turn with a request open. Any other one asks
  and reports at any time. Both are explored; the properties that need a tidy one
  say so.
* The **user** pages back, refreshes, edits, steers, resumes and stops at any moment
  at which the hook or the queue accepts it, also during a resync or a steer: what a
  component disables only while it is mounted is no guard.
* An **adapter process** may exit or close its connection at any moment, be slow to
  die after a signal, and start or load a session in any mode. It offers a mode
  called default.
* The **host behind the relay** and the network open and close sockets at any time,
  on any machine; Redis calls may fail, or succeed and lose their answer.
* **Frames** are of two kinds: messages, which pages return and the timeline
  keeps, and state snapshots, of which only the newest matters.
* **Checkpoints** carry, in place of their encrypted content, the set of earlier
  checkpoints whose work they contain.

## 3. Runs

Bounds are CONSTANTS named in the module, with the value in the `.cfg`. All runs
disable the deadlock check: every model ends when its bounds are used up, and
the programs may be idle for ever.

| Run | Question | Instance |
|---|---|---|
| `store` | do the transactions implement the append-only history, fence off old writers, keep chunks and quota exact? | 1 account, 2 devices, 2 streams, 2 checkpoints, 2 digests (of 2 and 3 bytes, limit 4), 2 PUT handlers, leases of 2 ticks, fence up to 2 |
| `sync` | does a PC keep and publish what it captured, alone and with another PC that works on the same conversation? | 2 PCs, 3 checkpoints, fence up to 3, leases of 1 tick, 1 fault; starts with one PC that has sent nothing, or with two that share revision 1 |
| `sync_settles` | does every queued row come to an end without a user? | as above, fence up to 4, the scheduler alone |
| `session_journal` | does the ring do what the log promises? | a ring of 4 and 12 envelopes, of two kinds; every cursor, page limit and choice of kinds |
| `stream` | is an attached reader current, is the timeline the journal, does it catch up? | journal of 2, pages of 1, 3 envelopes per life, 2 lives, 2 faults, 1 refresh |
| `session` | one verdict per request, truth of the state frames, ends of turns and of the session | 2 tools, 1 form, 2 questions, 2 turns, 3 requests |
| `session_manager` | one writer, nothing forgotten, nothing left behind, no bypass? | 3 sessions, 2 workspaces, 3 adapters, at most 1 dead session kept, 1 restart |
| `relay` | no socket, request or channel left hanging, no ghost in the directory? | 2 machines, 3 sockets, 2 requests (limit 1), 1 channel, 1 crash |
| `queue` | is every prompt kept, and sent only when and where it was asked for? | 2 prompts, 2 conversations, 3 pauses, 2 opens, 1 restart, the disk full once |
| `queue_drains` | does an unpaused queue drain? | 2 prompts, 1 conversation, 3 pauses, no restart, a disk that is never full |
| `sync_conflict`, `queue_orphan` | counterexamples, section 6 | as above, `queue_orphan` as `queue_drains` |

Why the bounds are enough. A late writer needs two devices, two leases and one
request of the older one (`store`). Reusing an id in another stream needs two
streams. A quota that is charged twice needs two handlers of one chunk; a limit
that is passed needs two chunks that do not fit together. In `ContinuitySync`
every single crash, failed write and lost answer is explored at every point of
every transfer; two at once multiply the states and reach no further code path,
since `Stop` leaves only files behind and a second fault starts from files that
one fault can leave. A base that is one behind and two behind needs three
checkpoints. A ring of two wraps, evicts and has a cursor below its window after
three envelopes. A resync against another one, against older pages of its own or
an earlier epoch and against a reconnect needs one refresh, one restart and two faults,
in any order. An
adapter for the session, one for a competitor and one after a restart make three;
a graveyard of one overflows with two dead sessions, and with three by the one
that died while it was created. Three sockets let one be the tunnel while two
register on either machine, which is what `raced` is for. Two turns overlap and
three requests let a question follow a permission in each of them. Two prompts
let one be delivered while the other is edited, removed or left; the limit of
queued messages (20) is kept as a guard and not reached there. Two pauses are an
edit with a Stop during it; the third one leaves room for what `Drains`, which says
nothing once they are used up, has to show after both.

`store`, `sync_settles`, `stream` and `queue_drains` use no symmetry, since they check
temporal formulas; `relay` checks one action property, which no permutation changes. The other runs
permute checkpoints, PCs, sessions, adapters, sockets, prompts or conversations
where the model treats them alike. `sync` and `sync_settles` take a `VIEW` that
leaves out what no step reads any more (history, a lease that is lost, a late
request that can change nothing), `session_manager` and `relay` one that forgets
what an adapter or a socket was that nothing refers to any more, `stream` one that
only counts the requests of earlier epochs, whose answers are dropped, `queue` and
`queue_drains` one that forgets of a prompt that is gone all but whether it was lost,
and a few values that the next handler overwrites.

### Fairness

* `sync_settles`: a running transfer goes on, the scheduler starts a tick again
  and again (`startSyncScheduler` is an interval, strong fairness because a PC that
  is busy cannot start one), and time passes. A PC that is up renews its lease in
  time (`InTime`): that is `beforeChunk`'s 40 s against the lease of 120 s; the
  margin itself is a matter of seconds which the model does not measure.
* `stream`: requests are answered, a waiting `session/load` comes to its end, sockets
  deliver, and the reconnect timer fires. Nothing is assumed of faults, of the
  session's output or of the user. A lossy network may lose the last frame of a
  session that then falls silent, which nothing notices, so `CatchesUp` is stated
  for networks that are not.
* `session`: the output of a process that has exited ends, and then its
  unanswered requests are rejected (Node closes the pipes, the ACP connection
  rejects). Nothing is assumed of the adapter or the user.
* `queue_drains`: a microtask runs, an answer or a failure follows a delivery,
  turns end (strong fairness, since approvals interrupt them), an edit is closed.

## 4. Properties

A name in *italics* is a property of steps (`[][...]_vars`). The type invariants
(`TypeOK`) are proved (section 5) and not repeated in the runs; nor are the three
marked with a †, whose failure another property of the run would show.

* `LinearHistory`, `AppendOnly`: revisions of a stream are gapless and unique,
  each checkpoint is made on the one before it, and what is published is never
  altered, reordered or reused. `AppendOnly` is the refinement of
  `CheckpointHistory`.
* `NoLateWriter`: what a PC read when it was granted a lease stays the head until
  that PC publishes; no checkpoint of an older lease lands after a newer one was
  granted. *`LostStaysLost`*: a lease that ran out, was given back or was taken
  over is never good again.
* `PublishedIsStored`, `QuotaExact`: chunks of a published checkpoint are in the
  blob store; an account is charged once per chunk, within its limit.
* `NoLostUpdate`: a published checkpoint contains the work of the one it
  replaces. `BindingIsTrue`, `ReceiptIsTrue`†: the revision a PC is bound to, and the
  one in a receipt, are the service's own for work this PC has. *`BindingForward`*: the
  revision a PC is bound to never goes back, whatever old receipts or restored heads
  are put to use late.
  `NothingLost`: captured work is on its PC, queued or held, until the service
  has it. `QueueSettles`: queued work is published, held or in conflict in the end.
* `ReplayIsExact`, `PagesAreExact`, `ImplementsLog`: what readers of the ring get
  is what the log holds.
* `AttachedIsCurrent`, `TimelineIsJournal`, `CatchesUp`: nothing falls between
  replay and push; what the reader shows is the journal between its ends; a
  reader is up to date in the end, or knows that it failed. *`ShownStays`*: while a
  subscription lasts its cursor moves by one or not at all, and no answer that comes
  late takes a message off the screen.
* `FirstAnswerWins`, `PublishedIsTrue`, `NothingOutlivesTheTurn`,
  `DeathSettlesAll`: one verdict per request; the last state frame is the truth;
  no row stays running after the last turn; nothing waits for a dead adapter.
  *`VerdictsFinal`*†: a settled request is never settled again or otherwise.
  *`DeathIsFinal`*: a dead session asks nothing more, keeps the cause of its death and
  is never shown as anything else.
* `OneWriter`, `StillThere`, `NoStray`, `Graveyard`, `Unbypassed`: one adapter per
  transcript; what a client was told of is found again, with its workspace and its
  transcript; every process belongs to a session or was told to stop; dead sessions
  are bounded and only they are evicted; permissions are bypassed only on request.
  *`Undisturbed`*: a living session keeps its runtime, adapter and transcript through
  whatever the other sessions do or die of.
* `NoDangling`, `NoneStranded`†, `NoGhostEntry`, *`OnlyReplaced`*: a tunnel's close event
  is always still to come, and an open registered socket is the tunnel; no client
  waits in a tunnel that is gone; the directory names a running machine without
  the tunnel only while something is under way there or after a failed call; only a
  newer socket or the end of the relay takes an open tunnel away. *`KeepsReach`*, the
  refinement of `HostReach`: what waits ends in the step in which its tunnel does, and
  a socket that was given up never serves again.
* `NothingLost` (queue), `InFlightIsHeld`, `OnlyWhatWasAsked`, `RightConversation`,
  `CompletionIsTold`, `Drains`: a prompt is kept until it is received or removed; what
  is on its way cannot be edited or removed and is not open in the composer; nothing
  goes out again, or against a Stop, by itself; nothing goes to another
  conversation or as it was before an edit; a completed turn is announced; an
  unpaused queue drains. *`InOrder`*: no pause, edit, failed save or restart reorders
  the list, repeats a prompt or drops one.

`TimelineIsJournal`, `NothingOutlivesTheTurn`, `DeathSettlesAll`,
`OnlyWhatWasAsked`, `RightConversation`, `StillThere` and `NoStray` carry a condition that marks where the
code stops keeping them; section 6 says what happens beyond it. Two of the conditions
are history variables that no step reads: `overtaken` (the timeline was made while a
page asked for during the same resync was still to come; the next resync that ends
without one clears it) and `again` (the prompts whose last try was a steer that failed
behind an edit which could still resume the queue; the next failure takes the
prompt out again unless it is another such steer).

## 5. Proofs

For every value of the constants (under the named assumptions of each module):

| Theorem | Says |
|---|---|
| `StoreTypeCorrect`, `StoreLinear`, `StoreFencing`, `StoreDurable`, `StoreChargesExactly` | `TypeOK`, `LinearHistory`, `NoLateWriter`, `PublishedIsStored`, `QuotaExact` are invariants of `CheckpointStore` |
| `StoreLeasesEnd` | its steps satisfy `LostStaysLost` |
| `StoreImplementsHistory` | `CheckpointStore` implements `CheckpointHistory` (`AppendOnly`) |
| `SyncTypeCorrect`, `NoLostUpdateAlways`, `BindingIsTrueAlways`, `ReceiptIsTrueAlways`, `NothingLostAlways` | `TypeOK`, `NoLostUpdate`, `BindingIsTrue`, `ReceiptIsTrue`, `NothingLost` are invariants of `ContinuitySync` |
| `BindingForwardAlways` | its steps satisfy `BindingForward` |
| `SyncServesStore` | every step of `ContinuitySync` is a step of `CheckpointStore` or none: the PCs, with all their crashes and late requests, are clients the service expects |
| `SyncFencing`, `SyncImplementsHistory` | so `LinearHistory`, `NoLateWriter` and the append-only history hold of PCs and service together |
| `JournalTypeCorrect`, `JournalImplementsLog`, `JournalReplayIsExact`, `JournalPagesAreExact` | the ring's types, its refinement of `SessionLog`, `ReplayIsExact` and `PagesAreExact` |
| `StreamTypeCorrect`, `StreamAttachedIsCurrent`, `StreamTimelineIsJournal` | `TypeOK`, `AttachedIsCurrent`, `TimelineIsJournal` are invariants of `SessionStream` |
| `StreamShownStays` | its steps satisfy `ShownStays` |
| `StreamReplayIsExact` | for every cursor: the host replays exactly what the reader missed if the journal reaches back that far, and resets it otherwise |
| `SessionTypeCorrect`, `SessionFirstAnswerWins`, `SessionPublishesTruth`, `SessionTurnsAreTidy` | `TypeOK`, `FirstAnswerWins`, `PublishedIsTrue`, `NothingOutlivesTheTurn` are invariants of `AcpSession` |
| `SessionVerdictsFinal`, `SessionDeathIsFinal` | its steps satisfy `VerdictsFinal` and `DeathIsFinal` |
| `ManagerTypeCorrect`, `OneWriterAlways`, `StillThereAlways`, `NoStrayAlways`, `GraveyardAlways`, `UnbypassedAlways` | `TypeOK`, `OneWriter`, `StillThere`, `NoStray`, `Graveyard`, `Unbypassed` are invariants of `AcpSessionManager` |
| `UndisturbedAlways` | its steps satisfy `Undisturbed` |
| `RelayTypeCorrect`, `NoDanglingAlways`, `NoneStrandedAlways`, `NoGhostEntryAlways`, `OnlyReplacedAlways` | `TypeOK`, `NoDangling`, `NoneStranded`, `NoGhostEntry` are invariants of `RelayTunnel`, and its steps satisfy `OnlyReplaced` |
| `RelayKeepsReach` | `RelayTunnel` implements `HostReach` (`KeepsReach`) |
| `QueueTypeCorrect`, `QueueKeepsPrompts`, `QueueHoldsWhatIsSent`, `QueueKnowsConversation`, `QueueSendsWhatWasAsked`, `QueueTellsCompletion` | `TypeOK`, `NothingLost`, `InFlightIsHeld`, `RightConversation`, `OnlyWhatWasAsked`, `CompletionIsTold` are invariants of `SessionQueue` |
| `QueueKeepsOrder` | its steps satisfy `InOrder` |

**The store.** `StoreInv` is inductive. `LinearHistory` holds of publish alone:
the head's number is the row's revision, and a publish needs the base to be that
revision. `NoLateWriter` compares a checkpoint's number with the revision each
lease was granted at; for a publish to preserve it no lease may have been granted
*ahead* of the head, which is `GrantsBehindHead`, and the lease that
`assertLease` accepts must be the newest, which follows from `TypeOK`: leases
are numbered by the row's fence. `PublishedIsStored` needs
`ReadyIsStored`: a chunk is marked only by a handler that has stored it, and no
blob is deleted. Most actions disturb one conjunct only; lemmas ending in
`KeepsHeads`, `Kept` and `Type` say what each leaves alone. `LostStaysLost` is proved
step by step (`LostStep`): a row's lease is replaced only by one with a higher fence,
its clock only runs down, and renewing needs the very lease to be good still.

`QuotaExact` has an invariant of its own, `QuotaInv`: what an account has begun to
store is finite, and an upload under way has reserved its chunk, so that marking it
ready charges nothing. The charge is a fold over a set, which takes the elements in
an order of its own; `TotalsEven` shows by the smallest counterexample that any
element may be taken first, and `SumGrows` that one more chunk adds its length.

**The refinement.** `HistoryOf(s)` lists the checkpoints of a stream by revision.
Under `StoreInv` each revision has one checkpoint, so the `CHOOSE` in the mapping
has one candidate (`HistoryLists`). A publish appends its checkpoint
(`PublishAppends`), which is unused because ids are a key of the table; every
other step leaves the mapped history alone (`HeadsKeptStutters`).

**PCs and service together.** `ContinuitySync` calls the store's transactions with
arguments of its own choosing: a lease it remembers, a base it was bound to, a request
made long ago. `SyncServesStore` shows that these arguments are always among those
`CheckpointStore` allows, which is not obvious of a request that arrives after its PC
has crashed. The invariant for it is `LeasesOK`: whoever is about to upload, publish or
release holds a lease that was granted to it, and so does each request still on its
way. `Service` is an instance of the store's proof module for one account, one
conversation and empty manifests; `ServiceAssumed` discharges the store's assumptions,
and the store's theorems about a step (`NextInv`, `StepAppends`) are then cited, not
proved again. `EndInv` puts the two invariants together and adds `RestoresForward`: a
PC that awaits a download is going to a revision no lower than the one it is bound to.
`BindingForward` follows: a capture keeps the revision, a flush takes the highest of the
binding and its receipts, a restore what it has downloaded.

**The PCs.** `SyncInv` relates three numberings: the service's, the bases that
captured work carries, and what each PC's session contains. Its core is
`Knows(work, r)`: the work has all that was published up to revision `r`. Every
captured checkpoint knows its base (`JobsKnow`), every session knows the revision its
PC is bound to and every one it has a receipt for (`BindingOK`, `ReceiptsOK`), and no
base is ahead of the head. A publish cannot make a `Knows` false, because the head
moves one up and nothing is ever bound, captured or acknowledged at a number that is
not yet published: what is published later is newer than all that is known
(`KnowsAfter`). `NoLostUpdate` follows because a checkpoint is published at its base
plus one (`Numbered`). A request that arrives late changes nothing of this: it carries
its job's base and the service compares it with its own row (`LateOK`). The steps of
the service come in two kinds only, those that leave the head alone (`SameHead`) and
those that put one checkpoint on it (`BecomesHead`), proved once from the store's own
transactions; every action of a PC is then a step of its files and one of the two.
`RunOK` is what a PC that awaits an answer may rely on when it comes: the row it
uploads is still queued, and what it restores is not older than any receipt it holds.
`NoLostUpdate` speaks of any two published checkpoints, not only of neighbours: the
later one contains the work of the earlier.

**The journal.** `JournalInv` adds `Filled` to the types: slot
`(startIndex + i) % Capacity` holds the envelope numbered `OldestSeq + i`. The
arithmetic of the ring (`Wrap`, `SlotsDiffer`, `HeadMoves`) is proved once; an
append then either fills the next slot or replaces the oldest, which are the two
branches of `SessionLog`'s `Append1`. A page is collected from the newest envelope
down and specified from the oldest up: `Caught` says that at each offset the walk
has found exactly what the selection still has to come (`Found`). `Walk` and
`Chosen` are recursive functions, so both are unfolded one step at a time
(`Walks`, `Lists`) and compared by the least counterexample over the offsets.

**The stream.** `StreamInv`: an attached socket has been sent the newest number,
and its host is live. Only `Emit` moves that number, and it pushes to the attached
socket or closes it; whatever ends the host's life closes the socket. `TimelineIsJournal`
rests on `Stretch(s, n)`: s is of the journal, in order, and misses no message from its
first envelope to number n. The lines are a stretch up to the cursor, every answered page
of a resync is one (`FetchOK`), every answered older page is one up to the number it
was asked before, which is where the lines begin (`OldersOK`), and what is on
a socket was journaled (`WireOK`). In one life the journal only grows (`Grows`), so
none of this is lost while an answer is under way. That a page is a stretch is
`PageFits`: what a page leaves out is older than what it holds. `Joined` puts a page in
front of the lines, `FoldedKeeps` adds an envelope and drops an old state; that
a page still fits when it arrives is `OldersOK`: there is one request of the epoch, and
a resync that ends before the page does moves the lines from under it. That timeline is
`overtaken`, of which `LinesOK` and `OldersOK` say nothing until the next resync ends;
pages of an earlier epoch, and those that arrive before the resync ends, need no
exception. `ShownStays` needs `OneResync`: there is one resync of the
current epoch, and none while the reader is subscribed, so an answer that meets a
subscription is of an older epoch and is dropped. `ReplayIsExact` needs `Filled`, the
window being as long as it can be. What `Chosen` selects from a sequence is proved by least
counterexample over its positions.

**The session.** `SessionInv` adds two facts. `OneCard`: no two parked requests
have one id, so that settling one adds one verdict to one request. `InTurn`: what a
tidy adapter has open belongs to a turn, and every row that runs belongs to
something open; a turn that ends therefore finds nothing to leave behind.
`FirstAnswerWins` counts verdicts per request, so each way of settling (an answer,
a cancel, an abort, the adapter's death) has its own step in the proof.
`VerdictsFinal` is the same fact about a step: what has a verdict is not parked
(`FirstAnswerWins`), and only what is parked is settled. `DeathIsFinal` needs
`Buried`: a dead session has nothing parked, though its pipe may still be read.

**The manager.** `ManagerInv` says who owns an adapter (`Ownership`): a process has
one session, as a runtime, a creation or one of dispose's leftovers (`Named`,
`Processes`), what it writes is what that session is known by (`Holding`), at each
stage of a creation exactly what that stage has done is done (`Stages`), and a
runtime that is not marked dead has an adapter that runs (`Vital`). `OneWriter`
then follows because two adapters with one transcript belong to one session.
`FewDead` counts the graveyard; the counting is two lemmas about `Cardinality`.
`Truth` and `Found` relate what clients were told to the maps: a record is never
changed, and a session leaves a map only into another one, or into `forgot`.
`Undisturbed` uses all of it: that an adapter has one session tells that what
happens to another adapter, or in another session, does not touch this one; `Closed`
adds that a connection which was closed is not closed again.

**The relay.** `RelayInv` adds to `NoDangling` that whatever is under way is on a
machine that runs (`Placed`) and that whatever waits, waits in the tunnel of a
registered socket (`Waits`). `NoDangling` is inductive with them: `Register` and
`Registered` dispose of the tunnel they replace, and a close event either finds its
own socket and removes it or finds another one's and leaves it. `NoGhostEntry` is
strengthened to `Accounted`, which also holds while a drain has cleared the
directory and not yet its tunnels. `OnlyReplaced` is proved of a step from
`NoDangling`: a socket whose onOpen is under way is never the tunnel. `RelayKeepsReach`
maps the tunnels to lines, what waits to the calls that are held, and the sockets that
are registered or over to those that are spent. `NoDangling` and `Waits` are what the
mapping needs: a socket that becomes the tunnel was never one before, and whatever
waits on a machine waits in its present tunnel, so disposing of that one lets go of
all.

**The queue.** `QueueInv` has two halves. `Safe` is about what is kept: memory and
file list the same prompts and the same conversation (a restart reads the file),
prompts are acknowledged only into the queue and leave it received or removed, an
open edit names a queued prompt and keeps the queue paused, and queued prompts that
knew their conversation share the queue's. `Allowed` is about what may go out: as
long as the queue runs, or will run when the edit is closed (`Runs`), everything
queued but not on its way has been asked for, or is in `again` (`AskedFor`). Its last
part is the subtle one: a send that fails in a session that still lives pauses the
queue with a new version, so an edit that would resume it no longer does; one whose
session was stopped or failed meanwhile has paused it already (`SentStillRuns`). A steer
that fails pauses without a new version, so an edit begun beside it does resume the
queue: that is `again`, and the only way back for a prompt that has failed.
That a message is found where the proof says it is rests on the lemmas `Appended`
and `WithoutIs` about the list. `InOrder` rests on the same two and on memory and file
being the same list, which makes a restart invisible in it.

**What stays with TLC.** Liveness (`QueueSettles`, `CatchesUp`,
`DeathSettlesAll`, `Drains`): out of the prover's reach. Every invariant, action
property and refinement that a passing run checks is proved. `SyncServesStore`, `SyncFencing`,
`SyncImplementsHistory` and `StreamReplayIsExact` are proved only, as are the type
invariants, `ReceiptIsTrue`, `VerdictsFinal` and `NoneStranded`: a false receipt
shows in `BindingIsTrue`, a second verdict in `FirstAnswerWins`, a stranded call in
`KeepsReach`.

## 6. Where the code and its documents disagree

Shown by a run:

* `sync_conflict`. A PC that stops after `acknowledge` wrote `sent.json` and before
  `flush` moved the binding has an empty queue and an old binding. A *send* then
  captures with that old base before it flushes (`transfers.ts:158`), and the new
  row conflicts with the PC's own checkpoint for ever. SETUP.md:102 speaks of both
  PCs having changed the same checkpoint.
* `queue_orphan`. `bound` is emitted once and skips a paused queue
  (`session-queue.ts:50`). A first prompt that is stopped or edited before the
  conversation has its name can never be resumed in it.

Met while modelling, and the reason for the conditions in the properties:

* `loadOlder` asks whether another page is awaited, not whether a resync is under way
  (`useAcpSession.ts:190`). A resync clears that flag when it begins and when it ends,
  and keeps the old `olderCursorRef`; so a page asked for during a resync has the
  resync's epoch, passes the check at 196 and is prepended to the new timeline, and the
  page the new timeline asks for itself is prepended as well. One refresh and no fault
  are enough to show a message twice (lines 2, 2, 3), against "in seq order" at 104
  and `fold.ts:115`. `TimelineIsJournal` excepts such a timeline (`overtaken`); TLC
  finds the sequence when `~overtaken` is taken out.
* A failed steer pauses the queue without a new `pauseVersion`
  (`session-queue.ts:237`). `beginEdit` (173) does not ask whether a steer is under
  way; the flag `busy` by which the list of messages disables its rows belongs to the
  component (`MessageQueue.tsx:24`) and is gone when the pane is mounted again, while
  the edit and the steer are not. An edit begun during the steer therefore resumes the
  queue when it ends and the failed prompt is sent again, against "never retries
  automatically" (`session-queue.test.ts:221`). `OnlyWhatWasAsked` excepts it
  (`again`); TLC finds the sequence when that is taken out.
* Evicted sessions: `acp-sessions.md` says that their registry rows remain. The row
  does, but until the next restart nothing reads it: `create` with the id of an
  evicted session mints a new one, even for another workspace, and overwrites
  the row (`acp-sessions.ts:604`). A table that cannot be read at startup has the
  same effect. `StillThere` excepts both (`forgot`).
* `acp-sessions.md` says that at most 20 dead sessions are kept. One that died while
  it was created is stored after room was made for it, so there may be 21
  (`acp-sessions.ts:861`); `Graveyard` allows for it.
* An adapter that closes its connection and stays alive is marked dead and not
  killed; once its session is evicted nothing holds it any more. `NoStray` excepts
  it (`lost`).
* `register` writes the directory first "so we never have a local tunnel that's
  invisible to other machines" (`tunnel.ts:73`). It can become invisible later: a
  removal of the same machine's entry that nobody awaits (`tunnel.ts:167`), or the
  rollback of another socket (`:88`), may reach Redis after the registration of a
  newer socket, and compares only the machine. A heartbeat does not bring the entry
  back, and a pong on one machine also refreshes the age of an entry that names
  another.
* The versions of the online flag start again after a write succeeds
  (`tunnel.ts:313`), so a retry that is still under way can find its old number
  again and write a flag that is out of date.

* A checkpoint whose publish was committed and whose answer was lost is
  recognised only while it is the head (`outbox.ts:195`); once another PC has
  published it is reported as a conflict for ever, though SETUP.md:78 calls a
  retry idempotent.
* A restarted host numbers its envelopes from 1 again. A reader whose cursor the
  new life has passed is replayed from there (`acp-sessions.ts:514`) and shows
  two lives in one timeline; `acp-sessions.md:159` names the limitation.
  `TimelineIsJournal` is stated for the first life.
* `handleUpdate` does not look at `dead`: output that is read after the exit opens
  a tool call again (`acp-sessions.ts:929`), though `acp-sessions.md:104` says that
  death terminalizes them. `DeathSettlesAll` and `NothingOutlivesTheTurn` ask for
  the rows of a tidy adapter only.
* The failure of an earlier prompt overwrites `lastError` of the turn that was
  started meanwhile (`acp-sessions.ts:402`, against the comment at 385). The model
  does the same; no property is about it.
* With a full disk: a Stop that cannot be saved keeps the old `pauseVersion` and is
  overridden by an edit that ends (`:76`, against the comment at 150); a delivery
  whose outcome cannot be saved leaves the queue running and sends the prompt
  again (`:237`); a ready queue pumps itself in microtasks without end (`:246`).
  `OnlyWhatWasAsked` is stated for a disk that never filled up.
* A queue that was restored unbound equals any conversation that is not bound yet
  (`undefined === undefined`, `:156`, `:223`), and can be delivered to it, against
  the comment at 47. `RightConversation` is stated for prompts queued in a
  conversation that had its name.

## 7. Abstractions and limits

* Seconds are ticks. That one live upload fits in its lease (40 s renewal, 30 s
  requests, 120 s lease) is an assumption of the runs, not a result.
* One conversation, one account and one outbox row at a time in `ContinuitySync`;
  `setAutomatic` and account changes are left out.
* `AcpSession` starts with a running session; how it came to run is
  `AcpSessionManager`, in which a session does nothing but change its mode and save
  its row. Configuration options are left out. `createRuntime` has no timeout: a
  creation whose adapter never answers waits for ever, and so does `dispose`. A state
  frame of a session that was evicted may still overwrite its row; the model saves
  rows of sessions that are known only.
* In `RelayTunnel` a call of the directory takes effect before its answer, and one
  that its process did not live to see answered does not take effect later, except
  the removals in flight. The two steps of a heartbeat are one: what they leave
  behind when they race is an age without an owner, which the sweep removes. Frames
  on channels, the routing between machines (`fly-replay`, `proxy.ts`), access checks
  and the online flag are left out.
* In `SessionQueue` a conversation gets one name while its pane is open. `bind` with
  another id (`session-events.ts:31`) would leave an unpaused queue of the old name
  behind (`session-queue.ts:49`), which then waits until it is paused and the old
  conversation is opened again; nothing in the repository was found to do it.
* `BeginEdit` is one step: the main process pauses the queue and the composer opens the
  edit. In the code a message from one to the other is between the two, and the button
  that resumes the queue is not disabled meanwhile (`MessageQueue.tsx:147`), so for
  that moment a user could set going what is about to open; `InFlightIsHeld` says
  nothing of it.
* Removing the last queued prompt does not flush a completion that was held back
  for it (`session-queue.ts:199`); the model counts the user who removes it as
  told.
* Encryption, parsing, rate limits, titles, attachments and texts are data.
* Devices are never revoked in the code that is modelled, and blobs never deleted.

## 8. Plan

Done: `CheckpointStore` and its abstraction first, since lost work is the worst
this program can do; then the PCs around it, the session journal and stream,
the session, the queue, the session manager, the relay and what it promises; proofs
about each of them, and of the PCs and the service as one system.

Next, in this order:

1. The online flag of a host: its debounce, versions and retries, as a module
   of its own.
2. An abstract specification of the queue (prompts that are taken in, sent once and
   left alone when stopped) with `SessionQueue` shown to implement it; one of a
   session's requests, for `AcpSession`.
3. `PtyDaemon` with `DaemonSupervisor`: attach and replay, exit against kill,
   hand-over, adoption, the crash circuit. Abstract specification: one terminal
   is one byte log with one owner.
4. `SyncConnection`: the generation counter around `begin`, `cancel`, `disconnect`,
   and `adoptVaultKey`.
5. A timed module of one upload under its lease; several conversations in one
   outbox.
6. Terminal agents (resume at most once), ensemble rounds, automation dispatch.
