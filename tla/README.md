# Verification of plumdeck

TLA+ specifications of plumdeck (a desktop DJ application: a Tauri/React front
end, a Rust backend over DuckDB and SQLite, engine hosts in Rust and C++, and the
Junction services for playing together), the TLC configurations that check them
on small instances, and TLAPS proofs for every value of the constants.

## 1. Inventory

| part | state it keeps | how it interacts | what is hard about it |
|---|---|---|---|
| Library database handle, `plumdeck-db/src/handle.rs` | open file, pool, counters of leases, queue accesses and activities, `maintenance` flag, `generation`, write lock | every repository leases from it; backup, restore and shutdown reserve it; the analysis queue enters through it | a monitor with five kinds of users, timeouts, a pool limit, requests that sleep through a restore |
| Restore and its recovery, `routes/workflows.rs`, `restore_recovery.rs`, `startup.rs` | library file, queue file, rollback pair, marker file | runs under the MaintenanceGuard; startup recovers before anything opens the library | a crash or an I/O error between any two of a dozen file operations on two files |
| Analysis jobs, `analysis.rs`, `jobs_sqlite.rs`, `routes/ingest.rs` | jobs and items in SQLite, the running job in memory, the coordinator's slot | HTTP threads start, pause and resume; a worker thread per job; imports take the slot | status kept twice (memory and disk) and written under different locks; preemption; restart |
| Junction signaling, `services/junction-signaling` | rooms, peers, connections, invites | hosts and guests over WebSockets; a sweep timer | admission across reconnects, revoked invites, host replacement, room expiry |
| Junction v2 turns, `services/junction-v2/core/turns.ts`, `session.ts` | order, on air, previous, next pick, revision | the host decides, every change is broadcast, each client applies newer snapshots | what each participant hears must never contain itself, in any order of turns |
| Junction program feed, `program.ts`, `align.ts`, `elastic.ts`, `peer.ts` | the splice of two feeds | consumes routes of turns.ts | timing |
| DJ engine supervisor, `src-tauri/src/dj_engine/supervisor.rs` | child process, pending map, writer queue, the session of the last connect | commands of the webview, answers and events of the child | an answer, a timeout, a stop and the end of the child race; two locks and five threads |
| Notification relay, `dj_engine/notification_relay.rs` | mailbox, `scheduled`, failure status | reader thread to the webview, through a worker and the UI thread | lost wake-ups, two drains, overflow in the middle of a batch |
| DJ engine host, `native/dj-engine-host` | decks, mixer, pending loads, session, revision and event numbers | one line in, one answer and its events out; time | loads that end out of order; commands of an older session |
| DJ engine client, `src/src/services/dj-engine` | view of the engine, session, events kept during a snapshot | `connect`, `refreshSnapshot`, `send`; events from the relay | answers and events come by different paths; a snapshot overlaps events |
| Share Musics, `services/junction/share-musics` | per member: slot, packets imported, approved and uploaded, kept in localStorage | polls a service and drives the engine's exchange of packets at both sides | a step marked before or after its await, saved later; reloads; a guest that leaves and asks again |
| Native Junction, `native/mixxx-engine-host/src/junction` | roster slots, authority, turn state, mixers, PCM rings | audio thread and network threads | lock-free hand-over |
| Rekordbox MCP, `rekordbox-mcp` | changesets, backups | Python tools over the Rekordbox database | apply and undo |
| Analysis, DSP, key, genre, decode, media and Rekordbox crates | none (pure) | called by the worker | numeric |

Every component, with what of it is modelled and why the rest is not, is in
`PROJECT.json`; its list of hazards names the line where each one bites.

## 2. Modules

| module | models | used by |
|---|---|---|
| `DbGate` | the library handle, `handle.rs` | `MCDbGate`, `DbGateProofs` |
| `ExclusiveLibrary` | what its callers rely on: a library used by many or owned by one | `DbGate` (refinement) |
| `DbGateProofs` | ten theorems about `DbGate` | |
| `Rooms` | the signaling service, `rooms.ts` and `server.ts` | `MCRooms`, `RoomsProofs` |
| `RoomsProofs` | eight theorems about `Rooms` | |
| `AnalysisJobs` | jobs, their queue file, the coordinator, imports | `MCAnalysisJobs`, `AnalysisJobsProofs` |
| `AnalysisJobsProofs` | eight theorems about `AnalysisJobs` | |
| `RestoreUnit` | the replacement of the two library files, with crashes | `MCRestoreUnit`, `RestoreUnitProofs` |
| `RestoreUnitProofs` | six theorems about `RestoreUnit` | |
| `Turns` | the turn state of Junction v2, `turns.ts`, as pure operators | `LinkSession` |
| `LinkSession` | host, guests, channels and program, `session.ts`, `program.ts` | `MCLinkSession`, `LinkSessionProofs` |
| `LinkSessionProofs` | what every operation of `Turns` preserves, and six theorems about `LinkSession` | |
| `EventChannel` | what the relay promises: in order, without a gap, until it breaks | `NotificationRelay` (refinement) |
| `NotificationRelay` | the mailbox between reader thread and webview, `notification_relay.rs` | `MCNotificationRelay`, `NotificationRelayProofs` |
| `NotificationRelayProofs` | four theorems about `NotificationRelay`, the refinement among them | |
| `EngineHost` | the engine host as functions from a command to the engine, answer and events, `engine.rs` | `EngineView` |
| `EngineView` | the webview's copy of the engine's state, `protocol.ts` | `DjEngine` |
| `DjEngine` | supervisor, its threads, host process and client together, `supervisor.rs`, `client.ts`, `runtime.rs` | `MCDjEngine`, `DjEngineProofs` |
| `DjEngineProofs` | seven theorems about `DjEngine` | |
| `ManualExchange` | a roster slot and a guest's session in the exchange of signed packets, `runtime.cpp`, as pure operators | `ShareMusics` |
| `ShareMusics` | the automatic exchange at both sides, `automation.ts`, `coordinator.ts` | `MCShareMusics`, `ShareMusicsProofs` |
| `ShareMusicsProofs` | three theorems about `ShareMusics`, two of them of the host's side alone | |

The `MC` modules give TLC its requests, symmetries and, in two of them, a state
further on to begin with.

### 2.1 DbGate

One action per critical section of the state mutex. A thread blocked in the
condition variable is in `asleep`; `NotifyAll` empties the set, `Expire` and
`SpuriousWake` take one thread out. `phase[t]` is the blocking call a thread is
in; what it holds is in `conn`, `accessing`, `working`, `writer` and `guard`,
the guards of the code. `epoch` and `spanned` are history variables: which
library a connection belongs to, and which lease calls a reservation overtook.

| code | actions |
|---|---|
| `lease`, `lease_timeout`, `take_connection` | `Lease`, `LeaseResumes` |
| `write` | `LockWrite`, `Lease`, `DropLease`, `UnlockWrite` |
| `DbLease::drop` (roll back, return or discard) | `DropLease` |
| `activity`, `queue_access` and their drops | `Activity`, `QueueAccess`, `BarredResumes`, `DropActivity`, `DropAccess` |
| `maintenance`, `Shared::reserve` | `Maintenance`, `ReserveResumes` |
| `MaintenanceGuard::lease`, `close`, `reopen`, `drop` | `GuardLease`, `GuardClose`, `GuardReopen`, `GuardDrop` |
| `shutdown` | `Shutdown`, `ShutdownResumes`, `ShutdownReserves`, `ShutdownCloses`, `ShutdownEnds` |

### 2.2 Rooms

Node runs one handler at a time, so a frame, a close event or a timer is one
step. `rooms` and `seats` are the two maps of `RoomRegistry`; `sock` is the state
of a socket, `told` what the server last told its owner. Instants are the time
that is left: `Tick` lowers them, `SweepTimer` is the interval timer. Every
frame sweeps before it is served, as `dispatch` does: the handlers read
`SweptRooms` and `SweptSeats`. A relayed frame changes nothing; `RelayLookup` is
where it would go.

### 2.3 AnalysisJobs

Callers are HTTP and startup tasks, workers the threads `launch` spawns; `Ops`
says which requests a caller makes. A step is one transaction of the queue file
or one critical section of the `running` mutex; `pc` is where a process is between
two of them, `loc` its locals. `jobs` survives `CrashAndRestart`, everything else
does not. The coordinator is `slot`, `preempt` and `waiting`. A refused request
changes nothing and is left out; errors of the queue file are not modelled.

### 2.4 RestoreUnit

The swap, its rollback in the process and the recovery of the next start are
lists of file operations. A directory and its files are separate: `dir` is what
a program sees, `log` the directories a power loss may bring back, `content` what
a reader finds, `disk` what a power loss may leave. A file is the name it was created
under and a number, the first that nothing uses (`Free`); three numbers are enough, which
is part of what is proved. `Step` does the next operation, `Fault` fails it, `Crash` ends the process within it, `PowerLoss`
undoes what was not synced.

### 2.5 Turns and LinkSession

`Turns` has one operator per function of `turns.ts` on a record with the fields
of `SessionState`; an operation that throws is enabled only where it does not.
`LinkSession` adds the two sides. `state` is the host's, and `Become` is
`HostSession.change` whole: the host's uplink, every J feed, the program, the
broadcast. `down` and `up` are the ordered data channels; `view`, `welcomed` and
`uplink` are a guest's state, identifier and engine. `link` follows one
RTCPeerConnection: invited, linked (ICE connected), up (channel open), lost, gone.

| code | actions |
|---|---|
| the host's buttons (`next`, `release`, `stopSet`, `setNext`, `setOrder`, `setHostPlays`) | `HostNext`, `HostRelease`, `HostStop`, `HostPick`, `HostMoves`, `HostPlays` |
| `createGuest`, `onState`, `onOpen`, `removeGuest` | `Invite`, `Connect`, `Disconnect`, `OpenChannel`, `Remove` |
| a guest's requests and reports | `PressNext`, `PressRelease`, `PressPick`, `Report` |
| `onGuestMessage` | `Hello`, `Request`, `Listen` |
| `pollOnce`, the host as the DJ on air | `HostListens` |
| `onHostMessage`, `applyState` | `Receive` |
| `ProgramAssembler.render` reaching the end of a splice or a fade | `Render` |

Abstractions. The clock of `ReleaseWatch` is free: any silent report may be the
one that is late enough. The watch keeps no key but starts anew when handoffs
or previous change, as the code does at the next report. Guests that are
neither on air nor next do not send reports, which would be ignored.
`PressPick` is what the protocol lets a guest ask; plumdeck's own panel offers
it to the host only. The channels block at their bounds where the code drops a
message behind 256 KB. A guest says hello once. Restarts of the engine, Share
Musics and code signaling, statistics and the end of the session are left out.

### 2.6 The DJ engine: EngineHost, EngineView, DjEngine

`EngineHost` is a process without threads, so each operation is a function from
an engine and a command to the engine after it, whether it was accepted, and its
events; `Process` is `Runtime::process` with `authorize`, `Ticks` the steps
time may take. A load ends when it likes. `EngineView` is `applySnapshot`,
`reduceEngineEvent` and `applySnapshotWithEvents` on a record.

`DjEngine` runs them. `proc[p]` is the p-th process started with its threads:
`inbox` is the writer's channel and stdin, `out` stdout, `pending` the map of
waiters, `mail` the relay, `taken` that stop_internal has it, `alive` the flag of
the same name. A caller is a thread and `call[c]` the call it is in; the lock
`lifecycle` is held over several steps, the lock `state` within one, or, in
`dispatch`, from `Dispatch` to `Insert` (`StateFree`). The reader thread takes
neither.

| code | actions |
|---|---|
| `start`, `start_serialized`, `handshake` | `StartLocked`, `Spawn`, `SpawnFails`, `StartAnswered`, `StartFailed` |
| `stop`, `junction_active`, `stop_internal` | `StopLocked`, `StopAllowed`, `StopRefused`, `Reap`, `StopReturns` |
| `connect` and `connectSnapshot` | `ConnectLocked`, `ConnectHello`, `ConnectSnapshot`, `ConnectFails`, `Connected`, `ConnectReturns` |
| `send`, `dispatch` | `CheckSession`, `Dispatch`, `Insert`, `Timeout`, `SendReturns` |
| `refreshSnapshot`, `fetchSnapshot` | `CallRefresh`, `RefreshReturns` |
| reader, writer and watchdog threads | `Reader`, `ReaderEnds`, `WriterStops`, `WriteFails`, `RelayBreaks`, `WatchdogKills` |
| the host process | `HostCommand`, `HostTick`, `HostExits`, `HostCrashes`, `HostHangs` |
| the webview's listener | `Receive` |

In `DjEngine` the relay is what `EventChannel` says of it: `mail` keeps its order
until `RelayBreaks`, which leaves a first part. That the real relay is such a
channel is what `NotificationRelay` shows. Junction is never active; positions,
gains and tempo values are one bit or nothing, and the queues that coalesce
seeks, scratches and controls before they reach `send` are left out. Of the
operations of `EngineHost` the runs send one for each way of changing the engine
(`SomeOps`); the others change another field of the deck by the same step.

### 2.7 NotificationRelay

One action per lock region of `Shared`: `Enqueue` and `FailOverflow` of a
producer, `Schedule` of the worker, `StartDrain`, `Pop`, `Deliver`, `EndBatch` of
the drain task on the UI thread, `Fail` and `Close` of whoever finds a reason. A
notification is its number, so a gap can be seen; its size is abstracted to
whether it overflows the byte limit. `delivered` is a history variable, what the
webview was handed. The refinement maps the mailbox, the batch under delivery
and what producers hold to the queue of `EventChannel`.

### 2.8 ManualExchange and ShareMusics

`ManualExchange` keeps of a roster slot its state, its invitation's generation,
whose answer it took and which device it was approved for. `ShareMusics` has a
poll at each side: `HostFetch` and `GuestFetch` file what the service has,
`HostPlan` and `GuestPlan` choose the next step and mark what the code marks
before its await, `HostCommand`, `HostUpload`, `ImportInvite` and their like are
the effect, `HostReply`, `InviteImported` and `ResponseUploaded` mark the rest and
save. `HostStepFails` and `GuestStepFails` lose a reply or a request, the reloads
drop a poll and keep what was saved. The service is outside the repository and
modelled from `client.ts`: a member's status, and ordered signals.

Simplifications: the limit of four steps per poll is not modelled (a poll runs
until it has nothing to do, or is cut short by a fault); hosts and guests are
desktop peers; the session is published and not ended; a slot that is connected
is neither invited again nor cancelled; a guest's own attempt fails only through
its host's; failed, expired and needs_exchange are one state, and so are rejected
and cancelled; `endLink` leaves the service in one step; a command is on its way
to the engine for less than the gathering of addresses takes (`Quick`).

## 3. Runs

| run | instance | shows |
|---|---|---|
| `db_gate` | 2 threads, pool of 1, 2 reservations, 2 openings | the gate is exclusive, accounted for and loses no wake-up; it implements `ExclusiveLibrary`; every blocking call returns |
| `rooms` | 3 connections, host and 2 guests, 1 room, 2 invites, a room that lives one unit of time | the registry's two maps agree; standing, roster and relay are right; admission is a decision under the current invite; expiry is final |
| `jobs` | a screen that pauses, resumes and cancels, an importer that queues and imports, a user's job and an automatic one, 2 workers | one runner; memory and file agree; completed means done; nothing is done twice |
| `jobs_live` | a screen that starts a job, an importer with automatic jobs, batches and grid analyses, 2 jobs, 1 crash | one native analysis at a time; no item is left without a worker; batches get the slot; automatic jobs complete |
| `restore` | 1 failing call, 2 crashes | the two files are one pair whenever the library is open, the answer given holds, edits survive, the library reopens |
| `link` | host, 2 guests, 2 handoffs, 3 edits | turn state, views and what everybody hears |
| `relay` | 3 producers, mailbox of 3, batches of 2, 6 offers | one drain at a time, no silent gap, `EventChannel` with its liveness |
| `engine` | a user and the webview, 1 deck, 2 tracks, 2 processes, 3 calls, 4 events, 1 fault | answers reach their callers; one engine; the webview shows the engine's state or knows that it does not; the last load wins; old sessions stay out |
| `share` | a host, a guest who asks twice, 1 fault or use of the roster by hand | repeats need a fault; only the guest's own answer is approved; approved guests connect |
| `restore_torn`, `link_program`, `engine_stop` | small | violations, section 6 |

Bounds. Two threads and one connection make every pair of calls of the handle
collide; two reservations and two openings let a caller sleep through a whole
maintenance, and the theorems remove the bound. Three connections let a host
be displaced while a guest waits; two invites are a revoked and a current one, and
one unit of time is enough for a room, an invite and a heartbeat to expire in any
order. Two jobs are what priority and succession need,
one item each what loss and repetition need. `jobs` begins with a paused job of
the user's, the state a file is in after a restart, so that both kinds of job meet
in three requests. Two crashes let a recovery be
interrupted. Three participants let previous, on air and next be three
DJs; two handoffs are the first at which there is a previous one, three edits
of the turn state let a pick, a removal and a reordering fall between them.
A mailbox of three is larger than a batch of two, so a drain ends with and
without a rest; six offers overflow it in the middle of one. `engine` begins either
with the application or with a connected webview and a load under way
(`Loading`, which takes three calls to reach and counts as one), so five calls
are reached: a command whose event is lost by a failed snapshot and one that shows the
gap; two processes are a dead engine and its successor, one fault each crash,
hang, timeout and broken stream. The fault of `share` is a reload, a lost reply, a
failed attempt or a button of the roster; a guest that asks twice has an earlier slot,
packet and approval to be confused by.
Symmetry is used only in runs without liveness properties.

`CHECK_DEADLOCK FALSE` is set where a bound ends the behaviour: jobs, crashes,
handoffs, edits, calls, offers, requests and faults run out.

## 4. Fairness

- `DbGate`: woken threads run, deadlines pass (a timed wait's clock), and
  leases and accesses are given back, since they are scoped values. `GuardDrop`
  is strong: a backup or restore takes leases in between, but only finitely often.
  No one is obliged to call, nor to end an activity.
- `AnalysisJobs`: threads are scheduled and an analysis ends. Nobody is obliged to make
  requests; who polls for the slot may find it taken every time.
  `AutomaticJobsComplete` supposes that imports cease (`ImportsCease`): while they
  go on, they outrank the automatic jobs by design.
- `RestoreUnit`: a program under way goes on, a backend that ended is started again.
- `NotificationRelay`: the worker, the UI thread and a watchdog that has begun go
  on, as do producers within a call. Nobody is obliged to offer anything.
- `ShareMusics`: both sides poll as long as there is a link (a timer does), and
  what was begun ends: commands, gathering, and a connection both sides want. The DJs
  are obliged to nothing.

`Rooms`, `LinkSession` and `DjEngine` are checked for safety only.

## 5. Proofs

Fifty-two theorems in eight modules, each for every
value of the constants that the ASSUMEs of its module admit. The argument has one form:
an invariant that implies the properties and that every action preserves, one lemma per
action or per kind of change, and PTL at the end. The assumptions say that the names of
nobody (`NoRoom`, `Nobody`, ...) are nobody's, that bounds are naturals and that sets
that are counted are finite; where there is more to them it is said below. TLC evaluates
them in every run.

**`DbGateProofs`** proves for any set of threads, pool size and bounds that `IndInv`
is inductive, from `TypeOK`, the counters as the sizes of the sets of holders
(`Counts`), the pool's balance (`Pool`), who owns the maintenance flag
(`Ownership`), what a phase may hold (`Holding`), and how generations
overtake (`Overtaking`). None of the properties is inductive alone:
exclusion needs that a drained counter means that no thread holds anything, which
is `Counts`; that no reservation finds a lease it did not count needs `Holding`;
the wake-ups need that whoever changes a reason to sleep notifies.
Theorems: `Invariance`, `TypeCorrect`, `Exclusion`, `OneOwner`, `Accounting`,
`Freshness`, `WakeupsReach`, `Serialization`, `Overtaken`, `Refinement` (every
step of `DbGate` is a step of `ExclusiveLibrary` or a stutter).

**`RoomsProofs`** proves every property of the `rooms` run for any connections, rooms,
guests, invites and limits. A handler changes rooms, seats and what is told in one step,
so the properties are restated as predicates of any such maps (`Registry`, `Informed`,
`Gone`) and the stages of a handler, the sweep among them, are lemmas about maps.
`RegistryAgrees` is split by direction, seats to peers and peers to seats; what the
members were told needs it, and that a closed socket has no seat left.
Theorems: `Invariance`, `TypeCorrect`, `RegistryHolds`, `StandingIsKnown`,
`RosterIsSent`, `RelayIsSound`, and the two action properties, `AdmissionIsSound` and
`ExpiryHolds`.

**`AnalysisJobsProofs`** proves the invariants and the action property of the two runs
for any callers, workers, tracks, jobs, crashes and requests. The heart of its `IInv` is
`Solo`: from the claim of `running` to its clearing one process, and one only, is
engaged, on the job that `running` names. Everything else leans on it, since only the
engaged process marks items or claims progress; what the others write is `Calm`: it
never sets "running" or "completed" and makes an item at most pending again. `SeenFits`
and `SeenDone` cover what a worker read before it writes, `SlotFits` the slot.
`StoredQueueIsSafe` says of the queue file alone what a start after a crash relies on.
Theorems: `Invariance`, `TypeCorrect`, `OneRunnerHolds`, `RunningItemsHold`,
`CompletedHolds`, `OneAnalysisHolds`, `StoredQueueIsSafe`, `DoneHolds`.
Assumption besides: callers and workers are different threads (`Names`).

**`RestoreUnitProofs`** proves `PairStaysWhole`, `AnswerStaysTrue` and `WorkSurvives` for any
number of failing calls, of crashes and of both, under the hypotheses that directory changes
of an ended process settle before the next start (`Settles`) and that what fails is an
operation that was not done (`Faults \subseteq {"io"}`); `WorkSurvives` besides for one
failing call at most. Without them the properties are false (section 6). `IInv` says of every
directory a power loss may bring back, and of everything it may leave of each file in it,
that it is a pair or has the marker with durable copies of the old one (`Crashproof`), and of
the program under way how far its list has brought the directory (`Underway`, by
`Saving`, `Swapping`, `Reverting`, `Opened`); a power loss then only chooses among what was
already so. There is one lemma for each operation of each list, and one (`CutShort`) for
the operations that a crash leaves half done. The answer and the edits follow from the stage
the program is at (`Answered`, `WorkKept`). `StartNeverStuck` says that the recovery
finds the files it needs whatever was left. Theorems: `AlwaysRecoverable`, `TypeCorrect`,
`StartNeverStuck`, `PairStaysWhole`, `AnswerStaysTrue`, `WorkSurvives`.

**`LinkSessionProofs`** proves, for any finite set of DJs and any bounds, `LinkTypeCorrect`,
`Consistency`, `Agreement`, `Convergence` and `NoEcho`, from lemmas about `turns.ts`: each
operation of `turns.ts` takes a consistent turn state to a consistent one
whose revision is one higher, unless it changed nothing (`Evolves`). `ViewsAreCurrent`
is not inductive: it needs `Currency`, that the last message on its way to an
answered guest, or else its view, is the host's state, and that only an answered
guest is told its identifier; a guest's acceptance by revision gives the rest, since
by `OneStatePerRevision` an equal revision is an equal state. The proof has one lemma
for a change of the turn state (`BecomeSafe`, `ChangeSafe`), one for the steps that
change nothing of it (`QuietSafe`) and one per group of actions.

`NoEcho` needs nothing of what the guests' engines send: by `FeedsFollow` each J deck is
fed what the turns say or nothing, so the DJ on air is fed the previous one, who is fed
nothing unless next, and the rest the DJ on air. That set is closed under relaying, so
the chain of `Reaches`, however long, stays in it (`HeardWithin`). The chain is a function
over `0 .. n`; that it exists and that it stays in the set are inductions, done by the least
counterexample (`LeastExists`).

**`NotificationRelayProofs`** proves, for any producers and any limits, `TypeCorrect`,
`DrainsOneAtATime`, `NothingIsSkipped` and `RelayIsAChannel`. Three inductive
invariants carry them. `Shape` is the types and what each thread may hold where it is.
`Turn` is `OneDrain` without its quantifier over places: while the relay works,
`scheduled` says that exactly one of the worker's channel, the UI thread's queue, the
drain and the threads about to wake the worker has the turn, and a mailbox that is
not empty is scheduled. `Stream` describes what was delivered, is in hand and is queued
as one sequence: the notifications in order while the relay is open, announcements of
its end afterwards;
`NoSilentGap` looks at its delivered part only. The refinement is a step simulation
under `Shape` and `Stream`: an action of the relay accepts, delivers, breaks,
reminds, loses, closes, or stutters (`ChannelStep`).

**`DjEngineProofs`** proves `EngineIsAlone`, `AnswersFindTheirCallers`, `TheLastLoadWins`,
`OldSessionsAreRefused` and `GapsAreSeen` for any users, decks, tracks, processes, calls, events
and faults.
`IInv` is `TypeInv /\ Order /\ Mail`. `Order` says who may act: the holder of `lifecycle`
alone starts or ends engines and waits for a handshake, so `running` is what it made of it,
and every process that is not in `state` has ended or is the one it is ending. `Mail` says
what is on its way: a number is never above `nextId`, a waiter in a pending map waits there
and alone under its number, a command or a line that carries a waiter's number is its own,
and no session in an answer or in the client is ahead of its engine. Many steps do nothing
to `Mail` but make waiters leave or drop lines, which one lemma covers (`MailKept`).
`OneEngine` needs `Order`; `AnswersAreOwn` needs both, since another process gives the
same numbers. The theorems are about `Spec`, from `Init`; the run begins also with `Loading`.
Assumptions besides: the users' commands are among those of `EngineHost`
(`UserCommands`), the webview is not a user.

`MissedEventsShow` speaks of the engine as it is, and the view was made of what the engine
sent before. `GapsAreSeen` therefore carries the engine's past along, as a function `h` from a
number of events to what the engine showed when it had sent so many (`Recorded`). `Truth`
says that for every engine that runs there is such a past of which all is true that the engine
sent and that is still somewhere: in a pipe, the relay, the webview's buffer, an answer or
the view. An event says what changed at its number (`TrueEvent`), a snapshot what was so at
its own (`TrueView`), and the view does too unless it says that it missed something
(`ViewFits`). A step of the host lengthens the past by one entry and leaves the rest
(`PastGoesOn`), every other step only carries things on (`FlightFlows`, `TakenFlows`), and
`ReduceEvent` takes a view that fits to one that fits (`ReduceFits`), however many buffered
events follow a snapshot (`ReplayedFits`, an induction by the least counterexample). One
point is less obvious: a view at number 0 takes its next event for the first, so a gap
there would be silent. It cannot happen because the webview's session is the engine's second
at least, `start()` having greeted it before, and every greeting but the first sends an event
(`Greets`, `Told`): a snapshot that the webview is given has a number of at least 1.

**`ShareMusicsProofs`** proves `OnlyGuestsAreLetIn` and `NothingIsRepeated` for any guests,
requests and disturbances. For the first, `IInv` says that what the host's memory, saved or of the poll, and the command under way
suppose of the roster is so: an invitation marked approvable was answered (`Past`), by its
guest if the slot awaits approval still. It survives the buttons of the roster because a
slot is answered once for each invitation (`Evolves`), and a command on its way because
nobody gathers addresses meanwhile (`Quick`, `Steady`). Of the guests' half of the state it
needs nothing, so the theorem holds whatever a guest's webview sends or forgets.

`RepeatsNeedAFault` counts repeats, one element of a set for each: the k-th slot too many of a
guest, the k-th copy too many of a packet. `NothingIsRepeated` proves it by a larger set,
`Owed`, of the repeats that have happened or still may: a guest who still needs a slot
(`Needs`) counts one more, a packet that may still be sent (`MaySend`) too. `Paid` says that
`Owed` has at most `faults` elements. A step without a fault adds nothing to it: a slot or a
packet is made only where one was due, and then none is (`SlotsDueMoves`, `CopiesDueMoves`).
A lost reply or a reload makes one poll forget one thing, which adds one element (`OwedGrows`,
`OneForgets`). What else is needed is that nothing comes due again of itself, and for that
both sides' state is described (`TInv`, `Books`): what the memory knows to be done survives
the poll that knows it, and a command is planned only while its step is not known done
(`HostBooks`); packets and peers are of slots of the roster (`PInv`); a guest's link of now
knows only invitations it can still read, and an earlier link does not pass for it, although
a suspended poll may write it back (`GuestBooks`); and a response that was sent is spent: its
guest has that invitation or a newer one of the slot, or can never read one again
(`SignalBooks`). The last is what leaving and asking again would break, did share-musics
not withdraw the texts and the host's view not forget the slot of one who left.

Only model-checked, and why:

- Liveness (`BlockedCallsReturn`, `AutomaticJobsComplete`, `WaitersGetTheSlot`,
  `LibraryReopens`, `ApprovedGuestsConnect`) and the fairness of `EventChannel`:
  `ImplementsChannel` is `Channel!FairSpec`, `RelayIsAChannel` its `Channel!Spec`. The
  prover has neither ENABLED nor fairness.

## 6. Where the code and its documentation part

- `restore_torn`. When the directory cannot be synced after the marker was removed,
  the swap is rolled back without a marker; a crash in it leaves a mixed pair
  (workflows.rs:1968).
- `link_program`. NEXT from A to B and back while the splice is under way leaves the
  program on B with A on air: `handoff` answers "same" before it looks at the splice
  (program.ts:246).
- `engine_stop`. `stop()` asks the host whether Junction is active before it stops it. A
  host that has crashed or hangs gives no answer, and `stop()` returns that error
  without ending anything; the window's close handler takes the same error for an active
  Junction (supervisor.rs:417, lib.rs:99 and 251).

Behaviour of the code that no run singles out, met while modelling:

- `start()` sees an automatic job running and queues the user's job behind it in a second
  step; when the automatic job ends in between, nobody looks at the queue again
  until something else ends (`StartDecides`, `StartCreates`, analysis.rs:876).
- An automatic job told to pause is put back in line by its own end, which takes the
  stop flag for a yield (`WriteFinal`, analysis.rs:1075).
- An ingest polls for the slot and is not counted as waiting; an automatic job it
  preempted can take the slot again (`ImportKnocks`, ingest.rs:248).
- With two DJs the previous one is also the next one. `roleOf` says next, which feeds
  them the DJ on air, who is fed them: both hear themselves (turns.ts:115).
  `EchoNeedsAReturn` shows that there is no other way to hear oneself.
- A guest receives the state with its own arrival before the welcome that tells it
  its identifier, and drops the second because the revision is the same: if it is
  next, its engine goes on sending its own decks until the next change (`Hello`,
  `Receive`, session.ts:323 and 552).
- `PairIsWhole` is false when the removal of the old queue file fails (`Faults` with
  "remove") or when a directory change of an ended process is lost after the next
  start has begun (`Settles = FALSE`); `EditsSurvive` is false with two failing calls.
- A guest's poll that sleeps in `join()` while the guest leaves and asks again for the same
  session saves its old link over the new one: `persist()` compares the session and
  the role only (`Persist`, coordinator.ts:104).

## 7. Not modelled

Audio (samples, lags, resampling), SQL, numeric analysis, decoding, operating-system
bridges and the user interface are outside what a state machine of this size can say;
together they are most of the repository's lines, so the definitions here stand for
less than a tenth of them. Within the parts that are modelled:

- errors of the queue file in `AnalysisJobs`, one of which leaves `running` set for ever
  (analysis.rs:962);
- messages `peer.ts` drops behind 256 KB: with them a guest may miss the newest state
  until the next change, and `ViewsAreCurrent` is false;
- restarts of the engine and its uplink in `LinkSession` (session.ts:119), and the
  session's signaling through Share Musics and codes;
- in `DjEngine` the MCP bridge (`send_current`), an active Junction, and the queues of
  the client; in `EngineHost` parameters, which are refused or stored;
- in `ShareMusics` Lite peers and the owner, and the end of a session;
- the authority, turns and audio of the native Junction, whose C++ runtime is modelled
  only as the exchange of packets;
- the Rekordbox MCP server, a separate Python tool.

The list with reasons is in `PROJECT.json`.

## 8. Plan

1. Done: the modules of section 2.
2. Model: engine restarts in `LinkSession`; failures of the queue file in
   `AnalysisJobs`; an active Junction in `DjEngine`; changesets of the Rekordbox tools.
3. State: what a guest's engine owes its view once a welcome is handled, and an
   abstract specification of a session (one state, replicas that follow) for
   `LinkSession`.
