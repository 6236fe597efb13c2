# Paneglow in TLA+

Specifications of Paneglow: the daemon that shows Claude's sessions on the keys
and border of a macro pad it shares with the vendor's app, the hooks that feed
it, and the commands that start and stop it. Paths are those of the repository
(`src/paneglow/...`).

## 1. The system

| Component | Source | State | Operations | Talks to |
|---|---|---|---|---|
| Process lifecycle | `cli.py` | two flocks, `daemon.pid.json`, `snapshot.json`, `stop_event` | `run`, `start`, `stop`, `status` | locks, files, signals |
| Daemon tick | `daemon.py` | owner, slots, verified epoch and layer, what was last painted, what is dirty, deadlines | `tick`, `close` | everything below |
| Pad connection | `pad.py` | device, `_connected`, `_status_verified`, epoch, report queue | `open`, `status`, `poll_received`, `send`, `reconnect`, `close` | the pad, through callbacks during a poll |
| Record store | `store.py` | one file per session, a lock | `write`, `read_all`, `prune` | hooks write, the daemon prunes and reads |
| Claude hook | `hook.py` | none; one process per event | `run` | the store |
| Session scan | `sessions.py` | none; reads Claude's files | `scan` | the daemon |
| Key slots | `slots.py` | none; `Daemon.slots` is its memory | `assign` | the daemon |
| States and rendering | `state.py`, `render.py` | none | `effective_state`, `alert_level`, `render_keys` | the daemon |
| Input trace | `cli.py` | a request, claim and result file, an active trace | `trace-input`, `_TraceMailbox` | the daemon's observer |
| Autostart | `cli.py`, `launch_agent.py` | a manifest, launchd's job, an install lock | `autostart install/uninstall/status` | launchd, `stop`, `start` |
| Wire protocol | `protocol.py` | the decoder's buffer | `frame`, `FrameDecoder.feed` | the pad |
| Hook installation, configuration, deep links, frontmost app, browser view, doctor | `cli.py`, `config.py`, `deeplink.py`, `frontmost.py`, `ui.py` | none or one file | | |

What is hard: processes that meet on two locks, two files and a pid that may be
reused; a tick of a dozen steps between any two of which the user switches
apps, the vendor's app overwrites what was painted, the layer changes or the
cable goes; hooks that overlap and end in any order; failures in the middle of
a start-up, a teardown or a repaint; crashes that leave files behind.

What makes each component correct:

* lifecycle - an identity that is read belongs to the daemon that is alive, and
  goes on doing so while it is acted on; a stop is carried out and reported
  only when it is; nothing is left behind;
* tick and pad - no write to the keys while Codex owns them, no key press that
  is acted on for the wrong connection, layer, owner or session, and both zones
  converge to what they should show whatever happened;
* store and hooks - the newest event of a session wins; nobody's record is
  deleted while it lives;
* scan, slots and rendering - lit sessions get the keys, the quietest gives way,
  and a key does not change under the finger;
* input trace - captures do not overlap, a request is captured at most once,
  its result goes to whoever asked, and what the dead leave behind is cleared;
* autostart - launchd and a manual daemon do not fight over the lifetime lock,
  and what install, uninstall, start and stop report, their rollbacks included,
  is so.

## 2. The modules

| Module | Models | Built on |
|---|---|---|
| `Lifecycle` | `run`, `stop`, `start` (manual), `status`, the kernel's pids | |
| `Daemon` | `tick` and `close` over the pad connection, the user, the vendor's app, the cable | `Queues` |
| `Pad` | one connection with its callbacks, `request`, `reconnect`, `close`, the decoder; the firmware and the vendor's app | `Queues` |
| `Queues` | `sorted()` and the list comprehensions that filter, as operators without recursion | |
| `Store` | hooks, `write`, `prune` | |
| `Slots` | `assign` and its three policies, as operators | `Queues` |
| `Sessions` | `_refresh_sessions` in its steps: scan, prune, read, assign | `Store`, `Slots` |
| `OneShot` | what `trace-input` promises, without the mailbox | |
| `Trace` | the mailbox: `trace-input`, `_TraceMailbox`, the files and locks between them | `OneShot` (refinement) |
| `Autostart` | `autostart install`/`uninstall`, `start` and `stop` over launchd, the plist and the daemon | |
| `LifecycleProofs`, `TraceProofs`, `AutostartProofs`, `DaemonProofs`, `PadProofs`, `StoreProofs`, `SessionsProofs` | the theorems of section 5 (`StoreProofs` and `SessionsProofs` about `Sessions`) | the module, `TLAPS` |
| `QueuesProofs` | lemmas about sorting and filtering, for sets and queues of any size | `Queues`, `TLAPS` |
| `MCLifecycle`, `MCDaemon`, `MCPad`, `MCSessions`, `MCTrace`, `MCAutostart` | the small instances | |

### Lifecycle

An element of `Instances` is one `run` process: its `InstanceIdentity`. Its
place in `_cmd_run` is `dpc`: `takeTransition`, `takeLifetime`, `writePid`,
`writeSnap`, `open` (the identity is published, the transition lock not yet
dropped), `loop` and `tick` (`_DefaultRuntime.run`), `takeBack` (the blocking
re-acquisition), `writeStopped`, `removePid`, `freeLifetime`,
`freeTransition`, `dead`. Every file write may fail before or after it took
effect, and then the code's `except`/`finally` path is taken; the blocking
acquisition may raise (`LockMayFail`). `SIGTERM` sets `stop_event` where the
handler is installed and kills elsewhere. Commands are `Clients` with a place
`cpc` in the query that all three share (take the transition lock, probe the
lifetime lock, read the pid file, read the snapshot, drop), then their own: stop
checks, signals and waits; start spawns, polls and gives up. The probe takes
the lifetime lock if it is free and only then releases it, as
`_lock_is_held` does, so it is two steps. Pids are handed out by the kernel:
a dead process's pid may go to a daemon or to a foreign process of the same
user, but the pid of a start command's unreaped child stays its own. Stale
snapshots are a choice of the reader. `faulted` remembers which kinds of
teardown step ever raised: taking the lock back, writing the snapshot, removing
the pid file. A property names the one kind of fault that voids it: a snapshot
that could not be written is no excuse for a pid file left behind.

### Daemon

One tick is the sequence `RefreshSessions`, (`OpenPad`, `Reconnect`,
`VerifyStatus` or `LeavePadAlone`), (`Poll`, `PollFails` or `NoPoll`),
`SampleAfterPoll`, one `Dispatch` per message (and `OpenerReturns` when it opens
a session, which blocks), `Resample`, `PaintKeys`, `PaintAmbient`: the order of
calls in `tick`. `close` is `CloseSamples`, the last look at the frontmost app,
and `Close`, what is written by it. Any world action may come between
two of them. Everything a handler changes is in its action; for instance
`Reconnect` disposes of the old connection, opens one, verifies it and accepts
its status. Deadlines (`keys_reclaim_due`, `ambient_reclaim_due`,
`_feedback_until`, `_next_status_at`, `_next_reconnect_at`) are `off`, `armed`
or `due`; `Elapse` makes one due between ticks, since a tick sees one `now`.
Messages carry the epoch of their connection and, as history, what the daemon
had verified when they arrived. Colours are the few the properties tell apart.
`GateMode`, `Scope`, `LayerUnderglow` and `ReclaimAtOnce` are configuration.

The A keys are one slot or more of `Keys`; which session is where comes from
`Boards`, what `Sessions` shows `assign` to return (`KeysGoToTheLit`).

### Pad

The owner thread is in one call at a time: `op` is the call (`open`,
`reconnect` or `status`), `pc` the place in it. The environment acts between
any two places; what the device sends waits on `wire`, tagged with the
registration it is for, until `Deliver`, a turn of a pump, hands it to
`_on_report` or `_on_remove` and drains it through the decoder, as `_pump_for`
does at once. A pump may make any number of turns before the reply is looked
for (`TakeReply`), so a removal may come between. Timeouts are choices.

The decoder is the number of unterminated reports in its buffer. A status reply
takes two reports here and the part that matters is in the second, as in the
one measured (`docs/hardware-notes.md`: with 61 bytes to a report, `layer_index`'s
value and `id` share one), so a reply spliced from two others cannot mix them. `since` and
`undecoded`/`lost` are history: what the layer has been since the request, and
what this registration's messages and losses come to.

`Daemon` has the same connection at the grain of its calls: its `OpenPad`,
`Reconnect`, `VerifyStatus` and `Poll` each stand for a whole call here, and take
from it that a status is this connection's and fresh (`VerifiedLayerIsFresh`),
that messages are (`NoContamination`), and that a removal is noticed in a pump.

### Store, Slots, Sessions

A hook process is `called` with an event, stamps it (`rev`), and then either
writes or, for an `idle_prompt`, first reads the store outside the lock
(`promote`). `write` and `prune` hold one lock over check and effect, and
`os.replace` makes a write whole for readers, so each is one step. Hooks of
different sessions touch different files, so reading all records one after the
other shows nothing that reading them at once could not. The daemon scans,
prunes and reads in three steps. Revs, start times and ages are ticks of one
clock, on which no two hooks are stamped alike (`time_ns` stepping back is not
modelled). Session ids are numbers, which stand for their order as strings.

`Slots` sorts with `Queues!Sorted`, which says at which place an element of a
finite set comes, by how many come before it. The loop of `_sticky` is a
function on the number of sessions it has seated (`Seatings`), and `Incoming`
sorts those that hold no slot, which is what filtering the sorted ones gives.

### Queues

`Sorted` and `Only` define what `sorted()` and a comprehension with a condition
return without recursion, because the provers can say nothing of
`SelectSeq`, `SetToSortSeq` or a fold. `MCPad` has TLC compare them with those
on all queues of up to 4 and all sets of up to 5 elements (`QueuesAssumption`).

### Trace and OneShot

An element of `Clients` is one `trace-input`; `cpc` is its place in
`_cmd_trace_input`: the stale request and result, the active marker, the
request and the result are looked at and cleared (`Setup`), then it publishes,
waits, takes the result, prints, and cleans up (`Cleaning`, the `finally`
block), holding the trace lock throughout. An element of `Daemons` is one run
of the daemon; `dpc` is its place in `_TraceMailbox`: `poll` is between two
calls, `Starting` is `_start_request`, `Finishing` is `_finish`, `close` is
`Close`. `capture` is the mailbox's memory (`self.active`), `request`, `active`
and `result` are the three files.

A request id is made afresh, so a file is known by the command it belongs to,
and so is its inode. The code checks an inode by `lstat` and then unlinks or
renames by name; those are two steps here, and whatever has the name by then is
what goes. Commands and daemons may be killed anywhere (`CrashClient`,
`CrashDaemon`), a file operation of a daemon or of a clean-up may fail
(`Fault`, `CleaningFails`), any step of a command may (`Fail`, which also is
its deadline), and a file may outlive its time to live (`Expire`). The
events in a result are left out.

`OneShot` has one variable, how far the request of each command has come.
`Trace` implements it under `stages`, which reads that off the files, the
memories and the places: `KeepsPromise` is the abstract specification.

### Autostart

A command of `Commands` takes the installer lock and runs one of `Kinds`; `pc`
is its place, `found`, `wasLoaded` and `wasManual` are the locals its rollback
goes by. One place is one call: `inspect`, a `launchctl` call (`bootout`,
`bootstrap`, `kickstart`), a wait (`waitGone`, `waitReady`, `waitChild`), a
replacement of the plist (`write`, `remove`), a signal, a spawn. Every call may
be reported as failed, a `launchctl` call or a replacement with or without its
effect, and then install and uninstall walk the `Rollback` places in the
order of the code. The verdicts are what the command says: `done`, `unchanged`,
`restored`, `unrestored`, `failed`.

The plist is its classification by `inspect_manifest`; an unsafe one counts as
`unknown`, since it is refused like one. `job` is what launchd makes of it, with
`KeepAlive: SuccessfulExit = false`: a service that fails is wanted again, one
that exits with success stays down. The daemon is who holds the lifetime lock
(`owner`) and how far it is (`phase`): `Lifecycle` at the grain a command sees.
`child` is one the command under way has started, `manual` one a command has
seen, `bare` a `run` by hand or left by a start that died. Time passes between
the check of the plist and its replacement, in a rollback too, and an outsider
may put one there.

## 3. The runs

| Run | Instance | Shows |
|---|---|---|
| `lifecycle_commands` | 2 daemons, 1 stop, 1 start, 2 pids, 1 crash | `IdentityPublished`, `IdentityReadIsCurrent`, `StoppedMeansGone`, `CleanShutdown` |
| `lifecycle_live` | 1 daemon, stop, status; the lock may fail | `StopIsCarriedOut` |
| `lifecycle_stale` | 1 daemon, stop, status, 1 crash | finding: stop signals a dead daemon's pid |
| `daemon` | 1 key, 1 session, 3 events, border `off` on other layers | `OpensOnlyKnownPresses`, `YieldsToCodex`, `OtherLayersAreLeftAlone`, `KeysConverge`, `BorderConverges` |
| `pad_status` | 2 connections, 2 requests, 4 events | `VerifiedLayerIsFresh`, `NoContamination`, `NothingLeaks`, `LossIsBounded`, `LateRemovalIsHarmless` |
| `pad_loss` | 1 connection, 1 request, 3 events | finding: one lost report costs two messages |
| `sessions_hooks` | 1 session, 2 hooks at once, 3 ticks of the clock | `LatestRevStands`, `UncertainScansSpareTheLiving` |
| `sessions_keys` | 3 sessions, 2 keys, 1 hook, 2 ticks | `KeysGoToTheLit`, `KeysStayPut`, `QuietestGoFirst` |
| `sessions_idle` | 1 session, 2 hooks | finding: a finished session lights up as waiting |
| `trace` | 2 commands, 2 daemons, 1 kill, 1 failing file operation | `KeepsPromise`, `MarkerStands`, `SerializedUnlessKilled`, `MailboxDrains` |
| `autostart` | 2 processes running any number of commands, 2 kills, 1 foreign plist | `LoadedHasManifest`, `LaunchdRunsAlone`, `InstalledIsUp`, `StoppedStaysStopped`, `RestoredIsRestored`, `NeverBypassesLaunchd` |
| `autostart_restored` | the same | finding: a daemon told to stop is reported as restored |

Bounds, and why they are enough:

* two daemons are a daemon and its successor; a third would meet the files in
  the same states, since only the last writer shows in them. Two pids allow
  both reuse and a pid of one's own. `MaxCrashes` = 1 leaves one set of stale
  files, which is all there is room for;
* one key: the A-zone is written as a whole, and `Sessions` looks at who gets
  which key. `MaxEvents` counts world events (not replugging, not time) and
  failures that the world does not force; three let an app switch, a layer
  switch and a press, or a vendor write, an unplug and a failure, meet in one
  tick, and every one of them must be recovered from (four were tried too, and
  hold);
* in `Pad` two requests are one that timed out and one it must not answer for,
  two epochs a connection and one whose callbacks survived. Four events let a
  layer switch, a lost report and two failing steps meet; replugging and the
  device's answers are free. `MaxBuffer` is 2 reports for some 67 (4096 bytes of
  61; the theorems only need that it is at least one);
* two hooks are one that overtakes another; three sessions on two keys are the
  smallest crowd in which a seat is contested while another is kept;
* in `sessions_keys` the only event is Stop, for a record that is lit and then
  fades; the history variables are kept for `Tracked` sessions only, which is
  all of them in `sessions_hooks` and none in `sessions_keys`.
* in `trace` two commands are one that asks and one that died or comes next, two
  daemons a daemon and its successor; one kill and one fault let a command, a
  daemon and a half-done file operation meet. Three commands with two kills
  (safety) and two commands with two kills (liveness too) were also tried, and
  hold;
* in `autostart` two commands exclude each other but for a kill, after which the
  second finds what the first left; commands repeat without end, so any sequence
  of them is there. Two kills are a command's and a daemon's. `MaxOutside` = 1,
  because the plist an outsider put there stays until then;
* the policy `recent` is only run where there is one session; `recent_sticky`
  and `priority` are run where keys are contested. The theorems about keys are
  of all three.

Deadlock is checked for `Lifecycle`: commands end, daemons may go on, and a
foreign process may always take or leave a pid, so what the check rules out
there is little; `StopIsCarriedOut` is what shows that nobody waits forever.
`Daemon` and `Pad` may close, `Sessions` may run out of clock, the commands and
daemons of `Trace` may all be over, so it is off there; in `Autostart` `bare`
runs may come at any time, so the check would show nothing and is off too.

Fairness. In `Lifecycle` every daemon and command that can step does (they are
ordinary processes), and a blocking flock that is free again and again is
eventually had (strong fairness of `TakeBack`); launches, crashes and pid reuse
are owed to nobody. In `Daemon` ticks follow one another (`_DefaultRuntime.run`
does nothing else) and no deadline stays set forever while they do, which is
what `Elapse` is for; the world is not fair at all. In `Trace` a command past its lock goes on, the daemon's loop polls
(`_DefaultRuntime.run` calls `poll` on every turn), and a result that lies there
grows old; nobody has to start, and nothing is owed to a daemon that stops.
`MailboxDrains` is about a daemon that stays up: without one, nobody reads the
mailbox.

`LayersAreSeen` is an assumption on the user in `daemon`: a layer is not
left before one status has seen it. The pad ignores key writes on layer 2
(`docs/hardware-notes.md`), so if the layer goes there and back between two
statuses a key write is lost, nothing tells the daemon, and the key is wrong
until something else changes; without the assumption `KeysConverge` fails.

Every property of a passing run has a mutant, a plausible bug in the code's own
terms that violates it, defined in the module just before what it replaces.

## 4. What disagrees

* **A probe looks like a daemon** (`lifecycle_stale`).
  `_lock_is_held` takes the lock it asks about, and `status` does so outside
  the transition lock. A `run` that comes by then answers "daemon is already
  running"; a `stop` that comes by then believes the files a crash left behind
  and signals the pid in them, whoever has it now. The file's own docstring
  makes the lock the authority for whether an instance is alive.
* **Finished sessions that wait** (`sessions_idle`). The promotion of an
  `idle_prompt` reads outside the lock; a Stop with a lower rev that lands in
  between is overwritten.
* **Restored, and about to stop** (`autostart_restored`). uninstall (and
  install) sends SIGTERM to a manual daemon and may give up waiting for it. The
  rollback then finds the daemon ready still, takes that for a restored one and
  says so, and the daemon goes on to stop. The comment at `cli.py:2063` wants
  the rollback to re-establish the manual owner. `RestoredIsRestored` is what
  holds: it is ready at that moment.

* **One lost packet, two messages** (`pad_loss`). If the report that ends a
  message is lost, what came before it is joined to the next one and spoils that
  too, be it a key press. The decoder's docstring (`protocol.py:128`) speaks of
  exactly one message; `LossIsBounded` is what holds: never more than two.

Met on the way, with no run of their own:

* a `run` given by hand passes for an installed service: if it comes to the
  lifetime lock between the stop of the old daemon and the start of launchd's, the
  wait for readiness (`cli.py:1923-1926`) finds some daemon ready and asks no
  further. install then reports its pid, while launchd's process fails at the
  lock and is started again until the other one goes. `InstalledIsUp` and
  `LaunchdRunsAlone` exempt that daemon, and no other;
* the layer the daemon goes by may be a status period old (`daemon.py:581`).
  `OtherLayersAreLeftAlone` is about the layer it believes: meanwhile it may
  write to the border of a layer that is not its own. The keys are safe from
  that, since the pad ignores the write, and `KeysConverge` says it is made up
  for;
* the app that comes to the front between the last sample of `close` and its
  writes loses its keys (`daemon.py:677-691`). `YieldsToCodex` covers the one that
  was in front all the while since the shutdown began;
* a new session can be pruned: the set of live sessions is older than the lock
  under which the rest is deleted. `UncertainScansSpareTheLiving` is about
  sessions a scan has seen;
* a command that is killed after its request has passed the other's checks lets
  the daemon claim the dead one's request under the eyes of the next command,
  which then fails for no fault of its own (`cli.py:1298` says the claim
  serializes a later command); `SerializedUnlessKilled` exempts it. Two
  interrupted commands can even cost a live capture its marker, which
  `MarkerStands` exempts. And the daemon's removal of an expired request
  can hit a fresh one of the same name; the command then times out;
* a bootout that is reported as failed may have worked; if the rollback fails
  too, the daemon is no longer launchd's and still closing, and the next command
  signals it once more. `NeverBypassesLaunchd` speaks of loaded jobs.

## 5. The theorems

All are machine-checked, for every value of the constants that meets the named
assumptions of the modules: any numbers of processes, pids, sessions, hooks,
keys, crashes and faults.

**Lifecycle.** The type invariant and the four safety invariants hold in every
reachable state. They rest on the assumptions that the kinds of processes are
disjoint and that `Free` and `Foreign` are no processes. `ExitLeavesNothing`
takes each file by itself: it is left behind by a kill, or because the write that
takes this very file back raised.

None of the four is inductive. `IInv` adds what the code's order of steps
maintains: who stands where holds which lock (`TransitionInv`, with the
exception of a daemon that failed to take its lock back, and `LifetimeInv`,
which includes the probes); a live daemon answers to its pid and an unreaped
child's pid is not given away (`PidInv`); a daemon that has published finds
itself in both files (`FilesInv`), and conversely a file names only daemons
that have published and not yet withdrawn (`OwnedInv`); what a command read is
still there while it holds the transition lock (`SeenInv`); and what a stop
concluded stays true (`VerdictInv`). Each conjunct has a lemma that every step
preserves it, with one step per action; `Invariance` puts them together, and
each property follows from `IInv` by the mutual exclusion of the two locks.

**Trace.** `Refinement`: `Spec => KeepsPromise`. A request is in one place only
(`OnceInv`): once claimed it is not in the mailbox, once its result is out it is
neither there nor captured. Nobody knows of a command that has not asked
(`FreshInv`), and a daemon captures for somebody exactly between `ReadRequest`
and `Unmark` (`CaptureInv`, which needs that only one daemon lives). Under that
invariant each step of `Trace` moves one request along an edge of `OneShot`,
or gives it up, or moves none (the lemmas before the theorem, one case per action).

`Marked` and `Serialized` rest on a second invariant, `MarkerInv`, over the
first. The commands that hold the trace lock one after the other are bound to
the same living daemon (`BoundInv`), so a marker one of them takes for a dead
daemon's is not that of a capture under way (`DropInv`), unless two commands were
interrupted. A request that is there beside a marker, or is about to be, means
the marker is an interrupted command's (`OrphanInv`, from the checks before
`publish`), and from those checks on a command meets no capture but its own and
theirs (`ClearInv`). `KeptInv` is `MarkerStands`, and more: the capture of a
command that was not interrupted always has its marker. That an interruption
adds at most one to a finite set (`JoinStep`) is all the counting there is.

**Autostart.** The invariants and the four action properties on what a command
reports and whom it signals. `InstallTruthful` says of an install that reports
success: the job is loaded, its manifest is the current one or an outsider has
replaced it since, and the daemon that is ready is launchd's or a `run` no command
has seen, not a manual one that install had found nor a start's child. Which
command is at which place (`KindInv`), what it knows of the job there, because
nobody else loads it or takes it down (`JobInv`, from the installer lock), who
may have the lifetime lock meanwhile (`OwnerInv`), and what the plist may be
(`ManifestInv`); every step is truthful under these. A crash of a command is the
step that needs the exception for `bare` daemons.

**Store.** `NewestStands` and `ScansSpareTheLiving`, of `Sessions`. The newest
record a hook set out to write is always either in the store or on its way
there, and no other is newer (`BestInv`); stamps are different (`StampInv`); an
authoritative scan contains every session that was live when it was made
(`ScanInv`).

**Sessions.** The invariant of the keys, `BoardInv`, stands on that of the
store. Sorting makes sense of finite sets only, and the sessions are any set of
numbers: what is finite is the set of those that live, since they start one at
a time, and so each scan. From there the argument is about `assign`:

* an order has a rank for each element of a finite set, the ranks are all
  different and leave no gap (`RankProperties`), so sorting gives each element
  one place (`SortedProperties`), and a ranking that leaves somebody out is full
  of earlier ones (`RankedFacts`, for `recent` and `priority`);
* for `recent_sticky`, the loop keeps `Settled`: the seats hold different
  sessions, each one its old occupant or a newcomer, and whoever was considered
  and has no seat is no more recently active than any of those that fill them
  all. One turn keeps it (`SeatStep`: the first empty slot, or that of the one
  quiet longest, whose existence is `OldestExists`), so the last one has it. The
  induction over the loop needs no theorem with an operator as parameter: the
  turns where it holds are a set that contains 0 and with each number the next
  (`StepByStep`, from the least element of the others).

`AssignFacts` says it of the three policies, `Refreshed` of a refresh, and
`LitHaveKeys`, `NobodyMoves` and `QuietestYield` follow.

**Daemon.** `Yields`, for `GateMode = "frontmost"` (in the other modes the user
has chosen not to yield): whoever switches away ends the yield, and before it
paints the daemon has sampled since the last call that blocked, and before it
darkens the keys since the shutdown began.
`LeavesOtherLayers` needs no invariant, only who writes. `TypeCorrect` and
`OpensOnlyKnown` rest on `IInv`: a press that waits, in
the queue or in the batch, and is of the verified connection was made when that
connection was verified to be on the very layer it is known to be on now
(`QueueInv`, since a status discards what came before it), and there is an epoch
once a device was opened (`EpochInv`), so a press cannot match a verification
that never was.

**Pad.** One invariant, `IInv`, for all: the types of what changes together
(`Known`, `StatusTypes`, `CallTypes`), among them that a request in flight is the
last one asked; who holds the device at each place of a call (`HeldInv`); and

* the mail (`MailInv`): every report on the wire is of a connection that was
  made, a removal on it for the registration in force means that the device is
  gone, and every reply, on the wire or delivered, that answers the last request
  names a layer the device was on since (`Honest`). What was honest stays so,
  because a new request has an id of its own. From that `VerifiesFresh`
  (`FreshInv`), `KeepsApart` and `SurvivesLateRemovals`;
* the account (`CountInv`): the reports of a registration are whole messages, but
  for the first, whose head may be in the decoder or gone; every message not
  decoded yet still has its end on the wire, or is paid for by a loss, two to
  one; and while the decoder is out of step with the wire, one of those is still
  owed. When the wire is empty only the losses are left: `LosesLittle`. This
  needs `MaxBuffer >= 1`, since with no room for a single report no message of two
  could ever be decoded. The code's bound is 4096 bytes (`_MAX_BUFFER`).

`LeaksNothing` follows from `HeldInv` alone.

The candidates of all these invariants were checked with TLC on the instances of
the runs before they were proved (`BoardInv` on `sessions_keys`, the mail and the
account on `pad_status`, the markers on `trace`).

Only model-checked is what is out of the prover's reach: liveness under fairness
(`StopIsCarriedOut`, `KeysConverge`, `BorderConverges`, `MailboxDrains`). Every
invariant and every action property that a passing run checks is also a theorem.

## 6. Not modelled

* Parsing and formatting (session files, settings, configuration, snapshot
  schema, the contents of a plist and of a trace result), permissions and
  symbolic links of files, the IOKit bindings, the Objective-C lookup of the
  frontmost app. How a message is cut into reports is abstracted to one or two.
* `config.py` is a pure parser run once; its values are constants here.
  `deeplink.py` is a lookup and an `open`, `frontmost.py` one call: `Daemon`
  has their results and failures. `ui.py`, `doctor` and `autostart status`
  only read.
* `install-hooks` edits one JSON file of Claude's in one process, with a backup
  and a rename. Nothing in the repository runs beside it.
* Processes of other users, which `stop` refuses to signal, and an unreadable
  store or lock, which ends the command.
* Clocks that step back (`time_ns` for revs), and two hooks stamped alike.
* In `Trace`: an `unlink` that fails while the daemon closes the mailbox
  (`cli.py:1452`). It leaves what `CrashDaemon` leaves.
* In `Autostart`: an effect of a `launchctl` call that comes after the next call,
  and the path without a LaunchAgent when a custom home directory is given
  (`start` and `stop` are then those of `Lifecycle`).

## 7. Plan

1. `Pad` under `Daemon`: a refinement in which `Daemon`'s pad actions are the
   calls of `Pad`; likewise `Autostart`'s daemon by `Lifecycle`.
2. `Frames`: how messages are cut into reports, as an operator checked against
   its inverse.
3. An abstract register that `Store` without prunes and promotions implements,
   and a refinement of `Daemon`'s boards by `Sessions`.
4. Theorems: that `Pad` and `Store` implement those abstractions, on the
   invariants that are proved now.
5. Hook installation.
