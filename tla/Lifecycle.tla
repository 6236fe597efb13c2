------------------------------ MODULE Lifecycle ------------------------------
(***************************************************************************)
(* The daemon's process lifecycle (src/paneglow/cli.py): `paneglow run`    *)
(* processes that publish an identity and later withdraw it, and the       *)
(* `stop`, `start` and `status` commands that read it.                     *)
(*                                                                         *)
(* Two advisory locks order them.  The LIFETIME lock (daemon.lock) is held *)
(* by a daemon from before its identity exists until after it is gone; the *)
(* TRANSITION lock (identity-transition.lock) is held while the identity   *)
(* is being published, withdrawn or read.  The kernel drops both when      *)
(* their process dies.  daemon.pid.json and snapshot.json are hints: a     *)
(* crash leaves them behind.                                               *)
(*                                                                         *)
(* One element of Instances is one `run` process, its InstanceIdentity.    *)
(* Each command is run once by one element of Stoppers, Starters, Watchers.*)
(***************************************************************************)
EXTENDS Naturals, FiniteSets

CONSTANTS
    Instances,      \* `paneglow run` processes that may ever exist
    Stoppers,       \* `paneglow stop` processes    (_cmd_stop_runtime)
    Starters,       \* `paneglow start` processes   (_cmd_start_locked)
    Watchers,       \* `paneglow status` processes  (_cmd_status)
    Pids,           \* process ids the kernel hands out
    NoOne,          \* no holder, no identity, no child
    Free,           \* a pid no process has
    Foreign,        \* a pid that belongs to a process that is not a daemon
    MaxCrashes,     \* bound: how many daemons may be killed without teardown
    LockMayFail     \* whether the blocking re-acquisition may raise

Clients == Stoppers \cup Starters \cup Watchers

ASSUME ProcessesAssumption ==
    /\ Stoppers \cap Starters = {}
    /\ Stoppers \cap Watchers = {}
    /\ Starters \cap Watchers = {}
    /\ Instances \cap Clients = {}
    /\ NoOne \notin Instances \cup Clients
ASSUME PidsAssumption == Free \notin Instances /\ Foreign \notin Instances
ASSUME BoundsAssumption == MaxCrashes \in Nat /\ LockMayFail \in BOOLEAN

VARIABLES
    transition,     \* holder of identity-transition.lock
    lifetime,       \* holder of daemon.lock
    pidFile,        \* the instance daemon.pid.json names
    snapFile,       \* snapshot.json: whose, running, and generation >= 1
    dpc,            \* where each daemon stands in _cmd_run
    stopEvent,      \* each daemon's stop_event
    pid,            \* the process id each instance runs under
    who,            \* which process has each pid now
    killed,         \* instances that died without their teardown
    faulted,        \* which teardown steps have ever raised
    cpc,            \* where each command stands
    seen,           \* the identity a command read from the pid file
    verdict,        \* what its query concluded
    child,          \* the daemon a start command spawned
    goneAtTake      \* instances already dead when it took the transition lock

locks   == <<transition, lifetime>>
files   == <<pidFile, snapFile>>
daemon  == <<dpc, stopEvent, pid, who, killed>>
client  == <<cpc, seen, verdict, child, goneAtTake>>
vars    == <<locks, files, daemon, faulted, client>>

DaemonPcs == {"new", "takeTransition", "takeLifetime", "refused", "writePid",
              "writeSnap", "open", "loop", "tick", "takeBack", "writeStopped",
              "removePid", "freeLifetime", "freeTransition", "dead"}
ClientPcs == {"idle", "glance", "unglance", "take", "probe", "unprobe",
              "readPid", "readSnap", "check", "term", "drop", "spawn", "poll",
              "deadline", "wait", "unwait", "done"}
Verdicts  == {"none", "busy", "absent", "bad", "match", "sent", "stopped",
              "timedOut", "childDied"}
NoSnap    == [inst |-> NoOne, running |-> FALSE, ticked |-> FALSE]
Snaps     == [inst : Instances \cup {NoOne}, running : BOOLEAN, ticked : BOOLEAN]

\* The pcs at which a daemon owns each lock, and at which SIGTERM may find the
\* handler installed or not (both while it is being installed or removed).
HasTransition == {"takeLifetime", "refused", "writePid", "writeSnap", "open",
                  "writeStopped", "removePid", "freeLifetime", "freeTransition"}
HasLifetime   == {"writePid", "writeSnap", "open", "loop", "tick", "takeBack",
                  "writeStopped", "removePid", "freeLifetime"}
Handled       == HasLifetime
Unhandled     == {"takeTransition", "takeLifetime", "refused", "writePid",
                  "freeLifetime", "freeTransition"}
Serving       == {"loop", "tick", "takeBack"}
Alive         == DaemonPcs \ {"new", "dead"}

TypeOK ==
    /\ transition \in Instances \cup Clients \cup {NoOne}
    /\ lifetime \in Instances \cup Clients \cup {NoOne}
    /\ pidFile \in Instances \cup {NoOne}
    /\ snapFile \in Snaps
    /\ dpc \in [Instances -> DaemonPcs]
    /\ stopEvent \in [Instances -> BOOLEAN]
    /\ pid \in [Instances -> Pids \cup {NoOne}]
    /\ who \in [Pids -> Instances \cup {Free, Foreign}]
    /\ killed \in SUBSET Instances
    /\ faulted \in SUBSET {"lock", "snapshot", "pid"}
    /\ cpc \in [Clients -> ClientPcs]
    /\ seen \in [Clients -> Instances \cup {NoOne}]
    /\ verdict \in [Clients -> Verdicts]
    /\ child \in [Clients -> Instances \cup {NoOne}]
    /\ goneAtTake \in [Clients -> SUBSET Instances]

Init ==
    /\ transition = NoOne
    /\ lifetime = NoOne
    /\ pidFile = NoOne
    /\ snapFile = NoSnap
    /\ dpc = [i \in Instances |-> "new"]
    /\ stopEvent = [i \in Instances |-> FALSE]
    /\ pid = [i \in Instances |-> NoOne]
    /\ who = [p \in Pids |-> Free]
    /\ killed = {}
    /\ faulted = {}
    /\ cpc = [c \in Clients |-> "idle"]
    /\ seen = [c \in Clients |-> NoOne]
    /\ verdict = [c \in Clients |-> "none"]
    /\ child = [c \in Clients |-> NoOne]
    /\ goneAtTake = [c \in Clients |-> {}]

-----------------------------------------------------------------------------
(* The kernel: process creation, death, pid reuse, signal delivery.         *)

Released(lock, i) == IF lock = i THEN NoOne ELSE lock

\* A dead child keeps its pid until the start command that spawned it polls it
\* or ends.
Reusable(p) ==
    /\ who[p] = Free
    /\ \A c \in Starters :
          child[c] # NoOne /\ cpc[c] # "done" => pid[child[c]] # p

\* A daemon process appears under a pid nobody has.
Boot(i) ==
    /\ dpc[i] = "new"
    /\ \E p \in Pids :
          /\ Reusable(p)
          /\ who' = [who EXCEPT ![p] = i]
          /\ pid' = [pid EXCEPT ![i] = p]
    /\ dpc' = [dpc EXCEPT ![i] = "takeTransition"]

\* The process ends: its pid is free again.
Gone(i) ==
    /\ dpc' = [dpc EXCEPT ![i] = "dead"]
    /\ who' = [who EXCEPT ![pid[i]] = Free]

\* It ends without its teardown: the kernel drops its locks, files stay.
Killed(i) ==
    /\ Gone(i)
    /\ killed' = killed \cup {i}
    /\ transition' = Released(transition, i)
    /\ lifetime' = Released(lifetime, i)

\* SIGTERM sets stop_event where the handler is installed and kills elsewhere.
Sigterm(i) ==
    \/ /\ dpc[i] \in Handled
       /\ stopEvent' = [stopEvent EXCEPT ![i] = TRUE]
       /\ UNCHANGED <<locks, dpc, pid, who, killed>>
    \/ /\ dpc[i] \in Unhandled
       /\ Killed(i)
       /\ UNCHANGED <<stopEvent, pid>>
    \/ /\ dpc[i] \notin Alive
       /\ UNCHANGED <<locks, daemon>>

Launch(i) ==
    /\ Boot(i)
    /\ UNCHANGED <<locks, files, stopEvent, killed, faulted, client>>

Crash(i) ==
    /\ dpc[i] \in Alive
    /\ Cardinality(killed) < MaxCrashes
    /\ Killed(i)
    /\ UNCHANGED <<files, stopEvent, pid, faulted, client>>

ReusePid(p) ==
    /\ \/ Reusable(p) /\ who' = [who EXCEPT ![p] = Foreign]
       \/ who[p] = Foreign /\ who' = [who EXCEPT ![p] = Free]
    /\ UNCHANGED <<locks, files, dpc, stopEvent, pid, killed, faulted, client>>

-----------------------------------------------------------------------------
(* _cmd_run                                                                 *)

DaemonGoes(i, next) == dpc' = [dpc EXCEPT ![i] = next]
DaemonKeeps == UNCHANGED <<pid, who, killed, client>>

\* Every way out of the try block sets stop_event before the teardown.
Steps(i, next) == DaemonGoes(i, next) /\ UNCHANGED stopEvent
Fails(i, next) == DaemonGoes(i, next) /\ stopEvent' = [stopEvent EXCEPT ![i] = TRUE]

\* transition.acquire(), non-blocking: a lock that is busy, or that cannot be
\* used, ends the process.
TakeTransition(i) ==
    /\ dpc[i] = "takeTransition"
    /\ \/ /\ transition = NoOne
          /\ transition' = i
          /\ DaemonGoes(i, "takeLifetime")
          /\ UNCHANGED who
       \/ Gone(i) /\ UNCHANGED transition
    /\ UNCHANGED <<lifetime, files, stopEvent, pid, killed, faulted, client>>

\* lifetime.acquire(), non-blocking: refused when busy ("daemon is already
\* running") or when the lock file cannot be used.
TakeLifetime(i) ==
    /\ dpc[i] = "takeLifetime"
    /\ \/ lifetime = NoOne /\ lifetime' = i /\ Steps(i, "writePid")
       \/ Steps(i, "refused") /\ UNCHANGED lifetime
    /\ DaemonKeeps
    /\ UNCHANGED <<transition, files, faulted>>

RefuseToRun(i) ==
    /\ dpc[i] = "refused"
    /\ transition' = NoOne
    /\ Gone(i)
    /\ UNCHANGED <<lifetime, files, stopEvent, pid, killed, faulted, client>>

\* Mutant: the transition lock is let go before the snapshot is there.
WritePidUnlocked(i) ==
    /\ dpc[i] = "writePid"
    /\ pidFile' = i
    /\ transition' = NoOne
    /\ Steps(i, "writeSnap")
    /\ DaemonKeeps
    /\ UNCHANGED <<lifetime, snapFile, faulted>>

\* _atomic_write_bytes may raise before or after its os.replace took effect.
\* A raising write goes straight to the teardown, transition lock still held.
WritePid(i) ==
    /\ dpc[i] = "writePid"
    /\ \/ pidFile' = i /\ Steps(i, "writeSnap")
       \/ pidFile' \in {pidFile, i} /\ Fails(i, "writeStopped")
    /\ DaemonKeeps
    /\ UNCHANGED <<locks, snapFile, faulted>>

\* Mutant: the snapshot names the process, not the instance.
SnapshotByPid(i, ticked) == [inst |-> pid[i], running |-> TRUE, ticked |-> ticked]

Snapshot(i, ticked) == [inst |-> i, running |-> TRUE, ticked |-> ticked]

WriteSnap(i) ==
    /\ dpc[i] = "writeSnap"
    /\ \/ snapFile' = Snapshot(i, FALSE) /\ Steps(i, "open")
       \/ snapFile' \in {snapFile, Snapshot(i, FALSE)} /\ Fails(i, "writeStopped")
    /\ DaemonKeeps
    /\ UNCHANGED <<locks, pidFile, faulted>>

OpenIdentity(i) ==
    /\ dpc[i] = "open"
    /\ transition' = NoOne
    /\ Steps(i, "loop")
    /\ DaemonKeeps
    /\ UNCHANGED <<lifetime, files, faulted>>

\* Mutant: the loop does not look at stop_event.
LoopRegardless(i) ==
    /\ dpc[i] = "loop"
    /\ Steps(i, "tick")
    /\ DaemonKeeps
    /\ UNCHANGED <<locks, files, faulted>>

\* while not stop_event.is_set(): tick.  A config or runtime error leaves it.
Loop(i) ==
    /\ dpc[i] = "loop"
    /\ \/ ~stopEvent[i] /\ Steps(i, "tick")
       \/ Fails(i, "takeBack")
    /\ DaemonKeeps
    /\ UNCHANGED <<locks, files, faulted>>

\* The tick ends and publishes, whether or not a stop arrived meanwhile.
Publish(i) ==
    /\ dpc[i] = "tick"
    /\ \/ snapFile' = Snapshot(i, TRUE) /\ Steps(i, "loop")
       \/ snapFile' \in {snapFile, Snapshot(i, TRUE)} /\ Fails(i, "takeBack")
    /\ DaemonKeeps
    /\ UNCHANGED <<locks, pidFile, faulted>>

\* Mutant: the teardown does not wait for whoever reads the identity.
TakeNothingBack(i) ==
    /\ dpc[i] = "takeBack"
    /\ Steps(i, "writeStopped")
    /\ DaemonKeeps
    /\ UNCHANGED <<locks, files, faulted>>

\* transition.acquire(blocking=True); if it raises the teardown runs unlocked.
TakeBack(i) ==
    /\ dpc[i] = "takeBack"
    /\ \/ /\ transition = NoOne
          /\ transition' = i
          /\ UNCHANGED faulted
       \/ /\ LockMayFail
          /\ faulted' = faulted \cup {"lock"}
          /\ UNCHANGED transition
    /\ Steps(i, "writeStopped")
    /\ DaemonKeeps
    /\ UNCHANGED <<lifetime, files>>

\* Mutant: the last snapshot still says running.
WriteRunning(i) ==
    /\ dpc[i] = "writeStopped"
    /\ snapFile' = [snapFile EXCEPT !.inst = i]
    /\ Steps(i, "removePid")
    /\ DaemonKeeps
    /\ UNCHANGED <<locks, pidFile, faulted>>

\* runtime.close() and the final snapshot; either may raise.
WriteStopped(i) ==
    /\ dpc[i] = "writeStopped"
    /\ LET stopped == [snapFile EXCEPT !.inst = i, !.running = FALSE]
       IN \/ snapFile' = stopped /\ UNCHANGED faulted
          \/ /\ snapFile' \in {snapFile, stopped}
             /\ faulted' = faulted \cup {"snapshot"}
    /\ Steps(i, "removePid")
    /\ DaemonKeeps
    /\ UNCHANGED <<locks, pidFile>>

\* _remove_pid_if_owned: only a file that names this instance goes.
RemovePid(i) ==
    /\ dpc[i] = "removePid"
    /\ \/ /\ pidFile' = IF pidFile = i THEN NoOne ELSE pidFile
          /\ UNCHANGED faulted
       \/ faulted' = faulted \cup {"pid"} /\ UNCHANGED pidFile
    /\ Steps(i, "freeLifetime")
    /\ DaemonKeeps
    /\ UNCHANGED <<locks, snapFile>>

FreeLifetime(i) ==
    /\ dpc[i] = "freeLifetime"
    /\ lifetime' = NoOne
    /\ Steps(i, "freeTransition")
    /\ DaemonKeeps
    /\ UNCHANGED <<transition, files, faulted>>

FreeTransition(i) ==
    /\ dpc[i] = "freeTransition"
    /\ transition' = Released(transition, i)
    /\ Gone(i)
    /\ UNCHANGED <<lifetime, files, stopEvent, pid, killed, faulted, client>>

Daemon(i) ==
    \/ TakeTransition(i) \/ TakeLifetime(i) \/ RefuseToRun(i)
    \/ WritePid(i) \/ WriteSnap(i) \/ OpenIdentity(i)
    \/ Loop(i) \/ Publish(i) \/ TakeBack(i)
    \/ WriteStopped(i) \/ RemovePid(i) \/ FreeLifetime(i) \/ FreeTransition(i)

-----------------------------------------------------------------------------
(* The commands.  All three read the identity the same way: take the        *)
(* transition lock, probe the lifetime lock, read the two files, drop.      *)

ClientGoes(c, next) == cpc' = [cpc EXCEPT ![c] = next]
Concludes(c, v)     == verdict' = [verdict EXCEPT ![c] = v]
ClientOnly == UNCHANGED <<files, daemon, faulted>>

\* _lock_is_held: the probe TAKES a free lock, and only then lets it go.
ProbeLifetime(c, whenHeld, whenTaken) ==
    /\ IF lifetime = NoOne
         THEN lifetime' = c /\ ClientGoes(c, whenTaken)
         ELSE ClientGoes(c, whenHeld) /\ UNCHANGED lifetime
    /\ UNCHANGED <<transition, seen, verdict, child, goneAtTake>>
    /\ ClientOnly

ReleaseProbe(c, next, v) ==
    /\ lifetime' = NoOne
    /\ ClientGoes(c, next)
    /\ Concludes(c, v)
    /\ UNCHANGED <<transition, seen, child, goneAtTake>>
    /\ ClientOnly

Begin(c) ==
    /\ cpc[c] = "idle"
    /\ ClientGoes(c, IF c \in Watchers THEN "glance" ELSE "take")
    /\ UNCHANGED <<locks, seen, verdict, child, goneAtTake>>
    /\ ClientOnly

\* status probes once before, and without, the transition lock.
Glance(c)   == cpc[c] = "glance" /\ ProbeLifetime(c, "take", "unglance")
Unglance(c) == cpc[c] = "unglance" /\ ReleaseProbe(c, "done", "absent")

\* A busy transition lock ends the command; a waiting start tries again.
TakeQuery(c) ==
    /\ cpc[c] = "take"
    /\ \/ /\ transition = NoOne
          /\ transition' = c
          /\ ClientGoes(c, "probe")
          /\ goneAtTake' = [goneAtTake EXCEPT ![c] =
                              {i \in Instances : dpc[i] = "dead"}]
          /\ UNCHANGED verdict
       \/ /\ transition # NoOne
          /\ ClientGoes(c, IF child[c] = NoOne THEN "done" ELSE "deadline")
          /\ Concludes(c, "busy")
          /\ UNCHANGED <<transition, goneAtTake>>
    /\ UNCHANGED <<lifetime, seen, child>>
    /\ ClientOnly

Probe(c)   == cpc[c] = "probe" /\ ProbeLifetime(c, "readPid", "unprobe")
Unprobe(c) == cpc[c] = "unprobe" /\ ReleaseProbe(c, "drop", "absent")

ReadPid(c) ==
    /\ cpc[c] = "readPid"
    /\ seen' = [seen EXCEPT ![c] = pidFile]
    /\ IF pidFile = NoOne
         THEN ClientGoes(c, "drop") /\ Concludes(c, "bad")
         ELSE ClientGoes(c, "readSnap") /\ UNCHANGED verdict
    /\ UNCHANGED <<locks, child, goneAtTake>>
    /\ ClientOnly

\* The snapshot must be running and name the same instance; start also wants
\* a completed tick and, once it has a child, that child's pid.
Matches(c) ==
    /\ snapFile.running
    /\ snapFile.inst = seen[c]
    /\ c \in Starters => snapFile.ticked
    /\ child[c] # NoOne => pid[seen[c]] = pid[child[c]]

\* Only stop reads with allow_stale, so for the others any read may be stale.
ReadSnap(c) ==
    /\ cpc[c] = "readSnap"
    /\ \/ /\ Matches(c)
          /\ ClientGoes(c, IF c \in Stoppers THEN "check" ELSE "drop")
          /\ Concludes(c, "match")
       \/ /\ ~Matches(c) \/ c \notin Stoppers
          /\ ClientGoes(c, "drop")
          /\ Concludes(c, "bad")
    /\ UNCHANGED <<locks, seen, child, goneAtTake>>
    /\ ClientOnly

\* os.kill(pid, 0)
CheckAlive(c) ==
    /\ cpc[c] = "check"
    /\ IF who[pid[seen[c]]] = Free
         THEN ClientGoes(c, "drop") /\ Concludes(c, "bad")
         ELSE ClientGoes(c, "term") /\ UNCHANGED verdict
    /\ UNCHANGED <<locks, seen, child, goneAtTake>>
    /\ ClientOnly

\* os.kill(pid, SIGTERM) reaches whichever process has the pid now.
Term(c) ==
    /\ cpc[c] = "term"
    /\ \/ /\ who[pid[seen[c]]] \in Instances
          /\ Sigterm(who[pid[seen[c]]])
       \/ /\ who[pid[seen[c]]] \notin Instances
          /\ UNCHANGED <<locks, daemon>>
    /\ ClientGoes(c, "drop")
    /\ Concludes(c, "sent")
    /\ UNCHANGED <<files, faulted, seen, child, goneAtTake>>

AfterQuery(c) ==
    IF verdict[c] = "sent" THEN "wait"
    ELSE IF child[c] # NoOne /\ verdict[c] # "match" THEN "deadline"
    ELSE IF c \in Starters /\ child[c] = NoOne /\ verdict[c] = "absent" THEN "spawn"
    ELSE "done"

DropQuery(c) ==
    /\ cpc[c] = "drop"
    /\ transition' = NoOne
    /\ ClientGoes(c, AfterQuery(c))
    /\ UNCHANGED <<lifetime, seen, verdict, child, goneAtTake>>
    /\ ClientOnly

Spawn(c) ==
    /\ cpc[c] = "spawn"
    /\ \E i \in Instances :
          /\ Boot(i)
          /\ child' = [child EXCEPT ![c] = i]
    /\ ClientGoes(c, "poll")
    /\ UNCHANGED <<locks, files, stopEvent, killed, faulted, seen, verdict, goneAtTake>>

\* child.poll(): a dead child ends the command, a live one is queried.
PollChild(c) ==
    /\ cpc[c] = "poll"
    /\ IF dpc[child[c]] = "dead"
         THEN ClientGoes(c, "done") /\ Concludes(c, "childDied")
         ELSE ClientGoes(c, "take") /\ UNCHANGED verdict
    /\ UNCHANGED <<locks, seen, child, goneAtTake>>
    /\ ClientOnly

\* Either there is time left, or the child gets SIGTERM.  The child is not
\* reaped since the last poll, so its pid still means the child.
Deadline(c) ==
    /\ cpc[c] = "deadline"
    /\ \/ /\ ClientGoes(c, "poll")
          /\ UNCHANGED <<locks, daemon, verdict>>
       \/ /\ Sigterm(child[c])
          /\ ClientGoes(c, "done")
          /\ Concludes(c, "timedOut")
    /\ UNCHANGED <<files, faulted, seen, child, goneAtTake>>

\* Mutant: stop reports success without waiting for the lifetime lock.
WaitForNothing(c) ==
    /\ cpc[c] = "wait"
    /\ ClientGoes(c, "done")
    /\ Concludes(c, "stopped")
    /\ UNCHANGED <<locks, seen, child, goneAtTake>>
    /\ ClientOnly
\* stop waits for the lifetime lock without the transition lock.
WaitStopped(c) ==
    /\ cpc[c] = "wait"
    /\ lifetime = NoOne
    /\ ProbeLifetime(c, "wait", "unwait")
Unwait(c) == cpc[c] = "unwait" /\ ReleaseProbe(c, "done", "stopped")
WaitTimesOut(c) ==
    /\ cpc[c] = "wait"
    /\ lifetime # NoOne
    /\ ClientGoes(c, "done")
    /\ Concludes(c, "timedOut")
    /\ UNCHANGED <<locks, seen, child, goneAtTake>>
    /\ ClientOnly

Client(c) ==
    \/ Begin(c) \/ Glance(c) \/ Unglance(c) \/ TakeQuery(c)
    \/ Probe(c) \/ Unprobe(c) \/ ReadPid(c) \/ ReadSnap(c)
    \/ CheckAlive(c) \/ Term(c) \/ DropQuery(c)
    \/ Spawn(c) \/ PollChild(c) \/ Deadline(c)
    \/ WaitStopped(c) \/ Unwait(c) \/ WaitTimesOut(c)

Next ==
    \/ \E i \in Instances : Daemon(i) \/ Launch(i) \/ Crash(i)
    \/ \E c \in Clients : Client(c)
    \/ \E p \in Pids : ReusePid(p)

Spec == Init /\ [][Next]_vars

\* A scheduled daemon keeps running, a waiting flock is served when its lock
\* keeps coming free, and a command that holds a lock goes on to release it.
FairSpec ==
    /\ Spec
    /\ \A i \in Instances : WF_vars(Daemon(i)) /\ SF_vars(TakeBack(i))
    /\ \A c \in Clients : WF_vars(Client(c))

-----------------------------------------------------------------------------
(* Properties.                                                              *)

\* "The transition lock makes lifetime-lock acquisition and identity
\* publication one observable step" (cli.py:1586): whoever finds no daemon in
\* transition and one alive finds both files naming that daemon.  (Unless a
\* daemon could not take the transition lock back for its teardown.)
IdentityPublished ==
    "lock" \notin faulted /\ lifetime \in Instances /\ transition \notin Instances
        => /\ pidFile = lifetime
           /\ snapFile.inst = lifetime
           /\ snapFile.running

\* "While stop owns this lock the daemon cannot tear down and release its PID
\* for reuse between kill(pid, 0) and SIGTERM" (cli.py:1611): an identity that
\* stop, start or status accepts belongs to the daemon alive right now, under
\* that pid, for as long as the command acts on it, and start accepts no other
\* daemon than its child.  (Unless that daemon was killed, or a step of some
\* daemon's teardown raised.)
IdentityReadIsCurrent ==
    \A c \in Clients :
        /\ cpc[c] \in {"check", "term", "drop"}
        /\ verdict[c] = "match"
        /\ seen[c] \notin killed
        /\ faulted = {}
        => /\ lifetime = seen[c]
           /\ dpc[seen[c]] \in Serving
           /\ who[pid[seen[c]]] = seen[c]
           /\ child[c] # NoOne => seen[c] = child[c]

\* "stopped" is only reported (cli.py:2365) once the daemon that was signalled
\* has finished its teardown, whatever else takes the lifetime lock meanwhile.
StoppedMeansGone ==
    \A c \in Clients :
        verdict[c] = "stopped" => dpc[seen[c]] \in {"freeTransition", "dead"}

\* A daemon that exits by itself leaves no trace, even if its start-up broke off
\* half-way or another step of its teardown raised, the wait for the lock
\* included (cli.py:1608-1660): once nobody is up, an identity left in a file
\* belongs to a daemon that was killed, or a write of that very file failed.
CleanShutdown ==
    lifetime \notin Instances
        => /\ pidFile \in killed \cup {NoOne} \/ "pid" \in faulted
           /\ \/ snapFile.running => snapFile.inst \in killed
              \/ "snapshot" \in faulted

\* A daemon that was told to stop, or failed, is eventually gone, however
\* often commands take the transition lock it needs for its teardown.
StopIsCarriedOut ==
    \A i \in Instances : stopEvent[i] ~> dpc[i] = "dead"

\* "PID and runtime snapshot files are [...] hints; the lock is the authority
\* for whether an instance is alive" (cli.py:7-9): stop should not take for
\* its target an instance that was dead before stop took the transition lock.
StopNeverTargetsTheDead ==
    \A c \in Clients : cpc[c] = "term" => seen[c] \notin goneAtTake[c]
=============================================================================
