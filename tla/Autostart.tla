---- MODULE Autostart ----
(***************************************************************************)
(* One daemon with two possible owners: launchd, through the LaunchAgent    *)
(* that `paneglow autostart install` writes and loads, or nobody, after a   *)
(* manual start.  install, uninstall, start and stop take the installer     *)
(* lock and then go through manifest, launchctl and daemon one call at a    *)
(* time; any call may fail or time out, with or without its effect, and a   *)
(* failed install or uninstall rolls back.                                  *)
(*                                                                          *)
(* A manifest is known by its classification (inspect_manifest).  The       *)
(* daemon is the process holding the lifetime lock; its insides are those   *)
(* of Lifecycle.  A command given up by its caller, and so releasing the    *)
(* lock half-way, is a crash.                                               *)
(***************************************************************************)
EXTENDS Naturals, FiniteSets

CONSTANTS
    Commands,      \* processes that run one command after the other
    NoOne,         \* nobody holds the installer lock
    MaxCrashes,    \* bound: commands and daemons that die
    MaxOutside     \* bound: plists put there by somebody else

ASSUME NoOneAssumption == NoOne \notin Commands
ASSUME BoundsAssumption == MaxCrashes \in Nat /\ MaxOutside \in Nat

VARIABLES
    pc, kind,      \* where each command is, and which it is
    found,         \* the manifest it found (`existing`)
    wasLoaded,     \* `previous_loaded`
    wasManual,     \* `manual_was_running`
    installLock,   \* who holds the installer lock
    manifest,      \* the plist
    job,           \* what launchd makes of it
    owner, phase,  \* whose process holds the lifetime lock, how far it is
    told,          \* that process has been sent SIGTERM
    children,      \* processes of `run` before they try the lifetime lock
    crashes, outside

locals == <<kind, found, wasLoaded, wasManual>>
daemon == <<owner, phase, told, children>>
bounds == <<crashes, outside>>
vars   == <<pc, locals, installLock, manifest, job, daemon, bounds>>

Kinds    == {"install", "uninstall", "start", "stop"}
Owned    == {"current", "recognized"}
Statuses == Owned \cup {"missing", "unknown"}

\* wanted: launchd starts it, again and again if it must; idle: it exited with
\* success and stays down (KeepAlive: SuccessfulExit = false).
Jobs   == {"unloaded", "wanted", "running", "idle"}
Loaded == job # "unloaded"

Phases == {"none", "locking", "published", "ready", "closing"}
Held   == phase # "none"                    \* _lock_is_held
Ready  == phase = "ready"                   \* _service_ready

\* child: started by the command under way; manual: any other that a command
\* has seen; bare: a `run` that no command accounts for, given by hand or left
\* by a start that died before its child came to the lock.
Owners == {"none", "manual", "child", "bare", "service"}

Working  == {"inspect", "bootout", "signal", "waitGone", "check", "write",
             "bootstrap", "kickstart", "waitReady", "spawn", "waitChild",
             "remove", "giveUp", "giveUpWait"}
Rollback == {"undoBootout", "undoWait", "undoManifest", "undoWrite",
             "undoBootstrap", "undoKickstart", "undoReady", "undoStart", "undoSpawn",
             "undoWaitChild"}
Verdicts == {"done", "unchanged", "restored", "unrestored", "failed"}
PCs      == {"idle"} \cup Working \cup Rollback \cup Verdicts

Init ==
    /\ pc = [c \in Commands |-> "idle"]
    /\ kind = [c \in Commands |-> "install"]
    /\ found = [c \in Commands |-> "missing"]
    /\ wasLoaded = [c \in Commands |-> FALSE]
    /\ wasManual = [c \in Commands |-> FALSE]
    /\ installLock = NoOne
    /\ manifest \in Statuses
    /\ \/ job = "unloaded" /\ owner = "none" /\ phase = "none"
       \/ job = "unloaded" /\ owner = "manual" /\ phase = "ready"
       \/ manifest \in Owned /\ job = "running" /\ owner = "service"
          /\ phase = "ready"
    /\ told = FALSE /\ children = {}
    /\ crashes = 0 /\ outside = 0

(* -------------------------- daemon and launchd -------------------------- *)

commandVars == <<pc, locals, installLock, manifest>>

\* launchd starts the job's process.  While another daemon has the lifetime
\* lock it exits with an error and launchd goes on wanting it.
Respawn ==
    /\ job = "wanted" /\ ~Held
    /\ job' = "running"
    /\ owner' = "service" /\ phase' = "locking" /\ told' = FALSE
    /\ UNCHANGED <<children, commandVars, bounds>>

\* `run` outside launchd tries the lifetime lock and exits if it is taken.
ChildStarts ==
    \E ch \in children :
        /\ children' = children \ {ch}
        /\ IF Held THEN UNCHANGED <<owner, phase, told>>
           ELSE owner' = ch /\ phase' = "locking" /\ told' = FALSE
        /\ UNCHANGED <<job, commandVars, bounds>>

RunByHand ==
    /\ children' = children \cup {"bare"}
    /\ UNCHANGED <<owner, phase, told, job, commandVars, bounds>>

\* A daemon closes when it has been told to or when it fails.
Progress ==
    /\ \/ phase = "locking" /\ phase' = "published"
       \/ phase = "published" /\ ~told /\ phase' = "ready"
       \/ phase \in {"published", "ready"} /\ phase' = "closing"
    /\ UNCHANGED <<owner, told, children, job, commandVars, bounds>>

\* The lock is free again.  A service that exits with success stays down, one
\* that fails is started again.
Gone(again) ==
    /\ owner' = "none" /\ phase' = "none" /\ told' = FALSE
    /\ job' \in IF owner = "service" /\ job = "running" THEN again ELSE {job}
    /\ UNCHANGED <<children, commandVars>>

Exit ==
    /\ phase = "closing"
    /\ Gone({"idle", "wanted"})
    /\ UNCHANGED bounds

Die ==
    /\ Held
    /\ crashes < MaxCrashes
    /\ crashes' = crashes + 1
    /\ Gone({"wanted"})
    /\ UNCHANGED outside

\* launchd kills what it booted out after ExitTimeOut.
ExitTimeOut ==
    /\ owner = "service" /\ told /\ job # "running"
    /\ Gone({job})
    /\ UNCHANGED bounds

PutUnknownManifest ==
    /\ outside < MaxOutside
    /\ outside' = outside + 1
    /\ manifest' = "unknown"
    /\ UNCHANGED <<pc, locals, installLock, job, daemon, crashes>>

(* ------------------------- what a command calls ------------------------- *)

Go(c, from, to) == pc[c] = from /\ pc' = [pc EXCEPT ![c] = to]

\* A launchctl call: it works, or is reported as failed with or without having
\* worked (it is given ten seconds).
Launchctl(c, from, works, effect, same, ok, bad) ==
    \/ Go(c, from, ok) /\ works /\ effect
    \/ Go(c, from, bad) /\ works /\ effect
    \/ Go(c, from, bad) /\ same

SameJob == UNCHANGED <<job, told>>

BootoutCall(c, from, ok, bad) ==
    /\ Launchctl(c, from, Loaded,
                 /\ job' = "unloaded"
                 /\ told' = (told \/ job = "running"),
                 SameJob, ok, bad)
    /\ UNCHANGED <<owner, phase, children, locals, installLock, manifest, bounds>>

BootstrapCall(c, from, ok, bad) ==
    /\ Launchctl(c, from, ~Loaded /\ manifest # "missing",
                 job' = "wanted" /\ UNCHANGED told, SameJob, ok, bad)
    /\ UNCHANGED <<owner, phase, children, locals, installLock, manifest, bounds>>

KickstartCall(c, from, ok, bad) ==
    /\ Launchctl(c, from, Loaded,
                 /\ job' = IF job = "idle" THEN "wanted" ELSE job
                 /\ UNCHANGED told,
                 SameJob, ok, bad)
    /\ UNCHANGED <<owner, phase, children, locals, installLock, manifest, bounds>>

\* Waiting for a condition, at most until the timeout.
Await(c, from, condition, ok, bad) ==
    /\ \/ Go(c, from, ok) /\ condition
       \/ Go(c, from, bad)
    /\ UNCHANGED <<locals, installLock, manifest, job, daemon, bounds>>

\* atomic_write_manifest or remove_manifest: reported as failed with or
\* without its effect.
Replace(c, from, value, ok, bad) ==
    /\ \/ Go(c, from, ok) /\ manifest' = value
       \/ Go(c, from, bad) /\ manifest' \in {value, manifest}
    /\ UNCHANGED <<locals, installLock, job, daemon, bounds>>

(* ------------------------------ commands -------------------------------- *)

\* A mutant: the installer lock is not tried.
BeginRegardless(c) ==
    /\ pc[c] = "idle"
    /\ installLock' = c
    /\ pc' = [pc EXCEPT ![c] = "inspect"]
    /\ \E k \in Kinds : kind' = [kind EXCEPT ![c] = k]
    /\ UNCHANGED <<found, wasLoaded, wasManual, manifest, job, daemon, bounds>>

\* Entering and leaving the installer lock; a command that finds it taken, or
\* that cannot get as far, has no effect and is left out.
Begin(c) ==
    /\ pc[c] = "idle" /\ installLock = NoOne
    /\ installLock' = c
    /\ pc' = [pc EXCEPT ![c] = "inspect"]
    /\ \E k \in Kinds : kind' = [kind EXCEPT ![c] = k]
    /\ UNCHANGED <<found, wasLoaded, wasManual, manifest, job, daemon, bounds>>

\* The command is over; a daemon it started is like any other from now on.
Leave(c, remaining) ==
    /\ installLock' = NoOne
    /\ pc' = [pc EXCEPT ![c] = "idle"]
    /\ kind' = [kind EXCEPT ![c] = "install"]
    /\ found' = [found EXCEPT ![c] = "missing"]
    /\ wasLoaded' = [wasLoaded EXCEPT ![c] = FALSE]
    /\ wasManual' = [wasManual EXCEPT ![c] = FALSE]
    /\ owner' = IF owner = "child" THEN "manual" ELSE owner
    /\ children' = remaining
    /\ UNCHANGED <<phase, told, manifest, job, outside>>

End(c) ==
    /\ pc[c] \in Verdicts
    /\ Leave(c, children)
    /\ UNCHANGED crashes

CrashCommand(c) ==
    /\ pc[c] \in Working \cup Rollback
    /\ crashes < MaxCrashes
    /\ crashes' = crashes + 1
    /\ Leave(c, {"bare" : ch \in children})

\* What the command finds: manifest, launchd, and for a manual daemon the lock.
Remember(c) ==
    /\ found' = [found EXCEPT ![c] = manifest]
    /\ wasLoaded' = [wasLoaded EXCEPT ![c] = Loaded]
    /\ wasManual' = [wasManual EXCEPT ![c] = ~Loaded /\ Held]
    /\ owner' = IF owner = "bare" /\ ~Loaded THEN "manual" ELSE owner
    /\ UNCHANGED <<phase, told, children, kind, installLock, manifest, job, bounds>>

\* A mutant: whoever holds the lifetime lock is signalled.
StopStepSignal(next) == IF Held THEN "signal" ELSE next

\* A mutant: a loaded job is not looked at.
StopStepManual(next) == IF Held /\ ~Loaded THEN "signal" ELSE next

\* How the old owner is stopped: launchd's by bootout, a manual one by signal.
StopStep(next) == IF Loaded THEN "bootout" ELSE IF Held THEN "signal" ELSE next

\* A mutant: a current manifest and any daemon pass for an installed service.
InspectInstallByManifest(c) ==
    /\ kind[c] = "install"
    /\ \/ /\ manifest = "current" /\ Ready
          /\ Go(c, "inspect", "done")
       \/ /\ manifest \in Owned \/ (manifest = "missing" /\ ~Loaded)
          /\ Go(c, "inspect", StopStep("check"))
    /\ Remember(c)

\* A ready daemon may go unseen, and is installed anew.
InspectInstall(c) ==
    /\ kind[c] = "install"
    /\ \/ Go(c, "inspect", "unchanged")
       \/ /\ manifest = "current" /\ Loaded /\ Ready
          /\ Go(c, "inspect", "done")
       \/ /\ manifest \in Owned \/ (manifest = "missing" /\ ~Loaded)
          /\ Go(c, "inspect", StopStep("check"))
    /\ Remember(c)

\* A daemon lock that cannot be inspected is rolled back from, with no daemon
\* known; uninstall has touched nothing yet and gives up.
InspectFails(c) ==
    /\ kind[c] = "install" /\ manifest # "unknown" /\ ~Loaded
    /\ Go(c, "inspect", "undoBootout")
    /\ found' = [found EXCEPT ![c] = manifest]
    /\ wasLoaded' = [wasLoaded EXCEPT ![c] = FALSE]
    /\ wasManual' = [wasManual EXCEPT ![c] = FALSE]
    /\ UNCHANGED <<kind, installLock, manifest, job, daemon, bounds>>

InspectUninstall(c) ==
    /\ kind[c] = "uninstall"
    /\ \/ Go(c, "inspect", "unchanged")
       \/ /\ manifest = "missing" /\ ~Loaded
          /\ Go(c, "inspect", "done")
       \/ /\ manifest \in Owned
          /\ Go(c, "inspect", StopStep("remove"))
    /\ Remember(c)

InspectStart(c) ==
    /\ kind[c] = "start"
    /\ \/ Go(c, "inspect", "failed")
       \/ Ready /\ Go(c, "inspect", "done")
       \/ /\ ~Held
          /\ \/ manifest = "missing" /\ ~Loaded /\ Go(c, "inspect", "spawn")
             \/ /\ manifest = "current"
                /\ Go(c, "inspect", IF Loaded THEN "kickstart" ELSE "bootstrap")
    /\ Remember(c)

InspectStop(c) ==
    /\ kind[c] = "stop"
    /\ \/ Go(c, "inspect", "failed")
       \/ /\ manifest \in Owned \/ (manifest = "missing" /\ ~Loaded)
          /\ Go(c, "inspect", StopStep("done"))
    /\ Remember(c)

\* Where a command goes when a call failed.
Bad(c) ==
    CASE kind[c] = "install"   -> "undoBootout"
      [] kind[c] = "uninstall" -> "undoManifest"
      [] OTHER                 -> "failed"

Bootout(c) == BootoutCall(c, "bootout", "waitGone", Bad(c))

\* _cmd_stop_runtime: an identity that can be read is signalled, a free lock is
\* a success, anything else is refused.
Signal(c) ==
    /\ \/ /\ phase \in {"published", "ready"}
          /\ Go(c, "signal", "waitGone")
          /\ told' = TRUE
       \/ ~Held /\ Go(c, "signal", "waitGone") /\ UNCHANGED told
       \/ Go(c, "signal", Bad(c)) /\ UNCHANGED told
    /\ UNCHANGED <<owner, phase, children, locals, installLock, manifest, job,
                   bounds>>

\* A mutant: nobody waits for the daemon to go.
WaitForNothing(c) ==
    Await(c, "waitGone", TRUE,
          CASE kind[c] = "install"   -> "check"
            [] kind[c] = "uninstall" -> "remove"
            [] OTHER                 -> "done",
          Bad(c))

WaitGone(c) ==
    Await(c, "waitGone", ~Held,
          CASE kind[c] = "install"   -> "check"
            [] kind[c] = "uninstall" -> "remove"
            [] OTHER                 -> "done",
          Bad(c))

\* install goes on only with the manifest it found.
Check(c) == Await(c, "check", manifest = found[c], "write", Bad(c))

Write(c) == Replace(c, "write", "current", "bootstrap", Bad(c))

Bootstrap(c) == BootstrapCall(c, "bootstrap", "kickstart", Bad(c))

\* From here on start has touched the job and takes it down again on failure.
GiveUp(c) == IF kind[c] = "start" THEN "giveUp" ELSE Bad(c)

Kickstart(c) == KickstartCall(c, "kickstart", "waitReady", GiveUp(c))

WaitReady(c) == Await(c, "waitReady", Ready, "done", GiveUp(c))

\* `service.loaded()` cannot say no here, because nobody else unloads the job.
GiveUpStart(c) == BootoutCall(c, "giveUp", "giveUpWait", "failed")

GiveUpWait(c) == Await(c, "giveUpWait", ~Held, "failed", "failed")

\* remove_manifest unlinks only what was inspected.
Remove(c) ==
    \/ manifest = found[c] /\ Replace(c, "remove", "missing", "done", Bad(c))
    \/ Await(c, "remove", FALSE, "done", Bad(c))

\* The detached daemon of start, also as the last step of a rollback.
SpawnChild(c, from, ok, bad) ==
    /\ \/ Go(c, from, ok) /\ children' = children \cup {"child"}
       \/ Go(c, from, bad) /\ UNCHANGED children
    /\ UNCHANGED <<owner, phase, told, locals, installLock, manifest, job, bounds>>

\* It is accepted once it is ready; if that takes too long it is signalled.
AwaitChild(c, from, ok, bad) ==
    /\ \/ /\ Go(c, from, ok)
          /\ owner = "child" /\ Ready
          /\ UNCHANGED <<children, told>>
       \/ /\ Go(c, from, bad)
          /\ children' = children \ {"child"}
          /\ told' = (told \/ owner = "child")
    /\ UNCHANGED <<owner, phase, locals, installLock, manifest, job, bounds>>

Spawn(c)     == SpawnChild(c, "spawn", "waitChild", "failed")
WaitChild(c) == AwaitChild(c, "waitChild", "done", "failed")

(* ------------------------------- rollback ------------------------------- *)

\* A mutant: the rollback leaves the job loaded.
UndoBootoutNever(c) ==
    Await(c, "undoBootout", TRUE, "undoManifest", "unrestored")

UndoBootout(c) ==
    \/ Loaded /\ BootoutCall(c, "undoBootout", "undoWait", "unrestored")
    \/ Await(c, "undoBootout", ~Loaded, "undoManifest", "unrestored")

UndoWait(c) == Await(c, "undoWait", ~Held, "undoManifest", "unrestored")

UndoJob(c) == IF wasLoaded[c] THEN "undoBootstrap" ELSE "undoStart"

\* The manifest that was found comes back: install replaces any of ours,
\* uninstall only fills the gap it made.
UndoManifest(c) ==
    \/ Await(c, "undoManifest",
             manifest = "missing" \/ (kind[c] = "install" /\ manifest \in Owned),
             "undoWrite", "unrestored")
    \/ kind[c] = "uninstall" /\ manifest = found[c]
       /\ Await(c, "undoManifest", TRUE, UndoJob(c), "unrestored")

\* What somebody else puts there meanwhile is overwritten, but not removed.
UndoWrite(c) ==
    \/ /\ found[c] = "missing" => manifest # "unknown"
       /\ Replace(c, "undoWrite", found[c], UndoJob(c), "unrestored")
    \/ Await(c, "undoWrite", FALSE, UndoJob(c), "unrestored")

UndoBootstrap(c) ==
    \/ BootstrapCall(c, "undoBootstrap", "undoKickstart", "unrestored")
    \/ /\ kind[c] = "uninstall" /\ Loaded
       /\ Await(c, "undoBootstrap", TRUE, "undoKickstart", "unrestored")

UndoKickstart(c) ==
    KickstartCall(c, "undoKickstart", "undoReady", "unrestored")

UndoReady(c) == Await(c, "undoReady", Ready, "restored", "unrestored")

\* A mutant: the rollback leaves the manual daemon stopped.
UndoStartNothing(c) == Await(c, "undoStart", TRUE, "restored", "unrestored")

\* _cmd_start_locked(manual_only = TRUE): a daemon that is there and ready will
\* do, whatever it has been told.
UndoStart(c) ==
    \/ Await(c, "undoStart", wasManual[c] => Ready, "restored", "unrestored")
    \/ wasManual[c] /\ Await(c, "undoStart", ~Held, "undoSpawn", "unrestored")

UndoSpawn(c)     == SpawnChild(c, "undoSpawn", "undoWaitChild", "unrestored")
UndoWaitChild(c) == AwaitChild(c, "undoWaitChild", "restored", "unrestored")

(* ------------------------------------------------------------------------ *)

Work(c) ==
    \/ InspectInstall(c) \/ InspectFails(c) \/ InspectUninstall(c)
    \/ InspectStart(c) \/ InspectStop(c) \/ Bootout(c) \/ Signal(c) \/ WaitGone(c) \/ Check(c)
    \/ Write(c) \/ Bootstrap(c) \/ Kickstart(c) \/ WaitReady(c)
    \/ GiveUpStart(c) \/ GiveUpWait(c) \/ Remove(c) \/ Spawn(c) \/ WaitChild(c)

Undo(c) ==
    \/ UndoBootout(c) \/ UndoWait(c) \/ UndoManifest(c) \/ UndoWrite(c)
    \/ UndoBootstrap(c) \/ UndoKickstart(c) \/ UndoReady(c) \/ UndoStart(c)
    \/ UndoSpawn(c) \/ UndoWaitChild(c)

Next ==
    \/ \E c \in Commands :
          Begin(c) \/ Work(c) \/ Undo(c) \/ End(c) \/ CrashCommand(c)
    \/ Respawn \/ ChildStarts \/ RunByHand \/ Progress \/ Exit \/ Die \/ ExitTimeOut
    \/ PutUnknownManifest

Spec == Init /\ [][Next]_vars

(* ----------------------------- properties ------------------------------- *)

\* Every variable keeps its type, and the installer lock is held by the one
\* command that is under way.
TypeOK ==
    /\ pc \in [Commands -> PCs]
    /\ kind \in [Commands -> Kinds]
    /\ found \in [Commands -> Statuses]
    /\ wasLoaded \in [Commands -> BOOLEAN]
    /\ wasManual \in [Commands -> BOOLEAN]
    /\ installLock \in Commands \cup {NoOne}
    /\ \A c \in Commands : pc[c] # "idle" <=> installLock = c
    /\ manifest \in Statuses
    /\ job \in Jobs
    /\ owner \in Owners /\ phase \in Phases /\ told \in BOOLEAN
    /\ owner = "none" <=> phase = "none"
    /\ job = "running" => owner = "service"
    /\ children \subseteq {"child", "bare"}
    /\ crashes \in 0..MaxCrashes /\ outside \in 0..MaxOutside

\* launchd never holds a job whose manifest is gone, however the command that
\* would have removed both was interrupted or failed: what is removed is first
\* booted out.  (cli.py 1976-1983, 1858-1861 and 2036-2039 treat it as an
\* anomaly, and every later command then refuses to act.)
LoadedHasManifest == Loaded => manifest # "missing"

\* A job is never loaded beside a detached daemon, with which it would fight
\* for the lifetime lock, unless that one came to the lock unseen, by hand or
\* after its start had died.  (cli.py 1878-1880: "Never bootstrap a
\* KeepAlive job beside another daemon")
LaunchdRunsAlone == Loaded /\ Held => owner \in {"service", "bare"}

Comes(c, k, verdict) ==
    /\ kind[c] = k /\ pc[c] # verdict /\ pc'[c] = verdict

SaysInstalled ==
    \A c \in Commands : Comes(c, "install", "done") =>
        /\ manifest' = "current" \/ (manifest' = "unknown" /\ outside > 0)
        /\ job' # "unloaded" /\ phase' = "ready"
        /\ owner' \in {"service", "bare"}

SaysStopped ==
    \A c \in Commands : Comes(c, "stop", "done") \/ Comes(c, "uninstall", "done")
        => job' = "unloaded"

SaysRestored ==
    \A c \in Commands : pc[c] # "restored" /\ pc'[c] = "restored" =>
        /\ manifest' \in {found[c], "unknown"}
        /\ wasLoaded[c] <=> job' # "unloaded"
        /\ wasLoaded[c] \/ wasManual[c] => phase' = "ready"

Signals ==
    \A c \in Commands :
        pc[c] = "signal" /\ pc'[c] = "waitGone" /\ Held => ~Loaded

\* install says it is installed only when the current manifest is there, or what
\* an outsider has put in its place, the job is loaded and a daemon is ready.
\* That daemon is launchd's, or a `run` that no command accounts for and that came
\* to the lifetime lock before it: the wait for readiness takes any (cli.py
\* 1923-1926).  But it never is the manual daemon that install had found.
InstalledIsUp == [][SaysInstalled]_vars

\* stop and uninstall say so only when launchd has let go of the job, so that
\* nothing brings the daemon back.
StoppedStaysStopped == [][SaysStopped]_vars

\* What a failed install or uninstall reports as restored is: the manifest, the
\* loaded job with a daemon that is ready, or else no job and the manual daemon
\* (which may have been told to stop by this very command).
RestoredIsRestored == [][SaysRestored]_vars

\* A daemon is signalled only while its job is not loaded: launchd's own are
\* stopped through launchd.  (cli.py 2392: "Stop launchd-owned jobs with
\* bootout; signal only detached daemons")
NeverBypassesLaunchd == [][Signals]_vars

\* A manual daemon reported as restored goes on: it has not been told to stop.
\* (cli.py 2063-2066: "Treat the lifecycle as changed before sending it so
\* rollback re-establishes the previous manual owner")
RestoredManualStays ==
    [][\A c \in Commands :
          pc[c] # "restored" /\ pc'[c] = "restored" /\ wasManual[c]
          => ~told']_vars
====
