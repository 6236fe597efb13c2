---- MODULE AutostartProofs ----
(***************************************************************************)
(* What a command says about the LaunchAgent is true when it says so, and   *)
(* launchd and a manual daemon keep apart, for any number of commands,      *)
(* failed calls, crashes and foreign manifests.                             *)
(***************************************************************************)
EXTENDS Autostart, TLAPS

(* ----------------------- the inductive invariant ------------------------ *)

Restoring == {"undoBootstrap", "undoKickstart", "undoReady"}
Restarting == {"undoStart", "undoSpawn", "undoWaitChild"}

\* Which steps belong to which command; uninstall goes on only with a manifest
\* of ours.
KindInv ==
    \A c \in Commands :
        /\ pc[c] \in {"check", "write", "undoBootout", "undoWait"}
              => kind[c] = "install"
        /\ pc[c] = "remove" => kind[c] = "uninstall"
        /\ pc[c] \in {"spawn", "waitChild", "giveUp", "giveUpWait"}
              => kind[c] = "start"
        /\ pc[c] \in {"bootstrap", "kickstart", "waitReady"}
              => kind[c] \in {"install", "start"}
        /\ pc[c] \in Rollback => kind[c] \in {"install", "uninstall"}
        /\ /\ kind[c] = "uninstall"
           /\ pc[c] \in {"bootout", "signal", "waitGone", "remove"}
                        \cup Rollback
           => found[c] \in Owned

\* Where the command under way knows whether the job is loaded: nobody else
\* loads it or takes it down.
JobInv ==
    \A c \in Commands :
        /\ pc[c] \in {"signal", "waitGone", "check", "write", "bootstrap",
                      "remove", "spawn", "waitChild", "undoWait"}
                     \cup Restarting
              => ~Loaded
        /\ pc[c] \in {"kickstart", "waitReady", "undoKickstart", "undoReady"}
              => Loaded
        /\ kind[c] = "install" /\ pc[c] \in {"undoManifest", "undoWrite"}
              => ~Loaded
        /\ pc[c] \in Restoring => wasLoaded[c]
        /\ pc[c] \in Restarting \cup {"spawn", "waitChild"} => ~wasLoaded[c]
        /\ kind[c] = "uninstall" /\ pc[c] \notin {"idle", "inspect"}
              => wasLoaded[c] \/ ~Loaded

\* No detached daemon has the lifetime lock, or only one that came to it unseen.
Alone == owner \in {"none", "service", "bare"}

OwnerInv ==
    /\ LaunchdRunsAlone
    /\ \A c \in Commands :
          \/ wasLoaded[c] /\ pc[c] \notin {"idle", "inspect"}
          \/ pc[c] \in {"check", "write", "bootstrap", "kickstart", "waitReady"}
          => Alone
    /\ "child" \in children =>
          /\ owner # "child"
          /\ \E c \in Commands : /\ pc[c] \in {"waitChild", "undoWaitChild"}
                                 /\ ~wasLoaded[c]
    /\ owner = "child" =>
          \E c \in Commands :
             pc[c] \in {"waitChild", "undoWaitChild"} \cup Verdicts

\* What is known of the manifest, which an outsider can only make unknown.
ManifestInv ==
    /\ LoadedHasManifest
    /\ \A c \in Commands :
          /\ /\ kind[c] = "install"
             /\ pc[c] \in {"bootstrap", "kickstart", "waitReady"}
             => manifest = "current" \/ (manifest = "unknown" /\ outside > 0)
          /\ pc[c] \in Restoring \cup Restarting
                => manifest \in {found[c], "unknown"}

IInv == TypeOK /\ KindInv /\ JobInv /\ OwnerInv /\ ManifestInv

Truthful == SaysInstalled /\ SaysStopped /\ SaysRestored /\ Signals

(* --------------------------- its preservation --------------------------- *)

\* The two halves of TypeOK: the commands, and what they work on.
CommandTypes ==
    /\ pc \in [Commands -> PCs]
    /\ kind \in [Commands -> Kinds]
    /\ found \in [Commands -> Statuses]
    /\ wasLoaded \in [Commands -> BOOLEAN]
    /\ wasManual \in [Commands -> BOOLEAN]
    /\ installLock \in Commands \cup {NoOne}
    /\ \A c \in Commands : pc[c] # "idle" <=> installLock = c

DaemonTypes ==
    /\ manifest \in Statuses
    /\ job \in Jobs
    /\ owner \in Owners /\ phase \in Phases /\ told \in BOOLEAN
    /\ owner = "none" <=> phase = "none"
    /\ job = "running" => owner = "service"
    /\ children \subseteq {"child", "bare"}
    /\ crashes \in 0..MaxCrashes /\ outside \in 0..MaxOutside


\* The installer lock stays with the command that is under way.
LEMMA CommandStep == TypeOK /\ [Next]_vars => CommandTypes'
<1> SUFFICES ASSUME TypeOK, [Next]_vars PROVE CommandTypes'
  OBVIOUS
<1> USE NoOneAssumption, BoundsAssumption
    DEF TypeOK, CommandTypes,
        Held, Ready, Loaded, Statuses, Owned, Jobs, Phases, Owners, Kinds,
        PCs, Working, Rollback, Verdicts, locals, daemon, bounds, commandVars
<1>1. ASSUME NEW c \in Commands, Begin(c) \/ Work(c) \/ Undo(c) \/ End(c)
                                \/ CrashCommand(c)
      PROVE  CommandTypes'
  <2>1. CASE Begin(c) BY <2>1 DEF Begin
  <2>2. CASE InspectInstall(c)
    BY <2>2 DEF InspectInstall, Go, Remember, StopStep
  <2>3. CASE InspectUninstall(c)
    BY <2>3 DEF InspectUninstall, Go, Remember, StopStep
  <2>4. CASE InspectStart(c) BY <2>4 DEF InspectStart, Go, Remember
  <2>5. CASE InspectStop(c) BY <2>5 DEF InspectStop, Go, Remember, StopStep
  <2>6. CASE Bootout(c)
    BY <2>6 DEF Bootout, Go, BootoutCall, Launchctl, SameJob, Bad
  <2>7. CASE Signal(c) BY <2>7 DEF Signal, Go, Bad
  <2>8. CASE WaitGone(c) BY <2>8 DEF WaitGone, Go, Await, Bad
  <2>9. CASE Check(c) BY <2>9 DEF Check, Go, Await, Bad
  <2>10. CASE Write(c) BY <2>10 DEF Write, Go, Replace, Bad
  <2>11. CASE Bootstrap(c)
    BY <2>11 DEF Bootstrap, Go, BootstrapCall, Launchctl, SameJob, Bad
  <2>12. CASE Kickstart(c)
    BY <2>12 DEF Kickstart, Go, KickstartCall, Launchctl, SameJob, GiveUp, Bad
  <2>13. CASE WaitReady(c) BY <2>13 DEF WaitReady, Go, Await, GiveUp, Bad
  <2>14. CASE GiveUpStart(c)
    BY <2>14 DEF GiveUpStart, Go, BootoutCall, Launchctl, SameJob
  <2>15. CASE GiveUpWait(c) BY <2>15 DEF GiveUpWait, Go, Await
  <2>16. CASE Remove(c) BY <2>16 DEF Remove, Go, Replace, Await, Bad
  <2>17. CASE Spawn(c) BY <2>17 DEF Spawn, Go, SpawnChild
  <2>18. CASE WaitChild(c) BY <2>18 DEF WaitChild, Go, AwaitChild
  <2>19. CASE UndoBootout(c)
    <3>1. CASE Await(c, "undoBootout", ~Loaded, "undoManifest", "unrestored")
      BY <3>1 DEF Await, Go
    <3>2. CASE BootoutCall(c, "undoBootout", "undoWait", "unrestored")
      BY <3>2 DEF BootoutCall, Launchctl, SameJob, Go
    <3> QED BY <2>19, <3>1, <3>2 DEF UndoBootout
  <2>20. CASE UndoWait(c) BY <2>20 DEF UndoWait, Go, Await
  <2>21. CASE UndoManifest(c) BY <2>21 DEF UndoManifest, Go, Await, UndoJob
  <2>22. CASE UndoWrite(c)
    <3>1. CASE Replace(c, "undoWrite", found[c], UndoJob(c), "unrestored")
      BY <3>1 DEF Replace, Go, UndoJob
    <3>2. CASE Await(c, "undoWrite", FALSE, UndoJob(c), "unrestored")
      BY <3>2 DEF Await, Go
    <3> QED BY <2>22, <3>1, <3>2 DEF UndoWrite
  <2>23. CASE UndoBootstrap(c)
    <3>1. CASE BootstrapCall(c, "undoBootstrap", "undoKickstart", "unrestored")
      BY <3>1 DEF BootstrapCall, Launchctl, SameJob, Go
    <3>2. CASE Await(c, "undoBootstrap", TRUE, "undoKickstart", "unrestored")
      BY <3>2 DEF Await, Go
    <3> QED BY <2>23, <3>1, <3>2 DEF UndoBootstrap
  <2>24. CASE UndoKickstart(c)
    BY <2>24 DEF UndoKickstart, Go, KickstartCall, Launchctl, SameJob
  <2>25. CASE UndoReady(c) BY <2>25 DEF UndoReady, Go, Await
  <2>26. CASE UndoStart(c)
    <3>1. CASE Await(c, "undoStart", wasManual[c] => Ready, "restored",
                     "unrestored")
      BY <3>1 DEF Await, Go
    <3>2. CASE Await(c, "undoStart", ~Held, "undoSpawn", "unrestored")
      BY <3>2 DEF Await, Go
    <3> QED BY <2>26, <3>1, <3>2 DEF UndoStart
  <2>27. CASE UndoSpawn(c) BY <2>27 DEF UndoSpawn, Go, SpawnChild
  <2>28. CASE UndoWaitChild(c) BY <2>28 DEF UndoWaitChild, Go, AwaitChild
  <2>29. CASE InspectFails(c) BY <2>29 DEF InspectFails, Go
  <2>30. CASE End(c) BY <2>30 DEF End, Leave
  <2>31. CASE CrashCommand(c) BY <2>31 DEF CrashCommand, Leave
  <2> QED
    BY <1>1, <2>1, <2>2, <2>3, <2>4, <2>5, <2>6, <2>7, <2>8, <2>9, <2>10,
       <2>11, <2>12, <2>13, <2>14, <2>15, <2>16, <2>17, <2>18, <2>19, <2>20,
       <2>21, <2>22, <2>23, <2>24, <2>25, <2>26, <2>27, <2>28, <2>29, <2>30,
       <2>31 DEF Work, Undo
<1>2. ASSUME Respawn \/ ChildStarts \/ RunByHand \/ Progress \/ Exit \/ Die
             \/ ExitTimeOut \/ PutUnknownManifest
      PROVE  CommandTypes'
  <2>1. CASE Respawn BY <2>1 DEF Respawn
  <2>2. CASE ChildStarts BY <2>2 DEF ChildStarts
  <2>3. CASE RunByHand BY <2>3 DEF RunByHand
  <2>4. CASE Progress BY <2>4 DEF Progress
  <2>5. CASE Exit BY <2>5 DEF Exit, Gone
  <2>6. CASE Die BY <2>6 DEF Die, Gone
  <2>7. CASE ExitTimeOut BY <2>7 DEF ExitTimeOut, Gone
  <2>8. CASE PutUnknownManifest BY <2>8 DEF PutUnknownManifest
  <2> QED BY <1>2, <2>1, <2>2, <2>3, <2>4, <2>5, <2>6, <2>7, <2>8
<1>3. CASE UNCHANGED vars BY <1>3 DEF vars
<1> QED BY <1>1, <1>2, <1>3 DEF Next

\* The lifetime lock stays with the daemon that has an owner.
LEMMA DaemonStep == TypeOK /\ [Next]_vars => DaemonTypes'
<1> SUFFICES ASSUME TypeOK, [Next]_vars PROVE DaemonTypes'
  OBVIOUS
<1> USE NoOneAssumption, BoundsAssumption
    DEF TypeOK, DaemonTypes,
        Held, Ready, Loaded, Statuses, Owned, Jobs, Phases, Owners, Kinds,
        PCs, Working, Rollback, Verdicts, locals, daemon, bounds, commandVars
<1>1. ASSUME NEW c \in Commands, Begin(c) \/ Work(c) \/ Undo(c) \/ End(c)
                                \/ CrashCommand(c)
      PROVE  DaemonTypes'
  <2>1. CASE Begin(c) BY <2>1 DEF Begin
  <2>2. CASE InspectInstall(c)
    BY <2>2 DEF InspectInstall, Go, Remember, StopStep
  <2>3. CASE InspectUninstall(c)
    BY <2>3 DEF InspectUninstall, Go, Remember, StopStep
  <2>4. CASE InspectStart(c) BY <2>4 DEF InspectStart, Go, Remember
  <2>5. CASE InspectStop(c) BY <2>5 DEF InspectStop, Go, Remember, StopStep
  <2>6. CASE Bootout(c)
    BY <2>6 DEF Bootout, Go, BootoutCall, Launchctl, SameJob, Bad
  <2>7. CASE Signal(c) BY <2>7 DEF Signal, Go, Bad
  <2>8. CASE WaitGone(c) BY <2>8 DEF WaitGone, Go, Await, Bad
  <2>9. CASE Check(c) BY <2>9 DEF Check, Go, Await, Bad
  <2>10. CASE Write(c) BY <2>10 DEF Write, Go, Replace, Bad
  <2>11. CASE Bootstrap(c)
    BY <2>11 DEF Bootstrap, Go, BootstrapCall, Launchctl, SameJob, Bad
  <2>12. CASE Kickstart(c)
    BY <2>12 DEF Kickstart, Go, KickstartCall, Launchctl, SameJob, GiveUp, Bad
  <2>13. CASE WaitReady(c) BY <2>13 DEF WaitReady, Go, Await, GiveUp, Bad
  <2>14. CASE GiveUpStart(c)
    BY <2>14 DEF GiveUpStart, Go, BootoutCall, Launchctl, SameJob
  <2>15. CASE GiveUpWait(c) BY <2>15 DEF GiveUpWait, Go, Await
  <2>16. CASE Remove(c) BY <2>16 DEF Remove, Go, Replace, Await, Bad
  <2>17. CASE Spawn(c) BY <2>17 DEF Spawn, Go, SpawnChild
  <2>18. CASE WaitChild(c) BY <2>18 DEF WaitChild, Go, AwaitChild
  <2>19. CASE UndoBootout(c)
    <3>1. CASE Await(c, "undoBootout", ~Loaded, "undoManifest", "unrestored")
      BY <3>1 DEF Await, Go
    <3>2. CASE BootoutCall(c, "undoBootout", "undoWait", "unrestored")
      BY <3>2 DEF BootoutCall, Launchctl, SameJob, Go
    <3> QED BY <2>19, <3>1, <3>2 DEF UndoBootout
  <2>20. CASE UndoWait(c) BY <2>20 DEF UndoWait, Go, Await
  <2>21. CASE UndoManifest(c) BY <2>21 DEF UndoManifest, Go, Await, UndoJob
  <2>22. CASE UndoWrite(c)
    <3>1. CASE Replace(c, "undoWrite", found[c], UndoJob(c), "unrestored")
      BY <3>1 DEF Replace, Go, UndoJob
    <3>2. CASE Await(c, "undoWrite", FALSE, UndoJob(c), "unrestored")
      BY <3>2 DEF Await, Go
    <3> QED BY <2>22, <3>1, <3>2 DEF UndoWrite
  <2>23. CASE UndoBootstrap(c)
    <3>1. CASE BootstrapCall(c, "undoBootstrap", "undoKickstart", "unrestored")
      BY <3>1 DEF BootstrapCall, Launchctl, SameJob, Go
    <3>2. CASE Await(c, "undoBootstrap", TRUE, "undoKickstart", "unrestored")
      BY <3>2 DEF Await, Go
    <3> QED BY <2>23, <3>1, <3>2 DEF UndoBootstrap
  <2>24. CASE UndoKickstart(c)
    BY <2>24 DEF UndoKickstart, Go, KickstartCall, Launchctl, SameJob
  <2>25. CASE UndoReady(c) BY <2>25 DEF UndoReady, Go, Await
  <2>26. CASE UndoStart(c)
    <3>1. CASE Await(c, "undoStart", wasManual[c] => Ready, "restored",
                     "unrestored")
      BY <3>1 DEF Await, Go
    <3>2. CASE Await(c, "undoStart", ~Held, "undoSpawn", "unrestored")
      BY <3>2 DEF Await, Go
    <3> QED BY <2>26, <3>1, <3>2 DEF UndoStart
  <2>27. CASE UndoSpawn(c) BY <2>27 DEF UndoSpawn, Go, SpawnChild
  <2>28. CASE UndoWaitChild(c) BY <2>28 DEF UndoWaitChild, Go, AwaitChild
  <2>29. CASE InspectFails(c) BY <2>29 DEF InspectFails, Go
  <2>30. CASE End(c) BY <2>30 DEF End, Leave
  <2>31. CASE CrashCommand(c) BY <2>31 DEF CrashCommand, Leave
  <2> QED
    BY <1>1, <2>1, <2>2, <2>3, <2>4, <2>5, <2>6, <2>7, <2>8, <2>9, <2>10,
       <2>11, <2>12, <2>13, <2>14, <2>15, <2>16, <2>17, <2>18, <2>19, <2>20,
       <2>21, <2>22, <2>23, <2>24, <2>25, <2>26, <2>27, <2>28, <2>29, <2>30,
       <2>31 DEF Work, Undo
<1>2. ASSUME Respawn \/ ChildStarts \/ RunByHand \/ Progress \/ Exit \/ Die
             \/ ExitTimeOut \/ PutUnknownManifest
      PROVE  DaemonTypes'
  <2>1. CASE Respawn BY <2>1 DEF Respawn
  <2>2. CASE ChildStarts BY <2>2 DEF ChildStarts
  <2>3. CASE RunByHand BY <2>3 DEF RunByHand
  <2>4. CASE Progress BY <2>4 DEF Progress
  <2>5. CASE Exit BY <2>5 DEF Exit, Gone
  <2>6. CASE Die
    <3>1. /\ owner' = "none" /\ phase' = "none" /\ told' = FALSE
          /\ job' \in Jobs /\ (job' = "running" => owner' = "service")
          /\ UNCHANGED <<children, manifest, outside>>
      BY <2>6 DEF Die, Gone
    <3>2. crashes' \in 0..MaxCrashes
      BY <2>6 DEF Die
    <3> QED BY <3>1, <3>2
  <2>7. CASE ExitTimeOut BY <2>7 DEF ExitTimeOut, Gone
  <2>8. CASE PutUnknownManifest BY <2>8 DEF PutUnknownManifest
  <2> QED BY <1>2, <2>1, <2>2, <2>3, <2>4, <2>5, <2>6, <2>7, <2>8
<1>3. CASE UNCHANGED vars BY <1>3 DEF vars
<1> QED BY <1>1, <1>2, <1>3 DEF Next

\* Commands keep to their steps.
LEMMA KindStep == IInv /\ [Next]_vars => KindInv'
<1> SUFFICES ASSUME IInv, [Next]_vars PROVE KindInv'
  OBVIOUS
<1> USE NoOneAssumption, BoundsAssumption
    DEF IInv, TypeOK, KindInv,
        Held, Ready, Loaded, Statuses, Owned, Jobs, Phases, Owners, Kinds,
        PCs, Working, Rollback, Verdicts, locals, daemon, bounds, commandVars
<1>1. ASSUME NEW c \in Commands, Begin(c) \/ Work(c) \/ Undo(c) \/ End(c)
                                \/ CrashCommand(c)
      PROVE  KindInv'
  <2>1. CASE Begin(c) BY <2>1 DEF Begin
  <2>2. CASE InspectInstall(c)
    BY <2>2 DEF InspectInstall, Go, Remember, StopStep
  <2>3. CASE InspectUninstall(c)
    BY <2>3 DEF InspectUninstall, Go, Remember, StopStep
  <2>4. CASE InspectStart(c) BY <2>4 DEF InspectStart, Go, Remember
  <2>5. CASE InspectStop(c) BY <2>5 DEF InspectStop, Go, Remember, StopStep
  <2>6. CASE Bootout(c)
    BY <2>6 DEF Bootout, Go, BootoutCall, Launchctl, SameJob, Bad
  <2>7. CASE Signal(c) BY <2>7 DEF Signal, Go, Bad
  <2>8. CASE WaitGone(c) BY <2>8 DEF WaitGone, Go, Await, Bad
  <2>9. CASE Check(c) BY <2>9 DEF Check, Go, Await, Bad
  <2>10. CASE Write(c) BY <2>10 DEF Write, Go, Replace, Bad
  <2>11. CASE Bootstrap(c)
    BY <2>11 DEF Bootstrap, Go, BootstrapCall, Launchctl, SameJob, Bad
  <2>12. CASE Kickstart(c)
    BY <2>12 DEF Kickstart, Go, KickstartCall, Launchctl, SameJob, GiveUp, Bad
  <2>13. CASE WaitReady(c) BY <2>13 DEF WaitReady, Go, Await, GiveUp, Bad
  <2>14. CASE GiveUpStart(c)
    BY <2>14 DEF GiveUpStart, Go, BootoutCall, Launchctl, SameJob
  <2>15. CASE GiveUpWait(c) BY <2>15 DEF GiveUpWait, Go, Await
  <2>16. CASE Remove(c) BY <2>16 DEF Remove, Go, Replace, Await, Bad
  <2>17. CASE Spawn(c) BY <2>17 DEF Spawn, Go, SpawnChild
  <2>18. CASE WaitChild(c) BY <2>18 DEF WaitChild, Go, AwaitChild
  <2>19. CASE UndoBootout(c)
    BY <2>19 DEF UndoBootout, Go, BootoutCall, Launchctl, SameJob, Await
  <2>20. CASE UndoWait(c) BY <2>20 DEF UndoWait, Go, Await
  <2>21. CASE UndoManifest(c) BY <2>21 DEF UndoManifest, Go, Await, UndoJob
  <2>22. CASE UndoWrite(c) BY <2>22 DEF UndoWrite, Go, Replace, Await, UndoJob
  <2>23. CASE UndoBootstrap(c)
    BY <2>23 DEF UndoBootstrap, Go, BootstrapCall, Launchctl, SameJob, Await
  <2>24. CASE UndoKickstart(c)
    BY <2>24 DEF UndoKickstart, Go, KickstartCall, Launchctl, SameJob
  <2>25. CASE UndoReady(c) BY <2>25 DEF UndoReady, Go, Await
  <2>26. CASE UndoStart(c) BY <2>26 DEF UndoStart, Go, Await
  <2>27. CASE UndoSpawn(c) BY <2>27 DEF UndoSpawn, Go, SpawnChild
  <2>28. CASE UndoWaitChild(c) BY <2>28 DEF UndoWaitChild, Go, AwaitChild
  <2>29. CASE InspectFails(c) BY <2>29 DEF InspectFails, Go
  <2>30. CASE End(c) BY <2>30 DEF End, Leave
  <2>31. CASE CrashCommand(c) BY <2>31 DEF CrashCommand, Leave
  <2> QED
    BY <1>1, <2>1, <2>2, <2>3, <2>4, <2>5, <2>6, <2>7, <2>8, <2>9, <2>10,
       <2>11, <2>12, <2>13, <2>14, <2>15, <2>16, <2>17, <2>18, <2>19, <2>20,
       <2>21, <2>22, <2>23, <2>24, <2>25, <2>26, <2>27, <2>28, <2>29, <2>30,
       <2>31 DEF Work, Undo
<1>2. ASSUME Respawn \/ ChildStarts \/ RunByHand \/ Progress \/ Exit \/ Die
             \/ ExitTimeOut \/ PutUnknownManifest
      PROVE  KindInv'
  <2>1. CASE Respawn BY <2>1 DEF Respawn
  <2>2. CASE ChildStarts BY <2>2 DEF ChildStarts
  <2>3. CASE RunByHand BY <2>3 DEF RunByHand
  <2>4. CASE Progress BY <2>4 DEF Progress
  <2>5. CASE Exit BY <2>5 DEF Exit, Gone
  <2>6. CASE Die BY <2>6 DEF Die, Gone
  <2>7. CASE ExitTimeOut BY <2>7 DEF ExitTimeOut, Gone
  <2>8. CASE PutUnknownManifest BY <2>8 DEF PutUnknownManifest
  <2> QED BY <1>2, <2>1, <2>2, <2>3, <2>4, <2>5, <2>6, <2>7, <2>8
<1>3. CASE UNCHANGED vars BY <1>3 DEF vars
<1> QED BY <1>1, <1>2, <1>3 DEF Next

\* The command under way is the only one that loads or unloads the job.
LEMMA JobStep == IInv /\ [Next]_vars => JobInv'
<1> SUFFICES ASSUME IInv, [Next]_vars PROVE JobInv'
  OBVIOUS
<1> USE NoOneAssumption, BoundsAssumption
    DEF IInv, TypeOK, KindInv, JobInv, Restoring, Restarting,
        Held, Ready, Loaded, Statuses, Owned, Jobs, Phases, Owners, Kinds,
        PCs, Working, Rollback, Verdicts, locals, daemon, bounds, commandVars
<1>1. ASSUME NEW c \in Commands, Begin(c) \/ Work(c) \/ Undo(c) \/ End(c)
                                \/ CrashCommand(c)
      PROVE  JobInv'
  <2>1. CASE Begin(c) BY <2>1 DEF Begin
  <2>2. CASE InspectInstall(c)
    BY <2>2 DEF InspectInstall, Go, Remember, StopStep
  <2>3. CASE InspectUninstall(c)
    <3>1. /\ \A b \in Commands \ {c} : pc[b] = "idle" /\ pc'[b] = "idle"
          /\ UNCHANGED <<job, kind>> /\ kind[c] = "uninstall"
          /\ wasLoaded'[c] = Loaded
      BY <2>3 DEF InspectUninstall, Go, Remember
    <3>2. \/ pc'[c] \in {"unchanged", "done", "bootout"}
          \/ pc'[c] \in {"signal", "remove"} /\ ~Loaded
      BY <2>3 DEF InspectUninstall, Go, StopStep
    <3> QED BY <3>1, <3>2
  <2>4. CASE InspectStart(c)
    <3>1. /\ \A b \in Commands \ {c} : pc[b] = "idle" /\ pc'[b] = "idle"
          /\ UNCHANGED <<job, kind>> /\ kind[c] = "start"
          /\ wasLoaded'[c] = Loaded
      BY <2>4 DEF InspectStart, Go, Remember
    <3>2. \/ pc'[c] \in {"failed", "done"}
          \/ pc'[c] \in {"spawn", "bootstrap"} /\ ~Loaded
          \/ pc'[c] = "kickstart" /\ Loaded
      BY <2>4 DEF InspectStart, Go
    <3> QED BY <3>1, <3>2
  <2>5. CASE InspectStop(c) BY <2>5 DEF InspectStop, Go, Remember, StopStep
  <2>6. CASE Bootout(c)
    BY <2>6 DEF Bootout, Go, BootoutCall, Launchctl, SameJob, Bad
  <2>7. CASE Signal(c) BY <2>7 DEF Signal, Go, Bad
  <2>8. CASE WaitGone(c) BY <2>8 DEF WaitGone, Go, Await, Bad
  <2>9. CASE Check(c) BY <2>9 DEF Check, Go, Await, Bad
  <2>10. CASE Write(c) BY <2>10 DEF Write, Go, Replace, Bad
  <2>11. CASE Bootstrap(c)
    BY <2>11 DEF Bootstrap, Go, BootstrapCall, Launchctl, SameJob, Bad
  <2>12. CASE Kickstart(c)
    BY <2>12 DEF Kickstart, Go, KickstartCall, Launchctl, SameJob, GiveUp, Bad
  <2>13. CASE WaitReady(c) BY <2>13 DEF WaitReady, Go, Await, GiveUp, Bad
  <2>14. CASE GiveUpStart(c)
    BY <2>14 DEF GiveUpStart, Go, BootoutCall, Launchctl, SameJob
  <2>15. CASE GiveUpWait(c) BY <2>15 DEF GiveUpWait, Go, Await
  <2>16. CASE Remove(c) BY <2>16 DEF Remove, Go, Replace, Await, Bad
  <2>17. CASE Spawn(c) BY <2>17 DEF Spawn, Go, SpawnChild
  <2>18. CASE WaitChild(c) BY <2>18 DEF WaitChild, Go, AwaitChild
  <2>19. CASE UndoBootout(c)
    BY <2>19 DEF UndoBootout, Go, BootoutCall, Launchctl, SameJob, Await
  <2>20. CASE UndoWait(c) BY <2>20 DEF UndoWait, Go, Await
  <2>21. CASE UndoManifest(c) BY <2>21 DEF UndoManifest, Go, Await, UndoJob
  <2>22. CASE UndoWrite(c) BY <2>22 DEF UndoWrite, Go, Replace, Await, UndoJob
  <2>23. CASE UndoBootstrap(c)
    BY <2>23 DEF UndoBootstrap, Go, BootstrapCall, Launchctl, SameJob, Await
  <2>24. CASE UndoKickstart(c)
    BY <2>24 DEF UndoKickstart, Go, KickstartCall, Launchctl, SameJob
  <2>25. CASE UndoReady(c) BY <2>25 DEF UndoReady, Go, Await
  <2>26. CASE UndoStart(c) BY <2>26 DEF UndoStart, Go, Await
  <2>27. CASE UndoSpawn(c) BY <2>27 DEF UndoSpawn, Go, SpawnChild
  <2>28. CASE UndoWaitChild(c) BY <2>28 DEF UndoWaitChild, Go, AwaitChild
  <2>29. CASE InspectFails(c) BY <2>29 DEF InspectFails, Go
  <2>30. CASE End(c) BY <2>30 DEF End, Leave
  <2>31. CASE CrashCommand(c) BY <2>31 DEF CrashCommand, Leave
  <2> QED
    BY <1>1, <2>1, <2>2, <2>3, <2>4, <2>5, <2>6, <2>7, <2>8, <2>9, <2>10,
       <2>11, <2>12, <2>13, <2>14, <2>15, <2>16, <2>17, <2>18, <2>19, <2>20,
       <2>21, <2>22, <2>23, <2>24, <2>25, <2>26, <2>27, <2>28, <2>29, <2>30,
       <2>31 DEF Work, Undo
<1>2. ASSUME Respawn \/ ChildStarts \/ RunByHand \/ Progress \/ Exit \/ Die
             \/ ExitTimeOut \/ PutUnknownManifest
      PROVE  JobInv'
  <2>1. CASE Respawn BY <2>1 DEF Respawn
  <2>2. CASE ChildStarts BY <2>2 DEF ChildStarts
  <2>3. CASE RunByHand BY <2>3 DEF RunByHand
  <2>4. CASE Progress BY <2>4 DEF Progress
  <2>5. CASE Exit BY <2>5 DEF Exit, Gone
  <2>6. CASE Die BY <2>6 DEF Die, Gone
  <2>7. CASE ExitTimeOut BY <2>7 DEF ExitTimeOut, Gone
  <2>8. CASE PutUnknownManifest BY <2>8 DEF PutUnknownManifest
  <2> QED BY <1>2, <2>1, <2>2, <2>3, <2>4, <2>5, <2>6, <2>7, <2>8
<1>3. CASE UNCHANGED vars BY <1>3 DEF vars
<1> QED BY <1>1, <1>2, <1>3 DEF Next

\* launchd and a detached daemon keep apart.
LEMMA OwnerStep == IInv /\ [Next]_vars => OwnerInv'
<1> SUFFICES ASSUME IInv, [Next]_vars PROVE OwnerInv'
  OBVIOUS
<1> USE NoOneAssumption, BoundsAssumption
    DEF IInv, TypeOK, JobInv, OwnerInv, LaunchdRunsAlone, Alone,
        Restoring, Restarting,
        Held, Ready, Loaded, Statuses, Owned, Jobs, Phases, Owners, Kinds,
        PCs, Working, Rollback, Verdicts, locals, daemon, bounds, commandVars
<1>1. ASSUME NEW c \in Commands, Begin(c) \/ Work(c) \/ Undo(c) \/ End(c)
                                \/ CrashCommand(c)
      PROVE  OwnerInv'
  <2>1. CASE Begin(c) BY <2>1 DEF Begin
  <2>2. CASE InspectInstall(c)
    <3>1. /\ \A b \in Commands \ {c} : pc[b] = "idle"
          /\ "child" \notin children /\ owner # "child"
      BY <2>2 DEF InspectInstall, Go
    <3>2. /\ \A b \in Commands \ {c} : pc'[b] = "idle"
          /\ UNCHANGED <<phase, job, children>>
          /\ owner' = IF owner = "bare" /\ ~Loaded THEN "manual" ELSE owner
          /\ wasLoaded'[c] = Loaded
      BY <2>2, <3>1 DEF InspectInstall, Go, Remember
    <3>3. /\ pc'[c] \notin {"check", "write", "bootstrap"} \/ owner = "none"
          /\ pc'[c] \notin {"kickstart", "waitReady"} \/ Loaded
      BY <2>2, <3>1 DEF InspectInstall, Go, StopStep
    <3> QED BY <3>1, <3>2, <3>3
  <2>3. CASE InspectUninstall(c)
    <3>1. /\ \A b \in Commands \ {c} : pc[b] = "idle"
          /\ "child" \notin children /\ owner # "child"
      BY <2>3 DEF InspectUninstall, Go
    <3>2. /\ \A b \in Commands \ {c} : pc'[b] = "idle"
          /\ UNCHANGED <<phase, job, children>>
          /\ owner' = IF owner = "bare" /\ ~Loaded THEN "manual" ELSE owner
          /\ wasLoaded'[c] = Loaded
      BY <2>3, <3>1 DEF InspectUninstall, Go, Remember
    <3>3. /\ pc'[c] \notin {"check", "write", "bootstrap"} \/ owner = "none"
          /\ pc'[c] \notin {"kickstart", "waitReady"} \/ Loaded
      BY <2>3, <3>1 DEF InspectUninstall, Go, StopStep
    <3> QED BY <3>1, <3>2, <3>3
  <2>4. CASE InspectStart(c)
    <3>1. /\ \A b \in Commands \ {c} : pc[b] = "idle"
          /\ "child" \notin children /\ owner # "child"
      BY <2>4 DEF InspectStart, Go
    <3>2. /\ \A b \in Commands \ {c} : pc'[b] = "idle"
          /\ UNCHANGED <<phase, job, children>>
          /\ owner' = IF owner = "bare" /\ ~Loaded THEN "manual" ELSE owner
          /\ wasLoaded'[c] = Loaded
      BY <2>4, <3>1 DEF InspectStart, Go, Remember
    <3>3. /\ pc'[c] \notin {"check", "write", "bootstrap"} \/ owner = "none"
          /\ pc'[c] \notin {"kickstart", "waitReady"} \/ Loaded
      BY <2>4, <3>1 DEF InspectStart, Go, StopStep
    <3> QED BY <3>1, <3>2, <3>3
  <2>5. CASE InspectStop(c)
    <3>1. /\ \A b \in Commands \ {c} : pc[b] = "idle"
          /\ "child" \notin children /\ owner # "child"
      BY <2>5 DEF InspectStop, Go
    <3>2. /\ \A b \in Commands \ {c} : pc'[b] = "idle"
          /\ UNCHANGED <<phase, job, children>>
          /\ owner' = IF owner = "bare" /\ ~Loaded THEN "manual" ELSE owner
          /\ wasLoaded'[c] = Loaded
      BY <2>5, <3>1 DEF InspectStop, Go, Remember
    <3>3. /\ pc'[c] \notin {"check", "write", "bootstrap"} \/ owner = "none"
          /\ pc'[c] \notin {"kickstart", "waitReady"} \/ Loaded
      BY <2>5, <3>1 DEF InspectStop, Go, StopStep
    <3> QED BY <3>1, <3>2, <3>3
  <2>6. CASE Bootout(c)
    BY <2>6 DEF Bootout, Go, BootoutCall, Launchctl, SameJob, Bad
  <2>7. CASE Signal(c) BY <2>7 DEF Signal, Go, Bad
  <2>8. CASE WaitGone(c) BY <2>8 DEF WaitGone, Go, Await, Bad
  <2>9. CASE Check(c) BY <2>9 DEF Check, Go, Await, Bad
  <2>10. CASE Write(c) BY <2>10 DEF Write, Go, Replace, Bad
  <2>11. CASE Bootstrap(c)
    BY <2>11 DEF Bootstrap, Go, BootstrapCall, Launchctl, SameJob, Bad
  <2>12. CASE Kickstart(c)
    BY <2>12 DEF Kickstart, Go, KickstartCall, Launchctl, SameJob, GiveUp, Bad
  <2>13. CASE WaitReady(c) BY <2>13 DEF WaitReady, Go, Await, GiveUp, Bad
  <2>14. CASE GiveUpStart(c)
    BY <2>14 DEF GiveUpStart, Go, BootoutCall, Launchctl, SameJob
  <2>15. CASE GiveUpWait(c) BY <2>15 DEF GiveUpWait, Go, Await
  <2>16. CASE Remove(c) BY <2>16 DEF Remove, Go, Replace, Await, Bad
  <2>17. CASE Spawn(c) BY <2>17 DEF Spawn, Go, SpawnChild
  <2>18. CASE WaitChild(c) BY <2>18 DEF WaitChild, Go, AwaitChild
  <2>19. CASE UndoBootout(c)
    BY <2>19 DEF UndoBootout, Go, BootoutCall, Launchctl, SameJob, Await
  <2>20. CASE UndoWait(c) BY <2>20 DEF UndoWait, Go, Await
  <2>21. CASE UndoManifest(c) BY <2>21 DEF UndoManifest, Go, Await, UndoJob
  <2>22. CASE UndoWrite(c) BY <2>22 DEF UndoWrite, Go, Replace, Await, UndoJob
  <2>23. CASE UndoBootstrap(c)
    BY <2>23 DEF UndoBootstrap, Go, BootstrapCall, Launchctl, SameJob, Await
  <2>24. CASE UndoKickstart(c)
    BY <2>24 DEF UndoKickstart, Go, KickstartCall, Launchctl, SameJob
  <2>25. CASE UndoReady(c) BY <2>25 DEF UndoReady, Go, Await
  <2>26. CASE UndoStart(c) BY <2>26 DEF UndoStart, Go, Await
  <2>27. CASE UndoSpawn(c) BY <2>27 DEF UndoSpawn, Go, SpawnChild
  <2>28. CASE UndoWaitChild(c) BY <2>28 DEF UndoWaitChild, Go, AwaitChild
  <2>29. CASE InspectFails(c) BY <2>29 DEF InspectFails, Go
  <2>30. CASE End(c) BY <2>30 DEF End, Leave
  <2>31. CASE CrashCommand(c) BY <2>31 DEF CrashCommand, Leave
  <2> QED
    BY <1>1, <2>1, <2>2, <2>3, <2>4, <2>5, <2>6, <2>7, <2>8, <2>9, <2>10,
       <2>11, <2>12, <2>13, <2>14, <2>15, <2>16, <2>17, <2>18, <2>19, <2>20,
       <2>21, <2>22, <2>23, <2>24, <2>25, <2>26, <2>27, <2>28, <2>29, <2>30,
       <2>31 DEF Work, Undo
<1>2. ASSUME Respawn \/ ChildStarts \/ RunByHand \/ Progress \/ Exit \/ Die
             \/ ExitTimeOut \/ PutUnknownManifest
      PROVE  OwnerInv'
  <2>1. CASE Respawn BY <2>1 DEF Respawn
  <2>2. CASE ChildStarts BY <2>2 DEF ChildStarts
  <2>3. CASE RunByHand BY <2>3 DEF RunByHand
  <2>4. CASE Progress BY <2>4 DEF Progress
  <2>5. CASE Exit BY <2>5 DEF Exit, Gone
  <2>6. CASE Die BY <2>6 DEF Die, Gone
  <2>7. CASE ExitTimeOut BY <2>7 DEF ExitTimeOut, Gone
  <2>8. CASE PutUnknownManifest BY <2>8 DEF PutUnknownManifest
  <2> QED BY <1>2, <2>1, <2>2, <2>3, <2>4, <2>5, <2>6, <2>7, <2>8
<1>3. CASE UNCHANGED vars BY <1>3 DEF vars
<1> QED BY <1>1, <1>2, <1>3 DEF Next

\* The manifest goes only when the job is gone.
LEMMA ManifestStep == IInv /\ [Next]_vars => ManifestInv'
<1> SUFFICES ASSUME IInv, [Next]_vars PROVE ManifestInv'
  OBVIOUS
<1> USE NoOneAssumption, BoundsAssumption
    DEF IInv, TypeOK, KindInv, JobInv, ManifestInv, LoadedHasManifest,
        Restoring, Restarting,
        Held, Ready, Loaded, Statuses, Owned, Jobs, Phases, Owners, Kinds,
        PCs, Working, Rollback, Verdicts, locals, daemon, bounds, commandVars
<1>1. ASSUME NEW c \in Commands, Begin(c) \/ Work(c) \/ Undo(c) \/ End(c)
                                \/ CrashCommand(c)
      PROVE  ManifestInv'
  <2>1. CASE Begin(c) BY <2>1 DEF Begin
  <2>2. CASE InspectInstall(c)
    BY <2>2 DEF InspectInstall, Go, Remember, StopStep
  <2>3. CASE InspectUninstall(c)
    BY <2>3 DEF InspectUninstall, Go, Remember, StopStep
  <2>4. CASE InspectStart(c) BY <2>4 DEF InspectStart, Go, Remember
  <2>5. CASE InspectStop(c) BY <2>5 DEF InspectStop, Go, Remember, StopStep
  <2>6. CASE Bootout(c)
    BY <2>6 DEF Bootout, Go, BootoutCall, Launchctl, SameJob, Bad
  <2>7. CASE Signal(c) BY <2>7 DEF Signal, Go, Bad
  <2>8. CASE WaitGone(c) BY <2>8 DEF WaitGone, Go, Await, Bad
  <2>9. CASE Check(c) BY <2>9 DEF Check, Go, Await, Bad
  <2>10. CASE Write(c) BY <2>10 DEF Write, Go, Replace, Bad
  <2>11. CASE Bootstrap(c)
    BY <2>11 DEF Bootstrap, Go, BootstrapCall, Launchctl, SameJob, Bad
  <2>12. CASE Kickstart(c)
    BY <2>12 DEF Kickstart, Go, KickstartCall, Launchctl, SameJob, GiveUp, Bad
  <2>13. CASE WaitReady(c) BY <2>13 DEF WaitReady, Go, Await, GiveUp, Bad
  <2>14. CASE GiveUpStart(c)
    BY <2>14 DEF GiveUpStart, Go, BootoutCall, Launchctl, SameJob
  <2>15. CASE GiveUpWait(c) BY <2>15 DEF GiveUpWait, Go, Await
  <2>16. CASE Remove(c) BY <2>16 DEF Remove, Go, Replace, Await, Bad
  <2>17. CASE Spawn(c) BY <2>17 DEF Spawn, Go, SpawnChild
  <2>18. CASE WaitChild(c) BY <2>18 DEF WaitChild, Go, AwaitChild
  <2>19. CASE UndoBootout(c)
    BY <2>19 DEF UndoBootout, Go, BootoutCall, Launchctl, SameJob, Await
  <2>20. CASE UndoWait(c) BY <2>20 DEF UndoWait, Go, Await
  <2>21. CASE UndoManifest(c) BY <2>21 DEF UndoManifest, Go, Await, UndoJob
  <2>22. CASE UndoWrite(c) BY <2>22 DEF UndoWrite, Go, Replace, Await, UndoJob
  <2>23. CASE UndoBootstrap(c)
    BY <2>23 DEF UndoBootstrap, Go, BootstrapCall, Launchctl, SameJob, Await
  <2>24. CASE UndoKickstart(c)
    BY <2>24 DEF UndoKickstart, Go, KickstartCall, Launchctl, SameJob
  <2>25. CASE UndoReady(c) BY <2>25 DEF UndoReady, Go, Await
  <2>26. CASE UndoStart(c) BY <2>26 DEF UndoStart, Go, Await
  <2>27. CASE UndoSpawn(c) BY <2>27 DEF UndoSpawn, Go, SpawnChild
  <2>28. CASE UndoWaitChild(c) BY <2>28 DEF UndoWaitChild, Go, AwaitChild
  <2>29. CASE InspectFails(c) BY <2>29 DEF InspectFails, Go
  <2>30. CASE End(c) BY <2>30 DEF End, Leave
  <2>31. CASE CrashCommand(c) BY <2>31 DEF CrashCommand, Leave
  <2> QED
    BY <1>1, <2>1, <2>2, <2>3, <2>4, <2>5, <2>6, <2>7, <2>8, <2>9, <2>10,
       <2>11, <2>12, <2>13, <2>14, <2>15, <2>16, <2>17, <2>18, <2>19, <2>20,
       <2>21, <2>22, <2>23, <2>24, <2>25, <2>26, <2>27, <2>28, <2>29, <2>30,
       <2>31 DEF Work, Undo
<1>2. ASSUME Respawn \/ ChildStarts \/ RunByHand \/ Progress \/ Exit \/ Die
             \/ ExitTimeOut \/ PutUnknownManifest
      PROVE  ManifestInv'
  <2>1. CASE Respawn BY <2>1 DEF Respawn
  <2>2. CASE ChildStarts BY <2>2 DEF ChildStarts
  <2>3. CASE RunByHand BY <2>3 DEF RunByHand
  <2>4. CASE Progress BY <2>4 DEF Progress
  <2>5. CASE Exit BY <2>5 DEF Exit, Gone
  <2>6. CASE Die BY <2>6 DEF Die, Gone
  <2>7. CASE ExitTimeOut BY <2>7 DEF ExitTimeOut, Gone
  <2>8. CASE PutUnknownManifest BY <2>8 DEF PutUnknownManifest
  <2> QED BY <1>2, <2>1, <2>2, <2>3, <2>4, <2>5, <2>6, <2>7, <2>8
<1>3. CASE UNCHANGED vars BY <1>3 DEF vars
<1> QED BY <1>1, <1>2, <1>3 DEF Next

\* What the commands report, and whom they signal.
LEMMA VerdictStep == IInv /\ [Next]_vars => Truthful
<1> SUFFICES ASSUME IInv, [Next]_vars PROVE Truthful
  OBVIOUS
<1> USE NoOneAssumption, BoundsAssumption
    DEF IInv, TypeOK, KindInv, JobInv, OwnerInv, ManifestInv, LaunchdRunsAlone,
        LoadedHasManifest, Alone, Restoring, Restarting, Truthful, Comes,
        SaysInstalled, SaysStopped, SaysRestored, Signals,
        Held, Ready, Loaded, Statuses, Owned, Jobs, Phases, Owners, Kinds,
        PCs, Working, Rollback, Verdicts, locals, daemon, bounds, commandVars
<1>1. ASSUME NEW c \in Commands, Begin(c) \/ Work(c) \/ Undo(c) \/ End(c)
                                \/ CrashCommand(c)
      PROVE  Truthful
  <2>1. CASE Begin(c) BY <2>1 DEF Begin
  <2>2. CASE InspectInstall(c)
    BY <2>2 DEF InspectInstall, Go, Remember, StopStep
  <2>3. CASE InspectUninstall(c)
    BY <2>3 DEF InspectUninstall, Go, Remember, StopStep
  <2>4. CASE InspectStart(c) BY <2>4 DEF InspectStart, Go, Remember
  <2>5. CASE InspectStop(c) BY <2>5 DEF InspectStop, Go, Remember, StopStep
  <2>6. CASE Bootout(c)
    BY <2>6 DEF Bootout, Go, BootoutCall, Launchctl, SameJob, Bad
  <2>7. CASE Signal(c) BY <2>7 DEF Signal, Go, Bad
  <2>8. CASE WaitGone(c) BY <2>8 DEF WaitGone, Go, Await, Bad
  <2>9. CASE Check(c) BY <2>9 DEF Check, Go, Await, Bad
  <2>10. CASE Write(c) BY <2>10 DEF Write, Go, Replace, Bad
  <2>11. CASE Bootstrap(c)
    BY <2>11 DEF Bootstrap, Go, BootstrapCall, Launchctl, SameJob, Bad
  <2>12. CASE Kickstart(c)
    BY <2>12 DEF Kickstart, Go, KickstartCall, Launchctl, SameJob, GiveUp, Bad
  <2>13. CASE WaitReady(c) BY <2>13 DEF WaitReady, Go, Await, GiveUp, Bad
  <2>14. CASE GiveUpStart(c)
    BY <2>14 DEF GiveUpStart, Go, BootoutCall, Launchctl, SameJob
  <2>15. CASE GiveUpWait(c) BY <2>15 DEF GiveUpWait, Go, Await
  <2>16. CASE Remove(c) BY <2>16 DEF Remove, Go, Replace, Await, Bad
  <2>17. CASE Spawn(c) BY <2>17 DEF Spawn, Go, SpawnChild
  <2>18. CASE WaitChild(c) BY <2>18 DEF WaitChild, Go, AwaitChild
  <2>19. CASE UndoBootout(c)
    BY <2>19 DEF UndoBootout, Go, BootoutCall, Launchctl, SameJob, Await
  <2>20. CASE UndoWait(c) BY <2>20 DEF UndoWait, Go, Await
  <2>21. CASE UndoManifest(c) BY <2>21 DEF UndoManifest, Go, Await, UndoJob
  <2>22. CASE UndoWrite(c) BY <2>22 DEF UndoWrite, Go, Replace, Await, UndoJob
  <2>23. CASE UndoBootstrap(c)
    BY <2>23 DEF UndoBootstrap, Go, BootstrapCall, Launchctl, SameJob, Await
  <2>24. CASE UndoKickstart(c)
    BY <2>24 DEF UndoKickstart, Go, KickstartCall, Launchctl, SameJob
  <2>25. CASE UndoReady(c) BY <2>25 DEF UndoReady, Go, Await
  <2>26. CASE UndoStart(c) BY <2>26 DEF UndoStart, Go, Await
  <2>27. CASE UndoSpawn(c) BY <2>27 DEF UndoSpawn, Go, SpawnChild
  <2>28. CASE UndoWaitChild(c) BY <2>28 DEF UndoWaitChild, Go, AwaitChild
  <2>29. CASE InspectFails(c) BY <2>29 DEF InspectFails, Go
  <2>30. CASE End(c) BY <2>30 DEF End, Leave
  <2>31. CASE CrashCommand(c) BY <2>31 DEF CrashCommand, Leave
  <2> QED
    BY <1>1, <2>1, <2>2, <2>3, <2>4, <2>5, <2>6, <2>7, <2>8, <2>9, <2>10,
       <2>11, <2>12, <2>13, <2>14, <2>15, <2>16, <2>17, <2>18, <2>19, <2>20,
       <2>21, <2>22, <2>23, <2>24, <2>25, <2>26, <2>27, <2>28, <2>29, <2>30,
       <2>31 DEF Work, Undo
<1>2. ASSUME Respawn \/ ChildStarts \/ RunByHand \/ Progress \/ Exit \/ Die
             \/ ExitTimeOut \/ PutUnknownManifest
      PROVE  Truthful
  <2>1. CASE Respawn BY <2>1 DEF Respawn
  <2>2. CASE ChildStarts BY <2>2 DEF ChildStarts
  <2>3. CASE RunByHand BY <2>3 DEF RunByHand
  <2>4. CASE Progress BY <2>4 DEF Progress
  <2>5. CASE Exit BY <2>5 DEF Exit, Gone
  <2>6. CASE Die BY <2>6 DEF Die, Gone
  <2>7. CASE ExitTimeOut BY <2>7 DEF ExitTimeOut, Gone
  <2>8. CASE PutUnknownManifest BY <2>8 DEF PutUnknownManifest
  <2> QED BY <1>2, <2>1, <2>2, <2>3, <2>4, <2>5, <2>6, <2>7, <2>8
<1>3. CASE UNCHANGED vars BY <1>3 DEF vars
<1> QED BY <1>1, <1>2, <1>3 DEF Next

(* ------------------------------ theorems -------------------------------- *)

\* The invariant holds at the start.
LEMMA InitInv == Init => IInv
<1> SUFFICES ASSUME Init PROVE IInv
  OBVIOUS
<1> USE NoOneAssumption, BoundsAssumption DEF Init
<1>1. TypeOK
  <2>1. \A c \in Commands : pc[c] # "idle" <=> installLock = c
    OBVIOUS
  <2>2. crashes \in 0..MaxCrashes /\ outside \in 0..MaxOutside
    OBVIOUS
  <2>3. /\ pc \in [Commands -> PCs] /\ kind \in [Commands -> Kinds]
        /\ found \in [Commands -> Statuses]
        /\ wasLoaded \in [Commands -> BOOLEAN]
        /\ wasManual \in [Commands -> BOOLEAN]
    BY DEF PCs, Kinds, Statuses
  <2>4. /\ job \in Jobs /\ owner \in Owners /\ phase \in Phases
        /\ owner = "none" <=> phase = "none"
        /\ job = "running" => owner = "service"
    BY DEF Jobs, Owners, Phases
  <2> QED BY <2>1, <2>2, <2>3, <2>4 DEF TypeOK
<1>2. KindInv /\ JobInv /\ OwnerInv /\ ManifestInv
  BY DEF KindInv, JobInv, OwnerInv, ManifestInv, LaunchdRunsAlone,
         LoadedHasManifest, Loaded, Held, Alone, Restoring, Restarting,
         Rollback, Verdicts, Owned
<1> QED BY <1>1, <1>2 DEF IInv

\* The inductive invariant holds in every behaviour.
THEOREM Inductive == Spec => []IInv
<1>1. IInv /\ [Next]_vars => IInv'
  <2>1. IInv /\ [Next]_vars => TypeOK'
    BY CommandStep, DaemonStep DEF IInv, TypeOK, CommandTypes, DaemonTypes
  <2> QED BY <2>1, KindStep, JobStep, OwnerStep, ManifestStep DEF IInv
<1> QED BY InitInv, <1>1, PTL DEF Spec

\* The installer lock is held by the one command that is under way, whoever is
\* killed.
THEOREM TypeCorrect == Spec => []TypeOK
<1>1. IInv => TypeOK BY DEF IInv
<1> QED BY Inductive, <1>1, PTL

\* A loaded job always has a manifest, however commands are interrupted.
THEOREM ManifestOutlivesJob == Spec => []LoadedHasManifest
<1>1. IInv => LoadedHasManifest BY DEF IInv, ManifestInv
<1> QED BY Inductive, <1>1, PTL

\* launchd's job is never loaded beside a detached daemon that was seen.
THEOREM Apart == Spec => []LaunchdRunsAlone
<1>1. IInv => LaunchdRunsAlone BY DEF IInv, OwnerInv
<1> QED BY Inductive, <1>1, PTL

\* An install that reports success has its job loaded under its own manifest, or
\* an outsider's, and a daemon ready that is not the one it found.
THEOREM InstallTruthful == Spec => InstalledIsUp
<1>1. IInv /\ [Next]_vars => [SaysInstalled]_vars
  BY VerdictStep DEF Truthful
<1> QED BY Inductive, <1>1, PTL DEF Spec, InstalledIsUp

\* A stop or an uninstall that reports success has unloaded the job.
THEOREM StopTruthful == Spec => StoppedStaysStopped
<1>1. IInv /\ [Next]_vars => [SaysStopped]_vars
  BY VerdictStep DEF Truthful
<1> QED BY Inductive, <1>1, PTL DEF Spec, StoppedStaysStopped

\* What a rollback reports as restored is restored.
THEOREM RollbackTruthful == Spec => RestoredIsRestored
<1>1. IInv /\ [Next]_vars => [SaysRestored]_vars
  BY VerdictStep DEF Truthful
<1> QED BY Inductive, <1>1, PTL DEF Spec, RestoredIsRestored

\* No command signals a daemon that launchd looks after.
THEOREM LaunchdRespected == Spec => NeverBypassesLaunchd
<1>1. IInv /\ [Next]_vars => [Signals]_vars
  BY VerdictStep DEF Truthful
<1> QED BY Inductive, <1>1, PTL DEF Spec, NeverBypassesLaunchd
====
