--------------------------- MODULE LifecycleProofs ---------------------------
(***************************************************************************)
(* What Lifecycle promises for any number of processes, pids and crashes.  *)
(* IInv strengthens the invariants of Lifecycle until they are inductive:  *)
(* who stands where holds which lock, which files its identity is in, and  *)
(* what a command may still believe about the identity it read.            *)
(***************************************************************************)
EXTENDS Lifecycle, TLAPS

Opening     == {"takeLifetime", "refused", "writePid", "writeSnap", "open"}
Unpublished == {"new", "takeTransition", "takeLifetime", "refused"}
Published   == {"open"} \cup Serving
Querying    == {"probe", "unprobe", "readPid", "readSnap", "check", "term", "drop"}
Probing     == {"unglance", "unprobe", "unwait"}

\* Each lock is held by the process that stands between taking and releasing
\* it; only a daemon that failed to take the transition lock back stands there
\* without it.
TransitionInv ==
    /\ \A i \in Instances : transition = i => dpc[i] \in HasTransition
    /\ \A i \in Instances : dpc[i] \in Opening => transition = i
    /\ "lock" \notin faulted =>
         \A i \in Instances : dpc[i] \in HasTransition => transition = i
    /\ \A c \in Clients : transition = c <=> cpc[c] \in Querying

LifetimeInv ==
    /\ \A i \in Instances : lifetime = i <=> dpc[i] \in HasLifetime
    /\ \A c \in Clients : lifetime = c <=> cpc[c] \in Probing

\* A live daemon answers to its pid, and a child's pid is not given away.
PidInv ==
    /\ \A i \in Instances : dpc[i] # "new" => pid[i] \in Pids
    /\ \A i \in Instances : dpc[i] \in Alive => who[pid[i]] = i
    /\ \A c \in Clients : child[c] \in Instances =>
         /\ c \in Starters
         /\ dpc[child[c]] # "new"
         /\ cpc[c] # "done" => who[pid[child[c]]] \in {child[c], Free}
    /\ \A c \in Clients : cpc[c] = "spawn" => c \in Starters
    /\ \A c \in Clients : cpc[c] \in {"poll", "deadline"} => child[c] \in Instances

\* A daemon past its publication finds its own identity in both files.
FilesInv ==
    \A i \in Instances :
        /\ dpc[i] = "writeSnap" => pidFile = i
        /\ dpc[i] \in Published =>
             pidFile = i /\ snapFile.inst = i /\ snapFile.running

\* An identity in a file is a daemon's that published it and is not yet gone.
OwnedInv ==
    /\ pidFile \in Instances => dpc[pidFile] \notin Unpublished
    /\ "pid" \notin faulted /\ pidFile \in Instances \ killed =>
         dpc[pidFile] \in {"writeSnap", "writeStopped", "removePid"} \cup Published
    /\ snapFile.running => snapFile.inst \in Instances
    /\ "snapshot" \notin faulted
       /\ snapFile.running /\ snapFile.inst \notin killed =>
         dpc[snapFile.inst] \in {"writeStopped"} \cup Published

\* What a command read is still in the pid file while it acts on it.
SeenInv ==
    \A c \in Clients :
        /\ seen[c] \in Instances => dpc[seen[c]] \notin Unpublished
        /\ \/ cpc[c] \in {"readSnap", "check", "term"}
           \/ cpc[c] = "drop" /\ verdict[c] = "match"
           => /\ seen[c] \in Instances
              /\ "lock" \notin faulted => seen[c] = pidFile
        /\ /\ cpc[c] \in {"check", "term", "drop"}
           /\ verdict[c] = "match"
           /\ child[c] # NoOne
           => pid[seen[c]] = pid[child[c]]

\* What stop reports follows from what it signalled.
VerdictInv ==
    \A c \in Clients :
        /\ cpc[c] \in {"wait", "unwait"} => verdict[c] = "sent"
        /\ verdict[c] = "sent" =>
             cpc[c] \in {"drop", "wait", "unwait"} /\ seen[c] \in Instances
        /\ verdict[c] = "stopped" =>
             /\ cpc[c] = "done"
             /\ seen[c] \in Instances
             /\ dpc[seen[c]] \in {"freeTransition", "dead"}
        /\ cpc[c] \in {"check", "term"} => verdict[c] = "match"

IInv ==
    /\ TypeOK
    /\ TransitionInv
    /\ LifetimeInv
    /\ PidInv
    /\ FilesInv
    /\ OwnedInv
    /\ SeenInv
    /\ VerdictInv

-----------------------------------------------------------------------------
(* The commands' steps that only read, and what a SIGTERM can change.       *)

Reading(c) ==
    \/ Begin(c) \/ Glance(c) \/ Unglance(c) \/ TakeQuery(c) \/ Probe(c)
    \/ Unprobe(c) \/ ReadPid(c) \/ ReadSnap(c) \/ CheckAlive(c)
    \/ DropQuery(c) \/ PollChild(c) \/ WaitStopped(c) \/ Unwait(c)
    \/ WaitTimesOut(c)

\* Where a command goes once it drops the transition lock.
LEMMA AfterQueryIs ==
    ASSUME NEW c \in Clients
    PROVE  /\ AfterQuery(c) \in {"wait", "spawn", "deadline", "done"}
           /\ AfterQuery(c) = "wait" <=> verdict[c] = "sent"
           /\ AfterQuery(c) = "spawn" => c \in Starters /\ child[c] = NoOne
           /\ AfterQuery(c) = "deadline" => child[c] # NoOne
BY DEF AfterQuery

\* A snapshot a daemon publishes is well formed.
LEMMA SnapshotType ==
    ASSUME NEW i \in Instances
    PROVE  Snapshot(i, TRUE) \in Snaps /\ Snapshot(i, FALSE) \in Snaps
BY DEF Snapshot, Snaps

\* Reading an identity leaves every daemon and every file as it was, and a
\* command that has ended stays ended.
LEMMA ReadingOnly ==
    ASSUME TypeOK, NEW c \in Clients, Reading(c)
    PROVE  /\ UNCHANGED <<files, daemon, faulted, child>>
           /\ \A d \in Clients :
                /\ cpc[d] = "done" => cpc'[d] = "done"
                /\ cpc'[d] \in {"poll", "deadline"} =>
                     cpc[d] \in {"poll", "deadline"} \/ child[d] # NoOne
                /\ cpc'[d] = "spawn" => cpc[d] = "spawn" \/ d \in Starters
BY AfterQueryIs DEF Reading, Begin, Glance, Unglance, TakeQuery, Probe, Unprobe, ReadPid,
       ReadSnap, CheckAlive, DropQuery, PollChild, WaitStopped, Unwait,
       WaitTimesOut, ClientOnly, ClientGoes, ProbeLifetime, ReleaseProbe, TypeOK

\* A SIGTERM kills the daemon it reaches, if its handler is not in place, and
\* moves no other.
LEMMA SigtermMoves ==
    ASSUME TypeOK, NEW j \in Instances, Sigterm(j)
    PROVE  /\ pid' = pid
           /\ \/ dpc' = dpc /\ who' = who
              \/ /\ dpc[j] \in Unhandled
                 /\ dpc' = [dpc EXCEPT ![j] = "dead"]
                 /\ who' = [who EXCEPT ![pid[j]] = Free]
BY DEF Sigterm, Killed, Gone, daemon, TypeOK

\* The kernel drops the locks of a daemon a SIGTERM kills.
LEMMA SigtermLocks ==
    ASSUME TypeOK, NEW j \in Instances, Sigterm(j)
    PROVE  \/ UNCHANGED <<transition, lifetime, dpc>>
           \/ /\ dpc[j] \in Unhandled
              /\ dpc' = [dpc EXCEPT ![j] = "dead"]
              /\ transition' = Released(transition, j)
              /\ lifetime' = Released(lifetime, j)
BY DEF Sigterm, Killed, Gone, locks, daemon, TypeOK

\* A daemon a SIGTERM ends has died without its teardown.
LEMMA SigtermKills ==
    ASSUME TypeOK, NEW j \in Instances, Sigterm(j)
    PROVE  \/ UNCHANGED <<dpc, killed>>
           \/ /\ dpc[j] \in Unhandled
              /\ dpc' = [dpc EXCEPT ![j] = "dead"]
              /\ killed' = killed \cup {j}
BY DEF Sigterm, Killed, Gone, daemon, TypeOK

\* What a SIGTERM does to the program counters of all the daemons.
LEMMA SigtermLeavesOrKills ==
    ASSUME TypeOK, NEW j \in Instances, Sigterm(j)
    PROVE  \A i \in Instances : dpc'[i] \in {dpc[i], "dead"}
BY SigtermMoves DEF TypeOK

\* Writing the snapshot keeps the types of what it writes and of the writer.
LEMMA SnapshotWriteType ==
    ASSUME TypeOK, NEW i \in Instances, WriteSnap(i) \/ Publish(i)
    PROVE  /\ snapFile' \in Snaps
           /\ dpc' \in [Instances -> DaemonPcs]
           /\ stopEvent' \in [Instances -> BOOLEAN]
<1>1. \/ snapFile' = snapFile
      \/ snapFile' = Snapshot(i, FALSE)
      \/ snapFile' = Snapshot(i, TRUE)
  BY Zenon DEF WriteSnap, Publish
<1>2. \E next \in DaemonPcs : Steps(i, next) \/ Fails(i, next)
  BY DEF WriteSnap, Publish, DaemonPcs
<1>3. snapFile' \in Snaps
  BY <1>1, SnapshotType, Zenon DEF TypeOK
<1>4. dpc' \in [Instances -> DaemonPcs] /\ stopEvent' \in [Instances -> BOOLEAN]
  BY <1>2 DEF TypeOK, Steps, Fails, DaemonGoes
<1> QED BY <1>3, <1>4

\* So does the last snapshot of a daemon.
LEMMA StoppedSnapshotType ==
    ASSUME TypeOK, NEW i \in Instances, WriteStopped(i)
    PROVE  snapFile' \in Snaps
<1>1. \/ snapFile' = snapFile
      \/ snapFile' = [snapFile EXCEPT !.inst = i, !.running = FALSE]
  BY DEF WriteStopped
<1>2. [snapFile EXCEPT !.inst = i, !.running = FALSE] \in Snaps
  BY DEF Snaps, TypeOK
<1> QED BY <1>1, <1>2 DEF TypeOK

\* A SIGTERM keeps the types of what it can change.
LEMMA SigtermType ==
    ASSUME TypeOK, PidInv, NEW j \in Instances, Sigterm(j)
    PROVE  /\ transition' \in Instances \cup Clients \cup {NoOne}
           /\ lifetime' \in Instances \cup Clients \cup {NoOne}
           /\ dpc' \in [Instances -> DaemonPcs]
           /\ stopEvent' \in [Instances -> BOOLEAN]
           /\ pid' \in [Instances -> Pids \cup {NoOne}]
           /\ who' \in [Pids -> Instances \cup {Free, Foreign}]
           /\ killed' \in SUBSET Instances
BY DEF Sigterm, Killed, Gone, Released, locks, daemon, TypeOK, DaemonPcs

\* Neither takes a live daemon's pid away nor gives a child's pid to another.
LEMMA SigtermKeepsPids ==
    ASSUME TypeOK, PidInv, NEW j \in Instances, Sigterm(j), child' = child,
           NEW c \in Clients, NEW next \in {"drop", "done", "poll"},
           cpc' = [cpc EXCEPT ![c] = next], cpc[c] # "done",
           next = "poll" => child[c] \in Instances
    PROVE  PidInv'
BY SigtermMoves, ProcessesAssumption, PidsAssumption
   DEF TypeOK, PidInv, Unhandled, Alive, DaemonPcs

-----------------------------------------------------------------------------
(* One lemma per part of IInv: every step preserves it.                     *)

\* Every variable keeps its type.
LEMMA TypeStep ==
    ASSUME TypeOK, PidInv, [Next]_vars
    PROVE  TypeOK'
<1> USE ProcessesAssumption, PidsAssumption DEF TypeOK, vars, locks, files,
        daemon, client, DaemonGoes, DaemonKeeps, Steps, Fails, ClientGoes,
        Concludes, ClientOnly, ProbeLifetime, ReleaseProbe, Gone, Killed,
        Released, Boot, Reusable, DaemonPcs, ClientPcs, Verdicts, Clients
<1>1. ASSUME NEW i \in Instances, TakeTransition(i) PROVE TypeOK'
  BY <1>1 DEF TakeTransition
<1>2. ASSUME NEW i \in Instances, TakeLifetime(i) PROVE TypeOK'
  BY <1>2 DEF TakeLifetime
<1>3. ASSUME NEW i \in Instances, RefuseToRun(i) PROVE TypeOK'
  BY <1>3 DEF RefuseToRun
<1>4. ASSUME NEW i \in Instances, WritePid(i) PROVE TypeOK'
  <2>1. ASSUME Steps(i, "writeSnap") PROVE TypeOK'
    BY <1>4, <2>1, SnapshotType DEF WritePid
  <2>2. ASSUME Fails(i, "writeStopped") PROVE TypeOK'
    BY <1>4, <2>2, SnapshotType DEF WritePid
  <2> QED BY <1>4, <2>1, <2>2 DEF WritePid
<1>5. ASSUME NEW i \in Instances, WriteSnap(i) PROVE TypeOK'
  BY <1>5, SnapshotWriteType DEF WriteSnap
<1>6. ASSUME NEW i \in Instances, OpenIdentity(i) PROVE TypeOK'
  BY <1>6 DEF OpenIdentity
<1>7. ASSUME NEW i \in Instances, Loop(i) PROVE TypeOK'
  <2>1. ASSUME Steps(i, "tick") PROVE TypeOK'
    BY <1>7, <2>1, SnapshotType DEF Loop
  <2>2. ASSUME Fails(i, "takeBack") PROVE TypeOK'
    BY <1>7, <2>2, SnapshotType DEF Loop
  <2> QED BY <1>7, <2>1, <2>2 DEF Loop
<1>8. ASSUME NEW i \in Instances, Publish(i) PROVE TypeOK'
  BY <1>8, SnapshotWriteType DEF Publish
<1>9. ASSUME NEW i \in Instances, TakeBack(i) PROVE TypeOK'
  BY <1>9 DEF TakeBack
<1>10. ASSUME NEW i \in Instances, WriteStopped(i) PROVE TypeOK'
  <2>1. snapFile' \in Snaps
    BY <1>10, StoppedSnapshotType
  <2>2. /\ faulted' \in SUBSET {"lock", "snapshot", "pid"}
        /\ Steps(i, "removePid") /\ DaemonKeeps /\ UNCHANGED <<locks, pidFile>>
    BY <1>10 DEF WriteStopped
  <2> QED BY <2>1, <2>2
<1>11. ASSUME NEW i \in Instances, RemovePid(i) PROVE TypeOK'
  BY <1>11 DEF RemovePid
<1>12. ASSUME NEW i \in Instances, FreeLifetime(i) PROVE TypeOK'
  BY <1>12 DEF FreeLifetime
<1>13. ASSUME NEW i \in Instances, FreeTransition(i) PROVE TypeOK'
  BY <1>13 DEF FreeTransition
<1>14. ASSUME NEW i \in Instances, Launch(i) PROVE TypeOK'
  BY <1>14 DEF Launch
<1>15. ASSUME NEW i \in Instances, Crash(i) PROVE TypeOK'
  BY <1>15 DEF Crash
<1>16. ASSUME NEW c \in Clients, Begin(c) PROVE TypeOK'
  BY <1>16 DEF Begin
<1>17. ASSUME NEW c \in Clients, Glance(c) PROVE TypeOK'
  BY <1>17 DEF Glance
<1>18. ASSUME NEW c \in Clients, Unglance(c) PROVE TypeOK'
  BY <1>18 DEF Unglance
<1>19. ASSUME NEW c \in Clients, TakeQuery(c) PROVE TypeOK'
  BY <1>19 DEF TakeQuery
<1>20. ASSUME NEW c \in Clients, Probe(c) PROVE TypeOK'
  BY <1>20 DEF Probe
<1>21. ASSUME NEW c \in Clients, Unprobe(c) PROVE TypeOK'
  BY <1>21 DEF Unprobe
<1>22. ASSUME NEW c \in Clients, ReadPid(c) PROVE TypeOK'
  BY <1>22 DEF ReadPid
<1>23. ASSUME NEW c \in Clients, ReadSnap(c) PROVE TypeOK'
  BY <1>23 DEF ReadSnap
<1>24. ASSUME NEW c \in Clients, CheckAlive(c) PROVE TypeOK'
  BY <1>24 DEF CheckAlive
<1>25. ASSUME NEW c \in Clients, Term(c) PROVE TypeOK'
  <2>1. CASE who[pid[seen[c]]] \in Instances
    BY <1>25, <2>1, SigtermType DEF Term
  <2>2. CASE who[pid[seen[c]]] \notin Instances
    BY <1>25, <2>2 DEF Term
  <2> QED BY <2>1, <2>2
<1>26. ASSUME NEW c \in Clients, DropQuery(c) PROVE TypeOK'
  BY <1>26, AfterQueryIs DEF DropQuery
<1>27. ASSUME NEW c \in Clients, Spawn(c) PROVE TypeOK'
  BY <1>27 DEF Spawn
<1>28. ASSUME NEW c \in Clients, PollChild(c) PROVE TypeOK'
  BY <1>28 DEF PollChild
<1>29. ASSUME NEW c \in Clients, Deadline(c) PROVE TypeOK'
  <2>1. child[c] \in Instances
    BY <1>29 DEF Deadline, PidInv
  <2>2. CASE Sigterm(child[c])
    BY <1>29, <2>1, <2>2, SigtermType DEF Deadline
  <2>3. CASE UNCHANGED <<locks, daemon>>
    BY <1>29, <2>3 DEF Deadline
  <2> QED BY <1>29, <2>2, <2>3 DEF Deadline
<1>30. ASSUME NEW c \in Clients, WaitStopped(c) PROVE TypeOK'
  BY <1>30 DEF WaitStopped
<1>31. ASSUME NEW c \in Clients, Unwait(c) PROVE TypeOK'
  BY <1>31 DEF Unwait
<1>32. ASSUME NEW c \in Clients, WaitTimesOut(c) PROVE TypeOK'
  BY <1>32 DEF WaitTimesOut
<1>33. ASSUME NEW p \in Pids, ReusePid(p) PROVE TypeOK'
  BY <1>33 DEF ReusePid
<1>34. CASE UNCHANGED vars
  BY <1>34
<1> QED
  BY <1>1, <1>2, <1>3, <1>4, <1>5, <1>6, <1>7, <1>8, <1>9, <1>10, <1>11,
     <1>12, <1>13, <1>14, <1>15, <1>16, <1>17, <1>18, <1>19, <1>20, <1>21,
     <1>22, <1>23, <1>24, <1>25, <1>26, <1>27, <1>28, <1>29, <1>30, <1>31,
     <1>32, <1>33, <1>34 DEF Next, Daemon, Client

\* Nobody but its holder gives the transition lock up.
LEMMA TransitionStep ==
    ASSUME TypeOK, TransitionInv, [Next]_vars
    PROVE  TransitionInv'
<1> USE ProcessesAssumption, PidsAssumption DEF TypeOK, TransitionInv,
        Opening, Querying, vars, locks, files, daemon, client, DaemonGoes,
        DaemonKeeps, Steps, Fails, Snapshot, ClientGoes, Concludes,
        ClientOnly, ProbeLifetime, ReleaseProbe, Gone, Killed, Released, Boot,
        Reusable, HasTransition, HasLifetime, Handled, Unhandled, Serving,
        Alive, Clients, DaemonPcs
<1>1. ASSUME NEW i \in Instances, TakeTransition(i) PROVE TransitionInv'
  BY <1>1 DEF TakeTransition
<1>2. ASSUME NEW i \in Instances, TakeLifetime(i) PROVE TransitionInv'
  BY <1>2 DEF TakeLifetime
<1>3. ASSUME NEW i \in Instances, RefuseToRun(i) PROVE TransitionInv'
  BY <1>3 DEF RefuseToRun
<1>4. ASSUME NEW i \in Instances, WritePid(i) PROVE TransitionInv'
  BY <1>4 DEF WritePid
<1>5. ASSUME NEW i \in Instances, WriteSnap(i) PROVE TransitionInv'
  BY <1>5 DEF WriteSnap
<1>6. ASSUME NEW i \in Instances, OpenIdentity(i) PROVE TransitionInv'
  BY <1>6 DEF OpenIdentity
<1>7. ASSUME NEW i \in Instances, Loop(i) PROVE TransitionInv'
  BY <1>7 DEF Loop
<1>8. ASSUME NEW i \in Instances, Publish(i) PROVE TransitionInv'
  BY <1>8 DEF Publish
<1>9. ASSUME NEW i \in Instances, TakeBack(i) PROVE TransitionInv'
  BY <1>9 DEF TakeBack
<1>10. ASSUME NEW i \in Instances, WriteStopped(i) PROVE TransitionInv'
  BY <1>10 DEF WriteStopped
<1>11. ASSUME NEW i \in Instances, RemovePid(i) PROVE TransitionInv'
  BY <1>11 DEF RemovePid
<1>12. ASSUME NEW i \in Instances, FreeLifetime(i) PROVE TransitionInv'
  BY <1>12 DEF FreeLifetime
<1>13. ASSUME NEW i \in Instances, FreeTransition(i) PROVE TransitionInv'
  BY <1>13 DEF FreeTransition
<1>14. ASSUME NEW i \in Instances, Launch(i) PROVE TransitionInv'
  BY <1>14 DEF Launch
<1>15. ASSUME NEW i \in Instances, Crash(i) PROVE TransitionInv'
  BY <1>15 DEF Crash
<1>16. ASSUME NEW c \in Clients, Begin(c) PROVE TransitionInv'
  BY <1>16 DEF Begin
<1>17. ASSUME NEW c \in Clients, Glance(c) PROVE TransitionInv'
  BY <1>17 DEF Glance
<1>18. ASSUME NEW c \in Clients, Unglance(c) PROVE TransitionInv'
  BY <1>18 DEF Unglance
<1>19. ASSUME NEW c \in Clients, TakeQuery(c) PROVE TransitionInv'
  BY <1>19 DEF TakeQuery
<1>20. ASSUME NEW c \in Clients, Probe(c) PROVE TransitionInv'
  BY <1>20 DEF Probe
<1>21. ASSUME NEW c \in Clients, Unprobe(c) PROVE TransitionInv'
  BY <1>21 DEF Unprobe
<1>22. ASSUME NEW c \in Clients, ReadPid(c) PROVE TransitionInv'
  BY <1>22 DEF ReadPid
<1>23. ASSUME NEW c \in Clients, ReadSnap(c) PROVE TransitionInv'
  BY <1>23 DEF ReadSnap
<1>24. ASSUME NEW c \in Clients, CheckAlive(c) PROVE TransitionInv'
  BY <1>24 DEF CheckAlive
<1>25. ASSUME NEW c \in Clients, Term(c) PROVE TransitionInv'
  <2>1. CASE who[pid[seen[c]]] \in Instances
    BY <1>25, <2>1, SigtermLocks DEF Term
  <2>2. CASE who[pid[seen[c]]] \notin Instances
    BY <1>25, <2>2 DEF Term
  <2> QED BY <2>1, <2>2
<1>26. ASSUME NEW c \in Clients, DropQuery(c) PROVE TransitionInv'
  BY <1>26, AfterQueryIs DEF DropQuery
<1>27. ASSUME NEW c \in Clients, Spawn(c) PROVE TransitionInv'
  BY <1>27 DEF Spawn
<1>28. ASSUME NEW c \in Clients, PollChild(c) PROVE TransitionInv'
  BY <1>28 DEF PollChild
<1>29. ASSUME NEW c \in Clients, Deadline(c) PROVE TransitionInv'
  BY <1>29 DEF Deadline, Sigterm
<1>30. ASSUME NEW c \in Clients, WaitStopped(c) PROVE TransitionInv'
  BY <1>30 DEF WaitStopped
<1>31. ASSUME NEW c \in Clients, Unwait(c) PROVE TransitionInv'
  BY <1>31 DEF Unwait
<1>32. ASSUME NEW c \in Clients, WaitTimesOut(c) PROVE TransitionInv'
  BY <1>32 DEF WaitTimesOut
<1>33. ASSUME NEW p \in Pids, ReusePid(p) PROVE TransitionInv'
  BY <1>33 DEF ReusePid
<1>34. CASE UNCHANGED vars
  BY <1>34
<1> QED
  BY <1>1, <1>2, <1>3, <1>4, <1>5, <1>6, <1>7, <1>8, <1>9, <1>10, <1>11,
     <1>12, <1>13, <1>14, <1>15, <1>16, <1>17, <1>18, <1>19, <1>20, <1>21,
     <1>22, <1>23, <1>24, <1>25, <1>26, <1>27, <1>28, <1>29, <1>30, <1>31,
     <1>32, <1>33, <1>34 DEF Next, Daemon, Client

\* Nor the lifetime lock, which probes take too.
LEMMA LifetimeStep ==
    ASSUME TypeOK, LifetimeInv, [Next]_vars
    PROVE  LifetimeInv'
<1> USE ProcessesAssumption, PidsAssumption DEF TypeOK, LifetimeInv, Probing,
        vars, locks, files, daemon, client, DaemonGoes, DaemonKeeps, Steps,
        Fails, Snapshot, ClientGoes, Concludes, ClientOnly, ProbeLifetime,
        ReleaseProbe, Gone, Killed, Released, Boot, Reusable, HasTransition,
        HasLifetime, Handled, Unhandled, Serving, Alive, Clients, DaemonPcs
<1>1. ASSUME NEW i \in Instances, TakeTransition(i) PROVE LifetimeInv'
  BY <1>1 DEF TakeTransition
<1>2. ASSUME NEW i \in Instances, TakeLifetime(i) PROVE LifetimeInv'
  BY <1>2 DEF TakeLifetime
<1>3. ASSUME NEW i \in Instances, RefuseToRun(i) PROVE LifetimeInv'
  BY <1>3 DEF RefuseToRun
<1>4. ASSUME NEW i \in Instances, WritePid(i) PROVE LifetimeInv'
  BY <1>4 DEF WritePid
<1>5. ASSUME NEW i \in Instances, WriteSnap(i) PROVE LifetimeInv'
  BY <1>5 DEF WriteSnap
<1>6. ASSUME NEW i \in Instances, OpenIdentity(i) PROVE LifetimeInv'
  BY <1>6 DEF OpenIdentity
<1>7. ASSUME NEW i \in Instances, Loop(i) PROVE LifetimeInv'
  BY <1>7 DEF Loop
<1>8. ASSUME NEW i \in Instances, Publish(i) PROVE LifetimeInv'
  BY <1>8 DEF Publish
<1>9. ASSUME NEW i \in Instances, TakeBack(i) PROVE LifetimeInv'
  BY <1>9 DEF TakeBack
<1>10. ASSUME NEW i \in Instances, WriteStopped(i) PROVE LifetimeInv'
  BY <1>10 DEF WriteStopped
<1>11. ASSUME NEW i \in Instances, RemovePid(i) PROVE LifetimeInv'
  BY <1>11 DEF RemovePid
<1>12. ASSUME NEW i \in Instances, FreeLifetime(i) PROVE LifetimeInv'
  BY <1>12 DEF FreeLifetime
<1>13. ASSUME NEW i \in Instances, FreeTransition(i) PROVE LifetimeInv'
  BY <1>13 DEF FreeTransition
<1>14. ASSUME NEW i \in Instances, Launch(i) PROVE LifetimeInv'
  BY <1>14 DEF Launch
<1>15. ASSUME NEW i \in Instances, Crash(i) PROVE LifetimeInv'
  BY <1>15 DEF Crash
<1>16. ASSUME NEW c \in Clients, Begin(c) PROVE LifetimeInv'
  BY <1>16 DEF Begin
<1>17. ASSUME NEW c \in Clients, Glance(c) PROVE LifetimeInv'
  BY <1>17 DEF Glance
<1>18. ASSUME NEW c \in Clients, Unglance(c) PROVE LifetimeInv'
  BY <1>18 DEF Unglance
<1>19. ASSUME NEW c \in Clients, TakeQuery(c) PROVE LifetimeInv'
  BY <1>19 DEF TakeQuery
<1>20. ASSUME NEW c \in Clients, Probe(c) PROVE LifetimeInv'
  BY <1>20 DEF Probe
<1>21. ASSUME NEW c \in Clients, Unprobe(c) PROVE LifetimeInv'
  BY <1>21 DEF Unprobe
<1>22. ASSUME NEW c \in Clients, ReadPid(c) PROVE LifetimeInv'
  BY <1>22 DEF ReadPid
<1>23. ASSUME NEW c \in Clients, ReadSnap(c) PROVE LifetimeInv'
  BY <1>23 DEF ReadSnap
<1>24. ASSUME NEW c \in Clients, CheckAlive(c) PROVE LifetimeInv'
  BY <1>24 DEF CheckAlive
<1>25. ASSUME NEW c \in Clients, Term(c) PROVE LifetimeInv'
  <2>1. CASE who[pid[seen[c]]] \in Instances
    BY <1>25, <2>1, SigtermLocks DEF Term
  <2>2. CASE who[pid[seen[c]]] \notin Instances
    BY <1>25, <2>2 DEF Term
  <2> QED BY <2>1, <2>2
<1>26. ASSUME NEW c \in Clients, DropQuery(c) PROVE LifetimeInv'
  BY <1>26, AfterQueryIs DEF DropQuery
<1>27. ASSUME NEW c \in Clients, Spawn(c) PROVE LifetimeInv'
  BY <1>27 DEF Spawn
<1>28. ASSUME NEW c \in Clients, PollChild(c) PROVE LifetimeInv'
  BY <1>28 DEF PollChild
<1>29. ASSUME NEW c \in Clients, Deadline(c) PROVE LifetimeInv'
  BY <1>29 DEF Deadline, Sigterm
<1>30. ASSUME NEW c \in Clients, WaitStopped(c) PROVE LifetimeInv'
  BY <1>30 DEF WaitStopped
<1>31. ASSUME NEW c \in Clients, Unwait(c) PROVE LifetimeInv'
  BY <1>31 DEF Unwait
<1>32. ASSUME NEW c \in Clients, WaitTimesOut(c) PROVE LifetimeInv'
  BY <1>32 DEF WaitTimesOut
<1>33. ASSUME NEW p \in Pids, ReusePid(p) PROVE LifetimeInv'
  BY <1>33 DEF ReusePid
<1>34. CASE UNCHANGED vars
  BY <1>34
<1> QED
  BY <1>1, <1>2, <1>3, <1>4, <1>5, <1>6, <1>7, <1>8, <1>9, <1>10, <1>11,
     <1>12, <1>13, <1>14, <1>15, <1>16, <1>17, <1>18, <1>19, <1>20, <1>21,
     <1>22, <1>23, <1>24, <1>25, <1>26, <1>27, <1>28, <1>29, <1>30, <1>31,
     <1>32, <1>33, <1>34 DEF Next, Daemon, Client

\* Pids are handed out one at a time.
LEMMA PidStep ==
    ASSUME TypeOK, PidInv, [Next]_vars
    PROVE  PidInv'
<1> USE ProcessesAssumption, PidsAssumption DEF TypeOK, PidInv, vars, locks,
        files, daemon, client, DaemonGoes, DaemonKeeps, Steps, Fails,
        Snapshot, ClientGoes, Concludes, ClientOnly, ProbeLifetime,
        ReleaseProbe, Gone, Killed, Released, Boot, Reusable, Alive,
        DaemonPcs, Clients
<1>1. ASSUME NEW i \in Instances, TakeTransition(i) PROVE PidInv'
  BY <1>1 DEF TakeTransition
<1>2. ASSUME NEW i \in Instances, TakeLifetime(i) PROVE PidInv'
  BY <1>2 DEF TakeLifetime
<1>3. ASSUME NEW i \in Instances, RefuseToRun(i) PROVE PidInv'
  BY <1>3 DEF RefuseToRun
<1>4. ASSUME NEW i \in Instances, WritePid(i) PROVE PidInv'
  BY <1>4 DEF WritePid
<1>5. ASSUME NEW i \in Instances, WriteSnap(i) PROVE PidInv'
  BY <1>5 DEF WriteSnap
<1>6. ASSUME NEW i \in Instances, OpenIdentity(i) PROVE PidInv'
  BY <1>6 DEF OpenIdentity
<1>7. ASSUME NEW i \in Instances, Loop(i) PROVE PidInv'
  BY <1>7 DEF Loop
<1>8. ASSUME NEW i \in Instances, Publish(i) PROVE PidInv'
  BY <1>8 DEF Publish
<1>9. ASSUME NEW i \in Instances, TakeBack(i) PROVE PidInv'
  BY <1>9 DEF TakeBack
<1>10. ASSUME NEW i \in Instances, WriteStopped(i) PROVE PidInv'
  BY <1>10 DEF WriteStopped
<1>11. ASSUME NEW i \in Instances, RemovePid(i) PROVE PidInv'
  BY <1>11 DEF RemovePid
<1>12. ASSUME NEW i \in Instances, FreeLifetime(i) PROVE PidInv'
  BY <1>12 DEF FreeLifetime
<1>13. ASSUME NEW i \in Instances, FreeTransition(i) PROVE PidInv'
  BY <1>13 DEF FreeTransition
<1>14. ASSUME NEW i \in Instances, Launch(i) PROVE PidInv'
  BY <1>14 DEF Launch
<1>15. ASSUME NEW i \in Instances, Crash(i) PROVE PidInv'
  BY <1>15 DEF Crash
<1>16. ASSUME NEW c \in Clients, Reading(c) PROVE PidInv'
  BY <1>16, ReadingOnly
<1>17. ASSUME NEW c \in Clients, Term(c) PROVE PidInv'
  <2>1. CASE who[pid[seen[c]]] \in Instances
    <3> HIDE DEF PidInv
    <3> QED BY <1>17, <2>1, SigtermKeepsPids DEF Term
  <2>2. CASE who[pid[seen[c]]] \notin Instances
    BY <1>17, <2>2 DEF Term
  <2> QED BY <2>1, <2>2
<1>18. ASSUME NEW c \in Clients, Spawn(c) PROVE PidInv'
  <2>1. PICK i \in Instances : Boot(i) /\ child' = [child EXCEPT ![c] = i]
    BY <1>18 DEF Spawn
  <2>2. c \in Starters
    BY <1>18 DEF Spawn
  <2> QED BY <1>18, <2>1, <2>2 DEF Spawn
<1>19. ASSUME NEW c \in Clients, Deadline(c) PROVE PidInv'
  <2>1. child[c] \in Instances
    BY <1>19 DEF Deadline
  <2>2. CASE Sigterm(child[c])
    <3> HIDE DEF PidInv
    <3>1. /\ child' = child
          /\ cpc[c] = "deadline"
          /\ \E next \in {"drop", "done", "poll"} : cpc' = [cpc EXCEPT ![c] = next]
      BY <1>19 DEF Deadline
    <3> QED BY <2>1, <2>2, <3>1, SigtermKeepsPids
  <2>3. CASE UNCHANGED <<locks, daemon>>
    BY <1>19, <2>3 DEF Deadline
  <2> QED BY <1>19, <2>2, <2>3 DEF Deadline
<1>20. ASSUME NEW p \in Pids, ReusePid(p) PROVE PidInv'
  BY <1>20 DEF ReusePid
<1>21. CASE UNCHANGED vars
  BY <1>21
<1> QED
  BY <1>1, <1>2, <1>3, <1>4, <1>5, <1>6, <1>7, <1>8, <1>9, <1>10, <1>11,
     <1>12, <1>13, <1>14, <1>15, <1>16, <1>17, <1>18, <1>19, <1>20, <1>21
     DEF Next, Daemon, Client, Reading

\* Only the daemon that holds the lifetime lock writes the two files.
LEMMA FilesStep ==
    ASSUME TypeOK, LifetimeInv, FilesInv, [Next]_vars
    PROVE  FilesInv'
<1> USE ProcessesAssumption, PidsAssumption DEF TypeOK, LifetimeInv, FilesInv,
        Published, Serving, HasLifetime, vars, locks, files, daemon, client,
        DaemonGoes, DaemonKeeps, Steps, Fails, Snapshot, ClientGoes,
        Concludes, ClientOnly, ProbeLifetime, ReleaseProbe, Gone, Killed,
        Released, Boot, Reusable
<1>1. ASSUME NEW i \in Instances, TakeTransition(i) PROVE FilesInv'
  BY <1>1 DEF TakeTransition
<1>2. ASSUME NEW i \in Instances, TakeLifetime(i) PROVE FilesInv'
  BY <1>2 DEF TakeLifetime
<1>3. ASSUME NEW i \in Instances, RefuseToRun(i) PROVE FilesInv'
  BY <1>3 DEF RefuseToRun
<1>4. ASSUME NEW i \in Instances, WritePid(i) PROVE FilesInv'
  BY <1>4 DEF WritePid
<1>5. ASSUME NEW i \in Instances, WriteSnap(i) PROVE FilesInv'
  BY <1>5 DEF WriteSnap
<1>6. ASSUME NEW i \in Instances, OpenIdentity(i) PROVE FilesInv'
  BY <1>6 DEF OpenIdentity
<1>7. ASSUME NEW i \in Instances, Loop(i) PROVE FilesInv'
  BY <1>7 DEF Loop
<1>8. ASSUME NEW i \in Instances, Publish(i) PROVE FilesInv'
  BY <1>8 DEF Publish
<1>9. ASSUME NEW i \in Instances, TakeBack(i) PROVE FilesInv'
  BY <1>9 DEF TakeBack
<1>10. ASSUME NEW i \in Instances, WriteStopped(i) PROVE FilesInv'
  BY <1>10 DEF WriteStopped
<1>11. ASSUME NEW i \in Instances, RemovePid(i) PROVE FilesInv'
  BY <1>11 DEF RemovePid
<1>12. ASSUME NEW i \in Instances, FreeLifetime(i) PROVE FilesInv'
  BY <1>12 DEF FreeLifetime
<1>13. ASSUME NEW i \in Instances, FreeTransition(i) PROVE FilesInv'
  BY <1>13 DEF FreeTransition
<1>14. ASSUME NEW i \in Instances, Launch(i) PROVE FilesInv'
  BY <1>14 DEF Launch
<1>15. ASSUME NEW i \in Instances, Crash(i) PROVE FilesInv'
  BY <1>15 DEF Crash
<1>16. ASSUME NEW c \in Clients, Reading(c) PROVE FilesInv'
  BY <1>16, ReadingOnly
<1>17. ASSUME NEW c \in Clients, Term(c) PROVE FilesInv'
  BY <1>17 DEF Term, Sigterm
<1>18. ASSUME NEW c \in Clients, Spawn(c) PROVE FilesInv'
  BY <1>18 DEF Spawn
<1>19. ASSUME NEW c \in Clients, Deadline(c) PROVE FilesInv'
  BY <1>19 DEF Deadline, Sigterm
<1>20. ASSUME NEW p \in Pids, ReusePid(p) PROVE FilesInv'
  BY <1>20 DEF ReusePid
<1>21. CASE UNCHANGED vars
  BY <1>21
<1> QED
  BY <1>1, <1>2, <1>3, <1>4, <1>5, <1>6, <1>7, <1>8, <1>9, <1>10, <1>11,
     <1>12, <1>13, <1>14, <1>15, <1>16, <1>17, <1>18, <1>19, <1>20, <1>21
     DEF Next, Daemon, Client, Reading

\* A daemon removes its identity before it goes, unless it is killed.
LEMMA OwnedStep ==
    ASSUME TypeOK, FilesInv, OwnedInv, [Next]_vars
    PROVE  OwnedInv'
<1> USE ProcessesAssumption, PidsAssumption DEF TypeOK, FilesInv, OwnedInv,
        Unpublished, Published, Serving, Alive, DaemonPcs, Unhandled, Handled,
        HasLifetime, vars, locks, files, daemon, client, DaemonGoes,
        DaemonKeeps, Steps, Fails, Snapshot, ClientGoes, Concludes,
        ClientOnly, ProbeLifetime, ReleaseProbe, Gone, Killed, Released, Boot,
        Reusable, Snaps
<1>1. ASSUME NEW i \in Instances, TakeTransition(i) PROVE OwnedInv'
  BY <1>1 DEF TakeTransition
<1>2. ASSUME NEW i \in Instances, TakeLifetime(i) PROVE OwnedInv'
  BY <1>2 DEF TakeLifetime
<1>3. ASSUME NEW i \in Instances, RefuseToRun(i) PROVE OwnedInv'
  BY <1>3 DEF RefuseToRun
<1>4. ASSUME NEW i \in Instances, WritePid(i) PROVE OwnedInv'
  BY <1>4 DEF WritePid
<1>5. ASSUME NEW i \in Instances, WriteSnap(i) PROVE OwnedInv'
  BY <1>5 DEF WriteSnap
<1>6. ASSUME NEW i \in Instances, OpenIdentity(i) PROVE OwnedInv'
  BY <1>6 DEF OpenIdentity
<1>7. ASSUME NEW i \in Instances, Loop(i) PROVE OwnedInv'
  BY <1>7 DEF Loop
<1>8. ASSUME NEW i \in Instances, Publish(i) PROVE OwnedInv'
  BY <1>8 DEF Publish
<1>9. ASSUME NEW i \in Instances, TakeBack(i) PROVE OwnedInv'
  BY <1>9 DEF TakeBack
<1>10. ASSUME NEW i \in Instances, WriteStopped(i) PROVE OwnedInv'
  <2>1. /\ dpc[i] = "writeStopped" /\ dpc' = [dpc EXCEPT ![i] = "removePid"]
        /\ UNCHANGED <<pidFile, killed>>
    BY <1>10 DEF WriteStopped
  <2>2. CASE /\ snapFile' = [snapFile EXCEPT !.inst = i, !.running = FALSE]
             /\ faulted \subseteq faulted'
    BY <2>1, <2>2
  <2>3. CASE snapFile' = snapFile /\ faulted' = faulted \cup {"snapshot"}
    BY <2>1, <2>3
  <2> QED BY <1>10, <2>2, <2>3 DEF WriteStopped
<1>11. ASSUME NEW i \in Instances, RemovePid(i) PROVE OwnedInv'
  <2>1. /\ dpc[i] = "removePid" /\ dpc' = [dpc EXCEPT ![i] = "freeLifetime"]
        /\ UNCHANGED <<snapFile, killed>>
    BY <1>11 DEF RemovePid
  <2>2. CASE UNCHANGED faulted /\ pidFile' = IF pidFile = i THEN NoOne ELSE pidFile
    BY <2>1, <2>2
  <2>3. CASE faulted' = faulted \cup {"pid"} /\ UNCHANGED pidFile
    BY <2>1, <2>3
  <2> QED BY <1>11, <2>2, <2>3 DEF RemovePid
<1>12. ASSUME NEW i \in Instances, FreeLifetime(i) PROVE OwnedInv'
  BY <1>12 DEF FreeLifetime
<1>13. ASSUME NEW i \in Instances, FreeTransition(i) PROVE OwnedInv'
  BY <1>13 DEF FreeTransition
<1>14. ASSUME NEW i \in Instances, Launch(i) PROVE OwnedInv'
  BY <1>14 DEF Launch
<1>15. ASSUME NEW i \in Instances, Crash(i) PROVE OwnedInv'
  BY <1>15 DEF Crash
<1>16. ASSUME NEW c \in Clients, Reading(c) PROVE OwnedInv'
  BY <1>16, ReadingOnly
<1>17. ASSUME NEW c \in Clients, Term(c) PROVE OwnedInv'
  <2>1. CASE who[pid[seen[c]]] \in Instances
    BY <1>17, <2>1, SigtermKills DEF Term
  <2>2. CASE who[pid[seen[c]]] \notin Instances
    BY <1>17, <2>2 DEF Term
  <2> QED BY <2>1, <2>2
<1>18. ASSUME NEW c \in Clients, Spawn(c) PROVE OwnedInv'
  BY <1>18 DEF Spawn
<1>19. ASSUME NEW c \in Clients, Deadline(c) PROVE OwnedInv'
  BY <1>19 DEF Deadline, Sigterm
<1>20. ASSUME NEW p \in Pids, ReusePid(p) PROVE OwnedInv'
  BY <1>20 DEF ReusePid
<1>21. CASE UNCHANGED vars
  BY <1>21
<1> QED
  BY <1>1, <1>2, <1>3, <1>4, <1>5, <1>6, <1>7, <1>8, <1>9, <1>10, <1>11,
     <1>12, <1>13, <1>14, <1>15, <1>16, <1>17, <1>18, <1>19, <1>20, <1>21
     DEF Next, Daemon, Client, Reading

\* The transition lock keeps the pid file as it was read.
LEMMA SeenStep ==
    ASSUME TypeOK, TransitionInv, PidInv, OwnedInv, SeenInv, [Next]_vars
    PROVE  SeenInv'
<1> USE ProcessesAssumption, PidsAssumption DEF TypeOK, TransitionInv, PidInv,
        OwnedInv, SeenInv, Unpublished, Published, Opening, Querying, vars,
        locks, files, daemon, client, DaemonGoes, DaemonKeeps, Steps, Fails,
        Snapshot, ClientGoes, Concludes, ClientOnly, ProbeLifetime,
        ReleaseProbe, Gone, Killed, Released, Boot, Reusable, HasTransition,
        HasLifetime, Handled, Unhandled, Serving, Alive, Matches, Clients,
        DaemonPcs
<1>1. ASSUME NEW i \in Instances, TakeTransition(i) PROVE SeenInv'
  BY <1>1 DEF TakeTransition
<1>2. ASSUME NEW i \in Instances, TakeLifetime(i) PROVE SeenInv'
  BY <1>2 DEF TakeLifetime
<1>3. ASSUME NEW i \in Instances, RefuseToRun(i) PROVE SeenInv'
  BY <1>3 DEF RefuseToRun
<1>4. ASSUME NEW i \in Instances, WritePid(i) PROVE SeenInv'
  BY <1>4 DEF WritePid
<1>5. ASSUME NEW i \in Instances, WriteSnap(i) PROVE SeenInv'
  BY <1>5 DEF WriteSnap
<1>6. ASSUME NEW i \in Instances, OpenIdentity(i) PROVE SeenInv'
  BY <1>6 DEF OpenIdentity
<1>7. ASSUME NEW i \in Instances, Loop(i) PROVE SeenInv'
  BY <1>7 DEF Loop
<1>8. ASSUME NEW i \in Instances, Publish(i) PROVE SeenInv'
  BY <1>8 DEF Publish
<1>9. ASSUME NEW i \in Instances, TakeBack(i) PROVE SeenInv'
  BY <1>9 DEF TakeBack
<1>10. ASSUME NEW i \in Instances, WriteStopped(i) PROVE SeenInv'
  BY <1>10 DEF WriteStopped
<1>11. ASSUME NEW i \in Instances, RemovePid(i) PROVE SeenInv'
  BY <1>11 DEF RemovePid
<1>12. ASSUME NEW i \in Instances, FreeLifetime(i) PROVE SeenInv'
  BY <1>12 DEF FreeLifetime
<1>13. ASSUME NEW i \in Instances, FreeTransition(i) PROVE SeenInv'
  BY <1>13 DEF FreeTransition
<1>14. ASSUME NEW i \in Instances, Launch(i) PROVE SeenInv'
  BY <1>14 DEF Launch
<1>15. ASSUME NEW i \in Instances, Crash(i) PROVE SeenInv'
  BY <1>15 DEF Crash
<1>16. ASSUME NEW c \in Clients, Begin(c) PROVE SeenInv'
  BY <1>16 DEF Begin
<1>17. ASSUME NEW c \in Clients, Glance(c) PROVE SeenInv'
  BY <1>17 DEF Glance
<1>18. ASSUME NEW c \in Clients, Unglance(c) PROVE SeenInv'
  BY <1>18 DEF Unglance
<1>19. ASSUME NEW c \in Clients, TakeQuery(c) PROVE SeenInv'
  BY <1>19 DEF TakeQuery
<1>20. ASSUME NEW c \in Clients, Probe(c) PROVE SeenInv'
  BY <1>20 DEF Probe
<1>21. ASSUME NEW c \in Clients, Unprobe(c) PROVE SeenInv'
  BY <1>21 DEF Unprobe
<1>22. ASSUME NEW c \in Clients, ReadPid(c) PROVE SeenInv'
  BY <1>22 DEF ReadPid
<1>23. ASSUME NEW c \in Clients, ReadSnap(c) PROVE SeenInv'
  BY <1>23 DEF ReadSnap
<1>24. ASSUME NEW c \in Clients, CheckAlive(c) PROVE SeenInv'
  BY <1>24 DEF CheckAlive
<1>25. ASSUME NEW c \in Clients, Term(c) PROVE SeenInv'
  <2>1. CASE who[pid[seen[c]]] \in Instances
    BY <1>25, <2>1, SigtermMoves DEF Term
  <2>2. CASE who[pid[seen[c]]] \notin Instances
    BY <1>25, <2>2 DEF Term
  <2> QED BY <2>1, <2>2
<1>26. ASSUME NEW c \in Clients, DropQuery(c) PROVE SeenInv'
  BY <1>26, AfterQueryIs DEF DropQuery
<1>27. ASSUME NEW c \in Clients, Spawn(c) PROVE SeenInv'
  BY <1>27 DEF Spawn
<1>28. ASSUME NEW c \in Clients, PollChild(c) PROVE SeenInv'
  BY <1>28 DEF PollChild
<1>29. ASSUME NEW c \in Clients, Deadline(c) PROVE SeenInv'
  <2>1. child[c] \in Instances
    BY <1>29 DEF Deadline, PidInv
  <2>2. CASE Sigterm(child[c])
    BY <1>29, <2>1, <2>2, SigtermMoves DEF Deadline
  <2>3. CASE UNCHANGED <<locks, daemon>>
    BY <1>29, <2>3 DEF Deadline
  <2> QED BY <1>29, <2>2, <2>3 DEF Deadline
<1>30. ASSUME NEW c \in Clients, WaitStopped(c) PROVE SeenInv'
  BY <1>30 DEF WaitStopped
<1>31. ASSUME NEW c \in Clients, Unwait(c) PROVE SeenInv'
  BY <1>31 DEF Unwait
<1>32. ASSUME NEW c \in Clients, WaitTimesOut(c) PROVE SeenInv'
  BY <1>32 DEF WaitTimesOut
<1>33. ASSUME NEW p \in Pids, ReusePid(p) PROVE SeenInv'
  BY <1>33 DEF ReusePid
<1>34. CASE UNCHANGED vars
  BY <1>34
<1> QED
  BY <1>1, <1>2, <1>3, <1>4, <1>5, <1>6, <1>7, <1>8, <1>9, <1>10, <1>11,
     <1>12, <1>13, <1>14, <1>15, <1>16, <1>17, <1>18, <1>19, <1>20, <1>21,
     <1>22, <1>23, <1>24, <1>25, <1>26, <1>27, <1>28, <1>29, <1>30, <1>31,
     <1>32, <1>33, <1>34 DEF Next, Daemon, Client

\* A command's verdict stays true of the daemon it is about.
LEMMA VerdictStep ==
    ASSUME TypeOK, PidInv, LifetimeInv, SeenInv, VerdictInv, [Next]_vars
    PROVE  VerdictInv'
<1> USE ProcessesAssumption, PidsAssumption DEF TypeOK, LifetimeInv, SeenInv,
        VerdictInv, Unpublished, Probing, vars, locks, files, daemon, client,
        DaemonGoes, DaemonKeeps, Steps, Fails, Snapshot, ClientGoes,
        Concludes, ClientOnly, ProbeLifetime, ReleaseProbe, Gone, Killed,
        Released, Boot, Reusable, HasTransition, HasLifetime, Handled,
        Unhandled, Serving, Alive, Clients, DaemonPcs
<1>1. ASSUME NEW i \in Instances, TakeTransition(i) PROVE VerdictInv'
  BY <1>1 DEF TakeTransition
<1>2. ASSUME NEW i \in Instances, TakeLifetime(i) PROVE VerdictInv'
  BY <1>2 DEF TakeLifetime
<1>3. ASSUME NEW i \in Instances, RefuseToRun(i) PROVE VerdictInv'
  BY <1>3 DEF RefuseToRun
<1>4. ASSUME NEW i \in Instances, WritePid(i) PROVE VerdictInv'
  BY <1>4 DEF WritePid
<1>5. ASSUME NEW i \in Instances, WriteSnap(i) PROVE VerdictInv'
  BY <1>5 DEF WriteSnap
<1>6. ASSUME NEW i \in Instances, OpenIdentity(i) PROVE VerdictInv'
  BY <1>6 DEF OpenIdentity
<1>7. ASSUME NEW i \in Instances, Loop(i) PROVE VerdictInv'
  BY <1>7 DEF Loop
<1>8. ASSUME NEW i \in Instances, Publish(i) PROVE VerdictInv'
  BY <1>8 DEF Publish
<1>9. ASSUME NEW i \in Instances, TakeBack(i) PROVE VerdictInv'
  BY <1>9 DEF TakeBack
<1>10. ASSUME NEW i \in Instances, WriteStopped(i) PROVE VerdictInv'
  BY <1>10 DEF WriteStopped
<1>11. ASSUME NEW i \in Instances, RemovePid(i) PROVE VerdictInv'
  BY <1>11 DEF RemovePid
<1>12. ASSUME NEW i \in Instances, FreeLifetime(i) PROVE VerdictInv'
  BY <1>12 DEF FreeLifetime
<1>13. ASSUME NEW i \in Instances, FreeTransition(i) PROVE VerdictInv'
  BY <1>13 DEF FreeTransition
<1>14. ASSUME NEW i \in Instances, Launch(i) PROVE VerdictInv'
  BY <1>14 DEF Launch
<1>15. ASSUME NEW i \in Instances, Crash(i) PROVE VerdictInv'
  BY <1>15 DEF Crash
<1>16. ASSUME NEW c \in Clients, Begin(c) PROVE VerdictInv'
  BY <1>16 DEF Begin
<1>17. ASSUME NEW c \in Clients, Glance(c) PROVE VerdictInv'
  BY <1>17 DEF Glance
<1>18. ASSUME NEW c \in Clients, Unglance(c) PROVE VerdictInv'
  BY <1>18 DEF Unglance
<1>19. ASSUME NEW c \in Clients, TakeQuery(c) PROVE VerdictInv'
  BY <1>19 DEF TakeQuery
<1>20. ASSUME NEW c \in Clients, Probe(c) PROVE VerdictInv'
  BY <1>20 DEF Probe
<1>21. ASSUME NEW c \in Clients, Unprobe(c) PROVE VerdictInv'
  BY <1>21 DEF Unprobe
<1>22. ASSUME NEW c \in Clients, ReadPid(c) PROVE VerdictInv'
  BY <1>22 DEF ReadPid
<1>23. ASSUME NEW c \in Clients, ReadSnap(c) PROVE VerdictInv'
  BY <1>23 DEF ReadSnap
<1>24. ASSUME NEW c \in Clients, CheckAlive(c) PROVE VerdictInv'
  BY <1>24 DEF CheckAlive
<1>25. ASSUME NEW c \in Clients, Term(c) PROVE VerdictInv'
  <2>1. CASE who[pid[seen[c]]] \in Instances
    <3>1. /\ cpc[c] = "term"
          /\ cpc' = [cpc EXCEPT ![c] = "drop"]
          /\ verdict' = [verdict EXCEPT ![c] = "sent"]
          /\ seen' = seen
      BY <1>25 DEF Term
    <3>2. \A i \in Instances : dpc'[i] \in {dpc[i], "dead"}
      BY <1>25, <2>1, SigtermLeavesOrKills DEF Term
    <3> QED BY <3>1, <3>2
  <2>2. CASE who[pid[seen[c]]] \notin Instances
    BY <1>25, <2>2 DEF Term
  <2> QED BY <2>1, <2>2
<1>26. ASSUME NEW c \in Clients, DropQuery(c) PROVE VerdictInv'
  BY <1>26, AfterQueryIs DEF DropQuery
<1>27. ASSUME NEW c \in Clients, Spawn(c) PROVE VerdictInv'
  BY <1>27 DEF Spawn
<1>28. ASSUME NEW c \in Clients, PollChild(c) PROVE VerdictInv'
  BY <1>28 DEF PollChild
<1>29. ASSUME NEW c \in Clients, Deadline(c) PROVE VerdictInv'
  <2>1. CASE UNCHANGED <<locks, daemon, verdict>> /\ ClientGoes(c, "poll")
    BY <1>29, <2>1 DEF Deadline
  <2>2. CASE /\ Sigterm(child[c])
             /\ ClientGoes(c, "done")
             /\ Concludes(c, "timedOut")
    <3>1. /\ cpc[c] = "deadline"
          /\ cpc' = [cpc EXCEPT ![c] = "done"]
          /\ verdict' = [verdict EXCEPT ![c] = "timedOut"]
          /\ seen' = seen
      BY <1>29, <2>2 DEF Deadline
    <3>2. child[c] \in Instances
      BY <1>29 DEF Deadline, PidInv
    <3>3. \A i \in Instances : dpc'[i] \in {dpc[i], "dead"}
      BY <2>2, <3>2, SigtermLeavesOrKills
    <3> QED BY <3>1, <3>3
  <2> QED BY <1>29, <2>1, <2>2 DEF Deadline
<1>30. ASSUME NEW c \in Clients, WaitStopped(c) PROVE VerdictInv'
  BY <1>30 DEF WaitStopped
<1>31. ASSUME NEW c \in Clients, Unwait(c) PROVE VerdictInv'
  BY <1>31 DEF Unwait
<1>32. ASSUME NEW c \in Clients, WaitTimesOut(c) PROVE VerdictInv'
  BY <1>32 DEF WaitTimesOut
<1>33. ASSUME NEW p \in Pids, ReusePid(p) PROVE VerdictInv'
  BY <1>33 DEF ReusePid
<1>34. CASE UNCHANGED vars
  BY <1>34
<1> QED
  BY <1>1, <1>2, <1>3, <1>4, <1>5, <1>6, <1>7, <1>8, <1>9, <1>10, <1>11,
     <1>12, <1>13, <1>14, <1>15, <1>16, <1>17, <1>18, <1>19, <1>20, <1>21,
     <1>22, <1>23, <1>24, <1>25, <1>26, <1>27, <1>28, <1>29, <1>30, <1>31,
     <1>32, <1>33, <1>34 DEF Next, Daemon, Client

-----------------------------------------------------------------------------
(* IInv is inductive.                                                       *)

\* No daemon and no lock: the strengthened invariant holds at the start.
LEMMA InitIInv == ASSUME Init PROVE IInv
<1> USE ProcessesAssumption, PidsAssumption DEF Init
<1>1. TypeOK
  BY DEF TypeOK, DaemonPcs, ClientPcs, Verdicts, Snaps, NoSnap, Clients
<1>2. TransitionInv /\ LifetimeInv
  BY DEF TransitionInv, LifetimeInv, HasTransition, HasLifetime, Opening,
         Querying, Probing, Clients
<1>3. PidInv /\ FilesInv
  BY DEF PidInv, FilesInv, Published, Serving, Alive, Clients
<1>4. OwnedInv
  BY DEF OwnedInv, NoSnap
<1>5. SeenInv /\ VerdictInv
  BY DEF SeenInv, VerdictInv, Clients
<1> QED BY <1>1, <1>2, <1>3, <1>4, <1>5 DEF IInv

\* Every reachable state satisfies IInv.
THEOREM Invariance == Spec => []IInv
<1>1. ASSUME IInv, [Next]_vars PROVE IInv'
  BY <1>1, TypeStep, TransitionStep, LifetimeStep, PidStep, FilesStep,
     OwnedStep, SeenStep, VerdictStep DEF IInv
<1> QED BY <1>1, InitIInv, PTL DEF Spec

-----------------------------------------------------------------------------
(* What it implies.                                                         *)

\* Every variable of the daemon lifecycle (cli.py:_cmd_run and the commands)
\* always has its type.
THEOREM TypeCorrect == Spec => []TypeOK
<1>1. IInv => TypeOK BY DEF IInv
<1> QED BY <1>1, Invariance, PTL

\* Whoever finds a daemon alive and no identity transition going on finds that
\* daemon's identity in both files.
THEOREM IdentityIsPublished == Spec => []IdentityPublished
<1>1. ASSUME IInv PROVE IdentityPublished
  <2>1. SUFFICES ASSUME "lock" \notin faulted, lifetime \in Instances,
                        transition \notin Instances
                 PROVE  dpc[lifetime] \in Published
    BY <1>1 DEF IdentityPublished, IInv, FilesInv
  <2>2. dpc[lifetime] \in HasLifetime
    BY <1>1, <2>1 DEF IInv, LifetimeInv
  <2>3. dpc[lifetime] \notin HasTransition
    BY <1>1, <2>1 DEF IInv, TransitionInv
  <2> QED BY <2>2, <2>3 DEF HasLifetime, HasTransition, Published, Serving
<1> QED BY <1>1, Invariance, PTL

\* An identity a command has accepted belongs to a live, serving daemon under
\* that very pid while the command acts on it.
THEOREM IdentityStaysCurrent == Spec => []IdentityReadIsCurrent
<1>1. ASSUME IInv PROVE IdentityReadIsCurrent
  <2>1. SUFFICES ASSUME NEW c \in Clients,
                        cpc[c] \in {"check", "term", "drop"},
                        verdict[c] = "match",
                        seen[c] \notin killed,
                        faulted = {}
                 PROVE  /\ lifetime = seen[c]
                        /\ dpc[seen[c]] \in Serving
                        /\ who[pid[seen[c]]] = seen[c]
                        /\ child[c] # NoOne => seen[c] = child[c]
    BY DEF IdentityReadIsCurrent
  <2>2. seen[c] \in Instances /\ seen[c] = pidFile
    BY <1>1, <2>1 DEF IInv, SeenInv
  <2>3. dpc[seen[c]] \in {"writeSnap", "writeStopped", "removePid"} \cup Published
    BY <1>1, <2>1, <2>2 DEF IInv, OwnedInv
  <2>4. dpc[seen[c]] \notin HasTransition
    <3>1. transition = c
      BY <1>1, <2>1 DEF IInv, TransitionInv, Querying
    <3> QED BY <1>1, <2>1, <2>2, <3>1, ProcessesAssumption DEF IInv, TransitionInv
  <2>5. dpc[seen[c]] \in Serving
    BY <2>3, <2>4 DEF Published, Serving, HasTransition
  <2>6. lifetime = seen[c]
    BY <1>1, <2>2, <2>5 DEF IInv, LifetimeInv, Serving, HasLifetime
  <2>7. who[pid[seen[c]]] = seen[c]
    BY <1>1, <2>2, <2>5 DEF IInv, PidInv, Serving, Alive, DaemonPcs
  <2>8. ASSUME child[c] # NoOne PROVE seen[c] = child[c]
    <3>1. pid[seen[c]] = pid[child[c]]
      BY <1>1, <2>1, <2>8 DEF IInv, SeenInv
    <3>2. child[c] \in Instances
      BY <1>1, <2>8 DEF IInv, TypeOK
    <3>3. who[pid[child[c]]] \in {child[c], Free}
      BY <1>1, <2>1, <3>2 DEF IInv, PidInv
    <3> QED BY <2>2, <2>7, <3>1, <3>3, PidsAssumption
  <2> QED BY <2>5, <2>6, <2>7, <2>8
<1> QED BY <1>1, Invariance, PTL

\* A stop that answers "stopped" signalled a daemon that is past its teardown.
THEOREM StoppedDaemonIsGone == Spec => []StoppedMeansGone
<1>1. IInv => StoppedMeansGone
  BY DEF IInv, VerdictInv, StoppedMeansGone
<1> QED BY <1>1, Invariance, PTL

\* With no daemon up, an identity still in a file is a killed daemon's, whatever
\* else than the writes of that file failed.
THEOREM ExitLeavesNothing == Spec => []CleanShutdown
<1>1. ASSUME IInv PROVE CleanShutdown
  <2>1. SUFFICES ASSUME lifetime \notin Instances
                 PROVE  /\ \/ pidFile \in killed \cup {NoOne}
                           \/ "pid" \in faulted
                        /\ \/ snapFile.running => snapFile.inst \in killed
                           \/ "snapshot" \in faulted
    BY DEF CleanShutdown
  <2>2. \A i \in Instances : dpc[i] \notin HasLifetime
    BY <1>1, <2>1 DEF IInv, LifetimeInv
  <2>3. pidFile \in Instances \cup {NoOne}
    BY <1>1 DEF IInv, TypeOK
  <2>4. ASSUME "pid" \notin faulted PROVE pidFile \in killed \cup {NoOne}
    BY <1>1, <2>2, <2>3, <2>4
       DEF IInv, OwnedInv, Published, Serving, HasLifetime
  <2>5. ASSUME "snapshot" \notin faulted, snapFile.running
        PROVE  snapFile.inst \in killed
    BY <1>1, <2>2, <2>5 DEF IInv, OwnedInv, Published, Serving, HasLifetime
  <2> QED BY <2>4, <2>5
<1> QED BY <1>1, Invariance, PTL
=============================================================================
