---- MODULE Trace ----
(***************************************************************************)
(* The mailbox between `paneglow trace-input` and the daemon.  A command    *)
(* publishes a request file; the daemon claims it by renaming it to the     *)
(* active marker, collects input events, publishes a result file and        *)
(* removes the marker; the command takes the result.  Commands exclude each *)
(* other with the trace lock, daemons with the lifetime lock, and nothing   *)
(* but the order of the file operations keeps a command and a daemon apart. *)
(*                                                                          *)
(* A request id is made afresh by every command, so a file is known by the  *)
(* command it belongs to; its inode too, since each command creates one     *)
(* request and at most one result is written for it.  A check of an inode   *)
(* and the removal or renaming that follows are two steps.                  *)
(***************************************************************************)
EXTENDS Naturals, FiniteSets

CONSTANTS
    Clients,      \* invocations of trace-input
    Daemons,      \* runs of the daemon, each with its instance id
    NoOne,        \* no file, no holder
    MaxCrashes,   \* bound: commands and daemons killed
    MaxFaults     \* bound: file operations of a daemon that fail

ASSUME NoOneAssumption == NoOne \notin Clients /\ NoOne \notin Daemons
ASSUME BoundsAssumption == MaxCrashes \in Nat /\ MaxFaults \in Nat

VARIABLES
    cpc,          \* where each command is
    bound,        \* bound[c]: the instance c asked
    traceLock,    \* the command holding the trace lock
    request,      \* the file trace_request_path
    active,       \* the file trace_active_path
    result,       \* the file trace_result_path
    expired,      \* requests and results older than their time to live
    dpc,          \* where each daemon is
    seen,         \* the request whose inode the daemon checked
    capture,      \* the request of the capture in the daemon's memory
    printed,      \* commands that printed a result
    crashes, faults

clientVars == <<cpc, bound, traceLock, printed>>
daemonVars == <<dpc, seen, capture>>
files      == <<request, active, result>>
vars       == <<clientVars, daemonVars, files, expired, crashes, faults>>

SomeClient == Clients \cup {NoOne}

Setup    == {"staleRequest", "dropRequest", "staleResult", "dropResult",
             "active", "dropActive", "request", "result", "dropPrior",
             "publish"}
Asking   == {"idle", "identify"} \cup Setup
Waiting  == {"wait", "take", "print"}
Cleaning == {"cleanRequest", "cleanResult", "cleanActive"}
Locked   == {"identify"} \cup Setup \cup Waiting \cup Cleaning
            \cup {"release", "abort"}
ClientPC == {"idle"} \cup Locked \cup {"ended", "aborted", "crashed"}

Starting  == {"dropRequest", "staleResult", "dropResult", "orphan", "find",
              "rename", "read"}
Finishing == {"finish", "dropOld", "check", "publish"}
Running   == {"poll", "unmark"} \cup Starting \cup Finishing
DaemonPC  == {"off", "starting", "closing", "gone"} \cup Running

Init ==
    /\ cpc = [c \in Clients |-> "idle"]
    /\ bound = [c \in Clients |-> NoOne]
    /\ traceLock = NoOne
    /\ request = NoOne /\ active = NoOne /\ result = NoOne
    /\ expired = [request |-> {}, result |-> {}]
    /\ dpc = [d \in Daemons |-> "off"]
    /\ seen = NoOne /\ capture = NoOne
    /\ printed = {}
    /\ crashes = 0 /\ faults = 0

(* ------------------------------ the locks ------------------------------ *)

\* _lock_is_held(paths.lock_path): some daemon holds the lifetime lock.
LifetimeHeld == \E d \in Daemons : dpc[d] \notin {"off", "gone"}

\* _runtime_identity can name d: it has published itself and is not closing.
Published(d) == dpc[d] \in Running \cup {"starting"}

(* --------------------------- time and crashes --------------------------- *)

\* A file outlives its time to live.  The clocks are wall clocks, so this may
\* also happen under a waiting command, when the machine has slept.
Expire(kind, file) ==
    /\ file # NoOne
    /\ file \notin expired[kind]
    /\ expired' = [expired EXCEPT ![kind] = @ \cup {file}]
    /\ UNCHANGED <<clientVars, daemonVars, files, crashes, faults>>

ExpireRequest == Expire("request", request)
ExpireResult  == Expire("result", result)

Expired(kind, file) == file # NoOne /\ file \in expired[kind]

CrashClient(c) ==
    /\ crashes < MaxCrashes
    /\ cpc[c] \in Locked
    /\ crashes' = crashes + 1
    /\ cpc' = [cpc EXCEPT ![c] = "crashed"]
    /\ traceLock' = NoOne
    /\ UNCHANGED <<bound, printed, daemonVars, files, expired, faults>>

CrashDaemon(d) ==
    /\ crashes < MaxCrashes
    /\ dpc[d] \in Running \cup {"starting", "closing"}
    /\ crashes' = crashes + 1
    /\ dpc' = [dpc EXCEPT ![d] = "gone"]
    /\ capture' = NoOne
    /\ UNCHANGED <<seen, clientVars, files, expired, faults>>

(* ------------------------------ the daemon ------------------------------ *)

GoD(d, from, to) == dpc[d] = from /\ dpc' = [dpc EXCEPT ![d] = to]

\* The lock is taken and the identity published in one observable step, before
\* the mailbox exists (see Lifecycle).
Launch(d) ==
    /\ ~LifetimeHeld
    /\ GoD(d, "off", "starting")
    /\ UNCHANGED <<seen, capture, clientVars, files, expired, crashes, faults>>

BindInstance(d) ==
    /\ GoD(d, "starting", "poll")
    /\ UNCHANGED <<seen, capture, clientVars, files, expired, crashes, faults>>

\* _start_request: the request file, if it is older than its time to live, is
\* removed by name; the check and the removal are two steps.
PollStaleRequest(d) ==
    /\ capture = NoOne
    /\ GoD(d, "poll", IF Expired("request", request) THEN "dropRequest"
                                                     ELSE "staleResult")
    /\ UNCHANGED <<seen, capture, clientVars, files, expired, crashes, faults>>

PollDropRequest(d) ==
    /\ GoD(d, "dropRequest", IF request = NoOne THEN "poll" ELSE "staleResult")
    /\ request' = NoOne
    /\ UNCHANGED <<active, result, seen, capture, clientVars, expired, crashes,
                   faults>>

PollStaleResult(d) ==
    /\ GoD(d, "staleResult", IF Expired("result", result) THEN "dropResult"
                                                          ELSE "orphan")
    /\ UNCHANGED <<seen, capture, clientVars, files, expired, crashes, faults>>

PollDropResult(d) ==
    /\ GoD(d, "dropResult", IF result = NoOne THEN "poll" ELSE "orphan")
    /\ result' = NoOne
    /\ UNCHANGED <<request, active, seen, capture, clientVars, expired, crashes,
                   faults>>

\* A mutant: a marker left behind is taken for a capture that is going on.
KeepOrphan(d) ==
    /\ GoD(d, "orphan", IF active = NoOne THEN "find" ELSE "poll")
    /\ UNCHANGED <<seen, capture, clientVars, files, expired, crashes, faults>>

\* A marker that no capture in memory owns is removed.
RemoveOrphan(d) ==
    /\ GoD(d, "orphan", "find")
    /\ active' = NoOne
    /\ UNCHANGED <<request, result, seen, capture, clientVars, expired, crashes,
                   faults>>

FindRequest(d) ==
    /\ GoD(d, "find", IF request = NoOne THEN "poll" ELSE "rename")
    /\ seen' = request
    /\ UNCHANGED <<capture, clientVars, files, expired, crashes, faults>>

\* _claim_trace_inode, from its last check on: whatever is called request now
\* is renamed; if that is not the inode that was checked, the claim fails and
\* leaves the marker behind.
Claim(d) ==
    /\ GoD(d, "rename", IF request = seen THEN "read" ELSE "poll")
    /\ request' = NoOne
    /\ active' = IF request = NoOne THEN active ELSE request
    /\ UNCHANGED <<result, seen, capture, clientVars, expired, crashes, faults>>

\* The claimed file is read: a capture starts if it is still there, young
\* enough and meant for this instance; otherwise the marker is removed.
ReadRequest(d) ==
    /\ GoD(d, "read", "poll")
    /\ IF active = seen /\ seen \notin expired.request /\ bound[seen] = d
       THEN capture' = seen /\ UNCHANGED active
       ELSE active' = NoOne /\ UNCHANGED capture
    /\ UNCHANGED <<seen, request, result, clientVars, expired, crashes, faults>>

\* The deadline has passed, or the last event has come: _finish.
Finish(d) ==
    /\ capture # NoOne
    /\ GoD(d, "poll", "finish")
    /\ UNCHANGED <<seen, capture, clientVars, files, expired, crashes, faults>>

FinishStaleResult(d) ==
    /\ GoD(d, "finish", IF Expired("result", result) THEN "dropOld" ELSE "check")
    /\ UNCHANGED <<seen, capture, clientVars, files, expired, crashes, faults>>

FinishDropOld(d) ==
    /\ GoD(d, "dropOld", IF result = NoOne THEN "unmark" ELSE "check")
    /\ result' = NoOne
    /\ UNCHANGED <<request, active, seen, capture, clientVars, expired, crashes,
                   faults>>

\* A result that is already there is never replaced; the new one is lost.
FinishCheck(d) ==
    /\ GoD(d, "check", IF result = NoOne THEN "publish" ELSE "unmark")
    /\ UNCHANGED <<seen, capture, clientVars, files, expired, crashes, faults>>

PublishResult(d) ==
    /\ GoD(d, "publish", "unmark")
    /\ result' = capture
    /\ UNCHANGED <<request, active, seen, capture, clientVars, expired, crashes,
                   faults>>

\* The marker goes last.
Unmark(d) ==
    /\ GoD(d, "unmark", "poll")
    /\ active' = IF active = capture THEN NoOne ELSE active
    /\ capture' = NoOne
    /\ UNCHANGED <<request, result, seen, clientVars, expired, crashes, faults>>

\* A file operation fails.  poll swallows it, _finish still removes its marker
\* unless that is what fails, and a claimed request that cannot be read loses
\* its marker at once or at the next poll.
Fault(d) ==
    /\ faults < MaxFaults
    /\ faults' = faults + 1
    /\ \/ /\ \E pc \in Starting : GoD(d, pc, "poll")
          /\ active' \in IF dpc[d] = "read" THEN {active, NoOne} ELSE {active}
          /\ UNCHANGED capture
       \/ /\ \E pc \in Finishing : GoD(d, pc, "unmark")
          /\ UNCHANGED <<active, capture>>
       \/ /\ GoD(d, "unmark", "poll")
          /\ capture' = NoOne
          /\ UNCHANGED active
    /\ UNCHANGED <<seen, request, result, clientVars, expired, crashes>>

Stop(d) ==
    /\ GoD(d, "poll", "closing")
    /\ UNCHANGED <<seen, capture, clientVars, files, expired, crashes, faults>>

\* close removes only the marker of the capture in memory.
Close(d) ==
    /\ GoD(d, "closing", "gone")
    /\ active' = IF active = capture THEN NoOne ELSE active
    /\ capture' = NoOne
    /\ UNCHANGED <<seen, request, result, clientVars, expired, crashes, faults>>

(* ----------------------------- the command ------------------------------ *)

GoC(c, from, to) == cpc[c] = from /\ cpc' = [cpc EXCEPT ![c] = to]

\* A mutant: the trace lock is not tried.
LockRegardless(c) ==
    /\ GoC(c, "idle", "identify")
    /\ traceLock' = c
    /\ UNCHANGED <<bound, printed, daemonVars, files, expired, crashes, faults>>

Lock(c) ==
    /\ GoC(c, "idle", IF traceLock = NoOne THEN "identify" ELSE "ended")
    /\ traceLock' = IF traceLock = NoOne THEN c ELSE traceLock
    /\ UNCHANGED <<bound, printed, daemonVars, files, expired, crashes, faults>>

Identify(c) ==
    /\ GoC(c, "identify", "staleRequest")
    /\ \E d \in Daemons :
          Published(d) /\ bound' = [bound EXCEPT ![c] = d]
    /\ UNCHANGED <<traceLock, printed, daemonVars, files, expired, crashes,
                   faults>>

\* Without an identity there is nothing to clean up.
NotIdentified(c) ==
    /\ GoC(c, "identify", "release")
    /\ UNCHANGED <<bound, traceLock, printed, daemonVars, files, expired,
                   crashes, faults>>

\* Every later step may fail: the file changed, the mailbox is occupied, an
\* operation failed, the daemon cannot be identified, the deadline passed.
Fail(c) ==
    /\ \E pc \in Setup \cup Waiting : GoC(c, pc, "cleanRequest")
    /\ UNCHANGED <<bound, traceLock, printed, daemonVars, files, expired,
                   crashes, faults>>

StaleRequest(c) ==
    /\ GoC(c, "staleRequest", IF Expired("request", request)
                              THEN "dropRequest" ELSE "staleResult")
    /\ UNCHANGED <<bound, traceLock, printed, daemonVars, files, expired,
                   crashes, faults>>

DropRequest(c) ==
    /\ request # NoOne
    /\ GoC(c, "dropRequest", "staleResult")
    /\ request' = NoOne
    /\ UNCHANGED <<active, result, bound, traceLock, printed, daemonVars,
                   expired, crashes, faults>>

StaleResult(c) ==
    /\ GoC(c, "staleResult", IF Expired("result", result)
                             THEN "dropResult" ELSE "active")
    /\ UNCHANGED <<bound, traceLock, printed, daemonVars, files, expired,
                   crashes, faults>>

DropResult(c) ==
    /\ result # NoOne
    /\ GoC(c, "dropResult", "active")
    /\ result' = NoOne
    /\ UNCHANGED <<request, active, bound, traceLock, printed, daemonVars,
                   expired, crashes, faults>>

\* A mutant: any marker is taken for a dead daemon's.
CheckActiveRegardless(c) ==
    /\ GoC(c, "active", IF active = NoOne THEN "request" ELSE "dropActive")
    /\ UNCHANGED <<bound, traceLock, printed, daemonVars, files, expired,
                   crashes, faults>>

\* A mutant: the marker is not looked at.
CheckActiveNever(c) ==
    /\ GoC(c, "active", "request")
    /\ UNCHANGED <<bound, traceLock, printed, daemonVars, files, expired,
                   crashes, faults>>

\* A marker of this instance is a capture that is going on; that of another
\* instance was left by a daemon that died.
CheckActive(c) ==
    /\ active # NoOne => bound[active] # bound[c]
    /\ GoC(c, "active", IF active = NoOne THEN "request" ELSE "dropActive")
    /\ UNCHANGED <<bound, traceLock, printed, daemonVars, files, expired,
                   crashes, faults>>

DropActive(c) ==
    /\ GoC(c, "dropActive", "request")
    /\ active' = NoOne
    /\ UNCHANGED <<request, result, bound, traceLock, printed, daemonVars,
                   expired, crashes, faults>>

CheckRequest(c) ==
    /\ request = NoOne
    /\ GoC(c, "request", "result")
    /\ UNCHANGED <<bound, traceLock, printed, daemonVars, files, expired,
                   crashes, faults>>

CheckResult(c) ==
    /\ GoC(c, "result", IF result = NoOne THEN "publish" ELSE "dropPrior")
    /\ UNCHANGED <<bound, traceLock, printed, daemonVars, files, expired,
                   crashes, faults>>

DropPrior(c) ==
    /\ GoC(c, "dropPrior", "publish")
    /\ result' = NoOne
    /\ UNCHANGED <<request, active, bound, traceLock, printed, daemonVars,
                   expired, crashes, faults>>

PublishRequest(c) ==
    /\ request = NoOne
    /\ GoC(c, "publish", "wait")
    /\ request' = c
    /\ UNCHANGED <<active, result, bound, traceLock, printed, daemonVars,
                   expired, crashes, faults>>

\* A mutant: any result is taken for this command's.
ReadAnyResult(c) ==
    /\ result # NoOne
    /\ GoC(c, "wait", "take")
    /\ UNCHANGED <<bound, traceLock, printed, daemonVars, files, expired,
                   crashes, faults>>

\* A result with another identity makes the command fail, see Fail.
ReadResult(c) ==
    /\ result = c
    /\ GoC(c, "wait", "take")
    /\ UNCHANGED <<bound, traceLock, printed, daemonVars, files, expired,
                   crashes, faults>>

TakeResult(c) ==
    /\ GoC(c, "take", "print")
    /\ result' = NoOne
    /\ UNCHANGED <<request, active, bound, traceLock, printed, daemonVars,
                   expired, crashes, faults>>

Own(c, file) == IF file = c THEN NoOne ELSE file

PrintResult(c) ==
    /\ GoC(c, "print", "cleanRequest")
    /\ request' = Own(c, request)
    /\ printed' = printed \cup {c}
    /\ UNCHANGED <<active, result, bound, traceLock, daemonVars, expired,
                   crashes, faults>>

\* The finally block: each file only if it is this command's.
CleanRequest(c) ==
    /\ GoC(c, "cleanRequest", "cleanResult")
    /\ request' = Own(c, request)
    /\ UNCHANGED <<active, result, bound, traceLock, printed, daemonVars,
                   expired, crashes, faults>>

CleanResult(c) ==
    /\ GoC(c, "cleanResult", "cleanActive")
    /\ result' = Own(c, result)
    /\ UNCHANGED <<request, active, bound, traceLock, printed, daemonVars,
                   expired, crashes, faults>>

\* The marker only once the daemon that was asked is gone.
CleanActive(c) ==
    /\ GoC(c, "cleanActive", "release")
    /\ \/ /\ ~LifetimeHeld \/ \E d \in Daemons : Published(d) /\ bound[c] # d
          /\ active' = Own(c, active)
       \/ /\ LifetimeHeld
          /\ UNCHANGED active
    /\ UNCHANGED <<request, result, bound, traceLock, printed, daemonVars,
                   expired, crashes, faults>>

CleaningFails(c) ==
    /\ \E pc \in Cleaning : GoC(c, pc, "abort")
    /\ faults < MaxFaults
    /\ faults' = faults + 1
    /\ UNCHANGED <<bound, traceLock, printed, daemonVars, files, expired,
                   crashes>>

Release(c) ==
    /\ GoC(c, "release", "ended") \/ GoC(c, "abort", "aborted")
    /\ traceLock' = NoOne
    /\ UNCHANGED <<bound, printed, daemonVars, files, expired, crashes, faults>>

(* ------------------------------------------------------------------------ *)

ClientStep(c) ==
    \/ Lock(c) \/ Identify(c) \/ NotIdentified(c) \/ Fail(c)
    \/ StaleRequest(c) \/ DropRequest(c) \/ StaleResult(c) \/ DropResult(c)
    \/ CheckActive(c) \/ DropActive(c) \/ CheckRequest(c) \/ CheckResult(c)
    \/ DropPrior(c) \/ PublishRequest(c)
    \/ ReadResult(c) \/ TakeResult(c) \/ PrintResult(c)
    \/ CleanRequest(c) \/ CleanResult(c) \/ CleanActive(c) \/ CleaningFails(c)
    \/ Release(c)

Poll(d) ==
    \/ PollStaleRequest(d) \/ PollDropRequest(d)
    \/ PollStaleResult(d) \/ PollDropResult(d)
    \/ RemoveOrphan(d) \/ FindRequest(d) \/ Claim(d) \/ ReadRequest(d)
    \/ Finish(d) \/ FinishStaleResult(d) \/ FinishDropOld(d) \/ FinishCheck(d)
    \/ PublishResult(d) \/ Unmark(d)

DaemonStep(d) ==
    \/ Launch(d) \/ BindInstance(d) \/ Poll(d) \/ Fault(d)
    \/ Stop(d) \/ Close(d)

Next ==
    \/ \E c \in Clients : ClientStep(c) \/ CrashClient(c)
    \/ \E d \in Daemons : DaemonStep(d) \/ CrashDaemon(d)
    \/ ExpireRequest \/ ExpireResult

\* A command that runs ends, a daemon's loop goes on, and time passes.
Fairness ==
    /\ \A c \in Clients : WF_vars(cpc[c] # "idle" /\ ClientStep(c))
    /\ \A d \in Daemons : WF_vars(Poll(d))
    /\ WF_vars(ExpireResult)

Spec     == Init /\ [][Next]_vars
FairSpec == Spec /\ Fairness

(* ----------------------------- properties ------------------------------- *)

\* Every variable keeps its type; the trace lock is held by exactly one of the
\* commands that are past it, and at most one daemon lives.
TypeOK ==
    /\ cpc \in [Clients -> ClientPC]
    /\ bound \in [Clients -> Daemons \cup {NoOne}]
    /\ traceLock \in SomeClient
    /\ \A c \in Clients : cpc[c] \in Locked <=> traceLock = c
    /\ request \in SomeClient /\ active \in SomeClient /\ result \in SomeClient
    /\ expired \in [{"request", "result"} -> SUBSET Clients]
    /\ dpc \in [Daemons -> DaemonPC]
    /\ \A d, e \in Daemons :
          {dpc[d], dpc[e]} \cap {"off", "gone"} = {} => d = e
    /\ seen \in SomeClient /\ capture \in SomeClient
    /\ printed \subseteq Clients
    /\ crashes \in 0..MaxCrashes /\ faults \in 0..MaxFaults

\* Commands that were killed or could not clean up after themselves.
Interrupted == {c \in Clients : cpc[c] \in {"crashed", "aborted"}}

\* The active marker stands for the whole capture: no command and no clean-up
\* removes it from under the daemon that is capturing, unless two commands were
\* interrupted (then one of their markers may be mistaken for the other's).  (cli.py 1276-1300,
\* 2581-2587 and 2665-2688: who may remove the marker, and when)
MarkerStands ==
    capture # NoOne /\ Cardinality(Interrupted) < 2 => active = capture

\* While a command waits for its own capture, the daemon captures for another
\* command only if that one was killed or could not clean up.  (cli.py 1292-1299: the claim under an
\* active marker; 2588-2605: the checks before a request is published)
SerializedUnlessKilled ==
    \A b, c \in Clients :
        b # c /\ cpc[c] = "wait" /\ capture = b
        => b \in Interrupted

\* How far the request of c has come, read off the files and the memories.
Asked(c)     == \/ request = c
                \/ seen = c /\ active = c /\ \E d \in Daemons : dpc[d] = "read"
Capturing(c) == capture = c /\ \A d \in Daemons : dpc[d] # "unmark"
Offered(c)   == result = c \/ cpc[c] \in {"take", "print"}

Stage(c) ==
    IF c \in printed THEN "delivered"
    ELSE IF Offered(c) THEN "offered"
    ELSE IF Capturing(c) THEN "capturing"
    ELSE IF Asked(c) THEN "asked"
    ELSE IF cpc[c] \in Asking THEN "idle"
    ELSE "over"

stages == [c \in Clients |-> Stage(c)]

\* The mailbox keeps the promise of OneShot: captures never overlap, each
\* request is captured at most once, and its result is delivered at most once,
\* to the command that asked.
Promise == INSTANCE OneShot WITH stage <- stages
KeepsPromise == Promise!Spec

\* Whatever commands and daemons left behind when they died, a daemon that
\* stays up clears the mailbox.  (cli.py 1265-1283, 1332-1373)
MailboxDrains ==
    (\E d \in Daemons : <>[](dpc[d] \in Running))
    => <>[](request = NoOne /\ active = NoOne /\ result = NoOne)
====
