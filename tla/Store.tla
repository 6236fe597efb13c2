-------------------------------- MODULE Store --------------------------------
(***************************************************************************)
(* The session records (src/paneglow/store.py) and the hook processes that *)
(* write them (src/paneglow/hook.py).  Hooks overlap.  Each one stamps its *)
(* event with the time it started, then checks and writes under one lock;  *)
(* an idle_prompt reads the store first, outside that lock.  os.replace    *)
(* makes a write whole for readers, which take no lock, so a locked        *)
(* check-and-write is one step here.  Time is the hooks' common clock.     *)
(***************************************************************************)
EXTENDS Naturals

CONSTANTS
    Sessions,       \* session ids
    Hooks,          \* hook processes that may run at once
    Events,         \* the kinds of events Claude calls hooks with
    Absent,         \* no record
    Tracked,        \* the sessions whose history is kept for the properties
    Ttl,            \* cfg.ttl_minutes
    MaxTime         \* bound: the last tick of the clock

AllEvents == {"SessionStart", "PreToolUse", "AskUserQuestion", "Stop", "StopFailure",
              "permission_prompt", "idle_prompt", "subagent"}

ASSUME StoreAssumption ==
    /\ Events \subseteq AllEvents /\ Tracked \subseteq Sessions
    /\ Ttl \in Nat /\ MaxTime \in Nat
    /\ Absent \notin [state : {"idle", "working", "waiting", "done", "error"}, rev : 1..MaxTime]

VARIABLES
    clock,          \* time.time_ns(), which no two hooks read alike
    records,        \* the record file of each session
    hooks,          \* what each hook process is about to do
    best,           \* history: the newest record a hook set out to write
    gap             \* history: sessions that lost a record or a write

States  == {"idle", "working", "waiting", "done", "error"}
Records == [state : States, rev : 1..MaxTime]
Resting == [pc |-> "idle", session |-> Absent, event |-> "none", record |-> Absent]

StoreTypeOK ==
    /\ clock \in 0..MaxTime
    /\ records \in [Sessions -> Records \cup {Absent}]
    /\ hooks \in [Hooks -> [pc : {"idle", "called", "promote", "write"},
                            session : Sessions \cup {Absent},
                            event : Events \cup {"none"},
                            record : Records \cup {Absent}]]
    /\ best \in [Sessions -> Records \cup {Absent}]
    /\ gap \subseteq Sessions

StoreInit ==
    /\ clock = 0
    /\ records = [s \in Sessions |-> Absent]
    /\ hooks = [h \in Hooks |-> Resting]
    /\ best = [s \in Sessions |-> Absent]
    /\ gap = {}

Newer(record, than) == than = Absent \/ record.rev > than.rev

\* classify: the state an event stands for; the others change nothing by
\* themselves.
Classified == {"SessionStart", "PreToolUse", "AskUserQuestion", "Stop", "StopFailure",
               "permission_prompt"}
Classify(event) ==
    CASE event = "SessionStart" -> "idle"
      [] event = "PreToolUse"   -> "working"
      [] event = "Stop"         -> "done"
      [] event = "StopFailure"  -> "error"
      [] event \in {"AskUserQuestion", "permission_prompt"} -> "waiting"

\* The hook h will write this record.
SetsOut(h, record) ==
    LET s == hooks[h].session IN
    /\ hooks' = [hooks EXCEPT ![h].pc = "write", ![h].record = record]
    /\ best' = [best EXCEPT ![s] = IF s \in Tracked /\ Newer(record, @) THEN record ELSE @]
Ends(h) == hooks' = [hooks EXCEPT ![h] = Resting]

\* Claude runs the hook.
Call(h, s, event) ==
    /\ hooks[h].pc = "idle"
    /\ clock < MaxTime
    /\ hooks' = [hooks EXCEPT ![h] =
                   [pc |-> "called", session |-> s, event |-> event, record |-> Absent]]
    /\ UNCHANGED <<clock, records, best, gap>>

\* run and record_from: rev=time.time_ns().
Stamp(h) ==
    /\ hooks[h].pc = "called"
    /\ clock < MaxTime /\ clock' = clock + 1
    /\ \/ /\ hooks[h].event \in Classified
          /\ SetsOut(h, [state |-> Classify(hooks[h].event), rev |-> clock'])
       \/ /\ hooks[h].event = "idle_prompt"
          /\ hooks' = [hooks EXCEPT ![h].pc = "promote",
                                    ![h].record = [state |-> "waiting", rev |-> clock']]
          /\ UNCHANGED best
       \/ /\ hooks[h].event \notin Classified \cup {"idle_prompt"}
          /\ Ends(h)
          /\ UNCHANGED best
    /\ UNCHANGED <<records, gap>>

\* _idle_promotion: only a session that reads as working becomes waiting.
Promote(h) ==
    /\ hooks[h].pc = "promote"
    /\ LET current == records[hooks[h].session] IN
         IF current # Absent /\ current.state = "working"
           THEN SetsOut(h, hooks[h].record)
           ELSE Ends(h) /\ UNCHANGED best
    /\ UNCHANGED <<clock, records, gap>>

\* write: under the lock, and only if the record is newer than the stored one.
\* Mutant: without the check.
WriteRegardless(h) ==
    /\ hooks[h].pc = "write"
    /\ records' = [records EXCEPT ![hooks[h].session] = hooks[h].record]
    /\ Ends(h)
    /\ UNCHANGED <<clock, best, gap>>

Write(h) ==
    /\ hooks[h].pc = "write"
    /\ records' = [records EXCEPT ![hooks[h].session] =
                     IF Newer(hooks[h].record, @) THEN hooks[h].record ELSE @]
    /\ Ends(h)
    /\ UNCHANGED <<clock, best, gap>>

\* The hook is killed, or raises and swallows it, with its write still to do.
Fail(h) ==
    /\ hooks[h].pc \in {"promote", "write"}
    /\ gap' = gap \cup ({hooks[h].session} \cap Tracked)
    /\ Ends(h)
    /\ UNCHANGED <<clock, records, best>>

\* prune, under the same lock: live is authoritative, or else the TTL decides.
\* Mutant: live always decides.
StaleByScan(s, live, authoritative, now) == s \notin live
Stale(s, live, authoritative, now) ==
    IF authoritative THEN s \notin live ELSE now > records[s].rev + Ttl
Prune(live, authoritative, now) ==
    LET gone == {s \in Sessions : records[s] # Absent /\ Stale(s, live, authoritative, now)}
    IN /\ records' = [s \in Sessions |-> IF s \in gone THEN Absent ELSE records[s]]
       /\ gap' = gap \cup (gone \cap Tracked)
       /\ UNCHANGED <<clock, hooks, best>>

Hook(h) == Stamp(h) \/ Promote(h) \/ Write(h) \/ Fail(h)

-----------------------------------------------------------------------------

\* "completion order decides, not rev order. The loss that matters is Stop
\* (done) being overwritten by a PostToolUse (working) that read stale"
\* (store.py:9-10): once the hooks of a session have ended, its record is the
\* newest any of them set out to write, whatever order they ended in.
LatestRevStands ==
    \A s \in Tracked :
        /\ s \notin gap
        /\ \A h \in Hooks : hooks[h].session = s => hooks[h].pc # "write"
        => records[s] = best[s]

\* "A completed turn already moved to done via Stop, which keeps finished
\* sessions from lighting up as waiting" (hook.py:95): no idle_prompt turns a
\* finished session's record into waiting.
FinishedStaysFinished ==
    [][\A h \in Hooks :
          LET s == hooks[h].session IN
          hooks[h].event = "idle_prompt" /\ records' # records /\ hooks'[h] = Resting
              => records[s] = Absent \/ records[s].state # "done"]_<<records, hooks>>
=============================================================================
