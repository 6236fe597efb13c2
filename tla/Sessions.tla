------------------------------- MODULE Sessions -------------------------------
(***************************************************************************)
(* From Claude's sessions to the A keys: the session scan (sessions.py),   *)
(* the records the hooks leave (Store), the states they stand for now      *)
(* (render.py), and the keys the daemon gives them (Slots), as composed by *)
(* _refresh_sessions in daemon.py, while sessions start and end and hooks  *)
(* run between any two of its steps.                                       *)
(***************************************************************************)
EXTENDS Store, Slots, FiniteSets

CONSTANTS
    Policies,       \* the values of cfg.slots_order to consider
    WorkingMax,     \* cfg.working_max_seconds
    DoneFade        \* cfg.done_fade_seconds

ASSUME SessionsAssumption ==
    /\ Sessions \subseteq Nat
    /\ Policies \subseteq {"recent_sticky", "recent", "priority"}
    /\ WorkingMax \in Nat /\ DoneFade \in Nat
    /\ None \notin Nat

VARIABLES
    life,           \* each session: "new", "live" or "over"
    started,        \* its started_at
    policy,         \* cfg.slots_order
    pc,             \* where the daemon stands in _refresh_sessions
    scan,           \* the SessionSnapshot it works on, and the tick's now
    since,          \* history: the tracked sessions that were live at that scan
    slots,          \* Daemon.slots
    effective       \* effective_states, and where there is none the reason

world  == <<life, started>>
store  == <<clock, records, hooks, best, gap>>
board  == <<slots, effective>>
vars   == <<world, store, policy, pc, scan, since, board>>

Dark == {"no_hook", "done_faded"}
Scans == [live : SUBSET Sessions, authoritative : BOOLEAN, now : 0..MaxTime]

TypeOK ==
    /\ StoreTypeOK
    /\ life \in [Sessions -> {"new", "live", "over"}]
    /\ started \in [Sessions -> 0..MaxTime]
    /\ policy \in Policies
    /\ pc \in {"idle", "prune", "read"}
    /\ scan \in Scans /\ since \subseteq Tracked
    /\ slots \in [Keys -> Sessions \cup {None}]
    /\ effective \in [Sessions -> States \cup Dark]

Init ==
    /\ StoreInit
    /\ life = [s \in Sessions |-> "new"] /\ started = [s \in Sessions |-> 0]
    /\ policy \in Policies
    /\ pc = "idle"
    /\ scan = [live |-> {}, authoritative |-> FALSE, now |-> 0] /\ since = {}
    /\ slots = [k \in Keys |-> None]
    /\ effective = [s \in Sessions |-> "no_hook"]

-----------------------------------------------------------------------------
(* Claude.                                                                  *)

Live == {s \in Sessions : life[s] = "live"}

Start(s) ==
    /\ life[s] = "new"
    /\ life' = [life EXCEPT ![s] = "live"]
    /\ started' = [started EXCEPT ![s] = clock]
    /\ UNCHANGED <<store, policy, pc, scan, since, board>>

End(s) ==
    /\ life[s] = "live"
    /\ life' = [life EXCEPT ![s] = "over"]
    /\ UNCHANGED <<started, store, policy, pc, scan, since, board>>

Fire(h) ==
    /\ \E s \in Live, event \in Events : Call(h, s, event)
    /\ UNCHANGED <<world, policy, pc, scan, since, board>>

RunHook(h) ==
    /\ Hook(h)
    /\ UNCHANGED <<world, policy, pc, scan, since, board>>

Pass ==
    /\ clock < MaxTime /\ clock' = clock + 1
    /\ UNCHANGED <<world, records, hooks, best, gap, policy, pc, scan, since, board>>

-----------------------------------------------------------------------------
(* The daemon: _refresh_sessions.                                           *)

\* scan(): all live sessions, or an uncertain part of them.
Scan ==
    /\ pc = "idle"
    /\ \/ scan' = [live |-> Live, authoritative |-> TRUE, now |-> clock]
       \/ \E some \in SUBSET Live :
             scan' = [live |-> some, authoritative |-> FALSE, now |-> clock]
    /\ since' = Live \cap Tracked
    /\ pc' = "prune"
    /\ UNCHANGED <<world, store, policy, board>>

\* A failing pruner is ignored.
PruneStore ==
    /\ pc = "prune"
    /\ Prune(scan.live, scan.authoritative, scan.now) \/ UNCHANGED store
    /\ pc' = "read"
    /\ UNCHANGED <<world, policy, scan, since, board>>

\* effective_state: working and done wear off.  Mutant: a record, not a state.
Age(record) == IF scan.now > record.rev THEN scan.now - record.rev ELSE 0
EffectiveRecord(record) == record
EffectiveState(record) ==
    CASE record = Absent -> "no_hook"
      [] record # Absent /\ record.state = "working" /\ Age(record) >= WorkingMax -> "idle"
      [] record # Absent /\ record.state = "done" /\ Age(record) >= DoneFade -> "done_faded"
      [] OTHER -> record.state

\* activity_times, of the sessions that have not faded out.
\* Mutant: of those too.
ActivityOfAll(joined) ==
    [s \in scan.live |-> IF joined[s] = Absent THEN started[s] ELSE joined[s].rev]
Activity(joined) ==
    [s \in {t \in scan.live : EffectiveState(joined[t]) # "done_faded"} |->
        IF joined[s] = Absent THEN started[s] ELSE joined[s].rev]

\* A failing reader leaves no records to join.
Joined(read) == [s \in scan.live |-> IF read THEN records[s] ELSE Absent]

ReadStore(read) ==
    /\ pc = "read"
    /\ LET joined == Joined(read) IN
         /\ effective' = [s \in Sessions |->
                            IF s \in scan.live THEN EffectiveState(joined[s]) ELSE "no_hook"]
         /\ slots' = Assign(slots, Activity(joined), policy, effective')
    /\ pc' = "idle"
    /\ UNCHANGED <<world, store, policy, scan, since>>

Refresh == Scan \/ PruneStore \/ \E read \in BOOLEAN : ReadStore(read)

Next ==
    \/ \E s \in Sessions : Start(s) \/ End(s)
    \/ \E h \in Hooks : Fire(h) \/ RunHook(h)
    \/ Pass
    \/ Refresh

Spec == Init /\ [][Next]_vars

-----------------------------------------------------------------------------
(* Properties.                                                              *)

Shown == {slots[k] : k \in Keys} \ {None}

\* "Sessions the render has already faded out give their slot back, so [...] a
\* live session is never pushed out by a finished one" (daemon.py:257-259): no
\* session has two keys, only scanned ones that have not faded have one, and
\* none that is lit lacks one while a key is empty.  (These are the boards that
\* Daemon paints.)
KeysGoToTheLit ==
    pc = "idle" =>
        /\ \A j, k \in Keys : slots[j] = slots[k] /\ slots[j] # None => j = k
        /\ \A s \in Shown : s \in scan.live /\ effective[s] # "done_faded"
        /\ \A s \in scan.live \ Shown : effective[s] \in States =>
             \A k \in Keys : slots[k] # None

\* The design's section 7, rule 4 of recent_sticky, a session that has a slot
\* never moves: a refresh leaves every session it keeps on its key, so that a
\* press between two refreshes means the same session before and after.
KeysStayPut ==
    [][policy = "recent_sticky" =>
          \A j, k \in Keys : slots[j] # None /\ slots'[k] = slots[j] => j = k]_vars

\* Rule 3, a newcomer pushes out the session that has been quiet longest, if
\* it is older (slots.py:82): what a refresh seats is, of all the sessions it
\* considers, no less recently active than what it leaves out.
QuietestGoFirst ==
    [][policy # "priority" /\ pc = "read" /\ pc' = "idle" =>
          \E read \in BOOLEAN :
              LET live == Activity(Joined(read)) IN
              \A s \in DOMAIN live \ Shown' :
                  \A k \in Keys : slots'[k] # None /\ live[slots'[k]] >= live[s]]_vars

\* "whether the result is safe to use as an authoritative prune set"
\* (sessions.py:5): a session that was live at the scan and still is loses its
\* record to the TTL only, however little of it the scan could make out.
UncertainScansSpareTheLiving ==
    [][\A s \in since \cap Live :
          records[s] # Absent /\ records'[s] = Absent =>
              ~scan.authoritative /\ scan.now > records[s].rev + Ttl]_vars
=============================================================================
