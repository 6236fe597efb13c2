-------------------------------- MODULE Slots --------------------------------
(***************************************************************************)
(* Which sessions get the A keys (src/paneglow/slots.py), as operators.    *)
(* live maps the session ids to choose from to their last activity; prev   *)
(* and the result map the keys 1..COUNT to session ids or None.  Ids are   *)
(* numbers, which stand for their order as strings.                        *)
(***************************************************************************)
EXTENDS Naturals, Sequences, Queues

CONSTANTS
    COUNT,      \* how many keys there are
    None        \* an empty slot

ASSUME SlotsAssumption == COUNT \in Nat \ {0}

Keys == 1..COUNT

\* _recent_ids: the latest activity first.
Precedes(live, s, t) == live[s] > live[t] \/ (live[s] = live[t] /\ s < t)
Recency(live) == {p \in (DOMAIN live) \X (DOMAIN live) : Precedes(live, p[1], p[2])}
RecentIds(live) == Sorted(DOMAIN live, Recency(live))

Ranked(ids) == [k \in Keys |-> IF k <= Len(ids) THEN ids[k] ELSE None]

\* _normalise_prev: a slot is kept by a live session that has no earlier one.
NormalisePrev(prev, live) ==
    [k \in Keys |->
        IF prev[k] \in DOMAIN live /\ \A j \in 1..(k - 1) : prev[j] # prev[k]
          THEN prev[k] ELSE None]

Empty(out) == {k \in Keys : out[k] = None}
Oldest(out, live) ==
    CHOOSE k \in Keys : \A j \in Keys :
        live[out[k]] < live[out[j]] \/ (live[out[k]] = live[out[j]] /\ k <= j)

\* One incoming session: the first empty slot, or that of the one quiet longest.
Seat(out, s, live) ==
    IF Empty(out) # {}
      THEN [out EXCEPT ![CHOOSE k \in Empty(out) : \A j \in Empty(out) : k <= j] = s]
      ELSE IF live[s] > live[out[Oldest(out, live)]]
             THEN [out EXCEPT ![Oldest(out, live)] = s]
             ELSE out

\* The recent ids that hold no seat, in the same order.
Incoming(held, live) ==
    Sorted({s \in DOMAIN live : \A k \in Keys : held[k] # s}, Recency(live))

\* The loop of _sticky: the slots after each of the incoming sessions.
Seatings(held, incoming, live) ==
    LET seated[n \in 0..Len(incoming)] ==
            IF n = 0 THEN held ELSE Seat(seated[n - 1], incoming[n], live)
    IN seated

\* _sticky.  Mutants: seats start empty every time; nobody gives a seat up.
StickyAfresh(prev, live) == Ranked(RecentIds(live))
StickyForever(prev, live) ==
    LET held == NormalisePrev(prev, live)
        incoming == Incoming(held, live)
        room == Cardinality(Empty(held))
    IN Seatings(held, incoming, live)[IF room < Len(incoming) THEN room ELSE Len(incoming)]
Sticky(prev, live) ==
    LET held == NormalisePrev(prev, live)
        incoming == Incoming(held, live)
    IN Seatings(held, incoming, live)[Len(incoming)]

\* PRIORITY (state.py); a session without a state ranks with the idle ones.
Priority(state) ==
    CASE state = "waiting" -> 4
      [] state = "error"   -> 3
      [] state = "done"    -> 2
      [] state = "working" -> 1
      [] OTHER             -> 0

\* _ordered_priority
Urgency(live, states) ==
    {p \in (DOMAIN live) \X (DOMAIN live) :
        \/ Priority(states[p[1]]) > Priority(states[p[2]])
        \/ /\ Priority(states[p[1]]) = Priority(states[p[2]])
           /\ Precedes(live, p[1], p[2])}
OrderedPriority(live, states) == Ranked(Sorted(DOMAIN live, Urgency(live, states)))

Assign(prev, live, policy, states) ==
    CASE policy = "recent"   -> Ranked(RecentIds(live))
      [] policy = "priority" -> OrderedPriority(live, states)
      [] OTHER               -> Sticky(prev, live)
=============================================================================
