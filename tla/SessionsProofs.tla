--------------------------- MODULE SessionsProofs ---------------------------
(***************************************************************************)
(* Who gets the A keys, for any number of sessions, hooks, keys and ticks:  *)
(* what the orders of slots.py come to, and from it what a refresh of the   *)
(* daemon leaves on the keys whatever happened since the last one.          *)
(***************************************************************************)
EXTENDS StoreProofs, QueuesProofs

(* ----------------------- what assign() comes to ------------------------ *)

\* The activity of some sessions, by time.
Activities == UNION {[D -> Nat] : D \in SUBSET Sessions}

LEMMA ActivityTypes ==
    ASSUME NEW live \in Activities
    PROVE  /\ DOMAIN live \subseteq Sessions /\ DOMAIN live \subseteq Nat
           /\ None \notin DOMAIN live
           /\ \A s \in DOMAIN live : live[s] \in Nat
           /\ live \in [DOMAIN live -> Nat]
<1>1. PICK D \in SUBSET Sessions : live \in [D -> Nat]
  BY DEF Activities
<1> QED BY <1>1, SessionsAssumption

\* Which session is quiet longer is an order.
LEMMA RecencyOrders ==
    ASSUME NEW live \in Activities, NEW T \in SUBSET DOMAIN live
    PROVE  Orders(Recency(live), T)
<1>1. T \subseteq Nat /\ \A s \in T : live[s] \in Nat
  BY ActivityTypes
<1>2. \A s, t \in T : <<s, t>> \in Recency(live) <=> Precedes(live, s, t)
  BY DEF Recency
<1> QED BY <1>1, <1>2 DEF Orders, Precedes

\* So is which one is more urgent.
LEMMA UrgencyOrders ==
    ASSUME NEW live \in Activities, NEW states
    PROVE  Orders(Urgency(live, states), DOMAIN live)
<1> DEFINE D == DOMAIN live
           R == Urgency(live, states)
           level(s) == Priority(states[s])
<1>1. D \subseteq Nat /\ \A s \in D : live[s] \in Nat
  BY ActivityTypes
<1>2. \A s \in D : level(s) \in Nat
  BY DEF Priority
<1>3. \A s, t \in D : <<s, t>> \in R <=>
          \/ level(s) > level(t)
          \/ level(s) = level(t) /\ Precedes(live, s, t)
  BY DEF Urgency
<1> HIDE DEF D, R, level
<1>4. \A s \in D : <<s, s>> \notin R
  BY <1>1, <1>2, <1>3 DEF Precedes
<1>5. \A s, t, u \in D : <<s, t>> \in R /\ <<t, u>> \in R => <<s, u>> \in R
  BY <1>1, <1>2, <1>3 DEF Precedes
<1>6. \A s, t \in D : s # t => <<s, t>> \in R \/ <<t, s>> \in R
  BY <1>1, <1>2, <1>3 DEF Precedes
<1> QED BY <1>4, <1>5, <1>6 DEF Orders, D, R

\* Slots as they should be: sessions of D, none of them twice.
Distinct(out) ==
    \A j, k \in Keys : out[j] = out[k] /\ out[j] # None => j = k
Seats(D) == {out \in [Keys -> D \cup {None}] : Distinct(out)}

\* A session that has no slot lacks it for want of an empty one.
Full(out) == \A k \in Keys : out[k] # None
Has(out, s) == \E k \in Keys : out[k] = s
Quieter(out, live, s) == \A k \in Keys : live[out[k]] >= live[s]

\* What a ranking seats and what it leaves out.
LEMMA RankedFacts ==
    ASSUME NEW live \in Activities, IsFiniteSet(DOMAIN live), NEW R,
           Orders(R, DOMAIN live)
    PROVE  LET out == Ranked(Sorted(DOMAIN live, R)) IN
           /\ out \in Seats(DOMAIN live)
           /\ \A s \in DOMAIN live : ~Has(out, s) =>
                Full(out) /\ \A k \in Keys : <<out[k], s>> \in R
<1> DEFINE D == DOMAIN live
           q == Sorted(D, R)
           N == Cardinality(D)
           out == Ranked(q)
<1>1. /\ N \in Nat /\ q \in [1..N -> D]
      /\ \A m, n \in 1..N : m < n <=> <<q[m], q[n]>> \in R
      /\ \A s \in D : \E n \in 1..N : q[n] = s
  BY SortedProperties
<1>2. None \notin D
  BY ActivityTypes
<1>3. COUNT \in Nat
  BY SlotsAssumption
<1> HIDE DEF q, N
<1>4. q \in Seq(D) /\ Len(q) = N
  BY <1>1
<1>5. \A k \in Keys : out[k] = IF k <= N THEN q[k] ELSE None
  BY <1>4 DEF Ranked
<1>6. out \in [Keys -> D \cup {None}]
  <2>1. \A k \in Keys : k <= N => q[k] \in D
    BY <1>1, <1>3 DEF Keys
  <2> QED BY <2>1, <1>4 DEF Ranked
<1> HIDE DEF D
<1>7. \A m, n \in 1..N : q[m] = q[n] => m = n
  <2> SUFFICES ASSUME NEW m \in 1..N, NEW n \in 1..N, q[m] = q[n], m # n
               PROVE  FALSE
    OBVIOUS
  <2>1. m < n \/ n < m
    BY <1>1
  <2>2. <<q[m], q[m]>> \in R
    BY <1>1, <2>1
  <2>3. q[m] \in D
    BY <1>1
  <2> QED BY <2>2, <2>3 DEF Orders, D
<1>8. Distinct(out)
  <2> SUFFICES ASSUME NEW j \in Keys, NEW k \in Keys,
                      out[j] = out[k], out[j] # None
               PROVE  j = k
    BY DEF Distinct
  <2>1. j <= N /\ k <= N
    BY <1>5
  <2>2. j \in 1..N /\ k \in 1..N
    BY <1>1, <1>3, <2>1 DEF Keys
  <2> QED BY <1>5, <1>7, <2>1, <2>2
<1>9. ASSUME NEW s \in D, ~Has(out, s)
      PROVE  Full(out) /\ \A k \in Keys : <<out[k], s>> \in R
  <2>1. PICK n \in 1..N : q[n] = s
    BY <1>1
  <2>2. n > COUNT
    <3> SUFFICES ASSUME ~(n > COUNT) PROVE FALSE
      OBVIOUS
    <3>1. n \in Keys /\ n <= N
      BY <1>1, <1>3 DEF Keys
    <3>2. out[n] = s
      BY <1>5, <2>1, <3>1
    <3> QED BY <1>9, <3>1, <3>2 DEF Has
  <2>3. ASSUME NEW k \in Keys PROVE out[k] # None /\ <<out[k], s>> \in R
    <3>1. k \in 1..N /\ k <= N /\ k < n
      BY <1>1, <1>3, <2>2 DEF Keys
    <3>2. out[k] = q[k] /\ q[k] \in D
      BY <1>1, <1>5, <3>1
    <3> QED BY <1>1, <1>2, <2>1, <3>1, <3>2
  <2> QED BY <2>3 DEF Full
<1> QED BY <1>6, <1>8, <1>9 DEF Seats, D, q

\* The seatings follow one another as the loop makes them.
LEMMA SeatingsUnfold ==
    ASSUME NEW held, NEW q, Len(q) \in Nat, NEW live
    PROVE  /\ Seatings(held, q, live)[0] = held
           /\ \A n \in 1..Len(q) :
                 Seatings(held, q, live)[n]
                   = Seat(Seatings(held, q, live)[n - 1], q[n], live)
<1> DEFINE Upto(n, g) ==
        g = [m \in 0..n |->
               IF m = 0 THEN held ELSE Seat(g[m - 1], q[m], live)]
           T == {n \in 0..Len(q) : \E g : Upto(n, g)}
<1>1. 0 \in T
  <2> DEFINE g == [m \in 0..0 |-> held]
  <2>1. Upto(0, g)
    OBVIOUS
  <2> HIDE DEF g, Upto
  <2>2. \E x : Upto(0, x)
    BY <2>1
  <2> QED BY <2>2
<1>2. ASSUME NEW n \in 1..Len(q), n - 1 \in T
      PROVE  n \in T
  <2>1. PICK g : Upto(n - 1, g)
    BY <1>2
  <2> DEFINE h == [m \in 0..n |-> IF m = n THEN Seat(g[n - 1], q[n], live)
                                           ELSE g[m]]
             next(m) == IF m = 0 THEN held ELSE Seat(h[m - 1], q[m], live)
  <2>2. ASSUME NEW m \in 0..n PROVE h[m] = next(m)
    <3>1. CASE m = 0
      <4>1. h[m] = g[0] /\ g[0] = held
        BY <2>1, <3>1
      <4> QED BY <3>1, <4>1
    <3>2. CASE m = n
      <4>1. h[m - 1] = g[m - 1] /\ m # 0
        BY <3>2
      <4> QED BY <3>2, <4>1
    <3>3. CASE m # 0 /\ m # n
      <4>1. m \in 0..(n - 1) /\ m - 1 \in 0..(n - 1) /\ m - 1 # n
        BY <3>3
      <4>2. h[m] = g[m] /\ h[m - 1] = g[m - 1]
        BY <3>3, <4>1
      <4>3. g[m] = Seat(g[m - 1], q[m], live)
        BY <2>1, <3>3, <4>1
      <4> QED BY <3>3, <4>2, <4>3
    <3> QED BY <3>1, <3>2, <3>3
  <2>3. h = [m \in 0..n |-> next(m)]
    BY <2>2
  <2>4. Upto(n, h)
    BY <2>3
  <2> HIDE DEF h, Upto
  <2>5. \E x : Upto(n, x)
    BY <2>4
  <2> QED BY <2>5
<1>3. 0..Len(q) \subseteq T
  <2> HIDE DEF T
  <2> QED BY <1>1, <1>2, StepByStep
<1>4. \E g : Upto(Len(q), g)
  BY <1>3
<1>5. Upto(Len(q), Seatings(held, q, live))
  BY <1>4 DEF Seatings
<1> DEFINE f == Seatings(held, q, live)
<1> HIDE DEF f
<1>6. f = [m \in 0..Len(q) |->
             IF m = 0 THEN held ELSE Seat(f[m - 1], q[m], live)]
  BY <1>5 DEF f
<1>7. f[0] = held
  BY <1>6
<1>8. \A n \in 1..Len(q) : f[n] = Seat(f[n - 1], q[n], live)
  BY <1>6
<1> QED BY <1>7, <1>8 DEF f

\* One of the sessions that hold the slots has been quiet longest.
LEMMA OldestExists ==
    ASSUME NEW live \in Activities, NEW out \in [Keys -> DOMAIN live]
    PROVE  /\ Oldest(out, live) \in Keys
           /\ Quieter(out, live, out[Oldest(out, live)])
<1> DEFINE act(k) == live[out[k]]
           R == {p \in Keys \X Keys : \/ act(p[1]) < act(p[2])
                                      \/ act(p[1]) = act(p[2]) /\ p[1] < p[2]}
<1>0. COUNT \in Nat /\ COUNT # 0
  BY SlotsAssumption
<1>1. IsFiniteSet(Keys) /\ Keys # {} /\ Keys \subseteq Nat
  <2>1. IsFiniteSet(1..COUNT)
    BY <1>0, FS_Interval
  <2> QED BY <1>0, <2>1 DEF Keys
<1>2. \A k \in Keys : act(k) \in Nat
  BY ActivityTypes
<1>3. \A j, k \in Keys : <<j, k>> \in R <=>
          act(j) < act(k) \/ (act(j) = act(k) /\ j < k)
  OBVIOUS
<1> HIDE DEF R, act
<1>4. Orders(R, Keys)
  BY <1>1, <1>2, <1>3 DEF Orders
<1>5. PICK x \in Keys : \A y \in Keys : x = y \/ <<x, y>> \in R
  BY <1>1, <1>4, FirstElement
<1>6. ASSUME NEW j \in Keys
      PROVE  act(x) < act(j) \/ (act(x) = act(j) /\ x <= j)
  <2>1. x \in Nat
    BY <1>1
  <2>2. x = j \/ act(x) < act(j) \/ (act(x) = act(j) /\ x < j)
    BY <1>3, <1>5
  <2> QED BY <2>1, <2>2
<1> DEFINE o == Oldest(out, live)
<1>7. /\ o \in Keys
      /\ \A j \in Keys : act(o) < act(j) \/ (act(o) = act(j) /\ o <= j)
  BY <1>6 DEF Oldest, act
<1> HIDE DEF o
<1>8. \A j \in Keys : act(j) >= act(o)
  BY <1>2, <1>7
<1> QED BY <1>7, <1>8 DEF Quieter, act, o

\* What the loop has settled after n of the sessions q: they and the ones that
\* held a slot before have one, unless the others were active since.
Considered(held, q, n, s) == Has(held, s) \/ \E m \in 1..n : q[m] = s
Settled(out, held, q, n, live) ==
    /\ out \in Seats(DOMAIN live)
    /\ \A k \in Keys : out[k] = held[k] \/ \E m \in 1..n : out[k] = q[m]
    /\ \A s \in DOMAIN live : Considered(held, q, n, s) /\ ~Has(out, s) =>
          Full(out) /\ Quieter(out, live, s)

\* Those who wait for a slot: sessions without one, each of them once.
Waits(q, held, D) ==
    /\ q \in Seq(D)
    /\ \A m, n \in 1..Len(q) : q[m] = q[n] => m = n
    /\ \A n \in 1..Len(q) : ~Has(held, q[n])

\* Seating one more session keeps that.
LEMMA SeatStep ==
    ASSUME NEW live \in Activities, NEW held \in Seats(DOMAIN live), NEW q,
           Waits(q, held, DOMAIN live), NEW n \in 1..Len(q), NEW out,
           Settled(out, held, q, n - 1, live)
    PROVE  Settled(Seat(out, q[n], live), held, q, n, live)
<1> DEFINE D == DOMAIN live
           new == q[n]
           next == Seat(out, new, live)
<1>1. /\ None \notin D
      /\ \A s \in D : live[s] \in Nat
  BY ActivityTypes
<1>2. new \in D /\ Len(q) \in Nat
  BY DEF Waits
<1>3. out \in [Keys -> D \cup {None}] /\ Distinct(out)
  BY DEF Settled, Seats
<1>4. ~Has(out, new)
  <2> SUFFICES ASSUME NEW k \in Keys, out[k] = new PROVE FALSE
    BY DEF Has
  <2>1. out[k] # held[k]
    BY DEF Waits, Has
  <2>2. PICK m \in 1..(n - 1) : out[k] = q[m]
    BY <2>1 DEF Settled
  <2>3. m \in 1..Len(q) /\ m # n
    BY <1>2
  <2> QED BY <2>2, <2>3 DEF Waits
<1>5. \A s : Considered(held, q, n, s) =>
               Considered(held, q, n - 1, s) \/ s = new
  <2> SUFFICES ASSUME NEW s, NEW m \in 1..n, q[m] = s,
                      ~Considered(held, q, n - 1, s)
               PROVE  s = new
    BY DEF Considered
  <2>1. m \notin 1..(n - 1)
    BY DEF Considered
  <2> QED BY <1>2, <2>1
<1>6. ASSUME NEW x \in Keys, next = [out EXCEPT ![x] = new]
      PROVE  /\ next \in Seats(D)
             /\ \A k \in Keys :
                   next[k] = held[k] \/ \E m \in 1..n : next[k] = q[m]
  <2>1. next \in [Keys -> D \cup {None}]
    BY <1>2, <1>3, <1>6
  <2>2. \A k \in Keys : next[k] = IF k = x THEN new ELSE out[k]
    BY <1>3, <1>6
  <2> HIDE DEF next
  <2>3. Distinct(next)
    BY <1>3, <1>4, <2>2 DEF Distinct, Has
  <2>4. ASSUME NEW k \in Keys
        PROVE  next[k] = held[k] \/ \E m \in 1..n : next[k] = q[m]
    <3>1. CASE k = x
      <4>1. n \in 1..n /\ next[k] = q[n]
        BY <2>2, <3>1
      <4> QED BY <4>1
    <3>2. CASE k # x
      <4>1. next[k] = out[k]
        BY <2>2, <3>2
      <4>2. CASE out[k] = held[k]
        BY <4>1, <4>2
      <4>3. ASSUME NEW m \in 1..(n - 1), out[k] = q[m]
            PROVE  \E i \in 1..n : next[k] = q[i]
        <5>1. m \in 1..n
          OBVIOUS
        <5> QED BY <4>1, <4>3, <5>1
      <4> QED BY <4>2, <4>3 DEF Settled
    <3> QED BY <3>1, <3>2
  <2> QED BY <2>1, <2>3, <2>4 DEF Seats
<1>7. CASE Empty(out) # {}
  <2> DEFINE x == CHOOSE k \in Empty(out) : \A j \in Empty(out) : k <= j
  <2>1. x \in Empty(out)
    <3>1. COUNT \in Nat /\ Empty(out) \subseteq 1..COUNT
      BY SlotsAssumption DEF Empty, Keys
    <3>2. \E k \in Empty(out) : \A j \in Empty(out) : k <= j
      BY <1>7, <3>1, LeastPosition
    <3> QED BY <3>2
  <2>2. next = [out EXCEPT ![x] = new]
    BY <1>7 DEF Seat
  <2> HIDE DEF x
  <2>3. x \in Keys /\ out[x] = None
    BY <2>1 DEF Empty
  <2>4. \A k \in Keys : next[k] = IF k = x THEN new ELSE out[k]
    BY <1>3, <2>2, <2>3
  <2>5. ASSUME NEW s \in D, Considered(held, q, n, s)
        PROVE  Has(next, s)
    <3>1. CASE s = new
      BY <2>3, <2>4, <3>1 DEF Has
    <3>2. CASE s # new
      <4>1. Considered(held, q, n - 1, s) /\ ~Full(out)
        BY <1>5, <2>3, <2>5, <3>2 DEF Full
      <4>2. PICK k \in Keys : out[k] = s
        BY <4>1 DEF Settled, Has
      <4>3. k # x
        BY <1>1, <2>3, <4>2
      <4> QED BY <2>4, <4>2, <4>3 DEF Has
    <3> QED BY <3>1, <3>2
  <2> QED BY <1>6, <2>2, <2>3, <2>5 DEF Settled
<1>8. CASE Empty(out) = {}
  <2> DEFINE o == Oldest(out, live)
  <2>1. Full(out) /\ out \in [Keys -> D]
    BY <1>3, <1>8 DEF Empty, Full
  <2>2. o \in Keys /\ \A k \in Keys : live[out[k]] >= live[out[o]]
    BY <2>1, OldestExists DEF Quieter
  <2>3. \A k \in Keys : live[out[k]] \in Nat
    BY <1>1, <2>1
  <2>4. live[new] \in Nat
    BY <1>1, <1>2
  <2>5. CASE live[new] > live[out[o]]
    <3>1. next = [out EXCEPT ![o] = new]
      BY <1>8, <2>5 DEF Seat
    <3> HIDE DEF o
    <3>2. \A k \in Keys : next[k] = IF k = o THEN new ELSE out[k]
      BY <1>3, <3>1
    <3>3. Full(next)
      BY <1>1, <1>2, <2>1, <3>2 DEF Full
    <3>4. ASSUME NEW s \in D, Considered(held, q, n, s), ~Has(next, s)
          PROVE  Quieter(next, live, s)
      <4>1. s # new
        BY <2>2, <3>2, <3>4 DEF Has
      <4>2. Considered(held, q, n - 1, s)
        BY <1>5, <3>4, <4>1
      <4>3. live[out[o]] >= live[s]
        <5>1. CASE Has(out, s)
          <6>1. PICK k \in Keys : out[k] = s
            BY <5>1 DEF Has
          <6>2. k = o
            BY <3>2, <3>4, <6>1 DEF Has
          <6> QED BY <2>2, <2>3, <6>1, <6>2
        <5>2. CASE ~Has(out, s)
          BY <2>2, <4>2, <5>2 DEF Settled, Quieter
        <5> QED BY <5>1, <5>2
      <4>4. live[s] \in Nat
        BY <1>1
      <4>5. ASSUME NEW k \in Keys PROVE live[next[k]] >= live[s]
        <5>1. CASE k = o
          <6>1. next[k] = new
            BY <3>2, <5>1
          <6> QED BY <2>2, <2>3, <2>4, <2>5, <4>3, <4>4, <6>1
        <5>2. CASE k # o
          <6>1. next[k] = out[k]
            BY <3>2, <5>2
          <6> QED BY <2>2, <2>3, <4>3, <4>4, <6>1
        <5> QED BY <5>1, <5>2
      <4> QED BY <4>5 DEF Quieter
    <3> QED BY <1>6, <2>2, <3>1, <3>3, <3>4 DEF Settled
  <2>6. CASE ~(live[new] > live[out[o]])
    <3>1. next = out
      BY <1>8, <2>6 DEF Seat
    <3>2. ASSUME NEW s \in D, Considered(held, q, n, s), ~Has(out, s)
          PROVE  Quieter(out, live, s)
      <4>1. CASE s = new
        <5>1. \A k \in Keys : live[out[k]] >= live[s]
          <6> HIDE DEF o, new
          <6> QED BY <2>2, <2>3, <2>4, <2>6, <4>1
        <5> QED BY <5>1 DEF Quieter
      <4>2. CASE s # new
        BY <1>5, <3>2, <4>2 DEF Settled
      <4> QED BY <4>1, <4>2
    <3>3. ASSUME NEW k \in Keys
          PROVE  out[k] = held[k] \/ \E m \in 1..n : out[k] = q[m]
      <4>1. ASSUME NEW m \in 1..(n - 1), out[k] = q[m]
            PROVE  \E i \in 1..n : out[k] = q[i]
        <5>1. m \in 1..n
          OBVIOUS
        <5> QED BY <4>1, <5>1
      <4> QED BY <4>1 DEF Settled
    <3>4. out \in Seats(D)
      BY DEF Settled
    <3> QED BY <2>1, <3>1, <3>2, <3>3, <3>4 DEF Settled
  <2> QED BY <2>5, <2>6
<1> QED BY <1>7, <1>8

\* What a newly read scan leaves of the slots: sessions that live, once each.
LEMMA HeldFacts ==
    ASSUME NEW live \in Activities, NEW prev
    PROVE  LET held == NormalisePrev(prev, live) IN
           /\ held \in Seats(DOMAIN live)
           /\ Distinct(prev) => \A k \in Keys :
                 prev[k] \in DOMAIN live => held[k] = prev[k]
<1> DEFINE D == DOMAIN live
           held == NormalisePrev(prev, live)
<1>1. None \notin D
  BY ActivityTypes
<1>2. COUNT \in Nat
  BY SlotsAssumption
<1>3. \A k \in Keys : held[k] =
        IF prev[k] \in D /\ \A j \in 1..(k - 1) : prev[j] # prev[k]
          THEN prev[k] ELSE None
  BY DEF NormalisePrev
<1>4. held \in [Keys -> D \cup {None}]
  BY DEF NormalisePrev
<1> HIDE DEF D, held
<1>5. ASSUME NEW j \in Keys, NEW k \in Keys, j < k, held[j] # None
      PROVE  held[j] # held[k]
  <2>1. j \in 1..(k - 1)
    BY <1>2, <1>5 DEF Keys
  <2>2. held[j] = prev[j] /\ held[j] \in D
    BY <1>3, <1>5
  <2>3. held[k] # None => held[k] = prev[k] /\ prev[j] # prev[k]
    BY <1>3, <2>1
  <2> QED BY <1>5, <2>2, <2>3
<1>6. Distinct(held)
  <2> SUFFICES ASSUME NEW j \in Keys, NEW k \in Keys,
                      held[j] = held[k], held[j] # None, j # k
               PROVE  FALSE
    BY DEF Distinct
  <2>1. j < k \/ k < j
    BY <1>2 DEF Keys
  <2> QED BY <1>5, <2>1
<1>7. ASSUME Distinct(prev), NEW k \in Keys, prev[k] \in D
      PROVE  held[k] = prev[k]
  <2>1. ASSUME NEW j \in 1..(k - 1) PROVE prev[j] # prev[k]
    <3>1. j \in Keys /\ j # k
      BY <1>2 DEF Keys
    <3>2. prev[k] # None
      BY <1>1, <1>7
    <3> QED BY <1>7, <3>1, <3>2 DEF Distinct
  <2> QED BY <1>3, <1>7, <2>1
<1> QED BY <1>4, <1>6, <1>7 DEF Seats, D, held

\* The incoming are the sessions without a slot, all of them.
LEMMA IncomingFacts ==
    ASSUME NEW live \in Activities, IsFiniteSet(DOMAIN live), NEW held
    PROVE  LET q == Incoming(held, live) IN
           /\ Waits(q, held, DOMAIN live)
           /\ \A s \in DOMAIN live :
                 Has(held, s) \/ \E n \in 1..Len(q) : q[n] = s
<1> DEFINE D == DOMAIN live
           W == {s \in D : \A k \in Keys : held[k] # s}
           R == Recency(live)
           q == Incoming(held, live)
           N == Cardinality(W)
<1>1. IsFiniteSet(W) /\ W \in SUBSET D
  BY FS_Subset
<1>2. Orders(R, W)
  BY <1>1, RecencyOrders
<1>3. q = Sorted(W, R)
  BY DEF Incoming
<1>w. \A s : s \in W <=> s \in D /\ ~Has(held, s)
  BY DEF Has
<1> HIDE DEF W, R, q, D
<1>4. /\ N \in Nat /\ q \in [1..N -> W]
      /\ \A m, n \in 1..N : m < n <=> <<q[m], q[n]>> \in R
      /\ \A s \in W : \E n \in 1..N : q[n] = s
  BY <1>1, <1>2, <1>3, SortedProperties
<1> HIDE DEF N
<1>5. q \in [1..N -> D]
  BY <1>1, <1>4
<1>6. q \in Seq(D) /\ Len(q) = N
  BY <1>4, <1>5
<1>7. \A m, n \in 1..N : q[m] = q[n] => m = n
  <2> SUFFICES ASSUME NEW m \in 1..N, NEW n \in 1..N, q[m] = q[n], m # n
               PROVE  FALSE
    OBVIOUS
  <2>1. m < n \/ n < m
    BY <1>4
  <2>2. <<q[m], q[m]>> \in R
    BY <1>4, <2>1
  <2>3. q[m] \in W
    BY <1>4
  <2> QED BY <1>2, <2>2, <2>3 DEF Orders
<1>8. \A n \in 1..N : ~Has(held, q[n])
  BY <1>4, <1>w
<1>9. \A s \in D : Has(held, s) \/ \E n \in 1..N : q[n] = s
  BY <1>4, <1>w
<1> QED BY <1>6, <1>7, <1>8, <1>9 DEF Waits, D, q

\* recent_sticky: nobody who keeps a slot moves, and nobody without one was
\* active after anybody with one.
LEMMA StickyFacts ==
    ASSUME NEW live \in Activities, IsFiniteSet(DOMAIN live), NEW prev
    PROVE  LET out == Sticky(prev, live) IN
           /\ out \in Seats(DOMAIN live)
           /\ \A s \in DOMAIN live : ~Has(out, s) =>
                 Full(out) /\ Quieter(out, live, s)
           /\ Distinct(prev) => \A j, k \in Keys :
                 prev[j] # None /\ out[k] = prev[j] => j = k
<1> DEFINE D == DOMAIN live
           held == NormalisePrev(prev, live)
           q == Incoming(held, live)
           f == Seatings(held, q, live)
           out == f[Len(q)]
<1>1. None \notin D
  BY ActivityTypes
<1>2. held \in Seats(D)
  BY HeldFacts
<1>3. Distinct(prev) => \A k \in Keys : prev[k] \in D => held[k] = prev[k]
  BY HeldFacts
<1>4. Sticky(prev, live) = out
  BY DEF Sticky
<1> HIDE DEF held
<1>5. /\ Waits(q, held, D)
      /\ \A s \in D : Has(held, s) \/ \E n \in 1..Len(q) : q[n] = s
  BY IncomingFacts
<1> HIDE DEF q
<1>6. Len(q) \in Nat
  BY <1>5 DEF Waits
<1>7. /\ f[0] = held
      /\ \A n \in 1..Len(q) : f[n] = Seat(f[n - 1], q[n], live)
  BY <1>6, SeatingsUnfold
<1> HIDE DEF f
<1>8. Settled(f[0], held, q, 0, live)
  <2>1. \A s : Considered(held, q, 0, s) => Has(held, s)
    BY DEF Considered
  <2> QED BY <1>2, <1>7, <2>1 DEF Settled, D
<1>9. ASSUME NEW n \in 1..Len(q), Settled(f[n - 1], held, q, n - 1, live)
      PROVE  Settled(f[n], held, q, n, live)
  <2>1. Settled(Seat(f[n - 1], q[n], live), held, q, n, live)
    BY <1>2, <1>5, <1>9, SeatStep
  <2> QED BY <1>7, <2>1
<1>10. Settled(out, held, q, Len(q), live)
  <2> DEFINE T == {n \in 0..Len(q) : Settled(f[n], held, q, n, live)}
  <2>1. 0 \in T
    BY <1>6, <1>8
  <2>2. \A n \in 1..Len(q) : n - 1 \in T => n \in T
    BY <1>6, <1>9
  <2> HIDE DEF T
  <2>3. 0..Len(q) \subseteq T
    BY <1>6, <2>1, <2>2, StepByStep
  <2>4. Len(q) \in T
    BY <1>6, <2>3
  <2> QED BY <2>4 DEF T
<1> HIDE DEF out, D
<1>11. out \in Seats(D)
  BY <1>10 DEF Settled, D
<1>12. ASSUME NEW s \in D, ~Has(out, s)
       PROVE  Full(out) /\ Quieter(out, live, s)
  BY <1>5, <1>10, <1>12 DEF Settled, Considered, D
<1>13. ASSUME Distinct(prev), NEW j \in Keys, NEW k \in Keys,
              prev[j] # None, out[k] = prev[j]
       PROVE  j = k
  <2>1. out[k] \in D
    BY <1>11, <1>13 DEF Seats
  <2>2. held[j] = out[k]
    BY <1>3, <1>13, <2>1
  <2>3. out[k] = held[k]
    <3> SUFFICES ASSUME NEW m \in 1..Len(q), out[k] = q[m] PROVE FALSE
      BY <1>10 DEF Settled
    <3>1. Has(held, q[m])
      BY <2>2 DEF Has
    <3> QED BY <1>5, <3>1 DEF Waits
  <2>4. held[j] = held[k] /\ held[j] # None
    BY <1>1, <2>1, <2>2, <2>3
  <2> QED BY <1>2, <2>4 DEF Seats, Distinct
<1> QED BY <1>4, <1>11, <1>12, <1>13 DEF D

\* All three orders.
LEMMA AssignFacts ==
    ASSUME NEW live \in Activities, IsFiniteSet(DOMAIN live), NEW prev,
           NEW order \in {"recent_sticky", "recent", "priority"}, NEW states
    PROVE  LET out == Assign(prev, live, order, states) IN
           /\ out \in Seats(DOMAIN live)
           /\ \A s \in DOMAIN live : ~Has(out, s) => Full(out)
           /\ order # "priority" => \A s \in DOMAIN live :
                 ~Has(out, s) => Quieter(out, live, s)
           /\ order = "recent_sticky" /\ Distinct(prev) =>
                 \A j, k \in Keys :
                    prev[j] # None /\ out[k] = prev[j] => j = k
<1> DEFINE D == DOMAIN live
           out == Assign(prev, live, order, states)
<1>1. CASE order = "recent_sticky"
  <2>1. out = Sticky(prev, live)
    BY <1>1 DEF Assign
  <2> QED BY <1>1, <2>1, StickyFacts
<1>2. CASE order = "recent"
  <2> DEFINE R == Recency(live)
  <2>1. out = Ranked(Sorted(D, R))
    BY <1>2 DEF Assign, RecentIds
  <2>2. Orders(R, D)
    BY RecencyOrders
  <2>3. /\ out \in Seats(D)
        /\ \A s \in D : ~Has(out, s) =>
              Full(out) /\ \A k \in Keys : <<out[k], s>> \in R
    BY <2>1, <2>2, RankedFacts
  <2> HIDE DEF out
  <2>4. ASSUME NEW s \in D, ~Has(out, s) PROVE Quieter(out, live, s)
    <3>1. \A k \in Keys : out[k] \in D /\ Precedes(live, out[k], s)
      BY <2>3, <2>4 DEF Recency
    <3>2. \A k \in Keys : live[out[k]] \in Nat /\ live[s] \in Nat
      BY <3>1, ActivityTypes
    <3> QED BY <3>1, <3>2 DEF Quieter, Precedes
  <2> QED BY <1>2, <2>3, <2>4 DEF out
<1>3. CASE order = "priority"
  <2>1. out = Ranked(Sorted(D, Urgency(live, states)))
    BY <1>3 DEF Assign, OrderedPriority
  <2>2. Orders(Urgency(live, states), D)
    BY UrgencyOrders
  <2>3. /\ out \in Seats(D)
        /\ \A s \in D : ~Has(out, s) => Full(out)
    BY <2>1, <2>2, RankedFacts
  <2> QED BY <1>3, <2>3
<1> QED BY <1>1, <1>2, <1>3

(* ----------------------- the inductive invariant ------------------------ *)

\* There are only ever finitely many live sessions, since they start one at a
\* time, and the keys of the last refresh stay as they were until the next.
BoardInv ==
    /\ IInv /\ TypeOK
    /\ IsFiniteSet(Live) /\ IsFiniteSet(scan.live)
    /\ Distinct(slots)
    /\ KeysGoToTheLit

\* What a refresh chooses from: the sessions of the scan that have not faded.
Chosen(read) == Activity(Joined(read))

LEMMA JoinedTypes ==
    ASSUME BoardInv, NEW read \in BOOLEAN, NEW s \in scan.live
    PROVE  /\ s \in Sessions
           /\ Joined(read)[s] \in Records \cup {Absent}
           /\ EffectiveState(Joined(read)[s]) \in States \cup Dark
<1>1. scan.live \subseteq Sessions
  BY DEF BoardInv, TypeOK, Scans
<1>2. records \in [Sessions -> Records \cup {Absent}]
  BY DEF BoardInv, TypeOK, StoreTypeOK
<1>3. Joined(read)[s] = IF read THEN records[s] ELSE Absent
  BY DEF Joined
<1>4. Joined(read)[s] \in Records \cup {Absent}
  BY <1>1, <1>2, <1>3
<1>5. ASSUME NEW record \in Records \cup {Absent}
      PROVE  EffectiveState(record) \in States \cup Dark
  <2>1. record # Absent => record.state \in States
    BY DEF Records
  <2> DEFINE old == Age(record) >= WorkingMax
             gone == Age(record) >= DoneFade
  <2>2. EffectiveState(record) =
          CASE record = Absent -> "no_hook"
            [] record # Absent /\ record.state = "working" /\ old -> "idle"
            [] record # Absent /\ record.state = "done" /\ gone -> "done_faded"
            [] OTHER -> record.state
    BY DEF EffectiveState
  <2> HIDE DEF old, gone
  <2>3. CASE record = Absent
    <3>1. EffectiveState(record) = "no_hook"
      BY <2>2, <2>3
    <3> QED BY <3>1 DEF Dark
  <2>4. CASE record # Absent
    <3>1. EffectiveState(record) \in {"idle", "done_faded", record.state}
      BY <2>2, <2>4
    <3> QED BY <2>1, <2>4, <3>1 DEF Dark, States
  <2> QED BY <2>3, <2>4
<1> QED BY <1>1, <1>4, <1>5

LEMMA ChosenTypes ==
    ASSUME BoardInv, NEW read \in BOOLEAN
    PROVE  /\ Chosen(read) \in Activities
           /\ IsFiniteSet(DOMAIN Chosen(read))
           /\ DOMAIN Chosen(read) = {s \in scan.live :
                 EffectiveState(Joined(read)[s]) # "done_faded"}
<1> DEFINE joined == Joined(read)
           D == {s \in scan.live : EffectiveState(joined[s]) # "done_faded"}
           act(s) == IF joined[s] = Absent THEN started[s] ELSE joined[s].rev
<1>1. Chosen(read) = [s \in D |-> act(s)]
  BY DEF Chosen, Activity
<1>2. started \in [Sessions -> 0..MaxTime] /\ MaxTime \in Nat
  BY StoreAssumption DEF BoardInv, TypeOK
<1>3. \A s \in D : s \in Sessions /\ joined[s] \in Records \cup {Absent}
  BY JoinedTypes
<1>4. ASSUME NEW s \in D PROVE act(s) \in Nat
  <2>1. CASE joined[s] = Absent
    BY <1>2, <1>3, <2>1
  <2>2. CASE joined[s] # Absent
    <3>1. joined[s].rev \in 1..MaxTime
      BY <1>3, <2>2 DEF Records
    <3> QED BY <1>2, <2>2, <3>1
  <2> QED BY <2>1, <2>2
<1>5. D \in SUBSET Sessions /\ D \in SUBSET scan.live
  BY <1>3
<1>6. IsFiniteSet(D)
  BY <1>5, FS_Subset DEF BoardInv
<1> HIDE DEF D, act
<1>7. Chosen(read) \in [D -> Nat] /\ DOMAIN Chosen(read) = D
  BY <1>1, <1>4
<1>8. Chosen(read) \in Activities
  BY <1>5, <1>7 DEF Activities
<1> QED BY <1>6, <1>7, <1>8 DEF D

\* A refresh gives the keys out as the configured order says.
LEMMA Refreshed ==
    ASSUME BoardInv, NEW read \in BOOLEAN, ReadStore(read)
    PROVE  LET live == Chosen(read) IN
           /\ slots' \in Seats(DOMAIN live)
           /\ \A s \in DOMAIN live : ~Has(slots', s) => Full(slots')
           /\ policy # "priority" => \A s \in DOMAIN live :
                 ~Has(slots', s) => Quieter(slots', live, s)
           /\ policy = "recent_sticky" => \A j, k \in Keys :
                 slots[j] # None /\ slots'[k] = slots[j] => j = k
<1>1. slots' = Assign(slots, Chosen(read), policy, effective')
  BY DEF ReadStore, Chosen
<1>2. policy \in {"recent_sticky", "recent", "priority"}
  BY SessionsAssumption DEF BoardInv, TypeOK
<1>3. Distinct(slots)
  BY DEF BoardInv
<1> DEFINE live == Chosen(read)
           next == effective'
<1>4. live \in Activities /\ IsFiniteSet(DOMAIN live)
  BY ChosenTypes
<1> HIDE DEF live
<1>5. LET out == Assign(slots, live, policy, next) IN
        /\ out \in Seats(DOMAIN live)
        /\ \A s \in DOMAIN live : ~Has(out, s) => Full(out)
        /\ policy # "priority" => \A s \in DOMAIN live :
              ~Has(out, s) => Quieter(out, live, s)
        /\ policy = "recent_sticky" /\ Distinct(slots) =>
              \A j, k \in Keys :
                 slots[j] # None /\ out[k] = slots[j] => j = k
  BY <1>2, <1>4, AssignFacts
<1>6. slots' = Assign(slots, live, policy, next)
  BY <1>1 DEF live
<1> HIDE DEF next
<1> QED BY <1>3, <1>5, <1>6 DEF live

(* ---------------------------- its preservation -------------------------- *)

\* The other steps leave the daemon's side alone.
LEMMA ElsewhereStep ==
    ASSUME BoardInv, IInv',
           \/ \E s \in Sessions : Start(s) \/ End(s)
           \/ \E h \in Hooks : Fire(h) \/ RunHook(h)
           \/ Pass
           \/ UNCHANGED vars
    PROVE  BoardInv'
<1>1. UNCHANGED <<policy, pc, scan, since, slots, effective>>
  BY DEF Start, End, Fire, RunHook, Pass, vars, board
<1>2. /\ life' \in [Sessions -> {"new", "live", "over"}]
      /\ started' \in [Sessions -> 0..MaxTime]
      /\ IsFiniteSet(Live')
  <2>1. ASSUME NEW s \in Sessions, Start(s)
        PROVE  /\ life' \in [Sessions -> {"new", "live", "over"}]
               /\ started' \in [Sessions -> 0..MaxTime]
               /\ IsFiniteSet(Live')
    <3>1. Live' \subseteq Live \cup {s}
      BY <2>1 DEF Start, Live, BoardInv, TypeOK
    <3>2. IsFiniteSet(Live \cup {s})
      BY FS_AddElement DEF BoardInv
    <3>3. IsFiniteSet(Live')
      BY <3>1, <3>2, FS_Subset
    <3> QED BY <2>1, <3>3 DEF Start, BoardInv, TypeOK, StoreTypeOK
  <2>2. ASSUME NEW s \in Sessions, End(s)
        PROVE  /\ life' \in [Sessions -> {"new", "live", "over"}]
               /\ started' \in [Sessions -> 0..MaxTime]
               /\ IsFiniteSet(Live')
    <3>1. Live' \subseteq Live
      BY <2>2 DEF End, Live, BoardInv, TypeOK
    <3>2. IsFiniteSet(Live')
      BY <3>1, FS_Subset DEF BoardInv
    <3> QED BY <2>2, <3>2 DEF End, BoardInv, TypeOK
  <2>3. CASE UNCHANGED <<life, started>>
    <3>1. Live' = Live
      BY <2>3 DEF Live
    <3> QED BY <2>3, <3>1 DEF BoardInv, TypeOK
  <2> QED BY <2>1, <2>2, <2>3 DEF Fire, RunHook, Pass, vars, world
<1>3. TypeOK'
  BY <1>1, <1>2 DEF BoardInv, TypeOK, IInv
<1>4. KeysGoToTheLit'
  BY <1>1 DEF BoardInv, KeysGoToTheLit, Shown
<1> QED BY <1>1, <1>2, <1>3, <1>4 DEF BoardInv, Distinct

\* A new scan holds live sessions only.
LEMMA ScanningStep ==
    ASSUME BoardInv, IInv', Scan
    PROVE  BoardInv'
<1>1. UNCHANGED <<life, started, policy, slots, effective>> /\ pc' = "prune"
  BY DEF Scan, world, board
<1>2. Live' = Live
  BY <1>1 DEF Live
<1>3. scan'.live \subseteq Live
  BY DEF Scan
<1>4. IsFiniteSet(scan'.live)
  BY <1>3, FS_Subset DEF BoardInv
<1>5. since' \subseteq Tracked
  BY DEF Scan
<1>6. TypeOK'
  BY <1>1, <1>5 DEF BoardInv, TypeOK, IInv, ScanInv
<1>7. KeysGoToTheLit'
  BY <1>1 DEF KeysGoToTheLit
<1> QED BY <1>1, <1>2, <1>4, <1>6, <1>7 DEF BoardInv, Distinct

\* Pruning concerns the store alone.
LEMMA PruningStep ==
    ASSUME BoardInv, IInv', PruneStore
    PROVE  BoardInv'
<1>1. UNCHANGED <<life, started, policy, scan, since, slots, effective>>
  BY DEF PruneStore, world, board
<1>2. pc' = "read"
  BY DEF PruneStore
<1>3. Live' = Live
  BY <1>1 DEF Live
<1>4. TypeOK'
  BY <1>1, <1>2 DEF BoardInv, TypeOK, IInv
<1>5. KeysGoToTheLit'
  BY <1>2 DEF KeysGoToTheLit
<1> QED BY <1>1, <1>3, <1>4, <1>5 DEF BoardInv, Distinct

\* A refresh leaves the keys with whoever is lit.
LEMMA ReadingStep ==
    ASSUME BoardInv, IInv', NEW read \in BOOLEAN, ReadStore(read)
    PROVE  BoardInv'
<1> DEFINE joined == Joined(read)
           D == DOMAIN Chosen(read)
<1>1. /\ UNCHANGED <<life, started, policy, scan, since>> /\ pc' = "idle"
      /\ \A s \in Sessions : effective'[s] =
            IF s \in scan.live THEN EffectiveState(joined[s]) ELSE "no_hook"
      /\ effective' = [s \in Sessions |->
            IF s \in scan.live THEN EffectiveState(joined[s]) ELSE "no_hook"]
  BY DEF ReadStore, world
<1>2. /\ slots' \in Seats(D)
      /\ \A s \in D : ~Has(slots', s) => Full(slots')
  BY Refreshed
<1>3. D = {s \in scan.live : EffectiveState(joined[s]) # "done_faded"}
  BY ChosenTypes
<1>4. \A s \in scan.live : s \in Sessions /\
         EffectiveState(joined[s]) \in States \cup Dark
  BY JoinedTypes
<1> HIDE DEF joined, D
<1>5. effective' \in [Sessions -> States \cup Dark]
  BY <1>1, <1>4 DEF Dark
<1>6. slots' \in [Keys -> Sessions \cup {None}] /\ Distinct(slots')
  <2>1. D \subseteq Sessions
    BY <1>3, <1>4
  <2>2. slots' \in [Keys -> D \cup {None}] /\ Distinct(slots')
    BY <1>2 DEF Seats
  <2> QED BY <2>1, <2>2
<1>7. TypeOK'
  BY <1>1, <1>5, <1>6 DEF BoardInv, TypeOK, IInv
<1>8. ASSUME NEW s \in Shown'
      PROVE  s \in scan.live /\ effective'[s] # "done_faded"
  <2>1. s \in D
    BY <1>2, <1>8 DEF Shown, Seats
  <2> QED BY <1>1, <1>3, <1>4, <2>1
<1>9. ASSUME NEW s \in scan.live \ Shown', effective'[s] \in States
      PROVE  \A k \in Keys : slots'[k] # None
  <2>1. effective'[s] = EffectiveState(joined[s])
    BY <1>1, <1>4
  <2>2. s \in D
    BY <1>3, <1>9, <2>1 DEF States
  <2>3. s # None
    BY <1>4, SessionsAssumption
  <2>4. ~Has(slots', s)
    BY <1>9, <2>3 DEF Has, Shown
  <2> QED BY <1>2, <2>2, <2>4 DEF Full
<1>10. KeysGoToTheLit'
  BY <1>1, <1>6, <1>8, <1>9 DEF KeysGoToTheLit, Distinct
<1>11. Live' = Live
  BY <1>1 DEF Live
<1> QED BY <1>1, <1>6, <1>7, <1>10, <1>11 DEF BoardInv, Distinct

LEMMA BoardStep == BoardInv /\ IInv' /\ [Next]_vars => BoardInv'
<1> SUFFICES ASSUME BoardInv, IInv', [Next]_vars PROVE BoardInv'
  OBVIOUS
<1>1. CASE Scan
  BY <1>1, ScanningStep
<1>2. CASE PruneStore
  BY <1>2, PruningStep
<1>3. ASSUME NEW read \in BOOLEAN, ReadStore(read)
      PROVE  BoardInv'
  BY <1>3, ReadingStep
<1>4. CASE \/ \E s \in Sessions : Start(s) \/ End(s)
           \/ \E h \in Hooks : Fire(h) \/ RunHook(h)
           \/ Pass
           \/ UNCHANGED vars
  BY <1>4, ElsewhereStep
<1> QED BY <1>1, <1>2, <1>3, <1>4 DEF Next, Refresh

LEMMA BoardInit == Init => BoardInv
<1> SUFFICES ASSUME Init PROVE BoardInv
  OBVIOUS
<1>1. Live = {}
  BY DEF Init, Live
<1>2. IsFiniteSet({})
  BY FS_EmptySet
<1>3. TypeOK
  BY InitInv, StoreAssumption DEF Init, IInv, TypeOK, Scans, Dark
<1>4. \A k \in Keys : slots[k] = None
  BY DEF Init
<1>5. KeysGoToTheLit
  BY <1>4 DEF Init, KeysGoToTheLit, Shown
<1> QED BY <1>1, <1>2, <1>3, <1>4, <1>5, InitInv
        DEF Init, BoardInv, Distinct

(* ------------------------------- theorems ------------------------------- *)

\* The inductive invariant of the keys holds in every behaviour.
THEOREM BoardInductive == Spec => []BoardInv
<1>1. BoardInv /\ IInv' /\ [Next]_vars => BoardInv'
  BY BoardStep
<1> QED BY Inductive, BoardInit, <1>1, PTL DEF Spec

\* The variables have their types: the store and the hooks, the scan, and the
\* keys and states the daemon derives from them.
THEOREM TypeCorrect == Spec => []TypeOK
<1>1. BoardInv => TypeOK
  BY DEF BoardInv
<1> QED BY BoardInductive, <1>1, PTL

\* After a refresh no session has two keys, no key is with a session that has
\* faded or is gone, and no lit session goes without while a key is empty.
THEOREM LitHaveKeys == Spec => []KeysGoToTheLit
<1>1. BoardInv => KeysGoToTheLit
  BY DEF BoardInv
<1> QED BY BoardInductive, <1>1, PTL

\* With recent_sticky no refresh moves a session from one key to another.
THEOREM NobodyMoves == Spec => KeysStayPut
<1>1. ASSUME BoardInv, [Next]_vars
      PROVE  [policy = "recent_sticky" =>
                \A j, k \in Keys :
                   slots[j] # None /\ slots'[k] = slots[j] => j = k]_vars
  <2>1. CASE slots' = slots
    BY <1>1, <2>1 DEF BoardInv, Distinct
  <2>2. ASSUME NEW read \in BOOLEAN, ReadStore(read)
        PROVE  policy = "recent_sticky" =>
                 \A j, k \in Keys :
                    slots[j] # None /\ slots'[k] = slots[j] => j = k
    BY <1>1, <2>2, Refreshed
  <2> QED BY <1>1, <2>1, <2>2
          DEF Next, Refresh, Start, End, Fire, RunHook, Pass, Scan,
              PruneStore, vars, board
<1> QED BY BoardInductive, <1>1, PTL DEF Spec, KeysStayPut

\* Whom a refresh leaves out of the keys has been quiet at least as long as
\* whoever it seats.
THEOREM QuietestYield == Spec => QuietestGoFirst
<1> DEFINE Yield(read) ==
        LET live == Activity(Joined(read)) IN
        \A s \in DOMAIN live \ Shown' :
            \A k \in Keys :
                slots'[k] # None /\ live[slots'[k]] >= live[s]
<1>1. ASSUME BoardInv, [Next]_vars
      PROVE  [policy # "priority" /\ pc = "read" /\ pc' = "idle" =>
                \E read \in BOOLEAN : Yield(read)]_vars
  <2>1. ASSUME NEW read \in BOOLEAN, ReadStore(read), policy # "priority"
        PROVE  Yield(read)
    <3> DEFINE live == Chosen(read)
    <3>1. /\ slots' \in Seats(DOMAIN live)
          /\ \A s \in DOMAIN live : ~Has(slots', s) =>
                Full(slots') /\ Quieter(slots', live, s)
      BY <1>1, <2>1, Refreshed
    <3>2. None \notin DOMAIN live
      BY <1>1, ChosenTypes, ActivityTypes
    <3>3. live = Activity(Joined(read))
      BY DEF Chosen
    <3> HIDE DEF live
    <3>4. \A s \in DOMAIN live \ Shown' :
            \A k \in Keys : slots'[k] # None /\ live[slots'[k]] >= live[s]
      <4> SUFFICES ASSUME NEW s \in DOMAIN live \ Shown', NEW k \in Keys
                   PROVE  slots'[k] # None /\ live[slots'[k]] >= live[s]
        OBVIOUS
      <4>1. ~Has(slots', s)
        BY <3>2 DEF Has, Shown
      <4> QED BY <3>1, <4>1 DEF Full, Quieter
    <3> QED BY <3>3, <3>4
  <2> HIDE DEF Yield
  <2>2. CASE UNCHANGED vars
    BY <2>2
  <2>3. CASE \E read \in BOOLEAN : ReadStore(read)
    BY <2>1, <2>3
  <2>4. CASE Next /\ ~\E read \in BOOLEAN : ReadStore(read)
    <3>1. ~(pc = "read" /\ pc' = "idle")
      BY <2>4 DEF Next, Refresh, Start, End, Fire, RunHook, Pass, Scan,
                  PruneStore
    <3> QED BY <3>1
  <2> QED BY <1>1, <2>2, <2>3, <2>4
<1> QED BY BoardInductive, <1>1, PTL DEF Spec, QuietestGoFirst
=============================================================================
