---------------------------- MODULE QueuesProofs ----------------------------
(***************************************************************************)
(* What sorting and filtering give, for sets and queues of any size.       *)
(***************************************************************************)
EXTENDS Queues, FiniteSetTheorems, SequenceTheorems, TLAPS

\* R puts any two elements of S in one order.
Orders(R, S) ==
    /\ \A s \in S : <<s, s>> \notin R
    /\ \A s, t, u \in S : <<s, t>> \in R /\ <<t, u>> \in R => <<s, u>> \in R
    /\ \A s, t \in S : s # t => <<s, t>> \in R \/ <<t, s>> \in R

\* The ranks tell the elements apart, in their order, and leave no gap.
LEMMA RankProperties ==
    ASSUME NEW S, IsFiniteSet(S), NEW R, Orders(R, S)
    PROVE  /\ \A s \in S : Rank(S, R, s) \in 0..(Cardinality(S) - 1)
           /\ \A s, t \in S : <<s, t>> \in R <=> Rank(S, R, s) < Rank(S, R, t)
           /\ \A s, t \in S : Rank(S, R, s) = Rank(S, R, t) => s = t
           /\ \A n \in 1..Cardinality(S) : \E s \in S : Rank(S, R, s) = n - 1
<1> DEFINE Before(s) == {t \in S : <<t, s>> \in R}
<1>0. Cardinality(S) \in Nat
  BY FS_CardinalityType
<1>1. \A s \in S : /\ IsFiniteSet(Before(s)) /\ Rank(S, R, s) \in Nat
                   /\ Rank(S, R, s) < Cardinality(S)
  <2> SUFFICES ASSUME NEW s \in S
               PROVE  /\ IsFiniteSet(Before(s)) /\ Rank(S, R, s) \in Nat
                      /\ Rank(S, R, s) < Cardinality(S)
    OBVIOUS
  <2>1. Before(s) \in SUBSET S /\ Before(s) # S
    BY DEF Orders
  <2>2. /\ IsFiniteSet(Before(s))
        /\ Cardinality(Before(s)) <= Cardinality(S)
        /\ Cardinality(S) # Cardinality(Before(s))
    BY <2>1, FS_Subset
  <2>3. Cardinality(Before(s)) \in Nat
    BY <2>2, FS_CardinalityType
  <2> QED BY <1>0, <2>2, <2>3 DEF Rank
<1>a. \A s \in S : Rank(S, R, s) \in Nat /\ Rank(S, R, s) < Cardinality(S)
  BY <1>1
<1> HIDE DEF Before
<1>2. \A s, t \in S : <<s, t>> \in R => Rank(S, R, s) < Rank(S, R, t)
  <2> SUFFICES ASSUME NEW s \in S, NEW t \in S, <<s, t>> \in R
               PROVE  Rank(S, R, s) < Rank(S, R, t)
    OBVIOUS
  <2>1. Before(s) \in SUBSET Before(t) /\ s \in Before(t) /\ s \notin Before(s)
    BY DEF Orders, Before
  <2>2. IsFiniteSet(Before(t))
    BY <1>1
  <2>3. /\ Cardinality(Before(s)) <= Cardinality(Before(t))
        /\ Cardinality(Before(t)) # Cardinality(Before(s))
    BY <2>1, <2>2, FS_Subset
  <2>4. Rank(S, R, s) \in Nat /\ Rank(S, R, t) \in Nat
    BY <1>a
  <2> QED BY <2>3, <2>4 DEF Rank, Before
<1>3. \A s, t \in S : <<s, t>> \in R <=> Rank(S, R, s) < Rank(S, R, t)
  <2> SUFFICES ASSUME NEW s \in S, NEW t \in S,
                      Rank(S, R, s) < Rank(S, R, t)
               PROVE  <<s, t>> \in R
    BY <1>2
  <2>1. Rank(S, R, s) \in Nat /\ Rank(S, R, t) \in Nat
    BY <1>a
  <2>2. s # t /\ ~(Rank(S, R, t) < Rank(S, R, s))
    BY <2>1
  <2> QED BY <2>2, <1>2 DEF Orders
<1>4. \A s, t \in S : Rank(S, R, s) = Rank(S, R, t) => s = t
  <2> SUFFICES ASSUME NEW s \in S, NEW t \in S, s # t,
                      Rank(S, R, s) = Rank(S, R, t)
               PROVE  FALSE
    OBVIOUS
  <2>1. Rank(S, R, s) \in Nat /\ Rank(S, R, t) \in Nat
    BY <1>a
  <2>2. Rank(S, R, s) < Rank(S, R, t) \/ Rank(S, R, t) < Rank(S, R, s)
    BY <1>2 DEF Orders
  <2> QED BY <2>1, <2>2
<1>5. \A n \in 1..Cardinality(S) : \E s \in S : Rank(S, R, s) = n - 1
  <2> DEFINE T == 1..Cardinality(S)
             place == [s \in S |-> Rank(S, R, s) + 1]
  <2>1. IsFiniteSet(T) /\ Cardinality(T) = Cardinality(S)
    BY <1>0, FS_Interval
  <2>2. \A s \in S : Rank(S, R, s) + 1 \in T
    BY <1>0, <1>a
  <2>3. place \in [S -> T]
    BY <2>2
  <2>4. \A s, t \in S : place[s] = place[t] => s = t
    BY <1>a, <1>4
  <2>5. place \in Injection(S, T)
    BY <2>3, <2>4 DEF Injection, IsInjective
  <2> HIDE DEF place
  <2>6. place \in Surjection(S, T)
    BY <2>1, <2>5, FS_Injection
  <2>7. \A n \in T : \E s \in S : place[s] = n
    BY <2>6 DEF Surjection
  <2> SUFFICES ASSUME NEW n \in T PROVE \E s \in S : Rank(S, R, s) = n - 1
    OBVIOUS
  <2>8. PICK s \in S : place[s] = n
    BY <2>7
  <2>9. Rank(S, R, s) + 1 = n
    BY <2>8 DEF place
  <2> QED BY <1>a, <2>9
<1> QED BY <1>0, <1>a, <1>3, <1>4, <1>5

\* Sorting puts every element in one place, and earlier ones first.
LEMMA SortedProperties ==
    ASSUME NEW S, IsFiniteSet(S), NEW R, Orders(R, S)
    PROVE  /\ Cardinality(S) \in Nat
           /\ Sorted(S, R) \in [1..Cardinality(S) -> S]
           /\ \A m, n \in 1..Cardinality(S) :
                 m < n <=> <<Sorted(S, R)[m], Sorted(S, R)[n]>> \in R
           /\ \A s \in S :
                 \E n \in 1..Cardinality(S) : Sorted(S, R)[n] = s
<1>0. Cardinality(S) \in Nat
  BY FS_CardinalityType
<1>1. \A n \in 1..Cardinality(S) :
         Sorted(S, R)[n] \in S /\ Rank(S, R, Sorted(S, R)[n]) = n - 1
  <2> SUFFICES ASSUME NEW n \in 1..Cardinality(S)
               PROVE  /\ Sorted(S, R)[n] \in S
                      /\ Rank(S, R, Sorted(S, R)[n]) = n - 1
    OBVIOUS
  <2>1. \E s \in S : Rank(S, R, s) = n - 1
    BY RankProperties
  <2>2. Sorted(S, R)[n] = CHOOSE s \in S : Rank(S, R, s) = n - 1
    BY DEF Sorted
  <2> QED BY <2>1, <2>2
<1>2. Sorted(S, R) \in [1..Cardinality(S) -> S]
  BY <1>1 DEF Sorted
<1>3. \A m, n \in 1..Cardinality(S) :
         m < n <=> <<Sorted(S, R)[m], Sorted(S, R)[n]>> \in R
  <2> SUFFICES ASSUME NEW m \in 1..Cardinality(S), NEW n \in 1..Cardinality(S)
               PROVE  m < n <=> <<Sorted(S, R)[m], Sorted(S, R)[n]>> \in R
    OBVIOUS
  <2>1. <<Sorted(S, R)[m], Sorted(S, R)[n]>> \in R <=> m - 1 < n - 1
    BY <1>1, RankProperties
  <2> QED BY <1>0, <2>1
<1>4. ASSUME NEW s \in S
      PROVE  \E n \in 1..Cardinality(S) : Sorted(S, R)[n] = s
  <2>1. Rank(S, R, s) \in 0..(Cardinality(S) - 1)
    BY RankProperties
  <2>2. Rank(S, R, s) + 1 \in 1..Cardinality(S)
    BY <1>0, <2>1
  <2>3. Rank(S, R, Sorted(S, R)[Rank(S, R, s) + 1]) = Rank(S, R, s)
    BY <1>1, <2>1, <2>2
  <2>4. Sorted(S, R)[Rank(S, R, s) + 1] = s
    BY <1>1, <2>2, <2>3, RankProperties
  <2> QED BY <2>2, <2>4
<1> QED BY <1>0, <1>2, <1>3, <1>4

\* A queue of some elements is a queue of more.
LEMMA QueueOfMore ==
    ASSUME NEW X, NEW Y, X \subseteq Y, NEW q \in Seq(X)
    PROVE  q \in Seq(Y)
<1>1. Len(q) \in Nat /\ q \in [1..Len(q) -> X]
  BY LenProperties
<1>2. q \in [1..Len(q) -> Y]
  BY <1>1
<1> QED BY <1>1, <1>2

\* Filtering a queue gives a queue of the elements that are to be kept, all of
\* them, in their order.
LEMMA PickProperties ==
    ASSUME NEW X, NEW q \in Seq(X), NEW I \in SUBSET DOMAIN q
    PROVE  /\ \A Y : (\A i \in I : q[i] \in Y) => Pick(q, I) \in Seq(Y)
           /\ \E at \in [DOMAIN Pick(q, I) -> I] :
                 /\ \A n \in DOMAIN Pick(q, I) : Pick(q, I)[n] = q[at[n]]
                 /\ \A m, n \in DOMAIN Pick(q, I) : m < n <=> at[m] < at[n]
                 /\ \A i \in I : \E n \in DOMAIN Pick(q, I) : at[n] = i
<1> DEFINE R == Ascending(I)
           at == Sorted(I, R)
<1>1. DOMAIN q = 1..Len(q) /\ Len(q) \in Nat /\ I \in SUBSET (1..Len(q))
  OBVIOUS
<1>2. IsFiniteSet(I)
  <2>1. IsFiniteSet(1..Len(q))
    BY <1>1, FS_Interval
  <2> QED BY <1>1, <2>1, FS_Subset
<1>3. I \subseteq Nat
  BY <1>1
<1>4. Orders(R, I)
  BY <1>3 DEF Orders, Ascending
<1>5. /\ Cardinality(I) \in Nat
      /\ at \in [1..Cardinality(I) -> I]
      /\ \A m, n \in 1..Cardinality(I) : m < n <=> <<at[m], at[n]>> \in R
      /\ \A i \in I : \E n \in 1..Cardinality(I) : at[n] = i
  BY <1>2, <1>4, SortedProperties
<1>6. Pick(q, I) = [n \in DOMAIN at |-> q[at[n]]]
  BY DEF Pick
<1> HIDE DEF at
<1>7. DOMAIN at = 1..Cardinality(I) /\ \A n \in DOMAIN at : at[n] \in I
  BY <1>5
<1>8. ASSUME NEW Y, \A i \in I : q[i] \in Y
      PROVE  Pick(q, I) \in Seq(Y)
  <2>1. Pick(q, I) \in [1..Cardinality(I) -> Y]
    BY <1>6, <1>7, <1>8
  <2> QED BY <1>5, <2>1
<1>9. DOMAIN Pick(q, I) = 1..Cardinality(I)
  BY <1>6, <1>7
<1>10. \A m, n \in 1..Cardinality(I) : m < n <=> at[m] < at[n]
  BY <1>5, <1>7 DEF Ascending
<1>11. \A n \in 1..Cardinality(I) : Pick(q, I)[n] = q[at[n]]
  BY <1>6, <1>7
<1>12. /\ at \in [DOMAIN Pick(q, I) -> I]
       /\ \A n \in DOMAIN Pick(q, I) : Pick(q, I)[n] = q[at[n]]
       /\ \A m, n \in DOMAIN Pick(q, I) : m < n <=> at[m] < at[n]
       /\ \A i \in I : \E n \in DOMAIN Pick(q, I) : at[n] = i
  BY <1>5, <1>9, <1>10, <1>11
<1> QED BY <1>8, <1>12

\* A finite set has a first element in any order.
LEMMA FirstElement ==
    ASSUME NEW S, IsFiniteSet(S), S # {}, NEW R, Orders(R, S)
    PROVE  \E x \in S : \A y \in S : x = y \/ <<x, y>> \in R
<1>1. /\ Cardinality(S) \in Nat
      /\ Sorted(S, R) \in [1..Cardinality(S) -> S]
      /\ \A k, m \in 1..Cardinality(S) :
            k < m <=> <<Sorted(S, R)[k], Sorted(S, R)[m]>> \in R
      /\ \A i \in S : \E k \in 1..Cardinality(S) : Sorted(S, R)[k] = i
  BY SortedProperties
<1>2. 1 \in 1..Cardinality(S)
  <2>1. PICK i \in S : TRUE
    OBVIOUS
  <2> QED BY <1>1, <2>1
<1>3. Sorted(S, R)[1] \in S
  BY <1>1, <1>2
<1>4. ASSUME NEW y \in S
      PROVE  Sorted(S, R)[1] = y \/ <<Sorted(S, R)[1], y>> \in R
  <2>1. PICK k \in 1..Cardinality(S) : Sorted(S, R)[k] = y
    BY <1>1
  <2>2. CASE k = 1
    BY <2>1, <2>2
  <2>3. CASE k # 1
    <3>1. 1 < k
      BY <1>1, <2>3
    <3> QED BY <1>1, <1>2, <2>1, <3>1
  <2> QED BY <2>2, <2>3
<1> QED BY <1>3, <1>4

\* A set of positions has a first one.
LEMMA LeastPosition ==
    ASSUME NEW n \in Nat, NEW I, I \subseteq 1..n, I # {}
    PROVE  \E x \in I : \A y \in I : x =< y
<1>1. IsFiniteSet(I) /\ I \subseteq Nat
  <2>1. IsFiniteSet(1..n)
    BY FS_Interval
  <2>2. IsFiniteSet(I)
    BY <2>1, FS_Subset
  <2> QED BY <2>2
<1>2. Orders(Ascending(I), I)
  BY <1>1 DEF Orders, Ascending
<1>3. PICK x \in I : \A y \in I : x = y \/ <<x, y>> \in Ascending(I)
  BY <1>1, <1>2, FirstElement
<1>4. ASSUME NEW y \in I PROVE x =< y
  <2>1. x = y \/ x < y
    BY <1>3 DEF Ascending
  <2> QED BY <1>1, <2>1
<1> QED BY <1>4

\* What holds at 0 and at the number after each one where it holds, holds
\* everywhere.
LEMMA StepByStep ==
    ASSUME NEW n \in Nat, NEW T, 0 \in T,
           \A m \in 1..n : m - 1 \in T => m \in T
    PROVE  0..n \subseteq T
<1> DEFINE I == {m \in 1..n : m \notin T}
<1>1. CASE I = {}
  <2> SUFFICES ASSUME NEW m \in 0..n PROVE m \in T
    OBVIOUS
  <2> QED BY <1>1
<1>2. CASE I # {}
  <2>1. PICK x \in I : \A y \in I : x =< y
    BY <1>2, LeastPosition
  <2>2. x \in 1..n /\ x \notin T
    OBVIOUS
  <2>3. x - 1 \in T
    <3>1. CASE x = 1
      BY <3>1
    <3>2. CASE x # 1
      <4>1. x - 1 \in 1..n /\ ~(x =< x - 1)
        BY <2>2, <3>2
      <4>2. x - 1 \notin I
        BY <2>1, <4>1
      <4> QED BY <4>1, <4>2
    <3> QED BY <3>1, <3>2
  <2> QED BY <2>2, <2>3
<1> QED BY <1>1, <1>2
=============================================================================
