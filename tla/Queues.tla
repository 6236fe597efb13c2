------------------------------- MODULE Queues -------------------------------
(***************************************************************************)
(* What the program's list comprehensions and sorted() do, without         *)
(* recursion, so that it can be proved about: a set in the order of a      *)
(* relation, and a queue cut down to some of its elements.                 *)
(***************************************************************************)
EXTENDS Naturals, Sequences, FiniteSets

\* How many elements of S come before s; R relates what is earlier to what is
\* later.
Rank(S, R, s) == Cardinality({t \in S : <<t, s>> \in R})

\* The elements of S in the order R.
Sorted(S, R) ==
    [n \in 1..Cardinality(S) |-> CHOOSE s \in S : Rank(S, R, s) = n - 1]

Ascending(I) == {p \in I \X I : p[1] < p[2]}

\* The elements of q at the positions I, in their order.
Pick(q, I) ==
    LET at == Sorted(I, Ascending(I)) IN [n \in DOMAIN at |-> q[at[n]]]

\* The elements of q that pass the test, in their order.
Only(q, Test(_)) == Pick(q, {i \in DOMAIN q : Test(q[i])})
=============================================================================
