---- MODULE MCLifecycle ----
\* Lifecycle on small instances: which processes exist is chosen per run.
EXTENDS Lifecycle, TLC
CONSTANTS i1, i2, p1, p2, stop, start, status

OneInstance  == {i1}
TwoInstances == {i1, i2}
OnePid       == {p1}
TwoPids      == {p1, p2}
NoProcess    == {}
OneStop      == {stop}
OneStart     == {start}
OneStatus    == {status}

Interchangeable ==
    Permutations(Instances) \cup Permutations(Pids) \cup Permutations(Stoppers)
====
