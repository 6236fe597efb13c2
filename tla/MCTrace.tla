---- MODULE MCTrace ----
\* Trace on small instances.
EXTENDS Trace, TLC
CONSTANTS a, b, c, d1, d2

TwoClients   == {a, b}
ThreeClients == {a, b, c}
OneDaemon    == {d1}
TwoDaemons   == {d1, d2}

Interchangeable == Permutations(Clients) \cup Permutations(Daemons)
====
