---- MODULE MCPad ----
\* Pad with its bounds given by the configuration.
EXTENDS Pad

\* What Queues makes of short queues and small sets is what the definitions by
\* recursion make of them.
Short == UNION {[1..n -> 1..3] : n \in 0..4}
Below(S) == {p \in S \X S : p[1] > p[2]}
ASSUME QueuesAssumption ==
    /\ \A q \in Short, kept \in SUBSET (1..3) :
          Only(q, LAMBDA x : x \in kept) = SelectSeq(q, LAMBDA x : x \in kept)
    /\ \A S \in SUBSET (1..5) :
          Sorted(S, Below(S)) = SetToSortSeq(S, LAMBDA x, y : x > y)
====
