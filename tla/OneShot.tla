---- MODULE OneShot ----
(***************************************************************************)
(* What `paneglow trace-input` promises, without the mailbox: a command     *)
(* asks for one capture; captures never overlap; each request is captured   *)
(* at most once; and a result goes to the command that asked for it, at     *)
(* most once, and only after its capture has ended.  A request may be given *)
(* up at any stage, because the command or the daemon may die.              *)
(***************************************************************************)
CONSTANT Clients     \* invocations of trace-input
VARIABLE stage       \* stage[c]: how far the request of c has come

Stages == {"idle", "asked", "capturing", "offered", "delivered", "over"}

Init == stage = [c \in Clients |-> "idle"]

Move(c, from, to) ==
    /\ stage[c] \in from
    /\ stage' = [stage EXCEPT ![c] = to]

Ask(c)     == Move(c, {"idle"}, "asked")
Begin(c)   == /\ \A b \in Clients : stage[b] # "capturing"
              /\ Move(c, {"asked"}, "capturing")
Offer(c)   == Move(c, {"capturing"}, "offered")
Deliver(c) == Move(c, {"offered"}, "delivered")
Abandon(c) == Move(c, Stages \ {"delivered"}, "over")

Next ==
    \E c \in Clients :
        Ask(c) \/ Begin(c) \/ Offer(c) \/ Deliver(c) \/ Abandon(c)

Spec == Init /\ [][Next]_stage
====
