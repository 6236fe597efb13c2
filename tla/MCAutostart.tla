---- MODULE MCAutostart ----
\* Autostart with two processes that run any number of commands.
EXTENDS Autostart, TLC
CONSTANTS c1, c2

TwoCommands == {c1, c2}

Interchangeable == Permutations(Commands)
====
