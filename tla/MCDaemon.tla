---- MODULE MCDaemon ----
\* Daemon with one A key and up to two sessions.
EXTENDS Daemon
CONSTANTS a1, s1, s2
OneKey      == {a1}
OneSession  == {s1}
TwoSessions == {s1, s2}
====
