---- MODULE MCSessions ----
\* Sessions with few sessions, hooks and keys.
EXTENDS Sessions, TLC
CONSTANTS h1, h2
OneHook       == {h1}
TwoHooks      == {h1, h2}
ThreeSessions == {1, 2, 3}
Nothing       == {}
OneSession    == {1}
TwoPolicies   == {"recent_sticky", "priority"}
OnlyRecent    == {"recent"}
OnlyStop      == {"Stop"}
SomeEvents    == {"SessionStart", "AskUserQuestion", "Stop", "PreToolUse", "idle_prompt",
                  "subagent"}
Interchangeable == Permutations(Hooks)
====
