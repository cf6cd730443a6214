--------------------------- MODULE MCThreadLedger ---------------------------
(* Small cpusets and rules for ThreadLedger. *)
EXTENDS ThreadLedger

CONSTANTS top, bg

TwoGroups == {top, bg, Root}

\* CPU 0 is in every mask, so no group ever refuses one.
OpenCpus == [g \in TwoGroups |-> IF g = bg THEN {0, 1} ELSE {0, 1, 2}]
\* The background group refuses the mask {0} and every mask without CPU 1.
NarrowCpus == [g \in TwoGroups |-> IF g = bg THEN {1, 2} ELSE {0, 1, 2}]

\* One name with a rule, one without.
Rules == [n \in Names |-> IF n = "UnityMain" THEN {0} ELSE {}]
TwoRules == [n \in Names |-> IF n = "UnityMain" THEN {0} ELSE {0, 1}]
OneCluster == {{0, 1}}
=============================================================================
