------------------------- MODULE MCSchedulerSession -------------------------
(***************************************************************************)
(* A game whose leader and thread of the engine are both main threads by    *)
(* name, so that a latch has a successor, and a thread of no such name.     *)
(***************************************************************************)
EXTENDS SchedulerSession

MCRoles == [n \in Names |-> IF n \in {"leader", "engine"} THEN "main" ELSE "background"]
=============================================================================
