-------------------------- MODULE MCFasEngineHistory --------------------------
(* The engine with its history on a small instance for TLC. *)
EXTENDS FasEngineHistory
===============================================================================
