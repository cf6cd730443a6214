----------------------------- MODULE MCFasEngine -----------------------------
(* The engine on a small instance for TLC. *)
EXTENDS FasEngine
=============================================================================
