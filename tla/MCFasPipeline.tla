---------------------------- MODULE MCFasPipeline ----------------------------
(* The pipeline on a small instance for TLC. *)
EXTENDS FasPipeline

OrdinaryBand == <<90, 150>>
==============================================================================
