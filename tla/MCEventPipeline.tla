-------------------------- MODULE MCEventPipeline --------------------------
(***************************************************************************)
(* Finite instances of EventPipeline.                                      *)
(***************************************************************************)
EXTENDS EventPipeline, TLC
=============================================================================
