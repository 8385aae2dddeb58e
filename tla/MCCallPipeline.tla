-------------------------- MODULE MCCallPipeline ---------------------------
(***************************************************************************)
(* Small instances of CallPipeline for TLC.                                *)
(***************************************************************************)
EXTENDS CallPipeline, TLC

Names == Permutations(Handlers) \cup Permutations(Users)
=============================================================================
