---------------------------- MODULE MCStepReport ----------------------------
(* The markets and actions of MCEngineCore, with the report of each step. *)
EXTENDS StepReport, MCEngineCore
=============================================================================
