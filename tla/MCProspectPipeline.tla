-------------------------- MODULE MCProspectPipeline --------------------------
(***************************************************************************)
(* Finite instances of ProspectPipeline: one worker, as the deployment has *)
(* it.                                                                     *)
(***************************************************************************)
EXTENDS ProspectPipeline

CONSTANTS w1
==============================================================================
