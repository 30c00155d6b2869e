-------------------------- MODULE MCProspectJobQueue --------------------------
(***************************************************************************)
(* A finite instance of ProspectJobQueue: two workers and two jobs of one  *)
(* batch, the second a retry of the first.                                 *)
(***************************************************************************)
EXTENDS ProspectJobQueue

CONSTANTS w1, w2, j1, j2

SameBatch == [j \in Jobs |-> "k1"]
==============================================================================
