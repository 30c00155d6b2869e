------------------------- MODULE MCProspectRouting -------------------------
(***************************************************************************)
(* Finite instances of ProspectRouting: the one worker of the deployment   *)
(* and clients and companies that nothing tells apart.                     *)
(***************************************************************************)
EXTENDS ProspectRouting, TLC

CONSTANTS w1, k1, k2, c1, c2

Symmetry == Permutations(Clients) \union Permutations(Companies)
==============================================================================
