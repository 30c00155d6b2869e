------------------------- MODULE MCImportResolution -------------------------
(***************************************************************************)
(* Finite instances of ImportResolution: files of two or three rows, given *)
(* by the rows that carry the external id, an address, a contact.          *)
(***************************************************************************)
EXTENDS ImportResolution, TLC

CONSTANTS w1, w2, k1, k2

Symmetry == Permutations(Workers) \union Permutations(Clients)
==============================================================================
