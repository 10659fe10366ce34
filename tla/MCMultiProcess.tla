--------------------------- MODULE MCMultiProcess ---------------------------
(***************************************************************************)
(* Three clients for two slots, so that a slot is freed and filled again.  *)
(***************************************************************************)
EXTENDS MultiProcess

CONSTANTS c1, c2, c3

MCClients == {c1, c2, c3}
TwoClients == {c1, c2}
Symmetry  == Permutations(MCClients)
=============================================================================
