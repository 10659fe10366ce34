--------------------------- MODULE MCProcessPool ---------------------------
(***************************************************************************)
(* A pool of two children and three clients; both children may crash.      *)
(***************************************************************************)
EXTENDS ProcessPool

CONSTANTS c1, c2, c3

MCClients == {c1, c2, c3}
=============================================================================
