---------------------------- MODULE MCIdleServer ----------------------------
(***************************************************************************)
(* Two clients and two descriptors: both are open at once, or the second   *)
(* reuses the descriptor of the first.                                     *)
(***************************************************************************)
EXTENDS IdleServer

CONSTANTS c1, c2

MCClients == {c1, c2}
=============================================================================
