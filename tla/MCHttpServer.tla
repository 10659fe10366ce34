---------------------------- MODULE MCHttpServer ----------------------------
(***************************************************************************)
(* Instances of the HTTP server.  Clients and workers are interchangeable, *)
(* which the runs that check only invariants use; descriptors are not,     *)
(* because accept returns the lowest free one.                             *)
(***************************************************************************)
EXTENDS HttpServer, TLC

CONSTANTS c1, c2, c3, w1, w2

MCClients == {c1, c2, c3}
TwoWorkers == {w1, w2}
OneWorker  == {w1}

\* the pieces each client may send
OneEach == [c \in MCClients |-> 1]
TwoOneNone == [c \in MCClients |-> CASE c = c1 -> 2 [] c = c2 -> 1 [] c = c3 -> 0]

Symmetry == Permutations(MCClients) \cup Permutations(TwoWorkers)
=============================================================================
