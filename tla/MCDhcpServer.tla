---------------------------- MODULE MCDhcpServer ----------------------------
(* TLC instance of DhcpServer: a small range, fewer addresses than clients. *)
EXTENDS DhcpServer, TLC

CONSTANT MaxTime   \* bound on the wall clock

Clients == Permutations(Mac)
TimeBound == now <= MaxTime
=============================================================================
