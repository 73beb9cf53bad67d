---------------------------- MODULE MCTcpHandles ----------------------------
(* TLC instances of TcpHandles: a pool smaller than the number of           *)
(* connections, so that handles are used again.                             *)
EXTENDS TcpHandles
=============================================================================
