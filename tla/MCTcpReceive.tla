---------------------------- MODULE MCTcpReceive ----------------------------
(* TLC instances of TcpReceive.  Sizes are scaled down: the window holds    *)
(* more than two high water marks, one chunk fits a mark twice, one not.    *)
EXTENDS TcpReceive
=============================================================================
