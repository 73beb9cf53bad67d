----------------------------- MODULE MCTcpSend ------------------------------
(* TLC instances of TcpSend: buffers small enough to fill up, and the pool  *)
(* of lwipopts.h, which holds the segments of two connections.              *)
EXTENDS TcpSend
=============================================================================
