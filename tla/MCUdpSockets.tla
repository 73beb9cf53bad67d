---------------------------- MODULE MCUdpSockets ----------------------------
(* TLC instance of UdpSockets: more sockets than blocks, so that handles    *)
(* are used again.                                                          *)
EXTENDS UdpSockets, TLC

Swap == Permutations(Handle) \cup Permutations(Socket)
=============================================================================
