----------------------------- MODULE MCIcmpPing -----------------------------
(* TLC instance of IcmpPing: two identifiers, so that two sessions may or   *)
(* may not collide, and two sequence numbers, so that they wrap.            *)
EXTENDS IcmpPing
=============================================================================
