------------------------------- MODULE MCStack --------------------------------
(* A TLC instance of Stack: the loopback interface, two taps and a bridge at  *)
(* three addresses, so that one must be used again.                           *)
EXTENDS Stack
MCKind == <<"loopback", "tap", "tap", "bridge">>
=============================================================================
