---------------------------- MODULE MCInterfaces ----------------------------
(* TLC instance of Interfaces: two-bit addresses; two IPv6 CIDRs share a    *)
(* network, and two share an address under different prefix lengths.        *)
EXTENDS Interfaces, TLC

Swap == Permutations(Iface)

C(f, a, l) == [fam |-> f, addr |-> a, len |-> l]
MCCidr == {C(4, 1, 1), C(4, 2, 1), C(6, 0, 1), C(6, 1, 1), C(6, 1, 0), C(6, 2, 1)}
MCStatic == {NetworkOf(C(4, 1, 1)), NetworkOf(C(6, 1, 1))}
=============================================================================
