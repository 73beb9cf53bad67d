-------------------------------- MODULE MCDns --------------------------------
\* Dns for TLC: two lookups, a name that ends in a dot, one address, ids that
\* wrap around after two, and fewer sockets than queries.
EXTENDS Dns

MCHostName == {<<"a", "b">>, <<"a", "">>}
MCIp == {[version |-> 4, parts |-> <<"10", "1">>]}
=============================================================================
