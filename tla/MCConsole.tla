----------------------------- MODULE MCConsole -----------------------------
EXTENDS Console
CONSTANTS ta, tb, i1, i2, Any, All
MCClients   == <<i1, i2>>
MCPackSeeds == {<<i1, ta, "allow">>}
=============================================================================
