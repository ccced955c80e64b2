------------------------------- MODULE MCHub -------------------------------
\* The hub on two clients, with a buffer small enough to overflow.
EXTENDS Hub

CONSTANTS c1, c2

TwoClients == {c1, c2}
=============================================================================
