------------------------------ MODULE MCServer ------------------------------
\* A server with a stream, a request, and two events to send.
EXTENDS Server

CONSTANTS c1, r1

OneStream == {c1}
OneRequest == {r1}
=============================================================================
