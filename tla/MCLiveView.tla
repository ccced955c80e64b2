----------------------------- MODULE MCLiveView -----------------------------
\* The live view of a small project: one or two containers, one page.
EXTENDS LiveView

CONSTANTS p1, q1

OnePage    == {p1}
NoRequest  == {}
OneRequest == {q1}
OneCid     == {1}
TwoCids    == {1, 2}
=============================================================================
