------------------------------ MODULE MCWatch ------------------------------
\* The watch with timers of a few ticks.
EXTENDS Watch
=============================================================================
