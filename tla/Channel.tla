------------------------------ MODULE Channel ------------------------------
(* Go's buffered channels, as far as this program uses them: a sender that *)
(* never waits (select { case ch <- v: default: }) and a FIFO receiver.    *)
EXTENDS Naturals, Sequences

\* A non-blocking send of v on a channel of capacity cap holding q: the value
\* is queued when there is room and thrown away when there is none.
Offer(q, cap, v) == IF Len(q) < cap THEN Append(q, v) ELSE q
=============================================================================
