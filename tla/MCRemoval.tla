----------------------------- MODULE MCRemoval -----------------------------
\* A host with a container of the project and one of another project.
EXTENDS Removal, TLC

CONSTANTS k1, k2, v1, n1, q1, q2, p1

TwoContainers == {k1, k2}
OneMine       == {k1}
OneVolume     == {v1}
OneNetwork    == {n1}
OneRequest    == {q1}
TwoRequests   == {q1, q2}
OnePage       == {p1}
NoPage        == {}

Interchangeable == Permutations(TwoRequests)
=============================================================================
