------------------------------- MODULE Sorting --------------------------------
(***************************************************************************)
(* Sorting a slice, as slices.SortFunc does, and taking entries of one in  *)
(* their order.                                                            *)
(***************************************************************************)
EXTENDS Integers, SequencesExt

\* One string sorts before another, in Go as in the browser; so do the parts
\* that cmp.Or compares in turn.
Less(a, b) ==
    \E i \in 1 .. Len(b) :
        /\ \A j \in 1 .. i - 1 : j <= Len(a) /\ a[j] = b[j]
        /\ i > Len(a) \/ a[i] < b[i]

\* The entries of s at the positions that have a key, in the order of the keys;
\* what has the same key stays in the order of s.
Sorted(s, key) ==
    LET Place(i) == Cardinality({j \in DOMAIN key :
                                    \/ Less(key[j], key[i])
                                    \/ key[j] = key[i] /\ j < i})
    IN [k \in 1 .. Cardinality(DOMAIN key) |->
            s[CHOOSE i \in DOMAIN key : Place(i) = k - 1]]

\* The entries of s at these positions, in the order of s.
EntriesAt(s, positions) == Sorted(s, [i \in positions |-> <<i>>])
=============================================================================
