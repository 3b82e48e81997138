--------------------------- MODULE MCImportReview ---------------------------
(* A small instance of ImportReview. *)
EXTENDS ImportReview, TLC

CONSTANTS k1, k2, s1, s2

\* A batch of two rows, and one that delivers the first row again.
MCRowsOf == [k \in {k1, k2} |-> IF k = k1 THEN {s1, s2} ELSE {s1}]

\* Two themes, each with everything else free: how sources change and are
\* linked, and how a second batch meets the first.
Bounds == batch[k2] = "absent" \/ \A s \in Sources : observation[s] = "none"

Symmetry == Permutations(Records) \cup Permutations(Sessions)
=============================================================================
