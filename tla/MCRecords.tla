----------------------------- MODULE MCRecords -----------------------------
(* Small instances of Records. *)
EXTENDS Records, FiniteSets, TLC

Symmetry == Permutations(Sessions) \cup Permutations(Records) \cup Permutations(Keys)
                \cup Permutations(Amounts)

Made == {c \in Records : record[c] # None}

\* References and the whole life of a record are explored with one record, two
\* records are followed through the revisions that a refund and its expense need.
Themes ==
    Cardinality(Made) > 1 =>
        /\ \A c \in Records : refs[c] = {}
        /\ \A t \in Sessions : session[t] # None => session[t].refs = {}
        /\ \A c, d \in Made : c # d => record[c].revision + record[d].revision <= 4
=============================================================================
