---------------------------- MODULE MCIdentities ----------------------------
(* A small instance of Identities. *)
EXTENDS Identities, TLC

Alike == \A i, j \in Ids : Exists(i) /\ Exists(j) => name[i] = name[j]

Quiet ==
    /\ session = [t \in Sessions |-> None]
    /\ uses = [h \in Holders |-> None]
    /\ item = [x \in Items |-> None]

\* The third identity may come at any time, the others come first.
Begun ==
    /\ (Exists(1) /\ Exists(2)) \/ (Quiet /\ ~Exists(3))
    /\ \A t \in Running("merge") : \A n \in {1, 2} : Exists(session[t].pair[n])

Merging ==
    /\ \A x \in Items : item[x] = None
    /\ \A h \in Holders : uses[h] = None
    /\ Exists(1) /\ Exists(2) => name[1] = name[2]

Referring ==
    /\ Exists(3) \/ Quiet
    /\ Alike
    /\ \A x \in Items : item[x] = None
    /\ \A p \in Pairs : suggestion[p] = "none"

Learning ==
    /\ ~Exists(3)
    /\ Alike
    /\ \A h \in Holders : uses[h] = None
    /\ \A p \in Pairs : suggestion[p] = "none"
    /\ redirect[2] = None
    /\ Cardinality({x \in Items : item[x] # None /\ "amount" \in item[x].reasons}) <= 1
    /\ Running("propose") = {}
    /\ \A t \in Running("merge") : session[t].pair = <<1, 2>>

\* Three themes: who is merged with whom, who refers to what is merged, and
\* what is learned while an identity is merged away.
Bounds == Begun /\ (Merging \/ Referring \/ Learning)

Symmetry == Permutations(Sessions) \cup Permutations(Rules) \cup Permutations(Items)
                \cup Permutations(Names)
=============================================================================
