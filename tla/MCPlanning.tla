----------------------------- MODULE MCPlanning -----------------------------
(* A small instance of Planning. *)
EXTENDS Planning, TLC

NoPlans == /\ now = 0
           /\ \A m \in Commitments : commitment[m].revision = 1
           /\ Running("edit") \cup Running("draft") \cup Running("worker") = {}
NoIntents == /\ \A i \in Intents : intent[i].revision = 1
             /\ Running("complete") = {}
NoCycles == (\A y \in Cycles : cycle[y] = None) /\ Running("start") = {}
NoBudgets == \A b \in Budgets : budget[b] = None

\* Four themes: commitments, intents, use cycles and budgets share nothing but
\* the records.
Bounds ==
    \/ NoIntents /\ NoCycles /\ NoBudgets
    \/ NoPlans /\ NoCycles /\ NoBudgets
    \/ NoPlans /\ NoIntents /\ NoBudgets
    \/ NoPlans /\ NoIntents /\ NoCycles /\ \A c \in Records : record[c] = None

Symmetry == Permutations(Records) \cup Permutations(Sessions) \cup Permutations(Keys)
                \cup Permutations(Budgets) \cup Permutations(Months)
=============================================================================
