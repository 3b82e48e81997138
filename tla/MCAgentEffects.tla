--------------------------- MODULE MCAgentEffects ---------------------------
(* Small instances of AgentEffects. *)
EXTENDS AgentEffects, FiniteSets, TLC

CONSTANT a1

\* Every draft and every request key belongs to one agent.
MCAuthorOf == [c \in Records |-> a1]
MCAgentOf == [r \in Requests |-> a1]

Symmetry == Permutations(Sessions) \cup Permutations(Requests) \cup Permutations(Bodies)

\* The requests that somebody has made or is about to make.
Used == {r \in Requests : \/ intent[r] # None
                          \/ \E t \in Sessions : session[t] # None /\ session[t].request = r}

Changed == \E a \in Agents : standing[a] # [usable |-> TRUE, version |-> 0]
Edited == \E c \in Records : record[c].state = "draft" /\ record[c].revision > 1

\* Edits by the owner, changes of the grant and of the source, and expiry are
\* explored with one request; several requests race only each other.
Themes ==
    Cardinality(Used) > 1 =>
        /\ ~Changed /\ ~Edited
        /\ \A c \in Records : ~record[c].blocked
        /\ lapsed = [intents |-> {}, approvals |-> {}]
=============================================================================
