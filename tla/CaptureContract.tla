-------------------------- MODULE CaptureContract --------------------------
(***************************************************************************)
(* What the capture pipeline promises about the drafts of a source,        *)
(* without jobs, workers, attempts and retries: the drafts come from one   *)
(* answer of the parser and appear together; what is parsed later is only  *)
(* observed; what the owner has decided about a draft stands.              *)
(***************************************************************************)
EXTENDS Naturals

CONSTANTS Sources, Payloads, Count, MaxCandidates, None

VARIABLES
    answer,    \* the parser's answer the drafts of a source were made from
    life,      \* what has become of the candidates of that answer
    observed   \* the answers that were kept as observations

contractVars == <<answer, life, observed>>

ContractInit ==
    /\ answer = [s \in Sources |-> None]
    /\ life = [s \in Sources |-> [i \in 1..MaxCandidates |-> None]]
    /\ observed = [s \in Sources |-> {}]

\* The first n candidates become drafts: all of them, unless one is refused.
Make(s, p, n) ==
    /\ answer[s] = None
    /\ n \in 1..Count[p]
    /\ answer' = [answer EXCEPT ![s] = p]
    /\ life' = [life EXCEPT ![s] =
                   [i \in 1..MaxCandidates |-> IF i <= n THEN "draft" ELSE None]]
    /\ UNCHANGED observed

Note(s, p) ==
    /\ answer[s] # None
    /\ observed' = [observed EXCEPT ![s] = @ \cup {p}]
    /\ UNCHANGED <<answer, life>>

Decide(s, i, outcome) ==
    /\ life[s][i] = "draft"
    /\ life' = [life EXCEPT ![s][i] = outcome]
    /\ UNCHANGED <<answer, observed>>

ContractNext ==
    \E s \in Sources :
        \/ \E p \in Payloads, n \in 1..MaxCandidates : Make(s, p, n)
        \/ \E p \in Payloads : Note(s, p)
        \/ \E i \in 1..MaxCandidates :
              Decide(s, i, "confirmed") \/ Decide(s, i, "deleted")

ContractSpec == ContractInit /\ [][ContractNext]_contractVars
=============================================================================
