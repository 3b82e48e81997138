--------------------------- MODULE EffectContract ---------------------------
(***************************************************************************)
(* What the agent effects control plane promises, without sessions, locks, *)
(* snapshots or capabilities: a request names one draft at one revision    *)
(* and one action; a human grants it; it is carried out at most once, and  *)
(* only on that draft at that revision.  Edits by the user move the        *)
(* revision and so defeat every request that names an older one.           *)
(***************************************************************************)
EXTENDS Naturals

CONSTANTS Records, Requests, None

VARIABLES
    life,      \* what has become of each record
    revision,  \* its revision
    phase,     \* how far each request has come
    target     \* the record, revision and action a request names

contractVars == <<life, revision, phase, target>>

Target == [record : Records, revision : Nat, action : {"confirm", "reject"}]

ContractInit ==
    /\ life = [c \in Records |-> "draft"]
    /\ revision = [c \in Records |-> 1]
    /\ phase = [r \in Requests |-> "none"]
    /\ target = [r \in Requests |-> None]

\* The draft a request names is still the draft it was asked about.
Current(r) ==
    /\ life[target[r].record] = "draft"
    /\ revision[target[r].record] = target[r].revision

Ask(r) ==
    /\ phase[r] = "none"
    /\ \E c \in Records, a \in {"confirm", "reject"} :
          /\ life[c] = "draft"
          /\ target' = [target EXCEPT ![r] =
                           [record |-> c, revision |-> revision[c], action |-> a]]
    /\ phase' = [phase EXCEPT ![r] = "asked"]
    /\ UNCHANGED <<life, revision>>

Grant(r) ==
    /\ phase[r] = "asked"
    /\ Current(r)
    /\ phase' = [phase EXCEPT ![r] = "granted"]
    /\ UNCHANGED <<life, revision, target>>

CarryOut(r) ==
    /\ phase[r] = "granted"
    /\ Current(r)
    /\ phase' = [phase EXCEPT ![r] = "done"]
    /\ LET c == target[r].record IN
       IF target[r].action = "confirm"
       THEN /\ life' = [life EXCEPT ![c] = "confirmed"]
            /\ revision' = [revision EXCEPT ![c] = @ + 1]
       ELSE /\ life' = [life EXCEPT ![c] = "deleted"]
            /\ UNCHANGED revision
    /\ UNCHANGED target

Edit(c) ==
    /\ life[c] \in {"draft", "confirmed"}
    /\ revision' = [revision EXCEPT ![c] = @ + 1]
    /\ UNCHANGED <<life, phase, target>>

Advance(c) ==
    /\ \/ life[c] = "draft" /\ life' = [life EXCEPT ![c] = "confirmed"]
       \/ life[c] = "confirmed" /\ life' = [life EXCEPT ![c] = "voided"]
    /\ revision' = [revision EXCEPT ![c] = @ + 1]
    /\ UNCHANGED <<phase, target>>

Discard(c) ==
    /\ life[c] = "draft"
    /\ life' = [life EXCEPT ![c] = "deleted"]
    /\ UNCHANGED <<revision, phase, target>>

ContractNext ==
    \/ \E r \in Requests : Ask(r) \/ Grant(r) \/ CarryOut(r)
    \/ \E c \in Records : Edit(c) \/ Advance(c) \/ Discard(c)

ContractSpec == ContractInit /\ [][ContractNext]_contractVars
=============================================================================
