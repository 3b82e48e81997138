----------------------------- MODULE MCForecast -----------------------------
(* A small instance of Forecast. *)
EXTENDS Forecast, TLC

MCPastCycles == <<[started |-> 0, ended |-> 1], [started |-> 0, ended |-> 2]>>

\* Intervals of three, no and two days, and a pause of more than two intervals
\* before the first run.  A purchase that comes late was in between, or later.
MCBought == <<0, 3, 3, 5>>
LateDays == {4, 8}

Changed(b) == IF b THEN 1 ELSE 0

Generating == {t \in Sessions : session[t] # None /\ session[t].step # "feedback"}

PurchaseChanges ==
    Cardinality({c \in Records : purchase[c] # None /\ purchase[c].state = "voided"})
        + Cardinality({c \in Records \ DOMAIN Bought : purchase[c] # None})
Changes == PurchaseChanges + Changed(due # FirstDay) + Changed(cycle # None)

DecidedKinds == {e[1] : e \in DOMAIN feedback \cup {session[t].episode : t \in Saving}}

\* Of the facts at most MaxChanges have changed, one suggestion is decided, one
\* that the change is about, and no run is made just then.  Two runs are made,
\* and two decisions taken at once only of unchanged facts.
MaxChanges == 1
Bounds ==
    /\ Changes <= MaxChanges
    /\ \A c \in Records \ DOMAIN Bought : purchase[c] = None \/ purchase[c].at \in LateDays
    /\ PurchaseChanges = 0 \/ DecidedKinds \subseteq {"repeat_purchase"}
    /\ due = FirstDay \/ DecidedKinds \subseteq {"commitment_due"}
    /\ cycle = None \/ DecidedKinds \subseteq {"use_cycle_end"}
    /\ Cardinality(DOMAIN feedback) <= 1
    /\ Saving = {} \/ Generating = {}
    /\ Cardinality(Generating) <= 1 \/ (runs = <<>> /\ Changes = 0)
    /\ Cardinality(Saving) <= 1 \/ Changes = 0

Symmetry == Permutations(Sessions)
=============================================================================
