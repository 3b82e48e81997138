------------------------------ MODULE Forecast ------------------------------
(***************************************************************************)
(* Suggestions from facts: services/forecast.py, services/feedback.py,     *)
(* their routes in api.py and routers/workbench.py, and the daily run of   *)
(* worker.py.                                                              *)
(*                                                                         *)
(* One owner, one item, one recurring commitment and one use cycle next to *)
(* the completed ones.  Times are whole days.  generate_forecast() reads   *)
(* the facts with three queries under READ COMMITTED, so facts may change  *)
(* between them.  Amounts, confidence and wording are left out; a run is   *)
(* its input snapshot, its suggestions are calculated from it.             *)
(***************************************************************************)
EXTENDS Integers, FiniteSets, Sequences

CONSTANTS
    Records,       \* purchases of the item, in id order
    Bought,        \* those that were made before, with their days
    Dues,          \* days that the commitment and the use cycle are set to
    PastCycles,    \* completed use cycles: sequence of [started, ended]
    Decisions,     \* what the owner decides about suggestions
    Sessions,
    None,
    FirstDay,
    LastDay,
    Horizon,       \* horizon_days
    MaxRuns,
    MaxRevision    \* bound on the decisions about one suggestion

ASSUME ConstantsAssumption ==
    /\ Records \subseteq Nat /\ IsFiniteSet(Records)
    /\ DOMAIN Bought \subseteq Records
    /\ \A c \in DOMAIN Bought : Bought[c] \in 0..(FirstDay - 1)
    /\ Dues \subseteq FirstDay..(LastDay + Horizon) /\ FirstDay \in Dues
    /\ Decisions \subseteq {"dismissed", "snoozed", "handled", "active"}
    /\ FirstDay \in Nat /\ LastDay \in Nat /\ FirstDay <= LastDay
    /\ Horizon \in Nat \ {0}
    /\ MaxRuns \in Nat \ {0} /\ MaxRevision \in Nat \ {0}
    /\ None \notin Int
    /\ PastCycles \in Seq([started : Nat, ended : Nat])
    /\ \A n \in DOMAIN PastCycles :
          0 <= PastCycles[n].started /\ PastCycles[n].started <= PastCycles[n].ended
                                     /\ PastCycles[n].ended < FirstDay

VARIABLES
    day,
    purchase,      \* ledger_records with a consumption line of the item
    due,           \* recurring_commitments.next_due_at
    cycle,         \* use_cycles
    runs,          \* forecast_runs in the order of their insertion
    feedback,      \* suggestion_feedback by episode_key
    session

facts == <<day, purchase, due, cycle>>
vars == <<facts, runs, feedback, session>>

Days == 0..LastDay
Times == 0..(LastDay + Horizon)
Purchase == [at : Days, state : {"confirmed", "voided"}]
Cycle == [state : {"active", "completed"}, started : Days, expected : Times \cup {None},
          ended : Days \cup {None}]
Seen == [record : Records, at : Days]
Snapshot == [asOf : Days, due : Times, purchases : SUBSET Seen, cycle : Cycle \cup {None}]
Kinds == {"commitment_due", "repeat_purchase", "use_cycle_end"}

\* The one use cycle of the model.
CycleId == 0

Suggestion == [kind : Kinds, at : Times, anchor : Records \cup Times \cup {CycleId}]
Run == [snapshot : Snapshot, items : SUBSET Suggestion, daily : BOOLEAN]
Feedback == [state : Decisions, until : Times \cup {None}, revision : 1..MaxRevision]

-----------------------------------------------------------------------------
(* The algorithm: calculate() *)

SetMax(S) == CHOOSE x \in S : \A y \in S : y <= x
SetMin(S) == CHOOSE x \in S : \A y \in S : x <= y

\* _lower_median() of the values f(i) for i in the index set I: the one at
\* place (n - 1) \div 2 of the sorted list.
LowerMedian(f, I) ==
    LET middle == (Cardinality(I) - 1) \div 2
    IN CHOOSE v \in {f[i] : i \in I} :
          /\ Cardinality({i \in I : f[i] < v}) <= middle
          /\ Cardinality({i \in I : f[i] <= v}) > middle

\* Purchases are ordered by time, then by record id.
Before(p, q) == p.at < q.at \/ (p.at = q.at /\ p.record < q.record)
LastOf(P) == CHOOSE p \in P : \A q \in P \ {p} : Before(q, p)
Previous(P, p) == LastOf({q \in P : Before(q, p)})

Later(P) == {p \in P : \E q \in P : Before(q, p)}
Interval(P) == [p \in Later(P) |-> p.at - Previous(P, p).at]
Positive(P) == {p \in Later(P) : Interval(P)[p] > 0}

\* Mutant: the projected date is not rolled on to the first day of the run.
NotRolled(at, interval, start) == at

\* The loop that moves the projected date on to the first day of the run.
Rolling(interval, start) ==
    LET roll[x \in 0..(start + interval)] == IF x < start THEN roll[x + interval] ELSE x
    IN roll

Rolled(at, interval, start) == IF at > start THEN at ELSE Rolling(interval, start)[at]

\* The suggestions of a snapshot: kind, predicted day, and the anchor of
\* episode_key(): the last actual purchase, the due time, the use cycle.
CommitmentDue(s) ==
    {[kind |-> "commitment_due", at |-> s.due, anchor |-> s.due]}

RepeatPurchase(s) ==
    LET P == s.purchases
        positive == Positive(P)
        interval == LowerMedian(Interval(P), positive)
    IN IF Cardinality(P) < 3 \/ Cardinality(positive) < 2 THEN {}
       ELSE {[kind |-> "repeat_purchase",
              at |-> Rolled(LastOf(P).at + interval, interval, s.asOf),
              anchor |-> LastOf(P).record]}

Durations == [n \in DOMAIN PastCycles |-> PastCycles[n].ended - PastCycles[n].started]
Lasting == {n \in DOMAIN PastCycles : Durations[n] > 0}

UseCycleEnd(s) ==
    IF s.cycle = None \/ s.cycle.state # "active" THEN {}
    ELSE IF s.cycle.expected # None
         THEN {[kind |-> "use_cycle_end", at |-> s.cycle.expected, anchor |-> CycleId]}
         ELSE IF Cardinality(Lasting) < 2 THEN {}
              ELSE {[kind |-> "use_cycle_end",
                     at |-> s.cycle.started + LowerMedian(Durations, Lasting),
                     anchor |-> CycleId]}

WithinHorizon(s, i) == i.at <= s.asOf + Horizon

Calculate(s) ==
    {i \in CommitmentDue(s) \cup RepeatPurchase(s) \cup UseCycleEnd(s) : WithinHorizon(s, i)}

\* Mutant: feedback is kept by source_key, which names the predicted day.
EpisodeBySource(i) == <<i.kind, i.anchor, i.at>>

EpisodeKey(i) == <<i.kind, i.anchor>>

-----------------------------------------------------------------------------
TypeOK ==
    /\ day \in FirstDay..LastDay
    /\ purchase \in [Records -> Purchase \cup {None}]
    /\ due \in Times
    /\ cycle \in Cycle \cup {None}
    /\ runs \in Seq(Run)
    /\ Len(runs) <= MaxRuns
    /\ \A e \in DOMAIN feedback : feedback[e] \in Feedback
    /\ DOMAIN session = Sessions
    /\ \A t \in Sessions : session[t] # None =>
          session[t].step \in {"started", "snapshot", "feedback"}

Init ==
    /\ day = FirstDay
    /\ purchase = [c \in Records |->
          IF c \in DOMAIN Bought THEN [at |-> Bought[c], state |-> "confirmed"] ELSE None]
    /\ due = FirstDay
    /\ cycle = None
    /\ runs = <<>>
    /\ feedback = [e \in {} |-> None]
    /\ session = [t \in Sessions |-> None]

-----------------------------------------------------------------------------
(* Facts *)

NextDay == day < LastDay /\ day' = day + 1
           /\ UNCHANGED <<purchase, due, cycle, runs, feedback, session>>

\* A purchase is confirmed, possibly for an earlier day.
Buy(c, at) ==
    /\ purchase[c] = None
    /\ at <= day
    /\ purchase' = [purchase EXCEPT ![c] = [at |-> at, state |-> "confirmed"]]
    /\ UNCHANGED <<day, due, cycle, runs, feedback, session>>

Void(c) ==
    /\ purchase[c] # None /\ purchase[c].state = "confirmed"
    /\ purchase' = [purchase EXCEPT ![c].state = "voided"]
    /\ UNCHANGED <<day, due, cycle, runs, feedback, session>>

\* The worker advances the commitment, or the owner moves it.
MoveDue(to) == due' = to /\ UNCHANGED <<day, purchase, cycle, runs, feedback, session>>

StartCycle(expected) ==
    /\ cycle = None
    /\ cycle' = [state |-> "active", started |-> day, expected |-> expected, ended |-> None]
    /\ UNCHANGED <<day, purchase, due, runs, feedback, session>>

ExpectEnd(expected) ==
    /\ cycle # None /\ cycle.state = "active"
    /\ expected >= cycle.started
    /\ cycle' = [cycle EXCEPT !.expected = expected]
    /\ UNCHANGED <<day, purchase, due, runs, feedback, session>>

CompleteCycle ==
    /\ cycle # None /\ cycle.state = "active"
    /\ cycle' = [cycle EXCEPT !.state = "completed", !.ended = day]
    /\ UNCHANGED <<day, purchase, due, runs, feedback, session>>

-----------------------------------------------------------------------------
(* generate_forecast() *)

\* Only what happened before the midnight that begins the day.
BeforeCutoff(at, asOf) == at < asOf

\* generate_daily_forecasts() looks for a run of the day.
NoRunOf(asOf) == \A n \in DOMAIN runs : runs[n].snapshot.asOf # asOf

IsDaily(t) == session[t] # None /\ session[t].step # "feedback" /\ session[t].daily

\* The first query reads the commitment.  The worker runs for today, the owner
\* for a day of choice.  There is one worker.
Generate(t, daily, asOf) ==
    /\ session[t] = None
    /\ Len(runs) < MaxRuns
    /\ daily => asOf = day /\ NoRunOf(asOf) /\ ~\E u \in Sessions : IsDaily(u)
    /\ session' = [session EXCEPT ![t] =
          [step |-> "started", daily |-> daily, asOf |-> asOf, due |-> due]]
    /\ UNCHANGED <<facts, runs, feedback>>

\* A cycle that ended on the day or later is active in the snapshot.
CycleAt(asOf) ==
    IF cycle = None \/ ~BeforeCutoff(cycle.started, asOf) THEN None
    ELSE IF cycle.ended # None /\ ~BeforeCutoff(cycle.ended, asOf)
         THEN [cycle EXCEPT !.state = "active", !.ended = None]
         ELSE cycle

PurchasesBefore(asOf) ==
    {[record |-> c, at |-> purchase[c].at] :
        c \in {c \in Records : /\ purchase[c] # None
                               /\ purchase[c].state = "confirmed"
                               /\ BeforeCutoff(purchase[c].at, asOf)}}

\* The queries of purchases and use cycles; no property relates the two.
ReadFacts(t) ==
    /\ session[t] # None /\ session[t].step = "started"
    /\ session' = [session EXCEPT ![t] =
          [step |-> "snapshot", daily |-> @.daily,
           snapshot |-> [asOf |-> @.asOf, due |-> @.due,
                         purchases |-> PurchasesBefore(@.asOf), cycle |-> CycleAt(@.asOf)]]]
    /\ UNCHANGED <<facts, runs, feedback>>

\* The input hash is looked up, and unique.
IsNew(s) == \A n \in DOMAIN runs : runs[n].snapshot # s

StoreRun(t) ==
    /\ session[t] # None /\ session[t].step = "snapshot"
    /\ IF IsNew(session[t].snapshot)
       THEN /\ Len(runs) < MaxRuns
            /\ runs' = Append(runs, [snapshot |-> session[t].snapshot,
                                     items |-> Calculate(session[t].snapshot),
                                     daily |-> session[t].daily])
       ELSE UNCHANGED runs
    /\ session' = [session EXCEPT ![t] = None]
    /\ UNCHANGED <<facts, feedback>>

-----------------------------------------------------------------------------
(* save_feedback() *)

Saving == {t \in Sessions : session[t] # None /\ session[t].step = "feedback"}
Decided(e) == e \in DOMAIN feedback
RevisionOf(e) == IF Decided(e) THEN feedback[e].revision ELSE 0

\* A request with feedback_revision, or the older dismissal without one.
SeenCurrent(e, expected) ==
    IF expected = None THEN ~Decided(e) ELSE expected = RevisionOf(e)

\* The suggestion of the run is locked, and its feedback row if there is one:
\* a request that found none (expected = 0) has no row to lock.
OpenFeedback(t, n, i, expected, state, until) ==
    LET e == EpisodeKey(i) IN
    /\ session[t] = None
    /\ \A u \in Saving : session[u].of # <<n, i>>
    /\ Decided(e) => \A u \in Saving : session[u].episode # e \/ session[u].expected = 0
    /\ SeenCurrent(e, expected)
    /\ expected = None => state = "dismissed"
    /\ (state = "snoozed") = (until # None)
    /\ until # None => until > day
    /\ RevisionOf(e) < MaxRevision
    /\ session' = [session EXCEPT ![t] =
          [step |-> "feedback", of |-> <<n, i>>, episode |-> e,
           expected |-> IF expected = None THEN 0 ELSE expected,
           state |-> state, until |-> until]]
    /\ UNCHANGED <<facts, runs, feedback>>

\* Mutant: a row that another request has inserted is taken for the own one.
InsertedTwice(t) == TRUE

\* The unique constraint on the episode refuses the second of two first
\* decisions.
Insertable(t) == session[t].expected = 0 => ~Decided(session[t].episode)

NextRevision(e) == RevisionOf(e) + 1

Save(t) ==
    /\ t \in Saving
    /\ Insertable(t)
    /\ LET s == session[t]
           new == [state |-> s.state, until |-> s.until, revision |-> NextRevision(s.episode)]
       IN feedback' = [e \in DOMAIN feedback \cup {s.episode} |->
                          IF e = s.episode THEN new ELSE feedback[e]]
    /\ session' = [session EXCEPT ![t] = None]
    /\ UNCHANGED <<facts, runs>>

\* A refusal, a lost connection or a killed process.
Rollback(t) ==
    /\ session[t] # None
    /\ session' = [session EXCEPT ![t] = None]
    /\ UNCHANGED <<facts, runs, feedback>>

-----------------------------------------------------------------------------
Suggested(n) == runs[n].items

Next ==
    \/ NextDay \/ CompleteCycle
    \/ \E c \in Records : Void(c) \/ \E at \in Days : Buy(c, at)
    \/ \E d \in Dues : MoveDue(d) \/ StartCycle(d) \/ ExpectEnd(d)
    \/ StartCycle(None)
    \/ \E t \in Sessions :
          \/ ReadFacts(t) \/ StoreRun(t) \/ Save(t) \/ Rollback(t)
          \/ \E daily \in BOOLEAN, asOf \in FirstDay..LastDay : Generate(t, daily, asOf)
          \/ \E n \in DOMAIN runs, expected \in {None} \cup 0..MaxRevision,
                state \in Decisions, until \in Dues \cup {None} :
                \E i \in Suggested(n) : OpenFeedback(t, n, i, expected, state, until)

Spec == Init /\ [][Next]_vars

-----------------------------------------------------------------------------
(* Properties *)

\* effective_feedback(): how a suggestion is shown.
Shown(i) ==
    LET e == EpisodeKey(i) IN
    IF Decided(e) /\ ~(feedback[e].state = "snoozed" /\ feedback[e].until <= day)
    THEN feedback[e].state ELSE "active"

\* A repeat purchase is expected on the first day from the start of the run on
\* that lies a whole number of typical intervals after the last purchase.
RepeatIsNextInterval ==
    \A n \in DOMAIN runs : LET s == runs[n].snapshot IN
        \A i \in Suggested(n) : i.kind = "repeat_purchase" =>
            LET gap == LowerMedian(Interval(s.purchases), Positive(s.purchases))
                last == LastOf(s.purchases).at
            IN i.at = SetMin({x \in Times : /\ x > last /\ x >= s.asOf
                                            /\ (x - last) % gap = 0})

\* A suggestion that the owner has dealt with does not come back in another
\* run, with another date, as long as no purchase is later, no due time and no
\* use cycle is new.
DecisionOutlivesRun ==
    \A n, m \in DOMAIN runs : \A i \in Suggested(n), j \in Suggested(m) :
        (/\ i.kind = j.kind
         /\ i.kind = "repeat_purchase" =>
               LastOf(runs[n].snapshot.purchases) = LastOf(runs[m].snapshot.purchases)
         /\ i.kind = "commitment_due" => runs[n].snapshot.due = runs[m].snapshot.due)
            => Shown(i) = Shown(j)

\* A decision about a suggestion replaces only the one that its owner has seen,
\* also if the same suggestion is decided in two runs at once.
DecisionReplacesSeen ==
    [][\A e \in DOMAIN feedback' :
          (~Decided(e) \/ feedback'[e] # feedback[e]) =>
              \E t \in Saving : /\ session'[t] = None
                                /\ session[t].episode = e
                                /\ session[t].expected = RevisionOf(e)]_vars

-----------------------------------------------------------------------------
(* The inductive invariant *)

\* What a run has read: of each purchase one row.
IsSnapshot(s) ==
    /\ s \in Snapshot
    /\ IsFiniteSet(s.purchases)
    /\ \A p, q \in s.purchases : p.record = q.record => p = q

\* The suggestions of a run are those of its snapshot.
RunsAreCalculated ==
    \A n \in DOMAIN runs :
        /\ IsSnapshot(runs[n].snapshot)
        /\ runs[n].items = Calculate(runs[n].snapshot)

GenerationFits(s) ==
    /\ s.step = "started" => s.asOf \in Days /\ s.due \in Times /\ s.daily \in BOOLEAN
    /\ s.step = "snapshot" => IsSnapshot(s.snapshot) /\ s.daily \in BOOLEAN

\* The decision that a request has seen stays, by its row lock; one that has
\* seen none holds nothing.
DecisionFits(s) ==
    /\ s.state \in Decisions /\ s.until \in Times \cup {None}
    /\ s.expected \in 0..(MaxRevision - 1)
    /\ s.expected # 0 => s.expected = RevisionOf(s.episode)

SessionsFit ==
    /\ \A t \in Sessions : session[t] # None => GenerationFits(session[t])
    /\ \A t \in Saving : DecisionFits(session[t])

\* Of two requests about an episode one at most holds its row.
RowsAreLocked ==
    \A t, u \in Saving : t # u /\ session[t].episode = session[u].episode =>
        session[t].expected = 0 \/ session[u].expected = 0

IInv == TypeOK /\ RunsAreCalculated /\ SessionsFit /\ RowsAreLocked
=============================================================================
