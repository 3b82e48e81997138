--------------------------- MODULE PlanningProofs ---------------------------
(* What holds of Planning for every value of its constants. *)
EXTENDS Planning, TLAPS

-----------------------------------------------------------------------------
(* The initial states *)

\* Nobody has begun, and no draft is there.
LEMMA InitIInv == Init => IInv
<1> SUFFICES ASSUME Init PROVE IInv
  OBVIOUS
<1>1. TypeOK
  BY ConstantsAssumption DEF Init, TypeOK, NewCommitment, NewIntent, Commitment, Intent, Due,
     Revision
<1>2. /\ \A kind : Running(kind) = {}
      /\ \A t \in Sessions : Holds(t) = {} /\ ~Is(t, "edit") /\ ~Is(t, "draft")
  BY DEF Init, Running, Is, Holds
<1>3. RowsAreHeldOnce /\ HoldersAreCurrent /\ OccurrencesAreOpen /\ KeysAreHeldOnce
  BY <1>2 DEF RowsAreHeldOnce, HoldersAreCurrent, OccurrencesAreOpen, KeysAreHeldOnce
<1>4. KeysNameDrafts /\ IntentsAreHeldOnce /\ RowsStay /\ DraftsAreMadeOnce
  BY <1>2 DEF Init, KeysNameDrafts, IntentsAreHeldOnce, RowsStay, DraftsAreMadeOnce, Exists
<1>. QED
  BY <1>1, <1>3, <1>4 DEF IInv

-----------------------------------------------------------------------------
(* What the type invariant gives *)

\* What a transaction of each kind has read.
LEMMA SessionFacts ==
  ASSUME TypeOK, NEW t \in Sessions
  PROVE  /\ Is(t, "edit") => /\ session[t].row \in Commitments
                             /\ session[t].revision \in Revision
                             /\ session[t].state \in {"active", "paused", "ended"}
                             /\ session[t].due \in Due
         /\ Is(t, "draft") => /\ session[t].row \in Commitments
                              /\ session[t].revision \in Revision
                              /\ session[t].due \in Due
                              /\ session[t].key \in Keys \cup {None}
                              /\ session[t].seen \in Reminder \cup {None}
         /\ Is(t, "worker") => session[t].rows \subseteq Commitments
         /\ Is(t, "complete") => session[t].row \in Intents /\ session[t].record \in Records
         /\ Is(t, "start") => session[t].row \in Cycles /\ session[t].record \in Records
         /\ Is(t, "cycle") => /\ session[t].row \in Cycles
                              /\ session[t].read \in Cycle
                              /\ session[t].to \in {"active", "completed", "cancelled"}
         /\ Is(t, "budget") => /\ session[t].row \in Budgets
                               /\ session[t].read \in Budget
                               /\ session[t].to \in Budget
<1>. CASE session[t] = None
  BY DEF Is
<1>. CASE session[t] \in Session
  BY DEF Session, Is
<1>. QED
  BY DEF TypeOK

\* Locks on commitments, with the sessions that hold them.
LEMMA HoldsFacts ==
  ASSUME TypeOK
  PROVE  /\ \A t \in Sessions : Holds(t) \subseteq Commitments
         /\ \A m : CommitmentFree(m) <=> \A t \in Sessions : m \notin Holds(t)
  BY SessionFacts DEF Holds, CommitmentFree, Running, Is

-----------------------------------------------------------------------------
(* Transactions begin and end *)

\* A transaction that begins has locked and read what its kind needs.
LEMMA BeginIInv ==
  ASSUME IInv, NEW t \in Sessions, NEW s \in Session, Begin(t, s),
         UNCHANGED <<now, plans, record, owned>>,
         s.kind \in {"edit", "draft"} => /\ CommitmentFree(s.row)
                                        /\ commitment[s.row].revision < MaxRevision
                                        /\ s.revision = commitment[s.row].revision,
         s.kind = "worker" => \A m \in s.rows : /\ CommitmentFree(m)
                                                /\ commitment[m].revision < MaxRevision,
         s.kind = "draft" => /\ KeyFree(s.key) /\ ~IsAnswered(s.key)
                             /\ s.seen = reminder[KeyOf(s.row, s.due)],
         s.kind = "complete" => IntentFree(s.row) /\ intent[s.row].revision < MaxRevision,
         s.kind = "cycle" => cycle[s.row] # None /\ s.read.revision < MaxRevision,
         s.kind = "budget" => budget[s.row] # None
  PROVE  IInv'
<1>1. /\ session[t] = None /\ s # None
      /\ session' = [session EXCEPT ![t] = s]
      /\ session \in [Sessions -> Session \cup {None}]
      /\ UNCHANGED <<now, commitment, reminder, answered, record, intent, cycle, budget>>
  BY NoneAssumption DEF Begin, IInv, TypeOK, plans, owned
<1>2. /\ session'[t] = s
      /\ \A u \in Sessions \ {t} : session'[u] = session[u]
  BY <1>1
<1>3. /\ \A kind : Is(t, kind)' <=> s.kind = kind
      /\ \A kind : ~Is(t, kind)
      /\ \A kind : \A u \in Sessions \ {t} : Is(u, kind)' <=> Is(u, kind)
  BY <1>1, <1>2 DEF Is
<1>4. /\ \A kind : Running(kind)' = IF s.kind = kind THEN Running(kind) \cup {t} ELSE Running(kind)
      /\ \A kind : t \notin Running(kind)
      /\ \A kind : \A u \in Running(kind) : u \in Sessions /\ session'[u] = session[u]
  BY <1>2, <1>3 DEF Running
<1>5. /\ \A u \in Sessions \ {t} : Holds(u)' = Holds(u)
      /\ Holds(t)' = IF s.kind \in {"edit", "draft"} THEN {s.row}
                     ELSE IF s.kind = "worker" THEN s.rows ELSE {}
  BY <1>2, <1>3 DEF Holds
<1>6. TypeOK'
  BY <1>1 DEF IInv, TypeOK
<1>7. RowsAreHeldOnce'
  <2>1. \A m \in Holds(t)' : CommitmentFree(m)
    BY <1>5
  <2>2. \A u \in Sessions \ {t} : Holds(t)' \cap Holds(u)' = {}
    BY <1>5, <2>1, HoldsFacts DEF IInv
  <2>. QED
    BY <1>5, <2>2 DEF IInv, RowsAreHeldOnce
<1>8. HoldersAreCurrent'
  BY <1>1, <1>2, <1>3, <1>5 DEF IInv, HoldersAreCurrent
<1>9. OccurrencesAreOpen'
  BY <1>1, <1>2, <1>4 DEF IInv, OccurrencesAreOpen, Drafted, KeyOf
<1>10. KeysAreHeldOnce'
  BY <1>1, <1>2, <1>4 DEF IInv, KeysAreHeldOnce, KeyFree, IsAnswered
<1>11. IntentsAreHeldOnce'
  BY <1>1, <1>2, <1>4 DEF IInv, IntentsAreHeldOnce, IntentFree
<1>12. RowsStay'
  BY <1>1, <1>2, <1>4 DEF IInv, RowsStay
<1>13. KeysNameDrafts' /\ DraftsAreMadeOnce'
  BY <1>1 DEF IInv, KeysNameDrafts, DraftsAreMadeOnce, Exists
<1>. QED
  BY <1>6, <1>7, <1>8, <1>9, <1>10, <1>11, <1>12, <1>13 DEF IInv

\* Transactions that end leave the others as they are.
LEMMA EndFacts ==
  ASSUME TypeOK, NEW t \in Sessions, session[t] # None, End(t)
  PROVE  /\ session' \in [Sessions -> Session \cup {None}]
         /\ \A kind : ~Is(t, kind)'
         /\ \A kind : \A u \in Sessions \ {t} : Is(u, kind)' <=> Is(u, kind)
         /\ \A u \in Sessions \ {t} : session'[u] = session[u]
         /\ \A kind : Running(kind)' = Running(kind) \ {t}
         /\ Holds(t)' = {}
         /\ \A u \in Sessions \ {t} : Holds(u)' = Holds(u)
<1>1. /\ session' = [session EXCEPT ![t] = None]
      /\ session \in [Sessions -> Session \cup {None}]
  BY DEF End, TypeOK
<1>2. /\ session'[t] = None
      /\ \A u \in Sessions \ {t} : session'[u] = session[u]
  BY <1>1
<1>3. /\ \A kind : ~Is(t, kind)'
      /\ \A kind : \A u \in Sessions \ {t} : Is(u, kind)' <=> Is(u, kind)
  BY <1>2 DEF Is
<1>. QED
  BY <1>1, <1>2, <1>3 DEF Running, Holds

\* Plans of commitments, when no row of theirs is written.  Of a record only
\* its state may change, and one without occurrence and key may come.
LEMMA PlansStay ==
  ASSUME IInv, UNCHANGED plans,
         \A c \in Records : \/ record'[c] = record[c]
                            \/ ~Exists(c)' 
                            \/ record'[c].occurrence = None /\ record'[c].key = None
                            \/ /\ Exists(c)
                               /\ record'[c].occurrence = record[c].occurrence
                               /\ record'[c].key = record[c].key,
         \A t \in Sessions : session'[t] \in {session[t], None}
  PROVE  /\ RowsAreHeldOnce' /\ HoldersAreCurrent' /\ OccurrencesAreOpen'
         /\ KeysAreHeldOnce' /\ KeysNameDrafts' /\ DraftsAreMadeOnce'
<1>1. UNCHANGED <<commitment, reminder, answered>>
  BY DEF plans
<1>2. /\ \A kind : \A t \in Sessions : Is(t, kind)' => Is(t, kind) /\ session'[t] = session[t]
      /\ \A kind : \A t \in Running(kind)' : t \in Running(kind) /\ session'[t] = session[t]
  BY DEF Is, Running
<1>3. \A t \in Sessions : Holds(t)' \subseteq Holds(t)
  BY <1>2 DEF Holds, Is
<1>4. RowsAreHeldOnce'
  BY <1>3 DEF IInv, RowsAreHeldOnce
<1>5. HoldersAreCurrent'
  BY <1>1, <1>2, <1>3 DEF IInv, HoldersAreCurrent
<1>6. OccurrencesAreOpen' /\ KeysAreHeldOnce'
  BY <1>1, <1>2 DEF IInv, OccurrencesAreOpen, KeysAreHeldOnce, Drafted, KeyOf
<1>7. KeysNameDrafts' /\ DraftsAreMadeOnce'
  BY <1>1 DEF IInv, KeysNameDrafts, DraftsAreMadeOnce, Exists
<1>. QED
  BY <1>4, <1>5, <1>6, <1>7

\* The same for intents, use cycles and budgets.
LEMMA OwnedStay ==
  ASSUME IInv, UNCHANGED owned,
         \A t \in Sessions : session'[t] \in {session[t], None}
  PROVE  IntentsAreHeldOnce' /\ RowsStay'
<1>1. \A kind : \A t \in Running(kind)' : t \in Running(kind) /\ session'[t] = session[t]
  BY DEF Is, Running
<1>. QED
  BY <1>1 DEF owned, IInv, IntentsAreHeldOnce, RowsStay

-----------------------------------------------------------------------------
(* What leaves the commitments alone *)

\* A rollback, the clock, and the records of a plan.
LEMMA OutsideIInv ==
  ASSUME IInv,
         \/ Tick \/ \E t \in Sessions : Rollback(t)
         \/ \E c \in Records : CreateRecord(c) \/ ConfirmRecord(c) \/ VoidRecord(c) \/ DeleteDraft(c)
  PROVE  IInv'
<1>1. CASE Tick
  <2>1. UNCHANGED <<plans, owned, record, session>> /\ now' \in 0..Last
    BY <1>1, ConstantsAssumption DEF Tick, IInv, TypeOK
  <2>2. TypeOK'
    BY <2>1 DEF IInv, TypeOK, plans, owned
  <2>. QED
    BY <2>1, <2>2, PlansStay, OwnedStay DEF IInv
<1>2. ASSUME NEW t \in Sessions, Rollback(t) PROVE IInv'
  <2>1. UNCHANGED <<plans, owned, record, now>> /\ session[t] # None /\ End(t)
    BY <1>2 DEF Rollback
  <2>2. TypeOK'
    BY <2>1, EndFacts DEF IInv, TypeOK, plans, owned
  <2>3. \A u \in Sessions : session'[u] \in {session[u], None}
    BY <2>1 DEF End, IInv, TypeOK
  <2>. QED
    BY <2>1, <2>2, <2>3, PlansStay, OwnedStay DEF IInv
<1>3. ASSUME NEW c \in Records,
             CreateRecord(c) \/ ConfirmRecord(c) \/ VoidRecord(c) \/ DeleteDraft(c)
      PROVE  IInv'
  <2>1. UNCHANGED <<plans, owned, session, now>>
    BY <1>3 DEF CreateRecord, ConfirmRecord, VoidRecord, DeleteDraft
  <2> DEFINE Fits == \A d \in Records :
                \/ record'[d] = record[d]
                \/ record'[d].occurrence = None /\ record'[d].key = None
                \/ /\ Exists(d)
                   /\ record'[d].occurrence = record[d].occurrence
                   /\ record'[d].key = record[d].key
  <2>2. record' \in [Records -> Record \cup {None}] /\ Fits
    <3>1. CASE CreateRecord(c)
      BY <3>1 DEF CreateRecord, Draft, IInv, TypeOK, Record
    <3>2. ASSUME NEW x \in {"confirmed", "voided", "deleted"}, Exists(c),
                 record' = [record EXCEPT ![c].state = x]
          PROVE  record' \in [Records -> Record \cup {None}] /\ Fits
      BY <3>2 DEF Exists, IInv, TypeOK, Record
    <3>. QED
      BY <1>3, <3>1, <3>2 DEF ConfirmRecord, VoidRecord, DeleteDraft
  <2>3. TypeOK'
    BY <2>1, <2>2 DEF IInv, TypeOK, plans, owned
  <2>. QED
    BY <2>1, <2>2, <2>3, PlansStay, OwnedStay DEF IInv
<1>. QED
  BY <1>1, <1>2, <1>3

\* Intents, use cycles and budgets, with the transactions that write them.
LEMMA OwnedIInv ==
  ASSUME IInv,
         \/ \E t \in Sessions : \/ CommitComplete(t) \/ CommitCycle(t)
                               \/ WriteCycle(t) \/ WriteBudget(t)
         \/ \E i \in Intents, state \in {"planned", "cancelled"} : PatchIntent(i, state)
         \/ \E b \in Budgets, month \in Months : CreateBudget(b, month)
  PROVE  IInv'
<1>1. ASSUME NEW i \in Intents, NEW state \in {"planned", "cancelled"}, PatchIntent(i, state)
      PROVE  IInv'
  <2>1. UNCHANGED <<now, plans, record, cycle, budget, session>>
    BY <1>1 DEF PatchIntent
  <2> DEFINE new == [intent[i] EXCEPT !.state = state, !.revision = @ + 1]
  <2>2. new \in Intent
    <3>1. intent[i] \in Intent /\ intent[i].revision < MaxRevision
      BY <1>1 DEF PatchIntent, IInv, TypeOK
    <3>2. intent[i].revision + 1 \in Revision
      BY <3>1, ConstantsAssumption DEF Intent, Revision
    <3>. QED
      BY <3>1, <3>2 DEF Intent
  <2>3. intent' \in [Intents -> Intent] /\ \A j \in Intents \ {i} : intent'[j] = intent[j]
    <3>1. intent' = [intent EXCEPT ![i] = new]
      BY <1>1 DEF PatchIntent, IInv, TypeOK
    <3> HIDE DEF new
    <3>. QED
      BY <2>2, <3>1 DEF IInv, TypeOK
  <2>4. TypeOK'
    BY <2>1, <2>3 DEF IInv, TypeOK, plans
  <2>5. \A kind : Running(kind)' = Running(kind)
    BY <2>1 DEF Running, Is
  <2>6. \A t \in Running("complete") : session[t].row \in Intents \ {i}
    BY <1>1, SessionFacts DEF PatchIntent, IntentFree, Running, IInv
  <2>7. IntentsAreHeldOnce' /\ RowsStay'
    BY <2>1, <2>3, <2>5, <2>6 DEF IInv, IntentsAreHeldOnce, RowsStay
  <2>. QED
    BY <2>1, <2>4, <2>7, PlansStay DEF IInv
<1>2. ASSUME NEW b \in Budgets, NEW month \in Months, CreateBudget(b, month)
      PROVE  IInv'
  <2>1. UNCHANGED <<now, plans, record, intent, cycle, session>>
    BY <1>2 DEF CreateBudget
  <2>2. [month |-> month, active |-> TRUE, revision |-> 1] \in Budget
    BY ConstantsAssumption DEF Budget, Revision
  <2>3. /\ budget' \in [Budgets -> Budget \cup {None}]
        /\ \A d \in Budgets : budget[d] # None => budget'[d] # None
    BY <1>2, <2>2, NoneAssumption DEF CreateBudget, IInv, TypeOK
  <2>4. TypeOK'
    BY <2>1, <2>3 DEF IInv, TypeOK, plans
  <2>5. \A kind : Running(kind)' = Running(kind)
    BY <2>1 DEF Running, Is
  <2>6. \A t \in Running("budget") : session[t].row \in Budgets
    BY SessionFacts DEF Running, IInv
  <2>7. IntentsAreHeldOnce' /\ RowsStay'
    BY <2>1, <2>3, <2>5, <2>6 DEF IInv, IntentsAreHeldOnce, RowsStay
  <2>. QED
    BY <2>1, <2>4, <2>7, PlansStay DEF IInv
<1>3. ASSUME NEW t \in Sessions,
             CommitComplete(t) \/ CommitCycle(t) \/ WriteCycle(t) \/ WriteBudget(t)
      PROVE  IInv'
  <2>1. session[t] # None /\ End(t) /\ UNCHANGED <<now, plans, record>>
    BY <1>3 DEF CommitComplete, CommitCycle, WriteCycle, WriteBudget, Is
  <2>2. /\ session' \in [Sessions -> Session \cup {None}]
        /\ \A kind : Running(kind)' = Running(kind) \ {t}
        /\ \A kind : \A u \in Running(kind)' : session'[u] = session[u]
    BY <2>1, EndFacts DEF IInv, Running
  <2>3. \A u \in Sessions : session'[u] \in {session[u], None}
    BY <2>1 DEF End, IInv, TypeOK
  <2>4. CASE CommitComplete(t)
    <3> DEFINE i == session[t].row
    <3>1. i \in Intents /\ session[t].record \in Records /\ intent[i].revision < MaxRevision
      BY <2>4, SessionFacts DEF CommitComplete, Running, Is, IInv, IntentsAreHeldOnce
    <3> DEFINE new == [intent[i] EXCEPT !.state = "completed", !.record = session[t].record,
                                     !.revision = @ + 1]
    <3>2. new \in Intent
      <4>1. intent[i] \in Intent
        BY <3>1 DEF IInv, TypeOK
      <4>2. intent[i].revision + 1 \in Revision
        BY <3>1, <4>1, ConstantsAssumption DEF Intent, Revision
      <4>. QED
        BY <3>1, <4>1, <4>2 DEF Intent
    <3>3. /\ intent' \in [Intents -> Intent] /\ UNCHANGED <<cycle, budget>>
          /\ \A j \in Intents \ {i} : intent'[j] = intent[j]
      <4>1. intent' = [intent EXCEPT ![i] = new] /\ UNCHANGED <<cycle, budget>>
        BY <2>4, <3>1 DEF CommitComplete, IInv, TypeOK
      <4> HIDE DEF new
      <4>. QED
        BY <3>1, <3>2, <4>1 DEF IInv, TypeOK
    <3>4. \A u \in Running("complete") \ {t} : session[u].row \in Intents \ {i}
      BY <2>4, SessionFacts DEF CommitComplete, Running, IInv, IntentsAreHeldOnce
    <3>5. IntentsAreHeldOnce' /\ RowsStay'
      BY <2>2, <3>3, <3>4 DEF IInv, IntentsAreHeldOnce, RowsStay
    <3>6. TypeOK'
      BY <2>1, <2>2, <3>3 DEF IInv, TypeOK, plans
    <3>. QED
      BY <2>1, <2>3, <3>5, <3>6, PlansStay DEF IInv
  <2>5. CASE CommitCycle(t) \/ WriteCycle(t)
    <3> DEFINE y == session[t].row
    <3>1. \E new \in Cycle : cycle' = [cycle EXCEPT ![y] = new]
      <4>1. CASE CommitCycle(t)
        <5>1. session[t].record \in Records /\ 1 \in Revision
          BY <4>1, SessionFacts, ConstantsAssumption DEF CommitCycle, IInv, Revision
        <5>2. [state |-> "active", source |-> session[t].record, ended |-> FALSE,
               revision |-> 1] \in Cycle
          BY <5>1 DEF Cycle
        <5>. QED
          BY <4>1, <5>2 DEF CommitCycle
      <4>2. CASE WriteCycle(t)
        <5>1. /\ y \in Cycles /\ cycle[y] \in Cycle /\ session[t].read.revision + 1 \in Revision
              /\ session[t].to \in {"active", "completed", "cancelled"}
          BY <4>2, SessionFacts, ConstantsAssumption DEF WriteCycle, Running, Is, IInv, TypeOK,
             RowsStay, Cycle, Revision
        <5>2. CycleWritten(cycle[y], session[t].read, session[t].to) \in Cycle
          BY <5>1 DEF CycleWritten, Cycle
        <5>3. cycle' = [cycle EXCEPT ![y] = CycleWritten(cycle[y], session[t].read, session[t].to)]
          BY <4>2, <5>1 DEF WriteCycle, IInv, TypeOK
        <5>. QED
          BY <5>2, <5>3
      <4>. QED
        BY <2>5, <4>1, <4>2
    <3>2. y \in Cycles /\ UNCHANGED <<intent, budget>>
      BY <2>5, SessionFacts DEF CommitCycle, WriteCycle, IInv
    <3>3. /\ cycle' \in [Cycles -> Cycle \cup {None}]
          /\ \A z \in Cycles : cycle[z] # None => cycle'[z] # None
      BY <3>1, <3>2, NoneAssumption DEF IInv, TypeOK
    <3>4. \A u \in Running("cycle") : session[u].row \in Cycles
      BY SessionFacts DEF Running, IInv
    <3>5. IntentsAreHeldOnce' /\ RowsStay'
      BY <2>2, <3>2, <3>3, <3>4 DEF IInv, IntentsAreHeldOnce, RowsStay
    <3>6. TypeOK'
      BY <2>1, <2>2, <3>2, <3>3 DEF IInv, TypeOK, plans
    <3>. QED
      BY <2>1, <2>3, <3>5, <3>6, PlansStay DEF IInv
  <2>6. CASE WriteBudget(t)
    <3> DEFINE b == session[t].row
               new == BudgetWritten(budget[b], session[t].read, session[t].to)
    <3>1. b \in Budgets /\ budget[b] \in Budget /\ session[t].read \in Budget /\ session[t].to \in Budget
      BY <2>6, SessionFacts DEF WriteBudget, Running, Is, IInv, TypeOK, RowsStay
    <3>2. new \in Budget
      BY <3>1 DEF BudgetWritten, Budget
    <3>3. /\ budget' \in [Budgets -> Budget \cup {None}] /\ UNCHANGED <<intent, cycle>>
          /\ \A d \in Budgets : budget[d] # None => budget'[d] # None
      <4>1. budget' = [budget EXCEPT ![b] = new] /\ UNCHANGED <<intent, cycle>>
        BY <2>6 DEF WriteBudget
      <4> HIDE DEF new
      <4>. QED
        BY <3>1, <3>2, <4>1, NoneAssumption DEF IInv, TypeOK
    <3>4. \A u \in Running("budget") : session[u].row \in Budgets
      BY SessionFacts DEF Running, IInv
    <3>5. IntentsAreHeldOnce' /\ RowsStay'
      BY <2>2, <3>3, <3>4 DEF IInv, IntentsAreHeldOnce, RowsStay
    <3>6. TypeOK'
      BY <2>1, <2>2, <3>3 DEF IInv, TypeOK, plans
    <3>. QED
      BY <2>1, <2>3, <3>5, <3>6, PlansStay DEF IInv
  <2>. QED
    BY <1>3, <2>4, <2>5, <2>6
<1>. QED
  BY <1>1, <1>2, <1>3

-----------------------------------------------------------------------------
(* Whatever begins *)

\* Each kind of transaction, with what it has locked and read.
LEMMA PlanIInv ==
  ASSUME IInv, NEW t \in Sessions, Plan(t)
  PROVE  IInv'
<1>1. CASE StartWorker(t)
  <2> DEFINE s == [kind |-> "worker",
                   rows |-> {m \in Commitments : /\ commitment[m].state = "active"
                                                 /\ commitment[m].due <= now + Lead
                                                 /\ commitment[m].revision < MaxRevision
                                                 /\ CommitmentFree(m)}]
  <2>1. Begin(t, s) /\ UNCHANGED <<now, plans, record, owned>>
    BY <1>1 DEF StartWorker
  <2>2. /\ s.kind = "worker" /\ s \in Session
        /\ \A m \in s.rows : CommitmentFree(m) /\ commitment[m].revision < MaxRevision
    BY DEF Session
  <2> HIDE DEF s
  <2>. QED
    BY <2>1, <2>2, BeginIInv
<1>2. ASSUME NEW m \in Commitments, NEW due \in Due, NEW state \in {"active", "paused", "ended"},
             EditCommitment(t, m, state, due)
      PROVE  IInv'
  <2> DEFINE s == [kind |-> "edit", row |-> m, revision |-> commitment[m].revision,
                   state |-> state, due |-> due]
  <2>1. Begin(t, s) /\ UNCHANGED <<now, plans, record, owned>>
    BY <1>2 DEF EditCommitment
  <2>2. commitment[m].revision \in Revision
    BY DEF IInv, TypeOK, Commitment
  <2>3. /\ s.kind = "edit" /\ s.row = m /\ s.revision = commitment[m].revision
        /\ s \in Session
    BY <2>2 DEF Session
  <2>4. CommitmentFree(m) /\ commitment[m].revision < MaxRevision
    BY <1>2 DEF EditCommitment
  <2> HIDE DEF s
  <2>. QED
    BY <2>1, <2>3, <2>4, BeginIInv
<1>3. ASSUME NEW m \in Commitments, NEW k \in Keys \cup {None}, NEW due \in Due,
             OpenDraft(t, m, due, k)
      PROVE  IInv'
  <2> DEFINE seen == reminder[KeyOf(m, due)]
             s == [kind |-> "draft", row |-> m, revision |-> commitment[m].revision,
                   due |-> due, key |-> k, seen |-> seen]
  <2>1. Begin(t, s) /\ UNCHANGED <<now, plans, record, owned>>
    BY <1>3 DEF OpenDraft
  <2>2. commitment[m].revision \in Revision /\ seen \in Reminder \cup {None}
    BY DEF IInv, TypeOK, Commitment, KeyOf, Occurrences
  <2>3. /\ s.kind = "draft" /\ s.row = m /\ s.revision = commitment[m].revision
        /\ s.key = k /\ s.seen = reminder[KeyOf(s.row, s.due)]
        /\ s \in Session
    <3> HIDE DEF seen
    <3>1. s \in Session
      BY <2>2 DEF Session
    <3>. QED
      BY <3>1 DEF seen
  <2>4. /\ CommitmentFree(m) /\ commitment[m].revision < MaxRevision
        /\ KeyFree(k) /\ ~IsAnswered(k)
    BY <1>3 DEF OpenDraft
  <2> HIDE DEF s
  <2>. QED
    BY <2>1, <2>3, <2>4, BeginIInv
<1>4. ASSUME NEW i \in Intents, NEW c \in Records, OpenComplete(t, i, c)
      PROVE  IInv'
  <2> DEFINE s == [kind |-> "complete", row |-> i, record |-> c]
  <2>1. Begin(t, s) /\ UNCHANGED <<now, plans, record, owned>>
    BY <1>4 DEF OpenComplete
  <2>2. s.kind = "complete" /\ s.row = i /\ s \in Session
    BY DEF Session
  <2>3. IntentFree(i) /\ intent[i].revision < MaxRevision
    BY <1>4 DEF OpenComplete
  <2> HIDE DEF s
  <2>. QED
    BY <2>1, <2>2, <2>3, BeginIInv
<1>5. ASSUME NEW y \in Cycles, NEW c \in Records, OpenCycle(t, y, c)
      PROVE  IInv'
  <2> DEFINE s == [kind |-> "start", row |-> y, record |-> c]
  <2>1. Begin(t, s) /\ UNCHANGED <<now, plans, record, owned>>
    BY <1>5 DEF OpenCycle
  <2>2. s.kind = "start" /\ s \in Session
    BY DEF Session
  <2> HIDE DEF s
  <2>. QED
    BY <2>1, <2>2, BeginIInv
<1>6. ASSUME NEW y \in Cycles, NEW to \in {"active", "completed", "cancelled"}, ReadCycle(t, y, to)
      PROVE  IInv'
  <2> DEFINE s == [kind |-> "cycle", row |-> y, read |-> cycle[y], to |-> to]
  <2>1. Begin(t, s) /\ UNCHANGED <<now, plans, record, owned>>
    BY <1>6 DEF ReadCycle
  <2>2. cycle[y] # None /\ cycle[y] \in Cycle /\ cycle[y].revision < MaxRevision
    BY <1>6 DEF ReadCycle, IInv, TypeOK
  <2>3. s.kind = "cycle" /\ s.row = y /\ s.read = cycle[y] /\ s \in Session
    BY <2>2 DEF Session
  <2> HIDE DEF s
  <2>. QED
    BY <2>1, <2>2, <2>3, BeginIInv
<1>7. ASSUME NEW b \in Budgets, NEW month \in Months, NEW active \in BOOLEAN,
             ReadBudget(t, b, month, active)
      PROVE  IInv'
  <2> DEFINE to == [month |-> month, active |-> active, revision |-> budget[b].revision + 1]
             s == [kind |-> "budget", row |-> b, read |-> budget[b], to |-> to]
  <2>1. Begin(t, s) /\ UNCHANGED <<now, plans, record, owned>>
    BY <1>7 DEF ReadBudget
  <2>2. budget[b] # None /\ budget[b] \in Budget /\ budget[b].revision < MaxRevision
    BY <1>7 DEF ReadBudget, IInv, TypeOK
  <2>3. budget[b].revision + 1 \in Revision
    BY <2>2, ConstantsAssumption DEF Budget, Revision
  <2>4. to \in Budget
    BY <2>3 DEF Budget
  <2>5. s.kind = "budget" /\ s.row = b /\ s \in Session
    <3> HIDE DEF to
    <3>. QED
      BY <2>2, <2>4 DEF Session
  <2> HIDE DEF s
  <2>. QED
    BY <2>1, <2>2, <2>5, BeginIInv
<1>. QED
  BY <1>1, <1>2, <1>3, <1>4, <1>5, <1>6, <1>7 DEF Plan

-----------------------------------------------------------------------------
(* What writes the commitments, their reminders and drafts *)

\* The rows of a transaction that ends are free again, and those that another
\* one holds are not written.
LEMMA HeldStay ==
  ASSUME IInv, NEW t \in Sessions, session[t] # None, End(t),
         \A m \in Commitments \ Holds(t) : commitment'[m] = commitment[m]
  PROVE  RowsAreHeldOnce' /\ HoldersAreCurrent'
<1>1. /\ \A kind : ~Is(t, kind)'
      /\ \A kind : \A u \in Sessions \ {t} : Is(u, kind)' <=> Is(u, kind)
      /\ \A u \in Sessions \ {t} : session'[u] = session[u]
      /\ Holds(t)' = {}
      /\ \A u \in Sessions \ {t} : Holds(u)' = Holds(u)
  BY EndFacts DEF IInv
<1>2. \A u \in Sessions \ {t} : \A m \in Holds(u) : m \in Commitments /\ m \notin Holds(t)
  BY HoldsFacts DEF IInv, RowsAreHeldOnce
<1>3. \A u \in Sessions : Is(u, "edit") \/ Is(u, "draft") => session[u].row \in Holds(u)
  BY DEF Holds
<1>4. RowsAreHeldOnce'
  BY <1>1 DEF IInv, RowsAreHeldOnce
<1>5. HoldersAreCurrent'
  <2> SUFFICES ASSUME NEW u \in Sessions \ {t}
               PROVE  /\ \A m \in Holds(u)' : commitment'[m].revision < MaxRevision
                      /\ Is(u, "edit")' \/ Is(u, "draft")' =>
                            session'[u].revision = commitment'[session'[u].row].revision
    BY <1>1 DEF HoldersAreCurrent
  <2>1. \A m \in Holds(u) : commitment'[m] = commitment[m]
    BY <1>2
  <2>. QED
    BY <1>1, <1>3, <2>1 DEF IInv, HoldersAreCurrent
<1>. QED
  BY <1>4, <1>5

\* The owner's edit.
LEMMA CommitEditIInv ==
  ASSUME IInv, NEW t \in Sessions, CommitEdit(t)
  PROVE  IInv'
<1> DEFINE m == session[t].row
           new == [commitment[m] EXCEPT !.state = session[t].state, !.due = session[t].due,
                                        !.revision = session[t].revision + 1]
<1>1. /\ Is(t, "edit") /\ session[t] # None /\ End(t)
      /\ UNCHANGED <<now, reminder, answered, record, owned>>
  BY DEF CommitEdit, Is
<1>2. /\ m \in Commitments /\ commitment[m] \in Commitment
      /\ session[t].state \in {"active", "paused", "ended"} /\ session[t].due \in Due
      /\ session[t].revision = commitment[m].revision
      /\ commitment[m].revision < MaxRevision /\ m \in Holds(t)
  BY <1>1, SessionFacts DEF IInv, TypeOK, HoldersAreCurrent, Holds
<1>3. commitment[m].revision + 1 \in Revision
  BY <1>2, ConstantsAssumption DEF Commitment, Revision
<1>4. new \in Commitment
  BY <1>2, <1>3 DEF Commitment
<1>5. commitment' = [commitment EXCEPT ![m] = new]
  BY <1>2 DEF CommitEdit, IInv, TypeOK
<1> HIDE DEF new
<1>6. /\ commitment' \in [Commitments -> Commitment]
      /\ \A k \in Commitments \ Holds(t) : commitment'[k] = commitment[k]
  BY <1>2, <1>4, <1>5 DEF IInv, TypeOK
<1>7. /\ session' \in [Sessions -> Session \cup {None}]
      /\ \A kind : Running(kind)' = Running(kind) \ {t}
      /\ \A kind : \A u \in Running(kind)' : session'[u] = session[u]
      /\ \A u \in Sessions : session'[u] \in {session[u], None}
  BY <1>1, EndFacts DEF IInv, Running, End, TypeOK
<1>8. TypeOK'
  BY <1>1, <1>6, <1>7 DEF IInv, TypeOK, owned
<1>9. RowsAreHeldOnce' /\ HoldersAreCurrent'
  BY <1>1, <1>6, HeldStay
<1>10. OccurrencesAreOpen' /\ KeysAreHeldOnce'
  BY <1>1, <1>7 DEF IInv, OccurrencesAreOpen, KeysAreHeldOnce, Drafted, KeyOf
<1>11. KeysNameDrafts' /\ DraftsAreMadeOnce'
  BY <1>1 DEF IInv, KeysNameDrafts, DraftsAreMadeOnce, Exists
<1>. QED
  BY <1>1, <1>7, <1>8, <1>9, <1>10, <1>11, OwnedStay DEF IInv

\* A draft that is there already is bound to one more key.
LEMMA ReplayDraftIInv ==
  ASSUME IInv, NEW t \in Sessions, ReplayDraft(t)
  PROVE  IInv'
<1> DEFINE k == session[t].key
<1>1. /\ Is(t, "draft") /\ session[t] # None /\ End(t) /\ t \in Running("draft")
      /\ UNCHANGED <<now, commitment, reminder, record, owned>>
  BY DEF ReplayDraft, Is, Running
<1>2. k \in Keys /\ answered[k] = None /\ session[t].seen.record \in Records
  BY <1>1, SessionFacts DEF ReplayDraft, Drafted, Reminder, IInv, KeysAreHeldOnce
<1>3. /\ answered' \in [Keys -> Records \cup {None}]
      /\ \A j \in Keys \ {k} : answered'[j] = answered[j]
  BY <1>2 DEF ReplayDraft, IInv, TypeOK
<1>4. /\ session' \in [Sessions -> Session \cup {None}]
      /\ \A kind : Running(kind)' = Running(kind) \ {t}
      /\ \A kind : \A u \in Running(kind)' : session'[u] = session[u]
      /\ \A u \in Sessions : session'[u] \in {session[u], None}
  BY <1>1, EndFacts DEF IInv, Running, End, TypeOK
<1>5. TypeOK'
  BY <1>1, <1>3, <1>4 DEF IInv, TypeOK, owned
<1>6. RowsAreHeldOnce' /\ HoldersAreCurrent'
  BY <1>1, HeldStay
<1>7. OccurrencesAreOpen'
  BY <1>1, <1>4 DEF IInv, OccurrencesAreOpen, Drafted, KeyOf
<1>8. KeysAreHeldOnce'
  <2> SUFFICES ASSUME NEW u \in Running("draft")', session'[u].key # None
               PROVE  /\ answered'[session'[u].key] = None
                      /\ \A v \in Running("draft")' : session'[v].key = session'[u].key => v = u
    BY DEF KeysAreHeldOnce
  <2>1. u \in Running("draft") \ {t} /\ session'[u] = session[u]
    BY <1>4
  <2>2. session[u].key \in Keys \ {k}
    BY <1>1, <2>1, SessionFacts DEF Running, IInv, KeysAreHeldOnce
  <2>. QED
    BY <1>3, <1>4, <2>1, <2>2 DEF IInv, KeysAreHeldOnce
<1>9. KeysNameDrafts'
  <2> SUFFICES ASSUME NEW c \in Records, record[c] # None, record[c].key # None
               PROVE  answered'[record[c].key] = c
    BY <1>1 DEF KeysNameDrafts, Exists
  <2>1. record[c].key \in Keys /\ answered[record[c].key] = c /\ c # None
    BY ConstantsAssumption DEF IInv, TypeOK, Record, KeysNameDrafts, Exists
  <2>. QED
    BY <1>2, <1>3, <2>1
<1>10. DraftsAreMadeOnce'
  BY <1>1 DEF IInv, DraftsAreMadeOnce, Exists
<1>. QED
  BY <1>1, <1>4, <1>5, <1>6, <1>7, <1>8, <1>9, <1>10, OwnedStay DEF IInv

\* The draft of an occurrence that has none, under a key that is not answered.
LEMMA MakeDraftIInv ==
  ASSUME IInv, NEW t \in Sessions, NEW c \in Records, MakeDraft(t, c)
  PROVE  IInv'
<1> DEFINE m == session[t].row
           k == session[t].key
           o == <<m, session[t].due>>
           new == [commitment[m] EXCEPT !.last = c, !.revision = session[t].revision + 1]
<1>1. /\ Is(t, "draft") /\ session[t] # None /\ End(t) /\ t \in Running("draft")
      /\ UNCHANGED <<now, owned>>
      /\ ~Drafted(session[t].seen)
      /\ record[c] = None
      /\ record' = [record EXCEPT ![c] = Draft(o, k)]
      /\ reminder' = [reminder EXCEPT ![o] = [state |-> "handled", record |-> c]]
      /\ answered' = [j \in Keys |-> IF j = k THEN c ELSE answered[j]]
  BY DEF MakeDraft, Is, Running, KeyOf
<1>2. /\ m \in Commitments /\ commitment[m] \in Commitment
      /\ session[t].due \in Due /\ o \in Occurrences
      /\ k \in Keys \cup {None}
      /\ session[t].revision = commitment[m].revision
      /\ commitment[m].revision < MaxRevision /\ m \in Holds(t)
  BY <1>1, SessionFacts DEF IInv, TypeOK, HoldersAreCurrent, Holds, Occurrences
<1>3. commitment[m].revision + 1 \in Revision
  BY <1>2, ConstantsAssumption DEF Commitment, Revision
<1>4. new \in Commitment
  BY <1>2, <1>3 DEF Commitment
<1>5. commitment' = [commitment EXCEPT ![m] = new]
  BY <1>2 DEF MakeDraft, IInv, TypeOK
<1> HIDE DEF new
<1>6. /\ commitment' \in [Commitments -> Commitment]
      /\ \A j \in Commitments \ Holds(t) : commitment'[j] = commitment[j]
  BY <1>2, <1>4, <1>5 DEF IInv, TypeOK
<1>7. /\ session' \in [Sessions -> Session \cup {None}]
      /\ \A kind : Running(kind)' = Running(kind) \ {t}
      /\ \A kind : \A u \in Running(kind)' : session'[u] = session[u]
      /\ \A u \in Sessions : session'[u] \in {session[u], None}
  BY <1>1, EndFacts DEF IInv, Running, End, TypeOK
<1>8. Draft(o, k) \in Record /\ Draft(o, k).occurrence = o /\ Draft(o, k).key = k
  BY <1>2 DEF Draft, Record
<1>9. /\ record' \in [Records -> Record \cup {None}]
      /\ record'[c].occurrence = o /\ record'[c].key = k
      /\ \A d \in Records \ {c} : record'[d] = record[d]
  BY <1>1, <1>8 DEF IInv, TypeOK
<1>10. /\ reminder' \in [Occurrences -> Reminder \cup {None}]
       /\ reminder'[o] # None /\ reminder'[o].record = c
       /\ \A p \in Occurrences \ {o} : reminder'[p] = reminder[p]
  <2>1. [state |-> "handled", record |-> c] \in Reminder
    BY DEF Reminder
  <2>. QED
    BY <1>1, <1>2, <2>1, NoneAssumption DEF IInv, TypeOK
<1>11. /\ answered' \in [Keys -> Records \cup {None}]
       /\ \A j \in Keys : answered'[j] = IF j = k THEN c ELSE answered[j]
  BY <1>1 DEF IInv, TypeOK
<1>12. TypeOK'
  BY <1>1, <1>6, <1>7, <1>9, <1>10, <1>11 DEF IInv, TypeOK, owned
<1>13. RowsAreHeldOnce' /\ HoldersAreCurrent'
  BY <1>1, <1>6, HeldStay
<1>14. OccurrencesAreOpen'
  <2> SUFFICES ASSUME NEW u \in Running("draft")', ~Drafted(session[u].seen)
               PROVE  ~Drafted(reminder[KeyOf(session[u].row, session[u].due)])'
    BY <1>7 DEF OccurrencesAreOpen, Drafted, KeyOf
  <2>1. u \in Running("draft") \ {t} /\ session'[u] = session[u]
    BY <1>7
  <2>2. session[u].row \in Commitments \ {m} /\ session[u].due \in Due
    BY <1>2, <2>1, SessionFacts DEF IInv, RowsAreHeldOnce, Running, Holds
  <2>3. <<session[u].row, session[u].due>> \in Occurrences \ {o}
    BY <2>2 DEF Occurrences
  <2>4. ~Drafted(reminder[<<session[u].row, session[u].due>>])
    BY <2>1 DEF IInv, OccurrencesAreOpen, KeyOf
  <2>. QED
    BY <1>10, <2>1, <2>3, <2>4 DEF Drafted, KeyOf
<1>15. KeysAreHeldOnce'
  <2> SUFFICES ASSUME NEW u \in Running("draft")', session'[u].key # None
               PROVE  /\ answered'[session'[u].key] = None
                      /\ \A v \in Running("draft")' : session'[v].key = session'[u].key => v = u
    BY DEF KeysAreHeldOnce
  <2>1. u \in Running("draft") \ {t} /\ session'[u] = session[u]
    BY <1>7
  <2>2. session[u].key \in Keys \ {k}
    BY <1>1, <2>1, SessionFacts DEF Running, IInv, KeysAreHeldOnce
  <2>. QED
    BY <1>7, <1>11, <2>1, <2>2 DEF IInv, KeysAreHeldOnce
<1>16. k # None => k \in Keys /\ answered[k] = None
  BY <1>1, <1>2 DEF IInv, KeysAreHeldOnce
<1>17. KeysNameDrafts'
  <2> SUFFICES ASSUME NEW d \in Records, record'[d] # None, record'[d].key # None
               PROVE  answered'[record'[d].key] = d
    BY DEF KeysNameDrafts, Exists
  <2>1. CASE d = c
    BY <1>9, <1>11, <1>16, <2>1
  <2>2. CASE d # c
    <3>1. /\ record'[d] = record[d] /\ record[d].key \in Keys
          /\ answered[record[d].key] = d /\ d # None
      BY <1>9, <2>2, ConstantsAssumption DEF IInv, TypeOK, Record, KeysNameDrafts, Exists
    <3>. QED
      BY <1>11, <1>16, <3>1
  <2>. QED
    BY <2>1, <2>2
<1>18. DraftsAreMadeOnce'
  <2>1. ASSUME NEW d \in Records, record'[d] # None, record'[d].occurrence # None
        PROVE  reminder'[record'[d].occurrence] # None /\ reminder'[record'[d].occurrence].record = d
    <3>1. CASE d = c
      BY <1>9, <1>10, <3>1
    <3>2. CASE d # c
      <4>1. /\ record'[d] = record[d] /\ record[d] # None /\ record[d].occurrence \in Occurrences
            /\ d # None
        BY <1>9, <2>1, <3>2, ConstantsAssumption DEF IInv, TypeOK, Record
      <4>2. reminder[record[d].occurrence] # None /\ reminder[record[d].occurrence].record = d
        BY <2>1, <4>1 DEF IInv, DraftsAreMadeOnce, Exists
      <4>3. record[d].occurrence # o
        BY <1>1, <4>1, <4>2 DEF IInv, OccurrencesAreOpen, Drafted, KeyOf
      <4>. QED
        BY <1>10, <4>1, <4>2, <4>3
    <3>. QED
      BY <3>1, <3>2
  <2>2. \A d, e \in Records :
           (record'[d] # None /\ record'[e] # None /\ record'[d].key # None
               /\ record'[d].key = record'[e].key) => d = e
    BY <1>17 DEF KeysNameDrafts, Exists
  <2>. QED
    BY <2>1, <2>2 DEF DraftsAreMadeOnce, Exists
<1>. QED
  BY <1>1, <1>7, <1>12, <1>13, <1>14, <1>15, <1>17, <1>18, OwnedStay DEF IInv

\* The worker advances what it has locked; a reminder that is there stays.
LEMMA CommitWorkerIInv ==
  ASSUME IInv, NEW t \in Sessions, CommitWorker(t)
  PROVE  IInv'
<1> DEFINE rows == session[t].rows
<1>1. /\ Is(t, "worker") /\ session[t] # None /\ End(t)
      /\ UNCHANGED <<now, answered, record, owned>>
      /\ commitment' = [m \in Commitments |-> IF m \in rows THEN Advanced(m) ELSE commitment[m]]
  BY DEF CommitWorker, Is
<1>2. rows = Holds(t) /\ rows \subseteq Commitments
  BY <1>1, SessionFacts DEF Holds, Is, IInv
<1>3. \A m \in rows : Advanced(m) \in Commitment
  <2> SUFFICES ASSUME NEW m \in rows PROVE Advanced(m) \in Commitment
    OBVIOUS
  <2>1. commitment[m] \in Commitment /\ commitment[m].revision < MaxRevision
    BY <1>2 DEF IInv, TypeOK, HoldersAreCurrent
  <2>2. commitment[m].revision + 1 \in Revision
    BY <2>1, ConstantsAssumption DEF Commitment, Revision
  <2>3. commitment[m].due # Last => commitment[m].due + 1 \in Due
    BY <2>1, ConstantsAssumption DEF Commitment, Due
  <2>. QED
    BY <2>1, <2>2, <2>3 DEF Advanced, Commitment
<1>4. /\ commitment' \in [Commitments -> Commitment]
      /\ \A m \in Commitments \ Holds(t) : commitment'[m] = commitment[m]
  BY <1>1, <1>2, <1>3 DEF IInv, TypeOK
<1>5. /\ reminder' \in [Occurrences -> Reminder \cup {None}]
      /\ \A o \in Occurrences : \/ reminder'[o] = reminder[o]
                               \/ /\ reminder[o] = None
                                  /\ reminder'[o] = [state |-> "pending", record |-> None]
  <2>1. [state |-> "pending", record |-> None] \in Reminder
    BY DEF Reminder
  <2>2. reminder' = [o \in Occurrences |->
             IF o \in {<<m, commitment[m].due>> : m \in rows} /\ ReminderMissing(o)
             THEN [state |-> "pending", record |-> None] ELSE reminder[o]]
    BY DEF CommitWorker
  <2>. QED
    BY <2>1, <2>2 DEF ReminderMissing, IInv, TypeOK
<1>6. /\ session' \in [Sessions -> Session \cup {None}]
      /\ \A kind : Running(kind)' = Running(kind) \ {t}
      /\ \A kind : \A u \in Running(kind)' : session'[u] = session[u]
      /\ \A u \in Sessions : session'[u] \in {session[u], None}
  BY <1>1, EndFacts DEF IInv, Running, End, TypeOK
<1>7. TypeOK'
  BY <1>1, <1>4, <1>5, <1>6 DEF IInv, TypeOK, owned
<1>8. RowsAreHeldOnce' /\ HoldersAreCurrent'
  BY <1>1, <1>4, HeldStay
<1>9. OccurrencesAreOpen'
  <2> SUFFICES ASSUME NEW u \in Running("draft")', ~Drafted(session[u].seen)
               PROVE  ~Drafted(reminder[KeyOf(session[u].row, session[u].due)])'
    BY <1>6 DEF OccurrencesAreOpen, Drafted, KeyOf
  <2>1. u \in Running("draft") \ {t} /\ session'[u] = session[u]
    BY <1>6
  <2>2. <<session[u].row, session[u].due>> \in Occurrences
    BY <2>1, SessionFacts DEF IInv, Running, Occurrences
  <2>3. ~Drafted(reminder[<<session[u].row, session[u].due>>])
    BY <2>1 DEF IInv, OccurrencesAreOpen, KeyOf
  <2>. QED
    BY <1>5, <2>1, <2>2, <2>3 DEF Drafted, KeyOf
<1>10. KeysAreHeldOnce' /\ KeysNameDrafts'
  BY <1>1, <1>6 DEF IInv, KeysAreHeldOnce, KeysNameDrafts, Exists
<1>11. DraftsAreMadeOnce'
  <2>1. \A c \in Records : record[c] # None /\ record[c].occurrence # None =>
           record[c].occurrence \in Occurrences
    BY DEF IInv, TypeOK, Record
  <2>. QED
    BY <1>1, <1>5, <2>1 DEF IInv, DraftsAreMadeOnce, Exists
<1>. QED
  BY <1>1, <1>6, <1>7, <1>8, <1>9, <1>10, <1>11, OwnedStay DEF IInv

\* What the owner does with a reminder leaves its record alone.
LEMMA MarkReminderIInv ==
  ASSUME IInv, NEW o \in Occurrences, NEW state \in {"read", "dismissed"},
         MarkReminder(o, state)
  PROVE  IInv'
<1>1. UNCHANGED <<now, commitment, answered, record, owned, session>>
  BY DEF MarkReminder
<1>2. /\ reminder' \in [Occurrences -> Reminder \cup {None}]
      /\ \A p \in Occurrences : Drafted(reminder[p])' <=> Drafted(reminder[p])
      /\ \A p \in Occurrences : reminder[p] # None =>
            reminder'[p] # None /\ reminder'[p].record = reminder[p].record
  BY NoneAssumption DEF MarkReminder, IInv, TypeOK, Reminder, Drafted
<1>3. TypeOK'
  BY <1>1, <1>2 DEF IInv, TypeOK, owned
<1>4. (\A kind : Running(kind)' = Running(kind)) /\ \A t \in Sessions : Holds(t)' = Holds(t)
  BY <1>1 DEF Running, Is, Holds
<1>5. RowsAreHeldOnce' /\ HoldersAreCurrent' /\ KeysAreHeldOnce' /\ KeysNameDrafts'
  BY <1>1, <1>4 DEF IInv, RowsAreHeldOnce, HoldersAreCurrent, KeysAreHeldOnce, KeysNameDrafts,
     Exists, Is
<1>6. OccurrencesAreOpen'
  <2>1. \A u \in Running("draft") : <<session[u].row, session[u].due>> \in Occurrences
    BY SessionFacts DEF IInv, Running, Occurrences
  <2>. QED
    BY <1>1, <1>2, <1>4, <2>1 DEF IInv, OccurrencesAreOpen, KeyOf, Drafted
<1>7. DraftsAreMadeOnce'
  <2>1. \A c \in Records : record[c] # None /\ record[c].occurrence # None =>
           record[c].occurrence \in Occurrences
    BY DEF IInv, TypeOK, Record
  <2>. QED
    BY <1>1, <1>2, <2>1 DEF IInv, DraftsAreMadeOnce, Exists
<1>. QED
  BY <1>1, <1>3, <1>5, <1>6, <1>7, OwnedStay DEF IInv

-----------------------------------------------------------------------------
(* Every step *)

\* One case for each action.
LEMMA NextIInv == IInv /\ [Next]_vars => IInv'
<1> SUFFICES ASSUME IInv, [Next]_vars PROVE IInv'
  OBVIOUS
<1>1. CASE UNCHANGED vars
  <2>1. UNCHANGED <<now, plans, record, owned, session>>
    BY <1>1 DEF vars
  <2>2. TypeOK'
    BY <2>1 DEF IInv, TypeOK, plans, owned
  <2>. QED
    BY <2>1, <2>2, PlansStay, OwnedStay DEF IInv
<1>2. ASSUME NEW t \in Sessions, Plan(t) PROVE IInv'
  BY <1>2, PlanIInv
<1>3. ASSUME NEW t \in Sessions, Write(t) PROVE IInv'
  BY <1>3, CommitEditIInv, ReplayDraftIInv, CommitWorkerIInv, MakeDraftIInv, OwnedIInv DEF Write
<1>4. CASE \/ Tick \/ \E t \in Sessions : Rollback(t)
           \/ \E c \in Records : \/ CreateRecord(c) \/ ConfirmRecord(c)
                               \/ VoidRecord(c) \/ DeleteDraft(c)
  BY <1>4, OutsideIInv
<1>5. ASSUME NEW o \in Occurrences, NEW state \in {"read", "dismissed"}, MarkReminder(o, state)
      PROVE  IInv'
  BY <1>5, MarkReminderIInv
<1>6. CASE \/ \E i \in Intents, state \in {"planned", "cancelled"} : PatchIntent(i, state)
           \/ \E b \in Budgets, month \in Months : CreateBudget(b, month)
  BY <1>6, OwnedIInv
<1>. QED
  BY <1>1, <1>2, <1>3, <1>4, <1>5, <1>6 DEF Next

\* The inductive invariant holds in every reachable state.
THEOREM Invariance == Spec => []IInv
BY InitIInv, NextIInv, PTL DEF Spec

-----------------------------------------------------------------------------
(* The properties *)

\* Every variable keeps its type.
THEOREM TypeCorrect == Spec => []TypeOK
<1>1. IInv => TypeOK
  BY DEF IInv
<1>. QED
  BY <1>1, Invariance, PTL

\* An occurrence has one draft at most, and so has a key.
THEOREM OccurrencesAreDraftedOnce == Spec => []DraftsAreMadeOnce
<1>1. IInv => DraftsAreMadeOnce
  BY DEF IInv
<1>. QED
  BY <1>1, Invariance, PTL

\* The steps that write a reminder, and those that write a commitment.
LEMMA Writers ==
  ASSUME [Next]_vars
  PROVE  /\ \/ UNCHANGED reminder
            \/ \E t \in Sessions : CommitWorker(t) \/ \E c \in Records : MakeDraft(t, c)
            \/ \E o \in Occurrences, state \in {"read", "dismissed"} : MarkReminder(o, state)
         /\ \/ UNCHANGED commitment
            \/ \E t \in Sessions : \/ CommitEdit(t) \/ CommitWorker(t)
                                  \/ \E c \in Records : MakeDraft(t, c)
<1>1. ASSUME NEW t \in Sessions, Plan(t) PROVE UNCHANGED plans
  BY <1>1, Zenon DEF Plan, StartWorker, EditCommitment, OpenDraft, OpenComplete, OpenCycle,
     ReadCycle, ReadBudget
<1>2. ASSUME NEW t \in Sessions, Write(t)
      PROVE  \/ UNCHANGED plans \/ CommitEdit(t) \/ CommitWorker(t)
             \/ UNCHANGED <<commitment, reminder>>
             \/ \E c \in Records : MakeDraft(t, c)
  BY <1>2 DEF Write, ReplayDraft, CommitComplete, CommitCycle, WriteCycle, WriteBudget
<1>3. ASSUME NEW t \in Sessions, CommitEdit(t) PROVE UNCHANGED reminder
  BY <1>3 DEF CommitEdit
<1>4. ASSUME NEW o, NEW state, MarkReminder(o, state) PROVE UNCHANGED commitment
  BY <1>4 DEF MarkReminder
<1>5. CASE \/ Tick \/ \E t \in Sessions : Rollback(t)
           \/ \E c \in Records : \/ CreateRecord(c) \/ ConfirmRecord(c)
                               \/ VoidRecord(c) \/ DeleteDraft(c)
           \/ \E i \in Intents, state \in {"planned", "cancelled"} : PatchIntent(i, state)
           \/ \E b \in Budgets, month \in Months : CreateBudget(b, month)
  <2>1. UNCHANGED plans
    BY <1>5 DEF Tick, Rollback, CreateRecord, ConfirmRecord, VoidRecord, DeleteDraft,
       PatchIntent, CreateBudget
  <2>. QED
    BY <2>1 DEF plans
<1>. QED
  BY <1>1, <1>2, <1>3, <1>4, <1>5 DEF Next, vars, plans

\* No step shows a reminder as new that its owner has seen or dealt with.
THEOREM SeenStaysSeen == Spec => ReminderStaysSeen
<1> DEFINE A == \A o \in Occurrences :
          (reminder[o] # None /\ reminder[o].state # "pending") =>
              reminder'[o].state # "pending"
<1>1. IInv /\ [Next]_vars => [A]_vars
  <2> SUFFICES ASSUME IInv, [Next]_vars, NEW o \in Occurrences,
                      reminder[o] # None, reminder[o].state # "pending"
               PROVE  reminder'[o].state # "pending"
    OBVIOUS
  <2>1. reminder \in [Occurrences -> Reminder \cup {None}]
    BY DEF IInv, TypeOK
  <2>2. ASSUME NEW t \in Sessions, CommitWorker(t) PROVE reminder'[o] = reminder[o]
    BY <2>2 DEF CommitWorker, ReminderMissing
  <2>3. ASSUME NEW t \in Sessions, NEW c \in Records, MakeDraft(t, c)
        PROVE  reminder'[o].state # "pending"
    <3>1. \E p : reminder' = [reminder EXCEPT ![p] = [state |-> "handled", record |-> c]]
      BY <2>3 DEF MakeDraft
    <3>. QED
      BY <2>1, <3>1
  <2>4. ASSUME NEW p \in Occurrences, NEW state \in {"read", "dismissed"}, MarkReminder(p, state)
        PROVE  reminder'[o].state # "pending"
    BY <2>1, <2>4 DEF MarkReminder, Reminder
  <2>. QED
    BY <2>2, <2>3, <2>4, Writers
<1>. QED
  BY <1>1, Invariance, PTL DEF Spec, ReminderStaysSeen

\* Every edit of a commitment has a revision of its own.
THEOREM NoCommitmentEditIsLost == Spec => CommitmentEditsCount
<1> DEFINE A == \A m \in Commitments : commitment'[m] # commitment[m] =>
          commitment'[m].revision = commitment[m].revision + 1
<1>1. IInv /\ [Next]_vars => [A]_vars
  <2> SUFFICES ASSUME IInv, [Next]_vars, NEW m \in Commitments, commitment'[m] # commitment[m]
               PROVE  commitment'[m].revision = commitment[m].revision + 1
    OBVIOUS
  <2>1. commitment \in [Commitments -> Commitment] /\ commitment[m] \in Commitment
    BY DEF IInv, TypeOK
  <2>2. ASSUME NEW t \in Sessions, CommitWorker(t)
        PROVE  commitment'[m].revision = commitment[m].revision + 1
    BY <2>1, <2>2 DEF CommitWorker, Advanced, Commitment
  <2>3. ASSUME NEW t \in Sessions, CommitEdit(t) \/ \E c \in Records : MakeDraft(t, c)
        PROVE  commitment'[m].revision = commitment[m].revision + 1
    <3>1. /\ session[t].row \in Commitments
          /\ session[t].revision = commitment[session[t].row].revision
      BY <2>3, SessionFacts DEF CommitEdit, MakeDraft, IInv, HoldersAreCurrent
    <3>2. \E x : /\ x.revision = session[t].revision + 1
                 /\ commitment' = [commitment EXCEPT ![session[t].row] = x]
      <4>1. CASE CommitEdit(t)
        BY <2>1, <3>1, <4>1 DEF CommitEdit, IInv, TypeOK, Commitment
      <4>2. ASSUME NEW c \in Records, MakeDraft(t, c)
            PROVE  \E x : /\ x.revision = session[t].revision + 1
                          /\ commitment' = [commitment EXCEPT ![session[t].row] = x]
        BY <2>1, <3>1, <4>2 DEF MakeDraft, IInv, TypeOK, Commitment
      <4>. QED
        BY <2>3, <4>1, <4>2
    <3>. QED
      BY <2>1, <3>1, <3>2
  <2>. QED
    BY <2>2, <2>3, Writers
<1>. QED
  BY <1>1, Invariance, PTL DEF Spec, CommitmentEditsCount
=============================================================================
