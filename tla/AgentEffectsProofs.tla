------------------------- MODULE AgentEffectsProofs -------------------------
(* What holds of AgentEffects for every value of its constants. *)
EXTENDS AgentEffects, TLAPS

-----------------------------------------------------------------------------
(* The initial states *)

LEMMA InitIInv == Init => IInv
<1> SUFFICES ASSUME Init PROVE IInv
  OBVIOUS
<1>1. \A c \in Records :
        /\ record[c] \in [state : {"draft"}, revision : {1}, body : Bodies,
                          references : {{}}, blocked : {FALSE}]
        /\ record[c] \in Record
        /\ record[c].state = "draft"
  <2> TAKE c \in Records
  <2>1. record[c] \in [state : {"draft"}, revision : {1}, body : Bodies,
                       references : {{}}, blocked : {FALSE}]
    BY DEF Init
  <2>2. PICK b \in Bodies :
          record[c] = [state |-> "draft", revision |-> 1, body |-> b,
                       references |-> {}, blocked |-> FALSE]
    BY <2>1
  <2>. QED
    BY <2>1, <2>2 DEF Record
<1>2. record \in [Records -> Record]
  BY <1>1 DEF Init
<1>3. TypeOK
  BY <1>2, ConstantsAssumption DEF Init, TypeOK, Standing
<1>4. RowsReferToRows /\ SessionsKnowTheirRows /\ ExecutedLeavesNoDraft
      /\ EffectIsAtomic /\ OneEffectPerRecord
  BY DEF Init, RowsReferToRows, SessionsKnowTheirRows, ExecutedLeavesNoDraft,
         EffectIsAtomic, OneEffectPerRecord
<1>5. LocksAreExclusive /\ LockedGrantIsCurrent /\ CheckedStaysTrue
  BY DEF Init, LocksAreExclusive, LockedGrantIsCurrent, CheckedStaysTrue,
         HoldsStanding, HoldsRecord, At
<1>6. ConfirmedIsAnnouncedOnce
  BY <1>1 DEF Init, ConfirmedIsAnnouncedOnce
<1>. QED
  BY <1>3, <1>4, <1>5, <1>6 DEF IInv

-----------------------------------------------------------------------------
(* What the type invariant and the references between rows give *)

LEMMA SessionFacts ==
  ASSUME IInv, NEW t \in Sessions, session[t] # None
  PROVE  /\ session[t] \in Session
         /\ session[t].request \in Requests
         /\ session[t].version \in Nat
         /\ AgentOf[session[t].request] \in Agents
<1>1. session[t] \in Session
  BY DEF IInv, TypeOK
<1>2. session[t].request \in Requests /\ session[t].version \in Nat
  BY <1>1 DEF Session
<1>. QED
  BY <1>1, <1>2, ConstantsAssumption

LEMMA IntentFacts ==
  ASSUME IInv, NEW r \in Requests, intent[r] # None
  PROVE  /\ intent[r] \in Intent
         /\ intent[r].record \in Records
         /\ intent[r].revision \in Nat
         /\ intent[r].action \in Actions
         /\ record[intent[r].record] \in Record
         /\ outbox[intent[r].record] \in Nat
<1>1. intent[r] \in Intent
  BY DEF IInv, TypeOK
<1>2. /\ intent[r].record \in Records
      /\ intent[r].revision \in Nat
      /\ intent[r].action \in Actions
  BY <1>1 DEF Intent
<1>. QED
  BY <1>1, <1>2 DEF IInv, TypeOK

\* An execution in progress has an intent and an approval.
LEMMA ExecutionFacts ==
  ASSUME IInv, NEW t \in Sessions, session[t] # None,
         \/ session[t].operation \in Executions
         \/ session[t].step = "checked"
  PROVE  /\ session[t].operation \in Executions
         /\ intent[session[t].request] # None
         /\ approval[session[t].request] # None
         /\ approval[session[t].request] \in Approval
<1>1. session[t].request \in Requests
  BY SessionFacts
<1>2. session[t].operation \in Executions
  BY DEF IInv, SessionsKnowTheirRows
<1>3. session[t].operation # "review"
  BY <1>2 DEF Executions
<1>4. intent[session[t].request] # None /\ approval[session[t].request] # None
  BY <1>2, <1>3 DEF IInv, SessionsKnowTheirRows
<1>. QED
  BY <1>1, <1>2, <1>4 DEF IInv, TypeOK

-----------------------------------------------------------------------------
(* Steps that touch only a session *)

\* A session that ends without a commit takes its locks with it.
LEMMA CloseIInv ==
  ASSUME IInv, NEW t \in Sessions, Close(t),
         UNCHANGED <<standing, record, intent, approval, receipt, outbox, lapsed>>
  PROVE  IInv'
<1>1. TypeOK'
  BY DEF IInv, TypeOK, Close
<1>2. \A u \in Sessions : session'[u] # None => session'[u] = session[u]
  BY DEF IInv, TypeOK, Close
<1>3. SessionsKnowTheirRows'
  BY <1>2 DEF IInv, SessionsKnowTheirRows
<1>4. LocksAreExclusive' /\ LockedGrantIsCurrent' /\ CheckedStaysTrue'
  BY <1>2 DEF IInv, LocksAreExclusive, LockedGrantIsCurrent, CheckedStaysTrue,
              HoldsStanding, HoldsRecord, At
<1>5. RowsReferToRows' /\ ExecutedLeavesNoDraft' /\ EffectIsAtomic'
      /\ OneEffectPerRecord' /\ ConfirmedIsAnnouncedOnce'
  BY DEF IInv, RowsReferToRows, ExecutedLeavesNoDraft, EffectIsAtomic,
         OneEffectPerRecord, ConfirmedIsAnnouncedOnce
<1>. QED
  BY <1>1, <1>3, <1>4, <1>5 DEF IInv

\* A session that opens holds no lock.
LEMMA OpenIInv ==
  ASSUME IInv, NEW t \in Sessions, NEW r \in Requests,
         NEW operation \in Operations, NEW version \in Nat,
         NEW state \in IntentStates \cup {None}, NEW consumed \in BOOLEAN,
         Open(t, operation, r, version, state, consumed),
         operation # "review" => intent[r] # None,
         operation \in Executions => approval[r] # None
  PROVE  IInv'
<1> DEFINE s == [operation |-> operation, step |-> "read", request |-> r,
                 version |-> version, state |-> state, consumed |-> consumed]
<1>1. s \in Session
  BY DEF Session
<1>2. session' = [session EXCEPT ![t] = s]
  BY DEF Open
<1>3. TypeOK'
  BY <1>1, <1>2 DEF IInv, TypeOK, Open
<1>4. /\ session'[t] = s
      /\ \A u \in Sessions : u # t => session'[u] = session[u]
  BY <1>2 DEF IInv, TypeOK
<1>5. s.step = "read" /\ s.operation = operation /\ s.request = r
  OBVIOUS
<1>6. SessionsKnowTheirRows'
  BY <1>4, <1>5 DEF IInv, SessionsKnowTheirRows, Open
<1>7. /\ \A a \in Agents : ~HoldsStanding(t, a)'
      /\ \A c \in Records : ~HoldsRecord(t, c)'
      /\ \A ops, st : st # "read" => ~At(t, ops, st)'
  BY <1>4, <1>5 DEF HoldsStanding, HoldsRecord, At
<1>8. LocksAreExclusive'
  BY <1>4, <1>7 DEF IInv, LocksAreExclusive, HoldsStanding, HoldsRecord, Open
<1>9. LockedGrantIsCurrent' /\ CheckedStaysTrue'
  BY <1>4, <1>7 DEF IInv, LockedGrantIsCurrent, CheckedStaysTrue, At, Open
<1>10. RowsReferToRows' /\ ExecutedLeavesNoDraft' /\ EffectIsAtomic'
       /\ OneEffectPerRecord' /\ ConfirmedIsAnnouncedOnce'
  BY DEF IInv, Open, RowsReferToRows, ExecutedLeavesNoDraft, EffectIsAtomic,
         OneEffectPerRecord, ConfirmedIsAnnouncedOnce
<1>. QED
  BY <1>3, <1>6, <1>8, <1>9, <1>10 DEF IInv

LEMMA BeginIInv ==
  ASSUME IInv, NEW t \in Sessions, NEW r \in Requests, Begin(t, r)
  PROVE  IInv'
<1>0. /\ AgentOf[r] \in Agents
      /\ standing[AgentOf[r]].version \in Nat
  BY ConstantsAssumption DEF IInv, TypeOK, Standing
<1>1. CASE BeginReview(t, r)
  BY <1>0, <1>1, OpenIInv DEF BeginReview, Operations, Executions
<1>2. ASSUME NEW operation, BeginDecision(t, r, operation) PROVE IInv'
  <2>1. operation \in Operations /\ operation \notin Executions
    BY <1>2 DEF BeginDecision, Operations, Executions
  <2>2. intent[r] # None /\ intent[r].state \in IntentStates
    BY <1>2 DEF BeginDecision, IInv, TypeOK, Intent
  <2>. QED
    BY <1>2, <2>1, <2>2, OpenIInv DEF BeginDecision
<1>3. CASE BeginMachineExecution(t, r)
  <2>1. intent[r] # None
    BY <1>3 DEF IInv, RowsReferToRows, BeginMachineExecution
  <2>. QED
    BY <1>0, <1>3, <2>1, OpenIInv DEF BeginMachineExecution, Operations
<1>4. CASE BeginBrowserExecution(t, r)
  <2>1. approval[r] # None /\ approval[r].consumed \in BOOLEAN
    BY <1>4 DEF IInv, TypeOK, Approval, BeginBrowserExecution
  <2>2. intent[r] # None /\ intent[r].state \in IntentStates
    BY <1>4 DEF BeginBrowserExecution, IInv, TypeOK, Intent
  <2>. QED
    BY <2>1, <2>2, <1>4, OpenIInv DEF BeginBrowserExecution, Operations
<1>. QED
  BY <1>1, <1>2, <1>3, <1>4 DEF Begin

\* The standing grant is locked by the session that finds it free.
LEMMA LockStandingIInv ==
  ASSUME IInv, NEW t \in Sessions, LockStanding(t)
  PROVE  IInv'
<1> DEFINE s == session[t]
           r == s.request
           a == AgentOf[r]
           n == session'[t]
<1>1. s \in Session /\ s # None /\ s.step = "read" /\ r \in Requests /\ a \in Agents
  BY ConstantsAssumption DEF IInv, TypeOK, LockStanding, At, Session
<1>2. n = [s EXCEPT !.step = "locked",
                    !.version = IF LoadsStanding(t) THEN standing[a].version ELSE @,
                    !.state = IF s.operation = "machine" THEN intent[r].state ELSE @,
                    !.consumed = IF s.operation = "machine"
                                 THEN approval[r].consumed ELSE @]
  BY <1>1 DEF IInv, TypeOK, LockStanding
<1>3. \A u \in Sessions : u # t => session'[u] = session[u]
  BY DEF IInv, TypeOK, LockStanding
<1>4. s.operation = "machine" =>
        intent[r].state \in IntentStates /\ approval[r].consumed \in BOOLEAN
  BY <1>1 DEF IInv, TypeOK, SessionsKnowTheirRows, Executions, Intent, Approval
<1>5. standing[a].version \in Nat
  BY <1>1 DEF IInv, TypeOK, Standing
<1>6. n \in Session
  BY <1>1, <1>2, <1>4, <1>5 DEF Session
<1>7. n.step = "locked" /\ n.operation = s.operation /\ n.request = r /\ n # None
  BY <1>1, <1>2, <1>6, NoneAssumption DEF Session
<1>8. TypeOK'
  BY <1>3, <1>6 DEF IInv, TypeOK, LockStanding
<1>9. SessionsKnowTheirRows'
  BY <1>1, <1>3, <1>7 DEF IInv, SessionsKnowTheirRows, LockStanding
<1>10. LocksAreExclusive'
  <2>1. /\ \A b \in Agents : HoldsStanding(t, b)' <=> b = a
        /\ \A c \in Records : ~HoldsRecord(t, c)'
    BY <1>1, <1>7 DEF HoldsStanding, HoldsRecord
  <2>2. \A u \in Sessions : u # t =>
          /\ \A b \in Agents : HoldsStanding(u, b)' <=> HoldsStanding(u, b)
          /\ \A c \in Records : HoldsRecord(u, c)' <=> HoldsRecord(u, c)
    BY <1>3 DEF HoldsStanding, HoldsRecord, LockStanding
  <2>3. \A u \in Sessions : ~HoldsStanding(u, a)
    BY DEF LockStanding, StandingFree
  <2>. QED
    BY <2>1, <2>2, <2>3 DEF IInv, LocksAreExclusive
<1>11. LockedGrantIsCurrent'
  <2>1. ASSUME s.operation \in {"accept", "decline", "browser"}
        PROVE  standing[a].usable /\ standing[a].version = n.version
    <3>1. LoadsStanding(t)
      BY <2>1 DEF LoadsStanding
    <3>2. standing[a].usable
      BY <3>1 DEF LockStanding
    <3>3. n.version = standing[a].version
      BY <3>1, <1>1, <1>2 DEF Session
    <3>. QED
      BY <3>2, <3>3
  <2>. QED
    BY <1>1, <1>3, <1>7, <2>1 DEF IInv, LockedGrantIsCurrent, LockStanding, At
<1>12. CheckedStaysTrue'
  <2>1. \A u \in Sessions : At(u, Executions, "checked")' =>
          At(u, Executions, "checked") /\ session'[u] = session[u]
    BY <1>3, <1>7 DEF At
  <2>2. UNCHANGED <<record, intent, approval, receipt>>
    BY DEF LockStanding
  <2>3. CheckedStaysTrue
    BY DEF IInv
  <2>. QED
    BY <2>1, <2>2, <2>3 DEF CheckedStaysTrue
<1>13. RowsReferToRows' /\ ExecutedLeavesNoDraft' /\ EffectIsAtomic'
       /\ OneEffectPerRecord' /\ ConfirmedIsAnnouncedOnce'
  BY DEF IInv, LockStanding, RowsReferToRows, ExecutedLeavesNoDraft, EffectIsAtomic,
         OneEffectPerRecord, ConfirmedIsAnnouncedOnce
<1>. QED
  BY <1>8, <1>9, <1>10, <1>11, <1>12, <1>13 DEF IInv

-----------------------------------------------------------------------------
(* The review and the decision *)

LEMMA RequestReviewIInv ==
  ASSUME IInv, NEW t \in Sessions, RequestReview(t)
  PROVE  IInv'
<1> DEFINE r == session[t].request
<1>1. session[t] \in Session /\ r \in Requests /\ intent[r] = None
  BY DEF IInv, TypeOK, RequestReview, At, Session
<1>2. PICK c \in Records, action \in Actions :
        /\ record[c].state = "draft"
        /\ intent' = [intent EXCEPT ![r] =
              [state |-> "awaiting_human", record |-> c,
               revision |-> record[c].revision, action |-> action,
               body |-> record[c].body, references |-> record[c].references]]
  BY DEF RequestReview
<1>3. record[c] \in Record
  BY DEF IInv, TypeOK
<1>4. intent'[r] \in Intent /\ intent'[r].state = "awaiting_human" /\ intent'[r] # None
  BY <1>1, <1>2, <1>3, NoneAssumption DEF IInv, TypeOK, Intent, IntentStates, Record
<1>5. \A q \in Requests : q # r => intent'[q] = intent[q]
  BY <1>1, <1>2 DEF IInv, TypeOK
<1>6. \A u \in Sessions : session'[u] # None => session'[u] = session[u]
  BY DEF IInv, TypeOK, RequestReview, Close
<1>7. approval[r] = None /\ receipt[r] = None
  BY <1>1 DEF IInv, RowsReferToRows
<1>8. TypeOK'
  BY <1>2, <1>4 DEF IInv, TypeOK, RequestReview, Close
<1>9. RowsReferToRows'
  BY <1>4, <1>5, <1>7 DEF IInv, RowsReferToRows, RequestReview
<1>10. SessionsKnowTheirRows'
  BY <1>4, <1>5, <1>6 DEF IInv, SessionsKnowTheirRows, RequestReview
<1>11. \A u \in Sessions : session'[u] # None /\ session'[u].step = "checked" =>
          /\ session[u].request \in Requests
          /\ session[u].request # r
  BY <1>6, <1>1 DEF IInv, TypeOK, Session, SessionsKnowTheirRows, Executions
<1>12. LocksAreExclusive'
  BY <1>5, <1>6, <1>11 DEF IInv, LocksAreExclusive, HoldsStanding, HoldsRecord
<1>13. LockedGrantIsCurrent' /\ CheckedStaysTrue'
  BY <1>5, <1>6, <1>11 DEF IInv, LockedGrantIsCurrent, CheckedStaysTrue, At, RequestReview
<1>14. EffectIsAtomic'
  BY <1>1, <1>4, <1>5, <1>7 DEF IInv, EffectIsAtomic, RequestReview
<1>15. ExecutedLeavesNoDraft' /\ OneEffectPerRecord' /\ ConfirmedIsAnnouncedOnce'
  BY <1>5, <1>7 DEF IInv, RequestReview, ExecutedLeavesNoDraft, OneEffectPerRecord,
                    ConfirmedIsAnnouncedOnce
<1>. QED
  BY <1>8, <1>9, <1>10, <1>12, <1>13, <1>14, <1>15 DEF IInv

\* Both answers: the state of an intent that has no receipt changes, and an
\* approval may appear where there was none.
LEMMA DecisionIInv ==
  ASSUME IInv, NEW t \in Sessions, NEW r \in Requests,
         intent[r] # None, receipt[r] = None,
         NEW state \in IntentStates \ {"executed"},
         intent' = [intent EXCEPT ![r].state = state],
         \/ UNCHANGED approval
         \/ /\ approval[r] = None
            /\ \E v \in Nat : approval' =
                  [approval EXCEPT ![r] = [version |-> v, consumed |-> FALSE]],
         Close(t), UNCHANGED <<standing, record, receipt, outbox, lapsed>>
  PROVE  IInv'
<1>1. intent[r] \in Intent
  BY DEF IInv, TypeOK
<1>2. intent'[r] \in Intent /\ intent'[r] # None /\ intent'[r].state = state
  BY <1>1, NoneAssumption DEF IInv, TypeOK, Intent
<1>3. \A q \in Requests :
        /\ q # r => intent'[q] = intent[q]
        /\ intent[q] # None =>
              /\ intent'[q].record = intent[q].record
              /\ intent'[q].revision = intent[q].revision
              /\ intent'[q].action = intent[q].action
              /\ intent'[q].body = intent[q].body
  BY <1>1 DEF IInv, TypeOK, Intent
<1>4. /\ approval' \in [Requests -> Approval \cup {None}]
      /\ \A q \in Requests : approval[q] # None => approval'[q] = approval[q]
      /\ approval'[r] # None => ~approval'[r].consumed
      /\ \A q \in Requests : q # r => approval'[q] = approval[q]
  <2>1. approval[r] # None => ~approval[r].consumed
    BY DEF IInv, EffectIsAtomic
  <2>2. CASE UNCHANGED approval
    BY <2>1, <2>2 DEF IInv, TypeOK
  <2>3. CASE approval[r] = None /\ \E v \in Nat : approval' =
                  [approval EXCEPT ![r] = [version |-> v, consumed |-> FALSE]]
    BY <2>3 DEF IInv, TypeOK, Approval
  <2>. QED
    BY <2>2, <2>3
<1>5. \A u \in Sessions : session'[u] # None => session'[u] = session[u]
  BY DEF IInv, TypeOK, Close
<1>6. TypeOK'
  BY <1>2, <1>4 DEF IInv, TypeOK, Close
<1>7. RowsReferToRows'
  BY <1>2, <1>3, <1>4 DEF IInv, RowsReferToRows
<1>8. SessionsKnowTheirRows'
  <2>1. \A q \in Requests : (intent[q] # None => intent'[q] # None)
                            /\ (approval[q] # None => approval'[q] # None)
    BY <1>2, <1>3, <1>4
  <2>2. \A u \in Sessions : session[u] # None => session[u].request \in Requests
    BY DEF IInv, TypeOK, Session
  <2>. QED
    BY <1>5, <2>1, <2>2 DEF IInv, SessionsKnowTheirRows
<1>9. \A u \in Sessions : session'[u] # None /\ session'[u].step = "checked" =>
          /\ session[u].request \in Requests
          /\ intent[session[u].request] # None
          /\ approval[session[u].request] # None
  BY <1>5 DEF IInv, TypeOK, Session, SessionsKnowTheirRows, Executions
<1>10. LocksAreExclusive'
  BY <1>3, <1>5, <1>9 DEF IInv, LocksAreExclusive, HoldsStanding, HoldsRecord
<1>11. LockedGrantIsCurrent'
  BY <1>5 DEF IInv, LockedGrantIsCurrent, At
<1>12. CheckedStaysTrue'
  BY <1>3, <1>4, <1>5, <1>9 DEF IInv, CheckedStaysTrue, At
<1>13. EffectIsAtomic'
  BY <1>2, <1>3, <1>4 DEF IInv, EffectIsAtomic
<1>14. ExecutedLeavesNoDraft' /\ OneEffectPerRecord' /\ ConfirmedIsAnnouncedOnce'
  BY <1>3 DEF IInv, RowsReferToRows, ExecutedLeavesNoDraft, OneEffectPerRecord,
              ConfirmedIsAnnouncedOnce
<1>. QED
  BY <1>6, <1>7, <1>8, <1>10, <1>11, <1>12, <1>13, <1>14 DEF IInv

\* check_frozen() lets a decision pass only while nothing was executed.
LEMMA FrozenHasNoReceipt ==
  ASSUME IInv, NEW r \in Requests, Frozen(r)
  PROVE  receipt[r] = None
  BY DEF IInv, ExecutedLeavesNoDraft, Frozen

LEMMA DecideIInv ==
  ASSUME IInv, NEW t \in Sessions, Decline(t) \/ Accept(t)
  PROVE  IInv'
<1> DEFINE r == session[t].request
<1>1. /\ session[t] \in Session
      /\ r \in Requests
      /\ session[t].version \in Nat
      /\ intent[r] # None
  BY DEF IInv, TypeOK, Decline, Accept, At, Session, SessionsKnowTheirRows
<1>2. receipt[r] = None
  BY <1>1, FrozenHasNoReceipt DEF Decline, Accept, Decidable
<1>3. CASE Decline(t)
  <2>1. intent' = [intent EXCEPT ![r].state = "rejected"] /\ Close(t)
        /\ UNCHANGED <<standing, record, approval, receipt, outbox, lapsed>>
    BY <1>3 DEF Decline, Outcome
  <2>2. "rejected" \in IntentStates \ {"executed"}
    BY DEF IntentStates
  <2> HIDE DEF r
  <2>. QED
    BY <1>1, <1>2, <2>1, <2>2, DecisionIInv
<1>4. CASE Accept(t)
  <2>1. /\ intent' = [intent EXCEPT ![r].state = "approved"]
        /\ approval[r] = None
        /\ approval' = [approval EXCEPT ![r] =
                          [version |-> session[t].version, consumed |-> FALSE]]
        /\ Close(t)
        /\ UNCHANGED <<standing, record, receipt, outbox, lapsed>>
    BY <1>4 DEF Accept, Outcome
  <2>2. "approved" \in IntentStates \ {"executed"}
    BY DEF IntentStates
  <2>3. \E v \in Nat : approval' =
          [approval EXCEPT ![r] = [version |-> v, consumed |-> FALSE]]
    BY <1>1, <2>1
  <2> HIDE DEF r
  <2>. QED
    BY <1>1, <1>2, <2>1, <2>2, <2>3, DecisionIInv
<1>. QED
  BY <1>3, <1>4

-----------------------------------------------------------------------------
(* The execution *)

LEMMA CheckExecutionIInv ==
  ASSUME IInv, NEW t \in Sessions, CheckExecution(t)
  PROVE  IInv'
<1> DEFINE s == session[t]
           r == s.request
           n == session'[t]
<1>1. /\ s \in Session /\ s # None /\ r \in Requests
      /\ s.step = "locked" /\ s.operation \in Executions
      /\ intent[r] # None /\ approval[r] # None
  <2>1. s # None /\ s.step = "locked" /\ s.operation \in Executions
    BY DEF CheckExecution, At
  <2>. QED
    BY <2>1, SessionFacts, ExecutionFacts
<1>2. n = [s EXCEPT !.step = "checked"]
  BY DEF IInv, TypeOK, CheckExecution
<1>3. /\ n \in Session /\ n # None /\ n.step = "checked"
      /\ n.operation = s.operation /\ n.request = r /\ n.version = s.version
  BY <1>1, <1>2, NoneAssumption DEF Session
<1>4. \A u \in Sessions : u # t => session'[u] = session[u]
  BY DEF IInv, TypeOK, CheckExecution
<1>5. UNCHANGED <<standing, record, intent, approval, receipt, outbox, lapsed>>
  BY DEF CheckExecution
<1>6. TypeOK'
  BY <1>3, <1>4, <1>5 DEF IInv, TypeOK, CheckExecution
<1>7. SessionsKnowTheirRows'
  BY <1>1, <1>3, <1>4, <1>5 DEF IInv, SessionsKnowTheirRows
<1>8. LocksAreExclusive'
  <2>1. \A u \in Sessions : \A a \in Agents : HoldsStanding(u, a)' <=> HoldsStanding(u, a)
    BY <1>1, <1>3, <1>4 DEF HoldsStanding
  <2>2. \A u \in Sessions : u # t =>
          \A c \in Records : HoldsRecord(u, c)' <=> HoldsRecord(u, c)
    BY <1>4, <1>5 DEF HoldsRecord
  <2>3. \A c \in Records : HoldsRecord(t, c)' => c = intent[r].record
    BY <1>3, <1>5 DEF HoldsRecord
  <2>4. \A u \in Sessions : ~HoldsRecord(u, intent[r].record)
    BY DEF CheckExecution, RecordFree
  <2>. QED
    BY <2>1, <2>2, <2>3, <2>4 DEF IInv, LocksAreExclusive
<1>9. LockedGrantIsCurrent'
  <2>1. s.operation \in {"accept", "decline", "browser"} =>
          standing[AgentOf[r]].usable /\ standing[AgentOf[r]].version = s.version
    BY <1>1 DEF IInv, LockedGrantIsCurrent, At
  <2>2. LockedGrantIsCurrent
    BY DEF IInv
  <2>. QED
    BY <2>1, <2>2, <1>3, <1>4, <1>5 DEF LockedGrantIsCurrent, At
<1>10. CheckedStaysTrue'
  <2>1. /\ receipt[r] = None
        /\ approval[r].version = s.version
        /\ record[intent[r].record].state = "draft"
        /\ record[intent[r].record].revision = intent[r].revision
        /\ record[intent[r].record].body = intent[r].body
        /\ intent[r].action = "confirm" => ~record[intent[r].record].blocked
    BY DEF CheckExecution, Approved, Frozen, EffectAllowed
  <2>2. CheckedStaysTrue
    BY DEF IInv
  <2>3. ASSUME NEW u \in Sessions, u # t, At(u, Executions, "checked")'
        PROVE  At(u, Executions, "checked") /\ session'[u] = session[u]
    BY <2>3, <1>4 DEF At
  <2>4. SUFFICES ASSUME NEW u \in Sessions, At(u, Executions, "checked")'
                 PROVE  LET q == session'[u].request
                            c == intent[q].record
                        IN /\ receipt[q] = None
                           /\ approval[q].version = session'[u].version
                           /\ record[c].state = "draft"
                           /\ record[c].revision = intent[q].revision
                           /\ record[c].body = intent[q].body
                           /\ intent[q].action = "confirm" => ~record[c].blocked
    BY <1>5 DEF CheckedStaysTrue
  <2>5. CASE u = t
    <3>1. session'[u].request = r /\ session'[u].version = s.version
      BY <2>5, <1>3
    <3> HIDE DEF r
    <3>. QED
      BY <3>1, <2>1
  <2>6. CASE u # t
    BY <2>2, <2>3, <2>4, <2>6 DEF CheckedStaysTrue
  <2>. QED
    BY <2>5, <2>6
<1>11. RowsReferToRows' /\ ExecutedLeavesNoDraft' /\ EffectIsAtomic'
       /\ OneEffectPerRecord' /\ ConfirmedIsAnnouncedOnce'
  BY <1>5 DEF IInv, RowsReferToRows, ExecutedLeavesNoDraft, EffectIsAtomic,
              OneEffectPerRecord, ConfirmedIsAnnouncedOnce
<1>. QED
  BY <1>6, <1>7, <1>8, <1>9, <1>10, <1>11 DEF IInv

LEMMA CommitExecutionIInv ==
  ASSUME IInv, NEW t \in Sessions, CommitExecution(t)
  PROVE  IInv'
<1> DEFINE r == session[t].request
           c == intent[r].record
<1>1. /\ session[t] \in Session /\ session[t] # None /\ r \in Requests
      /\ intent[r] # None /\ intent[r] \in Intent /\ c \in Records
      /\ approval[r] # None /\ approval[r] \in Approval
      /\ record[c] \in Record /\ outbox[c] \in Nat
      /\ HoldsRecord(t, c)
  <2>1. session[t] # None /\ session[t].step = "checked"
    BY DEF CommitExecution, At
  <2>2. HoldsRecord(t, c)
    BY <2>1 DEF HoldsRecord
  <2>3. r \in Requests
    BY <2>1, SessionFacts
  <2>4. intent[r] # None /\ approval[r] # None /\ approval[r] \in Approval
    BY <2>1, ExecutionFacts
  <2>. QED
    BY <2>1, <2>2, <2>3, <2>4, SessionFacts, IntentFacts
<1>2. receipt[r] = None /\ record[c].state = "draft" /\ outbox[c] = 0
  BY <1>1 DEF IInv, CheckedStaysTrue, CommitExecution, ConfirmedIsAnnouncedOnce
<1>3. /\ approval' = [approval EXCEPT ![r].consumed = TRUE]
      /\ intent' = [intent EXCEPT ![r].state = "executed"]
      /\ receipt' = [receipt EXCEPT ![r] = [record |-> c, revision |-> intent[r].revision,
                                            action |-> intent[r].action]]
      /\ Close(t)
      /\ UNCHANGED <<standing, lapsed>>
  BY DEF CommitExecution, Consume
<1>4. /\ approval'[r] \in Approval /\ approval'[r] # None /\ approval'[r].consumed
      /\ approval' \in [Requests -> Approval \cup {None}]
      /\ \A q \in Requests : q # r => approval'[q] = approval[q]
  BY <1>1, <1>3, NoneAssumption DEF IInv, TypeOK, Approval
<1>5. /\ intent'[r] \in Intent /\ intent'[r] # None /\ intent'[r].state = "executed"
      /\ intent'[r].record = c
      /\ intent' \in [Requests -> Intent \cup {None}]
      /\ \A q \in Requests : q # r => intent'[q] = intent[q]
  BY <1>1, <1>3, NoneAssumption DEF IInv, TypeOK, Intent, IntentStates
<1>6. /\ receipt'[r] \in Receipt /\ receipt'[r] # None /\ receipt'[r].record = c
      /\ receipt' \in [Requests -> Receipt \cup {None}]
      /\ \A q \in Requests : q # r => receipt'[q] = receipt[q]
  BY <1>1, <1>3, NoneAssumption DEF IInv, TypeOK, Intent, Receipt
<1>7. /\ record'[c] \in Record /\ record'[c].state \in {"confirmed", "deleted"}
      /\ outbox'[c] = IF record'[c].state = "confirmed" THEN 1 ELSE 0
      /\ record' \in [Records -> Record]
      /\ outbox' \in [Records -> Nat]
      /\ \A d \in Records : d # c => record'[d] = record[d] /\ outbox'[d] = outbox[d]
  <2>1. CASE intent[r].action = "confirm"
    <3>1. /\ record' = [record EXCEPT ![c].state = "confirmed", ![c].revision = @ + 1]
          /\ outbox' = [outbox EXCEPT ![c] = @ + 1]
      BY <2>1 DEF CommitExecution
    <3>2. record \in [Records -> Record] /\ outbox \in [Records -> Nat]
      BY DEF IInv, TypeOK
    <3>3. /\ record[c].state = "draft" /\ record[c].revision \in Nat
          /\ record[c].body \in Bodies /\ record[c].references \in SUBSET References
          /\ record[c].blocked \in BOOLEAN
      BY <1>1, <1>2 DEF Record
    <3>4. /\ record'[c] = [record[c] EXCEPT !.state = "confirmed",
                                            !.revision = record[c].revision + 1]
          /\ \A d \in Records : d # c => record'[d] = record[d]
      BY <3>1, <3>2, <1>1
    <3>5. record'[c] \in Record /\ record'[c].state = "confirmed"
      <4> DEFINE old == record[c]
      <4>1. old.revision + 1 \in Nat
        BY <3>3
      <4>2. old \in Record /\ record'[c] = [old EXCEPT !.state = "confirmed",
                                                      !.revision = old.revision + 1]
        BY <3>4, <1>1
      <4> HIDE DEF c, old
      <4>. QED
        BY <4>1, <4>2 DEF Record
    <3> HIDE DEF c
    <3>6. outbox'[c] = 1 /\ \A d \in Records : d # c => outbox'[d] = outbox[d]
      BY <3>1, <3>2, <1>1, <1>2
    <3>7. record' \in [Records -> Record] /\ outbox' \in [Records -> Nat]
      BY <3>1, <3>2, <3>4, <3>5, <3>6, <1>1
    <3>. QED
      BY <3>4, <3>5, <3>6, <3>7
  <2>2. CASE intent[r].action # "confirm"
    <3>1. record' = [record EXCEPT ![c].state = "deleted"] /\ outbox' = outbox
      BY <2>2 DEF CommitExecution
    <3>. QED
      BY <3>1, <1>1, <1>2 DEF IInv, TypeOK, Record
  <2>. QED
    BY <2>1, <2>2
<1>8. /\ session'[t] = None
      /\ \A u \in Sessions : session'[u] # None => session'[u] = session[u] /\ u # t
  BY <1>3 DEF IInv, TypeOK, Close
<1>9. TypeOK'
  BY <1>3, <1>4, <1>5, <1>6, <1>7 DEF IInv, TypeOK, Close
<1>10. \A q \in Requests : receipt[q] # None =>
         /\ q # r
         /\ receipt[q].record = intent[q].record /\ receipt[q].record # c
  BY <1>2 DEF IInv, RowsReferToRows, ExecutedLeavesNoDraft
<1>11. RowsReferToRows'
  BY <1>4, <1>5, <1>6 DEF IInv, RowsReferToRows
<1>12. SessionsKnowTheirRows'
  <2>1. \A u \in Sessions : session[u] # None => session[u].request \in Requests
    BY DEF IInv, TypeOK, Session
  <2>. QED
    BY <2>1, <1>4, <1>5, <1>8 DEF IInv, SessionsKnowTheirRows
<1>13. \A u \in Sessions : session'[u] # None /\ session'[u].step = "checked" =>
          /\ session'[u] = session[u]
          /\ session[u].operation \in Executions
          /\ session[u].request \in Requests
          /\ session[u].request # r
          /\ intent[session[u].request].record \in Records
          /\ intent[session[u].request].record # c
  <2> TAKE u \in Sessions
  <2> HAVE session'[u] # None /\ session'[u].step = "checked"
  <2>1. /\ session'[u] = session[u] /\ u # t
        /\ session[u] \in Session /\ session[u].request \in Requests
        /\ session[u].operation \in Executions
        /\ intent[session[u].request] # None
    BY <1>8 DEF IInv, TypeOK, Session, SessionsKnowTheirRows, Executions
  <2>2. intent[session[u].request].record \in Records
    BY <2>1 DEF IInv, TypeOK, Intent
  <2>3. HoldsRecord(u, intent[session[u].request].record)
    BY <2>1 DEF HoldsRecord
  <2>4. intent[session[u].request].record # c
    BY <2>1, <2>3, <1>1 DEF IInv, LocksAreExclusive
  <2>. QED
    BY <2>1, <2>2, <2>4
<1>14. LocksAreExclusive'
  BY <1>5, <1>8, <1>13 DEF IInv, LocksAreExclusive, HoldsStanding, HoldsRecord
<1>15. LockedGrantIsCurrent'
  <2>1. LockedGrantIsCurrent /\ UNCHANGED standing
    BY <1>3 DEF IInv
  <2>2. \A u \in Sessions : session'[u] # None => session'[u] = session[u]
    BY <1>8
  <2> HIDE DEF r, c
  <2>3. SUFFICES ASSUME NEW u \in Sessions,
                        \/ At(u, {"accept", "decline", "browser"}, "locked")'
                        \/ At(u, {"browser"}, "checked")'
                 PROVE  /\ standing[AgentOf[session[u].request]].usable
                        /\ standing[AgentOf[session[u].request]].version
                             = session[u].version
                        /\ session'[u] = session[u]
    BY <2>1 DEF LockedGrantIsCurrent
  <2>4. session'[u] = session[u]
    BY <2>2, <2>3 DEF At
  <2>. QED
    BY <2>1, <2>3, <2>4 DEF LockedGrantIsCurrent, At
<1>16. CheckedStaysTrue'
  <2>1. SUFFICES ASSUME NEW u \in Sessions, At(u, Executions, "checked")'
                 PROVE  LET q == session'[u].request
                            d == intent'[q].record
                        IN /\ receipt'[q] = None
                           /\ approval'[q].version = session'[u].version
                           /\ record'[d].state = "draft"
                           /\ record'[d].revision = intent'[q].revision
                           /\ record'[d].body = intent'[q].body
                           /\ intent'[q].action = "confirm" => ~record'[d].blocked
    BY DEF CheckedStaysTrue
  <2>2. session'[u] # None /\ session'[u].step = "checked"
    BY <2>1 DEF At
  <2>3. At(u, Executions, "checked")
    BY <2>2, <1>13 DEF At
  <2>4. /\ session'[u] = session[u]
        /\ session[u].request \in Requests
        /\ session[u].request # r
        /\ intent[session[u].request].record \in Records
        /\ intent[session[u].request].record # c
    BY <2>2, <1>13
  <2>5. /\ intent'[session[u].request] = intent[session[u].request]
        /\ approval'[session[u].request] = approval[session[u].request]
        /\ receipt'[session[u].request] = receipt[session[u].request]
    BY <2>4, <1>4, <1>5, <1>6
  <2>6. record'[intent[session[u].request].record] = record[intent[session[u].request].record]
    BY <2>4, <1>7
  <2>7. CheckedStaysTrue
    BY DEF IInv
  <2> HIDE DEF r, c
  <2> DEFINE q == session[u].request
             d == intent[q].record
  <2>8. /\ receipt[q] = None
        /\ approval[q].version = session[u].version
        /\ record[d].state = "draft"
        /\ record[d].revision = intent[q].revision
        /\ record[d].body = intent[q].body
        /\ intent[q].action = "confirm" => ~record[d].blocked
    BY <2>3, <2>7 DEF CheckedStaysTrue
  <2>9. session'[u].request = q /\ intent'[q].record = d
        /\ session'[u].version = session[u].version
    BY <2>4, <2>5
  <2>10. /\ intent'[q] = intent[q]
         /\ approval'[q] = approval[q]
         /\ receipt'[q] = receipt[q]
         /\ record'[d] = record[d]
    BY <2>5, <2>6
  <2> HIDE DEF q, d
  <2>. QED
    BY <2>8, <2>9, <2>10
<1>17. EffectIsAtomic'
  BY <1>4, <1>5, <1>6 DEF IInv, EffectIsAtomic
<1>18. \A q \in Requests : q # r /\ receipt'[q] # None =>
         /\ receipt'[q] = receipt[q]
         /\ intent'[q] = intent[q]
         /\ receipt[q].record = intent[q].record
         /\ receipt[q].record \in Records
         /\ receipt[q].record # c
         /\ record'[receipt[q].record] = record[receipt[q].record]
  <2> TAKE q \in Requests
  <2> HAVE q # r /\ receipt'[q] # None
  <2>1. receipt'[q] = receipt[q] /\ intent'[q] = intent[q] /\ receipt[q] # None
    BY <1>5, <1>6
  <2>2. receipt[q].record = intent[q].record /\ receipt[q].record # c
    BY <2>1, <1>10
  <2>3. receipt[q] \in Receipt
    BY <2>1 DEF IInv, TypeOK
  <2>4. receipt[q].record \in Records
    BY <2>3 DEF Receipt
  <2>. QED
    BY <2>1, <2>2, <2>4, <1>7
<1>19. ExecutedLeavesNoDraft' /\ OneEffectPerRecord'
  <2>1. ExecutedLeavesNoDraft /\ OneEffectPerRecord
    BY DEF IInv
  <2>2. record'[c].state # "draft" /\ intent'[r].record = c /\ receipt'[r].record = c
    BY <1>5, <1>6, <1>7
  <2> HIDE DEF r, c
  <2>. QED
    BY <2>1, <2>2, <1>18 DEF ExecutedLeavesNoDraft, OneEffectPerRecord
<1>20. ConfirmedIsAnnouncedOnce'
  BY <1>7 DEF IInv, ConfirmedIsAnnouncedOnce
<1>. QED
  BY <1>9, <1>11, <1>12, <1>14, <1>15, <1>16, <1>17, <1>19, <1>20 DEF IInv

-----------------------------------------------------------------------------
(* The other writers of a record *)

\* A writer that holds the lock of c, keeps what was announced of it in step
\* with its state and never makes it a draft again.
LEMMA WriteIInv ==
  ASSUME IInv, NEW c \in Records, RecordFree(c),
         NEW new \in Record, record' = [record EXCEPT ![c] = new],
         new.state = "draft" => record[c].state = "draft",
         \/ /\ outbox' = outbox
            /\ new.state \in {"confirmed", "voided"}
                 <=> record[c].state \in {"confirmed", "voided"}
         \/ /\ outbox' = [outbox EXCEPT ![c] = @ + 1]
            /\ record[c].state = "draft" /\ new.state = "confirmed",
         UNCHANGED <<standing, intent, approval, receipt, lapsed, session>>
  PROVE  IInv'
<1>1. /\ record \in [Records -> Record]
      /\ outbox \in [Records -> Nat]
      /\ record' \in [Records -> Record]
      /\ record'[c] = new
      /\ \A d \in Records : d # c => record'[d] = record[d]
  BY DEF IInv, TypeOK
<1>2. outbox' \in [Records -> Nat]
  BY <1>1
<1>3. TypeOK'
  BY <1>1, <1>2 DEF IInv, TypeOK
<1>4. RowsReferToRows' /\ SessionsKnowTheirRows' /\ EffectIsAtomic'
      /\ LocksAreExclusive' /\ LockedGrantIsCurrent'
  BY DEF IInv, RowsReferToRows, SessionsKnowTheirRows, EffectIsAtomic,
         LocksAreExclusive, LockedGrantIsCurrent, HoldsStanding, HoldsRecord, At
<1>5. CheckedStaysTrue'
  <2>1. SUFFICES ASSUME NEW u \in Sessions, At(u, Executions, "checked")
                 PROVE  LET r == session[u].request
                            d == intent[r].record
                        IN d # c /\ d \in Records
    BY <1>1 DEF IInv, CheckedStaysTrue, At
  <2>2. session[u] # None /\ session[u].step = "checked"
    BY <2>1 DEF At
  <2>3. HoldsRecord(u, intent[session[u].request].record)
    BY <2>2 DEF HoldsRecord
  <2>4. intent[session[u].request].record \in Records
    BY <2>2, SessionFacts, ExecutionFacts, IntentFacts
  <2>. QED
    BY <2>3, <2>4 DEF RecordFree
<1>6. \A d \in Records : record'[d].state = "draft" => record[d].state = "draft"
  BY <1>1
<1>7. ExecutedLeavesNoDraft'
  <2>1. \A r \in Requests : receipt[r] # None => intent[r].record \in Records
    BY IntentFacts DEF IInv, RowsReferToRows
  <2>. QED
    BY <1>6, <2>1 DEF IInv, ExecutedLeavesNoDraft
<1>8. OneEffectPerRecord'
  <2>1. \A r \in Requests : receipt[r] # None => receipt[r].record \in Records
    BY DEF IInv, TypeOK, Receipt
  <2>. QED
    BY <1>6, <2>1 DEF IInv, OneEffectPerRecord
<1>9. ConfirmedIsAnnouncedOnce'
  <2>1. \A d \in Records : outbox[d] =
          IF record[d].state \in {"confirmed", "voided"} THEN 1 ELSE 0
    BY DEF IInv, ConfirmedIsAnnouncedOnce
  <2>2. \A d \in Records : d # c => outbox'[d] = outbox[d]
    BY <1>1
  <2>3. outbox'[c] = IF new.state \in {"confirmed", "voided"} THEN 1 ELSE 0
    BY <1>1, <2>1
  <2>. QED
    BY <1>1, <2>1, <2>2, <2>3 DEF ConfirmedIsAnnouncedOnce
<1>. QED
  BY <1>3, <1>4, <1>5, <1>7, <1>8, <1>9 DEF IInv

\* A write without the lock of c leaves alone all that an execution has
\* checked: the references of a record, and the end of a pending change.
LEMMA UnlockedWriteIInv ==
  ASSUME IInv, NEW c \in Records, NEW new \in Record,
         record' = [record EXCEPT ![c] = new],
         new.state = record[c].state, new.revision = record[c].revision,
         new.body = record[c].body, new.blocked => record[c].blocked,
         UNCHANGED <<standing, intent, approval, receipt, outbox, lapsed, session>>
  PROVE  IInv'
<1>1. record \in [Records -> Record]
  BY DEF IInv, TypeOK
<1>2. TypeOK'
  BY <1>1 DEF IInv, TypeOK
<1>3. \A d \in Records : /\ record'[d].state = record[d].state
                         /\ record'[d].revision = record[d].revision
                         /\ record'[d].body = record[d].body
                         /\ record'[d].blocked => record[d].blocked
  BY <1>1
<1>4. RowsReferToRows' /\ SessionsKnowTheirRows' /\ EffectIsAtomic'
      /\ LocksAreExclusive' /\ LockedGrantIsCurrent'
  BY DEF IInv, RowsReferToRows, SessionsKnowTheirRows, EffectIsAtomic,
         LocksAreExclusive, LockedGrantIsCurrent, HoldsStanding, HoldsRecord, At
<1>5. \A u \in Sessions : At(u, Executions, "checked") =>
         intent[session[u].request].record \in Records
  BY SessionFacts, ExecutionFacts, IntentFacts DEF At
<1>6. \A r \in Requests : receipt[r] # None =>
         /\ intent[r].record \in Records
         /\ receipt[r].record \in Records
  BY IntentFacts DEF IInv, RowsReferToRows
<1>7. CheckedStaysTrue'
  BY <1>3, <1>5 DEF IInv, CheckedStaysTrue, At
<1>8. ExecutedLeavesNoDraft' /\ OneEffectPerRecord' /\ ConfirmedIsAnnouncedOnce'
  BY <1>3, <1>6 DEF IInv, ExecutedLeavesNoDraft, OneEffectPerRecord,
                    ConfirmedIsAnnouncedOnce
<1>. QED
  BY <1>2, <1>4, <1>7, <1>8 DEF IInv

LEMMA OwnerIInv ==
  ASSUME IInv, NEW c \in Records, Owner(c)
  PROVE  IInv'
<1> DEFINE old == record[c]
<1>0. /\ record \in [Records -> Record] /\ old \in Record
      /\ old.revision \in Nat /\ old.revision + 1 \in Nat
      /\ old.references \in SUBSET References
  BY DEF IInv, TypeOK, Record
<1>1. ASSUME NEW body \in Bodies, UserPatch(c, body) PROVE IInv'
  <2> DEFINE new == [old EXCEPT !.body = body, !.revision = old.revision + 1]
  <2>1. new \in Record /\ new.state = old.state
    BY <1>0 DEF Record
  <2>2. record' = [record EXCEPT ![c] = new]
    BY <1>0, <1>1 DEF UserPatch
  <2> HIDE DEF new
  <2>. QED
    BY <1>1, <2>1, <2>2, WriteIInv DEF UserPatch
<1>2. CASE UserConfirm(c)
  <2> DEFINE new == [old EXCEPT !.state = "confirmed", !.revision = old.revision + 1]
  <2>1. new \in Record /\ new.state = "confirmed"
    BY <1>0 DEF Record
  <2>2. record' = [record EXCEPT ![c] = new]
    BY <1>0, <1>2 DEF UserConfirm
  <2> HIDE DEF new
  <2>. QED
    BY <1>2, <2>1, <2>2, WriteIInv DEF UserConfirm
<1>3. CASE UserVoid(c)
  <2> DEFINE new == [old EXCEPT !.state = "voided", !.revision = old.revision + 1]
  <2>1. new \in Record /\ new.state = "voided"
    BY <1>0 DEF Record
  <2>2. record' = [record EXCEPT ![c] = new]
    BY <1>0, <1>3 DEF UserVoid
  <2> HIDE DEF new
  <2>. QED
    BY <1>3, <2>1, <2>2, WriteIInv DEF UserVoid
<1>4. CASE UserDelete(c)
  <2> DEFINE new == [old EXCEPT !.state = "deleted"]
  <2>1. new \in Record /\ new.state = "deleted"
    BY <1>0 DEF Record
  <2>2. record' = [record EXCEPT ![c] = new]
    BY <1>0, <1>4 DEF UserDelete
  <2> HIDE DEF new
  <2>. QED
    BY <1>4, <2>1, <2>2, WriteIInv DEF UserDelete
<1>5. CASE ObserveChange(c)
  <2> DEFINE new == [old EXCEPT !.blocked = TRUE]
  <2>1. new \in Record /\ new.state = old.state
    BY <1>0 DEF Record
  <2>2. record' = [record EXCEPT ![c] = new]
    BY <1>0, <1>5 DEF ObserveChange
  <2> HIDE DEF new
  <2>. QED
    BY <1>5, <2>1, <2>2, WriteIInv DEF ObserveChange
<1>6. CASE KeepFacts(c)
  <2> DEFINE new == [old EXCEPT !.blocked = FALSE]
  <2>1. /\ new \in Record /\ new.state = old.state /\ new.revision = old.revision
        /\ new.body = old.body /\ ~new.blocked
    BY <1>0 DEF Record
  <2>2. record' = [record EXCEPT ![c] = new]
    BY <1>0, <1>6 DEF KeepFacts
  <2> HIDE DEF new
  <2>. QED
    BY <1>6, <2>1, <2>2, UnlockedWriteIInv DEF KeepFacts
<1>7. ASSUME NEW body \in Bodies, ApplyCandidate(c, body) PROVE IInv'
  <2> DEFINE new == [old EXCEPT !.blocked = FALSE, !.body = body,
                                !.revision = old.revision + 1]
  <2>1. new \in Record /\ new.state = old.state
    BY <1>0 DEF Record
  <2>2. record' = [record EXCEPT ![c] = new]
    BY <1>0, <1>7 DEF ApplyCandidate
  <2> HIDE DEF new
  <2>. QED
    BY <1>7, <2>1, <2>2, WriteIInv DEF ApplyCandidate
<1>8. ASSUME NEW x \in References, Attach(c, x) \/ Detach(c, x) PROVE IInv'
  <2>1. PICK references \in SUBSET References :
          record' = [record EXCEPT ![c].references = references]
    <3>1. /\ old.references \cup {x} \in SUBSET References
          /\ old.references \ {x} \in SUBSET References
      BY <1>0
    <3>. QED
      BY <1>8, <3>1 DEF Attach, Detach
  <2> DEFINE new == [old EXCEPT !.references = references]
  <2>2. /\ new \in Record /\ new.state = old.state /\ new.revision = old.revision
        /\ new.body = old.body /\ new.blocked = old.blocked
    BY <1>0 DEF Record
  <2>3. record' = [record EXCEPT ![c] = new]
    BY <1>0, <2>1
  <2>4. UNCHANGED <<standing, intent, approval, receipt, outbox, lapsed, session>>
    BY <1>8 DEF Attach, Detach
  <2> HIDE DEF new
  <2>. QED
    BY <2>2, <2>3, <2>4, UnlockedWriteIInv
<1>. QED
  BY <1>1, <1>2, <1>3, <1>4, <1>5, <1>6, <1>7, <1>8 DEF Owner

-----------------------------------------------------------------------------
(* The administrator and the clock *)

LEMMA AdministerIInv ==
  ASSUME IInv, NEW a \in Agents, NEW usable \in BOOLEAN, Administer(a, usable)
  PROVE  IInv'
<1>1. /\ standing' \in [Agents -> Standing]
      /\ \A b \in Agents : b # a => standing'[b] = standing[b]
  <2>1. standing \in [Agents -> Standing] /\ standing[a].version \in Nat
    BY DEF IInv, TypeOK, Standing
  <2>2. [usable |-> usable, version |-> standing[a].version + 1] \in Standing
    BY <2>1 DEF Standing
  <2>. QED
    BY <2>1, <2>2 DEF Administer
<1>2. UNCHANGED <<record, intent, approval, receipt, outbox, lapsed, session>>
  BY DEF Administer
<1>3. TypeOK'
  BY <1>1, <1>2 DEF IInv, TypeOK
<1>4. RowsReferToRows' /\ SessionsKnowTheirRows' /\ LocksAreExclusive'
      /\ ExecutedLeavesNoDraft' /\ EffectIsAtomic' /\ OneEffectPerRecord'
      /\ ConfirmedIsAnnouncedOnce' /\ CheckedStaysTrue'
  BY <1>2 DEF IInv, RowsReferToRows, SessionsKnowTheirRows, LocksAreExclusive,
              HoldsStanding, HoldsRecord, ExecutedLeavesNoDraft, EffectIsAtomic,
              OneEffectPerRecord, ConfirmedIsAnnouncedOnce, CheckedStaysTrue, At
<1>5. LockedGrantIsCurrent'
  <2>1. SUFFICES ASSUME NEW u \in Sessions,
                        \/ At(u, {"accept", "decline", "browser"}, "locked")
                        \/ At(u, {"browser"}, "checked")
                 PROVE  standing'[AgentOf[session[u].request]]
                          = standing[AgentOf[session[u].request]]
    BY <1>2 DEF IInv, LockedGrantIsCurrent, At
  <2>2. HoldsStanding(u, AgentOf[session[u].request]) /\ session[u] # None
    BY <2>1 DEF At, HoldsStanding
  <2>3. AgentOf[session[u].request] \in Agents
    BY <2>2, SessionFacts
  <2>4. AgentOf[session[u].request] # a
    BY <2>2 DEF Administer, StandingFree
  <2>. QED
    BY <1>1, <2>3, <2>4
<1>. QED
  BY <1>3, <1>4, <1>5 DEF IInv

LEMMA LapseIInv ==
  ASSUME IInv, NEW r \in Requests, LapseIntent(r) \/ LapseApproval(r)
  PROVE  IInv'
<1>1. UNCHANGED <<standing, record, intent, approval, receipt, outbox, session>>
  BY DEF LapseIntent, LapseApproval
<1>2. lapsed' \in [intents : SUBSET Requests, approvals : SUBSET Requests]
  BY DEF IInv, TypeOK, LapseIntent, LapseApproval
<1>3. TypeOK'
  BY <1>1, <1>2 DEF IInv, TypeOK
<1>4. RowsReferToRows' /\ SessionsKnowTheirRows' /\ LocksAreExclusive'
      /\ ExecutedLeavesNoDraft' /\ EffectIsAtomic' /\ OneEffectPerRecord'
      /\ ConfirmedIsAnnouncedOnce' /\ CheckedStaysTrue' /\ LockedGrantIsCurrent'
  BY <1>1 DEF IInv, RowsReferToRows, SessionsKnowTheirRows, LocksAreExclusive,
              HoldsStanding, HoldsRecord, ExecutedLeavesNoDraft, EffectIsAtomic,
              OneEffectPerRecord, ConfirmedIsAnnouncedOnce, CheckedStaysTrue, At,
              LockedGrantIsCurrent
<1>. QED
  BY <1>3, <1>4 DEF IInv

-----------------------------------------------------------------------------
(* Every step *)

LEMMA StutterIInv ==
  ASSUME IInv, UNCHANGED vars
  PROVE  IInv'
  BY DEF vars, IInv, TypeOK, RowsReferToRows, SessionsKnowTheirRows,
         LocksAreExclusive, HoldsStanding, HoldsRecord, ExecutedLeavesNoDraft,
         EffectIsAtomic, OneEffectPerRecord, ConfirmedIsAnnouncedOnce,
         CheckedStaysTrue, At, LockedGrantIsCurrent

LEMMA NextIInv == IInv /\ [Next]_vars => IInv'
<1> SUFFICES ASSUME IInv, [Next]_vars PROVE IInv'
  OBVIOUS
<1>1. ASSUME NEW t \in Sessions, NEW r \in Requests, Begin(t, r) PROVE IInv'
  BY <1>1, BeginIInv
<1>2. ASSUME NEW t \in Sessions, Proceed(t) PROVE IInv'
  <2>1. CASE LockStanding(t)
    BY <2>1, LockStandingIInv
  <2>2. CASE ReplayReview(t) \/ AcceptAgain(t) \/ ReplayExecution(t)
    BY <2>2, CloseIInv DEF ReplayReview, AcceptAgain, ReplayExecution
  <2>3. CASE RequestReview(t)
    BY <2>3, RequestReviewIInv
  <2>4. CASE Decline(t) \/ Accept(t)
    BY <2>4, DecideIInv
  <2>5. CASE CheckExecution(t)
    BY <2>5, CheckExecutionIInv
  <2>6. CASE CommitExecution(t)
    BY <2>6, CommitExecutionIInv
  <2>. QED
    BY <1>2, <2>1, <2>2, <2>3, <2>4, <2>5, <2>6 DEF Proceed
<1>3. ASSUME NEW t \in Sessions, Refuse(t) \/ Crash(t) PROVE IInv'
  BY <1>3, CloseIInv DEF Refuse, Crash
<1>4. ASSUME NEW c \in Records, Owner(c) PROVE IInv'
  BY <1>4, OwnerIInv
<1>5. ASSUME NEW a \in Agents, NEW usable \in BOOLEAN, Administer(a, usable)
      PROVE  IInv'
  BY <1>5, AdministerIInv
<1>6. ASSUME NEW r \in Requests, LapseIntent(r) \/ LapseApproval(r) PROVE IInv'
  BY <1>6, LapseIInv
<1>. QED
  BY <1>1, <1>2, <1>3, <1>4, <1>5, <1>6, StutterIInv DEF Next

LEMMA Invariance == Spec => []IInv
  BY InitIInv, NextIInv, PTL DEF Spec

-----------------------------------------------------------------------------
(* The invariants *)

\* Every variable keeps its type, for any number of agents, records, requests
\* and sessions: revisions and versions stay natural numbers, no row is ever
\* half written.
THEOREM TypeCorrect == Spec => []TypeOK
<1>1. IInv => TypeOK
  BY DEF IInv
<1>. QED
  BY <1>1, Invariance, PTL

\* execute() consumes the approval, writes the receipt and closes the intent
\* in one transaction, and nothing else does any of the three.
THEOREM AtomicEffects == Spec => []EffectIsAtomic
<1>1. IInv => EffectIsAtomic
  BY DEF IInv
<1>. QED
  BY <1>1, Invariance, PTL

\* No draft is confirmed or deleted by two approvals, however many requests
\* name it and however their executions interleave.
THEOREM AtMostOneEffect == Spec => []OneEffectPerRecord
<1>1. IInv => OneEffectPerRecord
  BY DEF IInv
<1>. QED
  BY <1>1, Invariance, PTL

\* ledger.record.confirmed is emitted once for a record that was confirmed,
\* by the owner or by an execution, and never for another.
THEOREM AnnouncedOnce == Spec => []ConfirmedIsAnnouncedOnce
<1>1. IInv => ConfirmedIsAnnouncedOnce
  BY DEF IInv
<1>. QED
  BY <1>1, Invariance, PTL

\* An execution from the browser takes effect under the grant as it is then.
THEOREM BrowserAuthority == Spec => []BrowserEffectIsAuthorised
<1>1. IInv => BrowserEffectIsAuthorised
  <2>1. SUFFICES ASSUME IInv, NEW t \in Sessions, At(t, {"browser"}, "checked")
                 PROVE  LET r == session[t].request IN
                        /\ standing[AgentOf[r]].usable
                        /\ standing[AgentOf[r]].version = approval[r].version
    BY DEF BrowserEffectIsAuthorised
  <2>2. /\ standing[AgentOf[session[t].request]].usable
        /\ standing[AgentOf[session[t].request]].version = session[t].version
    BY <2>1 DEF IInv, LockedGrantIsCurrent
  <2>3. At(t, Executions, "checked")
    BY <2>1 DEF At, Executions
  <2>4. approval[session[t].request].version = session[t].version
    BY <2>1, <2>3 DEF IInv, CheckedStaysTrue
  <2>. QED
    BY <2>2, <2>4
<1>. QED
  BY <1>1, Invariance, PTL

-----------------------------------------------------------------------------
(* The action properties *)

\* Only the commit of an execution writes a receipt, and only for its own
\* request.
LEMMA OnlyCommitWritesReceipts ==
  ASSUME IInv, [Next]_vars
  PROVE  UNCHANGED receipt \/ \E t \in Sessions : CommitExecution(t)
  BY DEF Next, vars, Begin, BeginReview, BeginDecision, BeginMachineExecution,
         BeginBrowserExecution, Open, Proceed, LockStanding, ReplayReview,
         RequestReview, Decline, Accept, AcceptAgain, ReplayExecution,
         CheckExecution, Refuse, Crash, Owner, UserPatch, UserConfirm, UserVoid,
         UserDelete, ObserveChange, KeepFacts, ApplyCandidate, Attach, Detach,
         Administer, LapseIntent, LapseApproval

\* Only a confirmation announces a record: the owner's or an execution's.
LEMMA OnlyConfirmationsAnnounce ==
  ASSUME IInv, [Next]_vars
  PROVE  \/ UNCHANGED outbox
         \/ \E t \in Sessions : CommitExecution(t)
         \/ \E c \in Records : UserConfirm(c)
  BY DEF Next, vars, Begin, BeginReview, BeginDecision, BeginMachineExecution,
         BeginBrowserExecution, Open, Proceed, LockStanding, ReplayReview,
         RequestReview, Decline, Accept, AcceptAgain, ReplayExecution,
         CheckExecution, Refuse, Crash, Owner, UserPatch, UserVoid,
         UserDelete, ObserveChange, KeepFacts, ApplyCandidate, Attach, Detach,
         Administer, LapseIntent, LapseApproval

\* Only a review, a decision or an execution writes an intent.
LEMMA OnlyRequestsWriteIntents ==
  ASSUME IInv, [Next]_vars
  PROVE  \/ UNCHANGED intent
         \/ \E t \in Sessions : \/ RequestReview(t) \/ Decline(t) \/ Accept(t)
                              \/ CommitExecution(t)
  BY DEF Next, vars, Begin, BeginReview, BeginDecision, BeginMachineExecution,
         BeginBrowserExecution, Open, Proceed, LockStanding, ReplayReview,
         AcceptAgain, ReplayExecution, CheckExecution, Refuse, Crash, Owner,
         UserPatch, UserConfirm, UserVoid, UserDelete, ObserveChange,
         KeepFacts, ApplyCandidate, Attach, Detach, Administer, LapseIntent,
         LapseApproval

\* What an execution finds at its commit.
LEMMA CommitFacts ==
  ASSUME IInv, NEW t \in Sessions, CommitExecution(t)
  PROVE  LET r == session[t].request
             c == intent[r].record
         IN /\ r \in Requests
            /\ c \in Records
            /\ approval[r] # None
            /\ receipt[r] = None
            /\ record[c].state = "draft"
            /\ record[c].revision = intent[r].revision
            /\ record[c].body = intent[r].body
            /\ intent[r].action = "confirm" => ~record[c].blocked
<1>1. At(t, Executions, "checked") /\ session[t] # None /\ session[t].step = "checked"
  BY DEF CommitExecution, At
<1>2. session[t].request \in Requests
  BY <1>1, SessionFacts
<1>3. intent[session[t].request] # None /\ approval[session[t].request] # None
  BY <1>1, ExecutionFacts
<1>4. intent[session[t].request].record \in Records
  BY <1>2, <1>3, IntentFacts
<1>5. CheckedStaysTrue
  BY DEF IInv
<1>. QED
  BY <1>1, <1>2, <1>3, <1>4, <1>5 DEF CheckedStaysTrue

\* What is carried out is what check_frozen() compared: the draft, at the
\* revision and with the content that were shown, still so at the commit.
THEOREM ShownIsCarriedOut == Spec => EffectIsWhatWasShown
<1> DEFINE Shown(r) == LET i == intent[r] IN
                       /\ record[i.record].state = "draft"
                       /\ record[i.record].revision = i.revision
                       /\ record[i.record].body = i.body
                       /\ approval[r] # None
<1>1. IInv /\ [Next]_vars => \A r \in Requests : receipt'[r] # receipt[r] => Shown(r)
  <2> SUFFICES ASSUME IInv, [Next]_vars, NEW r \in Requests, receipt'[r] # receipt[r]
               PROVE  Shown(r)
    OBVIOUS
  <2>1. PICK t \in Sessions : CommitExecution(t)
    BY OnlyCommitWritesReceipts
  <2>2. r = session[t].request
    BY <2>1 DEF IInv, TypeOK, CommitExecution
  <2>. QED
    BY <2>1, <2>2, CommitFacts
<1>. QED
  BY <1>1, Invariance, PTL DEF Spec, EffectIsWhatWasShown

\* A record is confirmed only while no change of its source is pending, also
\* when the change arrives between the checks and the commit.
THEOREM ReviewedBeforeConfirmed == Spec => ConfirmationIsReviewed
<1>1. IInv /\ [Next]_vars =>
        \A c \in Records : outbox'[c] # outbox[c] => ~record[c].blocked
  <2> SUFFICES ASSUME IInv, [Next]_vars, NEW c \in Records, outbox'[c] # outbox[c]
               PROVE  ~record[c].blocked
    OBVIOUS
  <2>1. CASE \E t \in Sessions : CommitExecution(t)
    <3>1. PICK t \in Sessions : CommitExecution(t)
      BY <2>1
    <3> DEFINE r == session[t].request
               i == intent[r]
    <3>2. i.action = "confirm"
      BY <3>1 DEF CommitExecution
    <3>3. i.record = c
      BY <3>1, <3>2 DEF IInv, TypeOK, CommitExecution
    <3>. QED
      BY <3>1, <3>2, <3>3, CommitFacts
  <2>2. CASE \E d \in Records : UserConfirm(d)
    BY <2>2 DEF IInv, TypeOK, UserConfirm
  <2>. QED
    BY <2>1, <2>2, OnlyConfirmationsAnnounce
<1>. QED
  BY <1>1, Invariance, PTL DEF Spec, ConfirmationIsReviewed

\* No later decision or execution, whatever it read before, changes an
\* executed intent or its receipt.
THEOREM ExecutedStays == Spec => ExecutedIsFinal
<1>1. IInv /\ [Next]_vars =>
        \A r \in Requests : receipt[r] # None =>
           receipt'[r] = receipt[r] /\ intent'[r] = intent[r]
  <2> SUFFICES ASSUME IInv, [Next]_vars, NEW r \in Requests, receipt[r] # None
               PROVE  receipt'[r] = receipt[r] /\ intent'[r] = intent[r]
    OBVIOUS
  <2>1. intent[r] # None
    BY DEF IInv, RowsReferToRows
  <2>2. ASSUME NEW t \in Sessions, CommitExecution(t)
        PROVE  receipt'[r] = receipt[r] /\ intent'[r] = intent[r]
    <3>1. session[t].request # r
      BY <2>2, CommitFacts
    <3>. QED
      BY <2>2, <3>1 DEF IInv, TypeOK, CommitExecution
  <2>3. ASSUME NEW t \in Sessions, RequestReview(t) PROVE intent'[r] = intent[r]
    <3>1. session[t].request # r
      BY <2>1, <2>3 DEF RequestReview
    <3>. QED
      BY <2>3, <3>1 DEF IInv, TypeOK, RequestReview
  <2>4. ASSUME NEW t \in Sessions, Decline(t) \/ Accept(t) PROVE intent'[r] = intent[r]
    <3>1. session[t].request # r
      BY <2>4, FrozenHasNoReceipt DEF Decline, Accept, Decidable
    <3>. QED
      BY <2>4, <3>1 DEF IInv, TypeOK, Decline, Accept
  <2>. QED
    BY <2>2, <2>3, <2>4, OnlyCommitWritesReceipts, OnlyRequestsWriteIntents
<1>. QED
  BY <1>1, Invariance, PTL DEF Spec, ExecutedIsFinal

-----------------------------------------------------------------------------
(* The control plane implements the contract *)

LEMMA ContractInitially == Init => Contract!ContractInit
<1> SUFFICES ASSUME Init PROVE Contract!ContractInit
  OBVIOUS
<1>1. \A c \in Records : record[c].state = "draft" /\ record[c].revision = 1
  <2> TAKE c \in Records
  <2>1. record[c] \in [state : {"draft"}, revision : {1}, body : Bodies,
                       references : {{}}, blocked : {FALSE}]
    BY DEF Init
  <2>. QED
    BY <2>1
<1>2. \A r \in Requests : PhaseOf(r) = "none" /\ TargetOf(r) = None
  BY DEF Init, PhaseOf, TargetOf
<1>. QED
  BY <1>1, <1>2 DEF Contract!ContractInit

\* A step of which the contract sees nothing.
LEMMA HiddenStep ==
  ASSUME \A c \in Records : /\ record'[c].state = record[c].state
                            /\ record'[c].revision = record[c].revision,
         \A r \in Requests : PhaseOf(r)' = PhaseOf(r) /\ TargetOf(r)' = TargetOf(r)
  PROVE  UNCHANGED Contract!contractVars
  BY DEF Contract!contractVars

\* A step that touches the record c only, and the requests not at all.
LEMMA RecordStep ==
  ASSUME IInv, NEW c \in Records, Owner(c)
  PROVE  [Contract!ContractNext]_(Contract!contractVars)
<1>1. UNCHANGED <<intent, approval, receipt>>
  BY DEF Owner, UserPatch, UserConfirm, UserVoid, UserDelete, ObserveChange,
         KeepFacts, ApplyCandidate, Attach, Detach
<1>2. \A r \in Requests : PhaseOf(r)' = PhaseOf(r) /\ TargetOf(r)' = TargetOf(r)
  BY <1>1 DEF PhaseOf, TargetOf
<1>3. record \in [Records -> Record]
  BY DEF IInv, TypeOK
<1>4. record[c] \in Record
  BY <1>3
<1> DEFINE Moves(state, revision) ==
             /\ record'[c].state = state
             /\ record'[c].revision = revision
             /\ \A d \in Records : d # c => record'[d] = record[d]
<1>5. \/ Moves(record[c].state, record[c].revision)
      \/ /\ record[c].state \in {"draft", "confirmed"}
         /\ Moves(record[c].state, record[c].revision + 1)
      \/ record[c].state = "draft" /\ Moves("confirmed", record[c].revision + 1)
      \/ record[c].state = "confirmed" /\ Moves("voided", record[c].revision + 1)
      \/ record[c].state = "draft" /\ Moves("deleted", record[c].revision)
  <2>1. ASSUME NEW body \in Bodies, UserPatch(c, body)
        PROVE  /\ record[c].state \in {"draft", "confirmed"}
               /\ Moves(record[c].state, record[c].revision + 1)
    BY <2>1, <1>3, <1>4 DEF UserPatch, Record
  <2>2. ASSUME UserConfirm(c)
        PROVE  record[c].state = "draft" /\ Moves("confirmed", record[c].revision + 1)
    BY <2>2, <1>3, <1>4 DEF UserConfirm, Record
  <2>3. ASSUME UserVoid(c)
        PROVE  record[c].state = "confirmed" /\ Moves("voided", record[c].revision + 1)
    BY <2>3, <1>3, <1>4 DEF UserVoid, Record
  <2>4. ASSUME UserDelete(c)
        PROVE  record[c].state = "draft" /\ Moves("deleted", record[c].revision)
    BY <2>4, <1>3, <1>4 DEF UserDelete, Record
  <2>5. ASSUME ObserveChange(c)
        PROVE  Moves(record[c].state, record[c].revision)
    BY <2>5, <1>3, <1>4 DEF ObserveChange, Record
  <2>6. ASSUME KeepFacts(c)
        PROVE  Moves(record[c].state, record[c].revision)
    BY <2>6, <1>3, <1>4 DEF KeepFacts, Record
  <2>8. ASSUME NEW body \in Bodies, ApplyCandidate(c, body)
        PROVE  /\ record[c].state \in {"draft", "confirmed"}
               /\ Moves(record[c].state, record[c].revision + 1)
    BY <2>8, <1>3, <1>4 DEF ApplyCandidate, Record
  <2>7. ASSUME NEW x \in References, Attach(c, x) \/ Detach(c, x)
        PROVE  Moves(record[c].state, record[c].revision)
    BY <2>7, <1>3, <1>4 DEF Attach, Detach, Record
  <2>. QED
    BY <2>1, <2>2, <2>3, <2>4, <2>5, <2>6, <2>7, <2>8 DEF Owner
<1>6. CASE Moves(record[c].state, record[c].revision)
  BY <1>2, <1>6, HiddenStep
<1>7. CASE /\ record[c].state \in {"draft", "confirmed"}
           /\ Moves(record[c].state, record[c].revision + 1)
  <2>1. Contract!Edit(c)
    BY <1>2, <1>7 DEF Contract!Edit
  <2>. QED
    BY <2>1 DEF Contract!ContractNext
<1>8. CASE record[c].state = "draft" /\ Moves("confirmed", record[c].revision + 1)
  <2>1. Contract!Advance(c)
    BY <1>2, <1>8 DEF Contract!Advance
  <2>. QED
    BY <2>1 DEF Contract!ContractNext
<1>9. CASE record[c].state = "confirmed" /\ Moves("voided", record[c].revision + 1)
  <2>1. Contract!Advance(c)
    BY <1>2, <1>9 DEF Contract!Advance
  <2>. QED
    BY <2>1 DEF Contract!ContractNext
<1>10. CASE record[c].state = "draft" /\ Moves("deleted", record[c].revision)
  <2>1. Contract!Discard(c)
    BY <1>2, <1>10 DEF Contract!Discard
  <2>. QED
    BY <2>1 DEF Contract!ContractNext
<1>. QED
  BY <1>5, <1>6, <1>7, <1>8, <1>9, <1>10

LEMMA RequestReviewStep ==
  ASSUME IInv, NEW t \in Sessions, RequestReview(t)
  PROVE  Contract!ContractNext
<1>0. PICK r \in Requests : r = session[t].request
  BY SessionFacts DEF RequestReview, At
<1>1. intent[r] = None
  BY <1>0 DEF RequestReview
<1>2. PICK c \in Records, action \in Actions :
        /\ record[c].state = "draft"
        /\ intent' = [intent EXCEPT ![r] =
              [state |-> "awaiting_human", record |-> c,
               revision |-> record[c].revision, action |-> action,
               body |-> record[c].body, references |-> record[c].references]]
  BY <1>0 DEF RequestReview
<1>3. UNCHANGED <<record, approval, receipt>>
  BY DEF RequestReview
<1>4. approval[r] = None /\ receipt[r] = None
  BY <1>1 DEF IInv, RowsReferToRows
<1>5. intent'[r] # None
  <2>1. intent'[r] \in Intent
    BY <1>1, <1>2 DEF IInv, TypeOK, Intent, IntentStates, Record
  <2>. QED
    BY <2>1, NoneAssumption
<1>6. /\ TargetOf(r)' = [record |-> c, revision |-> record[c].revision,
                         action |-> action]
      /\ PhaseOf(r) = "none" /\ PhaseOf(r)' = "asked"
  BY <1>1, <1>2, <1>3, <1>4, <1>5 DEF IInv, TypeOK, TargetOf, PhaseOf
<1>7. \A q \in Requests : q # r => TargetOf(q)' = TargetOf(q) /\ PhaseOf(q)' = PhaseOf(q)
  BY <1>2, <1>3 DEF IInv, TypeOK, TargetOf, PhaseOf
<1>8. Contract!Ask(r)
  BY <1>1, <1>2, <1>3, <1>6, <1>7 DEF Contract!Ask, Actions
<1>. QED
  BY <1>1, <1>8 DEF Contract!ContractNext

\* A rejection is not seen by the contract, an acceptance is its grant.
LEMMA DecisionStep ==
  ASSUME IInv, NEW t \in Sessions, Decline(t) \/ Accept(t)
  PROVE  [Contract!ContractNext]_(Contract!contractVars)
<1>0. PICK r \in Requests : r = session[t].request
  BY SessionFacts DEF Decline, Accept, At
<1>1. session[t] # None /\ session[t].version \in Nat
  BY SessionFacts DEF Decline, Accept, At
<1>2. Frozen(r) /\ UNCHANGED <<record, receipt>>
  BY <1>0 DEF Decline, Accept, Decidable
<1>3. intent[r] # None
  BY <1>0 DEF IInv, SessionsKnowTheirRows, Decline, Accept, At
<1>4. receipt[r] = None
  BY <1>1, <1>2, FrozenHasNoReceipt
<1>5. PICK state \in IntentStates : intent' = [intent EXCEPT ![r].state = state]
  BY <1>0 DEF Decline, Accept, Outcome, IntentStates
<1>6. intent[r] \in Intent
  BY <1>1, <1>3, IntentFacts
<1>7. intent'[r] \in Intent /\ intent'[r] # None
      /\ intent'[r].record = intent[r].record
      /\ intent'[r].revision = intent[r].revision
      /\ intent'[r].action = intent[r].action
  BY <1>1, <1>5, <1>6, NoneAssumption DEF IInv, TypeOK, Intent
<1>8. \A q \in Requests : q # r => intent'[q] = intent[q]
  BY <1>1, <1>5 DEF IInv, TypeOK
<1>9. \A q \in Requests : TargetOf(q)' = TargetOf(q)
  BY <1>3, <1>7, <1>8 DEF TargetOf
<1>10. CASE Decline(t)
  <2>1. UNCHANGED approval
    BY <1>10 DEF Decline
  <2>2. \A q \in Requests : PhaseOf(q)' = PhaseOf(q)
    BY <2>1, <1>2, <1>3, <1>7, <1>8 DEF PhaseOf
  <2>. QED
    BY <2>2, <1>2, <1>9, HiddenStep
<1>11. CASE Accept(t)
  <2>1. approval[r] = None
        /\ approval' = [approval EXCEPT ![r] =
                          [version |-> session[t].version, consumed |-> FALSE]]
    BY <1>0, <1>11 DEF Accept
  <2>2. approval'[r] # None
    <3>1. approval'[r] \in Approval
      BY <2>1, <1>1 DEF IInv, TypeOK, Approval
    <3>. QED
      BY <3>1, NoneAssumption
  <2>3. PhaseOf(r) = "asked" /\ PhaseOf(r)' = "granted"
    BY <2>1, <2>2, <1>2, <1>3, <1>4 DEF PhaseOf
  <2>4. \A q \in Requests : q # r => PhaseOf(q)' = PhaseOf(q)
    BY <2>1, <1>1, <1>2, <1>8 DEF IInv, TypeOK, PhaseOf
  <2>5. TargetOf(r).record = intent[r].record /\ TargetOf(r).revision = intent[r].revision
        /\ intent[r].record \in Records
    BY <1>1, <1>3, IntentFacts DEF TargetOf
  <2>6. Contract!Current(r)
    BY <2>5, <1>1, <1>2 DEF Contract!Current, Frozen
  <2>7. Contract!Grant(r)
    BY <2>3, <2>4, <2>6, <1>1, <1>2, <1>9 DEF Contract!Grant
  <2>. QED
    BY <2>7, <1>1 DEF Contract!ContractNext
<1>. QED
  BY <1>10, <1>11

LEMMA CommitStep ==
  ASSUME IInv, NEW t \in Sessions, CommitExecution(t)
  PROVE  Contract!ContractNext
<1>0. PICK r \in Requests, c \in Records :
        r = session[t].request /\ c = intent[r].record
  BY CommitFacts
<1>1. /\ approval[r] # None /\ receipt[r] = None
      /\ record[c].state = "draft" /\ record[c].revision = intent[r].revision
  BY <1>0, CommitFacts
<1>2. intent[r] # None
  BY <1>1 DEF IInv, RowsReferToRows
<1>3. /\ intent' = [intent EXCEPT ![r].state = "executed"]
      /\ approval' = [approval EXCEPT ![r].consumed = TRUE]
      /\ receipt' = [receipt EXCEPT ![r] = [record |-> c, revision |-> intent[r].revision,
                                            action |-> intent[r].action]]
      /\ IF intent[r].action = "confirm"
         THEN record' = [record EXCEPT ![c].state = "confirmed", ![c].revision = @ + 1]
         ELSE record' = [record EXCEPT ![c].state = "deleted"]
  BY <1>0 DEF CommitExecution, Consume
<1>4. intent[r] \in Intent /\ record[c] \in Record /\ intent[r].revision \in Nat
      /\ intent[r].action \in Actions
  BY <1>0, <1>2, IntentFacts
<1>5. /\ intent'[r] # None
      /\ intent'[r].record = intent[r].record
      /\ intent'[r].revision = intent[r].revision
      /\ intent'[r].action = intent[r].action
      /\ \A q \in Requests : q # r => intent'[q] = intent[q]
  <2>1. intent'[r] \in Intent
    BY <1>1, <1>3, <1>4 DEF IInv, TypeOK, Intent, IntentStates
  <2>. QED
    BY <2>1, <1>1, <1>3, <1>4, NoneAssumption DEF IInv, TypeOK, Intent
<1>6. receipt'[r] # None /\ \A q \in Requests : q # r => receipt'[q] = receipt[q]
  <2>1. receipt'[r] \in Receipt
    BY <1>1, <1>3, <1>4 DEF IInv, TypeOK, Receipt
  <2>. QED
    BY <2>1, <1>1, <1>3, NoneAssumption DEF IInv, TypeOK
<1>7. \A q \in Requests : q # r => approval'[q] = approval[q]
  BY <1>1, <1>3 DEF IInv, TypeOK
<1>8. \A q \in Requests : TargetOf(q)' = TargetOf(q)
  BY <1>2, <1>5 DEF TargetOf
<1>9. /\ PhaseOf(r) = "granted" /\ PhaseOf(r)' = "done"
      /\ \A q \in Requests : q # r => PhaseOf(q)' = PhaseOf(q)
  BY <1>1, <1>2, <1>5, <1>6, <1>7 DEF PhaseOf
<1>10. TargetOf(r).record = c /\ TargetOf(r).revision = intent[r].revision
       /\ TargetOf(r).action = intent[r].action
  BY <1>0, <1>2 DEF TargetOf
<1>11. Contract!Current(r)
  BY <1>1, <1>10 DEF Contract!Current
<1>12. record \in [Records -> Record]
  BY DEF IInv, TypeOK
<1>13. IF intent[r].action = "confirm"
       THEN /\ record'[c].state = "confirmed"
            /\ record'[c].revision = record[c].revision + 1
            /\ \A d \in Records : d # c => record'[d] = record[d]
       ELSE /\ record'[c].state = "deleted"
            /\ record'[c].revision = record[c].revision
            /\ \A d \in Records : d # c => record'[d] = record[d]
  BY <1>1, <1>3, <1>4, <1>12 DEF Record
<1>14. Contract!CarryOut(r)
  BY <1>1, <1>8, <1>9, <1>10, <1>11, <1>13 DEF Contract!CarryOut
<1>. QED
  BY <1>1, <1>14 DEF Contract!ContractNext

LEMMA StepRefines ==
  ASSUME IInv, [Next]_vars
  PROVE  [Contract!ContractNext]_(Contract!contractVars)
<1>1. ASSUME UNCHANGED <<record, intent, approval, receipt>>
      PROVE  UNCHANGED Contract!contractVars
  BY <1>1, HiddenStep DEF PhaseOf, TargetOf
<1>2. \/ UNCHANGED <<record, intent, approval, receipt>>
      \/ \E t \in Sessions : \/ RequestReview(t) \/ Decline(t) \/ Accept(t)
                           \/ CommitExecution(t)
      \/ \E c \in Records : Owner(c)
  BY DEF Next, vars, Begin, BeginReview, BeginDecision, BeginMachineExecution,
         BeginBrowserExecution, Open, Proceed, LockStanding, ReplayReview,
         AcceptAgain, ReplayExecution, CheckExecution, Refuse, Crash, Administer,
         LapseIntent, LapseApproval
<1>. QED
  BY <1>1, <1>2, RequestReviewStep, DecisionStep, CommitStep, RecordStep

\* Every behaviour of the sessions, locks, stale reads and crashes of the
\* control plane is one of the contract: a request is granted and carried out
\* only on the draft, and the revision, it names, and at most once.
THEOREM Refinement == Spec => ImplementsContract
<1>1. Init => Contract!ContractInit
  BY ContractInitially
<1>2. IInv /\ [Next]_vars => [Contract!ContractNext]_(Contract!contractVars)
  BY StepRefines
<1>. QED
  BY <1>1, <1>2, Invariance, PTL DEF Spec, ImplementsContract, Contract!ContractSpec
=============================================================================
