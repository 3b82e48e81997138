---------------------------- MODULE AgentEffects ----------------------------
(***************************************************************************)
(* The agent effects control plane: services/agent_effects.py with its     *)
(* entry points in routers/agent_control.py and machine.py.  An agent asks *)
(* for a review of its own draft, the owner accepts or rejects what is     *)
(* displayed, and the approval is executed once by the browser or by the   *)
(* agent.                                                                  *)
(*                                                                         *)
(* A request is one database session under READ COMMITTED.  It is split at *)
(* the points where other sessions can run: the unlocked reads that open   *)
(* it, the row lock on the agent's standing grant, the row lock on the     *)
(* record, and the commit.  A row read by a session stays in its identity  *)
(* map: a later SELECT ... FOR UPDATE without populate_existing waits for  *)
(* the lock but returns the values read first.  These values are the       *)
(* fields of session[t]; the row itself is in the other variables.         *)
(***************************************************************************)
EXTENDS Naturals, FiniteSets

CONSTANTS
    Agents, Records, Requests, Sessions,
    AuthorOf,     \* the agent whose record.created audit event a draft has
    AgentOf,      \* the agent that owns a request key
    Bodies,       \* what patch_record can change in a record
    References,   \* external references a record can carry
    None,         \* an absent row, a closed session
    MaxRevision,  \* bound on record revisions
    MaxVersion    \* bound on changes of a standing grant

ASSUME ConstantsAssumption ==
    /\ AuthorOf \in [Records -> Agents]
    /\ AgentOf \in [Requests -> Agents]
    /\ MaxRevision \in Nat \ {0}
    /\ MaxVersion \in Nat

VARIABLES
    standing,   \* ledger_agent_grants: active and allow_confirm, updated_at
    record,     \* ledger_records, with the rows that hang on a record
    intent,     \* agent_intents
    approval,   \* agent_approval_grants
    receipt,    \* agent_execution_receipts
    outbox,     \* how often ledger.record.confirmed was emitted
    lapsed,     \* the intents and approvals whose expires_at has passed
    session     \* the open requests

vars == <<standing, record, intent, approval, receipt, outbox, lapsed, session>>

Actions == {"confirm", "reject"}
IntentStates == {"awaiting_human", "approved", "rejected", "executed"}
Operations == {"review", "accept", "decline", "machine", "browser"}

Standing == [usable : BOOLEAN, version : Nat]
Record == [state : {"draft", "confirmed", "voided", "deleted"}, revision : Nat,
           body : Bodies, references : SUBSET References, blocked : BOOLEAN]
Intent == [state : IntentStates, record : Records, revision : Nat, action : Actions,
           body : Bodies, references : SUBSET References]
Approval == [version : Nat, consumed : BOOLEAN]
Receipt == [record : Records, revision : Nat, action : Actions]
Session == [operation : Operations, step : {"read", "locked", "checked"},
            request : Requests, version : Nat,
            state : IntentStates \cup {None}, consumed : BOOLEAN]

ASSUME NoneAssumption ==
    None \notin Intent /\ None \notin Approval /\ None \notin Receipt
    /\ None \notin Session /\ None \notin IntentStates

TypeOK ==
    /\ standing \in [Agents -> Standing]
    /\ record \in [Records -> Record]
    /\ intent \in [Requests -> Intent \cup {None}]
    /\ approval \in [Requests -> Approval \cup {None}]
    /\ receipt \in [Requests -> Receipt \cup {None}]
    /\ outbox \in [Records -> Nat]
    /\ lapsed \in [intents : SUBSET Requests, approvals : SUBSET Requests]
    /\ session \in [Sessions -> Session \cup {None}]

Init ==
    /\ standing = [a \in Agents |-> [usable |-> TRUE, version |-> 0]]
    /\ record \in [Records -> [state : {"draft"}, revision : {1}, body : Bodies,
                               references : {{}}, blocked : {FALSE}]]
    /\ intent = [r \in Requests |-> None]
    /\ approval = [r \in Requests |-> None]
    /\ receipt = [r \in Requests |-> None]
    /\ outbox = [c \in Records |-> 0]
    /\ lapsed = [intents |-> {}, approvals |-> {}]
    /\ session = [t \in Sessions |-> None]

-----------------------------------------------------------------------------
(* Sessions and row locks *)

At(t, operations, step) ==
    /\ session[t] # None
    /\ session[t].operation \in operations
    /\ session[t].step = step

\* standing_grant() takes its row lock before anything else is locked and
\* every path keeps it until the session ends.
HoldsStanding(t, a) ==
    /\ session[t] # None
    /\ session[t].step \in {"locked", "checked"}
    /\ AgentOf[session[t].request] = a

\* Mutant: the execution locks the record before the standing grant.
HoldsRecordEarly(t, c) ==
    /\ session[t] # None
    /\ session[t].operation \in {"machine", "browser"}
    /\ session[t].step \in {"read", "checked"}
    /\ intent[session[t].request].record = c

\* Only an execution is seen between locked_record() and its commit; the
\* other operations do nothing there that another session could observe.
HoldsRecord(t, c) ==
    /\ session[t] # None
    /\ session[t].step = "checked"
    /\ intent[session[t].request].record = c

StandingFree(a) == \A t \in Sessions : ~HoldsStanding(t, a)

\* Mutant: the writers of a record do not wait for its row lock.
RecordUnlocked(c) == TRUE

RecordFree(c) == \A t \in Sessions : ~HoldsRecord(t, c)

Open(t, operation, r, version, state, consumed) ==
    /\ session[t] = None
    /\ session' = [session EXCEPT ![t] =
          [operation |-> operation, step |-> "read", request |-> r,
           version |-> version, state |-> state, consumed |-> consumed]]
    /\ UNCHANGED <<standing, record, intent, approval, receipt, outbox, lapsed>>

Close(t) == session' = [session EXCEPT ![t] = None]

-----------------------------------------------------------------------------
(* Opening a request: the reads made before any lock *)

\* _grant() loads the standing grant; the object stays in the session.
BeginReview(t, r) ==
    /\ standing[AgentOf[r]].usable
    /\ Open(t, "review", r, standing[AgentOf[r]].version, None, FALSE)

\* approve() reads the intent to learn which agent's grant to lock.
BeginDecision(t, r, operation) ==
    /\ operation \in {"accept", "decline"}
    /\ intent[r] # None
    /\ Open(t, operation, r, 0, intent[r].state, FALSE)

BeginMachineExecution(t, r) ==
    /\ standing[AgentOf[r]].usable
    /\ approval[r] # None
    /\ Open(t, "machine", r, standing[AgentOf[r]].version, None, FALSE)

\* The browser route loads the approval and the intent, not the grant.
BeginBrowserExecution(t, r) ==
    /\ approval[r] # None
    /\ intent[r] # None
    /\ Open(t, "browser", r, 0, intent[r].state, approval[r].consumed)

-----------------------------------------------------------------------------
(* standing_grant(): wait for the row, then check what the session knows *)

\* The machine routes already hold a copy that passed the check.
LoadsStanding(t) == session[t].operation \in {"accept", "decline", "browser"}

LockStanding(t) ==
    /\ At(t, Operations, "read")
    /\ LET s == session[t]
           a == AgentOf[s.request]
       IN /\ StandingFree(a)
          /\ LoadsStanding(t) => standing[a].usable
          /\ session' = [session EXCEPT ![t] =
                [s EXCEPT !.step = "locked",
                          !.version = IF LoadsStanding(t) THEN standing[a].version ELSE @,
                          !.state = IF s.operation = "machine"
                                    THEN intent[s.request].state ELSE @,
                          !.consumed = IF s.operation = "machine"
                                       THEN approval[s.request].consumed ELSE @]]
    /\ UNCHANGED <<standing, record, intent, approval, receipt, outbox, lapsed>>

-----------------------------------------------------------------------------
(* check_frozen() *)

\* Mutant: the content is compared, the state and the revision are not.
FrozenContent(r) ==
    LET i == intent[r]
        c == record[i.record]
    IN /\ r \notin lapsed.intents
       /\ c.body = i.body
       /\ c.references = i.references

\* Mutant: it is enough that the record is still a draft.
FrozenDraft(r) == r \notin lapsed.intents /\ record[intent[r].record].state = "draft"

Frozen(r) ==
    LET i == intent[r]
        c == record[i.record]
    IN /\ r \notin lapsed.intents
       /\ c.state = "draft"
       /\ c.revision = i.revision
       /\ c.body = i.body
       /\ c.references = i.references

(* request_review(), once the standing grant is locked *)

\* The same key again: the row made by the first request is returned.
ReplayReview(t) ==
    /\ At(t, {"review"}, "locked")
    /\ intent[session[t].request] # None
    /\ Close(t)
    /\ UNCHANGED <<standing, record, intent, approval, receipt, outbox, lapsed>>

\* record, revision and action come with the request; a revision that is
\* not the current one is refused, so the current one is what is frozen.
RequestReview(t) ==
    /\ At(t, {"review"}, "locked")
    /\ LET r == session[t].request IN
       /\ intent[r] = None
       /\ \E c \in Records, action \in Actions :
             /\ AuthorOf[c] = AgentOf[r]
             /\ RecordFree(c)
             /\ record[c].state = "draft"
             /\ intent' = [intent EXCEPT ![r] =
                   [state |-> "awaiting_human", record |-> c,
                    revision |-> record[c].revision, action |-> action,
                    body |-> record[c].body, references |-> record[c].references]]
    /\ Close(t)
    /\ UNCHANGED <<standing, record, approval, receipt, outbox, lapsed>>

(* approve(): both answers of the human, on the state read at the start *)

\* Mutant: a decision trusts the state it read and skips check_frozen().
DecidableAsRead(t) == session[t].state \notin {"rejected", "executed"}

Decidable(t) ==
    /\ session[t].state \notin {"rejected", "executed"}
    /\ Frozen(session[t].request)

\* Mutant: the answer is stored as it was given.
OutcomeAsGiven(operation) == operation

Outcome(operation) == IF operation = "accept" THEN "approved" ELSE "rejected"

Decline(t) ==
    /\ At(t, {"decline"}, "locked")
    /\ LET r == session[t].request IN
       /\ RecordFree(intent[r].record)
       /\ Decidable(t)
       /\ session[t].state = "awaiting_human"
       /\ intent' = [intent EXCEPT ![r].state = Outcome("decline")]
    /\ Close(t)
    /\ UNCHANGED <<standing, record, approval, receipt, outbox, lapsed>>

Accept(t) ==
    /\ At(t, {"accept"}, "locked")
    /\ LET r == session[t].request IN
       /\ RecordFree(intent[r].record)
       /\ Decidable(t)
       /\ approval[r] = None
       /\ approval' = [approval EXCEPT ![r] =
                          [version |-> session[t].version, consumed |-> FALSE]]
       /\ intent' = [intent EXCEPT ![r].state = Outcome("accept")]
    /\ Close(t)
    /\ UNCHANGED <<standing, record, receipt, outbox, lapsed>>

\* A second acceptance returns the approval of the first.
AcceptAgain(t) ==
    /\ At(t, {"accept"}, "locked")
    /\ LET r == session[t].request IN
       /\ RecordFree(intent[r].record)
       /\ Decidable(t)
       /\ approval[r] # None
       /\ r \notin lapsed.approvals
       /\ approval[r].version = session[t].version
    /\ Close(t)
    /\ UNCHANGED <<standing, record, intent, approval, receipt, outbox, lapsed>>

-----------------------------------------------------------------------------
(* execute() *)

Executions == {"machine", "browser"}

ReplayExecution(t) ==
    /\ At(t, Executions, "locked")
    /\ receipt[session[t].request] # None
    /\ Close(t)
    /\ UNCHANGED <<standing, record, intent, approval, receipt, outbox, lapsed>>

\* Mutant: the capability of the approval is not compared.
ApprovedOnce(t) ==
    LET s == session[t] IN
    /\ ~s.consumed
    /\ s.state = "approved"
    /\ s.request \notin lapsed.approvals

\* The approval as the session knows it, against the grant as it knows it.
Approved(t) ==
    LET s == session[t] IN
    /\ ~s.consumed
    /\ s.state = "approved"
    /\ approval[s.request].version = s.version
    /\ s.request \notin lapsed.approvals

\* _confirm_locked() refuses while a source change or an anomaly is pending,
\* delete_draft() while the draft is referenced.
EffectAllowed(r) ==
    LET c == record[intent[r].record] IN
    IF intent[r].action = "confirm" THEN ~c.blocked ELSE c.references = {}

CheckExecution(t) ==
    /\ At(t, Executions, "locked")
    /\ LET r == session[t].request IN
       /\ receipt[r] = None
       /\ RecordFree(intent[r].record)
       /\ Approved(t)
       /\ Frozen(r)
       /\ EffectAllowed(r)
    /\ session' = [session EXCEPT ![t].step = "checked"]
    /\ UNCHANGED <<standing, record, intent, approval, receipt, outbox, lapsed>>

\* Mutant: the approval is not marked as consumed.
ConsumeForgotten(r) == UNCHANGED approval

Consume(r) == approval' = [approval EXCEPT ![r].consumed = TRUE]

CommitExecution(t) ==
    /\ At(t, Executions, "checked")
    /\ LET r == session[t].request
           c == intent[r].record
       IN /\ Consume(r)
          /\ intent' = [intent EXCEPT ![r].state = "executed"]
          /\ receipt' = [receipt EXCEPT ![r] =
                [record |-> c, revision |-> intent[r].revision,
                 action |-> intent[r].action]]
          /\ IF intent[r].action = "confirm"
             THEN /\ record' = [record EXCEPT ![c].state = "confirmed",
                                              ![c].revision = @ + 1]
                  /\ outbox' = [outbox EXCEPT ![c] = @ + 1]
             ELSE /\ record' = [record EXCEPT ![c].state = "deleted"]
                  /\ UNCHANGED outbox
    /\ Close(t)
    /\ UNCHANGED <<standing, lapsed>>

-----------------------------------------------------------------------------
(* Refusals and crashes: the session ends and its transaction rolls back *)

\* The lock that the session's next step waits for.
Turn(t) ==
    /\ session[t] # None
    /\ LET r == session[t].request IN
       CASE session[t].step = "read" -> StandingFree(AgentOf[r])
         [] session[t].step = "locked" ->
               intent[r] # None => RecordFree(intent[r].record)
         [] OTHER -> TRUE

Proceed(t) ==
    \/ LockStanding(t)
    \/ ReplayReview(t) \/ RequestReview(t)
    \/ Decline(t) \/ Accept(t) \/ AcceptAgain(t)
    \/ ReplayExecution(t) \/ CheckExecution(t) \/ CommitExecution(t)

\* An AppError: a check of the step fails although its lock was granted.
Refuse(t) ==
    /\ Turn(t)
    /\ LET s == session[t]
           r == s.request
       IN \/ s.step = "read" /\ LoadsStanding(t) /\ ~standing[AgentOf[r]].usable
          \/ /\ s.step = "locked" /\ s.operation = "review"
             /\ intent[r] = None => \E c \in Records : RecordFree(c)
          \/ /\ s.step = "locked" /\ s.operation = "decline"
             /\ ~(Decidable(t) /\ s.state = "awaiting_human")
          \/ /\ s.step = "locked" /\ s.operation = "accept"
             /\ \/ ~Decidable(t)
                \/ /\ approval[r] # None
                   /\ \/ r \in lapsed.approvals
                      \/ approval[r].version # s.version
          \/ /\ s.step = "locked" /\ s.operation \in Executions
             /\ receipt[r] = None
             /\ ~(Approved(t) /\ Frozen(r) /\ EffectAllowed(r))
    /\ Close(t)
    /\ UNCHANGED <<standing, record, intent, approval, receipt, outbox, lapsed>>

\* The process or the connection dies before the commit.
Crash(t) ==
    /\ session[t] # None
    /\ Close(t)
    /\ UNCHANGED <<standing, record, intent, approval, receipt, outbox, lapsed>>

-----------------------------------------------------------------------------
(* Everyone else: the owner's ordinary requests, each under the record's   *)
(* row lock from its first statement to its commit; the administrator;     *)
(* the clock.                                                              *)

\* patch_record() and add_money_entry() on a draft or on a confirmed record.
UserPatch(c, body) ==
    /\ RecordFree(c)
    /\ record[c].state \in {"draft", "confirmed"}
    /\ record[c].revision < MaxRevision
    /\ record' = [record EXCEPT ![c].body = body, ![c].revision = @ + 1]
    /\ UNCHANGED <<standing, intent, approval, receipt, outbox, lapsed, session>>

UserConfirm(c) ==
    /\ RecordFree(c)
    /\ record[c].state = "draft"
    /\ ~record[c].blocked
    /\ record' = [record EXCEPT ![c].state = "confirmed", ![c].revision = @ + 1]
    /\ outbox' = [outbox EXCEPT ![c] = @ + 1]
    /\ UNCHANGED <<standing, intent, approval, receipt, lapsed, session>>

UserVoid(c) ==
    /\ RecordFree(c)
    /\ record[c].state = "confirmed"
    /\ record' = [record EXCEPT ![c].state = "voided", ![c].revision = @ + 1]
    /\ UNCHANGED <<standing, intent, approval, receipt, outbox, lapsed, session>>

UserDelete(c) ==
    /\ RecordFree(c)
    /\ record[c].state = "draft"
    /\ record[c].references = {}
    /\ record' = [record EXCEPT ![c].state = "deleted"]
    /\ UNCHANGED <<standing, intent, approval, receipt, outbox, lapsed, session>>

\* append_observation() locks the records of the source first.
ObserveChange(c) ==
    /\ RecordFree(c)
    /\ record[c].state # "deleted"
    /\ ~record[c].blocked
    /\ record' = [record EXCEPT ![c].blocked = TRUE]
    /\ UNCHANGED <<standing, intent, approval, receipt, outbox, lapsed, session>>

\* decide_observation(): keep the facts, which locks the observation only,
\* or apply the candidate to the record under its lock.
KeepFacts(c) ==
    /\ record[c].blocked
    /\ record' = [record EXCEPT ![c].blocked = FALSE]
    /\ UNCHANGED <<standing, intent, approval, receipt, outbox, lapsed, session>>

ApplyCandidate(c, body) ==
    /\ RecordFree(c)
    /\ record[c].blocked
    /\ record[c].state \in {"draft", "confirmed"}
    /\ record[c].revision < MaxRevision
    /\ record' = [record EXCEPT ![c].blocked = FALSE, ![c].body = body,
                                ![c].revision = @ + 1]
    /\ UNCHANGED <<standing, intent, approval, receipt, outbox, lapsed, session>>

\* references_create() and references_delete() take no lock on the record;
\* the read of get_record() and the insert are one step here.
Attach(c, x) ==
    /\ record[c].state # "deleted"
    /\ record' = [record EXCEPT ![c].references = @ \cup {x}]
    /\ UNCHANGED <<standing, intent, approval, receipt, outbox, lapsed, session>>

Detach(c, x) ==
    /\ x \in record[c].references
    /\ record' = [record EXCEPT ![c].references = @ \ {x}]
    /\ UNCHANGED <<standing, intent, approval, receipt, outbox, lapsed, session>>

\* The grant is administered outside the program, by an UPDATE that waits
\* for the row and moves updated_at.
Administer(a, usable) ==
    /\ StandingFree(a)
    /\ standing[a].version < MaxVersion
    /\ standing' = [standing EXCEPT ![a] = [usable |-> usable, version |-> @.version + 1]]
    /\ UNCHANGED <<record, intent, approval, receipt, outbox, lapsed, session>>

LapseIntent(r) ==
    /\ intent[r] # None
    /\ lapsed' = [lapsed EXCEPT !.intents = @ \cup {r}]
    /\ UNCHANGED <<standing, record, intent, approval, receipt, outbox, session>>

LapseApproval(r) ==
    /\ approval[r] # None
    /\ lapsed' = [lapsed EXCEPT !.approvals = @ \cup {r}]
    /\ UNCHANGED <<standing, record, intent, approval, receipt, outbox, session>>

-----------------------------------------------------------------------------

Begin(t, r) ==
    \/ BeginReview(t, r)
    \/ BeginDecision(t, r, "accept") \/ BeginDecision(t, r, "decline")
    \/ BeginMachineExecution(t, r)
    \/ BeginBrowserExecution(t, r)

Owner(c) ==
    \/ \E body \in Bodies : UserPatch(c, body) \/ ApplyCandidate(c, body)
    \/ UserConfirm(c) \/ UserVoid(c) \/ UserDelete(c)
    \/ ObserveChange(c) \/ KeepFacts(c)
    \/ \E x \in References : Attach(c, x) \/ Detach(c, x)

Next ==
    \/ \E t \in Sessions : \E r \in Requests : Begin(t, r)
    \/ \E t \in Sessions : Proceed(t) \/ Refuse(t) \/ Crash(t)
    \/ \E c \in Records : Owner(c)
    \/ \E a \in Agents, usable \in BOOLEAN : Administer(a, usable)
    \/ \E r \in Requests : LapseIntent(r) \/ LapseApproval(r)

Spec == Init /\ [][Next]_vars

\* PostgreSQL queues the waiters of a row lock, so a session that waits for
\* a lock that is released again and again gets it.
FairSpec == Spec /\ \A t \in Sessions : SF_vars(Proceed(t) \/ Refuse(t))

-----------------------------------------------------------------------------
(* Properties *)

\* An approval is consumed, its receipt written and its intent closed in
\* one transaction: no interleaving, crash or replay leaves one without the
\* others (execute(), one db.commit()).
EffectIsAtomic ==
    \A r \in Requests :
        /\ receipt[r] # None <=> approval[r] # None /\ approval[r].consumed
        /\ receipt[r] # None <=> intent[r] # None /\ intent[r].state = "executed"

\* A draft is confirmed or deleted by at most one approval, and it is no
\* longer a draft once that has happened: two approvals of the same draft, or
\* an approval and the owner's own confirmation, cannot both take effect.
OneEffectPerRecord ==
    \A r \in Requests : receipt[r] # None =>
        /\ record[receipt[r].record].state # "draft"
        /\ \A q \in Requests : receipt[q] # None /\ receipt[q].record = receipt[r].record
              => q = r

\* ledger.record.confirmed is emitted exactly once for a record that was
\* confirmed, by whichever path, and never for one that was not.
ConfirmedIsAnnouncedOnce ==
    \A c \in Records :
        outbox[c] = IF record[c].state \in {"confirmed", "voided"} THEN 1 ELSE 0

\* At the moment an effect is carried out the record is still the draft, at
\* the revision and with the content that were shown to the human, although
\* it was checked in an earlier step (check_frozen() before the commit).
EffectIsWhatWasShown ==
    [][\A r \in Requests : receipt'[r] # receipt[r] =>
          LET i == intent[r] IN
          /\ record[i.record].state = "draft"
          /\ record[i.record].revision = i.revision
          /\ record[i.record].body = i.body
          /\ approval[r] # None]_vars

\* No record is confirmed while a change of its source waits for review,
\* also when the change arrives between the checks of an execution and its
\* commit (_confirm_locked() and append_observation() lock the record).
ConfirmationIsReviewed ==
    [][\A c \in Records : outbox'[c] # outbox[c] => ~record[c].blocked]_vars

\* Nothing undoes an executed intent or its receipt: not a decision that
\* read the intent before the execution, not a second execution.
ExecutedIsFinal ==
    [][\A r \in Requests : receipt[r] # None =>
          receipt'[r] = receipt[r] /\ intent'[r] = intent[r]]_vars

\* An execution from the browser, which reads the standing grant only under
\* its lock, takes effect under the grant as it is at that moment: usable,
\* and unchanged since the approval.
BrowserEffectIsAuthorised ==
    \A t \in Sessions : At(t, {"browser"}, "checked") =>
        LET r == session[t].request IN
        /\ standing[AgentOf[r]].usable
        /\ standing[AgentOf[r]].version = approval[r].version

\* The same, for every execution: ADR 0010 and the design note say that the
\* execution checks the current grant again.
EffectIsAuthorised ==
    \A t \in Sessions : At(t, Executions, "checked") =>
        LET r == session[t].request IN
        /\ standing[AgentOf[r]].usable
        /\ standing[AgentOf[r]].version = approval[r].version

\* approve() closes an intent that was rejected, so that it stays rejected,
\* and refuses to turn an approved action into a rejected one.
DecisionIsFinal ==
    [][\A r \in Requests : intent[r] # None =>
          /\ intent[r].state = "rejected" => intent'[r].state = "rejected"
          /\ intent[r].state = "approved" => intent'[r].state # "rejected"]_vars

\* A draft that is referenced is not deleted.
DeletedIsUnreferenced ==
    \A c \in Records : record[c].state = "deleted" => record[c].references = {}

\* Every request ends, whatever the others do: the row locks are taken in
\* one order, standing grant before record.
SessionsEnd ==
    \A t \in Sessions : session[t] # None ~> session[t] = None

-----------------------------------------------------------------------------
(* The inductive invariant behind the safety properties *)

\* The foreign keys: an approval names an intent, a receipt an approval.
RowsReferToRows ==
    \A r \in Requests :
        /\ approval[r] # None => intent[r] # None
        /\ receipt[r] # None => approval[r] # None
        /\ receipt[r] # None => receipt[r].record = intent[r].record

SessionsKnowTheirRows ==
    \A t \in Sessions : session[t] # None =>
        LET s == session[t] IN
        /\ s.operation # "review" => intent[s.request] # None
        /\ s.operation \in Executions => approval[s.request] # None
        /\ s.step = "checked" => s.operation \in Executions

\* Row locks are exclusive.
LocksAreExclusive ==
    \A t, u \in Sessions :
        /\ \A a \in Agents : HoldsStanding(t, a) /\ HoldsStanding(u, a) => t = u
        /\ \A c \in Records : HoldsRecord(t, c) /\ HoldsRecord(u, c) => t = u

\* A grant that was read under its lock is the current one until the end.
LockedGrantIsCurrent ==
    \A t \in Sessions : At(t, {"accept", "decline", "browser"}, "locked")
                        \/ At(t, {"browser"}, "checked") =>
        LET a == AgentOf[session[t].request] IN
        /\ standing[a].usable
        /\ standing[a].version = session[t].version

\* What an execution has checked stays true until it commits.
CheckedStaysTrue ==
    \A t \in Sessions : At(t, Executions, "checked") =>
        LET r == session[t].request
            c == intent[r].record
        IN /\ receipt[r] = None
           /\ approval[r].version = session[t].version
           /\ record[c].state = "draft"
           /\ record[c].revision = intent[r].revision
           /\ record[c].body = intent[r].body
           /\ intent[r].action = "confirm" => ~record[c].blocked

\* An executed request has taken its record out of the drafts.
ExecutedLeavesNoDraft ==
    \A r \in Requests : receipt[r] # None => record[intent[r].record].state # "draft"

IInv ==
    /\ TypeOK
    /\ RowsReferToRows
    /\ SessionsKnowTheirRows
    /\ LocksAreExclusive
    /\ LockedGrantIsCurrent
    /\ CheckedStaysTrue
    /\ ExecutedLeavesNoDraft
    /\ EffectIsAtomic
    /\ OneEffectPerRecord
    /\ ConfirmedIsAnnouncedOnce

-----------------------------------------------------------------------------
(* The control plane implements the contract: a rejection, a lapse and a   *)
(* withdrawn grant only remove behaviours of it.                           *)

PhaseOf(r) ==
    IF receipt[r] # None THEN "done"
    ELSE IF approval[r] # None THEN "granted"
    ELSE IF intent[r] # None THEN "asked"
    ELSE "none"

TargetOf(r) ==
    IF intent[r] = None THEN None
    ELSE [record |-> intent[r].record, revision |-> intent[r].revision,
          action |-> intent[r].action]

Contract == INSTANCE EffectContract WITH
    life <- [c \in Records |-> record[c].state],
    revision <- [c \in Records |-> record[c].revision],
    phase <- [r \in Requests |-> PhaseOf(r)],
    target <- [r \in Requests |-> TargetOf(r)]

\* Every behaviour of the control plane is one of the contract.
ImplementsContract == Contract!ContractSpec
=============================================================================
