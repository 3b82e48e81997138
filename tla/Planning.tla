------------------------------ MODULE Planning ------------------------------
(***************************************************************************)
(* Plans and what comes of them: intents, recurring commitments with their *)
(* reminders and drafts, use cycles and budget targets (api.py), and the   *)
(* worker that advances commitments (worker.py).                           *)
(*                                                                         *)
(* A request is one transaction under READ COMMITTED.  owned_locked()      *)
(* takes the row and reads it again; owned() only reads it, and what it    *)
(* read may be stale at the commit.  The object mapper writes the columns  *)
(* that the handler has changed, no others, and the new revision as the    *)
(* number that was read plus one.  Times are counted in occurrences of a   *)
(* recurrence rule.  Titles, amounts and identities are left out.          *)
(***************************************************************************)
EXTENDS Naturals, FiniteSets

CONSTANTS
    Commitments,
    Intents,
    Cycles,
    Budgets,
    Months,        \* what a budget target is for: month, currency, category
    Records,
    Keys,          \* Idempotency-Key values of commitment_draft()
    Sessions,
    None,
    Last,          \* number of occurrences of a recurrence rule
    Lead,          \* remind_before_seconds
    MaxRevision    \* bound on the edits of a row

ASSUME ConstantsAssumption ==
    /\ Last \in Nat \ {0}
    /\ Lead \in Nat
    /\ MaxRevision \in Nat \ {0}
    /\ None \notin Commitments \cup Intents \cup Cycles \cup Budgets \cup Records
                       \cup Keys \cup Months

VARIABLES
    now,
    commitment,    \* recurring_commitments
    reminder,      \* reminders by their key
    record,        \* ledger_records
    answered,      \* idempotency_records of commitment_draft()
    intent,        \* spending_intents
    cycle,         \* use_cycles
    budget,        \* budget_targets
    session

plans == <<commitment, reminder, answered>>
owned == <<intent, cycle, budget>>
vars == <<now, plans, record, owned, session>>

Due == 1..Last
Revision == 1..MaxRevision
Occurrences == Commitments \X Due

Commitment == [state : {"active", "paused", "ended"}, due : Due,
               last : Records \cup {None}, revision : Revision]
Reminder == [state : {"pending", "read", "handled", "dismissed"},
             record : Records \cup {None}]
Record == [state : {"draft", "confirmed", "voided", "deleted"},
           occurrence : Occurrences \cup {None}, key : Keys \cup {None}]
\* planned stands for all states that are not ended, cancelled also for skipped.
Intent == [state : {"planned", "completed", "cancelled"}, record : Records \cup {None},
           revision : Revision]
Cycle == [state : {"active", "completed", "cancelled"}, source : Records \cup {None},
          ended : BOOLEAN, revision : Revision]
Budget == [month : Months, active : BOOLEAN, revision : Revision]

Session ==
    [kind : {"edit"}, row : Commitments, revision : Revision,
     state : {"active", "paused", "ended"}, due : Due]
        \cup [kind : {"draft"}, row : Commitments, revision : Revision, due : Due,
              key : Keys \cup {None}, seen : Reminder \cup {None}]
        \cup [kind : {"worker"}, rows : SUBSET Commitments]
        \cup [kind : {"complete"}, row : Intents, record : Records]
        \cup [kind : {"start"}, row : Cycles, record : Records]
        \cup [kind : {"cycle"}, row : Cycles, read : Cycle,
              to : {"active", "completed", "cancelled"}]
        \cup [kind : {"budget"}, row : Budgets, read : Budget, to : Budget]

ASSUME NoneAssumption ==
    /\ None \notin Commitment \cup Reminder \cup Record
    /\ None \notin Intent \cup Cycle \cup Budget \cup Session

TypeOK ==
    /\ now \in 0..Last
    /\ commitment \in [Commitments -> Commitment]
    /\ reminder \in [Occurrences -> Reminder \cup {None}]
    /\ record \in [Records -> Record \cup {None}]
    /\ answered \in [Keys -> Records \cup {None}]
    /\ intent \in [Intents -> Intent]
    /\ cycle \in [Cycles -> Cycle \cup {None}]
    /\ budget \in [Budgets -> Budget \cup {None}]
    /\ session \in [Sessions -> Session \cup {None}]

\* As commitments_create() and intents_create() have made them.
NewCommitment == [state |-> "active", due |-> 1, last |-> None, revision |-> 1]
NewIntent == [state |-> "planned", record |-> None, revision |-> 1]

Init ==
    /\ now = 0
    /\ commitment = [m \in Commitments |-> NewCommitment]
    /\ reminder = [o \in Occurrences |-> None]
    /\ record = [c \in Records |-> None]
    /\ answered = [k \in Keys |-> None]
    /\ intent = [i \in Intents |-> NewIntent]
    /\ cycle = [y \in Cycles |-> None]
    /\ budget = [b \in Budgets |-> None]
    /\ session = [t \in Sessions |-> None]

-----------------------------------------------------------------------------
(* Transactions *)

Is(t, kind) == session[t] # None /\ session[t].kind = kind
Running(kind) == {t \in Sessions : Is(t, kind)}

\* Mutant: the rows of commitments are read without a lock.
CommitmentUnlocked(m) == TRUE

CommitmentFree(m) ==
    /\ \A t \in Running("edit") \cup Running("draft") : session[t].row # m
    /\ \A t \in Running("worker") : m \notin session[t].rows
IntentFree(i) == \A t \in Running("complete") : session[t].row # i

\* A completion holds the record that it is about.
RecordFree(c) == \A t \in Running("complete") : session[t].record # c
KeyFree(k) == k = None \/ \A t \in Running("draft") : session[t].key # k

Begin(t, s) == session[t] = None /\ session' = [session EXCEPT ![t] = s]
End(t) == session' = [session EXCEPT ![t] = None]

\* A refusal, a violated constraint or a killed process.
Rollback(t) ==
    /\ session[t] # None
    /\ End(t)
    /\ UNCHANGED <<now, plans, record, owned>>

Tick == now < Last /\ now' = now + 1 /\ UNCHANGED <<plans, record, owned, session>>

Exists(c) == record[c] # None
Draft(o, k) == [state |-> "draft", occurrence |-> o, key |-> k]

-----------------------------------------------------------------------------
(* Records, as far as plans refer to them *)

\* A record of the owner's own, and the draft that intent_draft() makes.
CreateRecord(c) ==
    /\ record[c] = None
    /\ record' = [record EXCEPT ![c] = Draft(None, None)]
    /\ UNCHANGED <<now, plans, owned, session>>

ConfirmRecord(c) ==
    /\ RecordFree(c)
    /\ Exists(c) /\ record[c].state = "draft"
    /\ record' = [record EXCEPT ![c].state = "confirmed"]
    /\ UNCHANGED <<now, plans, owned, session>>

VoidRecord(c) ==
    /\ RecordFree(c)
    /\ Exists(c) /\ record[c].state = "confirmed"
    /\ record' = [record EXCEPT ![c].state = "voided"]
    /\ UNCHANGED <<now, plans, owned, session>>

\* A draft that a plan refers to is not deleted.
DeleteDraft(c) ==
    /\ RecordFree(c)
    /\ Exists(c) /\ record[c].state = "draft"
    /\ \A m \in Commitments : commitment[m].last # c
    /\ record' = [record EXCEPT ![c].state = "deleted"]
    /\ UNCHANGED <<now, plans, owned, session>>

-----------------------------------------------------------------------------
(* Recurring commitments *)

\* commitments_patch(): every field is the owner's to set, the due time too.
EditCommitment(t, m, state, due) ==
    /\ CommitmentFree(m)
    /\ commitment[m].revision < MaxRevision
    /\ Begin(t, [kind |-> "edit", row |-> m, revision |-> commitment[m].revision,
                 state |-> state, due |-> due])
    /\ UNCHANGED <<now, plans, record, owned>>

CommitEdit(t) ==
    /\ Is(t, "edit")
    /\ commitment' = [commitment EXCEPT ![session[t].row] =
          [@ EXCEPT !.state = session[t].state, !.due = session[t].due,
                  !.revision = session[t].revision + 1]]
    /\ End(t)
    /\ UNCHANGED <<now, reminder, answered, record, owned>>

\* Mutant: the reminder of what is due now is taken for every occurrence.
KeyOfDue(m, due) == <<m, commitment[m].due>>

KeyOf(m, due) == <<m, due>>

IsAnswered(k) == k # None /\ answered[k] # None

\* The reminder carries the record of its occurrence.
Drafted(r) == r # None /\ r.record # None

\* commitment_draft() of an occurrence, or of the one that is due.  The
\* commitment is locked, the reminder only read.
OpenDraft(t, m, due, k) ==
    /\ KeyFree(k)
    /\ ~IsAnswered(k)
    /\ CommitmentFree(m)
    /\ commitment[m].revision < MaxRevision
    /\ LET seen == reminder[KeyOf(m, due)] IN
          /\ ~Drafted(seen) => commitment[m].state = "active"
          /\ Begin(t, [kind |-> "draft", row |-> m, revision |-> commitment[m].revision,
                       due |-> due, key |-> k, seen |-> seen])
    /\ UNCHANGED <<now, plans, record, owned>>

\* The occurrence has its record: the key is bound to it.
ReplayDraft(t) ==
    /\ Is(t, "draft")
    /\ Drafted(session[t].seen)
    /\ session[t].key # None
    /\ answered' = [answered EXCEPT ![session[t].key] = session[t].seen.record]
    /\ End(t)
    /\ UNCHANGED <<now, commitment, reminder, record, owned>>

MakeDraft(t, c) ==
    LET s == session[t]
        o == KeyOf(s.row, s.due)
    IN /\ Is(t, "draft")
       /\ ~Drafted(s.seen)
       /\ record[c] = None
       /\ record' = [record EXCEPT ![c] = Draft(<<s.row, s.due>>, s.key)]
       /\ reminder' = [reminder EXCEPT ![o] = [state |-> "handled", record |-> c]]
       /\ commitment' = [commitment EXCEPT ![s.row] =
             [@ EXCEPT !.last = c, !.revision = s.revision + 1]]
       /\ answered' = [k \in Keys |-> IF k = s.key THEN c ELSE answered[k]]
       /\ End(t)
       /\ UNCHANGED <<now, owned>>

\* reminder_action()
MarkReminder(o, state) ==
    /\ reminder[o] # None
    /\ reminder' = [reminder EXCEPT ![o].state = state]
    /\ UNCHANGED <<now, commitment, answered, record, owned, session>>

\* create_due_reminders() takes the active commitments that nobody else holds.
\* In this model all are within the year that it looks ahead.
StartWorker(t) ==
    /\ Running("worker") = {}
    /\ Begin(t, [kind |-> "worker",
                 rows |-> {m \in Commitments : /\ commitment[m].state = "active"
                                               /\ commitment[m].due <= now + Lead
                                               /\ commitment[m].revision < MaxRevision
                                               /\ CommitmentFree(m)}])
    /\ UNCHANGED <<now, plans, record, owned>>

\* Mutant: a reminder that is there already is written again.
ReminderWanted(o) == reminder[o] = None \/ reminder[o].record = None

ReminderMissing(o) == reminder[o] = None

Advanced(m) ==
    IF commitment[m].due = Last
    THEN [commitment[m] EXCEPT !.state = "ended", !.revision = @ + 1]
    ELSE [commitment[m] EXCEPT !.due = @ + 1, !.revision = @ + 1]

CommitWorker(t) ==
    LET rows == session[t].rows
        passed == {<<m, commitment[m].due>> : m \in rows}
    IN /\ Is(t, "worker")
       /\ reminder' = [o \in Occurrences |->
             IF o \in passed /\ ReminderMissing(o)
             THEN [state |-> "pending", record |-> None] ELSE reminder[o]]
       /\ commitment' = [m \in Commitments |-> IF m \in rows THEN Advanced(m) ELSE commitment[m]]
       /\ End(t)
       /\ UNCHANGED <<now, answered, record, owned>>

-----------------------------------------------------------------------------
(* Intents *)

\* intents_patch() locks the one row and reads no other.
PatchIntent(i, state) ==
    /\ IntentFree(i)
    /\ intent[i].state # "completed"
    /\ intent[i].revision < MaxRevision
    /\ intent' = [intent EXCEPT ![i].state = state, ![i].revision = @ + 1]
    /\ UNCHANGED <<now, plans, record, cycle, budget, session>>

\* intent_complete() locks the intent, then the record.
OpenComplete(t, i, c) ==
    /\ IntentFree(i)
    /\ intent[i].state = "planned"
    /\ intent[i].revision < MaxRevision
    /\ RecordFree(c)
    /\ Exists(c) /\ record[c].state = "confirmed"
    /\ Begin(t, [kind |-> "complete", row |-> i, record |-> c])
    /\ UNCHANGED <<now, plans, record, owned>>

CommitComplete(t) ==
    /\ Is(t, "complete")
    /\ LET i == session[t].row IN
          intent' = [intent EXCEPT ![i].state = "completed", ![i].record = session[t].record,
                                   ![i].revision = @ + 1]
    /\ End(t)
    /\ UNCHANGED <<now, plans, record, cycle, budget>>

-----------------------------------------------------------------------------
(* Use cycles and budgets: rows that are read and compared, not locked *)

\* use_cycles_create(): the record must be confirmed when it is read.
OpenCycle(t, y, c) ==
    /\ cycle[y] = None
    /\ \A u \in Running("start") : session[u].row # y
    /\ Exists(c) /\ record[c].state = "confirmed"
    /\ Begin(t, [kind |-> "start", row |-> y, record |-> c])
    /\ UNCHANGED <<now, plans, record, owned>>

CommitCycle(t) ==
    /\ Is(t, "start")
    /\ cycle' = [cycle EXCEPT ![session[t].row] =
          [state |-> "active", source |-> session[t].record, ended |-> FALSE,
           revision |-> 1]]
    /\ End(t)
    /\ UNCHANGED <<now, plans, record, intent, budget>>

\* use_cycles_patch() and use_cycles_transition()
ReadCycle(t, y, to) ==
    /\ cycle[y] # None
    /\ cycle[y].state = "active"
    /\ cycle[y].revision < MaxRevision
    /\ Begin(t, [kind |-> "cycle", row |-> y, read |-> cycle[y], to |-> to])
    /\ UNCHANGED <<now, plans, record, owned>>

\* A patch leaves the state alone, a transition writes it with the end time.
CycleWritten(old, read, to) ==
    IF to = "active" THEN [old EXCEPT !.revision = read.revision + 1]
    ELSE [old EXCEPT !.state = to, !.ended = TRUE, !.revision = read.revision + 1]

WriteCycle(t) ==
    /\ Is(t, "cycle")
    /\ cycle' = [cycle EXCEPT ![session[t].row] =
          CycleWritten(@, session[t].read, session[t].to)]
    /\ End(t)
    /\ UNCHANGED <<now, plans, record, intent, budget>>

Taken(b, month) ==
    \E d \in Budgets \ {b} : budget[d] # None /\ budget[d].active /\ budget[d].month = month

\* The unique index over the active targets.
BudgetAllowed(b, new) == new.active => ~Taken(b, new.month)

CreateBudget(b, month) ==
    LET new == [month |-> month, active |-> TRUE, revision |-> 1] IN
    /\ budget[b] = None
    /\ BudgetAllowed(b, new)
    /\ budget' = [budget EXCEPT ![b] = new]
    /\ UNCHANGED <<now, plans, record, intent, cycle, session>>

ReadBudget(t, b, month, active) ==
    /\ budget[b] # None
    /\ budget[b].revision < MaxRevision
    /\ Begin(t, [kind |-> "budget", row |-> b, read |-> budget[b],
                 to |-> [month |-> month, active |-> active,
                         revision |-> budget[b].revision + 1]])
    /\ UNCHANGED <<now, plans, record, owned>>

\* budgets_patch() changes the columns that differ from what it has read.
BudgetWritten(old, read, to) ==
    [month |-> IF to.month # read.month THEN to.month ELSE old.month,
     active |-> IF to.active # read.active THEN to.active ELSE old.active,
     revision |-> to.revision]

WriteBudget(t) ==
    /\ Is(t, "budget")
    /\ LET b == session[t].row
           new == BudgetWritten(budget[b], session[t].read, session[t].to)
       IN /\ BudgetAllowed(b, new)
          /\ budget' = [budget EXCEPT ![b] = new]
    /\ End(t)
    /\ UNCHANGED <<now, plans, record, intent, cycle>>

-----------------------------------------------------------------------------
Write(t) == \/ CommitEdit(t) \/ ReplayDraft(t) \/ CommitWorker(t) \/ CommitComplete(t)
            \/ CommitCycle(t) \/ WriteCycle(t) \/ WriteBudget(t)
            \/ \E c \in Records : MakeDraft(t, c)

Plan(t) ==
    \/ StartWorker(t)
    \/ \E m \in Commitments, due \in Due, state \in {"active", "paused", "ended"} :
          EditCommitment(t, m, state, due)
    \/ \E m \in Commitments, k \in Keys \cup {None}, due \in Due : OpenDraft(t, m, due, k)
    \/ \E i \in Intents, c \in Records : OpenComplete(t, i, c)
    \/ \E y \in Cycles, c \in Records : OpenCycle(t, y, c)
    \/ \E y \in Cycles, to \in {"active", "completed", "cancelled"} : ReadCycle(t, y, to)
    \/ \E b \in Budgets, month \in Months, active \in BOOLEAN : ReadBudget(t, b, month, active)

Next ==
    \/ Tick
    \/ \E t \in Sessions : Plan(t) \/ Write(t) \/ Rollback(t)
    \/ \E c \in Records :
          CreateRecord(c) \/ ConfirmRecord(c) \/ VoidRecord(c) \/ DeleteDraft(c)
    \/ \E o \in Occurrences, state \in {"read", "dismissed"} : MarkReminder(o, state)
    \/ \E i \in Intents, state \in {"planned", "cancelled"} : PatchIntent(i, state)
    \/ \E b \in Budgets, month \in Months : CreateBudget(b, month)

Spec == Init /\ [][Next]_vars

-----------------------------------------------------------------------------
(* Properties *)

\* An occurrence has one draft at most, that of its reminder, although the
\* worker moves the due time and the owner may move it back; and a request that
\* is sent again with its key makes no second draft, although the due time it
\* stands for has moved on.
DraftsAreMadeOnce ==
    \A c \in Records : Exists(c) =>
        /\ record[c].occurrence # None =>
              /\ reminder[record[c].occurrence] # None
              /\ reminder[record[c].occurrence].record = c
        /\ \A d \in Records :
              (Exists(d) /\ record[c].key # None /\ record[c].key = record[d].key) => c = d

\* A reminder that the owner has seen or dealt with is never shown as new.
ReminderStaysSeen ==
    [][\A o \in Occurrences :
          (reminder[o] # None /\ reminder[o].state # "pending") =>
              reminder'[o].state # "pending"]_vars

\* Of the edits of a commitment, by its owner, a draft or the worker, each has
\* a revision of its own: no edit is written over one that it has not seen.
CommitmentEditsCount ==
    [][\A m \in Commitments : commitment'[m] # commitment[m] =>
          commitment'[m].revision = commitment[m].revision + 1]_vars

-----------------------------------------------------------------------------
(* The inductive invariant *)

\* The commitments that a transaction has locked.
Holds(t) ==
    IF Is(t, "edit") \/ Is(t, "draft") THEN {session[t].row}
    ELSE IF Is(t, "worker") THEN session[t].rows ELSE {}

RowsAreHeldOnce ==
    \A t, u \in Sessions : t # u => Holds(t) \cap Holds(u) = {}

\* What was read behind the lock is still so.
HoldersAreCurrent ==
    \A t \in Sessions :
        /\ \A m \in Holds(t) : commitment[m].revision < MaxRevision
        /\ Is(t, "edit") \/ Is(t, "draft") =>
              session[t].revision = commitment[session[t].row].revision

\* The reminder is only read, and drafts of its occurrence need the lock.
OccurrencesAreOpen ==
    \A t \in Running("draft") :
        ~Drafted(session[t].seen) => ~Drafted(reminder[KeyOf(session[t].row, session[t].due)])

KeysAreHeldOnce ==
    \A t \in Running("draft") : session[t].key # None =>
        /\ answered[session[t].key] = None
        /\ \A u \in Running("draft") : session[u].key = session[t].key => u = t

KeysNameDrafts ==
    \A c \in Records : Exists(c) /\ record[c].key # None => answered[record[c].key] = c

IntentsAreHeldOnce ==
    \A t \in Running("complete") :
        /\ intent[session[t].row].revision < MaxRevision
        /\ \A u \in Running("complete") : session[u].row = session[t].row => u = t

\* Rows that were read are not removed.
RowsStay ==
    /\ \A t \in Running("cycle") :
          cycle[session[t].row] # None /\ session[t].read.revision < MaxRevision
    /\ \A t \in Running("budget") : budget[session[t].row] # None

IInv ==
    /\ TypeOK
    /\ RowsAreHeldOnce
    /\ HoldersAreCurrent
    /\ OccurrencesAreOpen
    /\ KeysAreHeldOnce
    /\ KeysNameDrafts
    /\ IntentsAreHeldOnce
    /\ RowsStay
    /\ DraftsAreMadeOnce

-----------------------------------------------------------------------------
(* What does not hold *)

\* What the interface promises of every edit, said of use cycles: one that was
\* accepted on a revision is not written over an edit accepted on the same.
CycleEditsCount ==
    [][\A y \in Cycles : (cycle[y] # None /\ cycle'[y] # cycle[y]) =>
          cycle'[y].revision = cycle[y].revision + 1]_vars
=============================================================================
