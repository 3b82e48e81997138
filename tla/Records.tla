------------------------------ MODULE Records ------------------------------
(***************************************************************************)
(* Records and their money entries: services/records.py, with the routes   *)
(* that reach it from the browser (api.py), the machine API (machine.py)   *)
(* and the agent gateway (services/agent_gateway.py).                      *)
(*                                                                         *)
(* A request is a session.  Its first step takes its locks, reads and      *)
(* checks; its commit makes its writes visible.  In between, a row that it *)
(* has only read (the entry that a refund is related to, the references of *)
(* a record) may change.  Requests whose reads are covered by the lock of  *)
(* the record are one action.                                              *)
(*                                                                         *)
(* Grants and scopes are left out: a request that they refuse is no step.  *)
(* So are the conditions on a confirmation that ImportReview models.  Of a *)
(* consumption the model knows only that its record may have no money.     *)
(***************************************************************************)
EXTENDS Naturals

CONSTANTS
    Records,      \* rows that ledger_records may come to hold
    Keys,         \* idempotency keys, each of one client
    Agents, Owner,
    Types, Currencies, Amounts,
    Uris,         \* targets of external references
    Sessions,
    None,
    MaxRevision   \* bound on the revisions of a record

ASSUME ConstantsAssumption ==
    /\ Owner \notin Agents
    /\ Types \subseteq {"expense", "income", "refund"}
    /\ MaxRevision \in Nat \ {0, 1}  \* room for a confirmation

VARIABLES
    record,     \* ledger_records, each with its money_entries row
    answered,   \* idempotency_records of "records.create"
    refs,       \* external_references of records, without a foreign key
    page,       \* what the owner's browser shows
    session     \* open requests

vars == <<record, answered, refs, page, session>>

Entry == {e \in [type : Types, currency : Currencies, amount : Amounts,
                related : Records \cup {None}] : e.related # None => e.type = "refund"}

Record == [state : {"draft", "confirmed", "voided", "deleted"},
           author : Agents \cup {Owner}, key : Keys,
           kind : {"money_only", "consumption"},
           entry : Entry \cup {None}, revision : 1..MaxRevision]

\* The revision is the ETag; `loaded' when the entry has been read as well.
Page == [record : Records, revision : 1..MaxRevision, loaded : BOOLEAN,
         entry : Entry \cup {None}]

Session == [kind : {"create", "edit", "repeat"}, by : Agents \cup {Owner},
            record : Records, row : Record, refs : SUBSET Uris]

ASSUME NoneAssumption ==
    /\ None \notin Records /\ None \notin Entry /\ None \notin Record
    /\ None \notin Page /\ None \notin Session

TypeOK ==
    /\ record \in [Records -> Record \cup {None}]
    /\ answered \in [Keys -> Records \cup {None}]
    /\ refs \in [Records -> SUBSET Uris]
    /\ page \in Page \cup {None}
    /\ session \in [Sessions -> Session \cup {None}]

Init ==
    /\ record = [c \in Records |-> None]
    /\ answered = [k \in Keys |-> None]
    /\ refs = [c \in Records |-> {}]
    /\ page = None
    /\ session = [t \in Sessions |-> None]

-----------------------------------------------------------------------------
(* What a request can see *)

Open(kind) == {t \in Sessions : session[t] # None /\ session[t].kind = kind}

\* SELECT ... FOR UPDATE of the record.
RowFree(c) == \A t \in Open("edit") : session[t].record # c

\* The advisory lock of idempotency_lookup(), held to the end of the request.
KeyFree(k) == \A t \in Open("create") \cup Open("repeat") : session[t].row.key # k

Unused == {c \in Records : record[c] = None} \ {session[t].record : t \in Open("create")}

InState(c, S) == record[c] # None /\ record[c].state \in S
Live(c) == InState(c, {"draft", "confirmed", "voided"})

Relates(row, c) == row # None /\ row.entry # None /\ row.entry.related = c

\* The entry of a new record is flushed at once, and its foreign key keeps the
\* related row.  Edits are taken to flush theirs when they commit, as most do.
Kept(c) == \E t \in Open("create") : Relates(session[t].row, c)

\* What is checked of a related entry, in a read that takes no lock: an expense
\* in the same currency, of a record that is not voided.
RelatedIsValid(e, c) ==
    e.related # None =>
        /\ e.type = "refund"
        /\ e.related # c
        /\ InState(e.related, {"draft", "confirmed"})
        /\ record[e.related].entry # None
        /\ record[e.related].entry.type = "expense"
        /\ record[e.related].entry.currency = e.currency

\* The foreign key on related_entry_id.
RelatedExists(row) ==
    row.entry # None /\ row.entry.related # None => Live(row.entry.related)

\* The trigger on updates of ledger_records, whose rows do not hold the entry.
Transition(old, new) ==
    new # [old EXCEPT !.entry = new.entry] =>
        /\ new.revision = old.revision + 1
        /\ <<old.state, new.state>> \in
              {<<"draft", "draft">>, <<"draft", "confirmed">>, <<"confirmed", "confirmed">>,
               <<"confirmed", "voided">>, <<"voided", "voided">>}

Begin(t, s) ==
    /\ session[t] = None
    /\ session' = [session EXCEPT ![t] = s]
    /\ UNCHANGED <<record, answered, refs, page>>

End(t) == session' = [session EXCEPT ![t] = None]

\* A refusal, a violated constraint or a process that dies.
Rollback(t) ==
    /\ session[t] # None
    /\ End(t)
    /\ UNCHANGED <<record, answered, refs, page>>

-----------------------------------------------------------------------------
(* Creation and its repeats *)

NewRow(a, k, kind, e, confirm) ==
    [state |-> IF confirm THEN "confirmed" ELSE "draft", author |-> a, key |-> k,
     kind |-> kind, entry |-> e, revision |-> IF confirm THEN 2 ELSE 1]

\* create_record().  A taken key is answered with the record it has made.
OpenCreate(t, c, row, R) ==
    /\ KeyFree(row.key)
    /\ answered[row.key] = None
    /\ c \in Unused
    /\ row.entry # None => RelatedIsValid(row.entry, c)
    /\ Begin(t, [kind |-> "create", by |-> row.author, record |-> c, refs |-> R, row |-> row])

\* POST /records: the owner may relate a refund, leave out the money of a
\* consumption, and confirm at once.
RecordsCreate(t, c, k, kind, e, confirm) ==
    /\ e = None => kind = "consumption"
    /\ OpenCreate(t, c, NewRow(Owner, k, kind, e, confirm), {})

Unrelated == {e \in Entry : e.related = None}

\* An agent's draft, from the machine API or the agent gateway.
AgentDraftCreate(t, a, c, k, e) ==
    e \in Unrelated /\ OpenCreate(t, c, NewRow(a, k, "money_only", e, FALSE), {})

\* create_nexus_ledger_review(), with the references of its sources.
NexusReview(t, a, c, k, kind, e, R) ==
    e \in Unrelated /\ OpenCreate(t, c, NewRow(a, k, kind, e, FALSE), R)

\* execute_nexus_ledger_command() makes a confirmed record.
NexusCommand(t, a, c, k, kind, e, R) ==
    e \in Unrelated /\ OpenCreate(t, c, NewRow(a, k, kind, e, TRUE), R)

\* The unique constraint on the key stands behind its lock.
CommitCreate(t) ==
    /\ t \in Open("create")
    /\ LET s == session[t] IN
          /\ answered[s.row.key] = None
          /\ record' = [record EXCEPT ![s.record] = s.row]
          /\ answered' = [answered EXCEPT ![s.row.key] = s.record]
          /\ refs' = [refs EXCEPT ![s.record] = s.refs]
    /\ End(t)
    /\ UNCHANGED page

\* An agent's repeat of a review or a command.  _sync_nexus_source_refs() adds
\* its references when it finds none, and accepts no others when it finds some.
OpenRepeat(t, k, R) ==
    /\ KeyFree(k)
    /\ answered[k] # None
    /\ LET c == answered[k] IN
          /\ Live(c)
          /\ record[c].author \in Agents
          /\ refs[c] = {} /\ R # {}
          /\ Begin(t, [kind |-> "repeat", by |-> record[c].author, record |-> c,
                       refs |-> R, row |-> record[c]])

CommitRepeat(t) ==
    /\ t \in Open("repeat")
    /\ refs' = [refs EXCEPT ![session[t].record] = @ \cup session[t].refs]
    /\ End(t)
    /\ UNCHANGED <<record, answered, page>>

-----------------------------------------------------------------------------
(* What the owner sees *)

\* get_record(): the record in one statement, its entry in the next.
ReadRecord(c) ==
    /\ Live(c)
    /\ page' = [record |-> c, revision |-> record[c].revision, loaded |-> FALSE,
                entry |-> None]
    /\ UNCHANGED <<record, answered, refs, session>>

ReadEntry ==
    /\ page # None /\ ~page.loaded
    /\ page' = [page EXCEPT !.loaded = TRUE, !.entry = record[page.record].entry]
    /\ UNCHANGED <<record, answered, refs, session>>

\* The request carries the revision of the page (If-Match).
Shown(c) ==
    /\ page # None /\ page.loaded
    /\ page.record = c /\ page.revision = record[c].revision

-----------------------------------------------------------------------------
(* Edits, under the record's lock *)

\* Mutant: only the entry's row is written.
EditedUncounted(c, e) == [record[c] EXCEPT !.entry = e]

Edited(c, e) == [record[c] EXCEPT !.entry = e, !.revision = @ + 1]

OpenEdit(t, a, c, e) ==
    /\ RowFree(c)
    /\ record[c].revision < MaxRevision
    /\ Begin(t, [kind |-> "edit", by |-> a, record |-> c, refs |-> {},
                 row |-> Edited(c, e)])

\* patch_record() and add_money_entry(): other fields, a new entry or another
\* one.  A confirmed amount needs a reason, which the owner can give.  A change
\* of other fields that is flushed too early ends in Rollback, by Transition.
Patch(t, c, e) ==
    /\ InState(c, {"draft", "confirmed"})
    /\ Shown(c)
    /\ e # record[c].entry => e # None /\ RelatedIsValid(e, c)
    /\ OpenEdit(t, Owner, c, e)

\* resolve_review() relates a refund to the expense that the owner has chosen,
\* and compares no revision of the record.
LinkRefund(t, c, expense) ==
    /\ InState(c, {"draft", "confirmed"})
    /\ record[c].entry # None /\ record[c].entry.type = "refund"
    /\ LET e == [record[c].entry EXCEPT !.related = expense] IN
          RelatedIsValid(e, c) /\ OpenEdit(t, Owner, c, e)

\* Mutant: the draft's author may go on after the confirmation.
AuthoredRecord(a, c) ==
    /\ InState(c, {"draft", "confirmed"})
    /\ record[c].author = a /\ record[c].kind = "money_only"

\* authored_draft()
AuthoredDraft(a, c) ==
    InState(c, {"draft"}) /\ record[c].author = a /\ record[c].kind = "money_only"

\* draft_command(): an agent that knows the revision changes the amount of its
\* draft, which checks the related entry again, or attaches a source.
Revise(t, a, c, amount) ==
    /\ AuthoredDraft(a, c)
    /\ LET e == [record[c].entry EXCEPT !.amount = amount] IN
          /\ e # record[c].entry => RelatedIsValid(e, c)
          /\ OpenEdit(t, a, c, e)

CommitEdit(t) ==
    /\ t \in Open("edit")
    /\ LET s == session[t] IN
          /\ Transition(record[s.record], s.row)
          /\ RelatedExists(s.row)
          /\ record' = [record EXCEPT ![s.record] = s.row]
    /\ End(t)
    /\ UNCHANGED <<answered, refs, page>>

-----------------------------------------------------------------------------
(* Decisions of the owner about what a page shows *)

ToState(c, state) ==
    /\ record' = [record EXCEPT ![c].state = state, ![c].revision = @ + 1]
    /\ UNCHANGED <<answered, refs, page, session>>

Confirm(c) ==
    /\ InState(c, {"draft"}) /\ RowFree(c) /\ Shown(c)
    /\ record[c].revision < MaxRevision
    /\ ToState(c, "confirmed")

VoidRecord(c) ==
    /\ InState(c, {"confirmed"}) /\ RowFree(c) /\ Shown(c)
    /\ record[c].revision < MaxRevision
    /\ ToState(c, "voided")

\* Mutant: refunds are neither searched for nor kept out by the foreign key.
ReferencedFromOutside(c) == refs[c] # {}

\* A reference or a refund that names the draft; a flushed one makes the
\* deletion wait.
Referenced(c) ==
    refs[c] # {} \/ Kept(c) \/ \E d \in Records : Live(d) /\ Relates(record[d], c)

\* Mutant: the draft goes with its idempotency row.
DeleteWithKey(c) ==
    /\ InState(c, {"draft"}) /\ RowFree(c) /\ Shown(c)
    /\ ~Referenced(c)
    /\ record' = [record EXCEPT ![c].state = "deleted"]
    /\ answered' = [answered EXCEPT ![record[c].key] = None]
    /\ UNCHANGED <<refs, page, session>>

\* delete_draft().  The idempotency row stays, and a repeat finds no record.
DeleteDraft(c) ==
    /\ InState(c, {"draft"}) /\ RowFree(c) /\ Shown(c)
    /\ ~Referenced(c)
    /\ record' = [record EXCEPT ![c].state = "deleted"]
    /\ UNCHANGED <<answered, refs, page, session>>

\* references_create() and references_delete() lock nothing.
Refer(c, uri) ==
    /\ Live(c)
    /\ refs' = [refs EXCEPT ![c] = @ \cup {uri}]
    /\ UNCHANGED <<record, answered, page, session>>

Unrefer(c, uri) ==
    /\ uri \in refs[c]
    /\ refs' = [refs EXCEPT ![c] = @ \ {uri}]
    /\ UNCHANGED <<record, answered, page, session>>

-----------------------------------------------------------------------------
Create(t) ==
    \E c \in Unused, k \in {k \in Keys : answered[k] = None}, e \in Entry \cup {None},
       kind \in {"money_only", "consumption"} :
          \/ \E confirm \in BOOLEAN : RecordsCreate(t, c, k, kind, e, confirm)
          \/ \E a \in Agents : AgentDraftCreate(t, a, c, k, e)
          \/ \E a \in Agents, R \in SUBSET Uris :
                NexusReview(t, a, c, k, kind, e, R) \/ NexusCommand(t, a, c, k, kind, e, R)

Change(t) ==
    \/ \E k \in Keys, R \in SUBSET Uris : OpenRepeat(t, k, R)
    \/ \E c \in Records, e \in Entry \cup {None} : Patch(t, c, e)
    \/ \E c, expense \in Records : LinkRefund(t, c, expense)
    \/ \E a \in Agents, c \in Records, amount \in Amounts : Revise(t, a, c, amount)

Next ==
    \/ \E t \in Sessions :
          Create(t) \/ Change(t) \/ CommitCreate(t) \/ CommitRepeat(t) \/ CommitEdit(t)
              \/ Rollback(t)
    \/ ReadEntry
    \/ \E c \in Records : ReadRecord(c) \/ Confirm(c) \/ VoidRecord(c) \/ DeleteDraft(c)
    \/ \E c \in Records, uri \in Uris : Refer(c, uri) \/ Unrefer(c, uri)

Spec == Init /\ [][Next]_vars

-----------------------------------------------------------------------------
(* Properties *)

\* The revision of a page stands for its content: as long as the record has
\* that revision it has the entry that was shown, although the page was read in
\* two statements and other requests have written in between.  So a decision
\* that passes the revision check is about what the owner has seen.
RevisionNamesContent ==
    page # None /\ page.loaded /\ record[page.record].revision = page.revision
        => record[page.record].entry = page.entry

\* A confirmed fact is changed by the owner only, whatever its author has
\* under way; a voided or deleted one by nobody.
FactsAreTheOwners ==
    [][\A c \in Records :
          (InState(c, {"confirmed", "voided", "deleted"}) /\ record'[c] # record[c]) =>
              /\ record[c].state = "confirmed"
              /\ \/ record'[c].state = "voided" /\ record'[c].entry = record[c].entry
                 \/ \E t \in Open("edit") : /\ session[t].record = c
                                            /\ session[t].by = Owner
                                            /\ session'[t] = None]_vars

\* A refund never names an entry that is gone, though the draft of an expense
\* may be deleted while somebody relates a refund to it.
RelatedEntryStands ==
    \A c \in Records : Live(c) => RelatedExists(record[c])

\* A client that repeats its request, while the first is under way or after
\* the owner has deleted the draft, makes no second record.
OneRecordPerKey ==
    \A c, d \in Records :
        (record[c] # None /\ record[d] # None /\ record[c].key = record[d].key) => c = d

-----------------------------------------------------------------------------
(* The inductive invariant *)

\* Whoever edits a record holds its lock, and so works on the current row.
EditIsCurrent(t) ==
    LET s == session[t] IN
    /\ InState(s.record, IF s.by = Owner THEN {"draft", "confirmed"} ELSE {"draft"})
    /\ s.row = [record[s.record] EXCEPT !.entry = s.row.entry, !.revision = @ + 1]
EditsAreCurrent == \A t \in Open("edit") : EditIsCurrent(t)

RowsAreLockedOnce ==
    \A t, u \in Open("edit") : session[t].record = session[u].record => t = u

\* The rows that are about to be inserted are no one else's.
CreatesAreFresh ==
    \A t \in Open("create") :
        /\ record[session[t].record] = None
        /\ \A u \in Open("create") : session[u].record = session[t].record => u = t

\* An inserted entry already holds the row that it is related to.
CreatesAreKept == \A t \in Open("create") : RelatedExists(session[t].row)

\* A key is answered with the record that was made with it.
KeysNameRecords ==
    /\ \A c \in Records : record[c] # None => answered[record[c].key] = c
    /\ \A k \in Keys : answered[k] # None => record[answered[k]] # None

\* Only a consumption may be without money.
HasMoney(row) == row.kind = "money_only" => row.entry # None
MoneyIsThere ==
    /\ \A c \in Records : record[c] # None => HasMoney(record[c])
    /\ \A t \in Open("create") \cup Open("edit") : HasMoney(session[t].row)

\* A page is of some record, and never ahead of it.
PageIsBehind ==
    page # None => /\ record[page.record] # None
                   /\ page.revision <= record[page.record].revision

IInv ==
    /\ TypeOK
    /\ EditsAreCurrent
    /\ RowsAreLockedOnce
    /\ CreatesAreFresh
    /\ CreatesAreKept
    /\ KeysNameRecords
    /\ MoneyIsThere
    /\ PageIsBehind
    /\ RevisionNamesContent
    /\ RelatedEntryStands

-----------------------------------------------------------------------------
(* What does not hold *)

\* What the code intends: a refund is related to an expense in its currency.
RefundsAnExpense ==
    \A c, d \in Records :
        (Live(c) /\ Relates(record[c], d)) =>
            /\ record[d].entry.type = "expense"
            /\ record[d].entry.currency = record[c].entry.currency

\* What the code intends: refunds form no circle.
NoRefundCircle ==
    \A c, d \in Records :
        ~(Live(c) /\ Live(d) /\ Relates(record[c], d) /\ Relates(record[d], c))

\* What the code intends: a record with references is not deleted.
ReferencesHaveRecords == \A c \in Records : InState(c, {"deleted"}) => refs[c] = {}
=============================================================================
