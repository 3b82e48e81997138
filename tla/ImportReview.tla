---------------------------- MODULE ImportReview ----------------------------
(***************************************************************************)
(* From delivered rows to reviewed records: imports_commit() and           *)
(* capture_text() in api.py, services/intake.py, services/sources.py,      *)
(* services/review.py, the confirmations and deletions of                  *)
(* services/records.py and link_evidence() in routers/workbench.py.        *)
(*                                                                         *)
(* A request is one database transaction under READ COMMITTED.  Its first  *)
(* step takes its locks, reads what is committed and computes its writes;  *)
(* Commit makes them visible.  Other sessions run in between, so a read of *)
(* rows that are not locked (the pending items of a batch, the             *)
(* observations of a source) may be stale at the commit.  Requests whose   *)
(* reads are all covered by their locks are one action.                    *)
(*                                                                         *)
(* Record revisions are not modelled: they refuse requests of a stale page *)
(* and every writer compares them under the record's row lock.             *)
(***************************************************************************)
EXTENDS Naturals, FiniteSets

CONSTANTS
    Records,      \* rows that ledger_records may come to hold
    Sources,      \* external ids of delivered evidence
    Evolving,     \* those whose content changes and which the owner links
    Batches,      \* idempotency keys of import batches
    RowsOf,       \* what is delivered under a key; other content is refused
    Reasons,      \* review reasons that a new draft may get
    Sessions,
    None,
    MaxRevision   \* bound on the decisions about one review item

ASSUME ConstantsAssumption ==
    /\ Evolving \subseteq Sources
    /\ RowsOf \in [Batches -> SUBSET Sources]
    /\ Reasons \subseteq {"anomaly", "merchant", "refund"}
    /\ MaxRevision \in Nat \ {0}
    /\ None \notin Records \cup {"import", "intake"}

VARIABLES
    record,        \* ledger_records with the source each was created from
    channel,       \* capture_sources: by which channel a source came
    links,         \* ledger_record_sources
    observation,   \* source_observations: the changed version of a source
    item,          \* import_review_items
    batch,         \* import_batches.state
    session

ledger == <<record, channel, links, observation, item, batch>>
vars == <<ledger, session>>

ItemIds == Batches \X Sources
RecordStates == {"absent", "draft", "confirmed", "voided", "deleted", "merged"}
Live == {"draft", "confirmed", "voided"}
Channels == {"import", "intake"}
BatchStates == {"open", "completed"}

Record == [state : RecordStates, origin : Sources \cup {None}]
Item == [record : Records, state : {"pending", "resolved", "dismissed"},
         reasons : SUBSET (Reasons \cup {"duplicate"}), revision : 1..MaxRevision]

\* f gives some members of D a value in R.
IsPartial(f, D, R) == DOMAIN f \subseteq D /\ \A x \in DOMAIN f : f[x] \in R

IsWrite(w) ==
    /\ IsPartial(w.record, Records, Record)
    /\ IsPartial(w.channel, Sources, Channels)
    /\ w.link \subseteq Records \X Sources
    /\ w.unlink \subseteq Records \X Sources
    /\ w.observation \subseteq Sources
    /\ IsPartial(w.item, ItemIds, Item \cup {None})
    /\ IsPartial(w.batch, Batches, BatchStates)

IsSession(s) ==
    /\ s.kind \in {"import", "observe", "resolve", "confirm", "delete", "merge"}
    /\ s.step \in {"read", "written"}
    /\ s.records \subseteq Records             \* rows locked FOR UPDATE
    /\ s.shares \subseteq Records              \* rows kept by a foreign key check
    /\ s.sources \subseteq Sources             \* capture_sources locked FOR UPDATE
    /\ s.cited \subseteq Sources               \* and kept by a foreign key check
    /\ s.keys \subseteq Batches \cup Sources   \* advisory locks, unique keys
    /\ s.item \in ItemIds \cup {None}          \* what resolve_review() has read
    /\ s.record \in Records \cup {None}
    /\ s.revision \in 0..MaxRevision
    /\ IsWrite(s.write)

TypeOK ==
    /\ record \in [Records -> Record]
    /\ channel \in [Sources -> Channels \cup {None}]
    /\ links \subseteq Records \X Sources
    /\ observation \in [Sources -> {"none", "pending", "kept", "applied"}]
    /\ item \in [ItemIds -> Item \cup {None}]
    /\ batch \in [Batches -> {"absent"} \cup BatchStates]
    /\ DOMAIN session = Sessions
    /\ \A t \in Sessions : session[t] = None \/ IsSession(session[t])

Init ==
    /\ record = [c \in Records |-> [state |-> "absent", origin |-> None]]
    /\ channel = [s \in Sources |-> None]
    /\ links = {}
    /\ observation = [s \in Sources |-> "none"]
    /\ item = [i \in ItemIds |-> None]
    /\ batch = [k \in Batches |-> "absent"]
    /\ session = [t \in Sessions |-> None]

-----------------------------------------------------------------------------
(* Transactions *)

Overlay(new, old) == [x \in DOMAIN old |-> IF x \in DOMAIN new THEN new[x] ELSE old[x]]
Nothing == [x \in {} |-> None]

NoWrite == [record |-> Nothing, channel |-> Nothing, link |-> {}, unlink |-> {},
            observation |-> {}, item |-> Nothing, batch |-> Nothing]

NewSession(kind) ==
    [kind |-> kind, step |-> "written", records |-> {}, shares |-> {}, sources |-> {},
     cited |-> {}, keys |-> {}, item |-> None, record |-> None, revision |-> 0,
     write |-> NoWrite]

OpenSessions == {t \in Sessions : session[t] # None}
RowLocked(c) == \E t \in OpenSessions : c \in session[t].records
RowShared(c) == \E t \in OpenSessions : c \in session[t].shares

\* SELECT ... FOR UPDATE and DELETE wait for both kinds of holders, the
\* foreign key check of an insert only for the first kind.
RowFree(c) == ~RowLocked(c) /\ ~RowShared(c)
SourceFree(s) ==
    \A t \in OpenSessions : s \notin session[t].sources \cup session[t].cited
Citable(s) == \A t \in OpenSessions : s \notin session[t].sources
KeyFree(x) == \A t \in OpenSessions : x \notin session[t].keys

\* Ids of rows that no session has inserted.
Unused == {c \in Records : record[c].state = "absent"} \
              UNION {DOMAIN session[t].write.record : t \in OpenSessions}

Linked(s) == {c \in Records : <<c, s>> \in links}
ItemsOf(c) == {i \in ItemIds : item[i] # None /\ item[i].record = c}
Pending(rows, k) ==
    \E s \in Sources : rows[<<k, s>>] # None /\ rows[<<k, s>>].state = "pending"

\* Mutant: only the items of this request are counted.
SettledByOwn(touched, K) ==
    LET rows == Overlay(touched, [i \in ItemIds |-> None])
        new(k) == IF Pending(rows, k) THEN "open" ELSE "completed"
    IN [k \in {k \in K : batch[k] # new(k)} |-> new(k)]

\* The count of pending items sees the session's own changes and what others
\* have committed; the batch is written when its state differs.
Settled(touched, K) ==
    LET rows == Overlay(touched, item)
        new(k) == IF Pending(rows, k) THEN "open" ELSE "completed"
    IN [k \in {k \in K : batch[k] # new(k)} |-> new(k)]

Start(t, s) == session[t] = None /\ session' = [session EXCEPT ![t] = s] /\ UNCHANGED ledger

Apply(w) ==
    /\ record' = Overlay(w.record, record)
    /\ channel' = Overlay(w.channel, channel)
    /\ links' = (links \ w.unlink) \cup w.link
    /\ observation' = [s \in Sources |-> IF s \in w.observation
                                         THEN "pending" ELSE observation[s]]
    /\ item' = Overlay(w.item, item)
    /\ batch' = Overlay(w.batch, batch)

Commit(t) ==
    /\ session[t] # None
    /\ session[t].step = "written"
    /\ Apply(session[t].write)
    /\ session' = [session EXCEPT ![t] = None]

\* A refusal, a violated constraint, a deadlock victim or a killed process.
Rollback(t) ==
    /\ session[t] # None
    /\ session' = [session EXCEPT ![t] = None]
    /\ UNCHANGED ledger

-----------------------------------------------------------------------------
(* Delivery of evidence *)

\* A draft gets its reasons from the amount history, the refund search and the
\* active rule for its merchant (Merchants).
NewItem(c, R) == [record |-> c, state |-> IF R = {} THEN "resolved" ELSE "pending",
                  reasons |-> R, revision |-> 1]
NewDraft(s) == [state |-> "draft", origin |-> s]

\* Mutant: a source whose draft was deleted is imported again.
KnownIfLinked(S) == {s \in S : Linked(s) # {}}

Known(S) == {s \in S : channel[s] # None}

\* One batch of rows.  A known source gives a duplicate of its first linked
\* record, with an observation if its content changed; a known source without
\* a record refuses the whole import.  A new source gives a draft.
ImportRows(t, k, changed, drafts, R) ==
    LET S == RowsOf[k]
        known == Known(S)
        new == S \ known
        observed == {s \in changed : observation[s] = "none"}
    IN /\ batch[k] = "absent"
       /\ \A x \in S \cup {k} : KeyFree(x)
       /\ \A s \in S : channel[s] # "intake"
       /\ changed \subseteq known \cap Evolving
       /\ \A s \in known :
             /\ Linked(s) # {}
             /\ drafts[s] \in Linked(s)
             /\ Citable(s)
             /\ IF s \in changed THEN SourceFree(s) /\ \A c \in Linked(s) : RowFree(c)
                                 ELSE ~RowLocked(drafts[s])
       /\ \A s \in new : drafts[s] \in Unused
       /\ \A s \in known : R[s] = {}
       /\ \A s1, s2 \in new : drafts[s1] = drafts[s2] => s1 = s2
       /\ LET rows == [i \in {k} \X S |->
                 IF i[2] \in new THEN NewItem(drafts[i[2]], R[i[2]])
                                 ELSE NewItem(drafts[i[2]], {"duplicate"})]
          IN Start(t, [NewSession("import") EXCEPT
                !.records = UNION {Linked(s) : s \in changed},
                !.shares = {drafts[s] : s \in known},
                !.sources = changed,
                !.cited = known,
                !.keys = S \cup {k},
                !.write = [NoWrite EXCEPT
                    !.record = [c \in {drafts[s] : s \in new} |->
                                   NewDraft(CHOOSE s \in new : drafts[s] = c)],
                    !.channel = [s \in new |-> "import"],
                    !.link = {<<drafts[s], s>> : s \in new},
                    !.observation = observed,
                    !.item = rows,
                    !.batch = [x \in {k} |-> IF Pending(Overlay(rows, item), k)
                                             THEN "open" ELSE "completed"]]])

\* A new source with its draft, in a transaction that only inserts rows: the
\* advisory lock or the unique index on the external id keeps out a second one.
Insert(s, c, by) ==
    /\ KeyFree(s)
    /\ channel[s] = None
    /\ c \in Unused
    /\ record' = [record EXCEPT ![c] = NewDraft(s)]
    /\ channel' = [channel EXCEPT ![s] = by]
    /\ links' = links \cup {<<c, s>>}

\* The structured branch of imports_commit(): drafts without review items.  A
\* source that is known is answered with the records it has left.
ImportStructured(s, c) ==
    /\ Insert(s, c, "import")
    /\ UNCHANGED <<observation, item, batch, session>>

\* capture_text() and ingest_structured(): the draft, and the batch that
\* belongs to the source.
Ingest(s, k, c, R) ==
    /\ Insert(s, c, "intake")
    /\ KeyFree(k) /\ batch[k] = "absent" /\ RowsOf[k] = {s}
    /\ item' = [item EXCEPT ![<<k, s>>] = NewItem(c, R)]
    /\ batch' = [batch EXCEPT ![k] = IF R = {} THEN "completed" ELSE "open"]
    /\ UNCHANGED <<observation, session>>

\* observation_create(): append_observation() locks the records linked to the
\* source, then the source itself.
Observe(t, s) ==
    /\ s \in Evolving
    /\ channel[s] # None
    /\ observation[s] = "none"
    /\ \A c \in Linked(s) : RowFree(c)
    /\ Start(t, [NewSession("observe") EXCEPT !.step = "read", !.records = Linked(s),
                    !.write = [NoWrite EXCEPT !.observation = {s}]])

AppendObservation(t) ==
    /\ session[t] # None
    /\ session[t].kind = "observe" /\ session[t].step = "read"
    /\ \A s \in session[t].write.observation :
          SourceFree(s) /\ observation[s] = "none"
    /\ session' = [session EXCEPT ![t] = [NewSession("observe") EXCEPT
          !.records = session[t].records,
          !.sources = session[t].write.observation,
          !.write = [NoWrite EXCEPT !.observation = session[t].write.observation]]]
    /\ UNCHANGED ledger

\* decide_observation(): apply corrects a linked record under its lock, keep
\* locks only the observation.
DecideObservation(s, decision) ==
    /\ observation[s] = "pending"
    /\ decision = "applied" =>
          \E c \in Linked(s) : RowFree(c) /\ record[c].state \in {"draft", "confirmed"}
    /\ observation' = [observation EXCEPT ![s] = decision]
    /\ UNCHANGED <<record, channel, links, item, batch, session>>

-----------------------------------------------------------------------------
(* Review and confirmation *)

AnomalyOpen(rows, c) ==
    \E i \in ItemIds : /\ rows[i] # None
                       /\ rows[i].record = c
                       /\ rows[i].state = "pending"
                       /\ "duplicate" \notin rows[i].reasons
                       /\ "anomaly" \in rows[i].reasons
ObservationOpen(c) == \E s \in Sources : <<c, s>> \in links /\ observation[s] = "pending"

\* _confirm_locked()
Confirmable(rows, c) ==
    /\ record[c].state = "draft"
    /\ ~AnomalyOpen(rows, c)
    /\ ~ObservationOpen(c)

Confirmed(C) == [c \in C |-> [record[c] EXCEPT !.state = "confirmed"]]

\* confirm_record() and confirm_records(): all of them or none.
ConfirmRecords(t, C) ==
    /\ C # {}
    /\ \A c \in C : RowFree(c) /\ Confirmable(item, c)
    /\ Start(t, [NewSession("confirm") EXCEPT
          !.records = C, !.write = [NoWrite EXCEPT !.record = Confirmed(C)]])

\* resolve_review(): the unlocked read tells which record to lock.
ReadReview(t, i) ==
    /\ item[i] # None
    /\ Start(t, [NewSession("resolve") EXCEPT
          !.step = "read", !.item = i, !.record = item[i].record,
          !.revision = item[i].revision])

Current(t) ==
    /\ item[session[t].item] # None
    /\ item[session[t].item].revision = session[t].revision

Decided(old, dismiss, left) ==
    [old EXCEPT !.state = IF dismiss THEN "dismissed" ELSE IF left = {} THEN "resolved" ELSE @,
                !.reasons = IF dismiss THEN @ ELSE left,
                !.revision = @ + 1]

\* The user dismisses the item or settles some of its reasons, and may confirm
\* the record with it.
Decision(t, dismiss, reasons, confirm) ==
    LET i == session[t].item
        c == session[t].record
        old == item[i]
        rows == [x \in {i} |-> Decided(old, dismiss, old.reasons \ reasons)]
    IN /\ session[t] # None
       /\ session[t].kind = "resolve" /\ session[t].step = "read"
       /\ RowFree(c)
       /\ Current(t)
       /\ old.state = "pending"
       /\ old.revision < MaxRevision
       /\ record[c].state \in Live
       /\ record[c].state = "voided" => dismiss
       /\ dismiss => reasons = {} /\ ~confirm
       /\ ~dismiss => "duplicate" \notin old.reasons /\ reasons \subseteq old.reasons
       /\ confirm => Confirmable(Overlay(rows, item), c)
       /\ session' = [session EXCEPT ![t] = [NewSession("resolve") EXCEPT
             !.records = {c},
             !.write = [NoWrite EXCEPT
                 !.record = IF confirm THEN Confirmed({c}) ELSE Nothing,
                 !.item = rows,
                 !.batch = Settled(rows, {i[1]})]]]
       /\ UNCHANGED ledger

-----------------------------------------------------------------------------
(* Withdrawal *)

VoidRecord(c) ==
    /\ RowFree(c)
    /\ record[c].state = "confirmed"
    /\ record' = [record EXCEPT ![c].state = "voided"]
    /\ UNCHANGED <<channel, links, observation, item, batch, session>>

\* delete_draft() takes the review items and the links with it, not the source.
DeleteDraft(t, c) ==
    LET rows == [i \in ItemsOf(c) |-> None] IN
    /\ RowFree(c)
    /\ record[c].state = "draft"
    /\ Start(t, [NewSession("delete") EXCEPT
          !.records = {c},
          !.write = [NoWrite EXCEPT
              !.record = [x \in {c} |-> [record[c] EXCEPT !.state = "deleted"]],
              !.unlink = {l \in links : l[1] = c},
              !.item = rows,
              !.batch = Settled(rows, {i[1] : i \in ItemsOf(c)})]])

\* Mutant: of the merged draft only the link to the named source moves.
MovesNamed(duplicate, s) == {l \in links : l[1] = duplicate /\ l[2] = s}

Moves(duplicate, s) == {l \in links : l[1] = duplicate}

\* link_evidence() without a redundant draft: one more source for a record.
LinkEvidence(t, target, s) ==
    /\ s \in Evolving
    /\ <<target, s>> \notin links
    /\ channel[s] # None
    /\ RowFree(target)
    /\ record[target].state \in {"draft", "confirmed"}
    /\ Citable(s)
    /\ Start(t, [NewSession("merge") EXCEPT
          !.records = {target}, !.cited = {s},
          !.write = [NoWrite EXCEPT !.link = {<<target, s>>}]])

Moved(old, target) ==
    [old EXCEPT !.record = target, !.state = "dismissed",
                !.reasons = @ \cup {"duplicate"}, !.revision = @ + 1]

\* link_evidence() with one: the draft goes, its evidence and its review items
\* go to the target, the items closed.
MergeDraft(t, target, duplicate, s) ==
    LET moved == Moves(duplicate, s)
        rows == [i \in ItemsOf(duplicate) |-> Moved(item[i], target)]
    IN /\ target # duplicate
       /\ RowFree(target) /\ RowFree(duplicate)
       /\ record[target].state \in {"draft", "confirmed"}
       /\ record[duplicate].state = "draft"
       /\ <<duplicate, s>> \in links
       /\ \A l \in moved : Citable(l[2])
       /\ \A i \in ItemsOf(duplicate) : item[i].revision < MaxRevision
       /\ Start(t, [NewSession("merge") EXCEPT
             !.records = {target, duplicate},
             !.cited = {l[2] : l \in moved},
             !.write = [NoWrite EXCEPT
                 !.record = [x \in {duplicate} |-> [record[x] EXCEPT !.state = "merged"]],
                 !.unlink = {l \in links : l[1] = duplicate},
                 !.link = {<<target, l[2]>> : l \in moved},
                 !.item = rows,
                 !.batch = Settled(rows, {i[1] : i \in ItemsOf(duplicate)})]])

-----------------------------------------------------------------------------
Deliver(t) ==
    \/ \E k \in Batches :
          \E changed \in SUBSET RowsOf[k], drafts \in [RowsOf[k] -> Records],
             R \in [RowsOf[k] -> SUBSET Reasons] : ImportRows(t, k, changed, drafts, R)
    \/ \E s \in Sources : Observe(t, s)
    \/ AppendObservation(t)

Review(t) ==
    \/ \E C \in SUBSET Records : ConfirmRecords(t, C)
    \/ \E i \in ItemIds : ReadReview(t, i)
    \/ \E reasons \in SUBSET Reasons, dismiss, confirm \in BOOLEAN :
          Decision(t, dismiss, reasons, confirm)

Withdraw(t) ==
    \/ \E c \in Records : DeleteDraft(t, c)
    \/ \E c \in Records, s \in Sources : LinkEvidence(t, c, s)
    \/ \E c, d \in Records, s \in Sources : MergeDraft(t, c, d, s)

Next ==
    \/ \E t \in Sessions : Deliver(t) \/ Review(t) \/ Withdraw(t) \/ Commit(t) \/ Rollback(t)
    \/ \E s \in Sources, c \in Records : ImportStructured(s, c)
    \/ \E s \in Sources, k \in Batches, c \in Records, R \in SUBSET Reasons :
          Ingest(s, k, c, R)
    \/ \E s \in Sources, decision \in {"kept", "applied"} : DecideObservation(s, decision)
    \/ \E c \in Records : VoidRecord(c)

Spec == Init /\ [][Next]_vars

-----------------------------------------------------------------------------
(* Properties *)

\* A batch that is shown as completed has no item left to decide, although
\* every decision counts items that it has not locked.
CompletedBatchIsDecided ==
    \A k \in Batches : batch[k] = "completed" => ~Pending(item, k)

\* A review item, the record it is about and the source it came from stay
\* tied together through imports, merges and deletions that run side by side.
ItemsAreTied ==
    \A i \in ItemIds : item[i] # None =>
        /\ record[item[i].record].state \in Live
        /\ <<item[i].record, i[2]>> \in links
        /\ batch[i[1]] # "absent"

\* One piece of evidence gives one record ever: a repeated delivery, another
\* batch or a delivery after the draft was deleted creates no second one.
OneFactPerSource ==
    \A c, d \in Records :
        record[c].origin = record[d].origin /\ record[c].origin # None => c = d

\* Evidence leaves the ledger's records only when the owner deletes a draft,
\* never when two drafts are merged.
EvidenceSurvives ==
    [][\A s \in Sources :
          (Linked(s) # {} /\ Linked(s)' = {}) =>
              \E c \in Linked(s) : record'[c].state = "deleted"]_vars

-----------------------------------------------------------------------------
(* The inductive invariant *)

LinksAreLive ==
    \A l \in links : record[l[1]].state \in Live /\ channel[l[2]] # None

OriginsAreKnown ==
    \A c \in Records : record[c].origin # None => channel[record[c].origin] # None

\* What a session has locked and read still fits what has been committed since.
LocksAreLive(s) == \A c \in s.records \cup s.shares : record[c].state \in Live

\* It inserts a record of a source that nobody else inserts, or changes one that
\* it has locked.
RecordsFit(s) ==
    LET w == s.write IN
    \A c \in DOMAIN w.record :
        \/ /\ record[c].state = "absent" /\ w.record[c].state = "draft"
           /\ w.record[c].origin \in DOMAIN w.channel
           /\ \A d \in DOMAIN w.record : w.record[d].origin = w.record[c].origin => d = c
        \/ /\ c \in s.records /\ w.record[c].state # "absent"
           /\ w.record[c].origin = record[c].origin

\* With a draft that it withdraws go all items and all links.
WithdrawalFits(s) ==
    LET w == s.write IN
    \A c \in DOMAIN w.record : w.record[c].state \notin Live =>
        /\ ItemsOf(c) \subseteq DOMAIN w.item
        /\ \A i \in DOMAIN w.item : w.item[i] # None => w.item[i].record # c
        /\ {l \in links : l[1] = c} \subseteq w.unlink
        /\ \A l \in w.link : l[1] # c

ChannelsFit(s) ==
    \A x \in DOMAIN s.write.channel : x \in s.keys /\ channel[x] = None

LinksFit(s) ==
    LET w == s.write IN
    /\ \A l \in w.link : /\ l[1] \in s.records \cup DOMAIN w.record
                         /\ channel[l[2]] # None \/ l[2] \in DOMAIN w.channel
    /\ \A l \in w.unlink : /\ l[1] \in DOMAIN w.record /\ w.record[l[1]].state \notin Live
                           /\ \/ w.record[l[1]].state = "deleted"
                              \/ \E c \in Records : <<c, l[2]>> \in w.link

\* It changes an item whose record it has locked, or inserts those of a batch.
ItemsFit(s) ==
    LET w == s.write IN
    \A i \in DOMAIN w.item :
        /\ \/ /\ item[i] # None /\ item[i].record \in s.records
              /\ w.item[i] # None =>
                    /\ w.item[i].revision > item[i].revision
                    /\ w.item[i].state = "pending" => item[i].state = "pending"
           \/ /\ item[i] = None /\ batch[i[1]] = "absent"
              /\ i[1] \in s.keys /\ i[1] \in DOMAIN w.batch
        /\ w.item[i] # None =>
              /\ w.item[i].record \in s.records \cup s.shares \cup DOMAIN w.record
              /\ <<w.item[i].record, i[2]>> \in (links \ w.unlink) \cup w.link

\* No item that it did not see decided becomes pending again.
BatchesFit(s) ==
    LET w == s.write IN
    \A k \in DOMAIN w.batch :
        /\ batch[k] # "absent" \/ k \in s.keys
        /\ w.batch[k] = "completed" => ~Pending(Overlay(w.item, item), k)

\* An item with the revision that was read is about the record that was read.
ReadFits(s) ==
    s.kind = "resolve" /\ s.step = "read" =>
        /\ s.item \in ItemIds
        /\ batch[s.item[1]] # "absent"
        /\ item[s.item] # None =>
              /\ item[s.item].revision >= s.revision
              /\ item[s.item].revision = s.revision => item[s.item].record = s.record

Fits(s) ==
    /\ LocksAreLive(s) /\ RecordsFit(s) /\ WithdrawalFits(s) /\ ChannelsFit(s)
    /\ LinksFit(s) /\ ItemsFit(s) /\ BatchesFit(s) /\ ReadFits(s)

\* Two sessions hold no lock and insert no record together.
Apart(s, u) ==
    /\ s.records \cap (u.records \cup u.shares) = {}
    /\ s.shares \cap u.records = {}
    /\ s.keys \cap u.keys = {}
    /\ DOMAIN s.write.record \cap DOMAIN u.write.record = {}

SessionsFit ==
    \A t \in OpenSessions :
        /\ Fits(session[t])
        /\ \A u \in OpenSessions \ {t} : Apart(session[t], session[u])

IInv ==
    /\ TypeOK
    /\ LinksAreLive
    /\ OriginsAreKnown
    /\ SessionsFit
    /\ CompletedBatchIsDecided
    /\ ItemsAreTied
    /\ OneFactPerSource

-----------------------------------------------------------------------------
(* What does not hold *)

\* What the code intends: no record is confirmed while a change of one of its
\* sources is undecided.
ObservationIsReviewed ==
    [][\A c \in Records :
          (record[c].state # "confirmed" /\ record'[c].state = "confirmed")
              => ~ObservationOpen(c)]_vars

\* What the code intends: a batch without an item to decide is completed.
OpenBatchHasPending ==
    \A k \in Batches : batch[k] = "open" => Pending(item, k)
=============================================================================
