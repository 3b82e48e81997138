---------------------------- MODULE RecordsProofs ----------------------------
(* What holds of Records for every value of its constants. *)
EXTENDS Records, TLAPS

-----------------------------------------------------------------------------
(* The initial states *)

\* No record, no request and no page.
LEMMA InitIInv == Init => IInv
<1> SUFFICES ASSUME Init PROVE IInv
  OBVIOUS
<1>1. TypeOK
  BY DEF Init, TypeOK
<1>2. \A kind : Open(kind) = {}
  BY DEF Init, Open
<1>3. EditsAreCurrent /\ RowsAreLockedOnce /\ CreatesAreFresh /\ CreatesAreKept
  BY <1>2 DEF EditsAreCurrent, RowsAreLockedOnce, CreatesAreFresh, CreatesAreKept
<1>4. KeysNameRecords /\ MoneyIsThere /\ PageIsBehind
  BY <1>2 DEF Init, KeysNameRecords, MoneyIsThere, PageIsBehind
<1>5. RevisionNamesContent /\ RelatedEntryStands
  BY DEF Init, RevisionNamesContent, RelatedEntryStands, Live, InState
<1>. QED
  BY <1>1, <1>3, <1>4, <1>5 DEF IInv

-----------------------------------------------------------------------------
(* What the type invariant gives *)

\* The fields of a row.
LEMMA RecordFacts ==
  ASSUME NEW row \in Record
  PROVE  /\ row # None
         /\ row.state \in {"draft", "confirmed", "voided", "deleted"}
         /\ row.author \in Agents \cup {Owner}
         /\ row.key \in Keys
         /\ row.kind \in {"money_only", "consumption"}
         /\ row.entry \in Entry \cup {None}
         /\ row.revision \in 1..MaxRevision
         /\ row.revision \in Nat
BY NoneAssumption, ConstantsAssumption DEF Record

\* The fields of an open request.
LEMMA SessionFacts ==
  ASSUME TypeOK, NEW t \in Sessions, session[t] # None
  PROVE  /\ session[t] \in Session
         /\ session[t].record \in Records
         /\ session[t].row \in Record
         /\ session[t].by \in Agents \cup {Owner}
         /\ session[t].refs \subseteq Uris
<1>1. session[t] \in Session
  BY DEF TypeOK
<1>. QED
  BY <1>1 DEF Session

\* The related row of an entry, if it has one.
LEMMA EntryFacts ==
  ASSUME NEW e \in Entry
  PROVE  /\ e # None
         /\ e.related \in Records \cup {None}
         /\ e.type \in Types
         /\ e.related # None => e.type = "refund"
BY NoneAssumption DEF Entry

\* An edited row is the row with its next revision.
LEMMA EditedFacts ==
  ASSUME TypeOK, NEW c \in Records, record[c] # None,
         record[c].revision < MaxRevision, NEW e \in Entry \cup {None}
  PROVE  /\ Edited(c, e) \in Record
         /\ Edited(c, e) = [record[c] EXCEPT !.entry = Edited(c, e).entry, !.revision = @ + 1]
         /\ Edited(c, e).entry = e
         /\ Edited(c, e).kind = record[c].kind
<1>1. record[c] \in Record
  BY DEF TypeOK
<1>2. record[c].revision + 1 \in 1..MaxRevision
  BY <1>1, RecordFacts, ConstantsAssumption
<1>. QED
  BY <1>1, <1>2 DEF Edited, Record

-----------------------------------------------------------------------------
(* Requests begin and end *)

\* A request that begins has what its kind needs to know.
LEMMA BeginIInv ==
  ASSUME IInv, NEW t \in Sessions, NEW s \in Session, Begin(t, s),
         s.kind \in {"create", "edit"} => HasMoney(s.row),
         s.kind = "create" => s.record \in Unused /\ RelatedExists(s.row),
         s.kind = "edit" =>
            /\ RowFree(s.record)
            /\ InState(s.record, IF s.by = Owner THEN {"draft", "confirmed"} ELSE {"draft"})
            /\ s.row = [record[s.record] EXCEPT !.entry = s.row.entry, !.revision = @ + 1]
  PROVE  IInv'
<1>1. /\ session[t] = None /\ s # None
      /\ session' = [session EXCEPT ![t] = s]
      /\ session \in [Sessions -> Session \cup {None}]
      /\ UNCHANGED <<record, answered, refs, page>>
  BY NoneAssumption DEF Begin, IInv, TypeOK
<1>2. /\ session'[t] = s
      /\ \A u \in Sessions \ {t} : session'[u] = session[u]
  BY <1>1
<1>3. ASSUME NEW kind
      PROVE  Open(kind)' = IF s.kind = kind THEN Open(kind) \cup {t} ELSE Open(kind)
  BY <1>1, <1>2 DEF Open
<1>4. \A kind : t \notin Open(kind)
  BY <1>1 DEF Open
<1>5. \A kind : \A u \in Open(kind) : u \in Sessions /\ session'[u] = session[u]
  BY <1>2, <1>4 DEF Open
<1>6. TypeOK'
  BY <1>1 DEF IInv, TypeOK
<1>7. EditsAreCurrent'
  <2> SUFFICES ASSUME NEW u \in Open("edit")'
               PROVE  EditIsCurrent(u)'
    BY DEF EditsAreCurrent
  <2>1. CASE u = t
    BY <1>1, <1>2, <1>3, <1>4, <2>1 DEF EditIsCurrent, InState
  <2>2. CASE u \in Open("edit")
    BY <1>1, <1>5, <2>2 DEF IInv, EditsAreCurrent, EditIsCurrent, InState
  <2>. QED
    BY <1>3, <2>1, <2>2
<1>8. RowsAreLockedOnce'
  BY <1>1, <1>2, <1>3, <1>4, <1>5 DEF IInv, RowsAreLockedOnce, RowFree
<1>9. CreatesAreFresh'
  BY <1>1, <1>2, <1>3, <1>4, <1>5 DEF IInv, CreatesAreFresh, Unused
<1>10. CreatesAreKept'
  BY <1>1, <1>2, <1>3, <1>5 DEF IInv, CreatesAreKept, RelatedExists, Live, InState
<1>11. MoneyIsThere'
  BY <1>1, <1>2, <1>3, <1>5 DEF IInv, MoneyIsThere, HasMoney
<1>12. KeysNameRecords' /\ PageIsBehind' /\ RevisionNamesContent' /\ RelatedEntryStands'
  BY <1>1 DEF IInv, KeysNameRecords, PageIsBehind, RevisionNamesContent, RelatedEntryStands,
     RelatedExists, Live, InState
<1>. QED
  BY <1>6, <1>7, <1>8, <1>9, <1>10, <1>11, <1>12 DEF IInv

\* A request that is over leaves the others alone.
LEMMA EndFacts ==
  ASSUME IInv, NEW t \in Sessions, session[t] # None, End(t)
  PROVE  /\ session' \in [Sessions -> Session \cup {None}]
         /\ \A kind : Open(kind)' = Open(kind) \ {t}
         /\ \A kind : \A u \in Open(kind) \ {t} : session'[u] = session[u]
<1>1. /\ session' = [session EXCEPT ![t] = None]
      /\ session \in [Sessions -> Session \cup {None}]
  BY DEF End, IInv, TypeOK
<1>2. /\ session'[t] = None
      /\ \A u \in Sessions \ {t} : session'[u] = session[u]
  BY <1>1
<1>. QED
  BY <1>1, <1>2 DEF Open

\* A refusal and a crash leave nothing behind; a repeat adds references only.
LEMMA QuietEndIInv ==
  ASSUME IInv, NEW t \in Sessions, session[t] # None, End(t),
         UNCHANGED <<record, answered, page>>, refs' \in [Records -> SUBSET Uris]
  PROVE  IInv'
<1>1. /\ session' \in [Sessions -> Session \cup {None}]
      /\ \A kind : Open(kind)' = Open(kind) \ {t}
      /\ \A kind : \A u \in Open(kind) \ {t} : session'[u] = session[u]
  BY EndFacts
<1>2. TypeOK'
  BY <1>1 DEF IInv, TypeOK
<1>3. EditsAreCurrent'
  BY <1>1 DEF IInv, EditsAreCurrent, EditIsCurrent, InState
<1>4. RowsAreLockedOnce'
  BY <1>1 DEF IInv, RowsAreLockedOnce
<1>5. CreatesAreFresh'
  BY <1>1 DEF IInv, CreatesAreFresh
<1>6. CreatesAreKept'
  BY <1>1 DEF IInv, CreatesAreKept, RelatedExists, Live, InState
<1>7. MoneyIsThere'
  BY <1>1 DEF IInv, MoneyIsThere, HasMoney
<1>8. KeysNameRecords' /\ PageIsBehind' /\ RevisionNamesContent' /\ RelatedEntryStands'
  BY DEF IInv, KeysNameRecords, PageIsBehind, RevisionNamesContent, RelatedEntryStands,
     RelatedExists, Live, InState
<1>. QED
  BY <1>2, <1>3, <1>4, <1>5, <1>6, <1>7, <1>8 DEF IInv

-----------------------------------------------------------------------------
(* Creation and its repeats *)

\* An entry that passed its check is related to a row that is there.
LEMMA CheckedEntryExists ==
  ASSUME NEW row, NEW c \in Records, row.entry # None => RelatedIsValid(row.entry, c)
  PROVE  RelatedExists(row)
BY DEF RelatedIsValid, RelatedExists, Live, InState

\* A new row is a draft, or confirmed in its second revision.
LEMMA NewRowFacts ==
  ASSUME NEW a \in Agents \cup {Owner}, NEW k \in Keys,
         NEW kind \in {"money_only", "consumption"}, NEW e \in Entry \cup {None},
         NEW confirm \in BOOLEAN, e = None => kind = "consumption"
  PROVE  NewRow(a, k, kind, e, confirm) \in Record /\ HasMoney(NewRow(a, k, kind, e, confirm))
BY ConstantsAssumption DEF NewRow, Record, HasMoney

\* Any of the routes that create a record.
LEMMA CreateIInv ==
  ASSUME IInv, NEW t \in Sessions, Create(t)
  PROVE  IInv'
<1>2. ASSUME NEW c \in Unused, NEW row \in Record, NEW R \in SUBSET Uris,
             OpenCreate(t, c, row, R), HasMoney(row)
      PROVE  IInv'
  <2> DEFINE s == [kind |-> "create", by |-> row.author, record |-> c, refs |-> R, row |-> row]
  <2>1. s \in Session
    BY RecordFacts DEF Session, Unused
  <2>2. Begin(t, s) /\ s.kind = "create" /\ s.record \in Unused
    BY <1>2 DEF OpenCreate
  <2>3. c \in Records
    BY DEF Unused
  <2>4. RelatedExists(s.row) /\ HasMoney(s.row)
    BY <1>2, <2>3, CheckedEntryExists DEF OpenCreate
  <2> HIDE DEF s
  <2>. QED
    BY <2>1, <2>2, <2>4, BeginIInv
<1>3. PICK c \in Unused, k \in Keys, e \in Entry \cup {None},
           kind \in {"money_only", "consumption"} :
          \/ \E confirm \in BOOLEAN : RecordsCreate(t, c, k, kind, e, confirm)
          \/ \E a \in Agents : AgentDraftCreate(t, a, c, k, e)
          \/ \E a \in Agents, R \in SUBSET Uris :
                NexusReview(t, a, c, k, kind, e, R) \/ NexusCommand(t, a, c, k, kind, e, R)
  BY DEF Create
<1>4. ASSUME NEW confirm \in BOOLEAN, RecordsCreate(t, c, k, kind, e, confirm)
      PROVE  IInv'
  BY <1>2, <1>4, NewRowFacts DEF RecordsCreate
<1>5. e \in Unrelated => e # None
  BY EntryFacts DEF Unrelated
<1>6. ASSUME NEW a \in Agents, AgentDraftCreate(t, a, c, k, e)
      PROVE  IInv'
  <2> DEFINE row == NewRow(a, k, "money_only", e, FALSE)
  <2>1. OpenCreate(t, c, row, {}) /\ e # None
    BY <1>5, <1>6 DEF AgentDraftCreate
  <2>2. row \in Record /\ HasMoney(row)
    BY <2>1, NewRowFacts
  <2> HIDE DEF row
  <2>. QED
    BY <1>2, <2>1, <2>2
<1>7. ASSUME NEW a \in Agents, NEW R \in SUBSET Uris,
             NexusReview(t, a, c, k, kind, e, R) \/ NexusCommand(t, a, c, k, kind, e, R)
      PROVE  IInv'
  <2>1. PICK confirm \in BOOLEAN : /\ OpenCreate(t, c, NewRow(a, k, kind, e, confirm), R)
                                   /\ e # None
    BY <1>5, <1>7 DEF NexusReview, NexusCommand
  <2>2. /\ NewRow(a, k, kind, e, confirm) \in Record
        /\ HasMoney(NewRow(a, k, kind, e, confirm))
    BY <2>1, NewRowFacts
  <2>. QED
    BY <1>2, <2>1, <2>2
<1>. QED
  BY <1>3, <1>4, <1>6, <1>7

\* A repeat looks at its record and holds nothing that matters here.
LEMMA OpenRepeatIInv ==
  ASSUME IInv, NEW t \in Sessions, NEW k \in Keys, NEW R \in SUBSET Uris, OpenRepeat(t, k, R)
  PROVE  IInv'
<1> DEFINE c == answered[k]
           s == [kind |-> "repeat", by |-> record[c].author, record |-> c,
                 refs |-> R, row |-> record[c]]
<1>1. c \in Records /\ record[c] \in Record
  BY DEF OpenRepeat, Live, InState, IInv, TypeOK
<1>2. s \in Session
  BY <1>1, RecordFacts DEF Session
<1>3. Begin(t, s) /\ s.kind = "repeat"
  BY DEF OpenRepeat
<1> HIDE DEF s
<1>. QED
  BY <1>2, <1>3, BeginIInv

\* The references of a repeat.
LEMMA CommitRepeatIInv ==
  ASSUME IInv, NEW t \in Sessions, CommitRepeat(t)
  PROVE  IInv'
<1>1. session[t] # None /\ End(t) /\ UNCHANGED <<record, answered, page>>
  BY DEF CommitRepeat, Open
<1>2. session[t].refs \subseteq Uris /\ session[t].record \in Records
  BY <1>1, SessionFacts DEF IInv
<1>3. refs' \in [Records -> SUBSET Uris]
  BY <1>2 DEF CommitRepeat, IInv, TypeOK
<1>. QED
  BY <1>1, <1>3, QuietEndIInv

\* The record that appears was no one's, and so was its key.
LEMMA CommitCreateIInv ==
  ASSUME IInv, NEW t \in Sessions, CommitCreate(t)
  PROVE  IInv'
<1> DEFINE c == session[t].record
           row == session[t].row
<1>1. t \in Open("create") /\ session[t] # None /\ End(t) /\ UNCHANGED page
  BY DEF CommitCreate, Open
<1>2. c \in Records /\ row \in Record /\ row # None /\ session[t].refs \subseteq Uris
  BY <1>1, SessionFacts, RecordFacts DEF IInv
<1>3. /\ session' \in [Sessions -> Session \cup {None}]
      /\ \A kind : Open(kind)' = Open(kind) \ {t}
      /\ \A kind : \A u \in Open(kind) \ {t} : session'[u] = session[u]
  BY <1>1, EndFacts
<1>4. /\ record[c] = None
      /\ record'[c] = row
      /\ \A d \in Records \ {c} : record'[d] = record[d]
      /\ record' \in [Records -> Record \cup {None}]
  BY <1>1, <1>2 DEF CommitCreate, IInv, TypeOK, CreatesAreFresh
<1>5. /\ row.key \in Keys /\ answered[row.key] = None
      /\ answered'[row.key] = c
      /\ \A k \in Keys \ {row.key} : answered'[k] = answered[k]
      /\ answered' \in [Keys -> Records \cup {None}]
  BY <1>2, RecordFacts DEF CommitCreate, IInv, TypeOK
<1>6. \A d \in Records : Live(d) => d # c /\ Live(d)'
  BY <1>4 DEF Live, InState
<1> HIDE DEF c, row
<1>7. TypeOK'
  BY <1>1, <1>2, <1>3, <1>4, <1>5 DEF CommitCreate, IInv, TypeOK
<1>8. EditsAreCurrent'
  <2> SUFFICES ASSUME NEW u \in Open("edit")'
               PROVE  EditIsCurrent(u)'
    BY DEF EditsAreCurrent
  <2>1. u \in Open("edit") /\ session'[u] = session[u] /\ EditIsCurrent(u)
    BY <1>3 DEF IInv, EditsAreCurrent
  <2>2. record'[session[u].record] = record[session[u].record]
    BY <1>4, <2>1, SessionFacts DEF EditIsCurrent, InState, Open, IInv
  <2>. QED
    BY <2>1, <2>2 DEF EditIsCurrent, InState
<1>9. RowsAreLockedOnce'
  BY <1>3 DEF IInv, RowsAreLockedOnce
<1>10. CreatesAreFresh'
  <2> SUFFICES ASSUME NEW u \in Open("create")'
               PROVE  /\ record'[session'[u].record] = None
                      /\ \A v \in Open("create")' : session'[v].record = session'[u].record => v = u
    BY DEF CreatesAreFresh
  <2>1. u \in Open("create") \ {t} /\ session'[u] = session[u] /\ session[u] # None
    BY <1>3 DEF Open
  <2>2. session[u].record # c /\ session[u].record \in Records /\ record[session[u].record] = None
    BY <1>1, <2>1, SessionFacts DEF IInv, CreatesAreFresh, Open, c
  <2>. QED
    BY <1>3, <1>4, <2>1, <2>2 DEF IInv, CreatesAreFresh
<1>11. \A r \in Record : RelatedExists(r) => RelatedExists(r)'
  BY <1>6, RecordFacts, EntryFacts DEF RelatedExists
<1>12. CreatesAreKept' /\ MoneyIsThere'
  <2>1. \A kind : \A u \in Open(kind) : session[u].row \in Record
    BY SessionFacts DEF Open, IInv
  <2>2. CreatesAreKept'
    BY <1>3, <1>11, <2>1 DEF IInv, CreatesAreKept, RelatedExists
  <2>3. HasMoney(row)
    BY <1>1 DEF IInv, MoneyIsThere, row
  <2>4. MoneyIsThere'
    BY <1>3, <1>4, <2>3 DEF IInv, MoneyIsThere, HasMoney
  <2>. QED
    BY <2>2, <2>4
<1>13. KeysNameRecords'
  <2>1. \A d \in Records : record[d] # None =>
           record[d].key \in Keys \ {row.key} /\ answered[record[d].key] = d
    BY <1>2, <1>5, RecordFacts, NoneAssumption DEF IInv, TypeOK, KeysNameRecords
  <2>2. \A d \in Records : record'[d] # None => answered'[record'[d].key] = d
    BY <1>4, <1>5, <2>1
  <2>3. ASSUME NEW k \in Keys, answered'[k] # None
        PROVE  record'[answered'[k]] # None
    <3>1. CASE k = row.key
      BY <1>2, <1>4, <1>5, <3>1
    <3>2. CASE k # row.key
      <4>1. answered'[k] = answered[k] /\ answered[k] \in Records /\ record[answered[k]] # None
        BY <1>5, <2>3, <3>2 DEF IInv, TypeOK, KeysNameRecords
      <4>. QED
        BY <1>4, <4>1
    <3>. QED
      BY <3>1, <3>2
  <2>. QED
    BY <2>2, <2>3 DEF KeysNameRecords
<1>14. PageIsBehind' /\ RevisionNamesContent'
  BY <1>1, <1>4 DEF IInv, TypeOK, Page, PageIsBehind, RevisionNamesContent
<1>15. RelatedEntryStands'
  <2>1. RelatedExists(row)
    BY <1>1 DEF IInv, CreatesAreKept, row
  <2>. QED
    BY <1>2, <1>4, <1>11, <2>1 DEF IInv, TypeOK, RelatedEntryStands, Live, InState, RelatedExists
<1>. QED
  BY <1>7, <1>8, <1>9, <1>10, <1>12, <1>13, <1>14, <1>15 DEF IInv

-----------------------------------------------------------------------------
(* Records change *)

\* A row is replaced by its successor.  No one else edits it, its content
\* changes with its revision only, and nothing names a row that is deleted.
LEMMA ChangeIInv ==
  ASSUME IInv, NEW c \in Records, record[c] # None, NEW new \in Record,
         record' = [record EXCEPT ![c] = new],
         UNCHANGED <<answered, refs, page>>,
         session' \in [Sessions -> Session \cup {None}],
         \A kind : Open(kind)' \subseteq Open(kind),
         \A kind : \A u \in Open(kind)' : session'[u] = session[u],
         \A u \in Open("edit")' : session[u].record # c,
         new.key = record[c].key, HasMoney(new),
         \/ new.revision = record[c].revision + 1
         \/ new.revision = record[c].revision /\ new.entry = record[c].entry,
         new.state # "deleted" => RelatedExists(new),
         \/ new.state # "deleted"
         \/ ~Kept(c) /\ \A d \in Records : Live(d) => ~Relates(record[d], c)
  PROVE  IInv'
<1>1. /\ record'[c] = new
      /\ new # None
      /\ \A d \in Records \ {c} : record'[d] = record[d]
      /\ record' \in [Records -> Record \cup {None}]
  BY RecordFacts DEF IInv, TypeOK
<1>2. \A d \in Records : record'[d] # None <=> record[d] # None
  BY <1>1
<1>3. \A d \in Records : Live(d) => Live(d)' \/ (d = c /\ new.state = "deleted")
  BY <1>1, RecordFacts DEF Live, InState
<1>4. ASSUME NEW r \in Record, RelatedExists(r),
             new.state # "deleted" \/ ~Relates(r, c)
      PROVE  RelatedExists(r)'
  <2> SUFFICES ASSUME r.entry # None, r.entry.related # None
               PROVE  Live(r.entry.related)'
    BY DEF RelatedExists
  <2>1. Live(r.entry.related) /\ r.entry.related \in Records
    BY <1>4, RecordFacts, EntryFacts DEF RelatedExists
  <2>2. r # None
    BY RecordFacts
  <2>. QED
    BY <1>3, <1>4, <2>1, <2>2 DEF Relates, Live, InState
<1>5. TypeOK'
  BY <1>1 DEF IInv, TypeOK
<1>6. EditsAreCurrent'
  <2> SUFFICES ASSUME NEW u \in Open("edit")'
               PROVE  EditIsCurrent(u)'
    BY DEF EditsAreCurrent
  <2>1. u \in Open("edit") /\ session'[u] = session[u] /\ EditIsCurrent(u)
    BY DEF IInv, EditsAreCurrent
  <2>2. record'[session[u].record] = record[session[u].record]
    BY <1>1, <2>1, SessionFacts DEF Open, IInv
  <2>. QED
    BY <2>1, <2>2 DEF EditIsCurrent, InState
<1>7. RowsAreLockedOnce'
  BY DEF IInv, RowsAreLockedOnce
<1>8. CreatesAreFresh'
  <2> SUFFICES ASSUME NEW u \in Open("create")'
               PROVE  /\ record'[session'[u].record] = None
                      /\ \A v \in Open("create")' : session'[v].record = session'[u].record => v = u
    BY DEF CreatesAreFresh
  <2>1. u \in Open("create") /\ session'[u] = session[u] /\ session[u].record \in Records
    BY SessionFacts DEF Open, IInv
  <2>. QED
    BY <1>2, <2>1 DEF IInv, CreatesAreFresh
<1>9. CreatesAreKept'
  <2> SUFFICES ASSUME NEW u \in Open("create")'
               PROVE  RelatedExists(session[u].row)'
    BY DEF CreatesAreKept, RelatedExists
  <2>1. u \in Open("create") /\ session'[u] = session[u] /\ session[u].row \in Record
    BY SessionFacts DEF Open, IInv
  <2>2. RelatedExists(session[u].row)
    BY <2>1 DEF IInv, CreatesAreKept
  <2>3. new.state # "deleted" \/ ~Relates(session[u].row, c)
    BY <2>1 DEF Kept
  <2>. QED
    BY <1>4, <2>1, <2>2, <2>3 DEF RelatedExists, Live, InState
<1>10. MoneyIsThere'
  BY <1>1 DEF IInv, MoneyIsThere, HasMoney
<1>11. KeysNameRecords'
  <2>1. \A k \in Keys : answered[k] # None => answered[k] \in Records
    BY DEF IInv, TypeOK
  <2>. QED
    BY <1>1, <1>2, <2>1 DEF IInv, KeysNameRecords
<1>12. PageIsBehind' /\ RevisionNamesContent'
  <2> SUFFICES ASSUME page # None
               PROVE  /\ record'[page.record] # None
                      /\ page.revision <= record'[page.record].revision
                      /\ (page.loaded /\ record'[page.record].revision = page.revision)
                            => record'[page.record].entry = page.entry
    BY DEF PageIsBehind, RevisionNamesContent
  <2>1. page.record \in Records /\ page.revision \in Nat /\ record[c].revision \in Nat
    BY RecordFacts, ConstantsAssumption DEF IInv, TypeOK, Page
  <2>2. /\ record[page.record] # None
        /\ page.revision <= record[page.record].revision
        /\ (page.loaded /\ record[page.record].revision = page.revision)
              => record[page.record].entry = page.entry
    BY DEF IInv, PageIsBehind, RevisionNamesContent
  <2>3. CASE page.record = c
    BY <1>1, <2>1, <2>2, <2>3
  <2>4. CASE page.record # c
    BY <1>1, <2>1, <2>2, <2>4
  <2>. QED
    BY <2>3, <2>4
<1>13. RelatedEntryStands'
  <2> SUFFICES ASSUME NEW d \in Records, Live(d)'
               PROVE  RelatedExists(record[d])'
    BY DEF RelatedEntryStands, RelatedExists
  <2>1. CASE d = c
    BY <1>1, <1>4, <2>1 DEF RelatedExists, Live, InState
  <2>2. CASE d # c
    <3>1. Live(d) /\ record'[d] = record[d] /\ record[d] \in Record
      BY <1>1, <2>2 DEF Live, InState, IInv, TypeOK
    <3>. QED
      BY <1>4, <3>1 DEF IInv, RelatedEntryStands, RelatedExists, Live, InState
  <2>. QED
    BY <2>1, <2>2
<1>. QED
  BY <1>5, <1>6, <1>7, <1>8, <1>9, <1>10, <1>11, <1>12, <1>13 DEF IInv

-----------------------------------------------------------------------------
(* Edits *)

\* An edit takes the lock, and reads the row behind it.
LEMMA OpenEditIInv ==
  ASSUME IInv, NEW t \in Sessions, NEW a \in Agents \cup {Owner}, NEW c \in Records,
         NEW e \in Entry \cup {None}, OpenEdit(t, a, c, e),
         InState(c, IF a = Owner THEN {"draft", "confirmed"} ELSE {"draft"}),
         record[c].kind = "money_only" => e # None
  PROVE  IInv'
<1> DEFINE s == [kind |-> "edit", by |-> a, record |-> c, refs |-> {}, row |-> Edited(c, e)]
<1>1. TypeOK /\ record[c] # None /\ record[c].revision < MaxRevision
  BY DEF IInv, OpenEdit, InState
<1>2. /\ s.row \in Record
      /\ s.row = [record[c] EXCEPT !.entry = s.row.entry, !.revision = @ + 1]
      /\ HasMoney(s.row)
  BY <1>1, EditedFacts DEF HasMoney
<1>3. s \in Session
  BY <1>2 DEF Session
<1>4. Begin(t, s) /\ RowFree(s.record) /\ s.kind = "edit" /\ s.record = c /\ s.by = a
  BY DEF OpenEdit
<1> HIDE DEF s
<1>. QED
  BY <1>2, <1>3, <1>4, BeginIInv

\* The owner's form.
LEMMA PatchIInv ==
  ASSUME IInv, NEW t \in Sessions, NEW c \in Records, NEW e \in Entry \cup {None},
         Patch(t, c, e)
  PROVE  IInv'
<1>1. record[c].kind = "money_only" => record[c].entry # None
  BY DEF Patch, InState, IInv, MoneyIsThere, HasMoney
<1>. QED
  BY <1>1, OpenEditIInv DEF Patch

\* A refund and the expense that the owner has chosen for it.
LEMMA LinkRefundIInv ==
  ASSUME IInv, NEW t \in Sessions, NEW c \in Records, NEW expense \in Records,
         LinkRefund(t, c, expense)
  PROVE  IInv'
<1> DEFINE e == [record[c].entry EXCEPT !.related = expense]
<1>1. /\ record[c].entry \in Entry /\ record[c].entry.type = "refund"
      /\ OpenEdit(t, Owner, c, e) /\ InState(c, {"draft", "confirmed"})
  BY RecordFacts DEF LinkRefund, InState, IInv, TypeOK
<1>2. e \in Entry
  BY <1>1 DEF Entry
<1>3. e # None
  BY <1>2, EntryFacts
<1> HIDE DEF e
<1>. QED
  BY <1>1, <1>2, <1>3, OpenEditIInv

\* An agent and its draft, whose money is there.
LEMMA ReviseIInv ==
  ASSUME IInv, NEW t \in Sessions, NEW a \in Agents, NEW c \in Records,
         NEW amount \in Amounts, Revise(t, a, c, amount)
  PROVE  IInv'
<1> DEFINE e == [record[c].entry EXCEPT !.amount = amount]
<1>1. /\ record[c].entry \in Entry
      /\ OpenEdit(t, a, c, e) /\ InState(c, {"draft"})
  BY RecordFacts DEF Revise, AuthoredDraft, InState, IInv, TypeOK, MoneyIsThere, HasMoney
<1>2. e \in Entry
  BY <1>1 DEF Entry
<1>3. e # None /\ a # Owner
  BY <1>2, EntryFacts, ConstantsAssumption
<1> HIDE DEF e
<1>. QED
  BY <1>1, <1>2, <1>3, OpenEditIInv

\* The edit ends with its lock.
LEMMA CommitEditIInv ==
  ASSUME IInv, NEW t \in Sessions, CommitEdit(t)
  PROVE  IInv'
<1> DEFINE c == session[t].record
           new == session[t].row
<1>1. /\ t \in Open("edit") /\ session[t] # None /\ End(t)
      /\ UNCHANGED <<answered, refs, page>>
      /\ record' = [record EXCEPT ![c] = new]
      /\ RelatedExists(new)
  BY DEF CommitEdit, Open
<1>2. c \in Records /\ new \in Record
  BY <1>1, SessionFacts DEF IInv
<1>3. /\ session' \in [Sessions -> Session \cup {None}]
      /\ \A kind : Open(kind)' \subseteq Open(kind)
      /\ \A kind : \A u \in Open(kind)' : session'[u] = session[u]
      /\ t \notin Open("edit")'
  BY <1>1, EndFacts
<1>4. \A u \in Open("edit")' : session[u].record # c
  BY <1>1, <1>3 DEF IInv, RowsAreLockedOnce
<1>5. /\ record[c] \in Record /\ record[c] # None /\ record[c].state \in {"draft", "confirmed"}
      /\ new = [record[c] EXCEPT !.entry = new.entry, !.revision = @ + 1]
  BY <1>1, <1>2 DEF IInv, TypeOK, EditsAreCurrent, EditIsCurrent, InState
<1>6. /\ new.key = record[c].key
      /\ new.state = record[c].state
      /\ new.revision = record[c].revision + 1
  <2> HIDE DEF new, c
  <2>. QED
    BY <1>5 DEF Record
<1>7. HasMoney(new)
  BY <1>1 DEF IInv, MoneyIsThere
<1> HIDE DEF c, new
<1>. QED
  BY <1>1, <1>2, <1>3, <1>4, <1>5, <1>6, <1>7, ChangeIInv

-----------------------------------------------------------------------------
(* The owner reads and decides *)

\* The page of a record, and then its entry.
LEMMA ReadIInv ==
  ASSUME IInv, ReadEntry \/ \E c \in Records : ReadRecord(c)
  PROVE  IInv'
<1>1. UNCHANGED <<record, answered, refs, session>>
  BY DEF ReadEntry, ReadRecord
<1> DEFINE Current(p) == /\ p \in Page
                         /\ record[p.record] # None
                         /\ p.revision <= record[p.record].revision
                         /\ p.loaded => p.entry = record[p.record].entry
<1>2. Current(page')
  <2>1. ASSUME NEW c \in Records, ReadRecord(c)
        PROVE  Current(page')
    <3>1. record[c] \in Record /\ record[c] # None
      BY <2>1 DEF ReadRecord, Live, InState, IInv, TypeOK
    <3>. QED
      BY <2>1, <3>1, RecordFacts DEF ReadRecord, Page
  <2>2. ASSUME ReadEntry
        PROVE  Current(page')
    <3>1. page \in Page /\ page # None
      BY <2>2 DEF ReadEntry, IInv, TypeOK
    <3>2. record[page.record] \in Record
      BY <3>1 DEF IInv, TypeOK, Page, PageIsBehind
    <3>3. record[page.record].entry \in Entry \cup {None}
      BY <3>2, RecordFacts
    <3>4. page' = [page EXCEPT !.loaded = TRUE, !.entry = record[page.record].entry]
      BY <2>2 DEF ReadEntry
    <3>. QED
      BY <3>1, <3>3, <3>4 DEF IInv, PageIsBehind, Page
  <2>. QED
    BY <2>1, <2>2
<1>3. TypeOK' /\ PageIsBehind' /\ RevisionNamesContent'
  BY <1>1, <1>2 DEF IInv, TypeOK, PageIsBehind, RevisionNamesContent
<1>4. EditsAreCurrent' /\ RowsAreLockedOnce' /\ CreatesAreFresh'
  BY <1>1 DEF IInv, EditsAreCurrent, EditIsCurrent, InState, RowsAreLockedOnce,
     CreatesAreFresh, Open
<1>5. CreatesAreKept' /\ MoneyIsThere' /\ KeysNameRecords' /\ RelatedEntryStands'
  BY <1>1 DEF IInv, CreatesAreKept, MoneyIsThere, HasMoney, KeysNameRecords,
     RelatedEntryStands, RelatedExists, Live, InState, Open
<1>. QED
  BY <1>3, <1>4, <1>5 DEF IInv

\* References are rows of another table.
LEMMA ReferIInv ==
  ASSUME IInv, NEW c \in Records, NEW uri \in Uris, Refer(c, uri) \/ Unrefer(c, uri)
  PROVE  IInv'
<1>1. UNCHANGED <<record, answered, page, session>> /\ refs' \in [Records -> SUBSET Uris]
  BY DEF Refer, Unrefer, IInv, TypeOK
<1>2. TypeOK' /\ PageIsBehind' /\ RevisionNamesContent'
  BY <1>1 DEF IInv, TypeOK, PageIsBehind, RevisionNamesContent
<1>3. EditsAreCurrent' /\ RowsAreLockedOnce' /\ CreatesAreFresh'
  BY <1>1 DEF IInv, EditsAreCurrent, EditIsCurrent, InState, RowsAreLockedOnce,
     CreatesAreFresh, Open
<1>4. CreatesAreKept' /\ MoneyIsThere' /\ KeysNameRecords' /\ RelatedEntryStands'
  BY <1>1 DEF IInv, CreatesAreKept, MoneyIsThere, HasMoney, KeysNameRecords,
     RelatedEntryStands, RelatedExists, Live, InState, Open
<1>. QED
  BY <1>2, <1>3, <1>4 DEF IInv

\* A decision that finds the row unlocked, and leaves the sessions alone.
LEMMA DecisionIInv ==
  ASSUME IInv, NEW c \in Records, record[c] # None, RowFree(c), NEW new \in Record,
         record' = [record EXCEPT ![c] = new],
         UNCHANGED <<answered, refs, page, session>>,
         new.key = record[c].key, HasMoney(new),
         \/ new.revision = record[c].revision + 1
         \/ new.revision = record[c].revision /\ new.entry = record[c].entry,
         new.state # "deleted" => RelatedExists(new),
         \/ new.state # "deleted"
         \/ ~Kept(c) /\ \A d \in Records : Live(d) => ~Relates(record[d], c)
  PROVE  IInv'
<1>1. /\ session' \in [Sessions -> Session \cup {None}]
      /\ \A kind : Open(kind)' = Open(kind)
      /\ \A kind : \A u \in Open(kind)' : session'[u] = session[u]
  BY DEF IInv, TypeOK, Open
<1>2. \A u \in Open("edit")' : session[u].record # c
  BY <1>1 DEF RowFree
<1>. QED
  BY <1>1, <1>2, ChangeIInv

\* A confirmation and a void keep the entry of the record.
LEMMA ToStateIInv ==
  ASSUME IInv, NEW c \in Records, Confirm(c) \/ VoidRecord(c)
  PROVE  IInv'
<1>1. PICK state \in {"confirmed", "voided"} : ToState(c, state)
  BY DEF Confirm, VoidRecord
<1> DEFINE new == [record[c] EXCEPT !.state = state, !.revision = @ + 1]
<1>2. /\ Live(c) /\ record[c] # None /\ record[c] \in Record /\ RowFree(c)
      /\ record[c].revision < MaxRevision
  BY DEF Confirm, VoidRecord, Live, InState, IInv, TypeOK
<1>3. record[c].revision + 1 \in 1..MaxRevision
  BY <1>2, RecordFacts, ConstantsAssumption
<1>4. /\ new \in Record
      /\ new.key = record[c].key
      /\ new.kind = record[c].kind
      /\ new.entry = record[c].entry
      /\ new.state # "deleted"
      /\ new.revision = record[c].revision + 1
  BY <1>2, <1>3 DEF Record
<1>5. record' = [record EXCEPT ![c] = new] /\ UNCHANGED <<answered, refs, page, session>>
  <2>1. \A d : [record EXCEPT ![d].state = state, ![d].revision = @ + 1]
                = [record EXCEPT ![d] = [record[d] EXCEPT !.state = state, !.revision = @ + 1]]
    BY <1>2 DEF IInv, TypeOK, Record
  <2>. QED
    BY <1>1, <2>1 DEF ToState
<1> HIDE DEF new
<1>6. HasMoney(new) /\ RelatedExists(new)
  BY <1>2, <1>4 DEF IInv, MoneyIsThere, HasMoney, RelatedEntryStands, RelatedExists
<1>. QED
  BY <1>2, <1>4, <1>5, <1>6, DecisionIInv

\* A draft that is deleted is named by nothing with a foreign key.
LEMMA DeleteDraftIInv ==
  ASSUME IInv, NEW c \in Records, DeleteDraft(c)
  PROVE  IInv'
<1> DEFINE new == [record[c] EXCEPT !.state = "deleted"]
<1>1. /\ record[c] # None /\ record[c] \in Record /\ RowFree(c)
      /\ ~Kept(c) /\ \A d \in Records : Live(d) => ~Relates(record[d], c)
      /\ UNCHANGED <<answered, refs, page, session>>
  BY DEF DeleteDraft, InState, Referenced, IInv, TypeOK
<1>2. /\ new \in Record
      /\ new.key = record[c].key
      /\ new.kind = record[c].kind
      /\ new.entry = record[c].entry
      /\ new.state = "deleted"
      /\ new.revision = record[c].revision
  BY <1>1 DEF Record
<1>3. record' = [record EXCEPT ![c] = new]
  BY <1>1 DEF DeleteDraft, IInv, TypeOK, Record
<1> HIDE DEF new
<1>4. HasMoney(new)
  BY <1>1, <1>2 DEF IInv, MoneyIsThere, HasMoney
<1>. QED
  BY <1>1, <1>2, <1>3, <1>4, DecisionIInv

-----------------------------------------------------------------------------
(* Every step *)

\* One case for each action.
LEMMA NextIInv == IInv /\ [Next]_vars => IInv'
<1> SUFFICES ASSUME IInv, [Next]_vars PROVE IInv'
  OBVIOUS
<1>1. CASE UNCHANGED vars
  <2>1. TypeOK' /\ PageIsBehind' /\ RevisionNamesContent'
    BY <1>1 DEF vars, IInv, TypeOK, PageIsBehind, RevisionNamesContent
  <2>2. EditsAreCurrent' /\ RowsAreLockedOnce' /\ CreatesAreFresh'
    BY <1>1 DEF vars, IInv, EditsAreCurrent, EditIsCurrent, InState, RowsAreLockedOnce,
       CreatesAreFresh, Open
  <2>3. CreatesAreKept' /\ MoneyIsThere' /\ KeysNameRecords' /\ RelatedEntryStands'
    BY <1>1 DEF vars, IInv, CreatesAreKept, MoneyIsThere, HasMoney, KeysNameRecords,
       RelatedEntryStands, RelatedExists, Live, InState, Open
  <2>. QED
    BY <2>1, <2>2, <2>3 DEF IInv
<1>2. ASSUME NEW t \in Sessions, Create(t) PROVE IInv'
  BY <1>2, CreateIInv
<1>3. ASSUME NEW t \in Sessions, Change(t) PROVE IInv'
  BY <1>3, OpenRepeatIInv, PatchIInv, LinkRefundIInv, ReviseIInv DEF Change
<1>4. ASSUME NEW t \in Sessions, CommitCreate(t) PROVE IInv'
  BY <1>4, CommitCreateIInv
<1>5. ASSUME NEW t \in Sessions, CommitRepeat(t) PROVE IInv'
  BY <1>5, CommitRepeatIInv
<1>6. ASSUME NEW t \in Sessions, CommitEdit(t) PROVE IInv'
  BY <1>6, CommitEditIInv
<1>7. ASSUME NEW t \in Sessions, Rollback(t) PROVE IInv'
  BY <1>7, QuietEndIInv DEF Rollback, IInv, TypeOK
<1>8. CASE ReadEntry \/ \E c \in Records : ReadRecord(c)
  BY <1>8, ReadIInv
<1>9. ASSUME NEW c \in Records, Confirm(c) \/ VoidRecord(c) PROVE IInv'
  BY <1>9, ToStateIInv
<1>10. ASSUME NEW c \in Records, DeleteDraft(c) PROVE IInv'
  BY <1>10, DeleteDraftIInv
<1>11. ASSUME NEW c \in Records, NEW uri \in Uris, Refer(c, uri) \/ Unrefer(c, uri) PROVE IInv'
  BY <1>11, ReferIInv
<1>. QED
  BY <1>1, <1>2, <1>3, <1>4, <1>5, <1>6, <1>7, <1>8, <1>9, <1>10, <1>11 DEF Next

\* The inductive invariant holds in every reachable state.
THEOREM Invariance == Spec => []IInv
BY InitIInv, NextIInv, PTL DEF Spec

-----------------------------------------------------------------------------
(* The properties *)

\* Every variable keeps its type.
THEOREM TypeCorrect == Spec => []TypeOK
<1>1. IInv => TypeOK
  BY DEF IInv
<1>. QED
  BY <1>1, Invariance, PTL

\* A page that was read in two statements stands for the revision it names.
THEOREM PagesAreFaithful == Spec => []RevisionNamesContent
<1>1. IInv => RevisionNamesContent
  BY DEF IInv
<1>. QED
  BY <1>1, Invariance, PTL

\* No live refund names an entry that is gone.
THEOREM RefundsHaveTheirEntry == Spec => []RelatedEntryStands
<1>1. IInv => RelatedEntryStands
  BY DEF IInv
<1>. QED
  BY <1>1, Invariance, PTL

\* Repeats make no second record: both would be what the key is answered with.
THEOREM RepeatsMakeNoRecord == Spec => []OneRecordPerKey
<1>1. IInv => OneRecordPerKey
  BY DEF IInv, KeysNameRecords, OneRecordPerKey
<1>. QED
  BY <1>1, Invariance, PTL

\* A confirmed fact changes by its owner's void or edit alone.
THEOREM OwnersChangeFacts == Spec => FactsAreTheOwners
<1> DEFINE A == \A c \in Records :
          (InState(c, {"confirmed", "voided", "deleted"}) /\ record'[c] # record[c]) =>
              /\ record[c].state = "confirmed"
              /\ \/ record'[c].state = "voided" /\ record'[c].entry = record[c].entry
                 \/ \E t \in Open("edit") : /\ session[t].record = c
                                            /\ session[t].by = Owner
                                            /\ session'[t] = None
<1>1. IInv /\ [Next]_vars => [A]_vars
  <2> SUFFICES ASSUME IInv, [Next]_vars, NEW c \in Records,
                      InState(c, {"confirmed", "voided", "deleted"}), record'[c] # record[c]
               PROVE  /\ record[c].state = "confirmed"
                      /\ \/ record'[c].state = "voided" /\ record'[c].entry = record[c].entry
                         \/ \E t \in Open("edit") : /\ session[t].record = c
                                                    /\ session[t].by = Owner
                                                    /\ session'[t] = None
    OBVIOUS
  <2>1. record[c] # None /\ record[c] \in Record
    BY DEF InState, IInv, TypeOK
  <2>2. ASSUME NEW t \in Sessions, CommitCreate(t) PROVE FALSE
    <3>1. record[session[t].record] = None
      BY <2>2 DEF CommitCreate, IInv, CreatesAreFresh
    <3>. QED
      BY <2>1, <2>2, <3>1 DEF CommitCreate, IInv, TypeOK
  <2>3. ASSUME NEW t \in Sessions, CommitEdit(t)
        PROVE  /\ record[c].state = "confirmed"
               /\ t \in Open("edit") /\ session[t].record = c
               /\ session[t].by = Owner /\ session'[t] = None
    <3>1. session[t].record = c /\ t \in Open("edit") /\ session'[t] = None
      BY <2>3 DEF CommitEdit, End, IInv, TypeOK
    <3>2. InState(c, IF session[t].by = Owner THEN {"draft", "confirmed"} ELSE {"draft"})
      BY <3>1 DEF IInv, EditsAreCurrent, EditIsCurrent
    <3>. QED
      BY <3>1, <3>2 DEF InState
  <2>4. ASSUME NEW d \in Records, VoidRecord(d)
        PROVE  /\ record[c].state = "confirmed"
               /\ record'[c].state = "voided" /\ record'[c].entry = record[c].entry
    <3>1. d = c
      BY <2>4 DEF VoidRecord, ToState, IInv, TypeOK
    <3>. QED
      BY <2>1, <2>4, <3>1 DEF VoidRecord, ToState, InState, IInv, TypeOK, Record
  <2>5. ASSUME NEW d \in Records, Confirm(d) \/ DeleteDraft(d) PROVE FALSE
    <3>1. d # c
      BY <2>5 DEF Confirm, DeleteDraft, InState
    <3>2. \E x : record' = [record EXCEPT ![d] = x]
      BY <2>5 DEF Confirm, DeleteDraft, ToState, IInv, TypeOK
    <3>. QED
      BY <3>1, <3>2 DEF IInv, TypeOK
  <2>6. ASSUME NEW t \in Sessions, Create(t) \/ Change(t) PROVE UNCHANGED record
    <3>1. ASSUME NEW d, NEW row, NEW R, OpenCreate(t, d, row, R) PROVE UNCHANGED record
      BY <3>1 DEF OpenCreate, Begin
    <3>2. ASSUME NEW k, NEW R, OpenRepeat(t, k, R) PROVE UNCHANGED record
      BY <3>2 DEF OpenRepeat, Begin
    <3>3. ASSUME NEW a, NEW d, NEW e, OpenEdit(t, a, d, e) PROVE UNCHANGED record
      BY <3>3 DEF OpenEdit, Begin
    <3>4. CASE Create(t)
      BY <3>1, <3>4, Zenon DEF Create, RecordsCreate, AgentDraftCreate, NexusReview, NexusCommand
    <3>5. CASE Change(t)
      BY <3>2, <3>3, <3>5, Zenon DEF Change, Patch, LinkRefund, Revise
    <3>. QED
      BY <2>6, <3>4, <3>5
  <2>. QED
    BY <2>2, <2>3, <2>4, <2>5, <2>6 DEF Next, vars, CommitRepeat, Rollback, ReadEntry,
       ReadRecord, Refer, Unrefer
<1>2. [][A]_vars => FactsAreTheOwners
  BY PTL DEF FactsAreTheOwners
<1>. QED
  BY <1>1, <1>2, Invariance, PTL DEF Spec, FactsAreTheOwners
=============================================================================
