------------------------- MODULE ImportReviewProofs -------------------------
(***************************************************************************)
(* Proofs about ImportReview: its types, the tie between review items,     *)
(* records and sources, the state of a batch, one record per source, and   *)
(* the survival of evidence, for every number of records, sources, batches *)
(* and sessions.                                                           *)
(*                                                                         *)
(* A session keeps what it has read and locked, and what it will write.    *)
(* The inductive invariant says that this still fits what others have      *)
(* committed since (SessionsFit).  The argument has three parts: a session *)
(* that fits leaves a correct ledger when its writes are applied           *)
(* (LedgerStaysCorrect), it disturbs no other session, because what two    *)
(* sessions hold is apart (OthersStillFit), and a session that is opened   *)
(* fits and is apart from the open ones (one lemma per request).           *)
(***************************************************************************)
EXTENDS ImportReview, TLAPS

-----------------------------------------------------------------------------
(* What a commit writes *)

\* The value of each row after the writes of a session are applied.
LEMMA RowsApplied ==
    ASSUME TypeOK, NEW v, IsSession(v), Apply(v.write)
    PROVE  /\ \A c \in Records : record'[c] =
                 IF c \in DOMAIN v.write.record THEN v.write.record[c] ELSE record[c]
           /\ \A x \in Sources : channel'[x] =
                 IF x \in DOMAIN v.write.channel THEN v.write.channel[x] ELSE channel[x]
           /\ \A i \in ItemIds : item'[i] =
                 IF i \in DOMAIN v.write.item THEN v.write.item[i] ELSE item[i]
           /\ \A k \in Batches : batch'[k] =
                 IF k \in DOMAIN v.write.batch THEN v.write.batch[k] ELSE batch[k]
           /\ links' = (links \ v.write.unlink) \cup v.write.link
  <1>1. /\ DOMAIN record = Records /\ DOMAIN channel = Sources
        /\ DOMAIN item = ItemIds /\ DOMAIN batch = Batches
    BY DEF TypeOK
  <1>2. /\ record' = Overlay(v.write.record, record)
        /\ channel' = Overlay(v.write.channel, channel)
        /\ links' = (links \ v.write.unlink) \cup v.write.link
        /\ item' = Overlay(v.write.item, item)
        /\ batch' = Overlay(v.write.batch, batch)
    BY DEF Apply
  <1> QED BY <1>1, <1>2 DEF Overlay

\* The rows keep their types.
LEMMA RowsKeepTypes ==
    ASSUME TypeOK, NEW v, IsSession(v), Apply(v.write)
    PROVE  /\ record' \in [Records -> Record]
           /\ channel' \in [Sources -> Channels \cup {None}]
           /\ links' \subseteq Records \X Sources
           /\ observation' \in [Sources -> {"none", "pending", "kept", "applied"}]
           /\ item' \in [ItemIds -> Item \cup {None}]
           /\ batch' \in [Batches -> {"absent"} \cup BatchStates]
  <1>1. IsWrite(v.write)
    BY DEF IsSession
  <1>2. Apply(v.write) /\ TypeOK
    OBVIOUS
  <1>3. record' \in [Records -> Record]
    BY <1>1, <1>2 DEF IsWrite, IsPartial, TypeOK, Apply, Overlay
  <1>4. channel' \in [Sources -> Channels \cup {None}]
    BY <1>1, <1>2 DEF IsWrite, IsPartial, TypeOK, Apply, Overlay
  <1>5. links' \subseteq Records \X Sources
    BY <1>1, <1>2 DEF IsWrite, TypeOK, Apply
  <1>6. observation' \in [Sources -> {"none", "pending", "kept", "applied"}]
    BY <1>2 DEF TypeOK, Apply
  <1>7. item' \in [ItemIds -> Item \cup {None}]
    BY <1>1, <1>2 DEF IsWrite, IsPartial, TypeOK, Apply, Overlay
  <1>8. batch' \in [Batches -> {"absent"} \cup BatchStates]
    BY <1>1, <1>2 DEF IsWrite, IsPartial, TypeOK, Apply, Overlay
  <1> QED BY <1>3, <1>4, <1>5, <1>6, <1>7, <1>8

\* A source stays known and a batch stays there.
LEMMA RowsStay ==
    ASSUME TypeOK, NEW v, IsSession(v), Apply(v.write)
    PROVE  /\ \A x \in Sources : channel[x] # None => channel'[x] # None
           /\ \A x \in DOMAIN v.write.channel : x \in Sources /\ channel'[x] # None
           /\ \A k \in Batches : batch[k] # "absent" => batch'[k] # "absent"
           /\ \A k \in DOMAIN v.write.batch : k \in Batches /\ batch'[k] # "absent"
  <1>1. IsWrite(v.write)
    BY DEF IsSession
  <1>2. /\ \A x \in DOMAIN v.write.channel :
              x \in Sources /\ v.write.channel[x] \in Channels
        /\ \A k \in DOMAIN v.write.batch :
              k \in Batches /\ v.write.batch[k] \in BatchStates
    BY <1>1 DEF IsWrite, IsPartial
  <1>3. None \notin Channels /\ "absent" \notin BatchStates
    BY ConstantsAssumption DEF Channels, BatchStates
  <1> QED BY <1>2, <1>3, RowsApplied

\* A row that a session writes is absent, or locked by it and live.
LEMMA WrittenRecords ==
    ASSUME TypeOK, NEW v, IsSession(v), Fits(v), NEW c \in DOMAIN v.write.record
    PROVE  /\ c \in Records
           /\ v.write.record[c] \in Record
           /\ \/ /\ record[c].state = "absent" /\ v.write.record[c].state = "draft"
                 /\ v.write.record[c].origin \in DOMAIN v.write.channel
                 /\ \A d \in DOMAIN v.write.record :
                       v.write.record[d].origin = v.write.record[c].origin => d = c
              \/ /\ c \in v.records /\ v.write.record[c].state # "absent"
                 /\ record[c].state \in Live
                 /\ v.write.record[c].origin = record[c].origin
  <1>1. c \in Records /\ v.write.record[c] \in Record
    BY DEF IsSession, IsWrite, IsPartial
  <1> QED BY <1>1 DEF Fits, RecordsFit, LocksAreLive

\* Of the records that a session leaves, one is live unless the session
\* withdraws it.
LEMMA LiveUnlessWithdrawn ==
    ASSUME TypeOK, NEW v, IsSession(v), Fits(v), Apply(v.write),
           NEW c \in Records, record[c].state \in Live
    PROVE  \/ record'[c].state \in Live /\ record'[c].origin = record[c].origin
           \/ c \in DOMAIN v.write.record /\ v.write.record[c].state \notin Live
  <1>1. CASE c \notin DOMAIN v.write.record
    BY <1>1, RowsApplied
  <1>2. CASE c \in DOMAIN v.write.record
    <2>1. record'[c] = v.write.record[c]
      BY <1>2, RowsApplied
    <2>2. record[c].state # "absent"
      BY DEF Live
    <2>3. v.write.record[c].origin = record[c].origin
      BY <1>2, <2>2, WrittenRecords
    <2> QED BY <1>2, <2>1, <2>3
  <1> QED BY <1>1, <1>2

\* What a session inserts or has locked is live after its commit, unless it
\* withdraws it.
LEMMA HeldIsLive ==
    ASSUME TypeOK, NEW v, IsSession(v), Fits(v), Apply(v.write),
           NEW c \in v.records \cup v.shares \cup DOMAIN v.write.record
    PROVE  \/ record'[c].state \in Live
           \/ c \in DOMAIN v.write.record /\ v.write.record[c].state \notin Live
  <1>1. CASE c \in DOMAIN v.write.record
    <2>1. c \in Records
      BY <1>1, WrittenRecords
    <2>2. record'[c] = v.write.record[c]
      BY <1>1, <2>1, RowsApplied
    <2> QED BY <1>1, <2>2
  <1>2. CASE c \notin DOMAIN v.write.record
    <2>1. c \in Records /\ record[c].state \in Live
      BY <1>2 DEF IsSession, Fits, LocksAreLive
    <2> QED BY <2>1, LiveUnlessWithdrawn
  <1> QED BY <1>1, <1>2

LEMMA LinksStayLive ==
    ASSUME TypeOK, LinksAreLive, NEW v, IsSession(v), Fits(v), Apply(v.write)
    PROVE  LinksAreLive'
  <1> SUFFICES ASSUME NEW l \in links'
               PROVE  record'[l[1]].state \in Live /\ channel'[l[2]] # None
    BY DEF LinksAreLive
  <1>1. l[1] \in Records /\ l[2] \in Sources
    BY RowsKeepTypes
  <1>2. l \in links \ v.write.unlink \/ l \in v.write.link
    BY RowsApplied
  <1>3. CASE l \in links /\ l \notin v.write.unlink
    <2>1. record[l[1]].state \in Live /\ channel[l[2]] # None
      BY <1>3 DEF LinksAreLive
    <2>2. ~(l[1] \in DOMAIN v.write.record /\ v.write.record[l[1]].state \notin Live)
      BY <1>3 DEF Fits, WithdrawalFits
    <2> QED BY <1>1, <2>1, <2>2, LiveUnlessWithdrawn, RowsStay
  <1>4. CASE l \in v.write.link
    <2>1. /\ l[1] \in v.records \cup DOMAIN v.write.record
          /\ channel[l[2]] # None \/ l[2] \in DOMAIN v.write.channel
      BY <1>4 DEF Fits, LinksFit
    <2>2. ~(l[1] \in DOMAIN v.write.record /\ v.write.record[l[1]].state \notin Live)
      BY <1>4 DEF Fits, WithdrawalFits
    <2>3. record'[l[1]].state \in Live
      BY <2>1, <2>2, HeldIsLive
    <2>4. channel'[l[2]] # None
      BY <1>1, <2>1, RowsStay
    <2> QED BY <2>3, <2>4
  <1> QED BY <1>2, <1>3, <1>4

LEMMA OriginsStayKnown ==
    ASSUME TypeOK, OriginsAreKnown, NEW v, IsSession(v), Fits(v), Apply(v.write)
    PROVE  OriginsAreKnown'
  <1> SUFFICES ASSUME NEW c \in Records, record'[c].origin # None
               PROVE  channel'[record'[c].origin] # None
    BY DEF OriginsAreKnown
  <1>1. CASE record'[c].origin = record[c].origin
    <2>1. record[c].origin \in Sources /\ channel[record[c].origin] # None
      BY <1>1 DEF OriginsAreKnown, TypeOK, Record
    <2> QED BY <1>1, <2>1, RowsStay
  <1>2. CASE record'[c].origin # record[c].origin
    <2>1. c \in DOMAIN v.write.record /\ record'[c] = v.write.record[c]
      BY <1>2, RowsApplied
    <2>2. record'[c].origin \in DOMAIN v.write.channel
      BY <1>2, <2>1, WrittenRecords
    <2> QED BY <2>2, RowsStay
  <1> QED BY <1>1, <1>2

LEMMA FactsStaySingle ==
    ASSUME TypeOK, OriginsAreKnown, OneFactPerSource,
           NEW v, IsSession(v), Fits(v), Apply(v.write)
    PROVE  OneFactPerSource'
  <1> DEFINE New(c) == /\ c \in DOMAIN v.write.record
                       /\ record'[c] = v.write.record[c]
                       /\ record'[c].origin \in DOMAIN v.write.channel
                       /\ \A d \in DOMAIN v.write.record :
                             v.write.record[d].origin = record'[c].origin => d = c
  <1>1. ASSUME NEW c \in Records
        PROVE  record'[c].origin = record[c].origin \/ New(c)
    <2>1. CASE c \notin DOMAIN v.write.record
      BY <2>1, RowsApplied
    <2>2. CASE c \in DOMAIN v.write.record
      <3>1. record'[c] = v.write.record[c]
        BY <2>2, RowsApplied
      <3> QED BY <2>2, <3>1, WrittenRecords
    <2> QED BY <2>1, <2>2
  <1>2. ASSUME NEW c \in Records, NEW d \in Records, New(c), ~New(d),
               record'[c].origin = record'[d].origin, record'[c].origin # None
        PROVE  FALSE
    <2>1. record[d].origin = record'[c].origin
      BY <1>1, <1>2
    <2>2. record[d].origin \in Sources /\ channel[record[d].origin] # None
      BY <1>2, <2>1 DEF OriginsAreKnown, TypeOK, Record
    <2>3. channel[record'[c].origin] = None
      BY <1>2 DEF Fits, ChannelsFit
    <2> QED BY <2>1, <2>2, <2>3
  <1> SUFFICES ASSUME NEW c \in Records, NEW d \in Records,
                      record'[c].origin = record'[d].origin, record'[c].origin # None
               PROVE  c = d
    BY DEF OneFactPerSource
  <1>3. CASE New(c) /\ New(d)
    BY <1>3
  <1>4. CASE ~New(c) /\ ~New(d)
    <2>1. record'[c].origin = record[c].origin /\ record'[d].origin = record[d].origin
      BY <1>1, <1>4
    <2> QED BY <2>1 DEF OneFactPerSource
  <1> QED BY <1>2, <1>3, <1>4

-----------------------------------------------------------------------------
(* Items and batches *)

\* An item becomes pending only in a batch that the session inserts or writes.
LEMMA NewlyPending ==
    ASSUME TypeOK, NEW v, IsSession(v), Fits(v), Apply(v.write),
           NEW i \in ItemIds, item'[i] # None, item'[i].state = "pending"
    PROVE  \/ item[i] # None /\ item[i].state = "pending"
           \/ /\ i \in DOMAIN v.write.item /\ batch[i[1]] = "absent"
              /\ i[1] \in v.keys /\ i[1] \in DOMAIN v.write.batch
  <1>1. CASE i \notin DOMAIN v.write.item
    BY <1>1, RowsApplied
  <1>2. CASE i \in DOMAIN v.write.item
    <2>1. item'[i] = v.write.item[i]
      BY <1>2, RowsApplied
    <2> QED BY <1>2, <2>1 DEF Fits, ItemsFit
  <1> QED BY <1>1, <1>2

LEMMA BatchesStayDecided ==
    ASSUME TypeOK, CompletedBatchIsDecided, NEW v, IsSession(v), Fits(v), Apply(v.write)
    PROVE  CompletedBatchIsDecided'
  <1> SUFFICES ASSUME NEW k \in Batches, batch'[k] = "completed",
                      NEW s \in Sources, item'[<<k, s>>] # None,
                      item'[<<k, s>>].state = "pending"
               PROVE  FALSE
    BY DEF CompletedBatchIsDecided, Pending
  <1> DEFINE i == <<k, s>>
  <1>0. i \in ItemIds /\ i[1] = k
    BY DEF ItemIds
  <1>1. CASE k \in DOMAIN v.write.batch
    <2>1. v.write.batch[k] = "completed"
      BY <1>1, RowsApplied
    <2>2. ~Pending(Overlay(v.write.item, item), k)
      BY <1>1, <2>1 DEF Fits, BatchesFit
    <2>3. item' = Overlay(v.write.item, item)
      BY DEF Apply
    <2> QED BY <2>2, <2>3 DEF Pending
  <1>2. CASE k \notin DOMAIN v.write.batch
    <2>1. batch[k] = "completed"
      BY <1>2, RowsApplied
    <2>2. item[i] # None /\ item[i].state = "pending"
      BY <1>0, <1>2, NewlyPending
    <2> QED BY <2>1, <2>2 DEF CompletedBatchIsDecided, Pending
  <1> QED BY <1>1, <1>2

LEMMA ItemsStayTied ==
    ASSUME TypeOK, LinksAreLive, ItemsAreTied,
           NEW v, IsSession(v), Fits(v), Apply(v.write)
    PROVE  ItemsAreTied'
  <1> SUFFICES ASSUME NEW i \in ItemIds, item'[i] # None
               PROVE  /\ record'[item'[i].record].state \in Live
                      /\ <<item'[i].record, i[2]>> \in links'
                      /\ batch'[i[1]] # "absent"
    BY DEF ItemsAreTied
  <1>0. i[1] \in Batches /\ i[2] \in Sources
    BY DEF ItemIds
  <1>1. CASE i \in DOMAIN v.write.item
    <2>1. item'[i] = v.write.item[i]
      BY <1>1, RowsApplied
    <2>2. /\ item'[i].record \in v.records \cup v.shares \cup DOMAIN v.write.record
          /\ <<item'[i].record, i[2]>> \in links'
      BY <1>1, <2>1, RowsApplied DEF Fits, ItemsFit
    <2>3. ~(/\ item'[i].record \in DOMAIN v.write.record
            /\ v.write.record[item'[i].record].state \notin Live)
      BY <1>1, <2>1 DEF Fits, WithdrawalFits
    <2>4. record'[item'[i].record].state \in Live
      BY <2>2, <2>3, HeldIsLive
    <2>5. batch'[i[1]] # "absent"
      <3>1. CASE item[i] # None
        BY <1>0, <3>1, RowsStay DEF ItemsAreTied
      <3>2. CASE item[i] = None
        BY <1>1, <3>2, RowsStay DEF Fits, ItemsFit
      <3> QED BY <3>1, <3>2
    <2> QED BY <2>2, <2>4, <2>5
  <1>2. CASE i \notin DOMAIN v.write.item
    <2>1. item'[i] = item[i]
      BY <1>2, RowsApplied
    <2> DEFINE c == item[i].record
    <2>2. /\ record[c].state \in Live
          /\ <<c, i[2]>> \in links
          /\ batch[i[1]] # "absent"
      BY <2>1 DEF ItemsAreTied
    <2>3. c \in Records
      BY <2>2 DEF TypeOK
    <2>4. ~(c \in DOMAIN v.write.record /\ v.write.record[c].state \notin Live)
      BY <1>2, <2>1 DEF Fits, WithdrawalFits, ItemsOf
    <2>5. record'[c].state \in Live
      BY <2>2, <2>3, <2>4, LiveUnlessWithdrawn
    <2>6. <<c, i[2]>> \notin v.write.unlink
      BY <2>4 DEF Fits, LinksFit
    <2> QED BY <1>0, <2>1, <2>2, <2>5, <2>6, RowsApplied, RowsStay
  <1> QED BY <1>1, <1>2

\* A ledger to which the writes of a fitting session are applied stays correct.
LEMMA LedgerStaysCorrect ==
    ASSUME IInv, NEW v, IsSession(v), Fits(v), Apply(v.write)
    PROVE  /\ LinksAreLive' /\ OriginsAreKnown' /\ CompletedBatchIsDecided'
           /\ ItemsAreTied' /\ OneFactPerSource'
  <1>1. /\ TypeOK /\ LinksAreLive /\ OriginsAreKnown /\ CompletedBatchIsDecided
        /\ ItemsAreTied /\ OneFactPerSource
    BY DEF IInv
  <1> QED BY <1>1, LinksStayLive, OriginsStayKnown, BatchesStayDecided, ItemsStayTied,
             FactsStaySingle

-----------------------------------------------------------------------------
(* A commit disturbs no other session *)

\* The rows that another session holds or inserts are not written.
LEMMA HeldByOther ==
    ASSUME TypeOK, NEW v, IsSession(v), Fits(v), Apply(v.write),
           NEW s, IsSession(s), Fits(s), Apart(v, s)
    PROVE  /\ \A c \in s.records \cup s.shares \cup DOMAIN s.write.record :
                 c \in Records /\ c \notin DOMAIN v.write.record /\ record'[c] = record[c]
           /\ \A c \in s.records \cup DOMAIN s.write.record :
                 c \notin v.records \cup v.shares \cup DOMAIN v.write.record
  <1>1. ASSUME NEW c \in s.records \cup s.shares \cup DOMAIN s.write.record
        PROVE  c \in Records
    BY <1>1, WrittenRecords DEF IsSession
  <1>2. ASSUME NEW c \in s.records \cup s.shares
        PROVE  c \notin v.records /\ record[c].state # "absent"
    BY <1>2 DEF Apart, Fits, LocksAreLive, Live
  <1>3. ASSUME NEW c \in s.records \cup s.shares
        PROVE  c \notin DOMAIN v.write.record
    BY <1>2, WrittenRecords
  <1>4. ASSUME NEW c \in DOMAIN s.write.record
        PROVE  c \notin DOMAIN v.write.record
    BY DEF Apart
  <1>5. ASSUME NEW c \in s.records
        PROVE  c \notin v.records \cup v.shares
    BY DEF Apart
  <1>6. ASSUME NEW c \in DOMAIN s.write.record, c \notin s.records
        PROVE  c \notin v.records \cup v.shares
    <2>1. record[c].state = "absent"
      BY <1>6, WrittenRecords
    <2> QED BY <2>1 DEF Fits, LocksAreLive, Live
  <1> QED BY <1>1, <1>3, <1>4, <1>5, <1>6, RowsApplied

\* The items that another session is to write are not written.
LEMMA ItemsOfOther ==
    ASSUME TypeOK, NEW v, IsSession(v), Fits(v), Apply(v.write),
           NEW s, IsSession(s), Fits(s), Apart(v, s)
    PROVE  /\ \A i \in DOMAIN s.write.item :
                 i \in ItemIds /\ i \notin DOMAIN v.write.item /\ item'[i] = item[i]
           /\ \A k \in Batches : k \in s.keys /\ batch[k] = "absent" => batch'[k] = "absent"
  <1>1. ASSUME NEW i \in DOMAIN s.write.item
        PROVE  i \in ItemIds
    BY <1>1 DEF IsSession, IsWrite, IsPartial
  <1>2. ASSUME NEW i \in DOMAIN s.write.item
        PROVE  i \notin DOMAIN v.write.item
    <2>1. CASE item[i] # None
      BY <1>2, <2>1 DEF Fits, ItemsFit, Apart
    <2>2. CASE item[i] = None
      BY <1>2, <2>2 DEF Fits, ItemsFit, Apart
    <2> QED BY <2>1, <2>2
  <1>3. ASSUME NEW k \in Batches, k \in s.keys, batch[k] = "absent"
        PROVE  batch'[k] = "absent"
    <2>1. k \notin DOMAIN v.write.batch
      BY <1>3 DEF Fits, BatchesFit, Apart
    <2> QED BY <1>3, <2>1, RowsApplied
  <1> QED BY <1>1, <1>2, <1>3, RowsApplied

LEMMA OtherKeepsItsLocks ==
    ASSUME TypeOK, NEW v, IsSession(v), Fits(v), Apply(v.write),
           NEW u \in Sessions, session'[u] = session[u],
           IsSession(session[u]), Fits(session[u]), Apart(v, session[u])
    PROVE  /\ LocksAreLive(session[u])'
           /\ RecordsFit(session[u])'
           /\ ChannelsFit(session[u])'
  <1> PICK s : s = session[u]
    OBVIOUS
  <1>1. session'[u] = s /\ IsSession(s) /\ Fits(s) /\ Apart(v, s)
    OBVIOUS
  <1>2. \A c \in s.records \cup s.shares \cup DOMAIN s.write.record : record'[c] = record[c]
    BY <1>1, HeldByOther
  <1>3. LocksAreLive(s) /\ RecordsFit(s) /\ ChannelsFit(s)
    BY <1>1 DEF Fits
  <1>4. LocksAreLive(session[u])'
    BY <1>1, <1>2, <1>3 DEF LocksAreLive
  <1>5. RecordsFit(session[u])'
    BY <1>1, <1>2, <1>3 DEF RecordsFit
  <1>6. ASSUME NEW x \in DOMAIN s.write.channel
        PROVE  channel'[x] = None
    <2>1. x \in Sources
      BY <1>1 DEF IsSession, IsWrite, IsPartial
    <2>2. x \in s.keys /\ channel[x] = None
      BY <1>3 DEF ChannelsFit
    <2>3. x \notin DOMAIN v.write.channel
      BY <1>1, <2>2 DEF Apart, Fits, ChannelsFit
    <2> QED BY <2>1, <2>2, <2>3, RowsApplied
  <1>7. ChannelsFit(session[u])'
    BY <1>1, <1>3, <1>6 DEF ChannelsFit
  <1> QED BY <1>4, <1>5, <1>7

LEMMA OtherKeepsItsLinks ==
    ASSUME TypeOK, NEW v, IsSession(v), Fits(v), Apply(v.write),
           NEW u \in Sessions, session'[u] = session[u],
           IsSession(session[u]), Fits(session[u]), Apart(v, session[u])
    PROVE  /\ WithdrawalFits(session[u])'
           /\ LinksFit(session[u])'
  <1> PICK s : s = session[u]
    OBVIOUS
  <1>1. session'[u] = s /\ IsSession(s) /\ Fits(s) /\ Apart(v, s)
    OBVIOUS
  <1>2. WithdrawalFits(s) /\ LinksFit(s)
    BY <1>1 DEF Fits
  <1>3. ASSUME NEW c \in DOMAIN s.write.record
        PROVE  /\ {l \in links' : l[1] = c} \subseteq {l \in links : l[1] = c}
               /\ \A i \in ItemIds : item'[i] # None /\ item'[i].record = c =>
                     item[i] # None /\ item[i].record = c
    <2>1. c \notin v.records \cup v.shares \cup DOMAIN v.write.record
      BY <1>1, HeldByOther
    <2>2. \A l \in v.write.link : l[1] # c
      BY <2>1 DEF Fits, LinksFit
    <2>3. \A i \in DOMAIN v.write.item : v.write.item[i] # None => v.write.item[i].record # c
      BY <2>1 DEF Fits, ItemsFit
    <2> QED BY <2>2, <2>3, RowsApplied
  <1>4. WithdrawalFits(session[u])'
    <2> SUFFICES ASSUME NEW c \in DOMAIN s.write.record, s.write.record[c].state \notin Live
                 PROVE  /\ ItemsOf(c)' \subseteq DOMAIN s.write.item
                        /\ \A i \in DOMAIN s.write.item :
                              s.write.item[i] # None => s.write.item[i].record # c
                        /\ {l \in links' : l[1] = c} \subseteq s.write.unlink
                        /\ \A l \in s.write.link : l[1] # c
      BY <1>1 DEF WithdrawalFits
    <2>1. /\ ItemsOf(c) \subseteq DOMAIN s.write.item
          /\ \A i \in DOMAIN s.write.item :
                s.write.item[i] # None => s.write.item[i].record # c
          /\ {l \in links : l[1] = c} \subseteq s.write.unlink
          /\ \A l \in s.write.link : l[1] # c
      BY <1>2 DEF WithdrawalFits
    <2>2. ItemsOf(c)' \subseteq ItemsOf(c)
      BY <1>3 DEF ItemsOf
    <2> QED BY <1>3, <2>1, <2>2
  <1>5. \A l \in s.write.link : channel[l[2]] # None => channel'[l[2]] # None
    BY <1>1, RowsStay DEF IsSession, IsWrite
  <1>6. LinksFit(session[u])'
    BY <1>1, <1>2, <1>5 DEF LinksFit
  <1> QED BY <1>4, <1>6

LEMMA OtherKeepsItsItems ==
    ASSUME TypeOK, NEW v, IsSession(v), Fits(v), Apply(v.write),
           NEW u \in Sessions, session'[u] = session[u],
           IsSession(session[u]), Fits(session[u]), Apart(v, session[u])
    PROVE  ItemsFit(session[u])'
  <1> PICK s : s = session[u]
    OBVIOUS
  <1>1. session'[u] = s /\ IsSession(s) /\ Fits(s) /\ Apart(v, s)
    OBVIOUS
  <1>2. ItemsFit(s)
    BY <1>1 DEF Fits
  <1> SUFFICES ASSUME NEW i \in DOMAIN s.write.item
               PROVE
        /\ \/ /\ item'[i] # None /\ item'[i].record \in s.records
              /\ s.write.item[i] # None =>
                    /\ s.write.item[i].revision > item'[i].revision
                    /\ s.write.item[i].state = "pending" => item'[i].state = "pending"
           \/ /\ item'[i] = None /\ batch'[i[1]] = "absent"
              /\ i[1] \in s.keys /\ i[1] \in DOMAIN s.write.batch
        /\ s.write.item[i] # None =>
              /\ s.write.item[i].record \in s.records \cup s.shares \cup DOMAIN s.write.record
              /\ <<s.write.item[i].record, i[2]>>
                    \in (links' \ s.write.unlink) \cup s.write.link
    BY <1>1 DEF ItemsFit
  <1>3. i \in ItemIds /\ item'[i] = item[i]
    BY <1>1, ItemsOfOther
  <1>4. i[1] \in Batches
    BY <1>3 DEF ItemIds
  <1>5. i[1] \in s.keys /\ batch[i[1]] = "absent" => batch'[i[1]] = "absent"
    BY <1>1, <1>4, ItemsOfOther
  <1>6. ASSUME s.write.item[i] # None, <<s.write.item[i].record, i[2]>> \in links
        PROVE  <<s.write.item[i].record, i[2]>> \in links'
    <2>1. s.write.item[i].record \notin DOMAIN v.write.record
      BY <1>1, <1>2, <1>6, HeldByOther DEF ItemsFit
    <2>2. <<s.write.item[i].record, i[2]>> \notin v.write.unlink
      BY <2>1 DEF Fits, LinksFit
    <2> QED BY <1>6, <2>2, RowsApplied
  <1> QED BY <1>2, <1>3, <1>5, <1>6 DEF ItemsFit

LEMMA OtherKeepsItsBatches ==
    ASSUME TypeOK, NEW v, IsSession(v), Fits(v), Apply(v.write),
           NEW u \in Sessions, session'[u] = session[u],
           IsSession(session[u]), Fits(session[u]), Apart(v, session[u])
    PROVE  BatchesFit(session[u])'
  <1> PICK s : s = session[u]
    OBVIOUS
  <1>1. session'[u] = s /\ IsSession(s) /\ Fits(s) /\ Apart(v, s)
    OBVIOUS
  <1>2. BatchesFit(s)
    BY <1>1 DEF Fits
  <1> SUFFICES ASSUME NEW k \in DOMAIN s.write.batch
               PROVE  /\ batch'[k] # "absent" \/ k \in s.keys
                      /\ s.write.batch[k] = "completed" =>
                            ~Pending(Overlay(s.write.item, item'), k)
    BY <1>1 DEF BatchesFit
  <1>3. k \in Batches
    BY <1>1 DEF IsSession, IsWrite, IsPartial
  <1>4. batch[k] # "absent" \/ k \in s.keys
    BY <1>2 DEF BatchesFit
  <1>5. ASSUME s.write.batch[k] = "completed", NEW x \in Sources,
               Overlay(s.write.item, item')[<<k, x>>] # None,
               Overlay(s.write.item, item')[<<k, x>>].state = "pending"
        PROVE  FALSE
    <2> DEFINE i == <<k, x>>
    <2>1. i \in ItemIds /\ i[1] = k
      BY <1>3 DEF ItemIds
    <2>2. DOMAIN item = ItemIds /\ DOMAIN item' = ItemIds
      BY RowsKeepTypes DEF TypeOK
    <2>3. ~(Overlay(s.write.item, item)[i] # None /\ Overlay(s.write.item, item)[i].state = "pending")
      BY <1>2, <1>5 DEF BatchesFit, Pending
    <2>4. CASE i \in DOMAIN s.write.item
      BY <1>5, <2>1, <2>2, <2>3, <2>4 DEF Overlay
    <2>5. CASE i \notin DOMAIN s.write.item
      <3>1. item'[i] # None /\ item'[i].state = "pending"
        BY <1>5, <2>1, <2>2, <2>5 DEF Overlay
      <3>2. ~(item[i] # None /\ item[i].state = "pending")
        BY <2>1, <2>2, <2>3, <2>5 DEF Overlay
      <3>3. batch[k] = "absent" /\ k \in v.keys
        BY <2>1, <3>1, <3>2, NewlyPending
      <3> QED BY <1>1, <1>4, <3>3 DEF Apart
    <2> QED BY <2>4, <2>5
  <1> QED BY <1>3, <1>4, <1>5, RowsStay DEF Pending

LEMMA OtherKeepsItsRead ==
    ASSUME TypeOK, NEW v, IsSession(v), Fits(v), Apply(v.write),
           NEW u \in Sessions, session'[u] = session[u],
           IsSession(session[u]), Fits(session[u])
    PROVE  ReadFits(session[u])'
  <1> PICK s : s = session[u]
    OBVIOUS
  <1>1. session'[u] = s /\ IsSession(s) /\ ReadFits(s)
    BY DEF Fits
  <1> SUFFICES ASSUME s.kind = "resolve", s.step = "read"
               PROVE  /\ s.item \in ItemIds
                      /\ batch'[s.item[1]] # "absent"
                      /\ item'[s.item] # None =>
                            /\ item'[s.item].revision >= s.revision
                            /\ item'[s.item].revision = s.revision =>
                                  item'[s.item].record = s.record
    BY <1>1 DEF ReadFits
  <1> DEFINE i == s.item
  <1>2. /\ i \in ItemIds /\ i[1] \in Batches /\ batch[i[1]] # "absent"
        /\ item[i] # None => /\ item[i].revision >= s.revision
                             /\ item[i].revision = s.revision => item[i].record = s.record
    BY <1>1 DEF ReadFits, ItemIds
  <1>3. batch'[i[1]] # "absent"
    BY <1>2, RowsStay
  <1>4. s.revision \in Nat
    BY <1>1, ConstantsAssumption DEF IsSession
  <1>5. ASSUME item'[i] # None
        PROVE  /\ item'[i].revision >= s.revision
               /\ item'[i].revision = s.revision => item'[i].record = s.record
    <2>1. CASE i \notin DOMAIN v.write.item
      BY <1>2, <1>5, <2>1, RowsApplied
    <2>2. CASE i \in DOMAIN v.write.item
      <3>1. item'[i] = v.write.item[i]
        BY <1>2, <2>2, RowsApplied
      <3>2. item[i] # None /\ item'[i].revision > item[i].revision
        BY <1>2, <1>5, <2>2, <3>1 DEF Fits, ItemsFit
      <3>3. item[i].revision \in Nat /\ item'[i].revision \in Nat
        BY <1>2, <1>5, <3>2, RowsKeepTypes, ConstantsAssumption DEF TypeOK, Item
      <3> QED BY <1>2, <1>4, <3>2, <3>3
    <2> QED BY <2>1, <2>2
  <1> QED BY <1>2, <1>3, <1>5

LEMMA OthersStillFit ==
    ASSUME TypeOK, NEW v, IsSession(v), Fits(v), Apply(v.write),
           NEW u \in Sessions, session'[u] = session[u],
           IsSession(session[u]), Fits(session[u]), Apart(v, session[u])
    PROVE  Fits(session[u])'
  <1> QED BY OtherKeepsItsLocks, OtherKeepsItsLinks, OtherKeepsItsItems,
             OtherKeepsItsBatches, OtherKeepsItsRead DEF Fits

-----------------------------------------------------------------------------
(* The steps that write the ledger *)

LEMMA SessionsFitMeans ==
    ASSUME IInv, NEW t \in Sessions, session[t] # None
    PROVE  /\ IsSession(session[t]) /\ Fits(session[t])
           /\ \A u \in Sessions \ {t} :
                 session[u] # None => Apart(session[t], session[u])
  <1> QED BY DEF IInv, TypeOK, SessionsFit, OpenSessions

\* A session, or a request of one step, that fits and is apart from the sessions
\* that stay open applies its writes.
LEMMA WritesKeepIInv ==
    ASSUME IInv, NEW v, IsSession(v), Fits(v), Apply(v.write),
           DOMAIN session' = Sessions,
           \A u \in Sessions : session'[u] # None =>
               session'[u] = session[u] /\ Apart(v, session[u])
    PROVE  IInv'
  <1>1. TypeOK
    BY DEF IInv
  <1>2. TypeOK'
    <2>1. \A u \in Sessions : session'[u] = None \/ IsSession(session[u])
      BY <1>1 DEF TypeOK
    <2>2. \A u \in Sessions : session'[u] = None \/ IsSession(session'[u])
      BY <2>1
    <2> QED BY <1>1, <2>2, RowsKeepTypes DEF TypeOK, IsSession, IsWrite
  <1>3. ASSUME NEW u \in Sessions, session'[u] # None
        PROVE  /\ session'[u] = session[u] /\ session[u] # None
               /\ Fits(session[u])'
    <2>1. /\ session'[u] = session[u] /\ session[u] # None
          /\ Apart(v, session[u])
      BY <1>3
    <2>2. IsSession(session[u]) /\ Fits(session[u])
      BY <2>1, SessionsFitMeans
    <2> QED BY <1>1, <2>1, <2>2, OthersStillFit
  <1>4. ASSUME NEW u \in Sessions, NEW x \in Sessions \ {u},
               session'[u] # None, session'[x] # None
        PROVE  Apart(session[u], session[x])'
    <2>1. Apart(session[u], session[x])
      BY <1>3, <1>4, SessionsFitMeans
    <2>2. session'[u] = session[u] /\ session'[x] = session[x]
      BY <1>4
    <2> QED BY <2>1, <2>2 DEF Apart
  <1>5. SessionsFit'
    BY <1>3, <1>4 DEF SessionsFit, OpenSessions
  <1> QED BY <1>2, <1>5, LedgerStaysCorrect DEF IInv

LEMMA CommitKeepsIInv ==
    ASSUME IInv, NEW t \in Sessions, Commit(t)
    PROVE  IInv'
  <1>1. session[t] # None /\ Apply(session[t].write)
    BY DEF Commit
  <1>2. DOMAIN session = Sessions
    BY DEF IInv, TypeOK
  <1>3. session' = [session EXCEPT ![t] = None]
    BY DEF Commit
  <1>4. DOMAIN session' = Sessions
    BY <1>2, <1>3
  <1>5. \A u \in Sessions : session'[u] # None =>
            session'[u] = session[u] /\ Apart(session[t], session[u])
    BY <1>1, <1>2, <1>3, SessionsFitMeans
  <1>6. IsSession(session[t]) /\ Fits(session[t])
    BY <1>1, SessionsFitMeans
  <1> QED BY <1>1, <1>4, <1>5, <1>6, WritesKeepIInv

\* The fields of a session that has written nothing yet.
LEMMA NewSessionFields ==
    ASSUME NEW kind \in {"import", "observe", "resolve", "confirm", "delete", "merge"},
           TypeOK
    PROVE  /\ IsSession(NewSession(kind)) /\ Fits(NewSession(kind))
           /\ Apply(NewSession(kind).write) <=> UNCHANGED ledger
           /\ \A u \in Sessions : session[u] # None => Apart(NewSession(kind), session[u])
  <1> DEFINE v == NewSession(kind)
  <1>1. /\ v.kind = kind /\ v.step = "written" /\ v.records = {} /\ v.shares = {}
        /\ v.sources = {} /\ v.cited = {} /\ v.keys = {} /\ v.item = None
        /\ v.record = None /\ v.revision = 0 /\ v.write = NoWrite
    BY DEF NewSession
  <1>2. /\ NoWrite.record = Nothing /\ NoWrite.channel = Nothing
        /\ NoWrite.link = {} /\ NoWrite.unlink = {} /\ NoWrite.observation = {}
        /\ NoWrite.item = Nothing /\ NoWrite.batch = Nothing
    BY DEF NoWrite
  <1>3. DOMAIN Nothing = {}
    BY DEF Nothing
  <1> HIDE DEF v
  <1>4. IsSession(v)
    BY <1>1, <1>2, <1>3, ConstantsAssumption DEF IsSession, IsWrite, IsPartial
  <1>5. Fits(v)
    BY <1>1, <1>2, <1>3 DEF Fits, LocksAreLive, RecordsFit, WithdrawalFits, ChannelsFit,
                            LinksFit, ItemsFit, BatchesFit, ReadFits
  <1>6. \A u \in Sessions : session[u] # None => Apart(v, session[u])
    BY <1>1, <1>2, <1>3 DEF Apart
  <1>7. Apply(v.write) <=> UNCHANGED ledger
    <2>1. Overlay(Nothing, record) = record
      BY <1>3 DEF Overlay, TypeOK
    <2>2. Overlay(Nothing, channel) = channel
      BY <1>3 DEF Overlay, TypeOK
    <2>3. Overlay(Nothing, item) = item
      BY <1>3 DEF Overlay, TypeOK
    <2>4. Overlay(Nothing, batch) = batch
      BY <1>3 DEF Overlay, TypeOK
    <2>5. [s \in Sources |-> IF s \in NoWrite.observation THEN "pending" ELSE observation[s]]
             = observation
      BY <1>2 DEF TypeOK
    <2>6. (links \ NoWrite.unlink) \cup NoWrite.link = links
      BY <1>2
    <2> QED BY <1>1, <1>2, <2>1, <2>2, <2>3, <2>4, <2>5, <2>6 DEF Apply, ledger
  <1> QED BY <1>4, <1>5, <1>6, <1>7 DEF v

LEMMA RollbackKeepsIInv ==
    ASSUME IInv, NEW t \in Sessions, Rollback(t)
    PROVE  IInv'
  <1> DEFINE v == NewSession("import")
  <1>1. TypeOK
    BY DEF IInv
  <1>2. /\ IsSession(v) /\ Fits(v) /\ Apply(v.write)
        /\ \A u \in Sessions : session[u] # None => Apart(v, session[u])
    BY <1>1, NewSessionFields DEF Rollback
  <1>3. session' = [session EXCEPT ![t] = None] /\ DOMAIN session = Sessions
    BY <1>1 DEF Rollback, TypeOK
  <1>4. \A u \in Sessions : session'[u] # None => session'[u] = session[u]
    BY <1>3
  <1> HIDE DEF v
  <1> QED BY <1>2, <1>3, <1>4, WritesKeepIInv

\* What fits an unchanged ledger still fits it.
LEMMA FitsWhatStays ==
    ASSUME NEW s, Fits(s), NEW t \in Sessions, session'[t] = s,
           UNCHANGED <<record, channel, links, item, batch>>
    PROVE  Fits(session[t])'
  <1>1. LocksAreLive(session[t])' /\ RecordsFit(session[t])' /\ ChannelsFit(session[t])'
    BY DEF Fits, LocksAreLive, RecordsFit, ChannelsFit
  <1>2. WithdrawalFits(session[t])'
    BY DEF Fits, WithdrawalFits, ItemsOf
  <1>3. LinksFit(session[t])' /\ ItemsFit(session[t])'
    BY DEF Fits, LinksFit, ItemsFit
  <1>4. BatchesFit(session[t])'
    <2>1. \A k : Pending(Overlay(s.write.item, item'), k)
                    <=> Pending(Overlay(s.write.item, item), k)
      OBVIOUS
    <2>2. BatchesFit(s)
      BY DEF Fits
    <2> QED BY <2>1, <2>2 DEF BatchesFit
  <1>5. ReadFits(session[t])'
    BY DEF Fits, ReadFits
  <1> QED BY <1>1, <1>2, <1>3, <1>4, <1>5 DEF Fits

\* Nothing of this depends on the observations.
LEMMA ObservationsAreApart ==
    ASSUME IInv, UNCHANGED <<record, channel, links, item, batch, session>>,
           observation' \in [Sources -> {"none", "pending", "kept", "applied"}]
    PROVE  IInv'
  <1>1. TypeOK'
    BY DEF IInv, TypeOK, IsSession, IsWrite
  <1>2. LinksAreLive' /\ OriginsAreKnown' /\ ItemsAreTied' /\ OneFactPerSource'
    BY DEF IInv, LinksAreLive, OriginsAreKnown, ItemsAreTied, OneFactPerSource
  <1>3. CompletedBatchIsDecided'
    BY DEF IInv, CompletedBatchIsDecided, Pending
  <1>4. ASSUME NEW t \in Sessions, session[t] # None
        PROVE  Fits(session[t])'
    <2>1. Fits(session[t])
      BY <1>4, SessionsFitMeans
    <2> PICK s : s = session[t]
      OBVIOUS
    <2>2. session'[t] = s /\ Fits(s)
      BY <2>1
    <2> QED BY <2>2, FitsWhatStays
  <1>5. \A t, u \in Sessions :
            Apart(session[t], session[u])' <=> Apart(session[t], session[u])
    BY DEF Apart
  <1>6. SessionsFit'
    BY <1>4, <1>5, SessionsFitMeans DEF SessionsFit, OpenSessions
  <1> QED BY <1>1, <1>2, <1>3, <1>6 DEF IInv

LEMMA DecideObservationKeepsIInv ==
    ASSUME IInv, NEW s \in Sources, NEW decision \in {"kept", "applied"},
           DecideObservation(s, decision)
    PROVE  IInv'
  <1>1. observation' \in [Sources -> {"none", "pending", "kept", "applied"}]
    BY DEF DecideObservation, IInv, TypeOK
  <1> QED BY <1>1, ObservationsAreApart DEF DecideObservation

\* A row that no session holds.
LEMMA FreeRow ==
    ASSUME IInv, NEW c \in Records, RowFree(c), NEW u \in Sessions, session[u] # None
    PROVE  /\ c \notin session[u].records \cup session[u].shares
           /\ record[c].state \in Live => c \notin DOMAIN session[u].write.record
  <1>1. c \notin session[u].records \cup session[u].shares
    BY DEF RowFree, RowLocked, RowShared, OpenSessions
  <1>2. ASSUME record[c].state \in Live, c \in DOMAIN session[u].write.record
        PROVE  FALSE
    <2>1. record[c].state # "absent"
      BY <1>2 DEF Live
    <2>2. RecordsFit(session[u])
      BY SessionsFitMeans DEF Fits
    <2> QED BY <1>1, <1>2, <2>1, <2>2 DEF RecordsFit
  <1> QED BY <1>1, <1>2

\* Voiding is a session of one step that has locked the record.
LEMMA VoidRecordKeepsIInv ==
    ASSUME IInv, NEW c \in Records, VoidRecord(c)
    PROVE  IInv'
  <1> DEFINE w == [NoWrite EXCEPT !.record = [x \in {c} |-> [record[c] EXCEPT !.state = "voided"]]]
             v == [NewSession("confirm") EXCEPT !.records = {c}, !.write = w]
  <1>0. TypeOK /\ RowFree(c) /\ record[c].state = "confirmed"
    BY DEF IInv, VoidRecord
  <1>1. /\ w.record = [x \in {c} |-> [record[c] EXCEPT !.state = "voided"]]
        /\ w.channel = Nothing /\ w.link = {} /\ w.unlink = {} /\ w.observation = {}
        /\ w.item = Nothing /\ w.batch = Nothing
    BY DEF NoWrite
  <1> HIDE DEF w
  <1>2. /\ v.kind = "confirm" /\ v.step = "written" /\ v.records = {c} /\ v.shares = {}
        /\ v.sources = {} /\ v.cited = {} /\ v.keys = {} /\ v.item = None
        /\ v.record = None /\ v.revision = 0 /\ v.write = w
    BY DEF NewSession
  <1> HIDE DEF v
  <1>3. DOMAIN Nothing = {}
    BY DEF Nothing
  <1>4. DOMAIN w.record = {c} /\ w.record[c] = [record[c] EXCEPT !.state = "voided"]
    BY <1>1
  <1>5. /\ record[c] \in Record /\ w.record[c] \in Record
        /\ w.record[c].state = "voided" /\ w.record[c].origin = record[c].origin
    BY <1>0, <1>4 DEF TypeOK, Record, RecordStates
  <1>6. IsSession(v)
    BY <1>1, <1>2, <1>3, <1>4, <1>5, ConstantsAssumption DEF IsSession, IsWrite, IsPartial
  <1>7. Fits(v)
    <2>1. LocksAreLive(v)
      BY <1>0, <1>2 DEF LocksAreLive, Live
    <2>2. RecordsFit(v) /\ WithdrawalFits(v)
      BY <1>2, <1>4, <1>5 DEF RecordsFit, WithdrawalFits, Live
    <2>3. ChannelsFit(v) /\ LinksFit(v) /\ ItemsFit(v) /\ BatchesFit(v) /\ ReadFits(v)
      BY <1>1, <1>2, <1>3 DEF ChannelsFit, LinksFit, ItemsFit, BatchesFit, ReadFits
    <2> QED BY <2>1, <2>2, <2>3 DEF Fits
  <1>8. Apply(v.write)
    <2>1. record' = [record EXCEPT ![c] = w.record[c]]
      BY <1>0, <1>4 DEF VoidRecord
    <2>2. record' = Overlay(w.record, record)
      BY <1>0, <1>4, <2>1 DEF Overlay, TypeOK
    <2>3. /\ Overlay(Nothing, channel) = channel
          /\ Overlay(Nothing, item) = item
          /\ Overlay(Nothing, batch) = batch
      BY <1>0, <1>3 DEF Overlay, TypeOK
    <2>4. [s \in Sources |-> IF s \in w.observation THEN "pending" ELSE observation[s]]
             = observation
      BY <1>0, <1>1 DEF TypeOK
    <2>5. links' = (links \ w.unlink) \cup w.link
      BY <1>1 DEF VoidRecord
    <2> QED BY <1>1, <1>2, <2>2, <2>3, <2>4, <2>5 DEF Apply, VoidRecord
  <1>9. \A u \in Sessions : session'[u] # None =>
            session'[u] = session[u] /\ Apart(v, session[u])
    <2>1. session' = session
      BY DEF VoidRecord
    <2>2. ASSUME NEW u \in Sessions, session[u] # None
          PROVE  Apart(v, session[u])
      <3>1. record[c].state \in Live
        BY <1>0 DEF Live
      <3> QED BY <1>0, <1>2, <1>4, <2>2, <3>1, FreeRow DEF Apart
    <2> QED BY <2>1, <2>2
  <1>10. DOMAIN session' = Sessions
    BY <1>0 DEF VoidRecord, TypeOK
  <1> QED BY <1>6, <1>7, <1>8, <1>9, <1>10, WritesKeepIInv

\* What no session has inserted.
LEMMA UnusedRow ==
    ASSUME IInv, NEW c \in Unused
    PROVE  /\ c \in Records /\ record[c].state = "absent"
           /\ \A u \in Sessions : session[u] # None =>
                 c \notin session[u].records \cup session[u].shares
                             \cup DOMAIN session[u].write.record
           /\ \A l \in links : l[1] # c
           /\ \A i \in ItemIds : item[i] # None => item[i].record # c
  <1>1. /\ c \in Records /\ record[c].state = "absent"
        /\ \A u \in Sessions : session[u] # None => c \notin DOMAIN session[u].write.record
    BY DEF Unused, OpenSessions
  <1>2. record[c].state \notin Live
    BY <1>1 DEF Live
  <1>3. \A u \in Sessions : session[u] # None =>
            c \notin session[u].records \cup session[u].shares
    BY <1>2, SessionsFitMeans DEF Fits, LocksAreLive
  <1> QED BY <1>1, <1>2, <1>3 DEF IInv, LinksAreLive, ItemsAreTied

LEMMA KeysAreFree ==
    ASSUME NEW x, KeyFree(x), NEW u \in Sessions, session[u] # None
    PROVE  x \notin session[u].keys
  <1> QED BY DEF KeyFree, OpenSessions

\* Inserting a source with its draft is a session of one step that holds the
\* keys of what it inserts.
LEMMA InsertKeepsIInv ==
    ASSUME IInv, NEW s \in Sources, NEW c \in Records, NEW by \in Channels, Insert(s, c, by),
           NEW v, IsSession(v), v.kind = "import", v.records = {}, v.shares = {},
           s \in v.keys, \A x \in v.keys : KeyFree(x),
           v.write.record = [x \in {c} |-> NewDraft(s)],
           v.write.channel = [x \in {s} |-> by],
           v.write.link = {<<c, s>>}, v.write.unlink = {}, v.write.observation = {},
           ItemsFit(v), BatchesFit(v),
           item' = Overlay(v.write.item, item), batch' = Overlay(v.write.batch, batch),
           UNCHANGED <<observation, session>>
    PROVE  IInv'
  <1>1. TypeOK /\ channel[s] = None /\ c \in Unused
    BY DEF IInv, Insert
  <1>2. record[c].state = "absent"
    BY <1>1, UnusedRow
  <1>3. /\ DOMAIN v.write.record = {c} /\ v.write.record[c] = NewDraft(s)
        /\ DOMAIN v.write.channel = {s} /\ v.write.channel[s] = by
    OBVIOUS
  <1>4. NewDraft(s).state = "draft" /\ NewDraft(s).origin = s
    BY DEF NewDraft
  <1>5. Fits(v)
    <2>1. LocksAreLive(v) /\ RecordsFit(v) /\ WithdrawalFits(v)
      BY <1>2, <1>3, <1>4 DEF LocksAreLive, RecordsFit, WithdrawalFits, Live
    <2>2. ChannelsFit(v) /\ LinksFit(v) /\ ReadFits(v)
      BY <1>1, <1>3, <1>4 DEF ChannelsFit, LinksFit, ReadFits
    <2> QED BY <2>1, <2>2 DEF Fits
  <1>6. Apply(v.write)
    <2>1. record' = Overlay(v.write.record, record)
      <3>1. record' = [record EXCEPT ![c] = NewDraft(s)]
        BY DEF Insert
      <3> QED BY <1>1, <1>3, <3>1 DEF Overlay, TypeOK
    <2>2. channel' = Overlay(v.write.channel, channel)
      <3>1. channel' = [channel EXCEPT ![s] = by]
        BY DEF Insert
      <3> QED BY <1>1, <1>3, <3>1 DEF Overlay, TypeOK
    <2>3. links' = (links \ v.write.unlink) \cup v.write.link
      BY DEF Insert
    <2>4. observation' = [x \in Sources |-> IF x \in v.write.observation
                                            THEN "pending" ELSE observation[x]]
      BY <1>1 DEF TypeOK
    <2> QED BY <2>1, <2>2, <2>3, <2>4 DEF Apply
  <1>7. ASSUME NEW u \in Sessions, session[u] # None
        PROVE  Apart(v, session[u])
    <2>1. c \notin DOMAIN session[u].write.record
      BY <1>1, <1>7, UnusedRow
    <2>2. v.keys \cap session[u].keys = {}
      BY <1>7, KeysAreFree
    <2> QED BY <1>3, <2>1, <2>2 DEF Apart
  <1>8. session' = session /\ DOMAIN session = Sessions
    BY <1>1 DEF TypeOK
  <1> QED BY <1>5, <1>6, <1>7, <1>8, WritesKeepIInv

LEMMA ImportStructuredKeepsIInv ==
    ASSUME IInv, NEW s \in Sources, NEW c \in Records, ImportStructured(s, c)
    PROVE  IInv'
  <1> DEFINE w == [NoWrite EXCEPT !.record = [x \in {c} |-> NewDraft(s)],
                                  !.channel = [x \in {s} |-> "import"],
                                  !.link = {<<c, s>>}]
             v == [NewSession("import") EXCEPT !.keys = {s}, !.write = w]
  <1>0. Insert(s, c, "import") /\ TypeOK
    BY DEF ImportStructured, IInv
  <1>1. /\ w.record = [x \in {c} |-> NewDraft(s)] /\ w.channel = [x \in {s} |-> "import"]
        /\ w.link = {<<c, s>>} /\ w.unlink = {} /\ w.observation = {}
        /\ w.item = Nothing /\ w.batch = Nothing
    BY DEF NoWrite
  <1> HIDE DEF w
  <1>2. /\ v.kind = "import" /\ v.step = "written" /\ v.records = {} /\ v.shares = {}
        /\ v.sources = {} /\ v.cited = {} /\ v.keys = {s} /\ v.item = None
        /\ v.record = None /\ v.revision = 0 /\ v.write = w
    BY DEF NewSession
  <1> HIDE DEF v
  <1>3. DOMAIN Nothing = {}
    BY DEF Nothing
  <1>4. NewDraft(s) \in Record /\ "import" \in Channels
    BY DEF NewDraft, Record, RecordStates, Channels
  <1>5. IsSession(v)
    BY <1>1, <1>2, <1>3, <1>4, ConstantsAssumption DEF IsSession, IsWrite, IsPartial
  <1>6. ItemsFit(v) /\ BatchesFit(v)
    BY <1>1, <1>2, <1>3 DEF ItemsFit, BatchesFit
  <1>7. item' = Overlay(v.write.item, item) /\ batch' = Overlay(v.write.batch, batch)
    <2>1. Overlay(Nothing, item) = item /\ Overlay(Nothing, batch) = batch
      BY <1>0, <1>3 DEF Overlay, TypeOK
    <2> QED BY <1>1, <1>2, <2>1 DEF ImportStructured
  <1>8. \A x \in v.keys : KeyFree(x)
    BY <1>0, <1>2 DEF Insert
  <1>9. UNCHANGED <<observation, session>>
    BY DEF ImportStructured
  <1> QED BY <1>0, <1>1, <1>2, <1>4, <1>5, <1>6, <1>7, <1>8, <1>9, InsertKeepsIInv

\* A batch that is not there has no item.
LEMMA AbsentBatchIsEmpty ==
    ASSUME IInv, NEW k \in Batches, batch[k] = "absent", NEW s \in Sources
    PROVE  item[<<k, s>>] = None
  <1>1. <<k, s>> \in ItemIds /\ <<k, s>>[1] = k
    BY DEF ItemIds
  <1> QED BY <1>1 DEF IInv, ItemsAreTied

LEMMA NewItemFields ==
    ASSUME NEW c \in Records, NEW R \in SUBSET (Reasons \cup {"duplicate"})
    PROVE  /\ NewItem(c, R) \in Item
           /\ NewItem(c, R).record = c
           /\ NewItem(c, R).state = "pending" <=> R # {}
  <1>1. 1 \in 1..MaxRevision
    BY ConstantsAssumption
  <1> QED BY <1>1 DEF NewItem, Item

LEMMA IngestKeepsIInv ==
    ASSUME IInv, NEW s \in Sources, NEW k \in Batches, NEW c \in Records,
           NEW R \in SUBSET Reasons, Ingest(s, k, c, R)
    PROVE  IInv'
  <1> DEFINE i == <<k, s>>
             state == IF R = {} THEN "completed" ELSE "open"
             w == [NoWrite EXCEPT !.record = [x \in {c} |-> NewDraft(s)],
                                  !.channel = [x \in {s} |-> "intake"],
                                  !.link = {<<c, s>>},
                                  !.item = [x \in {i} |-> NewItem(c, R)],
                                  !.batch = [x \in {k} |-> state]]
             v == [NewSession("import") EXCEPT !.keys = {s, k}, !.write = w]
  <1>0. /\ Insert(s, c, "intake") /\ TypeOK /\ KeyFree(k) /\ batch[k] = "absent"
        /\ item' = [item EXCEPT ![i] = NewItem(c, R)]
        /\ batch' = [batch EXCEPT ![k] = state]
    BY DEF Ingest, IInv
  <1>1. /\ w.record = [x \in {c} |-> NewDraft(s)] /\ w.channel = [x \in {s} |-> "intake"]
        /\ w.link = {<<c, s>>} /\ w.unlink = {} /\ w.observation = {}
        /\ w.item = [x \in {i} |-> NewItem(c, R)] /\ w.batch = [x \in {k} |-> state]
    BY DEF NoWrite
  <1> HIDE DEF w
  <1>2. /\ v.kind = "import" /\ v.step = "written" /\ v.records = {} /\ v.shares = {}
        /\ v.sources = {} /\ v.cited = {} /\ v.keys = {s, k} /\ v.item = None
        /\ v.record = None /\ v.revision = 0 /\ v.write = w
    BY DEF NewSession
  <1> HIDE DEF v
  <1>3. /\ DOMAIN w.item = {i} /\ w.item[i] = NewItem(c, R)
        /\ DOMAIN w.batch = {k} /\ w.batch[k] = state
    BY <1>1
  <1>4. /\ NewDraft(s) \in Record /\ "intake" \in Channels /\ state \in BatchStates
        /\ i \in ItemIds /\ i[1] = k /\ i[2] = s
    BY DEF NewDraft, Record, RecordStates, Channels, BatchStates, ItemIds
  <1>5. /\ NewItem(c, R) \in Item /\ NewItem(c, R).record = c
        /\ NewItem(c, R).state = "pending" <=> R # {}
    BY NewItemFields
  <1> HIDE DEF i
  <1>6. IsSession(v)
    <2>1. IsWrite(w)
      BY <1>1, <1>3, <1>4, <1>5 DEF IsWrite, IsPartial
    <2> QED BY <1>2, <2>1, ConstantsAssumption DEF IsSession
  <1>7. ItemsFit(v)
    <2>1. item[i] = None
      BY <1>0, AbsentBatchIsEmpty DEF i
    <2>2. c \in DOMAIN w.record
      BY <1>1
    <2> QED BY <1>0, <1>1, <1>2, <1>3, <1>4, <1>5, <2>1, <2>2 DEF ItemsFit
  <1>8. BatchesFit(v)
    <2>1. ASSUME R = {}, NEW x \in Sources, Overlay(w.item, item)[<<k, x>>] # None,
                 Overlay(w.item, item)[<<k, x>>].state = "pending"
          PROVE  FALSE
      <3>1. <<k, x>> \in DOMAIN item
        BY <1>0 DEF TypeOK, ItemIds
      <3>2. CASE <<k, x>> = i
        BY <1>3, <1>5, <2>1, <3>1, <3>2 DEF Overlay
      <3>3. CASE <<k, x>> # i
        <4>1. item[<<k, x>>] = None
          BY <1>0, AbsentBatchIsEmpty
        <4> QED BY <1>3, <2>1, <3>1, <3>3, <4>1 DEF Overlay
      <3> QED BY <3>2, <3>3
    <2>2. R = {} => ~Pending(Overlay(w.item, item), k)
      BY <2>1 DEF Pending
    <2>3. state = "completed" => R = {}
      OBVIOUS
    <2> QED BY <1>2, <1>3, <2>2, <2>3 DEF BatchesFit
  <1>9. item' = Overlay(v.write.item, item) /\ batch' = Overlay(v.write.batch, batch)
    <2>1. item' = Overlay(w.item, item)
      BY <1>0, <1>3, <1>4 DEF Overlay, TypeOK
    <2>2. batch' = Overlay(w.batch, batch)
      BY <1>0, <1>3 DEF Overlay, TypeOK
    <2> QED BY <1>2, <2>1, <2>2
  <1>10. (\A x \in v.keys : KeyFree(x)) /\ s \in v.keys
    BY <1>0, <1>2 DEF Insert
  <1>11. UNCHANGED <<observation, session>>
    BY DEF Ingest
  <1>12. /\ v.kind = "import" /\ v.records = {} /\ v.shares = {}
         /\ v.write.record = [x \in {c} |-> NewDraft(s)]
         /\ v.write.channel = [x \in {s} |-> "intake"]
         /\ v.write.link = {<<c, s>>} /\ v.write.unlink = {} /\ v.write.observation = {}
    BY <1>1, <1>2
  <1>13. Insert(s, c, "intake") /\ "intake" \in Channels
    BY <1>0, <1>4
  <1> QED BY <1>6, <1>7, <1>8, <1>9, <1>10, <1>11, <1>12, <1>13, InsertKeepsIInv

-----------------------------------------------------------------------------
(* The steps that open a session *)

\* A session that fits and is apart from the other open ones is opened, or goes
\* on from what it has read.
LEMMA OpeningKeepsIInv ==
    ASSUME IInv, NEW t \in Sessions, NEW s, IsSession(s), Fits(s),
           \A u \in Sessions \ {t} : session[u] # None => Apart(s, session[u]),
           UNCHANGED ledger, session' = [session EXCEPT ![t] = s]
    PROVE  IInv'
  <1>1. /\ UNCHANGED <<record, channel, links, observation, item, batch>>
        /\ DOMAIN session = Sessions /\ DOMAIN session' = Sessions
        /\ session'[t] = s /\ \A u \in Sessions \ {t} : session'[u] = session[u]
    BY DEF ledger, IInv, TypeOK
  <1>2. TypeOK'
    <2>1. \A u \in Sessions : session'[u] = None \/ IsSession(session'[u])
      BY <1>1 DEF IInv, TypeOK
    <2> QED BY <1>1, <2>1 DEF IInv, TypeOK, IsSession, IsWrite
  <1>3. LinksAreLive' /\ OriginsAreKnown' /\ ItemsAreTied' /\ OneFactPerSource'
    BY <1>1 DEF IInv, LinksAreLive, OriginsAreKnown, ItemsAreTied, OneFactPerSource
  <1>4. CompletedBatchIsDecided'
    BY <1>1 DEF IInv, CompletedBatchIsDecided, Pending
  <1>5. ASSUME NEW u \in Sessions, session'[u] # None
        PROVE  Fits(session[u])'
    <2>1. CASE u = t
      BY <1>1, <2>1, FitsWhatStays
    <2>2. CASE u # t
      <3> PICK r : r = session[u]
        OBVIOUS
      <3>1. session'[u] = r /\ Fits(r)
        BY <1>1, <1>5, <2>2, SessionsFitMeans
      <3> QED BY <1>1, <3>1, FitsWhatStays
    <2> QED BY <2>1, <2>2
  <1>6. ASSUME NEW u \in Sessions, NEW x \in Sessions \ {u},
               session'[u] # None, session'[x] # None
        PROVE  Apart(session[u], session[x])'
    <2>1. CASE u = t
      <3>1. Apart(s, session[x])
        BY <1>1, <1>6, <2>1
      <3> QED BY <1>1, <1>6, <2>1, <3>1 DEF Apart
    <2>2. CASE x = t
      <3>1. Apart(s, session[u])
        BY <1>1, <1>6, <2>2
      <3> QED BY <1>1, <1>6, <2>2, <3>1 DEF Apart
    <2>3. CASE u # t /\ x # t
      <3>1. Apart(session[u], session[x])
        BY <1>1, <1>6, <2>3, SessionsFitMeans
      <3> QED BY <1>1, <1>6, <2>3, <3>1 DEF Apart
    <2> QED BY <2>1, <2>2, <2>3
  <1>7. SessionsFit'
    BY <1>5, <1>6 DEF SessionsFit, OpenSessions
  <1> QED BY <1>2, <1>3, <1>4, <1>7 DEF IInv

LEMMA LinkedIsLive ==
    ASSUME IInv, NEW s, NEW c \in Linked(s)
    PROVE  c \in Records /\ record[c].state \in Live
  <1>1. c \in Records /\ <<c, s>> \in links
    BY DEF Linked
  <1> QED BY <1>1 DEF IInv, LinksAreLive

LEMMA ObserveKeepsIInv ==
    ASSUME IInv, NEW t \in Sessions, NEW s \in Sources, Observe(t, s)
    PROVE  IInv'
  <1> DEFINE w == [NoWrite EXCEPT !.observation = {s}]
             v == [NewSession("observe") EXCEPT !.step = "read", !.records = Linked(s),
                                                !.write = w]
  <1>1. /\ w.record = Nothing /\ w.channel = Nothing /\ w.link = {} /\ w.unlink = {}
        /\ w.observation = {s} /\ w.item = Nothing /\ w.batch = Nothing
    BY DEF NoWrite
  <1>2. /\ v.kind = "observe" /\ v.step = "read" /\ v.records = Linked(s) /\ v.shares = {}
        /\ v.sources = {} /\ v.cited = {} /\ v.keys = {} /\ v.item = None
        /\ v.record = None /\ v.revision = 0 /\ v.write = w
    BY DEF NewSession
  <1>3. session' = [session EXCEPT ![t] = v] /\ UNCHANGED ledger
    BY DEF Observe, Start
  <1> HIDE DEF v, w
  <1>4. DOMAIN Nothing = {}
    BY DEF Nothing
  <1>5. \A c \in Linked(s) : c \in Records /\ record[c].state \in Live
    BY LinkedIsLive
  <1>6. IsSession(v)
    <2>1. IsWrite(w)
      BY <1>1, <1>4 DEF IsWrite, IsPartial
    <2>2. Linked(s) \subseteq Records
      BY <1>5
    <2> QED BY <1>2, <2>1, <2>2, ConstantsAssumption DEF IsSession
  <1>7. Fits(v)
    <2>1. LocksAreLive(v)
      BY <1>2, <1>5 DEF LocksAreLive
    <2>2. RecordsFit(v) /\ WithdrawalFits(v) /\ ChannelsFit(v) /\ LinksFit(v)
          /\ ItemsFit(v) /\ BatchesFit(v) /\ ReadFits(v)
      BY <1>1, <1>2, <1>4 DEF RecordsFit, WithdrawalFits, ChannelsFit, LinksFit, ItemsFit,
                              BatchesFit, ReadFits
    <2> QED BY <2>1, <2>2 DEF Fits
  <1>8. ASSUME NEW u \in Sessions, session[u] # None
        PROVE  Apart(v, session[u])
    <2>1. \A c \in Linked(s) : c \notin session[u].records \cup session[u].shares
      BY <1>5, <1>8, FreeRow DEF Observe
    <2> QED BY <1>1, <1>2, <1>4, <2>1 DEF Apart
  <1> QED BY <1>3, <1>6, <1>7, <1>8, OpeningKeepsIInv

LEMMA AppendObservationKeepsIInv ==
    ASSUME IInv, NEW t \in Sessions, AppendObservation(t)
    PROVE  IInv'
  <1> DEFINE old == session[t]
             w == [NoWrite EXCEPT !.observation = old.write.observation]
             v == [NewSession("observe") EXCEPT !.records = old.records,
                       !.sources = old.write.observation, !.write = w]
  <1>1. /\ w.record = Nothing /\ w.channel = Nothing /\ w.link = {} /\ w.unlink = {}
        /\ w.observation = old.write.observation /\ w.item = Nothing /\ w.batch = Nothing
    BY DEF NoWrite
  <1>2. /\ v.kind = "observe" /\ v.step = "written" /\ v.records = old.records
        /\ v.shares = {} /\ v.sources = old.write.observation /\ v.cited = {}
        /\ v.keys = {} /\ v.item = None
        /\ v.record = None /\ v.revision = 0 /\ v.write = w
    BY DEF NewSession
  <1>3. /\ session' = [session EXCEPT ![t] = v] /\ UNCHANGED ledger
        /\ session[t] # None
    BY DEF AppendObservation
  <1>4. IsSession(old) /\ Fits(old)
    BY <1>3, SessionsFitMeans
  <1>5. \A u \in Sessions \ {t} : session[u] # None => Apart(old, session[u])
    BY <1>3, SessionsFitMeans
  <1> HIDE DEF v, w, old
  <1>6. DOMAIN Nothing = {}
    BY DEF Nothing
  <1>7. IsSession(v)
    BY <1>1, <1>2, <1>4, <1>6, ConstantsAssumption DEF IsSession, IsWrite, IsPartial
  <1>8. Fits(v)
    <2>1. LocksAreLive(v)
      BY <1>2, <1>4 DEF LocksAreLive, Fits
    <2>2. RecordsFit(v) /\ WithdrawalFits(v) /\ ChannelsFit(v) /\ LinksFit(v)
          /\ ItemsFit(v) /\ BatchesFit(v) /\ ReadFits(v)
      BY <1>1, <1>2, <1>6 DEF RecordsFit, WithdrawalFits, ChannelsFit, LinksFit, ItemsFit,
                              BatchesFit, ReadFits
    <2> QED BY <2>1, <2>2 DEF Fits
  <1>9. ASSUME NEW u \in Sessions \ {t}, session[u] # None
        PROVE  Apart(v, session[u])
    BY <1>1, <1>2, <1>5, <1>6, <1>9 DEF Apart
  <1> QED BY <1>3, <1>7, <1>8, <1>9, OpeningKeepsIInv

LEMMA ConfirmedFields ==
    ASSUME IInv, NEW C, C \subseteq Records
    PROVE  /\ DOMAIN Confirmed(C) = C
           /\ \A c \in C : /\ Confirmed(C)[c] \in Record
                           /\ Confirmed(C)[c].state = "confirmed"
                           /\ Confirmed(C)[c].origin = record[c].origin
  <1>1. \A c \in C : record[c] \in Record
    BY DEF IInv, TypeOK
  <1>2. \A c \in C : Confirmed(C)[c] = [record[c] EXCEPT !.state = "confirmed"]
    BY DEF Confirmed
  <1>3. "confirmed" \in RecordStates
    BY DEF RecordStates
  <1> QED BY <1>1, <1>2, <1>3 DEF Confirmed, Record

LEMMA ConfirmRecordsKeepsIInv ==
    ASSUME IInv, NEW t \in Sessions, NEW C \in SUBSET Records, ConfirmRecords(t, C)
    PROVE  IInv'
  <1> DEFINE w == [NoWrite EXCEPT !.record = Confirmed(C)]
             v == [NewSession("confirm") EXCEPT !.records = C, !.write = w]
  <1>1. /\ w.record = Confirmed(C) /\ w.channel = Nothing /\ w.link = {} /\ w.unlink = {}
        /\ w.observation = {} /\ w.item = Nothing /\ w.batch = Nothing
    BY DEF NoWrite
  <1>2. /\ v.kind = "confirm" /\ v.step = "written" /\ v.records = C /\ v.shares = {}
        /\ v.sources = {} /\ v.cited = {} /\ v.keys = {} /\ v.item = None
        /\ v.record = None /\ v.revision = 0 /\ v.write = w
    BY DEF NewSession
  <1>3. session' = [session EXCEPT ![t] = v] /\ UNCHANGED ledger
    BY DEF ConfirmRecords, Start
  <1> HIDE DEF v, w
  <1>4. DOMAIN Nothing = {}
    BY DEF Nothing
  <1>5. \A c \in C : RowFree(c) /\ record[c].state \in Live
    BY DEF ConfirmRecords, Confirmable, Live
  <1>6. /\ DOMAIN w.record = C
        /\ \A c \in C : /\ w.record[c] \in Record /\ w.record[c].state = "confirmed"
                        /\ w.record[c].origin = record[c].origin
    BY <1>1, ConfirmedFields
  <1>7. IsSession(v)
    <2>1. IsWrite(w)
      BY <1>1, <1>4, <1>6 DEF IsWrite, IsPartial
    <2> QED BY <1>2, <2>1, ConstantsAssumption DEF IsSession
  <1>8. Fits(v)
    <2>1. LocksAreLive(v)
      BY <1>2, <1>5 DEF LocksAreLive
    <2>2. RecordsFit(v) /\ WithdrawalFits(v)
      BY <1>2, <1>6 DEF RecordsFit, WithdrawalFits, Live
    <2>3. ChannelsFit(v) /\ LinksFit(v) /\ ItemsFit(v) /\ BatchesFit(v) /\ ReadFits(v)
      BY <1>1, <1>2, <1>4 DEF ChannelsFit, LinksFit, ItemsFit, BatchesFit, ReadFits
    <2> QED BY <2>1, <2>2, <2>3 DEF Fits
  <1>9. ASSUME NEW u \in Sessions, session[u] # None
        PROVE  Apart(v, session[u])
    <2>1. \A c \in C : c \notin session[u].records \cup session[u].shares
                                  \cup DOMAIN session[u].write.record
      BY <1>5, <1>9, FreeRow
    <2> QED BY <1>1, <1>2, <1>6, <2>1 DEF Apart
  <1> QED BY <1>3, <1>7, <1>8, <1>9, OpeningKeepsIInv

LEMMA ReadReviewKeepsIInv ==
    ASSUME IInv, NEW t \in Sessions, NEW i \in ItemIds, ReadReview(t, i)
    PROVE  IInv'
  <1> DEFINE v == [NewSession("resolve") EXCEPT !.step = "read", !.item = i,
                       !.record = item[i].record, !.revision = item[i].revision]
  <1>1. /\ NoWrite.record = Nothing /\ NoWrite.channel = Nothing /\ NoWrite.link = {}
        /\ NoWrite.unlink = {} /\ NoWrite.observation = {} /\ NoWrite.item = Nothing
        /\ NoWrite.batch = Nothing
    BY DEF NoWrite
  <1>2. /\ v.kind = "resolve" /\ v.step = "read" /\ v.records = {} /\ v.shares = {}
        /\ v.sources = {} /\ v.cited = {} /\ v.keys = {} /\ v.item = i
        /\ v.record = item[i].record /\ v.revision = item[i].revision /\ v.write = NoWrite
    BY DEF NewSession
  <1>3. session' = [session EXCEPT ![t] = v] /\ UNCHANGED ledger /\ item[i] # None
    BY DEF ReadReview, Start
  <1> HIDE DEF v
  <1>4. DOMAIN Nothing = {}
    BY DEF Nothing
  <1>5. item[i] \in Item /\ item[i].record \in Records /\ item[i].revision \in 0..MaxRevision
    <2>1. item[i] \in Item
      BY <1>3 DEF IInv, TypeOK
    <2> QED BY <2>1, ConstantsAssumption DEF Item
  <1>6. IsSession(v)
    <2>1. IsWrite(NoWrite)
      BY <1>1, <1>4 DEF IsWrite, IsPartial
    <2> QED BY <1>2, <1>5, <2>1, ConstantsAssumption DEF IsSession
  <1>7. Fits(v)
    <2>1. LocksAreLive(v) /\ RecordsFit(v) /\ WithdrawalFits(v) /\ ChannelsFit(v)
      BY <1>1, <1>2, <1>4 DEF LocksAreLive, RecordsFit, WithdrawalFits, ChannelsFit
    <2>2. LinksFit(v) /\ ItemsFit(v) /\ BatchesFit(v)
      BY <1>1, <1>2, <1>4 DEF LinksFit, ItemsFit, BatchesFit
    <2>3. batch[i[1]] # "absent"
      BY <1>3 DEF IInv, ItemsAreTied
    <2>4. ReadFits(v)
      BY <1>2, <1>5, <2>3 DEF ReadFits
    <2> QED BY <2>1, <2>2, <2>4 DEF Fits
  <1>8. ASSUME NEW u \in Sessions, session[u] # None
        PROVE  Apart(v, session[u])
    BY <1>1, <1>2, <1>4 DEF Apart
  <1> QED BY <1>3, <1>6, <1>7, <1>8, OpeningKeepsIInv

LEMMA LinkEvidenceKeepsIInv ==
    ASSUME IInv, NEW t \in Sessions, NEW target \in Records, NEW s \in Sources,
           LinkEvidence(t, target, s)
    PROVE  IInv'
  <1> DEFINE w == [NoWrite EXCEPT !.link = {<<target, s>>}]
             v == [NewSession("merge") EXCEPT !.records = {target}, !.cited = {s},
                                              !.write = w]
  <1>1. /\ w.record = Nothing /\ w.channel = Nothing /\ w.link = {<<target, s>>}
        /\ w.unlink = {} /\ w.observation = {} /\ w.item = Nothing /\ w.batch = Nothing
    BY DEF NoWrite
  <1>2. /\ v.kind = "merge" /\ v.step = "written" /\ v.records = {target} /\ v.shares = {}
        /\ v.sources = {} /\ v.cited = {s} /\ v.keys = {} /\ v.item = None
        /\ v.record = None /\ v.revision = 0 /\ v.write = w
    BY DEF NewSession
  <1>3. session' = [session EXCEPT ![t] = v] /\ UNCHANGED ledger
    BY DEF LinkEvidence, Start
  <1> HIDE DEF v, w
  <1>4. DOMAIN Nothing = {}
    BY DEF Nothing
  <1>5. RowFree(target) /\ record[target].state \in Live /\ channel[s] # None
    BY DEF LinkEvidence, Live
  <1>6. IsSession(v)
    <2>1. IsWrite(w)
      BY <1>1, <1>4 DEF IsWrite, IsPartial
    <2> QED BY <1>2, <2>1, ConstantsAssumption DEF IsSession
  <1>7. Fits(v)
    <2>1. LocksAreLive(v)
      BY <1>2, <1>5 DEF LocksAreLive
    <2>2. LinksFit(v)
      BY <1>1, <1>2, <1>5 DEF LinksFit
    <2>3. RecordsFit(v) /\ WithdrawalFits(v) /\ ChannelsFit(v) /\ ItemsFit(v)
          /\ BatchesFit(v) /\ ReadFits(v)
      BY <1>1, <1>2, <1>4 DEF RecordsFit, WithdrawalFits, ChannelsFit, ItemsFit, BatchesFit,
                              ReadFits
    <2> QED BY <2>1, <2>2, <2>3 DEF Fits
  <1>8. ASSUME NEW u \in Sessions, session[u] # None
        PROVE  Apart(v, session[u])
    <2>1. target \notin session[u].records \cup session[u].shares
      BY <1>5, <1>8, FreeRow
    <2> QED BY <1>1, <1>2, <1>4, <2>1 DEF Apart
  <1> QED BY <1>3, <1>6, <1>7, <1>8, OpeningKeepsIInv

\* A batch is settled to a state, and to completed only without a pending item.
LEMMA SettledFields ==
    ASSUME NEW touched, NEW K
    PROVE  /\ DOMAIN Settled(touched, K) \subseteq K
           /\ \A k \in DOMAIN Settled(touched, K) :
                 /\ Settled(touched, K)[k] \in BatchStates
                 /\ Settled(touched, K)[k] = "completed" =>
                       ~Pending(Overlay(touched, item), k)
  <1> DEFINE new(k) == IF Pending(Overlay(touched, item), k) THEN "open" ELSE "completed"
  <1>1. Settled(touched, K) = [k \in {k \in K : batch[k] # new(k)} |-> new(k)]
    BY DEF Settled
  <1>2. \A k : new(k) \in BatchStates /\ (new(k) = "completed" => ~Pending(Overlay(touched, item), k))
    BY DEF BatchStates
  <1> HIDE DEF new
  <1> QED BY <1>1, <1>2

\* The items of a record in the ledger.
LEMMA ItemsOfFields ==
    ASSUME IInv, NEW c \in Records, NEW i \in ItemsOf(c)
    PROVE  /\ i \in ItemIds /\ i[1] \in Batches /\ i[2] \in Sources
           /\ item[i] # None /\ item[i] \in Item /\ item[i].record = c
           /\ batch[i[1]] # "absent" /\ <<c, i[2]>> \in links
  <1>1. i \in ItemIds /\ item[i] # None /\ item[i].record = c
    BY DEF ItemsOf
  <1> QED BY <1>1 DEF ItemIds, IInv, TypeOK, ItemsAreTied

LEMMA DeleteDraftKeepsIInv ==
    ASSUME IInv, NEW t \in Sessions, NEW c \in Records, DeleteDraft(t, c)
    PROVE  IInv'
  <1> DEFINE rows == [i \in ItemsOf(c) |-> None]
             K == {i[1] : i \in ItemsOf(c)}
             gone == [x \in {c} |-> [record[c] EXCEPT !.state = "deleted"]]
             cut == {l \in links : l[1] = c}
             closed == Settled(rows, K)
             w == [NoWrite EXCEPT !.record = gone, !.unlink = cut, !.item = rows,
                                  !.batch = closed]
             v == [NewSession("delete") EXCEPT !.records = {c}, !.write = w]
  <1>1. /\ w.record = gone /\ w.channel = Nothing /\ w.link = {}
        /\ w.unlink = cut /\ w.observation = {} /\ w.item = rows /\ w.batch = closed
    BY DEF NoWrite
  <1>2. /\ v.kind = "delete" /\ v.step = "written" /\ v.records = {c} /\ v.shares = {}
        /\ v.sources = {} /\ v.cited = {} /\ v.keys = {} /\ v.item = None
        /\ v.record = None /\ v.revision = 0 /\ v.write = w
    BY DEF NewSession
  <1>3. session' = [session EXCEPT ![t] = v] /\ UNCHANGED ledger
    BY DEF DeleteDraft, Start
  <1> HIDE DEF v, w
  <1>4. DOMAIN Nothing = {}
    BY DEF Nothing
  <1>5. RowFree(c) /\ record[c].state = "draft" /\ record[c].state \in Live
    BY DEF DeleteDraft, Live
  <1>6. /\ DOMAIN gone = {c} /\ gone[c].state = "deleted" /\ gone[c].origin = record[c].origin
        /\ gone[c] \in Record
    <2>1. record[c] \in Record
      BY DEF IInv, TypeOK
    <2> QED BY <2>1 DEF Record, RecordStates
  <1>7. DOMAIN rows = ItemsOf(c) /\ \A i \in ItemsOf(c) : rows[i] = None
    OBVIOUS
  <1>8. \A k \in K : k \in Batches /\ batch[k] # "absent"
    <2> SUFFICES ASSUME NEW i \in ItemsOf(c)
                 PROVE  i[1] \in Batches /\ batch[i[1]] # "absent"
      OBVIOUS
    <2> QED BY ItemsOfFields
  <1>9. /\ DOMAIN closed \subseteq K
        /\ \A k \in DOMAIN closed :
              /\ closed[k] \in BatchStates
              /\ closed[k] = "completed" => ~Pending(Overlay(rows, item), k)
    BY SettledFields
  <1>10. cut \subseteq Records \X Sources
    BY DEF IInv, TypeOK
  <1> HIDE DEF rows, K, gone, closed
  <1>11. IsSession(v)
    <2>1. IsPartial(w.item, ItemIds, Item \cup {None})
      BY <1>1, <1>7, ItemsOfFields DEF IsPartial
    <2>2. IsPartial(w.record, Records, Record)
      BY <1>1, <1>6 DEF IsPartial
    <2>3. IsPartial(w.batch, Batches, BatchStates)
      BY <1>1, <1>8, <1>9 DEF IsPartial
    <2>4. IsWrite(w)
      BY <1>1, <1>4, <1>10, <2>1, <2>2, <2>3 DEF IsWrite, IsPartial
    <2> QED BY <1>2, <2>4, ConstantsAssumption DEF IsSession
  <1>12. Fits(v)
    <2>1. LocksAreLive(v)
      BY <1>2, <1>5 DEF LocksAreLive
    <2>2. RecordsFit(v)
      BY <1>1, <1>2, <1>6 DEF RecordsFit
    <2>3. WithdrawalFits(v)
      BY <1>1, <1>2, <1>6, <1>7 DEF WithdrawalFits
    <2>4. LinksFit(v)
      BY <1>1, <1>2, <1>6 DEF LinksFit, Live
    <2>5. ItemsFit(v)
      BY <1>1, <1>2, <1>7, ItemsOfFields DEF ItemsFit
    <2>6. BatchesFit(v)
      BY <1>1, <1>2, <1>8, <1>9 DEF BatchesFit
    <2>7. ChannelsFit(v) /\ ReadFits(v)
      BY <1>1, <1>2, <1>4 DEF ChannelsFit, ReadFits
    <2> QED BY <2>1, <2>2, <2>3, <2>4, <2>5, <2>6, <2>7 DEF Fits
  <1>13. ASSUME NEW u \in Sessions, session[u] # None
        PROVE  Apart(v, session[u])
    <2>1. c \notin session[u].records \cup session[u].shares \cup DOMAIN session[u].write.record
      BY <1>5, <1>13, FreeRow
    <2> QED BY <1>1, <1>2, <1>6, <2>1 DEF Apart
  <1> QED BY <1>3, <1>11, <1>12, <1>13, OpeningKeepsIInv

LEMMA MovedFields ==
    ASSUME NEW old \in Item, NEW target \in Records, old.revision < MaxRevision
    PROVE  /\ Moved(old, target) \in Item
           /\ Moved(old, target).record = target
           /\ Moved(old, target).state = "dismissed"
           /\ Moved(old, target).revision > old.revision
  <1>1. old.revision \in 1..MaxRevision /\ old.reasons \subseteq Reasons \cup {"duplicate"}
    BY DEF Item
  <1>2. old.revision + 1 \in 1..MaxRevision /\ old.revision + 1 > old.revision
    BY <1>1, ConstantsAssumption
  <1> DEFINE new == Moved(old, target)
  <1>3. /\ new.record = target /\ new.state = "dismissed"
        /\ new.reasons = old.reasons \cup {"duplicate"} /\ new.revision = old.revision + 1
    BY DEF Moved, Item
  <1>4. new \in Item
    BY <1>1, <1>2 DEF Moved, Item
  <1> HIDE DEF new
  <1>5. new.revision > old.revision
    BY <1>2, <1>3
  <1> QED BY <1>3, <1>4, <1>5 DEF new

LEMMA MergeDraftKeepsIInv ==
    ASSUME IInv, NEW t \in Sessions, NEW target \in Records, NEW duplicate \in Records,
           NEW s \in Sources, MergeDraft(t, target, duplicate, s)
    PROVE  IInv'
  <1> DEFINE moved == Moves(duplicate, s)
             rows == [i \in ItemsOf(duplicate) |-> Moved(item[i], target)]
             K == {i[1] : i \in ItemsOf(duplicate)}
             gone == [x \in {duplicate} |-> [record[x] EXCEPT !.state = "merged"]]
             cut == {l \in links : l[1] = duplicate}
             new == {<<target, l[2]>> : l \in moved}
             cites == {l[2] : l \in moved}
             closed == Settled(rows, K)
             w == [NoWrite EXCEPT !.record = gone, !.unlink = cut, !.link = new,
                                  !.item = rows, !.batch = closed]
             v == [NewSession("merge") EXCEPT !.records = {target, duplicate},
                                              !.cited = cites, !.write = w]
  <1>1. /\ w.record = gone /\ w.channel = Nothing /\ w.link = new
        /\ w.unlink = cut /\ w.observation = {} /\ w.item = rows /\ w.batch = closed
    BY DEF NoWrite
  <1>2. /\ v.kind = "merge" /\ v.step = "written" /\ v.records = {target, duplicate}
        /\ v.shares = {} /\ v.sources = {} /\ v.cited = cites /\ v.keys = {}
        /\ v.item = None /\ v.record = None /\ v.revision = 0 /\ v.write = w
    BY DEF NewSession
  <1>3. session' = [session EXCEPT ![t] = v] /\ UNCHANGED ledger
    BY DEF MergeDraft, Start
  <1> HIDE DEF v, w
  <1>4. DOMAIN Nothing = {}
    BY DEF Nothing
  <1>5. /\ RowFree(target) /\ record[target].state \in Live
        /\ RowFree(duplicate) /\ record[duplicate].state \in Live
        /\ target # duplicate
    BY DEF MergeDraft, Live
  <1>6. /\ DOMAIN gone = {duplicate} /\ gone[duplicate].state = "merged"
        /\ gone[duplicate].origin = record[duplicate].origin
        /\ gone[duplicate] \in Record
    <2>1. record[duplicate] \in Record
      BY DEF IInv, TypeOK
    <2> QED BY <2>1 DEF Record, RecordStates
  <1>7. /\ DOMAIN rows = ItemsOf(duplicate)
        /\ \A i \in ItemsOf(duplicate) :
              /\ rows[i] \in Item /\ rows[i].record = target /\ rows[i].state = "dismissed"
              /\ rows[i].revision > item[i].revision
    <2>1. ASSUME NEW i \in ItemsOf(duplicate)
          PROVE  item[i] \in Item /\ item[i].revision < MaxRevision
      BY ItemsOfFields DEF MergeDraft
    <2> QED BY <2>1, MovedFields
  <1>8. \A k \in K : k \in Batches /\ batch[k] # "absent"
    <2> SUFFICES ASSUME NEW i \in ItemsOf(duplicate)
                 PROVE  i[1] \in Batches /\ batch[i[1]] # "absent"
      OBVIOUS
    <2> QED BY ItemsOfFields
  <1>9. /\ DOMAIN closed \subseteq K
        /\ \A k \in DOMAIN closed :
              /\ closed[k] \in BatchStates
              /\ closed[k] = "completed" => ~Pending(Overlay(rows, item), k)
    BY SettledFields
  <1>10. cut \subseteq Records \X Sources /\ moved = cut
    BY DEF IInv, TypeOK, Moves
  <1>11. \A l \in cut : l[2] \in Sources /\ channel[l[2]] # None /\ <<target, l[2]>> \in new
    BY <1>10 DEF IInv, LinksAreLive
  <1>12. new \subseteq Records \X Sources /\ cites \subseteq Sources
    BY <1>10
  <1>13. \A l \in new : l[1] = target /\ channel[l[2]] # None
    BY <1>10, <1>11
  <1>14. \A i \in ItemsOf(duplicate) : <<target, i[2]>> \in new
    <2>1. ASSUME NEW i \in ItemsOf(duplicate)
          PROVE  <<target, i[2]>> \in new
      <3>1. <<duplicate, i[2]>> \in moved
        BY <1>10, ItemsOfFields
      <3>2. <<target, <<duplicate, i[2]>>[2]>> \in new
        BY <3>1
      <3> QED BY <3>2
    <2> QED BY <2>1
  <1>15. \A l \in cut : l[1] = duplicate /\ \E c \in Records : <<c, l[2]>> \in new
    BY <1>11
  <1> HIDE DEF rows, K, gone, closed, new, cites
  <1>16. IsSession(v)
    <2>1. IsPartial(w.item, ItemIds, Item \cup {None})
      BY <1>1, <1>7, ItemsOfFields DEF IsPartial
    <2>2. IsPartial(w.record, Records, Record)
      BY <1>1, <1>6 DEF IsPartial
    <2>3. IsPartial(w.batch, Batches, BatchStates)
      BY <1>1, <1>8, <1>9 DEF IsPartial
    <2>4. IsWrite(w)
      BY <1>1, <1>4, <1>10, <1>12, <2>1, <2>2, <2>3 DEF IsWrite, IsPartial
    <2> QED BY <1>2, <1>12, <2>4, ConstantsAssumption DEF IsSession
  <1> HIDE DEF cut, moved
  <1>17. Fits(v)
    <2>1. LocksAreLive(v)
      BY <1>2, <1>5 DEF LocksAreLive
    <2>2. RecordsFit(v)
      BY <1>1, <1>2, <1>6 DEF RecordsFit
    <2>3. WithdrawalFits(v)
      <3>1. \A i \in DOMAIN rows : rows[i].record # duplicate
        BY <1>5, <1>7
      <3>2. \A l \in new : l[1] # duplicate
        BY <1>5, <1>13
      <3> QED BY <1>1, <1>2, <1>6, <1>7, <3>1, <3>2 DEF WithdrawalFits, cut
    <2>4. LinksFit(v)
      BY <1>1, <1>2, <1>6, <1>13, <1>15 DEF LinksFit, Live
    <2>5. ItemsFit(v)
      <3>1. \A i \in DOMAIN rows :
               /\ item[i] # None /\ item[i].record = duplicate
               /\ rows[i].revision > item[i].revision /\ rows[i].state = "dismissed"
               /\ rows[i].record = target /\ <<target, i[2]>> \in new
        BY <1>7, <1>14, ItemsOfFields
      <3> QED BY <1>1, <1>2, <3>1 DEF ItemsFit
    <2>6. BatchesFit(v)
      BY <1>1, <1>2, <1>8, <1>9 DEF BatchesFit
    <2>7. ChannelsFit(v) /\ ReadFits(v)
      BY <1>1, <1>2, <1>4 DEF ChannelsFit, ReadFits
    <2> QED BY <2>1, <2>2, <2>3, <2>4, <2>5, <2>6, <2>7 DEF Fits
  <1>18. ASSUME NEW u \in Sessions, session[u] # None
        PROVE  Apart(v, session[u])
    <2>1. /\ target \notin session[u].records \cup session[u].shares
          /\ duplicate \notin session[u].records \cup session[u].shares
                                 \cup DOMAIN session[u].write.record
      BY <1>5, <1>18, FreeRow
    <2> QED BY <1>1, <1>2, <1>6, <2>1 DEF Apart
  <1> QED BY <1>3, <1>16, <1>17, <1>18, OpeningKeepsIInv

LEMMA DecidedFields ==
    ASSUME NEW old \in Item, old.state = "pending", old.revision < MaxRevision,
           NEW dismiss \in BOOLEAN, NEW left \in SUBSET old.reasons
    PROVE  /\ Decided(old, dismiss, left) \in Item
           /\ Decided(old, dismiss, left).record = old.record
           /\ Decided(old, dismiss, left).revision > old.revision
  <1>1. old.revision \in 1..MaxRevision /\ old.reasons \subseteq Reasons \cup {"duplicate"}
    BY DEF Item
  <1>2. old.revision + 1 \in 1..MaxRevision /\ old.revision + 1 > old.revision
    BY <1>1, ConstantsAssumption
  <1>3. left \subseteq Reasons \cup {"duplicate"}
    BY <1>1
  <1> DEFINE new == Decided(old, dismiss, left)
  <1>4. new.record = old.record /\ new.revision = old.revision + 1
    BY DEF Decided, Item
  <1>5. new \in Item
    BY <1>1, <1>2, <1>3 DEF Decided, Item
  <1> HIDE DEF new
  <1>6. new.revision > old.revision
    BY <1>2, <1>4
  <1> QED BY <1>4, <1>5, <1>6 DEF new

\* The locked item is the one that was read, so its record is the locked one.
LEMMA DecisionIsOnWhatWasRead ==
    ASSUME IInv, NEW t \in Sessions, session[t] # None,
           session[t].kind = "resolve", session[t].step = "read", Current(t)
    PROVE  /\ session[t].item \in ItemIds
           /\ item[session[t].item] # None
           /\ session[t].record \in Records
           /\ session[t].item \in ItemsOf(session[t].record)
  <1>1. ReadFits(session[t])
    BY SessionsFitMeans DEF Fits
  <1>2. /\ session[t].item \in ItemIds /\ item[session[t].item] # None
        /\ item[session[t].item].record = session[t].record
    BY <1>1 DEF ReadFits, Current
  <1>3. item[session[t].item] \in Item
    BY <1>2 DEF IInv, TypeOK
  <1> QED BY <1>2, <1>3 DEF ItemsOf, Item

LEMMA DecisionKeepsIInv ==
    ASSUME IInv, NEW t \in Sessions, NEW dismiss \in BOOLEAN, NEW reasons \in SUBSET Reasons,
           NEW confirm \in BOOLEAN, Decision(t, dismiss, reasons, confirm)
    PROVE  IInv'
  <1> DEFINE i == session[t].item
             c == session[t].record
             new == Decided(item[i], dismiss, item[i].reasons \ reasons)
             rows == [x \in {i} |-> new]
             made == IF confirm THEN Confirmed({c}) ELSE Nothing
             closed == Settled(rows, {i[1]})
             w == [NoWrite EXCEPT !.record = made, !.item = rows, !.batch = closed]
             v == [NewSession("resolve") EXCEPT !.records = {c}, !.write = w]
  <1>1. /\ w.record = made /\ w.channel = Nothing /\ w.link = {}
        /\ w.unlink = {} /\ w.observation = {} /\ w.item = rows /\ w.batch = closed
    BY DEF NoWrite
  <1>2. /\ v.kind = "resolve" /\ v.step = "written" /\ v.records = {c} /\ v.shares = {}
        /\ v.sources = {} /\ v.cited = {} /\ v.keys = {} /\ v.item = None
        /\ v.record = None /\ v.revision = 0 /\ v.write = w
    BY DEF NewSession
  <1>3. session' = [session EXCEPT ![t] = v] /\ UNCHANGED ledger /\ session[t] # None
    BY DEF Decision
  <1> HIDE DEF v, w
  <1>4. DOMAIN Nothing = {}
    BY DEF Nothing
  <1>5. i \in ItemIds /\ c \in Records /\ i \in ItemsOf(c)
    BY DecisionIsOnWhatWasRead DEF Decision
  <1>6. /\ RowFree(c) /\ record[c].state \in Live
        /\ item[i].state = "pending" /\ item[i].revision < MaxRevision
    BY DEF Decision
  <1>7. /\ i[1] \in Batches /\ item[i] # None /\ item[i] \in Item /\ item[i].record = c
        /\ batch[i[1]] # "absent" /\ <<c, i[2]>> \in links
    BY <1>5, ItemsOfFields
  <1>8. new \in Item /\ new.record = c /\ new.revision > item[i].revision
    <2>1. item[i].reasons \ reasons \in SUBSET item[i].reasons
      OBVIOUS
    <2> QED BY <1>6, <1>7, <2>1, DecidedFields
  <1> HIDE DEF new
  <1>9. DOMAIN rows = {i} /\ rows[i] = new
    OBVIOUS
  <1>10. /\ DOMAIN made \subseteq {c}
         /\ c \in DOMAIN made => /\ made[c] \in Record /\ made[c].state = "confirmed"
                                 /\ made[c].origin = record[c].origin
    <2>1. CASE confirm
      <3>1. {c} \subseteq Records /\ made = Confirmed({c})
        BY <1>5, <2>1
      <3>2. /\ DOMAIN Confirmed({c}) = {c} /\ Confirmed({c})[c] \in Record
            /\ Confirmed({c})[c].state = "confirmed"
            /\ Confirmed({c})[c].origin = record[c].origin
        BY <3>1, ConfirmedFields
      <3> QED BY <3>1, <3>2
    <2>2. CASE ~confirm
      BY <1>4, <2>2
    <2> QED BY <2>1, <2>2
  <1>11. /\ DOMAIN closed \subseteq {i[1]}
         /\ \A k \in DOMAIN closed :
               /\ closed[k] \in BatchStates
               /\ closed[k] = "completed" => ~Pending(Overlay(rows, item), k)
    BY SettledFields
  <1> HIDE DEF i, c, rows, made, closed
  <1>12. IsSession(v)
    <2>1. IsPartial(w.item, ItemIds, Item \cup {None})
      BY <1>1, <1>5, <1>8, <1>9 DEF IsPartial
    <2>2. IsPartial(w.record, Records, Record)
      BY <1>1, <1>5, <1>10 DEF IsPartial
    <2>3. IsPartial(w.batch, Batches, BatchStates)
      BY <1>1, <1>7, <1>11 DEF IsPartial
    <2>4. IsWrite(w)
      BY <1>1, <1>4, <2>1, <2>2, <2>3 DEF IsWrite, IsPartial
    <2> QED BY <1>2, <1>5, <2>4, ConstantsAssumption DEF IsSession
  <1>13. Fits(v)
    <2>1. LocksAreLive(v)
      BY <1>2, <1>6 DEF LocksAreLive
    <2>2. RecordsFit(v)
      BY <1>1, <1>2, <1>10 DEF RecordsFit
    <2>3. WithdrawalFits(v)
      BY <1>1, <1>2, <1>10 DEF WithdrawalFits, Live
    <2>4. LinksFit(v)
      BY <1>1, <1>2 DEF LinksFit
    <2>5. ItemsFit(v)
      BY <1>1, <1>2, <1>6, <1>7, <1>8, <1>9 DEF ItemsFit
    <2>6. BatchesFit(v)
      BY <1>1, <1>2, <1>7, <1>11 DEF BatchesFit
    <2>7. ChannelsFit(v) /\ ReadFits(v)
      BY <1>1, <1>2, <1>4 DEF ChannelsFit, ReadFits
    <2> QED BY <2>1, <2>2, <2>3, <2>4, <2>5, <2>6, <2>7 DEF Fits
  <1>14. ASSUME NEW u \in Sessions \ {t}, session[u] # None
         PROVE  Apart(v, session[u])
    <2>1. c \notin session[u].records \cup session[u].shares \cup DOMAIN session[u].write.record
      BY <1>5, <1>6, <1>14, FreeRow
    <2> QED BY <1>1, <1>2, <1>10, <2>1 DEF Apart
  <1> QED BY <1>3, <1>12, <1>13, <1>14, OpeningKeepsIInv

LEMMA ImportRowsKeepsIInv ==
    ASSUME IInv, NEW t \in Sessions, NEW k \in Batches, NEW changed \in SUBSET RowsOf[k],
           NEW drafts \in [RowsOf[k] -> Records], NEW R \in [RowsOf[k] -> SUBSET Reasons],
           ImportRows(t, k, changed, drafts, R)
    PROVE  IInv'
  <1> DEFINE S == RowsOf[k]
             known == Known(S)
             new == S \ known
             rows == [i \in {k} \X S |->
                 IF i[2] \in new THEN NewItem(drafts[i[2]], R[i[2]])
                                 ELSE NewItem(drafts[i[2]], {"duplicate"})]
             locked == UNION {Linked(s) : s \in changed}
             cites == {drafts[s] : s \in known}
             made == [c \in {drafts[s] : s \in new} |->
                         NewDraft(CHOOSE s \in new : drafts[s] = c)]
             channels == [s \in new |-> "import"]
             joined == {<<drafts[s], s>> : s \in new}
             observed == {s \in changed : observation[s] = "none"}
             state == IF Pending(Overlay(rows, item), k) THEN "open" ELSE "completed"
             put == [x \in {k} |-> state]
             w == [NoWrite EXCEPT !.record = made, !.channel = channels, !.link = joined,
                                  !.observation = observed, !.item = rows, !.batch = put]
             v == [NewSession("import") EXCEPT !.records = locked, !.shares = cites,
                       !.sources = changed, !.cited = known, !.keys = S \cup {k}, !.write = w]
  <1>1. /\ w.record = made /\ w.channel = channels /\ w.link = joined
        /\ w.unlink = {} /\ w.observation = observed /\ w.item = rows /\ w.batch = put
    BY DEF NoWrite
  <1>2. /\ v.kind = "import" /\ v.step = "written" /\ v.records = locked /\ v.shares = cites
        /\ v.sources = changed /\ v.cited = known /\ v.keys = S \cup {k} /\ v.item = None
        /\ v.record = None /\ v.revision = 0 /\ v.write = w
    BY DEF NewSession
  <1>3. session' = [session EXCEPT ![t] = v] /\ UNCHANGED ledger
    BY DEF ImportRows, Start
  <1> HIDE DEF v, w
  <1>4. /\ S \subseteq Sources /\ changed \subseteq S /\ known \subseteq S
        /\ \A s \in S : drafts[s] \in Records /\ R[s] \subseteq Reasons
        /\ \A s \in new : channel[s] = None
    BY ConstantsAssumption DEF Known
  <1>5. /\ batch[k] = "absent" /\ \A x \in S \cup {k} : KeyFree(x)
        /\ changed \subseteq known
        /\ \A s \in known : drafts[s] \in Linked(s)
        /\ \A s \in changed : \A c \in Linked(s) : RowFree(c)
        /\ \A s \in known : ~RowLocked(drafts[s])
        /\ \A s \in new : drafts[s] \in Unused
        /\ \A s1, s2 \in new : drafts[s1] = drafts[s2] => s1 = s2
    BY DEF ImportRows, RowFree
  <1> HIDE DEF S, known
  <1>6. \A c \in locked : /\ c \in Records /\ record[c].state \in Live /\ RowFree(c)
    BY <1>5, LinkedIsLive
  <1>7. \A c \in cites : c \in Records /\ record[c].state \in Live /\ ~RowLocked(c)
    BY <1>5, LinkedIsLive
  <1>8. /\ DOMAIN made = {drafts[s] : s \in new}
        /\ \A s \in new : made[drafts[s]] = NewDraft(s)
    <2>1. ASSUME NEW s \in new
          PROVE  (CHOOSE x \in new : drafts[x] = drafts[s]) = s
      BY <1>5
    <2> QED BY <2>1
  <1>9. \A s \in new : /\ made[drafts[s]] \in Record
                       /\ made[drafts[s]].state = "draft" /\ made[drafts[s]].origin = s
    <2>1. \A s \in new : s \in Sources
      BY <1>4
    <2> QED BY <1>8, <2>1 DEF NewDraft, Record, RecordStates
  <1>10. /\ DOMAIN rows = {k} \X S
         /\ \A s \in S : rows[<<k, s>>] \in Item /\ rows[<<k, s>>].record = drafts[s]
    <2>1. ASSUME NEW s \in S
          PROVE  rows[<<k, s>>] \in Item /\ rows[<<k, s>>].record = drafts[s]
      <3>1. <<k, s>> \in {k} \X S /\ <<k, s>>[2] = s /\ drafts[s] \in Records
        BY <1>4
      <3>2. CASE s \in new
        <4>1. rows[<<k, s>>] = NewItem(drafts[s], R[s])
          BY <3>1, <3>2
        <4>2. R[s] \in SUBSET (Reasons \cup {"duplicate"})
          BY <1>4
        <4> QED BY <3>1, <4>1, <4>2, NewItemFields
      <3>3. CASE s \notin new
        <4>1. rows[<<k, s>>] = NewItem(drafts[s], {"duplicate"})
          BY <3>1, <3>3
        <4>2. {"duplicate"} \in SUBSET (Reasons \cup {"duplicate"})
          OBVIOUS
        <4> QED BY <3>1, <4>1, <4>2, NewItemFields
      <3> QED BY <3>2, <3>3
    <2> QED BY <2>1
  <1>11. /\ DOMAIN channels = new /\ \A s \in new : channels[s] \in Channels
         /\ DOMAIN put = {k} /\ put[k] \in BatchStates
         /\ put[k] = "completed" => ~Pending(Overlay(rows, item), k)
    BY DEF Channels, BatchStates
  <1>12. \A l \in joined : /\ l \in Records \X Sources
                           /\ l[1] \in DOMAIN made /\ l[2] \in new
    BY <1>4, <1>8
  <1>13. \A s \in new : <<drafts[s], s>> \in joined
    OBVIOUS
  <1>14. observed \subseteq changed /\ changed \subseteq Sources /\ known \subseteq Sources
         /\ S \cup {k} \subseteq Batches \cup Sources
    BY <1>4
  <1>15. \A s \in S : drafts[s] \in cites \cup DOMAIN made
    BY <1>8
  <1>16. new \subseteq S /\ S \ new \subseteq known /\ new \subseteq Sources
    BY <1>4
  <1> HIDE DEF rows, locked, cites, made, channels, joined, observed, put, new
  <1>17. IsSession(v)
    <2>1. IsPartial(w.item, ItemIds, Item \cup {None})
      <3>1. ASSUME NEW i \in {k} \X S
            PROVE  i \in ItemIds /\ rows[i] \in Item
        <4>1. PICK s \in S : i = <<k, s>>
          OBVIOUS
        <4> QED BY <1>4, <1>10, <4>1 DEF ItemIds
      <3> QED BY <1>1, <1>10, <3>1 DEF IsPartial
    <2>2. IsPartial(w.record, Records, Record)
      BY <1>1, <1>4, <1>8, <1>9, <1>16 DEF IsPartial
    <2>3. IsPartial(w.batch, Batches, BatchStates) /\ IsPartial(w.channel, Sources, Channels)
      BY <1>1, <1>11, <1>16 DEF IsPartial
    <2>4. w.link \subseteq Records \X Sources
      BY <1>1, <1>12
    <2>5. w.observation \subseteq Sources
      BY <1>1, <1>14
    <2>6. IsWrite(w)
      BY <1>1, <2>1, <2>2, <2>3, <2>4, <2>5 DEF IsWrite
    <2>7. v.records \subseteq Records /\ v.shares \subseteq Records
      BY <1>2, <1>6, <1>7
    <2> QED BY <1>2, <1>14, <2>6, <2>7, ConstantsAssumption DEF IsSession
  <1>18. Fits(v)
    <2>1. LocksAreLive(v)
      BY <1>2, <1>6, <1>7 DEF LocksAreLive
    <2>2. ASSUME NEW c \in DOMAIN made
          PROVE  /\ record[c].state = "absent" /\ made[c].state = "draft"
                 /\ made[c].origin \in DOMAIN channels
                 /\ \A d \in DOMAIN made : made[d].origin = made[c].origin => d = c
      <3>1. PICK s \in new : c = drafts[s]
        BY <1>8
      <3>2. record[c].state = "absent"
        BY <1>5, <3>1, UnusedRow
      <3>3. \A d \in DOMAIN made : made[d].origin = made[c].origin => d = c
        BY <1>8, <1>9, <3>1
      <3> QED BY <1>9, <1>11, <3>1, <3>2, <3>3
    <2>3. RecordsFit(v)
      BY <1>1, <1>2, <2>2 DEF RecordsFit
    <2>4. WithdrawalFits(v)
      BY <1>1, <1>2, <2>2 DEF WithdrawalFits, Live
    <2>5. ChannelsFit(v)
      BY <1>1, <1>2, <1>4, <1>11, <1>16 DEF ChannelsFit, new
    <2>6. LinksFit(v)
      BY <1>1, <1>2, <1>11, <1>12 DEF LinksFit
    <2>7. ASSUME NEW i \in DOMAIN rows
          PROVE  /\ item[i] = None /\ batch[i[1]] = "absent" /\ i[1] = k
                 /\ rows[i].record \in cites \cup DOMAIN made
                 /\ <<rows[i].record, i[2]>> \in links \cup joined
      <3>1. PICK s \in S : i = <<k, s>>
        BY <1>10
      <3>2. item[i] = None
        BY <1>4, <1>5, <3>1, AbsentBatchIsEmpty
      <3>3. rows[i].record = drafts[s] /\ i[1] = k /\ i[2] = s
        BY <1>10, <3>1
      <3>4. CASE s \in new
        BY <1>5, <1>13, <1>15, <3>2, <3>3, <3>4
      <3>5. CASE s \notin new
        <4>1. <<drafts[s], s>> \in links
          BY <1>5, <1>16, <3>5 DEF Linked
        <4> QED BY <1>5, <1>15, <3>2, <3>3, <4>1
      <3> QED BY <3>4, <3>5
    <2>8. ItemsFit(v)
      BY <1>1, <1>2, <1>11, <2>7 DEF ItemsFit
    <2>9. BatchesFit(v)
      BY <1>1, <1>2, <1>11 DEF BatchesFit
    <2>10. ReadFits(v)
      BY <1>2 DEF ReadFits
    <2> QED BY <2>1, <2>3, <2>4, <2>5, <2>6, <2>8, <2>9, <2>10 DEF Fits
  <1>19. ASSUME NEW u \in Sessions, session[u] # None
         PROVE  Apart(v, session[u])
    <2>1. \A c \in locked : c \notin session[u].records \cup session[u].shares
      BY <1>6, <1>19, FreeRow
    <2>2. \A c \in cites : c \notin session[u].records
      BY <1>7, <1>19 DEF RowLocked, OpenSessions
    <2>3. \A x \in S \cup {k} : x \notin session[u].keys
      BY <1>5, <1>19, KeysAreFree
    <2>4. \A c \in DOMAIN made : c \notin DOMAIN session[u].write.record
      BY <1>5, <1>8, <1>19, UnusedRow
    <2> QED BY <1>1, <1>2, <2>1, <2>2, <2>3, <2>4 DEF Apart
  <1> QED BY <1>3, <1>17, <1>18, <1>19, OpeningKeepsIInv

-----------------------------------------------------------------------------
(* The theorems *)

LEMMA InitSatisfiesIInv == Init => IInv
  <1> SUFFICES ASSUME Init
               PROVE  IInv
    OBVIOUS
  <1>1. TypeOK
    BY DEF Init, TypeOK, Record, RecordStates
  <1>2. \A c \in Records : record[c].state = "absent" /\ record[c].origin = None
    BY DEF Init
  <1>3. links = {} /\ \A i \in ItemIds : item[i] = None
    BY DEF Init
  <1>4. LinksAreLive /\ OriginsAreKnown /\ OneFactPerSource /\ ItemsAreTied
    BY <1>2, <1>3 DEF LinksAreLive, OriginsAreKnown, OneFactPerSource, ItemsAreTied
  <1>5. CompletedBatchIsDecided
    BY DEF Init, CompletedBatchIsDecided
  <1>6. SessionsFit
    BY DEF Init, SessionsFit, OpenSessions
  <1> QED BY <1>1, <1>4, <1>5, <1>6 DEF IInv

LEMMA NextKeepsIInv == IInv /\ [Next]_vars => IInv'
  <1> SUFFICES ASSUME IInv, [Next]_vars
               PROVE  IInv'
    OBVIOUS
  <1>1. CASE UNCHANGED vars
    <2>1. UNCHANGED <<record, channel, links, item, batch, session>> /\ UNCHANGED observation
      BY <1>1 DEF vars, ledger
    <2>2. observation' \in [Sources -> {"none", "pending", "kept", "applied"}]
      BY <2>1 DEF IInv, TypeOK
    <2> QED BY <2>1, <2>2, ObservationsAreApart
  <1>2. ASSUME NEW t \in Sessions, Deliver(t)
        PROVE  IInv'
    BY <1>2, ImportRowsKeepsIInv, ObserveKeepsIInv, AppendObservationKeepsIInv DEF Deliver
  <1>3. ASSUME NEW t \in Sessions, Review(t)
        PROVE  IInv'
    <2>1. ASSUME NEW C \in SUBSET Records, ConfirmRecords(t, C)
          PROVE  IInv'
      BY <2>1, ConfirmRecordsKeepsIInv
    <2>2. ASSUME NEW i \in ItemIds, ReadReview(t, i)
          PROVE  IInv'
      BY <2>2, ReadReviewKeepsIInv
    <2>3. ASSUME NEW reasons \in SUBSET Reasons, NEW dismiss \in BOOLEAN,
                 NEW confirm \in BOOLEAN, Decision(t, dismiss, reasons, confirm)
          PROVE  IInv'
      BY <2>3, DecisionKeepsIInv
    <2> QED BY <1>3, <2>1, <2>2, <2>3 DEF Review
  <1>4. ASSUME NEW t \in Sessions, Withdraw(t)
        PROVE  IInv'
    BY <1>4, DeleteDraftKeepsIInv, LinkEvidenceKeepsIInv, MergeDraftKeepsIInv DEF Withdraw
  <1>5. ASSUME NEW t \in Sessions, Commit(t) \/ Rollback(t)
        PROVE  IInv'
    BY <1>5, CommitKeepsIInv, RollbackKeepsIInv
  <1>6. ASSUME NEW s \in Sources, NEW c \in Records, ImportStructured(s, c)
        PROVE  IInv'
    BY <1>6, ImportStructuredKeepsIInv
  <1>7. ASSUME NEW s \in Sources, NEW k \in Batches, NEW c \in Records,
               NEW R \in SUBSET Reasons, Ingest(s, k, c, R)
        PROVE  IInv'
    BY <1>7, IngestKeepsIInv
  <1>8. ASSUME NEW s \in Sources, NEW decision \in {"kept", "applied"},
               DecideObservation(s, decision)
        PROVE  IInv'
    BY <1>8, DecideObservationKeepsIInv
  <1>9. ASSUME NEW c \in Records, VoidRecord(c)
        PROVE  IInv'
    BY <1>9, VoidRecordKeepsIInv
  <1> QED BY <1>1, <1>2, <1>3, <1>4, <1>5, <1>6, <1>7, <1>8, <1>9 DEF Next

\* The inductive invariant holds in every reachable state.
THEOREM Invariance == Spec => []IInv
  <1> QED BY InitSatisfiesIInv, NextKeepsIInv, PTL DEF Spec

\* Rows, items, batches and sessions have their types.
THEOREM TypeCorrect == Spec => []TypeOK
  <1>1. IInv => TypeOK
    BY DEF IInv
  <1> QED BY <1>1, Invariance, PTL

\* A batch shown as completed has no item left to decide, however the decisions
\* about its items, merges and deletions overlap.
THEOREM CompletedBatchesAreDecided == Spec => []CompletedBatchIsDecided
  <1>1. IInv => CompletedBatchIsDecided
    BY DEF IInv
  <1> QED BY <1>1, Invariance, PTL

\* A review item stays tied to a live record, to the link of that record with
\* the item's source and to the item's batch.
THEOREM ItemsKeepTheirRecord == Spec => []ItemsAreTied
  <1>1. IInv => ItemsAreTied
    BY DEF IInv
  <1> QED BY <1>1, Invariance, PTL

\* No two records were ever created from one source.
THEOREM SourcesGiveOneRecord == Spec => []OneFactPerSource
  <1>1. IInv => OneFactPerSource
    BY DEF IInv
  <1> QED BY <1>1, Invariance, PTL

\* Every step but the commit of a session leaves the links that are there.
LEMMA OnlyCommitsUnlink ==
    ASSUME [Next]_vars
    PROVE  links \subseteq links' \/ \E t \in Sessions : Commit(t)
  <1>1. ASSUME NEW t \in Sessions, Deliver(t)
        PROVE  links' = links
    <2>1. ASSUME NEW k \in Batches, NEW changed, NEW drafts, NEW R,
                 ImportRows(t, k, changed, drafts, R)
          PROVE  links' = links
      <3>1. UNCHANGED ledger
        BY <2>1 DEF ImportRows, Start
      <3> QED BY <3>1 DEF ledger
    <2>2. ASSUME NEW s \in Sources, Observe(t, s)
          PROVE  links' = links
      BY <2>2 DEF Observe, Start, ledger
    <2>3. CASE AppendObservation(t)
      BY <2>3 DEF AppendObservation, ledger
    <2> QED BY <1>1, <2>1, <2>2, <2>3 DEF Deliver
  <1>2. ASSUME NEW t \in Sessions, Review(t)
        PROVE  links' = links
    BY <1>2 DEF Review, ConfirmRecords, ReadReview, Decision, Start, ledger
  <1>3. ASSUME NEW t \in Sessions, Withdraw(t)
        PROVE  links' = links
    BY <1>3 DEF Withdraw, DeleteDraft, LinkEvidence, MergeDraft, Start, ledger
  <1>4. ASSUME NEW t \in Sessions, Rollback(t)
        PROVE  links' = links
    BY <1>4 DEF Rollback, ledger
  <1>5. ASSUME NEW s \in Sources, NEW c \in Records, ImportStructured(s, c)
        PROVE  links \subseteq links'
    BY <1>5 DEF ImportStructured, Insert
  <1>6. ASSUME NEW s \in Sources, NEW k \in Batches, NEW c \in Records,
               NEW R \in SUBSET Reasons, Ingest(s, k, c, R)
        PROVE  links \subseteq links'
    BY <1>6 DEF Ingest, Insert
  <1>7. ASSUME NEW s \in Sources, NEW decision \in {"kept", "applied"},
               DecideObservation(s, decision)
        PROVE  links' = links
    BY <1>7 DEF DecideObservation
  <1>8. ASSUME NEW c \in Records, VoidRecord(c)
        PROVE  links' = links
    BY <1>8 DEF VoidRecord
  <1>9. CASE UNCHANGED vars
    BY <1>9 DEF vars, ledger
  <1> QED BY <1>1, <1>2, <1>3, <1>4, <1>5, <1>6, <1>7, <1>8, <1>9 DEF Next

\* The evidence of a source leaves the records only with a draft that the owner
\* deletes: a merge takes every link of the draft to the record it is merged
\* into, and no other request takes a link away.
THEOREM EvidenceIsNotLost == Spec => EvidenceSurvives
  <1>1. ASSUME IInv, [Next]_vars, NEW s \in Sources, Linked(s) # {}, Linked(s)' = {}
        PROVE  \E c \in Linked(s) : record'[c].state = "deleted"
    <2>1. PICK c \in Linked(s) : TRUE
      BY <1>1
    <2>2. c \in Records /\ <<c, s>> \in links
      BY DEF Linked
    <2>3. \A d \in Records : <<d, s>> \notin links'
      BY <1>1 DEF Linked
    <2>4. PICK t \in Sessions : Commit(t)
      BY <1>1, <2>2, <2>3, OnlyCommitsUnlink
    <2> DEFINE w == session[t].write
    <2>5. /\ IsSession(session[t]) /\ Fits(session[t]) /\ Apply(w) /\ TypeOK
      BY <1>1, <2>4, SessionsFitMeans DEF Commit, IInv
    <2>6. links' = (links \ w.unlink) \cup w.link
      BY <2>5 DEF Apply
    <2>7. <<c, s>> \in w.unlink
      BY <2>2, <2>3, <2>6
    <2>8. /\ c \in DOMAIN w.record
          /\ w.record[c].state = "deleted" \/ \E d \in Records : <<d, s>> \in w.link
      BY <2>5, <2>7 DEF Fits, LinksFit
    <2>9. w.record[c].state = "deleted"
      BY <2>3, <2>6, <2>8
    <2>10. record'[c] = w.record[c]
      BY <2>2, <2>5, <2>8, RowsApplied
    <2> QED BY <2>1, <2>9, <2>10
  <1>2. IInv /\ [Next]_vars =>
            [\A s \in Sources :
                (Linked(s) # {} /\ Linked(s)' = {}) =>
                    \E c \in Linked(s) : record'[c].state = "deleted"]_vars
    BY <1>1
  <1> QED BY <1>2, Invariance, PTL DEF Spec, EvidenceSurvives
=============================================================================
