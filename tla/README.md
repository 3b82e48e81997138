# Shadow Ledger: formal models

TLA+ models of Shadow Ledger, a personal ledger: a FastAPI application
(`src/app`), a polling worker, PostgreSQL underneath, a browser client and an
agent gateway on top. The models are about what happens *between* requests:
sessions that read before they lock, workers that crash between two commits,
two people (or a person and an agent) acting on the same row.

Contents: [inventory](#inventory) · [how a session is modelled](#how-a-session-is-modelled) ·
[modules](#modules) · [runs](#runs) · [findings](#findings) · [proofs](#proofs) ·
[what is not modelled](#what-is-not-modelled) · [plan](#plan)

## Inventory

| part | source | state it keeps | operations | what makes it hard | what makes it correct | modules |
|---|---|---|---|---|---|---|
| records | `services/records.py` | `ledger_records` with money, consumption, audit, outbox rows | create, patch, confirm (one, many), void, delete a draft | revision checks against row locks; batch locks in id order; refunds that name another record's entry without its lock | draft → confirmed → voided only; the revision counts every change; one confirmation event; a batch is all or nothing | `Records`; next to other parts: `AgentEffects`, `ImportReview`, `Planning` |
| agent effects | `services/agent_effects.py`, `routers/agent_control.py`, the commit and reject routes of `machine.py` | intents, approvals, receipts, standing grants | request a review, accept, decline, execute | rows read before their lock, revocation, expiry, retries by two routes | an effect is what was shown, approved, carried out once | `AgentEffects`, `EffectContract` |
| sources and observations | `services/sources.py` | `source_observations` of a capture source | append, decide (keep, apply) | locks record → source → observation; two observers of one version | a pending change blocks confirmation; a version has one content | `ImportReview`, `CaptureJobs`, `AgentEffects` |
| capture | `api.py` 513-715 | `capture_sources`, first job, asset binding, outbox row | text, asset upload, retry | a retry against a worker that is still parsing | one source per external id; a source that failed can be retried | `CaptureJobs`, `Delivery`, `ImportReview` |
| worker | `worker.py` | `background_jobs`, `outbox_events`, reminders | claim and run a job, deliver an event, make reminders and daily forecasts | commits around an external call, crash at any point, several workers | a job is run by one worker; candidates become drafts once; every event that can be delivered is | partly: `CaptureJobs`, `Delivery`, `Planning`, `Forecast` |
| import and review | `api.py` 717-1056, `services/import_review.py`, `services/review.py` | `import_batches`, `import_review_items`, merchant rules | commit an import, decide an item, learn a rule, merge two drafts | batch state recomputed from its items without the batch's lock | a completed batch is decided; a source makes one record | `ImportReview`; rules: `Identities` |
| structured intake | `services/intake.py`, `services/intake_reviews.py` | files of a directory, sources, drafts | ingest an envelope, scan the directory | crash between the commit and the move of the file | a file is ingested once | partly: `ImportReview` |
| planning | `api.py` 1515-2230 | intents, commitments, reminders, use cycles, budgets, categories | create, patch, transition, occurrence → draft | optimistic revision checks, some without a row lock | no lost update; one draft for one occurrence | `Planning` |
| identities | `services/identities.py` | merchants, items, aliases, suggestions | merge, propose, decide, assign | concurrent merges, locks of two rows | redirects are a forest with active roots | `Identities` |
| forecast, feedback, workbench | `services/forecast.py`, `feedback.py`, `matching.py`, `workbench.py` | forecast runs, feedback | compute, decide | facts read in several queries; a feedback row that does not exist yet cannot be locked | a decision belongs to an episode, not to a run | partly: `Forecast` |
| references, evidence, exports | `api.py` 2510-2769 | external references, archive links, export jobs | create, delete, export | a reference to a draft that is being deleted | no reference to a deleted record | partly: `AgentEffects`, `Records`, `Delivery` |
| agent gateway | `services/agent_gateway.py`, `agent_mcp.py`, `mcp_server.py` | catalogue | query, plan, call | a client with a stale catalogue | an operation of an old catalogue is refused; an agent touches its own drafts only | partly: `Records` |
| authentication | `oidc.py`, `security.py` | login transactions, browser sessions | start, callback, logout | one-time state against concurrent callbacks | a transaction logs in at most once | partly: `Browser` |
| browser client | `static/*.js` | offline queue in local storage | queue, sync, clear | several tabs, lost answers | a queued draft is sent until it is stored | partly: `Browser` |

The parts meet in the database. Records are locked by everything that changes
them; agent effects call the confirm and delete operations of records inside
their own transaction; capture and import create drafts through
`create_record()` and observations through `append_observation()`; the worker
takes the jobs and events the other parts insert.

## How a session is modelled

Every request is one SQLAlchemy session on PostgreSQL under READ COMMITTED,
created with `expire_on_commit=False`. Three facts about this combination shape all
modules:

* a plain SELECT sees what is committed at that moment and takes no lock;
* a row lock (`SELECT … FOR UPDATE`) is held until the session commits or rolls
  back, and a session that closes without a commit rolls back;
* an object that a session has read stays in its identity map. A later
  `SELECT … FOR UPDATE` of the same row *waits* for the lock, and then hands out
  the attributes read first, unless the statement says `populate_existing`.

A request is therefore split at the points where another session can get in (its
unlocked reads, each lock, the commit), the copy it works with is part of
its session state, and statements between which nothing can be observed are one
action. A session that fails a check, or whose process dies, disappears together
with its uncommitted writes.

## Modules

### `AgentEffects`: the agent effects control plane

| variable | code |
|---|---|
| `standing` | `ledger_agent_grants`; `usable` is active and allow_confirm, `version` stands for `updated_at` |
| `record` | `ledger_records`; `body` is what `patch_record()` changes, `references` the external references, `blocked` a pending source observation |
| `intent`, `approval`, `receipt` | `agent_intents`, `agent_approval_grants`, `agent_execution_receipts`, keyed by the request key |
| `outbox` | how many `ledger.record.confirmed` events a record has |
| `lapsed` | the rows whose `expires_at` is in the past |
| `session` | open requests, with the step they have reached and the values they read |

`BeginReview … BeginBrowserExecution` are the reads at the start of the routes,
`LockStanding` is `standing_grant()`, `RequestReview`/`ReplayReview`,
`Accept`/`AcceptAgain`/`Decline`, `CheckExecution`/`CommitExecution`/
`ReplayExecution` are the bodies of `request_review()`, `approve()` and
`execute()`. `Refuse` is an `AppError`, `Crash` a process that dies; both leave
nothing behind. `UserPatch` … `Detach` are the owner's own operations on the
record, `Administer` is the operator who withdraws or restores a grant with SQL,
and `LapseIntent`, `LapseApproval` are time. The content hash of the display
snapshot is abstracted to the record's state, revision, body and references: two
snapshots are equal exactly when these are.

An execution is the one operation whose interval between check and commit is a
state of its own (`step = "checked"`): it is where the owner, a source change or
a deletion would do harm. The other operations lock the record, read it, and
commit, and nothing outside can tell at which moment they did.

### `EffectContract`: what the control plane promises

Without sessions, locks or copies: a request names one draft at one revision and
one action, a human grants it, it is carried out at most once and only on that
draft at that revision. `AgentEffects!ImplementsContract` is the refinement.

### `CaptureJobs`: parsing of uploaded documents

| variable | code |
|---|---|
| `source` | `capture_sources`, its `capture_state`; `None` before the upload is completed |
| `job` | `background_jobs` of type `capture.parse`. The initial job has the name of its source, the job of a retry that of its idempotency key: both are unique keys in the code (`capture:<id>:initial`, `capture:<id>:retry:<key>`) |
| `draft` | per source and candidate index the record made under the key `capture:<id>:candidate:<index>`, with its idempotency row and its link; `deleted` keeps the idempotency row only. `origin`, the run that made it, is for the properties |
| `orphans` | records flushed for a candidate that was refused afterwards |
| `observation` | `source_observations` of the source, except the baseline; the version is the hash of the answer, so the answer itself |
| `worker` | the job a worker process holds, how far it is, the parser's answer and the number of links it has read |
| `retry` | open retry requests with the state of the source they read before the lock |

`Upload` is `asset_complete()`, `OpenRetry`/`CommitRetry`/`CloseRetry` are
`capture_source_retry()` split at its lock. `Claim` and `MarkProcessing` end with the two
commits a worker makes before it calls the parser. `Answer` is the parser's answer and the read of
the existing links, in one transaction with what follows; `DraftAll`, `DraftSome`,
`DraftRefused`, `DraftBreaks`, `Observe` and `ObserveRefused` are the ways it ends. From the
key of the first candidate on, an advisory lock serialises two workers of one source, so the rest
of each is one action; an answer without candidates touches nothing another worker reads.
`ParseFails` and the refusals run the except branch of `claim_and_run_job()`, which commits what
was flushed before; `DraftBreaks` is the exception of a flush itself, after which the
session can only be rolled back, the handler's own commit fails and the worker process
ends. `Crash` is a process that is killed.

An answer is an element of `Payloads` with a number of candidates (`Count`). Two answers may share
their first candidate or not, so a taken key may either refuse the second answer or return the
record and break its link: both actions are enabled. Time is left out: a failed job may be claimed
at any moment, as `available_at` is at most an hour away. A worker that reads `processing` and
writes `processing` sends no UPDATE; its read and its commit are one step here. The reviews of
amount anomalies, which also hold back a confirmation, are left out: the owner of the
model is freer than the real one.

### `CaptureContract`: what the pipeline promises

Without jobs, workers and retries: the drafts of a source are made from one answer, in one step
and once; what is parsed afterwards is noted; the owner's decision on a draft is final. The
contract allows the first `n` candidates instead of all of them, because of finding 5.

### `Delivery`: the outbox next to the jobs

EXTENDS `CaptureJobs`: every step of a worker there is a step here, in turn with the outbox.

| variable | code |
|---|---|
| `completed`, `service` | external: uploads that the asset service has completed, references it has made. It answers a repeated `reference_key` with the reference it has |
| `binding` | `asset_bindings`; `named` when `asset_reference_id` is set |
| `link` | `archive_evidence_links` of the draft made from a candidate. A released link cannot be linked again: the unique constraint stands |
| `due`, `later`, `delivered` | `outbox_events` by `available_at`: deliverable now, backed off, with `delivered_at` |
| `turn`, `delivery` | where the loop of `run_once()` is, and the event its session has locked |

`UploadAsset` is `asset_complete()`, `ConfirmAndAnnounce`, `LinkArchive` and `ReleaseArchive` put
events in. `TakeEvent` is the claim with `SKIP LOCKED`, oldest first; the row stays locked over the call
(`CreateReference`), until `Deliver` or `DeliveryFails` commits. `AvailableLater` is the back-off: time is
an action, `ComeDue`, that moves an event behind those that wait. `KillDelivery` is a worker that
dies after or before the asset service has acted. Archive events have no adapter in `deliver_outbox()`: they
fail for ever and come back, and a confirmation is only marked as delivered.

### `Records`: records and their money entries

| variable | code |
|---|---|
| `record` | `ledger_records`, each with its row of `money_entries`; a deleted one keeps its place, so that its key stays known |
| `answered` | `idempotency_records` of `records.create` |
| `refs` | `external_references` of records, which have no foreign key |
| `page` | the record that the owner's browser shows: its revision, and its entry once the second statement has read it |
| `session` | an open request with the row and the references it is about to write |

`RecordsCreate`, `AgentDraftCreate`, `NexusReview` and `NexusCommand` are the routes into `create_record()`;
`OpenRepeat` is the repeat of a Nexus request, which may still add references. `ReadRecord`/`ReadEntry` is
`get_record()`, where `selectinload` makes a second statement. `Patch`, `LinkRefund` and `Revise` are the edits
of the owner, of `resolve_review()` and of an agent in `draft_command()`; they hold the record's lock up to
`CommitEdit`, while the row of the related entry, which they only read, may change. `Transition` is the
trigger of the schema, `RelatedExists` and `Kept` the foreign key on `related_entry_id`. Requests whose reads are covered
by the record's lock (`Confirm`, `VoidRecord`, `DeleteDraft`) are one action.

### `ImportReview`: from delivered rows to reviewed records

| variable | code |
|---|---|
| `record` | `ledger_records` with the source each was made from; `merged` and `deleted` rows are gone |
| `channel` | `capture_sources`: by import, or by capture and intake |
| `links` | `ledger_record_sources` |
| `observation` | the one later version of a source, and what was decided about it |
| `item`, `batch` | `import_review_items` and the state of `import_batches` |
| `session` | an open transaction with its locks and its uncommitted writes |

`ImportRows` and `ImportStructured` are the branches of `imports_commit()`, `Ingest` is `capture_text()` and
`ingest_structured()`, `Observe`/`AppendObservation` and `DecideObservation` are `services/sources.py`,
`ConfirmRecords` is `confirm_record()` and `confirm_records()`, `ReadReview`/`Decision` is
`resolve_review()` split at its record lock, `DeleteDraft`, `LinkEvidence` and `MergeDraft` withdraw drafts.

Such a request computes its writes from what it reads and makes them visible with `Commit`. What it has
locked cannot change in between, what it has only counted (the pending items of a batch) can.
Foreign key checks are modelled (`shares`, `cited`), since they are what makes a deletion wait
for an import of a duplicate. Requests whose reads are all locked are one action. Record
revisions are left out: every writer compares them under the row lock, and the model leaves the owner free.

### `Identities`: merchants and items behind raw names

| variable | code |
|---|---|
| `name`, `active`, `redirect` | `merchants` and `item_identities`: the same code merges both, so a row of the model is one of either |
| `suggestion` | `identity_suggestions` by pair |
| `uses` | whatever refers to an identity: consumptions, lines, items |
| `rule`, `item` | `merchant_normalization_rules` and review items for one raw merchant name |
| `session` | merges with the rows they hold, scans, assignments, reviews |

`OpenMerge`/`Lock`/`Merge` is `merge_identity()`, which locks both rows in id order, one at a time; `Accept` is
`decide_suggestion()`, which locks the suggestion and then calls it. `Propose`/`AddSuggestions` is the scan of
`propose_identities()`, whose reads may be stale when it inserts. `OpenAssign`/`Assign` and `OpenReview`/`Review`
read without a lock whether the identity is active. `RuleInsertable` is the unique index over active rules.

### `Planning`: plans and what comes of them

| variable | code |
|---|---|
| `now` | time, counted in occurrences of the recurrence rule |
| `commitment`, `reminder`, `answered` | `recurring_commitments`, `reminders` by their key, the idempotency rows of `commitment_draft()` |
| `record` | `ledger_records`, as far as plans name them |
| `intent`, `cycle`, `budget` | `spending_intents`, `use_cycles`, `budget_targets` |
| `session` | a transaction with the rows it holds, or with the values it has read |

The difference that matters is between `owned_locked()` (commitments, intents), which locks the row and
refreshes it, and `owned()` (use cycles, budgets), which only reads it. The object mapper writes the columns
that a handler has changed, and the revision as the number that was read plus one: `CycleWritten` and
`BudgetWritten` say exactly that. `StartWorker`/`CommitWorker` is `create_due_reminders()` with its `SKIP LOCKED`;
`OpenDraft`/`MakeDraft`/`ReplayDraft` is `commitment_draft()`. `planned` stands for all states of
an intent that are not ended, `cancelled` also for skipped. Commitments and intents are there from the beginning.

### `Forecast`: suggestions from facts

`day`, `purchase`, `due` and `cycle` are the facts, `runs` are `forecast_runs` as input snapshots with the
suggestions of each, `feedback` is `suggestion_feedback` by `episode_key`. `calculate()` is a set of
operators over a snapshot: `LowerMedian`, `Interval`, `Rolled` (the loop that moves a projected date on to
the run's day), `CommitmentDue`, `RepeatPurchase`, `UseCycleEnd`. `Generate`/`ReadFacts`/`StoreRun` is
`generate_forecast()` with its queries, the worker's or the owner's; `OpenFeedback`/`Save` is
`save_feedback()`, where a first decision finds no row to lock and the unique constraint decides between two.
Days are whole and amounts, confidence and explanations are left out.

### `Browser`: one browser with several tabs

`login`, `session`, `identities` are the tables of `oidc.py`, `code` is the identity service (external: it
takes a code once), `binding` and `handle` the two cookies, `callback` the requests to `/auth/callback` with how
far each is. `CheckLogin`, `Exchange`, `ExchangeFails`, `CallbackFails`, `Finish` follow `callback()` with its failures, of which
only one commits the mark on the transaction; a login can expire while a callback of it is under way.

`tab`, `post`, `queue`, `author`, `expired` are `offline.js`: `localStorage` and the cookies
are shared, JavaScript runs to its next `await`, so reading, filtering and writing the queue is one step and
everything else may happen in between. `OpenPage` is the answer of `/me` to `boot()`, `Load` is `initOffline()` after
the other lists have come. `AskUser` is the `/me` of the synchronisation, `StartSync` the reading of the queue when its
answer is there, then `Send`, `Serve` and `Synced` follow for each row. A request that its page has given up, or whose
tab was closed, may be in `late` and is served at any later time (`ServeLate`). `record` is what `POST /records` has
made under a key, which is the id of the draft and the user of the cookie, and what of it was deleted since.

### The `MC` modules

Each gives its module small constants, a symmetry set where the properties are safety properties, and, for the
seven larger ones, a `CONSTRAINT` that separates themes which share no state (see [bounds](#bounds)).

### The `Proofs` modules

`AgentEffectsProofs`, `CaptureJobsProofs` (which also covers `Delivery`), `RecordsProofs`, `ImportReviewProofs`,
`IdentitiesProofs`, `PlanningProofs`, `ForecastProofs`, `BrowserProofs`: see [proofs](#proofs). The inductive invariant of
a module stands at its end, under its properties, where TLC can check it.

## Runs

| run | instance | what it shows |
|---|---|---|
| `effects` | one draft, two requests, two sessions, two bodies, revisions to 2, one withdrawal | types, atomic effects, browser authority, an effect is what was shown, executed is final, no confirmation with an undecided source change, one effect per draft, one confirmation event, the refinement of `EffectContract` |
| `effects_live` | two fair sessions, one external reference | every request ends |
| `effects_decided` | the smallest instance that shows it | finding 1 below |
| `capture_jobs` | one source, its job and two retries, two workers, three answers, two attempts | types, one worker for a job, drafts of one run, the owner's decisions stand, the refinement of `CaptureContract` |
| `delivery` | one source with one candidate, a retry, one attempt, two workers, all failures of deliveries | a delivered event has its reference; sources settle and assets are referenced, with fairness |
| `records` | two records, two keys, an agent, two amounts, a reference, two sessions, three revisions | a revision stands for its content, a refund names an entry that exists, one record per key, facts are changed by the owner only |
| `import_review` | two sources, two batches with a common row, two records, two sessions | a completed batch is decided, items keep their record and link, one record per source, evidence survives merges |
| `identities` | three identities, two names, two rules, two review items, two sessions | families have an active root and only grow, a suggestion is accepted with its own merge or stays open, one rule per name, merges never block each other |
| `planning` | one commitment with two occurrences, an intent, a use cycle, two budgets, two records, two sessions | one draft per occurrence of a commitment, none twice for a key, a seen reminder stays seen, edits of a commitment count |
| `planning_lost_update` | the same | finding 2 below |
| `forecast` | four purchases and one that comes late, two days, two runs, two sessions | the projected date, decisions outlive runs and replace only what was seen |
| `browser` | two users, logins, codes, callbacks and tabs, three drafts, a limit of two | one session per login, no draft lost to another page of its user |

### Bounds

`MaxRevision` stops the owner's edits, not the effects, so a revision can always become stale once
after it was frozen. `MaxVersion` bounds the changes of a grant: one change is enough for a withdrawal that
races an execution, and version 1 with `usable` true is the grant that was withdrawn and restored.
Two sessions are enough for every hazard listed: each is a race of one request with one other
request or with the owner, and operations with a single atomic effect are actions that need no session.

Of `CaptureJobs`, `MaxAttempts` is 2 instead of 8: one attempt that fails and one after it, the
first and the last. Two candidates instead of 100 have a first, a last, and a refusal
between them. Sources share nothing but the workers, and two workers with three jobs of
one source are what their races need. `Delivery` uses one attempt and one candidate, because its
question is what the loop does with events: four kinds, all on the way at once, two of them
never deliverable.

The constraints of the other instances cut along what shares no state, and each part is explored completely:

* `MCAgentEffects`: one request with edits, withdrawals, source changes and expiry; two requests that race each
  other over an unchanged draft.
* `MCRecords`: the whole life of one record with its references; two records with each other, as far as the
  revisions that a refund and its expense need. Two types and one currency: the check of the currency is a conjunct next to
  that of the type.
* `MCImportReview`: either the sources change (one batch) or two batches share a row (no changes).
* `MCIdentities`: merging and suggesting; referring to an identity that is merged meanwhile; learning
  rules for one of two identities that is merged meanwhile, with one item at a time that keeps an amount to settle. In the
  first two a third identity comes late, so a family of
  three arises in every order.
* `MCPlanning`: commitments, intents, use cycles, budgets: they share only the records. Two occurrences are the
  first and the last of a rule; four revisions leave room for the worker, a draft and the owner.
* `MCForecast`: purchases on days 0, 3, 3 and 5, so with gaps of 3, 0 and 2 days, and a first run on day 10: the lower
  median is 2 and the projected day is rolled on twice. A purchase that comes late, on day 4 or 8, or one that is
  voided gives intervals of 1 and 3, and lasts from which no roll, or several, are needed. At most one fact changes
  besides time; one suggestion is decided, of the kind that the change is about; two runs are
  made at once only of unchanged facts. A changed fact between two queries, between two runs and before a decision all happen.
* `MCBrowser`: signing in with all its failures; drafting with users that change, where
  at most one draft expires, or one record is deleted, or one request is late. Three
  drafts over a limit of two: the third shows the limit only.

The type invariants of `Records`, `Delivery`, `ImportReview`, `Identities`, `Planning` and `Forecast` hold in these instances
too; they are the first conjuncts of the inductive invariants and are proved, and are not among the properties of the runs.

### Deadlock and fairness

Deadlock checking is off: when every request is decided and every bound is reached,
the system is at rest. That merges do not wait in a circle is an invariant of its own, `MergesGoOn`.

`FairSpec` of `AgentEffects` gives each session strong fairness on `Proceed \/ Refuse`.
Weak fairness would not do: a session that waits for a row lock is disabled whenever
another session holds it. PostgreSQL queues the waiters of a row lock, so a
session that finds the lock free again and again gets it, which is strong
fairness. Nothing makes sessions start, owners act or processes crash.

`DeliverySpec` gives each worker's loop weak fairness: `run()` polls for ever, the parser's call has
a timeout of 60 seconds, `SKIP LOCKED` never waits, and a row or key lock is free whenever another action of the model
can happen. `ComeDue` is weakly fair: time passes. Three strong conditions are about the world: an
event that is taken again and again is not killed every time, the asset service does not
fail for ever on one reference, and not every answer it gives is lost. No job is killed in this
specification; `FairSpec` of `CaptureJobs` keeps `Crash` and refutes `SourcesSettle` (below).

## Findings

1. `effects_decided`: `approve()` reads the intent before it has
   a lock (line 181) and its locked read does not refresh it. An acceptance and a
   rejection that race are both carried out, the second on top of the first,
   although both orders are refused by name (lines 186-191). What saves the ledger
   is `check_frozen()` and the primary key of the receipts: an executed intent is
   never reopened (`ExecutedIsFinal`).
2. `planning_lost_update`: use cycles (and budgets) compare the revision of a row they have only read.
   Two requests with the same revision are both accepted, the second is written over the first,
   and both get the same new revision, although `api-contract.md:13-14` and `domain-model.md:42` promise optimistic
   locking for every edit. Commitments and intents lock and do not have this (`CommitmentEditsCount`).

Further configurations are kept beside the runs. Each is a counterexample to something the code or its documents
suggest; TLC reports a violation for each:

| configuration | property | what happens |
|---|---|---|
| `AgentEffectsRevoked` | `EffectIsAuthorised` | a machine execution loads the standing grant in `_grant()` and compares that copy; a withdrawal in between is not seen. The browser route is safe (`BrowserEffectIsAuthorised`) |
| `AgentEffectsDangling` | `DeletedIsUnreferenced` | `references_create()` does not take the record's lock, so the check of `delete_draft()` does not keep references away (`agent-optimization-2026-09.md:80`) |
| `CaptureJobsCrashed` | `SourcesSettle` | a worker that is killed after its claim leaves the job `running` and, mostly, the source `processing`. `locked_at` is never read, and a retry needs a failed source |
| `CaptureJobsPartial` | `AllCandidatesOrNone` | the except branch of `claim_and_run_job()` commits without a rollback: the drafts before a refused candidate stay, and its own record without a link |
| `CaptureJobsRetried` | `RetryNeedsFailure` | `capture_source_retry()` compares the state it read before its lock (`api-contract.md:334`) |
| `ImportReviewObserved` | `ObservationIsReviewed` | `append_observation()` locks the records that it has found linked to the source, then the source; a record that is linked meanwhile by `link_evidence()` is not among them, and is confirmed while the observation is on its way (`operations.md:45`) |
| `ImportReviewOpen` | `OpenBatchHasPending` | two decisions on the last two pending items count each other's as pending: the batch stays open with nothing to decide |
| `IdentitiesEvidence` | `EvidenceIsDistinct` | `evidence_count` also grows when one item is reviewed twice, so the rule's explanation, "confirmed by the owner in N reviews", counts decisions instead of review items (`review.py:104`) |
| `RecordsRefunds` | `RefundsAnExpense` | three requests, one after the other: an expense, a refund of it, and a `PATCH` that turns the expense into a refund. `patch_record()` checks the entry that a refund names, never the refunds that name the entry (`domain-model.md:68`) |
| `RecordsCircle` | `NoRefundCircle` | two patches read each other's expense before either commits: each becomes the refund of the other |
| `BrowserOwner` | `DraftsStayWithTheirUser` | the page says that only this user can send the drafts (`offline.js:33`), and the synchronisation asks `/me` once. After a login as someone else in another tab, before its first or between two of its requests, the rest is stored in that user's ledger and leaves the queue |
| `RecordsDangling` | `ReferencesHaveRecords` | a repeated Nexus review adds its references without the record's lock while the draft is deleted |

Seen while modelling; no document promises otherwise unless one is named:

* a retry of a source does not retire the failed job, which runs again after the retry has parsed
  the source. The drafts are safe (`DraftsComeFromOneRun`), but the second run adds a pending observation;
* `use_cycles_create()` reads the record without a lock and may start a cycle on a record that is voided meanwhile,
  although `api-contract.md:265` requires a confirmed one;
* the reminder of a draft that was deleted answers 404 for ever: its occurrence cannot be drafted again;
* with two worker processes `generate_daily_forecasts()` could make two runs of a day, since the look-up is
  not locked ("at most one" in its docstring); `forecasts/latest` shows the run that was inserted last,
  which need not have the latest input;
* a queued draft that was stored without an answer, and whose record was deleted since, answers 404 and blocks the drafts behind it;
* the page of another user drops the drafts of the first from the queue when it is loaded: `readQueue()` filters by user
  and `writeQueue()` writes what is left (`WrittenByOther` in `QueuedDraftSurvives`);
* the branch of `create_due_reminders()` for an invalid recurrence rule (`worker.py:116-117`) cannot be reached: creating
  and editing a commitment validate the rule. `CommitWorker` leaves it out;
* a structured delivery of a source whose draft was deleted is answered without a record, and `capture_text()` runs into the
  unique constraint, where `optimization-implementation.md:55-56` speaks of a conflict;
* an archive link that was released cannot be made again; `archive.*` events stay in the outbox and come back for ever, as there is no adapter for them.
* `patch_record()` sets the time, the zone and the note of a record before it increments the revision. The session
  flushes automatically, so that a later query of the same request (the category, the related entry) or the flush of a replaced
  consumption sends an UPDATE without the new revision, and the trigger `trg_ledger_record_transition` refuses it: such
  an edit fails on PostgreSQL, where `api-contract.md:52` offers it. The edit of `test_draft_can_be_edited_with_revision_check`
  runs on SQLite, which has no trigger. In `Records` it is a `Rollback`;
* a Nexus review or command without `occurredAt` gets the current time, which is part of the request hash: its repeat
  with the same key is refused as another request (`machine.py:758`), where `agent-plugin.md:43` promises the first draft.

## Proofs

Every invariant and every action property of the passing runs, and both refinements, are theorems: they hold for every number of agents,
records, sources, workers, sessions, names, tabs and so on, and the bounds of the runs play no role in them. The
assumptions are `ConstantsAssumption` and, where a module has it, `NoneAssumption`; the first says what kind of values the
constants are, the second that `None` is none of the rows. Nothing else is assumed, of the code or of the schedule.

Almost none of the invariants is inductive alone. Each module states an inductive invariant, `IInv`, as a
conjunction of named parts. A `Proofs` module shows that the initial states satisfy it (`InitIInv`, `InitIsCorrect`), that
each action preserves it (a lemma for each action, or for a group of actions that write in the same way), and combines them in
the theorem `Invariance`; what a property needs besides stands next to its own theorem. TLC
checked every `IInv` as an invariant of an instance before it was proved.

| theorem | of | what it says |
|---|---|---|
| `AtomicEffects`, `AtMostOneEffect`, `ShownIsCarriedOut`, `ReviewedBeforeConfirmed`, … and `Refinement` | `AgentEffects` | all safety properties of `effects`, and `EffectContract` |
| `SingleWorker`, `SingleOrigin`, `OwnerDecides`, `Refinement` | `CaptureJobs` | all safety properties of `capture_jobs`, and `CaptureContract` |
| `DeliveryRefinement`, `DeliveredReferencesStand` | `Delivery` | the outbox leaves the jobs as they are, so the theorems above hold next to it; a delivered reference is made and named, and its event is never lost or doubled |
| `PagesAreFaithful`, `RefundsHaveTheirEntry`, `RepeatsMakeNoRecord`, `OwnersChangeFacts` | `Records` | `RevisionNamesContent`, `RelatedEntryStands`, `OneRecordPerKey`, `FactsAreTheOwners` |
| `CompletedBatchesAreDecided`, `ItemsKeepTheirRecord`, `SourcesGiveOneRecord`, `EvidenceIsNotLost` | `ImportReview` | `CompletedBatchIsDecided`, `ItemsAreTied`, `OneFactPerSource`, `EvidenceSurvives` |
| `FamiliesHaveRoots`, `FamiliesAreNotSplit`, `SuggestionsStayDecided`, `NamesHaveOneRule`, `MergesDoNotWaitInACircle` | `Identities` | `FamilyHasActiveRoot`, `FamiliesOnlyGrow`, `SuggestionsAreDecidedOnce`, `OneRulePerName`, `MergesGoOn` |
| `OccurrencesAreDraftedOnce`, `SeenStaysSeen`, `NoCommitmentEditIsLost` | `Planning` | `DraftsAreMadeOnce`, `ReminderStaysSeen`, `CommitmentEditsCount` |
| `RepeatsAreOnInterval`, `DecisionsOutliveRuns`, `DecisionsReplaceSeen` | `Forecast` | `RepeatIsNextInterval`, `DecisionOutlivesRun`, `DecisionReplacesSeen` |
| `LoginsGiveOneSession`, `DraftsAreNotLost` | `Browser` | `OneSessionPerLogin`, `QueuedDraftSurvives` |
| `TypeCorrect` | each, of `Delivery` in `DeliveryInvariance` | the type invariant |

### `AgentEffects`

`IInv` adds to the type invariant

* `RowsReferToRows`: the foreign keys;
* `SessionsKnowTheirRows`: a session past its first step has its rows;
* `LocksAreExclusive`: two sessions never hold the same row lock;
* `LockedGrantIsCurrent`: a grant *first* read under its lock is the current one;
* `CheckedStaysTrue`: what an execution has checked is still true when it commits,
  because every action that could change it needs the record's lock;
* `ExecutedLeavesNoDraft`: an executed request has taken its record out of the drafts.

`EffectIsWhatWasShown` and the refinement follow from `CheckedStaysTrue`;
`OneEffectPerRecord` from it and `ExecutedLeavesNoDraft`: an execution that
commits finds a draft, so no earlier execution can have had it.

### `CaptureJobs` and `Delivery`

`IInv` adds

* `JobsNameSources`, `WorkersHaveJobs`, `RetriesNameSources`: the foreign keys, and that a key with an
  open retry has made no job;
* `KeysStartAtOne`: a source with any draft has used its first key, with the same answer and run,
  which is why a look at the first key decides for all of them;
* `LinksFollowKeys`: a worker that has seen links, or an observation, means that the first key is used.

`SingleOrigin` and `OwnerDecides` follow: drafts are made only while the first key is free
(`MadeFacts`), and then there is none to overwrite. `DraftSteps` says what a step can do to the drafts
at all, `SettleIInv` what the two ways a job ends have in common.

`DeliverySteps` shows that every step of `Delivery` is one of `CaptureJobs` or leaves all its variables alone, so
`IInv` holds there as well. `DeliveryIInv` adds

* `EventsStayTrue`: an event tells of something that is never taken back (a draft that was confirmed, a link that was
  made), so the step that would announce it again is disabled, which is why no event is put in twice;
* `DeliveriesHoldRows`: a worker that delivers holds the row of its event, which still waits, alone; and if it has an answer
  the reference is made;
* `ReferencesStand` and `EventsWaitOnce`, the two halves of the property, each of which needs the other.

### `Records`

* `EditsAreCurrent`, `RowsAreLockedOnce`: who edits a record has its lock and works on the current row;
* `CreatesAreFresh`, `CreatesAreKept`: rows about to be inserted are no one else's, and the entry they name stands;
* `KeysNameRecords`: a used key is answered with its record, a deleted one too;
* `MoneyIsThere`: only a consumption may be without an entry, so a row that is found by its entry has one;
* `PageIsBehind`: a page is never ahead of its record. With it `RevisionNamesContent` is inductive: between the two statements of
  a read the revision can only grow away from the page's.

### `ImportReview`

A request first computes all of its writes and shows them with `Commit`, so one lemma, `WritesKeepIInv`, carries the ledger over
any commit, and the rest is about what a session may have computed: `SessionsFit` says of each session that its writes
fit what is committed *now* (`RecordsFit`, `LinksFit`, `ItemsFit`, `BatchesFit`, …) and of two that they hold no lock together
(`Apart`). `OthersStillFit` is the heart: a commit leaves fitting what the other sessions have computed, because it
touches only what it has locked. The exception is what a request has counted without a lock: `BatchesFit`
survives because no commit makes an item pending that another one saw decided, while the converse, an open
batch that has a pending item, is false (`ImportReviewOpen`). `OriginsAreKnown` and `LinksAreLive` tie records,
sources and links together.

### `Identities`

* `RedirectsDescend`: there is a numbering of the identities along which every redirect goes down. A merge puts
  the target at 0 and raises all others by one, and there is one merged row more to leave room for it. The walk of `canonical_id()` ends because of it, and
  `Root(i)` is characterised without recursion as the one row at its end (`WalkEnds`, `RootIsUnique`), which is what both family
  theorems use;
* `MergedIsRetired`, `AcceptedIsMerged`, `AcceptanceIsHeld`, `ProposalIsNew`: who is active, and which suggestions are open;
* `RowsAreHeldInOrder`: a merge that lacks a row holds only lower ones. Of the merges that wait, the one that
  waits for the greatest row can go on: it is an extremum over any finite number of them, not an inspection of a few;
* `ReviewsAreCurrent`, `RuleIsAlone`: the lock on the rule, and the unique index.

### `Planning`

* `RowsAreHeldOnce`, `HoldersAreCurrent`, `IntentsAreHeldOnce`: a lock of `owned_locked()` is exclusive and what was read
  behind it still stands;
* `OccurrencesAreOpen`: the reminder of a draft in progress is only read, but it stays undrafted because a second
  draft of the commitment needs the same lock;
* `KeysAreHeldOnce`, `KeysNameDrafts`: the advisory lock of an idempotency key and what it is answered with;
* `RowsStay`: rows that were read without a lock are not removed. Nothing is said about their revisions, which would be false
  (finding 2).

### `Forecast`

* `RunsAreCalculated`: the suggestions of a run are those of its snapshot;
* `SessionsFit`, `RowsAreLocked`: of two requests about an episode one at most has a row to lock; a request
  that has seen none is refused by the unique constraint if one was inserted meanwhile.

`RepeatIsNextInterval` follows from what `calculate()` computes, for every history of purchases: `LowerMedianIsThere` (the lower
median of the gaps is one of them, and positive), `LastElement`, `RollingEnds` (the loop ends on the first date
that is not before the run).

### `Browser`

* `LoginsInHand`: a callback that is past its lock found the login open, which may have expired since, and is alone; `SessionsAreConsumed`: a login that has
  a session is consumed. The mark may be lost on every failure, but not together with a session;
* `HandlesHaveSessions`, `CallbacksHaveCodes`: rows that are named are there;
* `PagesSendTheirOwn`: the rows that a page sends, and the draft of its request, are of the page's user;
* `DoneIsMade`: a page believes a draft sent only if the ledger of the request's session has it, which is why it may take it
  out of the queue.

`DraftsAreNotLost` then goes through the four steps that write the queue: what `Load` and `QueueDraft` drop is expired or another
user's, and of its own user's drafts `Synced` takes out only the one whose record is made. That the record is in the ledger of
the draft's user is not said, and does not hold (`BrowserOwner`).

### What is only model-checked

* Liveness under fairness: `SessionsEnd`, `SourcesSettle`, `AssetsAreReferenced`. The prover has no `ENABLED`.
* The findings and the further configurations: they are counterexamples.

Induction over data is out of the prover's reach as a rule, since the induction theorems take an operator as a parameter. The two
recursive functions of the models, the walk along redirects and the loop of the forecast, are reasoned about otherwise: that the
function exists (`WalkUnfolds`, the `Solution` in `RollingEnds`) and what it computes, by a least
counterexample (`LeastNumber`, from the library's theorem that < on the naturals is well-founded).

## What is not modelled

* Parsers of bank formats, text and receipts, serialisation, statistics, matching scores, backtests, the pagination of the
  workbench and page rendering: they keep no state of their own and interleave with nothing.
* The queries of the agent gateway and the MCP servers, which only read, and the hash of the catalogue, a comparison within
  one request.
* The intake directory: the move of a file after its commit is file system work; that a second delivery of the same
  file makes no second record is `OneFactPerSource`.
* Exports: a job that only reads and stores a file at the asset service.
* Tokens, hashes, CSRF headers and groups of users; the content of money and consumption rows.
* Migrations, the CLI, operational evidence.

## Plan

1. Done: `AgentEffects` with `EffectContract`, `CaptureJobs` with `CaptureContract`, `Delivery`, `Records`, `ImportReview`,
   `Identities`, `Planning`, `Forecast`, `Browser`, with their runs.
2. Done: all safety properties of the runs and both refinements are proved.
3. Next: abstract specifications of `Records` (a record as one atomic object with its history of revisions) and of
   `ImportReview` (each source becomes one fact or none), with refinement proofs like the two that exist.
4. Then: the hazards that no property covers because the code does not guard against them, restated as what does hold
   (a dangling reference names a record that existed and was deleted, never one of another owner), and the lock order
   over all parts.

Modules to be proved about use no `RECURSIVE` operator; every module has its
constants' assumptions named, one action per operation and one type invariant.
