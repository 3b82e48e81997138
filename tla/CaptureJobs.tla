---------------------------- MODULE CaptureJobs ----------------------------
(***************************************************************************)
(* Capture of an uploaded document: asset_complete() and                   *)
(* capture_source_retry() of api.py insert parse jobs, and the workers of  *)
(* worker.py claim them, ask the external parser and turn its candidates   *)
(* into drafts or, for a source that has drafts, into an observation.      *)
(*                                                                         *)
(* A worker commits twice before its result: when it claims the job and    *)
(* when it marks the source as processing; the parser is called outside of *)
(* a transaction.  claim_and_run_job() catches an exception of the job,    *)
(* marks job and source as failed and commits WITHOUT a rollback, so what  *)
(* was flushed before the exception is kept.  An exception of the flush    *)
(* itself leaves a session that can only be rolled back: the commit of the *)
(* handler fails too, and the worker process ends.                         *)
(*                                                                         *)
(* The baseline observation, which asks nothing of the owner, is left out. *)
(***************************************************************************)
EXTENDS Naturals, FiniteSets

CONSTANTS
    Sources,        \* uploads; also the initial parse job of each
    Retries,        \* idempotency keys of retries; also the job of each
    Workers,
    Payloads,       \* valid answers of the parser
    Count,          \* the number of candidates in an answer
    MaxCandidates,  \* 100 in the code
    MaxAttempts,    \* 8 in the code
    None            \* an absent row, an idle worker

ASSUME ConstantsAssumption ==
    /\ Sources \cap Retries = {}
    /\ MaxCandidates \in Nat \ {0}
    /\ MaxAttempts \in Nat
    /\ Count \in [Payloads -> 0..MaxCandidates]

VARIABLES
    source,       \* capture_sources: capture_state
    job,          \* background_jobs of type capture.parse
    draft,        \* per source the records made from its candidates
    orphans,      \* records flushed for a refused candidate, linked to nothing
    observation,  \* source_observations
    worker,       \* what each worker process is doing
    retry         \* open retry requests, with the state of the source they read

vars == <<source, job, draft, orphans, observation, worker, retry>>

Jobs == Sources \cup Retries
Candidates == 1..MaxCandidates
CaptureStates == {"received", "processing", "parsed", "failed"}

Job == [source : Sources, state : {"pending", "running", "succeeded", "failed"},
        attempts : 0..MaxAttempts]
\* A record with its idempotency row, its link to the source and the run,
\* a job and its attempt, that made it.
Draft == [payload : Payloads, origin : Jobs \X (1..MaxAttempts),
          state : {"draft", "confirmed", "deleted"}]
Observation == [payload : Payloads, applicable : BOOLEAN,
                state : {"pending", "decided"}]
Work == [job : Jobs, step : {"claimed", "parsing", "answered"},
         payload : Payloads \cup {None}, links : 0..MaxCandidates]
Retry == [source : Sources, state : CaptureStates]

ASSUME NoneAssumption ==
    None \notin Payloads /\ None \notin CaptureStates /\ None \notin Job
    /\ None \notin Draft /\ None \notin Work /\ None \notin Retry

TypeOK ==
    /\ source \in [Sources -> CaptureStates \cup {None}]
    /\ job \in [Jobs -> Job \cup {None}]
    /\ draft \in [Sources -> [Candidates -> Draft \cup {None}]]
    /\ orphans \in [Sources -> Nat]
    /\ observation \in [Sources -> SUBSET Observation]
    /\ worker \in [Workers -> Work \cup {None}]
    /\ retry \in [Retries -> Retry \cup {None}]

Init ==
    /\ source = [s \in Sources |-> None]
    /\ job = [j \in Jobs |-> None]
    /\ draft = [s \in Sources |-> [i \in Candidates |-> None]]
    /\ orphans = [s \in Sources |-> 0]
    /\ observation = [s \in Sources |-> {}]
    /\ worker = [w \in Workers |-> None]
    /\ retry = [k \in Retries |-> None]

-----------------------------------------------------------------------------
(* The requests of the owner *)

NewJob(s) == [source |-> s, state |-> "pending", attempts |-> 0]

\* asset_complete(): source and job in one transaction; the unique external
\* id makes a repetition return the source that is there.
Upload(s) ==
    /\ source[s] = None
    /\ source' = [source EXCEPT ![s] = "received"]
    /\ job' = [job EXCEPT ![s] = NewJob(s)]
    /\ UNCHANGED <<draft, orphans, observation, worker, retry>>

\* capture_source_retry() reads the source, and then locks its row without
\* reading it again.  A key that has made a job only replays its answer.
OpenRetry(k, s) ==
    /\ retry[k] = None /\ job[k] = None
    /\ source[s] # None
    /\ retry' = [retry EXCEPT ![k] = [source |-> s, state |-> source[s]]]
    /\ UNCHANGED <<source, job, draft, orphans, observation, worker>>

CommitRetry(k) ==
    /\ retry[k] # None
    /\ retry[k].state = "failed"
    /\ source' = [source EXCEPT ![retry[k].source] = "received"]
    /\ job' = [job EXCEPT ![k] = NewJob(retry[k].source)]
    /\ retry' = [retry EXCEPT ![k] = None]
    /\ UNCHANGED <<draft, orphans, observation, worker>>

\* Refused with capture_not_failed, or the server stops.
CloseRetry(k) ==
    /\ retry[k] # None
    /\ retry' = [retry EXCEPT ![k] = None]
    /\ UNCHANGED <<source, job, draft, orphans, observation, worker>>

\* confirm_record() and delete_draft(); a pending observation of the source
\* blocks a confirmation, a deletion removes the link and keeps the
\* idempotency row.
ConfirmDraft(s, i) ==
    /\ draft[s][i] # None /\ draft[s][i].state = "draft"
    /\ \A o \in observation[s] : o.state # "pending"
    /\ draft' = [draft EXCEPT ![s][i].state = "confirmed"]
    /\ UNCHANGED <<source, job, orphans, observation, worker, retry>>

DeleteDraft(s, i) ==
    /\ draft[s][i] # None /\ draft[s][i].state = "draft"
    /\ draft' = [draft EXCEPT ![s][i].state = "deleted"]
    /\ UNCHANGED <<source, job, orphans, observation, worker, retry>>

DecideObservation(s, o) ==
    /\ o \in observation[s] /\ o.state = "pending"
    /\ observation' = [observation EXCEPT ![s] =
                          (@ \ {o}) \cup {[o EXCEPT !.state = "decided"]}]
    /\ UNCHANGED <<source, job, draft, orphans, worker, retry>>

-----------------------------------------------------------------------------
(* claim_and_run_job() *)

\* Mutant: the last attempt is counted wrongly.
ClaimableOnceMore(j) ==
    job[j] # None /\ job[j].state \in {"pending", "failed"} /\ job[j].attempts <= MaxAttempts

\* Mutant: a running job is taken over, as if its worker had died.
ClaimableAgain(j) ==
    job[j] # None /\ job[j].state # "succeeded" /\ job[j].attempts < MaxAttempts

\* available_at is time: a failed job comes back sooner or later.
Claimable(j) ==
    job[j] # None /\ job[j].state \in {"pending", "failed"} /\ job[j].attempts < MaxAttempts

Claim(w, j) ==
    /\ worker[w] = None
    /\ Claimable(j)
    /\ job' = [job EXCEPT ![j].state = "running", ![j].attempts = @ + 1]
    /\ worker' = [worker EXCEPT ![w] =
          [job |-> j, step |-> "claimed", payload |-> None, links |-> 0]]
    /\ UNCHANGED <<source, draft, orphans, observation, retry>>

SourceOf(w) == job[worker[w].job].source
Run(w) == <<worker[w].job, job[worker[w].job].attempts>>

\* Whatever the state of the source was.
MarkProcessing(w) ==
    /\ worker[w] # None /\ worker[w].step = "claimed"
    /\ source' = [source EXCEPT ![SourceOf(w)] = "processing"]
    /\ worker' = [worker EXCEPT ![w].step = "parsing"]
    /\ UNCHANGED <<job, draft, orphans, observation, retry>>

\* The records linked to a source.
Links(s) == {i \in Candidates : draft[s][i] # None /\ draft[s][i].state # "deleted"}

\* The parser answers and the worker reads which records the source has.
Answer(w, p) ==
    /\ worker[w] # None /\ worker[w].step = "parsing"
    /\ worker' = [worker EXCEPT ![w].step = "answered", ![w].payload = p,
                                ![w].links = Cardinality(Links(SourceOf(w)))]
    /\ UNCHANGED <<source, job, draft, orphans, observation, retry>>

Succeed(w) ==
    /\ source' = [source EXCEPT ![SourceOf(w)] = "parsed"]
    /\ job' = [job EXCEPT ![worker[w].job].state = "succeeded"]
    /\ worker' = [worker EXCEPT ![w] = None]
    /\ UNCHANGED retry

\* Mutant: the handler of the exception forgets the source.
JobFailed(s) == source

SourceFailed(s) == [source EXCEPT ![s] = "failed"]

\* The except branch: it commits what the job has flushed.
Fail(w) ==
    /\ source' = SourceFailed(SourceOf(w))
    /\ job' = [job EXCEPT ![worker[w].job].state = "failed"]
    /\ worker' = [worker EXCEPT ![w] = None]
    /\ UNCHANGED retry

\* The parser is unreachable, or a candidate or their number is invalid.
ParseFails(w) ==
    /\ worker[w] # None /\ worker[w].step = "parsing"
    /\ Fail(w)
    /\ UNCHANGED <<draft, orphans, observation>>

-----------------------------------------------------------------------------
(* process_job() after the answer, for a source that had no records: the   *)
(* advisory lock on the key of the first candidate serialises the workers, *)
(* so each transaction is one step.                                        *)

HasAnswer(w) == worker[w] # None /\ worker[w].step = "answered"

\* Mutant: a key that was used for other content is not refused.
TakenBySame(s, p) ==
    Count[p] > 0 /\ draft[s][1] # None /\ draft[s][1].payload = p

\* Mutant: a key whose record is gone does not count.
TakenByLive(s, p) ==
    Count[p] > 0 /\ draft[s][1] # None /\ draft[s][1].state # "deleted"

\* create_record() finds the idempotency row of the first candidate.
Taken(s, p) == Count[p] > 0 /\ draft[s][1] # None

\* The records of the first n candidates.
Made(w, n) ==
    [draft EXCEPT ![SourceOf(w)] = [i \in Candidates |->
        IF i <= n
        THEN [payload |-> worker[w].payload, origin |-> Run(w), state |-> "draft"]
        ELSE @[i]]]

DraftAll(w) ==
    /\ HasAnswer(w)
    /\ worker[w].links = 0
    /\ ~Taken(SourceOf(w), worker[w].payload)
    /\ draft' = Made(w, Count[worker[w].payload])
    /\ Succeed(w)
    /\ UNCHANGED <<orphans, observation>>

\* create_record() refuses candidate n + 1, for its category, merchant,
\* item or related entry, after its record was flushed.
DraftSome(w, n) ==
    /\ HasAnswer(w)
    /\ worker[w].links = 0
    /\ ~Taken(SourceOf(w), worker[w].payload)
    /\ n < Count[worker[w].payload]
    /\ draft' = Made(w, n)
    /\ orphans' = [orphans EXCEPT ![SourceOf(w)] = @ + 1]
    /\ Fail(w)
    /\ UNCHANGED observation

\* The key belongs to other content or to a record that was deleted.
DraftRefused(w) ==
    /\ HasAnswer(w)
    /\ worker[w].links = 0
    /\ LET s == SourceOf(w)
           p == worker[w].payload
       IN /\ Taken(s, p)
          /\ draft[s][1].state = "deleted" \/ draft[s][1].payload # p
    /\ Fail(w)
    /\ UNCHANGED <<draft, orphans, observation>>

\* The first candidate, which two answers may share, has its record and its
\* link: the second link breaks the primary key, and the worker.
DraftBreaks(w) ==
    /\ HasAnswer(w)
    /\ worker[w].links = 0
    /\ Taken(SourceOf(w), worker[w].payload)
    /\ draft[SourceOf(w)][1].state # "deleted"
    /\ worker' = [worker EXCEPT ![w] = None]
    /\ UNCHANGED <<source, job, draft, orphans, observation, retry>>

(* and for a source that had records: append_observation() *)

Applicable(w) == Count[worker[w].payload] = 1 /\ worker[w].links = 1

SameVersion(w) == {o \in observation[SourceOf(w)] : o.payload = worker[w].payload}

Observe(w) ==
    /\ HasAnswer(w)
    /\ worker[w].links > 0
    /\ \A o \in SameVersion(w) : o.applicable = Applicable(w)
    /\ observation' = IF SameVersion(w) # {} THEN observation
          ELSE [observation EXCEPT ![SourceOf(w)] = @ \cup
                  {[payload |-> worker[w].payload, applicable |-> Applicable(w),
                    state |-> "pending"]}]
    /\ Succeed(w)
    /\ UNCHANGED <<draft, orphans>>

\* observation_version_conflict: the same answer, with another candidate.
ObserveRefused(w) ==
    /\ HasAnswer(w)
    /\ worker[w].links > 0
    /\ \E o \in SameVersion(w) : o.applicable # Applicable(w)
    /\ Fail(w)
    /\ UNCHANGED <<draft, orphans, observation>>

\* The process is killed: what it has committed stays.
Crash(w) ==
    /\ worker[w] # None
    /\ worker' = [worker EXCEPT ![w] = None]
    /\ UNCHANGED <<source, job, draft, orphans, observation, retry>>

-----------------------------------------------------------------------------

Owner(s) ==
    \/ Upload(s)
    \/ \E k \in Retries : OpenRetry(k, s)
    \/ \E i \in Candidates : ConfirmDraft(s, i) \/ DeleteDraft(s, i)
    \/ \E o \in observation[s] : DecideObservation(s, o)

Step(w) ==
    \/ \E j \in Jobs : Claim(w, j)
    \/ MarkProcessing(w)
    \/ \E p \in Payloads : Answer(w, p)
    \/ ParseFails(w)
    \/ DraftAll(w) \/ DraftRefused(w) \/ DraftBreaks(w)
    \/ \E n \in 0..MaxCandidates : DraftSome(w, n)
    \/ Observe(w) \/ ObserveRefused(w)

CrashFreeNext ==
    \/ \E s \in Sources : Owner(s)
    \/ \E k \in Retries : CommitRetry(k) \/ CloseRetry(k)
    \/ \E w \in Workers : Step(w)

Next == CrashFreeNext \/ \E w \in Workers : Crash(w)

Spec == Init /\ [][Next]_vars

\* run() polls for ever and the call of the parser ends after 60 seconds.
Fairness == \A w \in Workers : WF_vars(Step(w))

FairSpec == Spec /\ Fairness

-----------------------------------------------------------------------------
(* Properties *)

\* A claimed job is worked on by the worker that claimed it and by no other:
\* SKIP LOCKED and the commit of "running" before the work starts.
OneWorkerPerJob ==
    \A v, w \in Workers : worker[v] # None /\ worker[w] # None =>
        /\ job[worker[w].job].state = "running"
        /\ worker[v].job = worker[w].job => v = w

\* All drafts of a source come from one run of one job, so from one answer:
\* no interleaving of workers, retries and partial failures mixes them.
DraftsComeFromOneRun ==
    \A s \in Sources : \A i, k \in Candidates :
        draft[s][i] # None /\ draft[s][k] # None =>
            draft[s][i].origin = draft[s][k].origin

\* "A retry does not overwrite confirmed facts" and what was deleted is not
\* recorded again by a retry: no worker changes what the owner has decided.
OwnerDecisionsStand ==
    [][\A s \in Sources, i \in Candidates :
          draft[s][i] # None /\ draft[s][i].state # "draft" =>
              draft'[s][i] = draft[s][i]]_vars

\* A source that is being processed is parsed or failed in the end, so that
\* the owner can retry it or has its drafts.
SourcesSettle ==
    \A s \in Sources : source[s] = "processing" ~> source[s] \in {"parsed", "failed"}

\* All candidates of an answer become drafts in one transaction or none, and
\* every draft is linked to its source.
AllCandidatesOrNone ==
    \A s \in Sources :
        /\ orphans[s] = 0
        /\ \A i \in Candidates : draft[s][i] # None =>
              \A k \in 1..Count[draft[s][i].payload] : draft[s][k] # None

\* Only a failed source can be retried.
RetryNeedsFailure ==
    [][\A k \in Retries : job[k] = None /\ job'[k] # None =>
          source[job'[k].source] = "failed"]_vars

-----------------------------------------------------------------------------
(* The inductive invariant behind the safety properties *)

\* A job names a source, and the initial job its own.
JobsNameSources ==
    \A j \in Jobs : job[j] # None =>
        /\ source[job[j].source] # None
        /\ j \in Sources => job[j].source = j
        /\ job[j].state \in {"running", "succeeded", "failed"} => job[j].attempts > 0

WorkersHaveJobs ==
    \A w \in Workers : worker[w] # None =>
        /\ job[worker[w].job] # None
        /\ worker[w].step = "answered" => worker[w].payload # None

\* An open retry has a source, and its key has made no job yet.
RetriesNameSources ==
    \A k \in Retries : retry[k] # None =>
        source[retry[k].source] # None /\ job[k] = None

\* The keys of a source are used from the first one on, for one answer.
KeysStartAtOne ==
    \A s \in Sources, i \in Candidates : draft[s][i] # None =>
        /\ draft[s][1] # None
        /\ draft[s][i].payload = draft[s][1].payload
        /\ draft[s][i].origin = draft[s][1].origin

\* Links and observations exist only once the first key is used.
LinksFollowKeys ==
    /\ \A w \in Workers : worker[w] # None /\ worker[w].links > 0 =>
          draft[SourceOf(w)][1] # None
    /\ \A s \in Sources : observation[s] # {} => draft[s][1] # None

IInv ==
    /\ TypeOK
    /\ JobsNameSources
    /\ WorkersHaveJobs
    /\ RetriesNameSources
    /\ KeysStartAtOne
    /\ LinksFollowKeys
    /\ OneWorkerPerJob
    /\ DraftsComeFromOneRun

-----------------------------------------------------------------------------
(* The pipeline implements the contract: jobs, attempts, crashes and       *)
(* refusals are invisible to it.                                           *)

Contract == INSTANCE CaptureContract WITH
    answer <- [s \in Sources |->
                  IF draft[s][1] = None THEN None ELSE draft[s][1].payload],
    life <- [s \in Sources |-> [i \in 1..MaxCandidates |->
                  IF draft[s][i] = None THEN None ELSE draft[s][i].state]],
    observed <- [s \in Sources |-> {o.payload : o \in observation[s]}]

\* Every behaviour of the workers is one of the contract.
ImplementsContract == Contract!ContractSpec
=============================================================================
