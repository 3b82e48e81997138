------------------------- MODULE CaptureJobsProofs -------------------------
(***************************************************************************)
(* What holds of CaptureJobs, and of Delivery that extends it, for every   *)
(* value of their constants.                                               *)
(***************************************************************************)
EXTENDS Delivery, FiniteSetTheorems, SequenceTheorems, TLAPS

-----------------------------------------------------------------------------
(* The initial states *)

\* Before any upload.
LEMMA InitIInv == Init => IInv
<1> SUFFICES ASSUME Init PROVE IInv
  OBVIOUS
<1>1. TypeOK
  BY DEF Init, TypeOK
<1>2. JobsNameSources /\ WorkersHaveJobs /\ RetriesNameSources /\ OneWorkerPerJob
  BY DEF Init, JobsNameSources, WorkersHaveJobs, RetriesNameSources, OneWorkerPerJob
<1>3. KeysStartAtOne /\ LinksFollowKeys /\ DraftsComeFromOneRun
  BY DEF Init, KeysStartAtOne, LinksFollowKeys, DraftsComeFromOneRun
<1>. QED
  BY <1>1, <1>2, <1>3 DEF IInv

-----------------------------------------------------------------------------
(* What the type invariant and the references between rows give *)

\* The first candidate is one of the candidates.
LEMMA FirstCandidate == 1 \in Candidates
BY ConstantsAssumption DEF Candidates

\* A busy worker has a running job of an existing source.
LEMMA WorkerFacts ==
  ASSUME IInv, NEW w \in Workers, worker[w] # None
  PROVE  /\ worker[w] \in Work
         /\ worker[w].job \in Jobs
         /\ worker[w].links \in Nat
         /\ job[worker[w].job] \in Job
         /\ job[worker[w].job].state = "running"
         /\ SourceOf(w) \in Sources
         /\ source[SourceOf(w)] # None
         /\ Run(w) \in Jobs \X (1..MaxAttempts)
<1>1. worker[w] \in Work
  BY DEF IInv, TypeOK
<1>2. worker[w].job \in Jobs /\ worker[w].links \in Nat
  BY <1>1, ConstantsAssumption DEF Work
<1>3. job[worker[w].job] # None
  BY DEF IInv, WorkersHaveJobs
<1>4. job[worker[w].job] \in Job
  BY <1>2, <1>3 DEF IInv, TypeOK
<1>5. job[worker[w].job].state = "running"
  BY DEF IInv, OneWorkerPerJob
<1>6. SourceOf(w) \in Sources /\ job[worker[w].job].attempts \in 0..MaxAttempts
  BY <1>4 DEF SourceOf, Job
<1>7. source[SourceOf(w)] # None /\ job[worker[w].job].attempts > 0
  BY <1>2, <1>3, <1>5 DEF IInv, JobsNameSources, SourceOf
<1>8. job[worker[w].job].attempts \in 1..MaxAttempts
  BY <1>6, <1>7, ConstantsAssumption
<1>. QED
  BY <1>1, <1>2, <1>4, <1>5, <1>6, <1>7, <1>8 DEF Run

\* A source whose first key is free has no drafts at all.
LEMMA FreeSourceIsEmpty ==
  ASSUME IInv, NEW s \in Sources, draft[s][1] = None
  PROVE  \A i \in Candidates : draft[s][i] = None
BY DEF IInv, KeysStartAtOne

\* What the links of a source say about its keys.
LEMMA LinksFacts ==
  ASSUME IInv, NEW s \in Sources
  PROVE  /\ Cardinality(Links(s)) \in 0..MaxCandidates
         /\ Cardinality(Links(s)) > 0 => draft[s][1] # None
<1>1. IsFiniteSet(Candidates) /\ Cardinality(Candidates) = MaxCandidates
  BY FS_Interval, ConstantsAssumption DEF Candidates
<1>2. Links(s) \subseteq Candidates
  BY DEF Links
<1>3. /\ IsFiniteSet(Links(s))
      /\ Cardinality(Links(s)) <= Cardinality(Candidates)
  BY <1>1, <1>2, FS_Subset
<1>4. Cardinality(Links(s)) \in Nat
  BY <1>3, FS_CardinalityType
<1>5. Cardinality(Links(s)) > 0 => Links(s) # {}
  BY <1>3, FS_EmptySet
<1>6. Links(s) # {} => \E i \in Candidates : draft[s][i] # None
  BY DEF Links
<1>7. Links(s) # {} => draft[s][1] # None
  BY <1>6, FreeSourceIsEmpty
<1>. QED
  BY <1>1, <1>3, <1>4, <1>5, <1>7, ConstantsAssumption

-----------------------------------------------------------------------------
(* The requests of the owner *)

\* A retry request holds no row.
LEMMA RetryIInv ==
  ASSUME IInv, NEW k \in Retries, NEW s \in Sources,
         OpenRetry(k, s) \/ CloseRetry(k)
  PROVE  IInv'
<1>1. UNCHANGED <<source, job, draft, orphans, observation, worker>>
  BY DEF OpenRetry, CloseRetry
<1>2. CASE OpenRetry(k, s)
  <2>1. source[s] \in CaptureStates /\ source[s] # None
    BY <1>2 DEF OpenRetry, IInv, TypeOK
  <2>2. [source |-> s, state |-> source[s]] \in Retry
    BY <2>1 DEF Retry
  <2>3. TypeOK'
    BY <1>1, <1>2, <2>2 DEF OpenRetry, IInv, TypeOK
  <2>4. RetriesNameSources'
    BY <1>1, <1>2, <2>1 DEF OpenRetry, IInv, TypeOK, RetriesNameSources
  <2>. QED
    BY <1>1, <2>3, <2>4 DEF IInv, JobsNameSources, WorkersHaveJobs, KeysStartAtOne,
       LinksFollowKeys, OneWorkerPerJob, DraftsComeFromOneRun, SourceOf
<1>3. CASE CloseRetry(k)
  <2>1. TypeOK'
    BY <1>1, <1>3 DEF CloseRetry, IInv, TypeOK
  <2>2. RetriesNameSources'
    BY <1>1, <1>3 DEF CloseRetry, IInv, TypeOK, RetriesNameSources
  <2>. QED
    BY <1>1, <2>1, <2>2 DEF IInv, JobsNameSources, WorkersHaveJobs, KeysStartAtOne,
       LinksFollowKeys, OneWorkerPerJob, DraftsComeFromOneRun, SourceOf
<1>. QED
  BY <1>2, <1>3

\* A new job for a source: no worker has it.
LEMMA NewJobIInv ==
  ASSUME IInv, NEW s \in Sources, NEW j \in Jobs, job[j] = None,
         source' = [source EXCEPT ![s] = "received"],
         job' = [job EXCEPT ![j] = NewJob(s)],
         UNCHANGED <<draft, orphans, observation, worker>>,
         retry' \in [Retries -> Retry \cup {None}],
         \A k \in Retries : retry'[k] # None => retry'[k] = retry[k] /\ k # j,
         j \in Sources => s = j
  PROVE  IInv'
<1>1. NewJob(s) \in Job /\ NewJob(s) # None
  BY ConstantsAssumption, NoneAssumption DEF NewJob, Job
<1>2. TypeOK'
  BY <1>1, NoneAssumption DEF IInv, TypeOK, CaptureStates
<1>3. \A x \in Sources : source[x] # None => source'[x] # None
  BY NoneAssumption DEF IInv, TypeOK, CaptureStates
<1>4. source'[s] # None
  BY NoneAssumption DEF IInv, TypeOK, CaptureStates
<1>5. JobsNameSources'
  <2> SUFFICES ASSUME NEW i \in Jobs, job'[i] # None
               PROVE  /\ source'[job'[i].source] # None
                      /\ i \in Sources => job'[i].source = i
                      /\ job'[i].state \in {"running", "succeeded", "failed"}
                            => job'[i].attempts > 0
    BY DEF JobsNameSources
  <2>1. CASE i = j
    BY <1>4, <2>1 DEF NewJob, IInv, TypeOK
  <2>2. CASE i # j
    <3>1. job'[i] = job[i]
      BY <2>2 DEF IInv, TypeOK
    <3>2. job[i].source \in Sources
      BY <3>1 DEF IInv, TypeOK, Job
    <3>. QED
      BY <1>3, <3>1, <3>2 DEF IInv, JobsNameSources
  <2>. QED
    BY <2>1, <2>2
<1>6. \A w \in Workers : worker[w] # None => worker[w].job # j /\ worker[w].job \in Jobs
  BY WorkerFacts DEF IInv, WorkersHaveJobs
<1>7. \A w \in Workers : worker[w] # None => job'[worker[w].job] = job[worker[w].job]
  BY <1>6 DEF IInv, TypeOK
<1>8. WorkersHaveJobs' /\ OneWorkerPerJob' /\ LinksFollowKeys'
  BY <1>7 DEF IInv, WorkersHaveJobs, OneWorkerPerJob, LinksFollowKeys, SourceOf
<1>9. RetriesNameSources'
  <2> SUFFICES ASSUME NEW k \in Retries, retry'[k] # None
               PROVE  source'[retry'[k].source] # None /\ job'[k] = None
    BY DEF RetriesNameSources
  <2>1. retry'[k] = retry[k] /\ retry[k].source \in Sources
    BY DEF IInv, TypeOK, Retry
  <2>2. job'[k] = job[k]
    BY DEF IInv, TypeOK, Jobs
  <2>. QED
    BY <1>3, <2>1, <2>2 DEF IInv, RetriesNameSources
<1>10. KeysStartAtOne' /\ DraftsComeFromOneRun'
  BY DEF IInv, KeysStartAtOne, DraftsComeFromOneRun
<1>. QED
  BY <1>2, <1>5, <1>8, <1>9, <1>10 DEF IInv

\* asset_complete(): a source that is not there yet has no job.
LEMMA UploadIInv == ASSUME IInv, NEW s \in Sources, Upload(s) PROVE IInv'
<1>1. s \in Jobs /\ s \notin Retries
  BY ConstantsAssumption DEF Jobs
<1>2. source[s] = None
  BY DEF Upload
<1>3. job[s] = None
  BY <1>1, <1>2 DEF IInv, JobsNameSources
<1>4. /\ source' = [source EXCEPT ![s] = "received"]
      /\ job' = [job EXCEPT ![s] = NewJob(s)]
      /\ UNCHANGED <<draft, orphans, observation, worker, retry>>
  BY DEF Upload
<1>5. \A k \in Retries : retry'[k] # None => retry'[k] = retry[k] /\ k # s
  BY <1>1, <1>4
<1>6. retry' \in [Retries -> Retry \cup {None}]
  BY <1>4 DEF IInv, TypeOK
<1>. QED
  BY <1>1, <1>3, <1>4, <1>5, <1>6, NewJobIInv

\* The retry that is committed closes with its job made.
LEMMA CommitRetryIInv == ASSUME IInv, NEW k \in Retries, CommitRetry(k) PROVE IInv'
<1> DEFINE s == retry[k].source
<1>1. retry[k] # None /\ retry[k] \in Retry
  BY DEF CommitRetry, IInv, TypeOK
<1>2. s \in Sources /\ k \in Jobs /\ k \notin Sources
  BY <1>1, ConstantsAssumption DEF Retry, Jobs
<1>3. job[k] = None
  BY <1>1 DEF IInv, RetriesNameSources
<1>4. /\ source' = [source EXCEPT ![s] = "received"]
      /\ job' = [job EXCEPT ![k] = NewJob(s)]
      /\ retry' = [retry EXCEPT ![k] = None]
      /\ UNCHANGED <<draft, orphans, observation, worker>>
  BY DEF CommitRetry
<1>5. /\ retry' \in [Retries -> Retry \cup {None}]
      /\ \A i \in Retries : retry'[i] # None => retry'[i] = retry[i] /\ i # k
  BY <1>4 DEF IInv, TypeOK
<1> HIDE DEF s
<1>. QED
  BY <1>2, <1>3, <1>4, <1>5, NewJobIInv

\* What the owner decides about a draft changes neither its origin nor its
\* answer.
LEMMA DecideIInv ==
  ASSUME IInv, NEW s \in Sources, NEW i \in Candidates,
         ConfirmDraft(s, i) \/ DeleteDraft(s, i)
  PROVE  IInv'
<1>1. draft[s][i] # None /\ draft[s][i] \in Draft
  BY DEF ConfirmDraft, DeleteDraft, IInv, TypeOK
<1>2. PICK x \in {"confirmed", "deleted"} : draft' = [draft EXCEPT ![s][i].state = x]
  BY DEF ConfirmDraft, DeleteDraft
<1>3. UNCHANGED <<source, job, orphans, observation, worker, retry>>
  BY DEF ConfirmDraft, DeleteDraft
<1>4. /\ [draft[s][i] EXCEPT !.state = x] \in Draft
      /\ [draft[s][i] EXCEPT !.state = x] # None
      /\ [draft[s][i] EXCEPT !.state = x].origin = draft[s][i].origin
      /\ [draft[s][i] EXCEPT !.state = x].payload = draft[s][i].payload
  BY <1>1, NoneAssumption DEF Draft
<1>5. /\ draft' \in [Sources -> [Candidates -> Draft \cup {None}]]
      /\ \A r \in Sources, c \in Candidates :
            /\ draft'[r][c] = None <=> draft[r][c] = None
            /\ draft[r][c] # None => /\ draft'[r][c].origin = draft[r][c].origin
                                     /\ draft'[r][c].payload = draft[r][c].payload
  BY <1>1, <1>2, <1>4 DEF IInv, TypeOK
<1>6. TypeOK'
  BY <1>3, <1>5 DEF IInv, TypeOK
<1>7. KeysStartAtOne' /\ DraftsComeFromOneRun'
  BY <1>5, FirstCandidate DEF IInv, KeysStartAtOne, DraftsComeFromOneRun
<1>8. LinksFollowKeys'
  <2>1. \A w \in Workers : worker[w] # None => SourceOf(w) \in Sources
    BY WorkerFacts
  <2>2. \A w \in Workers : SourceOf(w)' = SourceOf(w)
    BY <1>3 DEF SourceOf
  <2>. QED
    BY <1>3, <1>5, <2>1, <2>2, FirstCandidate DEF IInv, LinksFollowKeys
<1>9. JobsNameSources' /\ WorkersHaveJobs' /\ RetriesNameSources' /\ OneWorkerPerJob'
  BY <1>3 DEF IInv, JobsNameSources, WorkersHaveJobs, RetriesNameSources, OneWorkerPerJob
<1>. QED
  BY <1>6, <1>7, <1>8, <1>9 DEF IInv

\* A decided observation is still one of its source.
LEMMA DecideObservationIInv ==
  ASSUME IInv, NEW s \in Sources, NEW o \in observation[s], DecideObservation(s, o)
  PROVE  IInv'
<1>1. UNCHANGED <<source, job, draft, orphans, worker, retry>>
  BY DEF DecideObservation
<1>2. o \in Observation
  BY DEF IInv, TypeOK
<1>3. [o EXCEPT !.state = "decided"] \in Observation
  BY <1>2 DEF Observation
<1>4. TypeOK'
  BY <1>1, <1>3 DEF DecideObservation, IInv, TypeOK
<1>5. \A r \in Sources : observation'[r] # {} => observation[r] # {}
  BY DEF DecideObservation, IInv, TypeOK
<1>6. LinksFollowKeys'
  BY <1>1, <1>5 DEF IInv, LinksFollowKeys, SourceOf
<1>. QED
  BY <1>1, <1>4, <1>6 DEF IInv, JobsNameSources, WorkersHaveJobs, RetriesNameSources,
     KeysStartAtOne, OneWorkerPerJob, DraftsComeFromOneRun

-----------------------------------------------------------------------------
(* Steps of a worker before its result *)

\* A worker takes a job or goes on with its own, the other workers' jobs are
\* as they were.
LEMMA WorkerMoves ==
  ASSUME IInv, NEW w \in Workers, NEW y \in Work,
         worker' = [worker EXCEPT ![w] = y],
         UNCHANGED <<draft, observation>>,
         job'[y.job] # None /\ job'[y.job].state = "running",
         y.step = "answered" => y.payload # None,
         y.links > 0 => draft[job'[y.job].source][1] # None,
         \A v \in Workers \ {w} : worker[v] # None =>
             worker[v].job # y.job /\ job'[worker[v].job] = job[worker[v].job]
  PROVE  /\ worker' \in [Workers -> Work \cup {None}]
         /\ WorkersHaveJobs' /\ OneWorkerPerJob' /\ LinksFollowKeys'
<1>1. worker \in [Workers -> Work \cup {None}]
  BY DEF IInv, TypeOK
<1>2. /\ worker'[w] = y
      /\ \A v \in Workers \ {w} : worker'[v] = worker[v]
  BY <1>1
<1>3. WorkersHaveJobs'
  <2> SUFFICES ASSUME NEW v \in Workers, worker'[v] # None
               PROVE  /\ job'[worker'[v].job] # None
                      /\ worker'[v].step = "answered" => worker'[v].payload # None
    BY DEF WorkersHaveJobs
  <2>1. CASE v = w
    BY <1>2, <2>1
  <2>2. CASE v # w
    BY <1>2, <2>2 DEF IInv, WorkersHaveJobs
  <2>. QED
    BY <2>1, <2>2
<1>4. \A v \in Workers \ {w} : worker'[v] # None =>
         job'[worker'[v].job].state = "running" /\ worker'[v].job # y.job
  BY <1>2 DEF IInv, OneWorkerPerJob
<1>5. \A v, u \in Workers \ {w} : worker'[v] # None /\ worker'[u] # None =>
         (worker'[v].job = worker'[u].job => v = u)
  BY <1>2 DEF IInv, OneWorkerPerJob
<1>6. OneWorkerPerJob'
  BY <1>2, <1>4, <1>5 DEF OneWorkerPerJob
<1>7. LinksFollowKeys'
  <2>1. ASSUME NEW v \in Workers, worker'[v] # None, worker'[v].links > 0
        PROVE  draft'[SourceOf(v)'][1] # None
    <3>1. CASE v = w
      BY <1>2, <2>1, <3>1 DEF SourceOf
    <3>2. CASE v # w
      <4>1. worker[v] # None /\ worker'[v] = worker[v] /\ SourceOf(v)' = SourceOf(v)
        BY <1>2, <2>1, <3>2 DEF SourceOf
      <4>. QED
        BY <2>1, <4>1 DEF IInv, LinksFollowKeys
    <3>. QED
      BY <3>1, <3>2
  <2>. QED
    BY <2>1 DEF IInv, LinksFollowKeys
<1>. QED
  BY <1>1, <1>3, <1>6, <1>7

\* A job that can be claimed is in nobody's hands.
LEMMA ClaimIInv ==
  ASSUME IInv, NEW w \in Workers, NEW j \in Jobs, Claim(w, j) PROVE IInv'
<1> DEFINE x == [source |-> job[j].source, state |-> "running",
                 attempts |-> job[j].attempts + 1]
           y == [job |-> j, step |-> "claimed", payload |-> None, links |-> 0]
<1>1. /\ worker[w] = None
      /\ job[j] # None
      /\ job[j].state \in {"pending", "failed"}
      /\ job[j].attempts < MaxAttempts
      /\ job' = [job EXCEPT ![j].state = "running", ![j].attempts = @ + 1]
      /\ worker' = [worker EXCEPT ![w] = y]
      /\ UNCHANGED <<source, draft, orphans, observation, retry>>
  BY DEF Claim, Claimable
<1>2. /\ job[j].source \in Sources
      /\ job[j].attempts \in 0..MaxAttempts
      /\ job[j] = [source |-> job[j].source, state |-> job[j].state,
                   attempts |-> job[j].attempts]
  BY <1>1 DEF IInv, TypeOK, Job
<1>3. /\ job[j].attempts + 1 \in 0..MaxAttempts
      /\ job[j].attempts + 1 > 0
  BY <1>1, <1>2, ConstantsAssumption
<1>4. x \in Job
  BY <1>2, <1>3 DEF Job
<1>5. x # None
  BY <1>4, NoneAssumption
<1>6. job' = [job EXCEPT ![j] = x]
  BY <1>1, <1>2 DEF IInv, TypeOK
<1>7. y \in Work
  BY ConstantsAssumption DEF Work
<1>8. /\ job' \in [Jobs -> Job \cup {None}]
      /\ job'[j] = x
      /\ \A i \in Jobs \ {j} : job'[i] = job[i]
  BY <1>4, <1>6 DEF IInv, TypeOK
<1>9. \A v \in Workers : worker[v] # None =>
         worker[v].job \in Jobs /\ worker[v].job # j
  BY <1>1, WorkerFacts
<1>10. /\ y.job = j /\ y.step = "claimed" /\ y.links = 0
       /\ x.state = "running"
  OBVIOUS
<1>11. \A v \in Workers \ {w} : worker[v] # None =>
          worker[v].job # y.job /\ job'[worker[v].job] = job[worker[v].job]
  BY <1>8, <1>9, <1>10
<1>12. /\ worker' = [worker EXCEPT ![w] = y]
       /\ UNCHANGED <<draft, observation>>
       /\ job'[y.job] # None /\ job'[y.job].state = "running"
       /\ y.step = "answered" => y.payload # None
       /\ y.links > 0 => draft[job'[y.job].source][1] # None
  BY <1>1, <1>5, <1>8, <1>10
<1>13. /\ worker' \in [Workers -> Work \cup {None}]
       /\ WorkersHaveJobs' /\ OneWorkerPerJob' /\ LinksFollowKeys'
  <2> HIDE DEF x, y
  <2>. QED
    BY <1>7, <1>11, <1>12, WorkerMoves
<1>14. TypeOK'
  BY <1>1, <1>8, <1>13 DEF IInv, TypeOK
<1>15. JobsNameSources'
  <2> SUFFICES ASSUME NEW i \in Jobs, job'[i] # None
               PROVE  /\ source[job'[i].source] # None
                      /\ i \in Sources => job'[i].source = i
                      /\ job'[i].state \in {"running", "succeeded", "failed"}
                            => job'[i].attempts > 0
    BY <1>1 DEF JobsNameSources
  <2>1. CASE i = j
    BY <1>1, <1>3, <1>8, <2>1 DEF IInv, JobsNameSources
  <2>2. CASE i # j
    BY <1>8, <2>2 DEF IInv, JobsNameSources
  <2>. QED
    BY <2>1, <2>2
<1>16. RetriesNameSources'
  BY <1>1, <1>8 DEF IInv, RetriesNameSources, Jobs
<1>17. KeysStartAtOne' /\ DraftsComeFromOneRun'
  BY <1>1 DEF IInv, KeysStartAtOne, DraftsComeFromOneRun
<1>. QED
  BY <1>13, <1>14, <1>15, <1>16, <1>17 DEF IInv

\* Marking the source moves the worker on.
LEMMA MarkIInv == ASSUME IInv, NEW w \in Workers, MarkProcessing(w) PROVE IInv'
<1> DEFINE y == [worker[w] EXCEPT !.step = "parsing"]
<1>1. /\ worker[w] # None
      /\ source' = [source EXCEPT ![SourceOf(w)] = "processing"]
      /\ worker' = [worker EXCEPT ![w].step = "parsing"]
      /\ UNCHANGED <<job, draft, orphans, observation, retry>>
  BY DEF MarkProcessing
<1>2. /\ worker[w] \in Work
      /\ job[worker[w].job] # None
      /\ job[worker[w].job].state = "running"
  BY <1>1, WorkerFacts, NoneAssumption
<1>3. /\ y \in Work
      /\ y.job = worker[w].job
      /\ y.links = worker[w].links
      /\ y.step # "answered"
  BY <1>2 DEF Work
<1>4. worker' = [worker EXCEPT ![w] = y]
  BY <1>1 DEF IInv, TypeOK
<1>5. \A v \in Workers \ {w} : worker[v] # None => worker[v].job # worker[w].job
  BY <1>1 DEF IInv, OneWorkerPerJob
<1>6. y.links > 0 => draft[job[y.job].source][1] # None
  BY <1>1, <1>3 DEF IInv, LinksFollowKeys, SourceOf
<1>7. /\ worker' \in [Workers -> Work \cup {None}]
      /\ WorkersHaveJobs' /\ OneWorkerPerJob' /\ LinksFollowKeys'
  <2>1. \A v \in Workers \ {w} : worker[v] # None =>
           worker[v].job # y.job /\ job'[worker[v].job] = job[worker[v].job]
    BY <1>1, <1>3, <1>5
  <2>2. /\ worker' = [worker EXCEPT ![w] = y]
        /\ UNCHANGED <<draft, observation>>
        /\ job'[y.job] # None /\ job'[y.job].state = "running"
        /\ y.step = "answered" => y.payload # None
        /\ y.links > 0 => draft[job'[y.job].source][1] # None
    BY <1>1, <1>2, <1>3, <1>4, <1>6
  <2> HIDE DEF y
  <2>. QED
    BY <1>3, <2>1, <2>2, WorkerMoves
<1>8. TypeOK'
  BY <1>1, <1>7 DEF IInv, TypeOK, CaptureStates
<1>9. \A s \in Sources : source[s] # None => source'[s] # None
  BY <1>1, NoneAssumption DEF IInv, TypeOK, CaptureStates
<1>10. /\ \A j \in Jobs : job[j] # None => job[j].source \in Sources
       /\ \A k \in Retries : retry[k] # None => retry[k].source \in Sources
  BY DEF IInv, TypeOK, Job, Retry
<1>11. JobsNameSources' /\ RetriesNameSources'
  BY <1>1, <1>9, <1>10 DEF IInv, JobsNameSources, RetriesNameSources
<1>12. KeysStartAtOne' /\ DraftsComeFromOneRun'
  BY <1>1 DEF IInv, KeysStartAtOne, DraftsComeFromOneRun
<1>. QED
  BY <1>7, <1>8, <1>11, <1>12 DEF IInv

\* The links a worker has read are those of a source whose keys are used.
LEMMA AnswerIInv ==
  ASSUME IInv, NEW w \in Workers, NEW p \in Payloads, Answer(w, p) PROVE IInv'
<1> DEFINE n == Cardinality(Links(SourceOf(w)))
           y == [worker[w] EXCEPT !.step = "answered", !.payload = p, !.links = n]
<1>1. /\ worker[w] # None
      /\ worker' = [worker EXCEPT ![w].step = "answered", ![w].payload = p,
                                  ![w].links = n]
      /\ UNCHANGED <<source, job, draft, orphans, observation, retry>>
  BY DEF Answer
<1>2. /\ worker[w] \in Work
      /\ SourceOf(w) \in Sources
      /\ job[worker[w].job] # None
      /\ job[worker[w].job].state = "running"
  BY <1>1, WorkerFacts, NoneAssumption
<1>3. n \in 0..MaxCandidates /\ (n > 0 => draft[SourceOf(w)][1] # None)
  BY <1>2, LinksFacts
<1> HIDE DEF n
<1>4. /\ y \in Work
      /\ y.job = worker[w].job
      /\ y.payload = p
      /\ y.links = n
  BY <1>2, <1>3 DEF Work
<1>5. worker' = [worker EXCEPT ![w] = y]
  BY <1>1 DEF IInv, TypeOK
<1>6. \A v \in Workers \ {w} : worker[v] # None => worker[v].job # worker[w].job
  BY <1>1 DEF IInv, OneWorkerPerJob
<1>7. y.links > 0 => draft[job[y.job].source][1] # None
  BY <1>3, <1>4 DEF SourceOf
<1>8. /\ worker' \in [Workers -> Work \cup {None}]
      /\ WorkersHaveJobs' /\ OneWorkerPerJob' /\ LinksFollowKeys'
  <2>1. \A v \in Workers \ {w} : worker[v] # None =>
           worker[v].job # y.job /\ job'[worker[v].job] = job[worker[v].job]
    BY <1>1, <1>4, <1>6
  <2>2. y.job = worker[w].job /\ y.payload = p /\ p # None
    BY <1>4, NoneAssumption
  <2>3. /\ worker' = [worker EXCEPT ![w] = y]
        /\ UNCHANGED <<draft, observation>>
        /\ job'[y.job] # None /\ job'[y.job].state = "running"
        /\ y.step = "answered" => y.payload # None
        /\ y.links > 0 => draft[job'[y.job].source][1] # None
    BY <1>1, <1>2, <1>5, <1>7, <2>2
  <2> HIDE DEF y
  <2>. QED
    BY <1>4, <2>1, <2>3, WorkerMoves
<1>9. TypeOK'
  BY <1>1, <1>8 DEF IInv, TypeOK
<1>10. JobsNameSources' /\ RetriesNameSources' /\ KeysStartAtOne' /\ DraftsComeFromOneRun'
  BY <1>1 DEF IInv, JobsNameSources, RetriesNameSources, KeysStartAtOne,
     DraftsComeFromOneRun
<1>. QED
  BY <1>8, <1>9, <1>10 DEF IInv

\* A worker that dies leaves its job as it is.
LEMMA DieIInv ==
  ASSUME IInv, NEW w \in Workers, worker' = [worker EXCEPT ![w] = None],
         UNCHANGED <<source, job, draft, orphans, observation, retry>>
  PROVE  IInv'
<1>1. TypeOK'
  BY DEF IInv, TypeOK
<1>2. \A v \in Workers : worker'[v] # None => worker'[v] = worker[v]
  BY DEF IInv, TypeOK
<1>3. WorkersHaveJobs' /\ OneWorkerPerJob' /\ LinksFollowKeys'
  BY <1>2 DEF IInv, WorkersHaveJobs, OneWorkerPerJob, LinksFollowKeys, SourceOf
<1>4. JobsNameSources' /\ RetriesNameSources' /\ KeysStartAtOne' /\ DraftsComeFromOneRun'
  BY DEF IInv, JobsNameSources, RetriesNameSources, KeysStartAtOne, DraftsComeFromOneRun
<1>. QED
  BY <1>1, <1>3, <1>4 DEF IInv

-----------------------------------------------------------------------------
(* The result of a worker *)

\* Success or failure: the job, its source and the worker are done, keys that
\* were used stay used.
LEMMA SettleIInv ==
  ASSUME IInv, NEW w \in Workers, worker[w] # None,
         Succeed(w) \/ Fail(w),
         draft' \in [Sources -> [Candidates -> Draft \cup {None}]],
         orphans' \in [Sources -> Nat],
         observation' \in [Sources -> SUBSET Observation],
         \A s \in Sources : draft[s][1] # None => draft'[s][1] # None,
         \A s \in Sources : observation'[s] # {} => draft'[s][1] # None,
         \A s \in Sources, i \in Candidates : draft'[s][i] # None =>
            /\ draft'[s][1] # None
            /\ draft'[s][i].payload = draft'[s][1].payload
            /\ draft'[s][i].origin = draft'[s][1].origin
  PROVE  IInv'
<1> DEFINE r == SourceOf(w)
           j == worker[w].job
<1>1. PICK a \in CaptureStates, x \in {"succeeded", "failed"} :
         /\ source' = [source EXCEPT ![r] = a]
         /\ job' = [job EXCEPT ![j].state = x]
  BY DEF Succeed, Fail, SourceFailed, CaptureStates
<1>2. worker' = [worker EXCEPT ![w] = None] /\ retry' = retry
  BY DEF Succeed, Fail
<1>3. /\ r \in Sources /\ j \in Jobs
      /\ job[j] \in Job /\ job[j] # None
      /\ job[j].state = "running"
  BY WorkerFacts, NoneAssumption
<1> DEFINE y == [job[j] EXCEPT !.state = x]
<1>4. /\ y \in Job /\ y # None
      /\ y.source = job[j].source
      /\ y.attempts = job[j].attempts
  BY <1>3, NoneAssumption DEF Job
<1>5. /\ job' \in [Jobs -> Job \cup {None}]
      /\ job'[j] = y
      /\ \A i \in Jobs \ {j} : job'[i] = job[i]
  BY <1>1, <1>3, <1>4 DEF IInv, TypeOK
<1>6. /\ source' \in [Sources -> CaptureStates \cup {None}]
      /\ \A s \in Sources : source[s] # None => source'[s] # None
  BY <1>1, <1>3, NoneAssumption DEF IInv, TypeOK
<1>7. /\ worker' \in [Workers -> Work \cup {None}]
      /\ \A v \in Workers : worker'[v] # None =>
            v # w /\ worker'[v] = worker[v] /\ worker[v].job \in Jobs
  BY <1>2, WorkerFacts DEF IInv, TypeOK
<1>8. TypeOK'
  BY <1>2, <1>5, <1>6, <1>7 DEF IInv, TypeOK
<1>9. \A v \in Workers : worker'[v] # None =>
         worker[v].job # j /\ job'[worker[v].job] = job[worker[v].job]
  BY <1>5, <1>7 DEF IInv, OneWorkerPerJob
<1> HIDE DEF y, j, r
<1>10. WorkersHaveJobs' /\ OneWorkerPerJob'
  BY <1>7, <1>9 DEF IInv, WorkersHaveJobs, OneWorkerPerJob
<1>11. LinksFollowKeys'
  <2>1. ASSUME NEW v \in Workers, worker'[v] # None, worker'[v].links > 0
        PROVE  draft'[SourceOf(v)'][1] # None
    <3>1. worker'[v] = worker[v] /\ SourceOf(v)' = SourceOf(v)
      BY <1>7, <1>9, <2>1 DEF SourceOf
    <3>2. draft[SourceOf(v)][1] # None
      BY <2>1, <3>1 DEF IInv, LinksFollowKeys
    <3>3. SourceOf(v) \in Sources
      BY <2>1, <3>1, WorkerFacts
    <3>. QED
      BY <3>1, <3>2, <3>3
  <2>. QED
    BY <2>1 DEF LinksFollowKeys
<1>12. \A i \in Jobs : job'[i] # None =>
         /\ job[i] # None /\ job[i].source \in Sources
         /\ job'[i].source = job[i].source /\ job'[i].attempts = job[i].attempts
         /\ i # j => job'[i].state = job[i].state
  BY <1>3, <1>4, <1>5 DEF IInv, TypeOK, Job
<1>13. JobsNameSources'
  <2>1. ASSUME NEW i \in Jobs, job'[i] # None
        PROVE  /\ source'[job'[i].source] # None
               /\ i \in Sources => job'[i].source = i
    BY <1>6, <1>12, <2>1 DEF IInv, JobsNameSources
  <2>2. ASSUME NEW i \in Jobs, job'[i] # None,
               job'[i].state \in {"running", "succeeded", "failed"}
        PROVE  job'[i].attempts > 0
    BY <1>3, <1>12, <2>2 DEF IInv, JobsNameSources
  <2>. QED
    BY <2>1, <2>2 DEF JobsNameSources
<1>14. RetriesNameSources'
  <2> SUFFICES ASSUME NEW k \in Retries, retry'[k] # None
               PROVE  source'[retry'[k].source] # None /\ job'[k] = None
    BY DEF RetriesNameSources
  <2>1. retry[k] # None /\ retry[k].source \in Sources /\ job[k] = None
    BY <1>2 DEF IInv, TypeOK, Retry, RetriesNameSources
  <2>2. job'[k] = None
    BY <1>12, <2>1 DEF Jobs
  <2>. QED
    BY <1>2, <1>6, <2>1, <2>2 DEF IInv, RetriesNameSources
<1>15. KeysStartAtOne'
  BY DEF KeysStartAtOne
<1>16. DraftsComeFromOneRun'
  BY <1>15 DEF KeysStartAtOne, DraftsComeFromOneRun
<1>. QED
  BY <1>8, <1>10, <1>11, <1>13, <1>14, <1>15, <1>16 DEF IInv

\* A result that leaves the drafts and observations alone.
LEMMA NoResultIInv ==
  ASSUME IInv, NEW w \in Workers, worker[w] # None, Fail(w),
         UNCHANGED <<draft, orphans, observation>>
  PROVE  IInv'
<1>1. /\ draft' \in [Sources -> [Candidates -> Draft \cup {None}]]
      /\ orphans' \in [Sources -> Nat]
      /\ observation' \in [Sources -> SUBSET Observation]
  BY DEF IInv, TypeOK
<1>2. /\ \A s \in Sources : draft[s][1] # None => draft'[s][1] # None
      /\ \A s \in Sources : observation'[s] # {} => draft'[s][1] # None
  BY DEF IInv, LinksFollowKeys
<1>3. \A s \in Sources, i \in Candidates : draft'[s][i] # None =>
         /\ draft'[s][1] # None
         /\ draft'[s][i].payload = draft'[s][1].payload
         /\ draft'[s][i].origin = draft'[s][1].origin
  BY DEF IInv, KeysStartAtOne
<1>. QED
  BY <1>1, <1>2, <1>3, SettleIInv

\* Candidates become drafts only of a source without drafts: all of them have
\* the answer and the run of their worker.
LEMMA MadeFacts ==
  ASSUME IInv, NEW w \in Workers, HasAnswer(w),
         ~Taken(SourceOf(w), worker[w].payload),
         NEW n \in 0..Count[worker[w].payload],
         draft' = Made(w, n)
  PROVE  /\ worker[w].payload \in Payloads
         /\ n > 0 => /\ draft[SourceOf(w)][1] = None
                     /\ Count[worker[w].payload] > 0
         /\ n = 0 => draft' = draft
         /\ \A s \in Sources \ {SourceOf(w)} : draft'[s] = draft[s]
         /\ n > 0 => draft'[SourceOf(w)] = [i \in Candidates |->
               IF i <= n THEN [payload |-> worker[w].payload, origin |-> Run(w),
                               state |-> "draft"]
                         ELSE None]
         /\ draft' \in [Sources -> [Candidates -> Draft \cup {None}]]
         /\ \A s \in Sources : draft[s][1] # None => draft'[s][1] # None
         /\ \A s \in Sources, i \in Candidates : draft'[s][i] # None =>
               /\ draft'[s][1] # None
               /\ draft'[s][i].payload = draft'[s][1].payload
               /\ draft'[s][i].origin = draft'[s][1].origin
<1> DEFINE r == SourceOf(w)
           p == worker[w].payload
           d == [payload |-> p, origin |-> Run(w), state |-> "draft"]
<1>1. /\ worker[w] # None /\ worker[w] \in Work
      /\ r \in Sources /\ Run(w) \in Jobs \X (1..MaxAttempts)
  BY WorkerFacts DEF HasAnswer
<1>2. p \in Payloads
  BY <1>1 DEF HasAnswer, Work, IInv, WorkersHaveJobs
<1>3. Count[p] \in 0..MaxCandidates /\ n \in Nat
  BY <1>2, ConstantsAssumption
<1>4. d \in Draft /\ d # None
  BY <1>1, <1>2, NoneAssumption DEF Draft
<1>5. n > 0 => draft[r][1] = None /\ Count[p] > 0
  BY <1>3 DEF Taken
<1>6. n > 0 => \A i \in Candidates : draft[r][i] = None
  BY <1>1, <1>5, FreeSourceIsEmpty
<1>7. /\ DOMAIN draft = Sources
      /\ draft \in [Sources -> [Candidates -> Draft \cup {None}]]
      /\ draft[r] \in [Candidates -> Draft \cup {None}]
  BY <1>1 DEF IInv, TypeOK
<1>8. draft' = [draft EXCEPT ![r] = [i \in Candidates |->
                   IF i <= n THEN d ELSE draft[r][i]]]
  BY DEF Made
<1> HIDE DEF r, p, d
<1>9. \A s \in Sources \ {r} : draft'[s] = draft[s]
  BY <1>7, <1>8
<1>10. draft'[r] = [i \in Candidates |-> IF i <= n THEN d ELSE draft[r][i]]
  BY <1>1, <1>7, <1>8
<1>11. draft' \in [Sources -> [Candidates -> Draft \cup {None}]]
  BY <1>4, <1>7, <1>8
<1>12. ASSUME n = 0 PROVE draft' = draft
  <2>1. \A i \in Candidates : ~(i <= n)
    BY <1>12, ConstantsAssumption DEF Candidates
  <2>2. draft'[r] = draft[r]
    BY <1>7, <1>10, <2>1
  <2>. QED
    BY <1>7, <1>9, <1>11, <2>2
<1>13. n > 0 => draft'[r] = [i \in Candidates |-> IF i <= n THEN d ELSE None]
  BY <1>6, <1>10
<1>14. ASSUME n > 0 PROVE draft'[r][1] = d
  BY <1>3, <1>13, <1>14, FirstCandidate
<1>15. \A s \in Sources : draft[s][1] # None => draft'[s][1] # None
  BY <1>3, <1>4, <1>9, <1>12, <1>14
<1>16. ASSUME NEW s \in Sources, NEW i \in Candidates, draft'[s][i] # None
       PROVE  /\ draft'[s][1] # None
              /\ draft'[s][i].payload = draft'[s][1].payload
              /\ draft'[s][i].origin = draft'[s][1].origin
  <2>1. CASE s = r /\ n > 0
    BY <1>4, <1>13, <1>14, <1>16, <2>1
  <2>2. CASE ~(s = r /\ n > 0)
    <3>1. draft'[s] = draft[s]
      BY <1>3, <1>9, <1>12, <2>2
    <3>. QED
      BY <1>16, <3>1 DEF IInv, KeysStartAtOne
  <2>. QED
    BY <2>1, <2>2
<1>. QED
  BY <1>2, <1>5, <1>9, <1>11, <1>12, <1>13, <1>15, <1>16 DEF r, p, d

\* All candidates become drafts, or those before the refused one.
LEMMA DraftIInv ==
  ASSUME IInv, NEW w \in Workers,
         DraftAll(w) \/ \E n \in 0..MaxCandidates : DraftSome(w, n)
  PROVE  IInv'
<1> DEFINE p == worker[w].payload
<1>1. /\ HasAnswer(w) /\ worker[w] # None
      /\ ~Taken(SourceOf(w), p)
      /\ Succeed(w) \/ Fail(w)
      /\ UNCHANGED observation
  BY DEF DraftAll, DraftSome, HasAnswer
<1>2. p \in Payloads
  BY <1>1, WorkerFacts DEF HasAnswer, Work, IInv, WorkersHaveJobs
<1>3. Count[p] \in 0..MaxCandidates
  BY <1>2, ConstantsAssumption
<1>4. PICK n \in 0..Count[p] : draft' = Made(w, n)
  BY <1>3, ConstantsAssumption DEF DraftAll, DraftSome
<1>5. SourceOf(w) \in Sources
  BY <1>1, WorkerFacts
<1>6. orphans' \in [Sources -> Nat]
  BY <1>5 DEF DraftAll, DraftSome, IInv, TypeOK
<1>7. observation' \in [Sources -> SUBSET Observation]
  BY <1>1 DEF IInv, TypeOK
<1>8. /\ draft' \in [Sources -> [Candidates -> Draft \cup {None}]]
      /\ \A s \in Sources : draft[s][1] # None => draft'[s][1] # None
      /\ \A s \in Sources, i \in Candidates : draft'[s][i] # None =>
            /\ draft'[s][1] # None
            /\ draft'[s][i].payload = draft'[s][1].payload
            /\ draft'[s][i].origin = draft'[s][1].origin
  BY <1>1, <1>4, MadeFacts
<1>9. \A s \in Sources : observation'[s] # {} => draft'[s][1] # None
  BY <1>1, <1>8 DEF IInv, LinksFollowKeys
<1>. QED
  BY <1>1, <1>6, <1>7, <1>8, <1>9, SettleIInv

\* An observation is made of a source whose links the worker has seen.
LEMMA ObserveIInv == ASSUME IInv, NEW w \in Workers, Observe(w) PROVE IInv'
<1> DEFINE r == SourceOf(w)
           o == [payload |-> worker[w].payload, applicable |-> Applicable(w),
                 state |-> "pending"]
<1>1. /\ worker[w] # None /\ worker[w].step = "answered"
      /\ worker[w].links > 0
      /\ Succeed(w)
      /\ UNCHANGED <<draft, orphans>>
      /\ observation' = observation
            \/ observation' = [observation EXCEPT ![r] = @ \cup {o}]
  BY DEF Observe, HasAnswer
<1>2. r \in Sources /\ worker[w] \in Work
  BY <1>1, WorkerFacts
<1>3. worker[w].payload \in Payloads
  BY <1>1, <1>2 DEF Work, IInv, WorkersHaveJobs
<1>4. Applicable(w) \in BOOLEAN
  BY DEF Applicable
<1>5. o \in Observation
  BY <1>3, <1>4 DEF Observation
<1>6. draft[r][1] # None
  BY <1>1 DEF IInv, LinksFollowKeys
<1> HIDE DEF o, r
<1>7. /\ observation' \in [Sources -> SUBSET Observation]
      /\ \A s \in Sources : observation'[s] # {} => s = r \/ observation[s] # {}
  BY <1>1, <1>2, <1>5 DEF IInv, TypeOK
<1>8. \A s \in Sources : observation'[s] # {} => draft'[s][1] # None
  BY <1>1, <1>6, <1>7 DEF IInv, LinksFollowKeys
<1>9. /\ draft' \in [Sources -> [Candidates -> Draft \cup {None}]]
      /\ orphans' \in [Sources -> Nat]
      /\ \A s \in Sources : draft[s][1] # None => draft'[s][1] # None
  BY <1>1 DEF IInv, TypeOK
<1>10. \A s \in Sources, i \in Candidates : draft'[s][i] # None =>
          /\ draft'[s][1] # None
          /\ draft'[s][i].payload = draft'[s][1].payload
          /\ draft'[s][i].origin = draft'[s][1].origin
  BY <1>1 DEF IInv, KeysStartAtOne
<1>. QED
  BY <1>1, <1>7, <1>8, <1>9, <1>10, SettleIInv

-----------------------------------------------------------------------------
(* The invariant *)

\* Every step of an owner, a retry or a worker keeps the invariant.
LEMMA NextIInv == IInv /\ [Next]_vars => IInv'
<1> SUFFICES ASSUME IInv, [Next]_vars PROVE IInv'
  OBVIOUS
<1>1. CASE UNCHANGED vars
  <2>1. TypeOK'
    BY <1>1 DEF vars, IInv, TypeOK
  <2>. QED
    BY <1>1, <2>1 DEF vars, IInv, JobsNameSources, WorkersHaveJobs, RetriesNameSources,
       KeysStartAtOne, LinksFollowKeys, OneWorkerPerJob, DraftsComeFromOneRun, SourceOf
<1>2. CASE \E s \in Sources : Owner(s)
  <2>1. PICK s \in Sources : Owner(s)
    BY <1>2
  <2>. QED
    BY <2>1, UploadIInv, RetryIInv, DecideIInv, DecideObservationIInv DEF Owner
<1>3. CASE \E k \in Retries : CommitRetry(k) \/ CloseRetry(k)
  <2>1. PICK k \in Retries : CommitRetry(k) \/ CloseRetry(k)
    BY <1>3
  <2>2. CASE CommitRetry(k)
    BY <2>2, CommitRetryIInv
  <2>3. CASE CloseRetry(k)
    <3>1. retry[k] \in Retry
      BY <2>3 DEF CloseRetry, IInv, TypeOK
    <3>2. retry[k].source \in Sources
      BY <3>1 DEF Retry
    <3>. QED
      BY <2>3, <3>2, RetryIInv
  <2>. QED
    BY <2>1, <2>2, <2>3
<1>4. ASSUME NEW w \in Workers, Step(w) PROVE IInv'
  <2>1. ASSUME NEW j \in Jobs, Claim(w, j) PROVE IInv'
    BY <2>1, ClaimIInv
  <2>2. CASE MarkProcessing(w)
    BY <2>2, MarkIInv
  <2>3. ASSUME NEW p \in Payloads, Answer(w, p) PROVE IInv'
    BY <2>3, AnswerIInv
  <2>4. CASE ParseFails(w) \/ DraftRefused(w) \/ ObserveRefused(w)
    <3>1. /\ worker[w] # None /\ Fail(w)
          /\ UNCHANGED <<draft, orphans, observation>>
      BY <2>4 DEF ParseFails, DraftRefused, ObserveRefused, HasAnswer
    <3>. QED
      BY <3>1, NoResultIInv
  <2>5. CASE DraftAll(w) \/ \E n \in 0..MaxCandidates : DraftSome(w, n)
    BY <2>5, DraftIInv
  <2>6. CASE DraftBreaks(w)
    BY <2>6, DieIInv DEF DraftBreaks
  <2>7. CASE Observe(w)
    BY <2>7, ObserveIInv
  <2>. QED
    BY <1>4, <2>1, <2>2, <2>3, <2>4, <2>5, <2>6, <2>7 DEF Step
<1>5. ASSUME NEW w \in Workers, Crash(w) PROVE IInv'
  BY <1>5, DieIInv DEF Crash
<1>. QED
  BY <1>1, <1>2, <1>3, <1>4, <1>5 DEF Next, CrashFreeNext

\* The inductive invariant holds in every reachable state.
LEMMA Invariance == Spec => []IInv
<1>1. Init => IInv
  BY InitIInv
<1>2. IInv /\ [Next]_vars => IInv'
  BY NextIInv
<1>. QED
  BY <1>1, <1>2, PTL DEF Spec

\* The state of the capture pipeline (worker.py, api.py) keeps its types: a
\* job is never claimed more than MaxAttempts times.
THEOREM TypeCorrect == Spec => []TypeOK
<1>1. IInv => TypeOK
  BY DEF IInv
<1>. QED
  BY <1>1, Invariance, PTL

\* A running job has one worker at most, of any number of worker processes
\* and jobs: claim_and_run_job() commits the claim before it runs the job.
THEOREM SingleWorker == Spec => []OneWorkerPerJob
<1>1. IInv => OneWorkerPerJob
  BY DEF IInv
<1>. QED
  BY <1>1, Invariance, PTL

\* The drafts of a source come from one run of one job, whatever workers,
\* retries, crashes and refused candidates there are: the idempotency key of
\* the first candidate guards process_job().
THEOREM SingleOrigin == Spec => []DraftsComeFromOneRun
<1>1. IInv => DraftsComeFromOneRun
  BY DEF IInv
<1>. QED
  BY <1>1, Invariance, PTL

-----------------------------------------------------------------------------
(* What a step can do to the drafts *)

\* A step leaves the drafts alone, decides one of them, or makes the first
\* drafts of a source.
LEMMA DraftSteps ==
  ASSUME IInv, Next
  PROVE  \/ draft' = draft
         \/ \E s \in Sources, i \in Candidates, x \in {"confirmed", "deleted"} :
               /\ draft[s][i] # None /\ draft[s][i].state = "draft"
               /\ draft' = [draft EXCEPT ![s][i].state = x]
               /\ UNCHANGED observation
         \/ \E w \in Workers, n \in 1..MaxCandidates :
               /\ HasAnswer(w)
               /\ ~Taken(SourceOf(w), worker[w].payload)
               /\ n <= Count[worker[w].payload]
               /\ draft' = Made(w, n)
               /\ UNCHANGED observation
<1>1. CASE \E s \in Sources, i \in Candidates : ConfirmDraft(s, i) \/ DeleteDraft(s, i)
  BY <1>1 DEF ConfirmDraft, DeleteDraft
<1>2. ASSUME NEW w \in Workers,
             DraftAll(w) \/ \E n \in 0..MaxCandidates : DraftSome(w, n)
      PROVE  \/ draft' = draft
             \/ \E n \in 1..MaxCandidates :
                   /\ HasAnswer(w)
                   /\ ~Taken(SourceOf(w), worker[w].payload)
                   /\ n <= Count[worker[w].payload]
                   /\ draft' = Made(w, n)
                   /\ UNCHANGED observation
  <2>1. /\ HasAnswer(w) /\ worker[w] # None
        /\ ~Taken(SourceOf(w), worker[w].payload)
        /\ UNCHANGED observation
    BY <1>2 DEF DraftAll, DraftSome, HasAnswer
  <2>2. worker[w].payload \in Payloads
    BY <2>1, WorkerFacts DEF HasAnswer, Work, IInv, WorkersHaveJobs
  <2>3. Count[worker[w].payload] \in 0..MaxCandidates
    BY <2>2, ConstantsAssumption
  <2>4. PICK n \in 0..Count[worker[w].payload] : draft' = Made(w, n)
    BY <1>2, <2>3, ConstantsAssumption DEF DraftAll, DraftSome
  <2>5. CASE n = 0
    BY <2>1, <2>4, <2>5, MadeFacts
  <2>6. CASE n # 0
    <3>1. n \in 1..MaxCandidates /\ n <= Count[worker[w].payload]
      BY <2>3, <2>6, ConstantsAssumption
    <3>. QED
      BY <2>1, <2>4, <3>1
  <2>. QED
    BY <2>5, <2>6
<1>3. \/ draft' = draft
      \/ \E s \in Sources, i \in Candidates : ConfirmDraft(s, i) \/ DeleteDraft(s, i)
      \/ \E w \in Workers : DraftAll(w) \/ \E n \in 0..MaxCandidates : DraftSome(w, n)
  BY DEF Next, CrashFreeNext, Owner, Step, Upload, OpenRetry, DecideObservation,
     CommitRetry, CloseRetry, Claim, MarkProcessing, Answer, ParseFails, DraftRefused,
     DraftBreaks, Observe, ObserveRefused, Crash
<1>. QED
  BY <1>1, <1>2, <1>3

\* Every step leaves alone what the owner has decided.
DecidedStays ==
    \A s \in Sources, i \in Candidates :
        draft[s][i] # None /\ draft[s][i].state # "draft" => draft'[s][i] = draft[s][i]

LEMMA StepsLeaveDecided == IInv /\ Next => DecidedStays
<1> USE DEF DecidedStays
<1> SUFFICES ASSUME IInv, Next PROVE DecidedStays
  OBVIOUS
<1>1. CASE draft' = draft
  BY <1>1
<1>2. ASSUME NEW s \in Sources, NEW i \in Candidates, NEW x \in {"confirmed", "deleted"},
             draft[s][i].state = "draft",
             draft' = [draft EXCEPT ![s][i].state = x]
      PROVE  DecidedStays
  <2>1. draft \in [Sources -> [Candidates -> Draft \cup {None}]]
    BY DEF IInv, TypeOK
  <2>. QED
    BY <1>2, <2>1
<1>3. ASSUME NEW w \in Workers, NEW n \in 1..MaxCandidates,
             HasAnswer(w), ~Taken(SourceOf(w), worker[w].payload),
             n <= Count[worker[w].payload], draft' = Made(w, n)
      PROVE  DecidedStays
  <2>1. worker[w].payload \in Payloads
    BY <1>3, WorkerFacts DEF HasAnswer, Work, IInv, WorkersHaveJobs
  <2>2. n \in 0..Count[worker[w].payload] /\ n > 0
    BY <1>3, <2>1, ConstantsAssumption
  <2>3. /\ draft[SourceOf(w)][1] = None
        /\ \A s \in Sources \ {SourceOf(w)} : draft'[s] = draft[s]
    BY <1>3, <2>2, MadeFacts
  <2>4. SourceOf(w) \in Sources
    BY <1>3, WorkerFacts DEF HasAnswer
  <2>5. \A i \in Candidates : draft[SourceOf(w)][i] = None
    BY <2>3, <2>4, FreeSourceIsEmpty
  <2>. QED
    BY <2>3, <2>5
<1>. QED
  BY <1>1, <1>2, <1>3, DraftSteps

\* What the owner has confirmed or deleted is neither overwritten nor made
\* again by a later run, a retry, or another worker (worker.py process_job,
\* records.py create_record).
THEOREM OwnerDecides == Spec => OwnerDecisionsStand
<1>1. IInv /\ [Next]_vars => [DecidedStays]_vars
  BY StepsLeaveDecided
<1>. QED
  BY <1>1, Invariance, PTL DEF Spec, OwnerDecisionsStand, DecidedStays

-----------------------------------------------------------------------------
(* The contract *)

\* What the contract sees of the pipeline.
answerOf == [s \in Sources |-> IF draft[s][1] = None THEN None ELSE draft[s][1].payload]
StateOf(d) == IF d = None THEN None ELSE d.state
lifeOf == [s \in Sources |-> [i \in 1..MaxCandidates |-> StateOf(draft[s][i])]]
observedOf == [s \in Sources |-> {o.payload : o \in observation[s]}]

\* The initial states map to those of the contract.
LEMMA ContractInitially == Init => Contract!ContractInit
BY FirstCandidate DEF Init, Contract!ContractInit, Candidates

\* The drafts of a new answer are Make, for all of its candidates or those
\* before the refused one.
LEMMA MadeRefines ==
  ASSUME IInv, NEW w \in Workers, NEW n \in 1..MaxCandidates,
         HasAnswer(w), ~Taken(SourceOf(w), worker[w].payload),
         n <= Count[worker[w].payload], draft' = Made(w, n), UNCHANGED observation,
         NEW r \in Sources, r = SourceOf(w), NEW p \in Payloads, p = worker[w].payload
  PROVE  Contract!Make(r, p, n)
<1> DEFINE d == [payload |-> p, origin |-> Run(w), state |-> "draft"]
<1>2. /\ Count[p] \in 0..MaxCandidates
      /\ n \in 0..Count[p] /\ n \in 1..Count[p] /\ n > 0
  BY ConstantsAssumption
<1>3. /\ draft[r][1] = None
      /\ \A s \in Sources \ {r} : draft'[s] = draft[s]
      /\ draft'[r] = [i \in Candidates |-> IF i <= n THEN d ELSE None]
      /\ draft' \in [Sources -> [Candidates -> Draft \cup {None}]]
  BY <1>2, MadeFacts
<1>4. d \in Draft /\ d # None /\ d.payload = p /\ d.state = "draft"
  BY WorkerFacts, NoneAssumption DEF HasAnswer, Draft
<1> HIDE DEF d
<1>5. draft'[r][1] = d
  BY <1>2, <1>3, FirstCandidate
<1>6. answerOf' = [answerOf EXCEPT ![r] = p]
  BY <1>3, <1>4, <1>5 DEF answerOf
<1>7. [i \in 1..MaxCandidates |-> StateOf(draft'[r][i])]
         = [i \in 1..MaxCandidates |-> IF i <= n THEN "draft" ELSE None]
  BY <1>3, <1>4 DEF Candidates, StateOf
<1>8. lifeOf' = [lifeOf EXCEPT ![r] =
                    [i \in 1..MaxCandidates |-> IF i <= n THEN "draft" ELSE None]]
  <2>1. /\ lifeOf'[r] = [i \in 1..MaxCandidates |-> IF i <= n THEN "draft" ELSE None]
        /\ \A s \in Sources \ {r} : lifeOf'[s] = lifeOf[s]
    <3>1. lifeOf'[r] = [i \in 1..MaxCandidates |-> StateOf(draft'[r][i])]
      BY DEF lifeOf
    <3>2. ASSUME NEW s \in Sources \ {r} PROVE lifeOf'[s] = lifeOf[s]
      <4>1. /\ lifeOf'[s] = [i \in 1..MaxCandidates |-> StateOf(draft'[s][i])]
            /\ lifeOf[s] = [i \in 1..MaxCandidates |-> StateOf(draft[s][i])]
        BY DEF lifeOf
      <4>2. draft'[s] = draft[s]
        BY <1>3
      <4>3. \A i \in 1..MaxCandidates : StateOf(draft'[s][i]) = StateOf(draft[s][i])
        BY <4>2
      <4>. QED
        BY <4>1, <4>3
    <3>. QED
      BY <1>7, <3>1, <3>2
  <2>2. /\ lifeOf' = [s \in Sources |-> lifeOf'[s]]
        /\ lifeOf = [s \in Sources |-> lifeOf[s]]
    BY DEF lifeOf
  <2>. QED
    BY <2>1, <2>2
<1>9. answerOf[r] = None /\ observedOf' = observedOf
  BY <1>3 DEF answerOf, observedOf
<1>. QED
  BY <1>2, <1>6, <1>8, <1>9 DEF Contract!Make, answerOf, lifeOf, StateOf, observedOf

\* A decision of the owner is Decide.
LEMMA DecisionRefines ==
  ASSUME IInv, NEW s \in Sources, NEW i \in Candidates,
         NEW x \in {"confirmed", "deleted"},
         draft[s][i] # None, draft[s][i].state = "draft",
         draft' = [draft EXCEPT ![s][i].state = x], UNCHANGED observation
  PROVE  Contract!Decide(s, i, x)
<1>1. /\ draft \in [Sources -> [Candidates -> Draft \cup {None}]]
      /\ draft[s][i] \in Draft
  BY DEF IInv, TypeOK
<1>2. /\ [draft[s][i] EXCEPT !.state = x] # None
      /\ [draft[s][i] EXCEPT !.state = x].state = x
      /\ [draft[s][i] EXCEPT !.state = x].payload = draft[s][i].payload
  BY <1>1, NoneAssumption DEF Draft
<1>3. /\ draft'[s][i] = [draft[s][i] EXCEPT !.state = x]
      /\ \A r \in Sources, c \in Candidates :
            r # s \/ c # i => draft'[r][c] = draft[r][c]
  BY <1>1
<1>4. answerOf' = answerOf
  BY <1>2, <1>3, FirstCandidate DEF answerOf
<1>5. lifeOf' = [lifeOf EXCEPT ![s][i] = x]
  <2>1. /\ \A r \in Sources : lifeOf'[r] \in [Candidates -> {lifeOf'[r][c] : c \in Candidates}]
        /\ \A r \in Sources : lifeOf[r] \in [Candidates -> {lifeOf[r][c] : c \in Candidates}]
        /\ lifeOf' = [r \in Sources |-> lifeOf'[r]]
        /\ lifeOf = [r \in Sources |-> lifeOf[r]]
    BY DEF lifeOf, Candidates
  <2>2. /\ lifeOf'[s][i] = x
        /\ \A r \in Sources, c \in Candidates :
              r # s \/ c # i => lifeOf'[r][c] = lifeOf[r][c]
    <3>1. \A r \in Sources, c \in Candidates :
             /\ lifeOf'[r][c] = StateOf(draft'[r][c])
             /\ lifeOf[r][c] = StateOf(draft[r][c])
      BY DEF lifeOf, Candidates
    <3>2. lifeOf'[s][i] = x
      <4>1. draft'[s][i] # None /\ draft'[s][i].state = x
        BY <1>2, <1>3
      <4>2. StateOf(draft'[s][i]) = x
        BY <4>1 DEF StateOf
      <4>. QED
        BY <3>1, <4>2
    <3>3. ASSUME NEW r \in Sources, NEW c \in Candidates, r # s \/ c # i
          PROVE  lifeOf'[r][c] = lifeOf[r][c]
      <4>1. draft'[r][c] = draft[r][c]
        BY <1>3, <3>3
      <4>. QED
        BY <3>1, <4>1
    <3>. QED
      BY <3>2, <3>3
  <2>3. \A r \in Sources \ {s} : lifeOf'[r] = lifeOf[r]
    BY <2>1, <2>2
  <2>4. lifeOf'[s] = [lifeOf[s] EXCEPT ![i] = x]
    BY <2>1, <2>2
  <2>. QED
    BY <2>1, <2>3, <2>4
<1>6. observedOf' = observedOf /\ lifeOf[s][i] = "draft"
  BY DEF observedOf, lifeOf, StateOf, Candidates
<1>. QED
  BY <1>4, <1>5, <1>6 DEF Contract!Decide, answerOf, lifeOf, StateOf, observedOf

\* A new observation is Note, a repeated one is invisible.
LEMMA ObserveRefines ==
  ASSUME IInv, NEW w \in Workers, Observe(w),
         NEW r \in Sources, r = SourceOf(w), NEW p \in Payloads, p = worker[w].payload
  PROVE  Contract!Note(r, p)
<1> DEFINE o == [payload |-> p, applicable |-> Applicable(w), state |-> "pending"]
<1>1. draft[r][1] # None /\ draft' = draft
  BY DEF Observe, HasAnswer, IInv, LinksFollowKeys
<1>2. draft[r][1].payload # None
  BY <1>1, FirstCandidate, NoneAssumption DEF IInv, TypeOK, Draft
<1>3. answerOf[r] # None /\ answerOf' = answerOf /\ lifeOf' = lifeOf
  BY <1>1, <1>2 DEF answerOf, lifeOf
<1>4. DOMAIN observation = Sources
  BY DEF IInv, TypeOK
<1>5. observedOf' = [observedOf EXCEPT ![r] = @ \cup {p}]
  <2>1. CASE SameVersion(w) # {}
    <3>1. observation' = observation /\ p \in {q.payload : q \in observation[r]}
      BY <2>1 DEF Observe, SameVersion
    <3>. QED
      BY <1>1, <3>1 DEF observedOf
  <2>2. CASE SameVersion(w) = {}
    <3>1. observation' = [observation EXCEPT ![r] = @ \cup {o}]
      BY <2>2 DEF Observe
    <3>2. o.payload = p
      OBVIOUS
    <3> HIDE DEF o
    <3>3. observation'[r] = observation[r] \cup {o}
      BY <1>1, <1>4, <3>1
    <3>4. \A s \in Sources \ {r} : observation'[s] = observation[s]
      BY <1>4, <3>1
    <3>5. {q.payload : q \in observation'[r]} = {q.payload : q \in observation[r]} \cup {p}
      BY <3>2, <3>3
    <3>. QED
      BY <3>4, <3>5 DEF observedOf
  <2>. QED
    BY <2>1, <2>2
<1>. QED
  BY <1>3, <1>5 DEF Contract!Note, answerOf, lifeOf, StateOf, observedOf

\* Every step maps to a step of the contract or to a stutter.
LEMMA StepRefines ==
  IInv /\ [Next]_vars => [Contract!ContractNext]_(Contract!contractVars)
<1> SUFFICES ASSUME IInv, [Next]_vars
             PROVE  [Contract!ContractNext]_(Contract!contractVars)
  OBVIOUS
<1>1. CASE draft' = draft /\ observedOf' = observedOf
  BY <1>1 DEF Contract!contractVars, observedOf
<1>2. ASSUME NEW s \in Sources, NEW i \in Candidates, NEW x \in {"confirmed", "deleted"},
             Contract!Decide(s, i, x)
      PROVE  Contract!ContractNext
  BY <1>2 DEF Contract!ContractNext, Candidates
<1>3. ASSUME NEW w \in Workers, Observe(w)
      PROVE  Contract!ContractNext
  <2>1. PICK r \in Sources, p \in Payloads : r = SourceOf(w) /\ p = worker[w].payload
    BY <1>3, WorkerFacts DEF Observe, HasAnswer, Work, IInv, WorkersHaveJobs
  <2>2. Contract!Note(r, p)
    BY <1>3, <2>1, ObserveRefines
  <2>. QED
    BY <2>1, <2>2 DEF Contract!ContractNext
<1>4. ASSUME NEW w \in Workers, NEW n \in 1..MaxCandidates,
             HasAnswer(w), ~Taken(SourceOf(w), worker[w].payload),
             n <= Count[worker[w].payload], draft' = Made(w, n), UNCHANGED observation
      PROVE  Contract!ContractNext
  <2>1. PICK r \in Sources, p \in Payloads : r = SourceOf(w) /\ p = worker[w].payload
    BY <1>4, WorkerFacts DEF HasAnswer, Work, IInv, WorkersHaveJobs
  <2>2. Contract!Make(r, p, n)
    BY <1>4, <2>1, MadeRefines
  <2>. QED
    BY <2>1, <2>2 DEF Contract!ContractNext
<1>5. CASE Next /\ draft' = draft
  <2>1. \/ UNCHANGED observation
        \/ \E s \in Sources : \E o \in observation[s] : DecideObservation(s, o)
        \/ \E w \in Workers : Observe(w)
    BY <1>5 DEF Next, CrashFreeNext, Owner, Step, Upload, OpenRetry, ConfirmDraft,
       DeleteDraft, CommitRetry, CloseRetry, Claim, MarkProcessing, Answer, ParseFails,
       DraftAll, DraftSome, DraftRefused, DraftBreaks, ObserveRefused, Crash
  <2>2. ASSUME NEW s \in Sources, NEW o \in observation[s], DecideObservation(s, o)
        PROVE  observedOf' = observedOf
    <3>1. [o EXCEPT !.state = "decided"].payload = o.payload
      BY DEF IInv, TypeOK, Observation
    <3>2. /\ observation'[s] = (observation[s] \ {o})
                                  \cup {[o EXCEPT !.state = "decided"]}
          /\ \A r \in Sources \ {s} : observation'[r] = observation[r]
      BY <2>2 DEF DecideObservation, IInv, TypeOK
    <3>3. {q.payload : q \in observation'[s]} = {q.payload : q \in observation[s]}
      BY <3>1, <3>2
    <3>. QED
      BY <3>2, <3>3 DEF observedOf
  <2>3. CASE UNCHANGED observation
    BY <1>1, <1>5, <2>3 DEF observedOf
  <2>. QED
    BY <1>1, <1>3, <1>5, <2>1, <2>2, <2>3
<1>6. CASE Next
  <2>1. ASSUME NEW s \in Sources, NEW i \in Candidates, NEW x \in {"confirmed", "deleted"},
               draft[s][i] # None, draft[s][i].state = "draft",
               draft' = [draft EXCEPT ![s][i].state = x], UNCHANGED observation
        PROVE  Contract!ContractNext
    BY <1>2, <2>1, DecisionRefines
  <2>. QED
    BY <1>4, <1>5, <1>6, <2>1, DraftSteps
<1>7. CASE UNCHANGED vars
  BY <1>1, <1>7 DEF vars, observedOf
<1>. QED
  BY <1>6, <1>7

\* Every behaviour of workers, retries and owner requests, with crashes and
\* partial failures, is one of the contract: the drafts of a source appear
\* once, from one answer, and what is parsed later is only observed.
THEOREM Refinement == Spec => ImplementsContract
<1>1. Init => Contract!ContractInit
  BY ContractInitially
<1>2. IInv /\ [Next]_vars => [Contract!ContractNext]_(Contract!contractVars)
  BY StepRefines
<1>. QED
  BY <1>1, <1>2, Invariance, PTL DEF Spec, ImplementsContract, Contract!ContractSpec

-----------------------------------------------------------------------------
(* The outbox *)

\* The outbox leaves the capture pipeline as it is: a step of Delivery is one
\* of CaptureJobs, or changes nothing of it.
LEMMA DeliverySteps == [DeliveryNext]_deliveryVars => [Next]_vars
<1> SUFFICES ASSUME [DeliveryNext]_deliveryVars PROVE [Next]_vars
  OBVIOUS
<1>1. ASSUME UNCHANGED deliveryVars PROVE UNCHANGED vars
  BY <1>1 DEF deliveryVars
<1>2. ASSUME Request PROVE [Next]_vars
  <2>1. ASSUME NEW s \in Sources, CompleteUpload(s) PROVE UNCHANGED vars
    BY <2>1 DEF CompleteUpload
  <2>2. ASSUME NEW s \in Sources, UploadAsset(s) PROVE Next
    BY <2>2 DEF UploadAsset, Next, CrashFreeNext, Owner
  <2>3. ASSUME NEW s \in Sources, NEW i \in Candidates,
               ConfirmAndAnnounce(s, i) \/ DeleteUnreferenced(s, i)
        PROVE  Next
    BY <2>3 DEF ConfirmAndAnnounce, DeleteUnreferenced, Next, CrashFreeNext, Owner
  <2>4. ASSUME NEW s \in Sources, NEW i \in Candidates,
               LinkArchive(s, i) \/ ReleaseArchive(s, i)
        PROVE  UNCHANGED vars
    BY <2>4 DEF LinkArchive, ReleaseArchive
  <2>5. ASSUME OtherRequest PROVE Next
    BY <2>5 DEF OtherRequest, Next, CrashFreeNext, Owner
  <2>. QED
    BY <1>2, <2>1, <2>2, <2>3, <2>4, <2>5 DEF Request
<1>3. ASSUME NEW w \in Workers, Loop(w) \/ KillDelivery(w) PROVE [Next]_vars
  <2>1. ASSUME RunJob(w) PROVE Next
    BY <2>1 DEF RunJob, Next, CrashFreeNext
  <2>2. ASSUME NoJob(w) \/ TakeEvent(w) \/ NoEvent(w) PROVE UNCHANGED vars
    BY <2>2 DEF NoJob, TakeEvent, NoEvent
  <2>3. ASSUME NEW s \in Sources, CreateReference(w, s) PROVE UNCHANGED vars
    BY <2>3 DEF CreateReference
  <2>4. ASSUME NEW e, TryEnds(w, e) PROVE UNCHANGED vars
    BY <2>4 DEF TryEnds, Deliver, DeliveryFails, EndDelivery
  <2>5. ASSUME KillDelivery(w) PROVE UNCHANGED vars
    BY <2>5 DEF KillDelivery, EndDelivery
  <2>. QED
    BY <1>3, <2>1, <2>2, <2>3, <2>4, <2>5 DEF Loop
<1>4. ASSUME NEW e \in later, ComeDue(e) PROVE UNCHANGED vars
  BY <1>4 DEF ComeDue
<1>. QED
  BY <1>1, <1>2, <1>3, <1>4 DEF DeliveryNext

\* run_once() with the outbox: the jobs and what they make are as without it.
THEOREM DeliveryRefinement == DeliverySpec => Spec
<1>1. DeliveryInit => Init
  BY DEF DeliveryInit
<1>. QED
  BY <1>1, DeliverySteps, PTL DEF DeliverySpec, Spec

\* A source stays uploaded.
LEMMA SourcesStay ==
  ASSUME IInv, [Next]_vars, NEW s \in Sources, source[s] # None
  PROVE  source'[s] # None
<1> DEFINE Set(x, c) == source' = [source EXCEPT ![x] = c]
<1>1. source \in [Sources -> CaptureStates \cup {None}] /\ None \notin CaptureStates
  BY NoneAssumption DEF IInv, TypeOK
<1>2. \/ UNCHANGED source
      \/ \E x, c : c \in CaptureStates /\ Set(x, c)
  <2>1. CASE UNCHANGED vars
    BY <2>1 DEF vars
  <2>2. ASSUME NEW x \in Sources, Owner(x)
        PROVE  UNCHANGED source \/ Set(x, "received")
    BY <2>2 DEF Owner, Upload, OpenRetry, ConfirmDraft, DeleteDraft, DecideObservation
  <2>3. ASSUME NEW k \in Retries, CommitRetry(k) \/ CloseRetry(k)
        PROVE  UNCHANGED source \/ Set(retry[k].source, "received")
    BY <2>3 DEF CommitRetry, CloseRetry
  <2>4. ASSUME NEW w \in Workers, Step(w) \/ Crash(w)
        PROVE  \/ UNCHANGED source \/ Set(SourceOf(w), "processing")
               \/ Set(SourceOf(w), "parsed") \/ Set(SourceOf(w), "failed")
    BY <2>4 DEF Step, Crash, Claim, MarkProcessing, Answer, ParseFails, DraftAll, DraftRefused,
       DraftBreaks, DraftSome, Observe, ObserveRefused, Succeed, Fail, SourceFailed
  <2> HIDE DEF Set
  <2>5. {"received", "processing", "parsed", "failed"} \subseteq CaptureStates
    BY DEF CaptureStates
  <2>. QED
    BY <2>1, <2>2, <2>3, <2>4, <2>5 DEF Next, CrashFreeNext
<1>. QED
  BY <1>1, <1>2

\* An event at the end of the queue.
LEMMA AppendedWaits ==
  ASSUME due \in Seq(Events), NEW e \in Events, due' = Append(due, e)
  PROVE  /\ due' \in Seq(Events)
         /\ Waiting' = Waiting \cup {e}
         /\ (e \notin Waiting /\ \A m, n \in DOMAIN due : due[m] = due[n] => m = n) =>
               \A m, n \in DOMAIN due' : due'[m] = due'[n] => m = n
<1> DEFINE L == Len(due)
<1>1. /\ L \in Nat /\ DOMAIN due = 1..L
      /\ due' \in Seq(Events) /\ DOMAIN due' = 1..(L + 1)
      /\ due'[L + 1] = e /\ \A n \in 1..L : due'[n] = due[n]
  OBVIOUS
<1> HIDE DEF L
<1>2. \A n \in DOMAIN due' : n \in DOMAIN due \/ n = L + 1
  BY <1>1
<1>3. DOMAIN due \subseteq DOMAIN due' /\ L + 1 \in DOMAIN due' /\ L + 1 \notin DOMAIN due
  BY <1>1
<1>4. Waiting' = Waiting \cup {e}
  BY <1>1, <1>2, <1>3 DEF Waiting
<1>5. ASSUME e \notin Waiting, \A m, n \in DOMAIN due : due[m] = due[n] => m = n
      PROVE  \A m, n \in DOMAIN due' : due'[m] = due'[n] => m = n
  BY <1>1, <1>2, <1>5 DEF Waiting
<1>. QED
  BY <1>1, <1>4, <1>5

\* An event out of the queue, in which each is once.
LEMMA TakenOutIsGone ==
  ASSUME due \in Seq(Events), NEW e \in Waiting, due' = Without(e),
         \A m, n \in DOMAIN due : due[m] = due[n] => m = n
  PROVE  /\ due' \in Seq(Events)
         /\ Waiting' = Waiting \ {e}
         /\ \A m, n \in DOMAIN due' : due'[m] = due'[n] => m = n
<1> DEFINE L == Len(due)
           place == CHOOSE n \in DOMAIN due : due[n] = e
           shift(n) == IF n < place THEN n ELSE n + 1
<1>1. /\ L \in Nat /\ DOMAIN due = 1..L
      /\ \A n \in 1..L : due[n] \in Events
  OBVIOUS
<1>2. place \in 1..L /\ due[place] = e
  BY <1>1 DEF Waiting
<1>3. due' = [n \in 1..(L - 1) |-> IF n < place THEN due[n] ELSE due[n + 1]]
  BY DEF Without
<1> HIDE DEF L, place
<1>4. L - 1 \in Nat
  BY <1>1, <1>2
<1>5. \A n \in 1..(L - 1) : shift(n) \in 1..L /\ shift(n) # place /\ due'[n] = due[shift(n)]
  BY <1>1, <1>2, <1>3
<1>6. \A n \in 1..L : n # place => \E m \in 1..(L - 1) : shift(m) = n
  <2> SUFFICES ASSUME NEW n \in 1..L, n # place
               PROVE  \E m \in 1..(L - 1) : shift(m) = n
    OBVIOUS
  <2>1. CASE n < place
    <3>1. n \in 1..(L - 1) /\ shift(n) = n
      BY <1>1, <1>2, <2>1
    <3>. QED
      BY <3>1
  <2>2. CASE n > place
    <3>1. n - 1 \in 1..(L - 1) /\ shift(n - 1) = n
      BY <1>1, <1>2, <2>2
    <3>. QED
      BY <3>1
  <2>. QED
    BY <1>1, <1>2, <2>1, <2>2
<1>7. \A m, n \in 1..(L - 1) : shift(m) = shift(n) => m = n
  BY <1>1, <1>2
<1>8. DOMAIN due' = 1..(L - 1)
  BY <1>3
<1> HIDE DEF shift
<1>9. due' \in Seq(Events)
  <2>1. \A n \in 1..(L - 1) : due'[n] \in Events
    BY <1>1, <1>5
  <2>2. due' \in [1..(L - 1) -> Events]
    BY <1>3, <2>1
  <2>. QED
    BY <1>4, <2>2, SeqDef
<1>10. Waiting' = {due[n] : n \in 1..L \ {place}}
  <2>1. Waiting' = {due[shift(n)] : n \in 1..(L - 1)}
    BY <1>5, <1>8 DEF Waiting
  <2>. QED
    BY <1>5, <1>6, <2>1
<1>11. Waiting' = Waiting \ {e}
  BY <1>1, <1>2, <1>10 DEF Waiting
<1>12. ASSUME NEW m \in DOMAIN due', NEW n \in DOMAIN due', due'[m] = due'[n]
       PROVE  m = n
  <2>1. due[shift(m)] = due[shift(n)] /\ shift(m) \in DOMAIN due /\ shift(n) \in DOMAIN due
    BY <1>1, <1>5, <1>8, <1>12
  <2>2. shift(m) = shift(n)
    BY <2>1
  <2>. QED
    BY <1>7, <1>8, <2>2
<1>. QED
  BY <1>9, <1>11, <1>12

\* What the events in E tell of is so, and what was told of stays so.
ToldTruly(E) ==
    /\ Announced' \subseteq Announced \cup E
    /\ \A s \in Sources :
          /\ binding[s] # "none" => binding'[s] # "none"
          /\ binding'[s] # "none" => binding[s] # "none" \/ source'[s] # None
          /\ Reference(s) \in E => binding'[s] # "none"
    /\ \A s \in Sources, i \in Candidates :
          /\ link[s][i] # "none" => link'[s][i] # "none"
          /\ link[s][i] = "released" => link'[s][i] = "released"
          /\ RecordEvent("confirmed", s, i) \in E =>
                draft'[s][i] # None /\ draft'[s][i].state # "draft"
          /\ RecordEvent("linked", s, i) \in E => link'[s][i] # "none"
          /\ RecordEvent("released", s, i) \in E => link'[s][i] = "released"

LEMMA TruthKeeps ==
  ASSUME IInv, [Next]_vars, EventsStayTrue, NEW E, ToldTruly(E)
  PROVE  EventsStayTrue'
<1>1. \A s \in Sources, i \in Candidates :
          draft[s][i] # None /\ draft[s][i].state # "draft" => draft'[s][i] = draft[s][i]
  <2>1. CASE Next
    BY <2>1, StepsLeaveDecided DEF DecidedStays
  <2>2. CASE UNCHANGED vars
    BY <2>2 DEF vars
  <2>. QED
    BY <2>1, <2>2
<1>2. ASSUME NEW s \in Sources
      PROVE  /\ binding'[s] # "none" => source'[s] # None
             /\ Reference(s) \in Announced' => binding'[s] # "none"
  BY SourcesStay DEF EventsStayTrue, ToldTruly
<1>3. ASSUME NEW s \in Sources, NEW i \in Candidates
      PROVE  /\ RecordEvent("confirmed", s, i) \in Announced' =>
                   draft'[s][i] # None /\ draft'[s][i].state # "draft"
             /\ RecordEvent("linked", s, i) \in Announced' => link'[s][i] # "none"
             /\ RecordEvent("released", s, i) \in Announced' => link'[s][i] = "released"
  <2>1. RecordEvent("confirmed", s, i) \in Announced' =>
            draft'[s][i] # None /\ draft'[s][i].state # "draft"
    BY <1>1 DEF EventsStayTrue, ToldTruly
  <2>2. RecordEvent("linked", s, i) \in Announced' => link'[s][i] # "none"
    BY DEF EventsStayTrue, ToldTruly
  <2>3. RecordEvent("released", s, i) \in Announced' => link'[s][i] = "released"
    BY DEF EventsStayTrue, ToldTruly
  <2>. QED
    BY <2>1, <2>2, <2>3
<1>. QED
  BY <1>2, <1>3 DEF EventsStayTrue, Reference, RecordEvent

\* A request that tells of something: the event is new.
LEMMA EmitKeeps ==
  ASSUME IInv, DeliveryIInv, [Next]_vars, NEW e \in Events, e \notin Announced,
         Emit(e), UNCHANGED <<completed, service, turn, delivery>>,
         binding' \in [Sources -> {"none", "created", "named"}],
         link' \in [Sources -> [Candidates -> {"none", "active", "released"}]],
         \A s \in Sources :
            \/ binding'[s] = binding[s]
            \/ e = Reference(s) /\ binding[s] = "none" /\ binding'[s] = "created"
                                /\ source'[s] # None,
         \A s \in Sources, i \in Candidates :
            /\ link[s][i] # "none" => link'[s][i] # "none"
            /\ link[s][i] = "released" => link'[s][i] = "released",
         \A s \in Sources : e = Reference(s) => binding'[s] # "none",
         \A s \in Sources, i \in Candidates :
            /\ e = RecordEvent("confirmed", s, i) =>
                  draft'[s][i] # None /\ draft'[s][i].state # "draft"
            /\ e = RecordEvent("linked", s, i) => link'[s][i] # "none"
            /\ e = RecordEvent("released", s, i) => link'[s][i] = "released"
  PROVE  DeliveryIInv'
<1>1. /\ due \in Seq(Events) /\ due' = Append(due, e)
      /\ later' = later /\ delivered' = delivered
  BY DEF Emit, DeliveryIInv, DeliveryTypeOK
<1>2. /\ due' \in Seq(Events) /\ Waiting' = Waiting \cup {e}
      /\ \A m, n \in DOMAIN due' : due'[m] = due'[n] => m = n
  BY <1>1, AppendedWaits DEF DeliveryIInv, DeliveredIsReferenced, EventsWaitOnce, Announced
<1>3. Announced' = Announced \cup {e}
  BY <1>1, <1>2 DEF Announced
<1>4. DeliveryTypeOK'
  BY <1>1, <1>2 DEF DeliveryIInv, DeliveryTypeOK
<1>5. EventsStayTrue'
  <2>1. EventsStayTrue
    BY DEF DeliveryIInv
  <2> PICK E : E = {e}
    OBVIOUS
  <2>2. ToldTruly(E)
    <3>1. \A s \in Sources :
              /\ binding[s] # "none" => binding'[s] # "none"
              /\ binding'[s] # "none" => binding[s] # "none" \/ source'[s] # None
      OBVIOUS
    <3>. QED
      BY <1>3, <3>1 DEF ToldTruly
  <2>. QED
    BY <2>1, <2>2, TruthKeeps
<1>6. DeliveriesHoldRows'
  BY <1>2 DEF DeliveryIInv, DeliveriesHoldRows
<1>7. ReferencesStand'
  <2> SUFFICES ASSUME NEW s \in Sources
               PROVE  /\ binding'[s] = "named" => s \in service
                      /\ Reference(s) \in delivered => binding'[s] = "named"
                      /\ binding'[s] # "none" => Reference(s) \in Announced'
    BY <1>1 DEF ReferencesStand, Reference
  <2>1. /\ binding[s] = "named" => s \in service
        /\ Reference(s) \in delivered => binding[s] = "named"
        /\ binding[s] # "none" => Reference(s) \in Announced
    BY DEF DeliveryIInv, DeliveredIsReferenced, ReferencesStand
  <2>2. binding'[s] = "created" /\ binding[s] = "none" => e = Reference(s)
    OBVIOUS
  <2>. QED
    BY <1>3, <2>1, <2>2
<1>8. EventsWaitOnce'
  BY <1>1, <1>2 DEF DeliveryIInv, DeliveredIsReferenced, EventsWaitOnce, Announced
<1>. QED
  BY <1>4, <1>5, <1>6, <1>7, <1>8 DEF DeliveryIInv, DeliveredIsReferenced

\* A step that tells of nothing and delivers nothing.
LEMMA QuietKeeps ==
  ASSUME IInv, DeliveryIInv, [Next]_vars, UNCHANGED <<service, binding, link, outbox>>,
         completed' \subseteq Sources, turn' \in [Workers -> {"job", "event"}],
         delivery' \in [Workers -> [event : Events, answered : BOOLEAN] \cup {None}],
         DeliveriesHoldRows'
  PROVE  DeliveryIInv'
<1>1. due' = due /\ later' = later /\ delivered' = delivered
  BY DEF outbox
<1>2. Waiting' = Waiting /\ Announced' = Announced
  BY <1>1 DEF Waiting, Announced
<1>3. DeliveryTypeOK'
  BY <1>1 DEF DeliveryIInv, DeliveryTypeOK
<1>4. EventsStayTrue'
  <2>1. EventsStayTrue
    BY DEF DeliveryIInv
  <2> PICK E : E = {}
    OBVIOUS
  <2>2. ToldTruly(E)
    BY <1>2 DEF ToldTruly
  <2>. QED
    BY <2>1, <2>2, TruthKeeps
<1>5. DeliveredIsReferenced'
  BY <1>1, <1>2 DEF DeliveryIInv, DeliveredIsReferenced, ReferencesStand, EventsWaitOnce, Reference
<1>. QED
  BY <1>3, <1>4, <1>5 DEF DeliveryIInv

\* Requests and jobs leave the events of the workers alone.
LEMMA HoldingKeeps ==
  ASSUME DeliveryIInv, UNCHANGED <<service, outbox, delivery>>
  PROVE  DeliveriesHoldRows'
<1>1. Waiting' = Waiting
  BY DEF outbox, Waiting
<1>. QED
  BY <1>1 DEF DeliveryIInv, DeliveriesHoldRows

LEMMA RequestKeeps ==
  ASSUME IInv, DeliveryIInv, Request, [Next]_vars
  PROVE  DeliveryIInv'
<1>0. /\ completed \subseteq Sources
      /\ binding \in [Sources -> {"none", "created", "named"}]
      /\ link \in [Sources -> [Candidates -> {"none", "active", "released"}]]
      /\ turn \in [Workers -> {"job", "event"}]
      /\ delivery \in [Workers -> [event : Events, answered : BOOLEAN] \cup {None}]
  BY DEF DeliveryIInv, DeliveryTypeOK
<1>1. UNCHANGED <<turn, delivery>>
  BY DEF Request
<1>2. ASSUME UNCHANGED <<service, binding, link, outbox>>, completed' \subseteq Sources
      PROVE  DeliveryIInv'
  <2>1. DeliveriesHoldRows'
    BY <1>1, <1>2, HoldingKeeps
  <2>. QED
    BY <1>0, <1>1, <1>2, <2>1, QuietKeeps
<1>3. ASSUME NEW s \in Sources, CompleteUpload(s) PROVE DeliveryIInv'
  BY <1>0, <1>2, <1>3 DEF CompleteUpload
<1>4. ASSUME NEW s \in Sources, UploadAsset(s) PROVE DeliveryIInv'
  <2>1. source[s] = None /\ source' = [source EXCEPT ![s] = "received"]
    BY <1>4 DEF UploadAsset, Upload
  <2>2. source'[s] # None
    BY <2>1, NoneAssumption DEF IInv, TypeOK, CaptureStates
  <2>3. binding[s] = "none" /\ Reference(s) \notin Announced
    BY <2>1 DEF DeliveryIInv, EventsStayTrue
  <2>4. binding' = [binding EXCEPT ![s] = "created"] /\ link' = link
        /\ Emit(Reference(s)) /\ UNCHANGED <<completed, service>>
    BY <1>4 DEF UploadAsset
  <2>5. Reference(s) \in Events
    BY DEF Events
  <2>6. \A x \in Sources : Reference(x) = Reference(s) => x = s
    BY DEF Reference
  <2>7. \A k \in Kinds, x \in Sources, i \in Candidates : Reference(s) # RecordEvent(k, x, i)
    BY DEF Reference, RecordEvent, Kinds
  <2>8. {"confirmed", "linked", "released"} \subseteq Kinds
    BY DEF Kinds
  <2>. QED
    BY <1>0, <1>1, <2>2, <2>3, <2>4, <2>5, <2>6, <2>7, <2>8, EmitKeeps
<1>5. ASSUME NEW s \in Sources, NEW i \in Candidates, NEW k \in Kinds,
             RecordEvent(k, s, i) \notin Announced, Emit(RecordEvent(k, s, i)),
             UNCHANGED <<completed, service, binding>>,
             link' \in [Sources -> [Candidates -> {"none", "active", "released"}]],
             \A x \in Sources, j \in Candidates :
                /\ link[x][j] # "none" => link'[x][j] # "none"
                /\ link[x][j] = "released" => link'[x][j] = "released",
             k = "confirmed" => draft'[s][i] # None /\ draft'[s][i].state # "draft",
             k = "linked" => link'[s][i] # "none",
             k = "released" => link'[s][i] = "released"
      PROVE  DeliveryIInv'
  <2> DEFINE e == RecordEvent(k, s, i)
  <2>1. e \in Events
    BY DEF Events
  <2>2. \A x \in Sources : e # Reference(x)
    BY DEF Reference, RecordEvent, Kinds
  <2>3. \A h \in Kinds, x \in Sources, j \in Candidates :
            e = RecordEvent(h, x, j) => h = k /\ x = s /\ j = i
    BY DEF RecordEvent
  <2>4. {"confirmed", "linked", "released"} \subseteq Kinds
    BY DEF Kinds
  <2>5. e \notin Announced /\ Emit(e)
    BY <1>5
  <2> HIDE DEF e
  <2>6. \A x \in Sources, j \in Candidates :
            /\ e = RecordEvent("confirmed", x, j) =>
                  draft'[x][j] # None /\ draft'[x][j].state # "draft"
            /\ e = RecordEvent("linked", x, j) => link'[x][j] # "none"
            /\ e = RecordEvent("released", x, j) => link'[x][j] = "released"
    BY <1>5, <2>3, <2>4
  <2>. QED
    BY <1>0, <1>1, <1>5, <2>1, <2>2, <2>5, <2>6, EmitKeeps
<1>6. ASSUME NEW s \in Sources, NEW i \in Candidates, ConfirmAndAnnounce(s, i)
      PROVE  DeliveryIInv'
  <2>1. /\ draft[s][i] # None /\ draft[s][i].state = "draft"
        /\ draft' = [draft EXCEPT ![s][i].state = "confirmed"]
        /\ Emit(RecordEvent("confirmed", s, i)) /\ UNCHANGED <<completed, service, binding, link>>
    BY <1>6 DEF ConfirmAndAnnounce, ConfirmDraft, evidence
  <2>2. RecordEvent("confirmed", s, i) \notin Announced
    BY <2>1 DEF DeliveryIInv, EventsStayTrue
  <2>3. draft'[s][i] # None /\ draft'[s][i].state # "draft"
    <3>1. draft \in [Sources -> [Candidates -> Draft \cup {None}]] /\ draft[s][i] \in Draft
      BY <2>1 DEF IInv, TypeOK
    <3>2. draft'[s][i] = [draft[s][i] EXCEPT !.state = "confirmed"]
      BY <2>1, <3>1
    <3>3. draft'[s][i] \in Draft /\ draft'[s][i].state = "confirmed"
      BY <3>1, <3>2 DEF Draft
    <3>. QED
      BY <3>3, NoneAssumption
  <2>. QED
    BY <1>0, <1>5, <2>1, <2>2, <2>3 DEF Kinds
<1>7. ASSUME NEW s \in Sources, NEW i \in Candidates, DeleteUnreferenced(s, i)
      PROVE  DeliveryIInv'
  BY <1>0, <1>2, <1>7 DEF DeleteUnreferenced, evidence
<1>8. ASSUME NEW s \in Sources, NEW i \in Candidates, LinkArchive(s, i)
      PROVE  DeliveryIInv'
  <2>1. /\ link[s][i] = "none" /\ link' = [link EXCEPT ![s][i] = "active"]
        /\ Emit(RecordEvent("linked", s, i)) /\ UNCHANGED <<completed, service, binding>>
    BY <1>8 DEF LinkArchive
  <2>2. RecordEvent("linked", s, i) \notin Announced
    BY <2>1 DEF DeliveryIInv, EventsStayTrue
  <2>. QED
    BY <1>0, <1>5, <2>1, <2>2 DEF Kinds
<1>9. ASSUME NEW s \in Sources, NEW i \in Candidates, ReleaseArchive(s, i)
      PROVE  DeliveryIInv'
  <2>1. /\ link[s][i] = "active" /\ link' = [link EXCEPT ![s][i] = "released"]
        /\ Emit(RecordEvent("released", s, i)) /\ UNCHANGED <<completed, service, binding>>
    BY <1>9 DEF ReleaseArchive
  <2>2. RecordEvent("released", s, i) \notin Announced
    BY <2>1 DEF DeliveryIInv, EventsStayTrue
  <2>. QED
    BY <1>0, <1>5, <2>1, <2>2 DEF Kinds
<1>10. ASSUME OtherRequest PROVE DeliveryIInv'
  BY <1>0, <1>2, <1>10 DEF OtherRequest, evidence
<1>. QED
  BY <1>3, <1>4, <1>6, <1>7, <1>8, <1>9, <1>10 DEF Request

LEMMA DeliveryTypes ==
  ASSUME DeliveryIInv
  PROVE  /\ completed \subseteq Sources /\ service \subseteq Sources
         /\ binding \in [Sources -> {"none", "created", "named"}]
         /\ link \in [Sources -> [Candidates -> {"none", "active", "released"}]]
         /\ due \in Seq(Events) /\ later \subseteq Events /\ delivered \subseteq Events
         /\ turn \in [Workers -> {"job", "event"}]
         /\ delivery \in [Workers -> [event : Events, answered : BOOLEAN] \cup {None}]
         /\ Waiting \subseteq Events
<1>1. due \in Seq(Events)
  BY DEF DeliveryIInv, DeliveryTypeOK
<1>2. Waiting \subseteq Events
  BY <1>1 DEF Waiting
<1>. QED
  BY <1>2 DEF DeliveryIInv, DeliveryTypeOK

\* The loop of a worker, without the outbox.
LEMMA TurnKeeps ==
  ASSUME IInv, DeliveryIInv, [Next]_vars, NEW w \in Workers,
         RunJob(w) \/ NoJob(w) \/ NoEvent(w)
  PROVE  DeliveryIInv'
<1>1. UNCHANGED <<completed, service, binding, link, outbox, delivery>>
  BY DEF RunJob, NoJob, NoEvent, evidence
<1>2. turn' \in [Workers -> {"job", "event"}]
  BY DeliveryTypes DEF RunJob, NoJob, NoEvent, TurnTo
<1>3. DeliveriesHoldRows'
  BY <1>1, HoldingKeeps
<1>. QED
  BY <1>1, <1>2, <1>3, DeliveryTypes, QuietKeeps

\* Only an event that no worker holds is taken.
LEMMA TakeKeeps ==
  ASSUME IInv, DeliveryIInv, [Next]_vars, NEW w \in Workers, TakeEvent(w)
  PROVE  DeliveryIInv'
<1>1. /\ UNCHANGED <<completed, service, binding, link, outbox, turn>>
      /\ delivery[w] = None
  BY DEF TakeEvent, evidence
<1>2. PICK n \in FreeEvents :
          delivery' = [delivery EXCEPT ![w] = [event |-> due[n], answered |-> FALSE]]
  BY DEF TakeEvent
<1> DEFINE e == due[n]
<1>3. e \in Waiting /\ e \in Events
      /\ \A v \in Workers : delivery[v] # None => delivery[v].event # e
  BY <1>2, DeliveryTypes DEF FreeEvents, Held, Waiting
<1> HIDE DEF e
<1>4. Waiting' = Waiting
  BY <1>1 DEF outbox, Waiting
<1>5. /\ delivery'[w] = [event |-> e, answered |-> FALSE]
      /\ \A v \in Workers \ {w} : delivery'[v] = delivery[v]
  BY <1>2, DeliveryTypes DEF e
<1>6. delivery' \in [Workers -> [event : Events, answered : BOOLEAN] \cup {None}]
  BY <1>2, <1>3, DeliveryTypes DEF e
<1>7. DeliveriesHoldRows'
  <2> SUFFICES ASSUME NEW v \in Workers, delivery'[v] # None
               PROVE  /\ delivery'[v].event \in Waiting
                      /\ delivery'[v].answered => \E s \in service : delivery'[v].event = Reference(s)
                      /\ \A u \in Workers :
                            delivery'[u] # None /\ delivery'[u].event = delivery'[v].event => u = v
    BY <1>1, <1>4 DEF DeliveriesHoldRows, Reference
  <2>1. CASE v = w
    BY <1>3, <1>5, <2>1
  <2>2. CASE v # w
    BY <1>3, <1>5, <2>2 DEF DeliveryIInv, DeliveriesHoldRows
  <2>. QED
    BY <2>1, <2>2
<1>. QED
  BY <1>1, <1>6, <1>7, DeliveryTypes, QuietKeeps

\* The asset service makes the reference before it answers.
LEMMA ReferenceKeeps ==
  ASSUME IInv, DeliveryIInv, [Next]_vars, NEW w \in Workers, NEW s \in Sources,
         CreateReference(w, s)
  PROVE  DeliveryIInv'
<1>1. /\ delivery[w] # None /\ delivery[w].event = Reference(s)
      /\ service' = service \cup {s}
      /\ delivery' = [delivery EXCEPT ![w].answered = TRUE]
      /\ UNCHANGED <<vars, completed, binding, link, outbox, turn>>
  BY DEF CreateReference
<1>2. due' = due /\ later' = later /\ delivered' = delivered
  BY <1>1 DEF outbox
<1>3. Waiting' = Waiting /\ Announced' = Announced
  BY <1>2 DEF Waiting, Announced
<1>4. /\ delivery'[w].event = delivery[w].event
      /\ \A v \in Workers \ {w} : delivery'[v] = delivery[v]
      /\ delivery' \in [Workers -> [event : Events, answered : BOOLEAN] \cup {None}]
  BY <1>1, DeliveryTypes
<1>5. DeliveryTypeOK'
  BY <1>1, <1>2, <1>4 DEF DeliveryIInv, DeliveryTypeOK
<1>6. EventsStayTrue'
  BY <1>1, <1>3 DEF DeliveryIInv, EventsStayTrue, vars, Reference, RecordEvent
<1>7. DeliveriesHoldRows'
  <2> SUFFICES ASSUME NEW v \in Workers, delivery'[v] # None
               PROVE  /\ delivery'[v].event \in Waiting
                      /\ delivery'[v].answered => \E x \in service' : delivery'[v].event = Reference(x)
                      /\ \A u \in Workers :
                            delivery'[u] # None /\ delivery'[u].event = delivery'[v].event => u = v
    BY <1>3 DEF DeliveriesHoldRows, Reference
  <2>1. \A u \in Workers : delivery'[u] # None =>
            delivery[u] # None /\ delivery'[u].event = delivery[u].event
    BY <1>1, <1>4
  <2>2. /\ delivery[v].event \in Waiting
        /\ \A u \in Workers : delivery[u] # None /\ delivery[u].event = delivery[v].event => u = v
    BY <2>1 DEF DeliveryIInv, DeliveriesHoldRows
  <2>3. delivery'[v].answered => \E x \in service' : delivery'[v].event = Reference(x)
    <3>1. CASE v = w
      BY <1>1, <1>4, <3>1
    <3>2. CASE v # w
      BY <1>1, <1>4, <3>2 DEF DeliveryIInv, DeliveriesHoldRows
    <3>. QED
      BY <3>1, <3>2
  <2>. QED
    BY <2>1, <2>2, <2>3
<1>8. DeliveredIsReferenced'
  BY <1>1, <1>2, <1>3 DEF DeliveryIInv, DeliveredIsReferenced, ReferencesStand, EventsWaitOnce,
     Reference
<1>. QED
  BY <1>5, <1>6, <1>7, <1>8 DEF DeliveryIInv

\* A worker that lets go of its event; the others hold theirs.
LEMMA LetGoKeeps ==
  ASSUME DeliveryIInv, NEW w \in Workers, delivery[w] # None,
         delivery' = [delivery EXCEPT ![w] = None],
         service' = service,
         Waiting \ {delivery[w].event} \subseteq Waiting'
  PROVE  /\ DeliveriesHoldRows'
         /\ delivery' \in [Workers -> [event : Events, answered : BOOLEAN] \cup {None}]
<1>1. /\ delivery'[w] = None
      /\ \A v \in Workers \ {w} : delivery'[v] = delivery[v]
      /\ delivery' \in [Workers -> [event : Events, answered : BOOLEAN] \cup {None}]
  BY DeliveryTypes
<1>2. ASSUME NEW v \in Workers, delivery'[v] # None
      PROVE  /\ delivery'[v].event \in Waiting'
             /\ delivery'[v].answered => \E s \in service : delivery'[v].event = Reference(s)
             /\ \A u \in Workers :
                   delivery'[u] # None /\ delivery'[u].event = delivery'[v].event => u = v
  <2>1. v # w /\ delivery'[v] = delivery[v]
    BY <1>1, <1>2
  <2>2. delivery[v].event # delivery[w].event
    BY <1>2, <2>1 DEF DeliveryIInv, DeliveriesHoldRows
  <2>. QED
    BY <1>1, <1>2, <2>1, <2>2 DEF DeliveryIInv, DeliveriesHoldRows
<1>3. DeliveriesHoldRows'
  BY <1>2 DEF DeliveriesHoldRows, Reference
<1>. QED
  BY <1>1, <1>3

LEMMA KillKeeps ==
  ASSUME IInv, DeliveryIInv, [Next]_vars, NEW w \in Workers, KillDelivery(w)
  PROVE  DeliveryIInv'
<1>1. /\ delivery[w] # None /\ delivery' = [delivery EXCEPT ![w] = None]
      /\ turn' = [turn EXCEPT ![w] = "job"]
      /\ UNCHANGED <<completed, service, binding, link, outbox>>
  BY DEF KillDelivery, EndDelivery, TurnTo
<1>2. Waiting' = Waiting
  BY <1>1 DEF outbox, Waiting
<1>3. turn' \in [Workers -> {"job", "event"}]
  BY <1>1, DeliveryTypes
<1>. QED
  BY <1>1, <1>2, <1>3, DeliveryTypes, LetGoKeeps, QuietKeeps

\* What a worker marks as delivered was answered, or asks for nothing.
LEMMA DeliverKeeps ==
  ASSUME IInv, DeliveryIInv, [Next]_vars, NEW w \in Workers, NEW e, Deliver(w, e)
  PROVE  DeliveryIInv'
<1>1. /\ delivery[w] # None /\ delivery[w].event = e /\ Done(delivery[w])
      /\ binding' = IF e.kind = "reference" THEN [binding EXCEPT ![e.source] = "named"] ELSE binding
      /\ due' = Without(e) /\ delivered' = delivered \cup {e} /\ later' = later
      /\ delivery' = [delivery EXCEPT ![w] = None]
      /\ turn' = [turn EXCEPT ![w] = "job"]
      /\ UNCHANGED <<vars, completed, service, link>>
  BY DEF Deliver, EndDelivery, TurnTo
<1>2. e \in Waiting /\ e \in Events
  BY <1>1, DeliveryTypes DEF DeliveryIInv, DeliveriesHoldRows
<1>3. /\ due' \in Seq(Events) /\ Waiting' = Waiting \ {e}
      /\ \A m, n \in DOMAIN due' : due'[m] = due'[n] => m = n
  BY <1>1, <1>2, DeliveryTypes, TakenOutIsGone
     DEF DeliveryIInv, DeliveredIsReferenced, EventsWaitOnce
<1>4. Announced' = Announced
  BY <1>1, <1>2, <1>3 DEF Announced
<1>5. \/ binding' = binding /\ \A s \in Sources : e # Reference(s)
      \/ \E s \in service : e = Reference(s) /\ binding' = [binding EXCEPT ![s] = "named"]
  <2>1. CASE e.kind = "reference"
    <3>1. e.kind # "confirmed"
      BY <2>1
    <3>2. delivery[w].answered
      BY <1>1, <3>1 DEF Done
    <3>3. PICK s \in service : e = Reference(s)
      BY <1>1, <3>2 DEF DeliveryIInv, DeliveriesHoldRows
    <3>4. e.source = s
      BY <3>3 DEF Reference
    <3>. QED
      BY <1>1, <2>1, <3>3, <3>4
  <2>2. CASE e.kind # "reference"
    BY <1>1, <2>2 DEF Reference
  <2>. QED
    BY <2>1, <2>2
<1>6. /\ binding' \in [Sources -> {"none", "created", "named"}]
      /\ \A s \in Sources : /\ binding'[s] = "none" <=> binding[s] = "none"
                            /\ binding[s] = "named" => binding'[s] = "named"
                            /\ binding'[s] = "named" => binding[s] = "named" \/ s \in service
                            /\ e = Reference(s) => binding'[s] = "named"
  <2>1. CASE binding' = binding /\ \A s \in Sources : e # Reference(s)
    BY <2>1, DeliveryTypes
  <2>2. ASSUME NEW s \in service, e = Reference(s), binding' = [binding EXCEPT ![s] = "named"]
        PROVE  /\ binding' \in [Sources -> {"none", "created", "named"}]
               /\ \A x \in Sources : /\ binding'[x] = "none" <=> binding[x] = "none"
                                     /\ binding[x] = "named" => binding'[x] = "named"
                                     /\ binding'[x] = "named" => binding[x] = "named" \/ x \in service
                                     /\ e = Reference(x) => binding'[x] = "named"
    <3>1. s \in Sources /\ binding[s] # "none"
      <4>1. Reference(s) \in Announced
        BY <1>2, <2>2 DEF Announced
      <4>. QED
        BY <4>1, DeliveryTypes DEF DeliveryIInv, EventsStayTrue
    <3>2. \A x \in Sources : Reference(x) = Reference(s) => x = s
      BY DEF Reference
    <3>. QED
      BY <2>2, <3>1, <3>2, DeliveryTypes
  <2>. QED
    BY <1>5, <2>1, <2>2
<1>7. turn' \in [Workers -> {"job", "event"}]
  BY <1>1, DeliveryTypes
<1>8. /\ DeliveriesHoldRows'
      /\ delivery' \in [Workers -> [event : Events, answered : BOOLEAN] \cup {None}]
  BY <1>1, <1>3, LetGoKeeps
<1>9. DeliveryTypeOK'
  BY <1>1, <1>2, <1>3, <1>6, <1>7, <1>8, DeliveryTypes DEF DeliveryTypeOK
<1>10. EventsStayTrue'
  <2>1. EventsStayTrue
    BY DEF DeliveryIInv
  <2> PICK E : E = {}
    OBVIOUS
  <2>2. ToldTruly(E)
    BY <1>1, <1>4, <1>6 DEF ToldTruly
  <2>. QED
    BY <2>1, <2>2, TruthKeeps
<1>11. ReferencesStand'
  <2> SUFFICES ASSUME NEW s \in Sources
               PROVE  /\ binding'[s] = "named" => s \in service
                      /\ Reference(s) \in delivered' => binding'[s] = "named"
                      /\ binding'[s] # "none" => Reference(s) \in Announced'
    BY <1>1 DEF ReferencesStand, Reference
  <2>. QED
    BY <1>1, <1>4, <1>6 DEF DeliveryIInv, DeliveredIsReferenced, ReferencesStand
<1>12. EventsWaitOnce'
  BY <1>1, <1>2, <1>3 DEF DeliveryIInv, DeliveredIsReferenced, EventsWaitOnce
<1>. QED
  BY <1>8, <1>9, <1>10, <1>11, <1>12 DEF DeliveryIInv, DeliveredIsReferenced

\* An event that failed still waits, and when its time has come.
LEMMA BackOffKeeps ==
  ASSUME IInv, DeliveryIInv, [Next]_vars,
         UNCHANGED <<completed, service, binding, link, delivered>>,
         due' \in Seq(Events), later' \subseteq Events,
         Waiting' \cup later' = Waiting \cup later, Waiting' \cap later' = {},
         \A m, n \in DOMAIN due' : due'[m] = due'[n] => m = n,
         turn' \in [Workers -> {"job", "event"}],
         delivery' \in [Workers -> [event : Events, answered : BOOLEAN] \cup {None}],
         DeliveriesHoldRows'
  PROVE  DeliveryIInv'
<1>1. Announced' = Announced
  BY DEF Announced
<1>2. DeliveryTypeOK'
  BY DEF DeliveryIInv, DeliveryTypeOK
<1>3. EventsStayTrue'
  <2>1. EventsStayTrue
    BY DEF DeliveryIInv
  <2> PICK E : E = {}
    OBVIOUS
  <2>2. ToldTruly(E)
    BY <1>1 DEF ToldTruly
  <2>. QED
    BY <2>1, <2>2, TruthKeeps
<1>4. ReferencesStand'
  BY <1>1 DEF DeliveryIInv, DeliveredIsReferenced, ReferencesStand, Reference
<1>5. EventsWaitOnce'
  BY DEF DeliveryIInv, DeliveredIsReferenced, EventsWaitOnce
<1>. QED
  BY <1>2, <1>3, <1>4, <1>5 DEF DeliveryIInv, DeliveredIsReferenced

LEMMA FailureKeeps ==
  ASSUME IInv, DeliveryIInv, [Next]_vars, NEW w \in Workers, NEW e, DeliveryFails(w, e)
  PROVE  DeliveryIInv'
<1>1. /\ delivery[w] # None /\ delivery[w].event = e
      /\ due' = Without(e) /\ later' = later \cup {e}
      /\ delivery' = [delivery EXCEPT ![w] = None]
      /\ turn' = [turn EXCEPT ![w] = "job"]
      /\ UNCHANGED <<completed, service, binding, link, delivered>>
  BY DEF DeliveryFails, AvailableLater, EndDelivery, TurnTo
<1>2. e \in Waiting /\ e \in Events
  BY <1>1, DeliveryTypes DEF DeliveryIInv, DeliveriesHoldRows
<1>3. /\ due' \in Seq(Events) /\ Waiting' = Waiting \ {e}
      /\ \A m, n \in DOMAIN due' : due'[m] = due'[n] => m = n
  BY <1>1, <1>2, DeliveryTypes, TakenOutIsGone
     DEF DeliveryIInv, DeliveredIsReferenced, EventsWaitOnce
<1>4. /\ Waiting' \cup later' = Waiting \cup later /\ Waiting' \cap later' = {}
      /\ later' \subseteq Events
  BY <1>1, <1>2, <1>3, DeliveryTypes DEF DeliveryIInv, DeliveredIsReferenced, EventsWaitOnce
<1>5. /\ DeliveriesHoldRows'
      /\ delivery' \in [Workers -> [event : Events, answered : BOOLEAN] \cup {None}]
  BY <1>1, <1>3, LetGoKeeps
<1>6. turn' \in [Workers -> {"job", "event"}]
  BY <1>1, DeliveryTypes
<1>. QED
  BY <1>1, <1>3, <1>4, <1>5, <1>6, BackOffKeeps

LEMMA ComeDueKeeps ==
  ASSUME IInv, DeliveryIInv, [Next]_vars, NEW e \in later, ComeDue(e)
  PROVE  DeliveryIInv'
<1>1. /\ later' = later \ {e} /\ due' = Append(due, e)
      /\ UNCHANGED <<completed, service, binding, link, delivered, turn, delivery>>
  BY DEF ComeDue, evidence
<1>2. e \in Events /\ e \notin Waiting
  BY DeliveryTypes DEF DeliveryIInv, DeliveredIsReferenced, EventsWaitOnce
<1>3. /\ due' \in Seq(Events) /\ Waiting' = Waiting \cup {e}
      /\ \A m, n \in DOMAIN due' : due'[m] = due'[n] => m = n
  BY <1>1, <1>2, DeliveryTypes, AppendedWaits
     DEF DeliveryIInv, DeliveredIsReferenced, EventsWaitOnce
<1>4. /\ Waiting' \cup later' = Waiting \cup later /\ Waiting' \cap later' = {}
      /\ later' \subseteq Events
  BY <1>1, <1>2, <1>3, DeliveryTypes DEF DeliveryIInv, DeliveredIsReferenced, EventsWaitOnce
<1>5. DeliveriesHoldRows'
  BY <1>1, <1>3 DEF DeliveryIInv, DeliveriesHoldRows, Reference
<1>. QED
  BY <1>1, <1>3, <1>4, <1>5, DeliveryTypes, BackOffKeeps

LEMMA DeliveryInitially == DeliveryInit => DeliveryIInv
<1> SUFFICES ASSUME DeliveryInit PROVE DeliveryIInv
  OBVIOUS
<1>1. /\ completed = {} /\ service = {} /\ due = <<>> /\ later = {} /\ delivered = {}
      /\ binding = [s \in Sources |-> "none"]
      /\ link = [s \in Sources |-> [i \in Candidates |-> "none"]]
      /\ turn = [w \in Workers |-> "job"] /\ delivery = [w \in Workers |-> None]
  BY DEF DeliveryInit
<1>2. due \in Seq(Events) /\ DOMAIN due = {}
  BY <1>1
<1>3. Waiting = {} /\ Announced = {}
  BY <1>1, <1>2 DEF Waiting, Announced
<1>4. DeliveryTypeOK
  BY <1>1, <1>2 DEF DeliveryTypeOK
<1>5. EventsStayTrue /\ DeliveriesHoldRows
  BY <1>1, <1>3 DEF EventsStayTrue, DeliveriesHoldRows
<1>6. DeliveredIsReferenced
  BY <1>1, <1>2, <1>3 DEF DeliveredIsReferenced, ReferencesStand, EventsWaitOnce
<1>. QED
  BY <1>4, <1>5, <1>6 DEF DeliveryIInv

\* The inductive invariant of the outbox, next to the one of the jobs.
THEOREM DeliveryInvariance == DeliverySpec => []DeliveryIInv
<1>1. IInv /\ DeliveryIInv /\ [DeliveryNext]_deliveryVars => DeliveryIInv'
  <2> SUFFICES ASSUME IInv, DeliveryIInv, [DeliveryNext]_deliveryVars
               PROVE  DeliveryIInv'
    OBVIOUS
  <2>1. [Next]_vars
    BY DeliverySteps
  <2>2. CASE UNCHANGED deliveryVars
    <3>1. UNCHANGED <<completed, service, binding, link, outbox, turn, delivery>>
      BY <2>2 DEF deliveryVars, evidence
    <3>2. DeliveriesHoldRows'
      BY <3>1, HoldingKeeps
    <3>. QED
      BY <2>1, <3>1, <3>2, DeliveryTypes, QuietKeeps
  <2>3. CASE Request
    BY <2>1, <2>3, RequestKeeps
  <2>4. ASSUME NEW w \in Workers, Loop(w) \/ KillDelivery(w)
        PROVE  DeliveryIInv'
    <3>1. ASSUME RunJob(w) \/ NoJob(w) \/ NoEvent(w) PROVE DeliveryIInv'
      BY <2>1, <3>1, TurnKeeps
    <3>2. ASSUME TakeEvent(w) PROVE DeliveryIInv'
      BY <2>1, <3>2, TakeKeeps
    <3>3. ASSUME NEW s \in Sources, CreateReference(w, s) PROVE DeliveryIInv'
      BY <2>1, <3>3, ReferenceKeeps
    <3>4. ASSUME NEW e, TryEnds(w, e) PROVE DeliveryIInv'
      BY <2>1, <3>4, DeliverKeeps, FailureKeeps DEF TryEnds
    <3>5. ASSUME KillDelivery(w) PROVE DeliveryIInv'
      BY <2>1, <3>5, KillKeeps
    <3>. QED
      BY <2>4, <3>1, <3>2, <3>3, <3>4, <3>5 DEF Loop
  <2>5. ASSUME NEW e \in later, ComeDue(e) PROVE DeliveryIInv'
    BY <2>1, <2>5, ComeDueKeeps
  <2>. QED
    BY <2>2, <2>3, <2>4, <2>5 DEF DeliveryNext
<1>2. DeliverySpec => []IInv
  BY DeliveryRefinement, Invariance, PTL
<1>. QED
  BY <1>1, <1>2, DeliveryInitially, PTL DEF DeliverySpec

\* deliver_outbox(): whatever fails between the call of the asset service and
\* its commit, a delivered reference is made and named, a binding without its
\* name still has its event, and no event is delivered and waits, or waits twice.
THEOREM DeliveredReferencesStand == DeliverySpec => []DeliveredIsReferenced
<1>1. DeliveryIInv => DeliveredIsReferenced
  BY DEF DeliveryIInv
<1>. QED
  BY <1>1, DeliveryInvariance, PTL
=============================================================================
