------------------------------ MODULE Delivery ------------------------------
(***************************************************************************)
(* The outbox next to the capture jobs: what asset_complete(), a           *)
(* confirmation and the archive routes of api.py put into it, and          *)
(* deliver_outbox() of worker.py, which the workers of CaptureJobs run in  *)
(* turn with the jobs.  The references of the asset service are external:  *)
(* one for each reference_key, however often it is asked for.              *)
(*                                                                         *)
(* An event is taken with SKIP LOCKED and held until the commit, which is  *)
(* after the call of the asset service.  Time is abstract: `due` holds the *)
(* events by available_at, an event that failed waits in `later` until its *)
(* time has come, and then it is the last one.                             *)
(*                                                                         *)
(* What is asked of a repeated request is a stuttering step, and so is a   *)
(* second link of a record that was released: the unique constraint        *)
(* refuses it.                                                             *)
(***************************************************************************)
EXTENDS CaptureJobs, Sequences

VARIABLES
    completed,  \* uploads that the asset service has completed
    service,    \* sources that have their reference at the asset service
    binding,    \* asset_bindings: "named" when asset_reference_id is set
    link,       \* archive_evidence_links of the records
    due,        \* outbox_events that are not delivered, by available_at
    later,      \* outbox_events whose available_at is in the future
    delivered,  \* outbox_events with delivered_at
    turn,       \* what the loop of a worker comes to next
    delivery    \* the event that a worker holds

outbox == <<due, later, delivered>>
evidence == <<completed, service, binding, link>>
deliveryVars == <<vars, evidence, outbox, turn, delivery>>

Reference(s) == [kind |-> "reference", source |-> s, record |-> 0]
RecordEvent(kind, s, i) == [kind |-> kind, source |-> s, record |-> i]
Kinds == {"confirmed", "linked", "released"}
Events == {Reference(s) : s \in Sources}
              \cup {RecordEvent(k, s, i) : k \in Kinds, s \in Sources, i \in Candidates}

DeliveryInit ==
    /\ Init
    /\ completed = {} /\ service = {}
    /\ binding = [s \in Sources |-> "none"]
    /\ link = [s \in Sources |-> [i \in Candidates |-> "none"]]
    /\ due = <<>> /\ later = {} /\ delivered = {}
    /\ turn = [w \in Workers |-> "job"]
    /\ delivery = [w \in Workers |-> None]

-----------------------------------------------------------------------------
(* The requests of the owner and of integrations *)

Emit(e) == due' = Append(due, e) /\ UNCHANGED <<later, delivered>>

\* AssetClient.complete_upload(); the request may end before it commits.
CompleteUpload(s) ==
    /\ source[s] = None
    /\ completed' = completed \cup {s}
    /\ UNCHANGED <<vars, service, binding, link, outbox>>

\* asset_complete() also adds the binding and the event of its reference.
UploadAsset(s) ==
    /\ s \in completed
    /\ Upload(s)
    /\ binding' = [binding EXCEPT ![s] = "created"]
    /\ Emit(Reference(s))
    /\ UNCHANGED <<completed, service, link>>

ConfirmAndAnnounce(s, i) ==
    /\ ConfirmDraft(s, i)
    /\ Emit(RecordEvent("confirmed", s, i))
    /\ UNCHANGED evidence

\* A released link counts as well.
DeleteUnreferenced(s, i) ==
    /\ link[s][i] = "none"
    /\ DeleteDraft(s, i)
    /\ UNCHANGED <<evidence, outbox>>

\* archive_evidence_create() reads without locks; its foreign key waits for a
\* deletion of the record, whose source link only goes with the record.
LinkArchive(s, i) ==
    /\ i \in Links(s)
    /\ binding[s] # "none"
    /\ link[s][i] = "none"
    /\ link' = [link EXCEPT ![s][i] = "active"]
    /\ Emit(RecordEvent("linked", s, i))
    /\ UNCHANGED <<vars, completed, service, binding>>

ReleaseArchive(s, i) ==
    /\ link[s][i] = "active"
    /\ link' = [link EXCEPT ![s][i] = "released"]
    /\ Emit(RecordEvent("released", s, i))
    /\ UNCHANGED <<vars, completed, service, binding>>

\* The requests of CaptureJobs that touch neither records nor the outbox.
OtherRequest ==
    /\ \/ \E k \in Retries : (\E s \in Sources : OpenRetry(k, s)) \/ CommitRetry(k)
                                \/ CloseRetry(k)
       \/ \E s \in Sources : \E o \in observation[s] : DecideObservation(s, o)
    /\ UNCHANGED <<evidence, outbox>>

Request ==
    /\ \/ \E s \in Sources : CompleteUpload(s) \/ UploadAsset(s)
       \/ \E s \in Sources, i \in Candidates :
             \/ ConfirmAndAnnounce(s, i) \/ DeleteUnreferenced(s, i)
             \/ LinkArchive(s, i) \/ ReleaseArchive(s, i)
       \/ OtherRequest
    /\ UNCHANGED <<turn, delivery>>

-----------------------------------------------------------------------------
(* run_once(): one job and then one event *)

TurnTo(w, next) == turn' = [turn EXCEPT ![w] = next]

\* A worker that breaks leaves its job as it is and starts over.
RunJob(w) ==
    /\ turn[w] = "job"
    /\ Step(w)
    /\ TurnTo(w, IF worker'[w] = None /\ job' # job THEN "event" ELSE "job")
    /\ UNCHANGED <<evidence, outbox, delivery>>

\* No job is available, or its time has not come.
NoJob(w) ==
    /\ turn[w] = "job"
    /\ worker[w] = None
    /\ TurnTo(w, "event")
    /\ UNCHANGED <<vars, evidence, outbox, delivery>>

Held == {delivery[w].event : w \in {w \in Workers : delivery[w] # None}}

FreeEvents == {n \in DOMAIN due : due[n] \notin Held}

TakeEvent(w) ==
    /\ turn[w] = "event"
    /\ delivery[w] = None
    /\ \E n \in FreeEvents :
          /\ \A m \in FreeEvents : n <= m
          /\ delivery' = [delivery EXCEPT ![w] = [event |-> due[n], answered |-> FALSE]]
    /\ UNCHANGED <<vars, evidence, outbox, turn>>

NoEvent(w) ==
    /\ turn[w] = "event"
    /\ delivery[w] = None
    /\ FreeEvents = {}
    /\ TurnTo(w, "job")
    /\ UNCHANGED <<vars, evidence, outbox, delivery>>

\* The asset service creates the reference, or has it already, and answers.
CreateReference(w, s) ==
    /\ delivery[w] # None
    /\ delivery[w].event = Reference(s) /\ ~delivery[w].answered
    /\ service' = service \cup {s}
    /\ delivery' = [delivery EXCEPT ![w].answered = TRUE]
    /\ UNCHANGED <<vars, completed, binding, link, outbox, turn>>

\* Mutant: the event is done when it was tried.
DoneWhenTried(d) == d.event.kind \in {"reference", "confirmed"}

\* A confirmation is only marked; nobody is told.  Archive events have no
\* adapter.
Done(d) == d.event.kind = "confirmed" \/ d.answered

\* The events that are not delivered, without the one at the place of e.
Without(e) ==
    LET place == CHOOSE n \in DOMAIN due : due[n] = e
    IN [n \in 1..(Len(due) - 1) |-> IF n < place THEN due[n] ELSE due[n + 1]]

EndDelivery(w) ==
    /\ delivery' = [delivery EXCEPT ![w] = None]
    /\ TurnTo(w, "job")
    /\ UNCHANGED <<vars, completed, service, link>>

Deliver(w, e) ==
    /\ delivery[w] # None
    /\ delivery[w].event = e
    /\ Done(delivery[w])
    /\ binding' = IF e.kind = "reference"
                  THEN [binding EXCEPT ![e.source] = "named"] ELSE binding
    /\ due' = Without(e)
    /\ delivered' = delivered \cup {e}
    /\ UNCHANGED later
    /\ EndDelivery(w)

\* Mutant: an event that failed is tried again at once.
AvailableNow(e) == due' = <<e>> \o Without(e) /\ UNCHANGED later

\* The back-off.
AvailableLater(e) == due' = Without(e) /\ later' = later \cup {e}

\* No answer, an answer that came too late, or no adapter.
DeliveryFails(w, e) ==
    /\ delivery[w] # None
    /\ delivery[w].event = e
    /\ e.kind # "confirmed"
    /\ AvailableLater(e)
    /\ UNCHANGED <<binding, delivered>>
    /\ EndDelivery(w)

TryEnds(w, e) == Deliver(w, e) \/ DeliveryFails(w, e)

\* The worker is killed while it delivers, before or after the service acts.
KillDelivery(w) ==
    /\ delivery[w] # None
    /\ UNCHANGED <<binding, outbox>>
    /\ EndDelivery(w)

\* available_at has passed.
ComeDue(e) ==
    /\ e \in later
    /\ later' = later \ {e}
    /\ due' = Append(due, e)
    /\ UNCHANGED <<vars, evidence, delivered, turn, delivery>>

Loop(w) ==
    \/ RunJob(w) \/ NoJob(w) \/ TakeEvent(w) \/ NoEvent(w)
    \/ \E s \in Sources : CreateReference(w, s)
    \/ delivery[w] # None /\ TryEnds(w, delivery[w].event)

DeliveryNext ==
    \/ Request
    \/ \E w \in Workers : Loop(w) \/ KillDelivery(w)
    \/ \E e \in later : ComeDue(e)

\* No job is killed, run() goes on for ever, and time passes.  The same event
\* is not killed for ever, and the asset service does not refuse for ever.
DeliveryFairness ==
    /\ \A w \in Workers : WF_deliveryVars(Loop(w))
    /\ \A e \in Events : WF_deliveryVars(ComeDue(e))
    /\ \A e \in Events : SF_deliveryVars(\E w \in Workers : TryEnds(w, e))
    /\ \A s \in Sources :
          /\ SF_deliveryVars(\E w \in Workers : CreateReference(w, s))
          /\ SF_deliveryVars(\E w \in Workers : Deliver(w, Reference(s)))

DeliverySpec ==
    DeliveryInit /\ [][DeliveryNext]_deliveryVars /\ DeliveryFairness

-----------------------------------------------------------------------------
(* Properties *)

Waiting == {due[n] : n \in DOMAIN due}
Announced == delivered \cup later \cup Waiting

ReferencesStand ==
    \A s \in Sources :
        /\ binding[s] = "named" => s \in service
        /\ Reference(s) \in delivered => binding[s] = "named"
        /\ binding[s] # "none" => Reference(s) \in Announced

EventsWaitOnce ==
    /\ delivered \cap later = {} /\ Waiting \cap (delivered \cup later) = {}
    /\ \A m, n \in DOMAIN due : due[m] = due[n] => m = n

\* Whatever fails between the call and its commit, an event of a reference that
\* counts as delivered has made the reference, and the binding names it; no
\* event is delivered and waits, or waits twice.
DeliveredIsReferenced == ReferencesStand /\ EventsWaitOnce

\* Every uploaded document gets its reference, however many events that cannot
\* be delivered come back in front of it.
AssetsAreReferenced ==
    \A s \in Sources : binding[s] = "created" ~> binding[s] = "named"

-----------------------------------------------------------------------------
(* The inductive invariant, next to the one of CaptureJobs *)

DeliveryTypeOK ==
    /\ completed \subseteq Sources /\ service \subseteq Sources
    /\ binding \in [Sources -> {"none", "created", "named"}]
    /\ link \in [Sources -> [Candidates -> {"none", "active", "released"}]]
    /\ due \in Seq(Events) /\ later \subseteq Events /\ delivered \subseteq Events
    /\ turn \in [Workers -> {"job", "event"}]
    /\ delivery \in [Workers -> [event : Events, answered : BOOLEAN] \cup {None}]

\* An event tells of what is so for ever, so the same one is not told again.
EventsStayTrue ==
    \A s \in Sources :
        /\ binding[s] # "none" => source[s] # None
        /\ Reference(s) \in Announced => binding[s] # "none"
        /\ \A i \in Candidates :
              /\ RecordEvent("confirmed", s, i) \in Announced =>
                    draft[s][i] # None /\ draft[s][i].state # "draft"
              /\ RecordEvent("linked", s, i) \in Announced => link[s][i] # "none"
              /\ RecordEvent("released", s, i) \in Announced => link[s][i] = "released"

\* A worker holds the row of its event, which waits; an answer was given after
\* the reference was made.
DeliveriesHoldRows ==
    \A w \in Workers : delivery[w] # None =>
        /\ delivery[w].event \in Waiting
        /\ delivery[w].answered =>
              \E s \in service : delivery[w].event = Reference(s)
        /\ \A v \in Workers :
              delivery[v] # None /\ delivery[v].event = delivery[w].event => v = w

DeliveryIInv ==
    DeliveryTypeOK /\ EventsStayTrue /\ DeliveriesHoldRows /\ DeliveredIsReferenced
=============================================================================
