------------------------- MODULE GroupParticipation -------------------------
(***************************************************************************)
(* When the assistant joins the conversation of a group unasked.           *)
(*                                                                         *)
(* HTTP threads record what is said and keep one candidate row per group   *)
(* about the latest of it.  The automation thread claims the row once the  *)
(* group is quiet, asks for a plan and queues at most one reply.  Inbound  *)
(* traffic may take the row from it as soon as its lease has run out, so   *)
(* it looks again before each step (the fences).  Who may ask for a plan   *)
(* about a message, and whether anybody did, is written in a commitment    *)
(* that outlives the row, a redelivery of the message and a restart.       *)
(*                                                                         *)
(* One group: groups share only the automation thread, which takes one     *)
(* claimed row after the other.                                            *)
(***************************************************************************)
EXTENDS Naturals, FiniteSets

CONSTANTS
  Events,      \* what members say; QQ may deliver one of them twice
  MaxMessages, \* rows of group_messages, in the order of their ids
  MaxRestarts  \* how often the Bridge restarts

ASSUME GroupAssumption == MaxMessages \in Nat /\ MaxRestarts \in Nat

VARIABLES
  recorded,   \* the id of the newest row of group_messages
  event,      \* the event each of these rows is about, now or once it is there
  handler,    \* where the HTTP thread that recorded it is
  row,        \* the row of group_participation_queue
  job,        \* the candidate the automation thread works on
  commitment, \* table group_response_commitments, by its event
  outbox,     \* the events whose reply is in the Outbox, under its dedupe key
  restarts,
  planned     \* history: model calls made about an event

groupVars ==
  <<recorded, event, handler, row, job, commitment, outbox, restarts, planned>>

Ids == 1..MaxMessages

Ended == {"completed", "failed", "cancelled"}

(* attempt matters up to the third only; old is past the five minutes of   *)
(* an opportunity.  Of candidate_revision matters only whether it still is *)
(* what the worker has read, see Job.                                      *)
Candidate ==
  [state : {"absent", "pending", "claimed"} \cup Ended,
   latest : 0..MaxMessages, attempt : 0..3,
   lease : {"none", "live", "expired"}, due : BOOLEAN, old : BOOLEAN]

Active == row.state \in {"pending", "claimed"}

(* The places of the worker before it has queued anything.                 *)
BeforeQueue ==
  {"answered", "floor", "opportunity", "approved", "turn", "dispatch", "declined", "blocked"}

Job ==
  [at : {"idle", "preflight", "load", "claim", "refused", "research", "queued", "raised"}
        \cup BeforeQueue,
   message : 0..MaxMessages, attempt : 0..3,
   ours : BOOLEAN,  \* the row still has the candidate_revision of this claim
   bound : BOOLEAN] \* response_commitment is not None

Idle == [at |-> "idle", message |-> 0, attempt |-> 0, ours |-> FALSE, bound |-> FALSE]

Open == {"owned", "planned"}

Commitment ==
  [owner : {"none", "direct", "ambient"}, started : BOOLEAN,
   state : Open \cup {"silent", "committed", "held"}]

Unowned == [owner |-> "none", started |-> FALSE, state |-> "owned"]

Answering == {"planning", "concluding", "queueing", "binding"}

Handler == {"unsent", "deferring", "owning", "observing", "done"} \cup Answering

TypeOK ==
  /\ recorded \in 0..MaxMessages
  /\ event \in [Ids -> Events]
  /\ handler \in [Ids -> Handler]
  /\ row \in Candidate /\ job \in Job
  /\ commitment \in [Events -> Commitment]
  /\ outbox \subseteq Events
  /\ restarts \in 0..MaxRestarts
  /\ planned \in [Events -> Nat]

GroupInit ==
  /\ recorded = 0
  /\ event \in [Ids -> Events]
  /\ handler = [m \in Ids |-> "unsent"]
  /\ row = [state |-> "absent", latest |-> 0, attempt |-> 0, lease |-> "none",
            due |-> FALSE, old |-> FALSE]
  /\ job = Idle
  /\ commitment = [e \in Events |-> Unowned]
  /\ outbox = {} /\ restarts = 0
  /\ planned = [e \in Events |-> 0]

-----------------------------------------------------------------------------
(* The commitment of an event.                                             *)

(* Nothing leaves a settled state but its own repetition.                  *)
Settleable(e, state) == commitment[e].state \in Open \cup {state}

Settle(e, state) == commitment' = [commitment EXCEPT ![e].state = state]

(* A caller that swallows the refusal of a settlement.                     *)
SettleIfAllowed(e, state) ==
  commitment' = IF Settleable(e, state)
                THEN [commitment EXCEPT ![e].state = state] ELSE commitment

(* claim_group_response_commitment and begin_group_response_phase.         *)
Take(e, owner, started) ==
  commitment' = [commitment EXCEPT ![e] =
                   [owner |-> owner, started |-> started, state |-> "owned"]]

(* Faulty variant of Plannable: also after a crash.                        *)
PlannableAgain(e) ==
  commitment[e].owner = "ambient" /\ commitment[e].state \in Open

(* The worker may plan about what it owns and nobody has planned yet.      *)
Plannable(e) ==
  /\ commitment[e].owner = "ambient" /\ ~commitment[e].started
  /\ commitment[e].state \in Open

-----------------------------------------------------------------------------
(* What a thread of /assistant/group/dispatch does with a message.         *)

Pending(m, due) ==
  [state |-> "pending", latest |-> m, attempt |-> 0, lease |-> "none",
   due |-> due, old |-> FALSE]

Preserved == row.state = "claimed" /\ row.lease = "live"

(* enqueue_group_candidate leaves a claim under a live lease alone; else   *)
(* the row is about this message, with a new revision.  An opportunity     *)
(* that is past its age is a new one then, and none of the others is old.  *)
Enqueue(m) ==
  \/ Preserved /\ UNCHANGED <<row, job>>
  \/ /\ ~Preserved
     /\ \E due \in BOOLEAN : row' = Pending(m, due)
     /\ job' = [job EXCEPT !.ours = FALSE]

(* prepare_group_dispatch: the message becomes a candidate, is answered    *)
(* at once, or is only kept.                                               *)
Receive(m) ==
  /\ m = recorded + 1 /\ recorded' = m
  /\ \/ Enqueue(m) /\ handler' = [handler EXCEPT ![m] = "deferring"]
     \/ /\ \E to \in {"owning", "done"} : handler' = [handler EXCEPT ![m] = to]
        /\ UNCHANGED <<row, job>>
  /\ UNCHANGED <<event, commitment, outbox, restarts, planned>>

HandlerGoes(m, from, to) ==
  /\ handler[m] = from /\ handler' = [handler EXCEPT ![m] = to]
  /\ UNCHANGED <<recorded, event, row, job, restarts>>

(* Only whoever acquires the commitment goes on.                           *)
OwnDeferred(m) ==
  /\ commitment[event[m]] = Unowned
  /\ HandlerGoes(m, "deferring", "observing")
  /\ Take(event[m], "ambient", FALSE)
  /\ UNCHANGED <<outbox, planned>>

OwnDirect(m) ==
  /\ commitment[event[m]] = Unowned
  /\ HandlerGoes(m, "owning", "planning")
  /\ Take(event[m], "direct", FALSE)
  /\ UNCHANGED <<outbox, planned>>

AlreadyOwned(m) ==
  /\ commitment[event[m]] # Unowned
  /\ \E from \in {"deferring", "owning"} : HandlerGoes(m, from, "done")
  /\ UNCHANGED <<commitment, outbox, planned>>

(* Looking at an image of a deferred message, if there is one.             *)
Observe(m) ==
  /\ HandlerGoes(m, "observing", "done")
  /\ UNCHANGED <<commitment, outbox, planned>>

(* The model is called once the start of the plan is committed.            *)
PlanDirect(m) ==
  /\ HandlerGoes(m, "planning", "concluding")
  /\ commitment' = [commitment EXCEPT ![event[m]].started = TRUE]
  /\ planned' = [planned EXCEPT ![event[m]] = @ + 1]
  /\ UNCHANGED outbox

(* A failed result may still be answered, with an error text.              *)
Conclude(m) ==
  /\ \/ HandlerGoes(m, "concluding", "done") /\ SettleIfAllowed(event[m], "silent")
     \/ /\ HandlerGoes(m, "concluding", "queueing")
        /\ \E state \in {"planned", "held"} : SettleIfAllowed(event[m], state)
  /\ UNCHANGED <<outbox, planned>>

QueueDirect(m) ==
  /\ HandlerGoes(m, "queueing", "binding")
  /\ outbox' = outbox \cup {event[m]}
  /\ UNCHANGED <<commitment, planned>>

QueueRefused(m) ==
  /\ HandlerGoes(m, "queueing", "done")
  /\ UNCHANGED <<commitment, outbox, planned>>

BindDirect(m) ==
  /\ HandlerGoes(m, "binding", "done")
  /\ SettleIfAllowed(event[m], "committed")
  /\ UNCHANGED <<outbox, planned>>

(* An exception is settled as held by whoever owns the commitment.         *)
HandlerRaises(m) ==
  /\ \E from \in {"observing", "planning", "concluding", "queueing"} :
       HandlerGoes(m, from, "done")
  /\ SettleIfAllowed(event[m], "held")
  /\ UNCHANGED <<outbox, planned>>

HandlerFails(m) ==
  /\ \E from \in {"deferring", "owning"} : HandlerGoes(m, from, "done")
  /\ UNCHANGED <<commitment, outbox, planned>>

-----------------------------------------------------------------------------
(* What the worker does to the candidate.                                  *)

(* group_candidate_is_current.                                             *)
IsCurrent == row.state = "claimed" /\ row.latest = job.message /\ job.ours

(* renew_group_candidate_lease.                                            *)
Renewable == row.state = "claimed" /\ job.ours

(* Faulty variant of Finished: the row ends, whatever it has become.       *)
FinishedUnfenced(state) == [row EXCEPT !.state = state, !.lease = "none"]

(* finish_group_candidate, which looks at message and revision only.       *)
Finished(state) ==
  IF row.latest = job.message /\ job.ours
  THEN [row EXCEPT !.state = state, !.lease = "none"] ELSE row

(* reschedule_group_candidate.                                             *)
Rescheduled ==
  IF row.latest = job.message /\ job.ours
  THEN [row EXCEPT !.state = "pending", !.lease = "none", !.due = FALSE] ELSE row

(* requeue_stale_claimed_candidate, and what its callers do if it fails.   *)
HandedOver(n, due) ==
  IF IsCurrent /\ ~row.old THEN Pending(n, due) ELSE Finished("cancelled")

(* A stale topic is left to the newest message that still has a text.      *)
TopicMovesOn ==
  \/ row' = Finished("cancelled")
  \/ \E n \in (job.message + 1)..recorded, due \in BOOLEAN : row' = HandedOver(n, due)

(* Faulty variant of Claimable: a claim whose worker is gone is nobody's.  *)
ClaimableOnce == row.state = "pending" /\ row.due

(* claim_due_group_candidates.                                             *)
Claimable ==
  (row.state = "pending" /\ row.due) \/ (row.state = "claimed" /\ row.lease = "expired")

(* Whether an attempt was the third is all that is asked of it.            *)
OneMore == IF row.attempt = 3 THEN 3 ELSE row.attempt + 1

ClaimDue ==
  /\ job = Idle /\ Claimable /\ ~row.old
  /\ row' = [row EXCEPT !.state = "claimed", !.lease = "live", !.attempt = OneMore]
  /\ job' = [at |-> "preflight", message |-> row.latest, attempt |-> OneMore,
             ours |-> TRUE, bound |-> FALSE]
  /\ UNCHANGED <<recorded, event, handler, commitment, outbox, restarts, planned>>

DropOld ==
  /\ job = Idle /\ Claimable /\ row.old
  /\ row' = [row EXCEPT !.state = "cancelled", !.lease = "none"]
  /\ UNCHANGED <<recorded, event, handler, job, commitment, outbox, restarts, planned>>

WorkerGoes(from, to) == job.at = from /\ job' = [job EXCEPT !.at = to]

WorkerLeaves(from) == job.at = from /\ job' = Idle

OutsideOfTheWorker == <<recorded, event, handler, restarts>>

PreflightPasses ==
  /\ WorkerGoes("preflight", "load")
  /\ UNCHANGED OutsideOfTheWorker /\ UNCHANGED <<row, commitment, outbox, planned>>

(* Access, group gate, policy, retention, cooldowns, participation windows *)
(* and the freshness of the topic end a candidate before anybody planned,  *)
(* or hand it to the latest message if the anchor is an older one.         *)
PreflightEnds ==
  /\ WorkerLeaves("preflight")
  /\ \/ UNCHANGED row \* the fence before the end
     \/ IsCurrent /\ row' = Finished("completed")
     \/ TopicMovesOn
     \/ \E due \in BOOLEAN : row' = HandedOver(job.message, due)
  /\ UNCHANGED OutsideOfTheWorker /\ UNCHANGED <<commitment, outbox, planned>>

(* The lines after a commitment was found.                                 *)
PlanOrRefuse(e) ==
  \/ /\ Plannable(e)
     /\ job' = [job EXCEPT !.at = "research", !.bound = TRUE]
     /\ commitment' = [commitment EXCEPT ![e].started = TRUE]
  \/ /\ job' = [job EXCEPT !.at = "refused", !.bound = TRUE] \* or a source is gone
     /\ UNCHANGED commitment

LoadCommitment ==
  /\ job.at = "load"
  /\ LET e == event[job.message]
     IN IF commitment[e] # Unowned THEN PlanOrRefuse(e)
        ELSE WorkerGoes("load", "claim") /\ UNCHANGED commitment
  /\ UNCHANGED OutsideOfTheWorker /\ UNCHANGED <<row, outbox, planned>>

(* The thread that recorded the message may have claimed it meanwhile,     *)
(* perhaps for another situation, which is an error.                       *)
ClaimCommitment ==
  /\ job.at = "claim"
  /\ LET e == event[job.message]
     IN IF commitment[e] # Unowned
        THEN PlanOrRefuse(e) \/ (WorkerGoes("claim", "raised") /\ UNCHANGED commitment)
        ELSE /\ job' = [job EXCEPT !.at = "research", !.bound = TRUE]
             /\ Take(e, "ambient", TRUE)
  /\ UNCHANGED OutsideOfTheWorker /\ UNCHANGED <<row, outbox, planned>>

(* The worker may settle what it owns, and nothing else.                   *)
HoldIfAmbient(e) ==
  IF commitment[e].owner = "ambient" THEN SettleIfAllowed(e, "held") ELSE UNCHANGED commitment

Refuse ==
  /\ WorkerLeaves("refused")
  /\ row' = Finished("cancelled")
  /\ HoldIfAmbient(event[job.message])
  /\ UNCHANGED OutsideOfTheWorker /\ UNCHANGED <<outbox, planned>>

(* candidate_fence passes and the worker stays silent; a refused           *)
(* settlement raises and undoes the end.                                   *)
StaySilent ==
  /\ job.at \in {"research", "declined"} /\ IsCurrent
  /\ Settleable(event[job.message], "silent")
  /\ job' = Idle /\ row' = Finished("completed")
  /\ Settle(event[job.message], "silent")
  /\ UNCHANGED OutsideOfTheWorker /\ UNCHANGED <<outbox, planned>>

CallModel ==
  /\ WorkerGoes("research", "answered")
  /\ planned' = [planned EXCEPT ![event[job.message]] = @ + 1]
  /\ UNCHANGED OutsideOfTheWorker /\ UNCHANGED <<row, commitment, outbox>>

StillCurrent ==
  /\ IsCurrent /\ WorkerGoes("answered", "floor")
  /\ UNCHANGED OutsideOfTheWorker /\ UNCHANGED <<row, commitment, outbox, planned>>

(* candidate_fence fails: the group is closed, the claim lost or the topic *)
(* stale.                                                                  *)
CandidateFenceFails ==
  /\ \E at \in {"research", "answered", "declined"} : WorkerLeaves(at)
  /\ UNCHANGED row \/ (IsCurrent /\ TopicMovesOn)
  /\ UNCHANGED OutsideOfTheWorker /\ UNCHANGED <<commitment, outbox, planned>>

(* Where the worker goes on after approved_fence.                          *)
Onward ==
  [floor |-> {"opportunity"}, opportunity |-> {"declined", "approved"},
   approved |-> {"turn"}, turn |-> {"dispatch", "blocked", "raised"}]

Renewed == [row EXCEPT !.lease = "live"]

ApprovedFencePasses ==
  /\ Renewable /\ row' = Renewed
  /\ \E from \in DOMAIN Onward : \E to \in Onward[from] : WorkerGoes(from, to)
  /\ UNCHANGED OutsideOfTheWorker /\ UNCHANGED <<commitment, outbox, planned>>

ApprovedFenceFails ==
  /\ \E at \in DOMAIN Onward \cup {"blocked", "queued"} : WorkerLeaves(at)
  /\ UNCHANGED row \/ (Renewable /\ TopicMovesOn)
  /\ UNCHANGED OutsideOfTheWorker /\ UNCHANGED <<commitment, outbox, planned>>

(* dispatch_response, in another database.                                 *)
QueueReply ==
  /\ WorkerGoes("dispatch", "queued")
  /\ outbox' = outbox \cup {event[job.message]}
  /\ UNCHANGED OutsideOfTheWorker /\ UNCHANGED <<row, commitment, planned>>

(* approved_fence once more, then the settlement and the end.              *)
SettleAfterFence(from, state) ==
  /\ WorkerLeaves(from)
  /\ Renewable /\ Settleable(event[job.message], state)
  /\ row' = IF IsCurrent THEN Finished("completed") ELSE Renewed
  /\ Settle(event[job.message], state)
  /\ UNCHANGED OutsideOfTheWorker /\ UNCHANGED <<outbox, planned>>

CommitReply == SettleAfterFence("queued", "committed")

CloseBlocked == SettleAfterFence("blocked", "silent")

(* Any step may raise, with its transaction undone.                        *)
WorkerRaises ==
  /\ job.at \notin {"idle", "raised"} /\ job' = [job EXCEPT !.at = "raised"]
  /\ UNCHANGED OutsideOfTheWorker /\ UNCHANGED <<row, commitment, outbox, planned>>

(* The handler of exceptions; the fence fails if the claim is lost or the  *)
(* group closed.                                                           *)
HandleException ==
  /\ WorkerLeaves("raised")
  /\ \/ UNCHANGED <<row, commitment>>
     \/ /\ IsCurrent /\ job.bound
        /\ row' = Finished("failed") /\ HoldIfAmbient(event[job.message])
     \/ /\ IsCurrent /\ ~job.bound
        /\ row' = IF job.attempt < 3 THEN Rescheduled ELSE Finished("failed")
        /\ UNCHANGED commitment
  /\ UNCHANGED OutsideOfTheWorker /\ UNCHANGED <<outbox, planned>>

-----------------------------------------------------------------------------
OutsideOfTime == <<recorded, event, handler, job, commitment, outbox, restarts, planned>>

FallsDue ==
  /\ row.state = "pending" /\ ~row.due
  /\ row' = [row EXCEPT !.due = TRUE]
  /\ UNCHANGED OutsideOfTime

LeaseExpires ==
  /\ row.state = "claimed" /\ row.lease = "live"
  /\ row' = [row EXCEPT !.lease = "expired"]
  /\ UNCHANGED OutsideOfTime

GrowsOld ==
  /\ Active /\ ~row.old
  /\ row' = [row EXCEPT !.old = TRUE]
  /\ UNCHANGED OutsideOfTime

(* What threads were doing is forgotten, what tables hold is not.          *)
Restart ==
  /\ restarts < MaxRestarts /\ restarts' = restarts + 1
  /\ job' = Idle
  /\ handler' = [m \in Ids |-> IF handler[m] = "unsent" THEN "unsent" ELSE "done"]
  /\ UNCHANGED <<recorded, event, row, commitment, outbox, planned>>

-----------------------------------------------------------------------------
HandlerStep(m) ==
  \/ Receive(m) \/ OwnDeferred(m) \/ OwnDirect(m) \/ AlreadyOwned(m) \/ Observe(m)
  \/ PlanDirect(m) \/ Conclude(m) \/ QueueDirect(m) \/ QueueRefused(m)
  \/ BindDirect(m) \/ HandlerRaises(m) \/ HandlerFails(m)

WorkerStep ==
  \/ ClaimDue \/ DropOld \/ PreflightPasses \/ PreflightEnds
  \/ LoadCommitment \/ ClaimCommitment \/ Refuse \/ StaySilent \/ CallModel
  \/ StillCurrent \/ CandidateFenceFails \/ ApprovedFencePasses \/ ApprovedFenceFails
  \/ QueueReply \/ CommitReply \/ CloseBlocked \/ WorkerRaises \/ HandleException

TimePasses == FallsDue \/ LeaseExpires \/ GrowsOld

GroupNext ==
  \/ \E m \in Ids : HandlerStep(m)
  \/ WorkerStep \/ TimePasses \/ Restart

GroupSpec == GroupInit /\ [][GroupNext]_groupVars

(* The automation loop goes on, and time does.                             *)
FairGroupSpec ==
  /\ GroupSpec
  /\ WF_groupVars(WorkerStep) /\ WF_groupVars(FallsDue)
  /\ WF_groupVars(LeaseExpires) /\ WF_groupVars(GrowsOld)

-----------------------------------------------------------------------------
(* A plan is asked for once about an event: not again by a worker that     *)
(* reclaims the candidate after a crash, nor for a second delivery of the  *)
(* message, be it deferred or answered at once.                            *)
OnePlanPerEvent == \A e \in Events : planned[e] <= 1

(* What a settled commitment says of the reply is true of the Outbox,      *)
(* which is another database and is written first.                         *)
SettledTruthfully ==
  \A e \in Events :
    /\ commitment[e].state = "committed" => e \in outbox
    /\ commitment[e].state = "silent" => e \notin outbox

(* Both of the above: one answer to an event and a ledger that knows it.   *)
AnswersAreFenced == OnePlanPerEvent /\ SettledTruthfully

(* Only the claim it stands under ends a candidate, or its age.  A worker  *)
(* whose lease ran out does not end what inbound traffic put in its place: *)
(* a message nobody has looked at.                                         *)
OutcomeIsOwn ==
  [][Active /\ row'.state \in Ended => IsCurrent \/ (job = Idle /\ row.old)]_groupVars

(* Whatever fences fail, errors occur and workers stop, a candidate ends.  *)
CandidateSettles == Active ~> row.state \in Ended
=============================================================================
