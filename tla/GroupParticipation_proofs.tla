---------------------- MODULE GroupParticipation_proofs ----------------------
(***************************************************************************)
(* Proofs about GroupParticipation, for any set of events and any number   *)
(* of messages and restarts.                                               *)
(***************************************************************************)
EXTENDS GroupParticipation, TLAPS

USE GroupAssumption

-----------------------------------------------------------------------------
(* The inductive invariant.                                                *)

(* Whose claim a row is.                                                   *)
ClaimInv ==
  /\ row.state # "absent" => row.latest \in Ids
  /\ job.at = "idle" => job = Idle
  /\ job.at # "idle" => job.message \in Ids
  /\ job.ours => row.state = "claimed" /\ row.latest = job.message

(* What the ledger says of an event nobody works on.                       *)
Ledger(e) ==
  /\ commitment[e].owner = "none" => commitment[e] = Unowned
  /\ planned[e] \in {0, 1}
  /\ planned[e] = 1 \/ e \in outbox => commitment[e].started
  /\ commitment[e].state = "committed" => e \in outbox
  /\ commitment[e].state = "silent" => e \notin outbox

BeforeDirect == {"planning", "concluding", "queueing"}

(* A thread that answers at once is alone with its event.                  *)
Answers(m) ==
  LET e == event[m]
  IN /\ handler[m] = "observing" => commitment[e].owner # "none"
     /\ handler[m] \in Answering =>
          /\ commitment[e].owner = "direct"
          /\ \A n \in Ids : n # m /\ handler[n] \in Answering => event[n] # e
     /\ handler[m] = "planning" => ~commitment[e].started
     /\ handler[m] \in Answering \ {"planning"} => commitment[e].started
     /\ handler[m] \in BeforeDirect => e \notin outbox /\ commitment[e].state # "silent"
     /\ handler[m] = "binding" => e \in outbox

(* The worker past the begin of its plan owns the event.                   *)
Works(e) ==
  /\ job.bound => commitment[e].owner # "none"
  /\ job.at \in {"research", "queued"} \cup BeforeQueue =>
       commitment[e].owner = "ambient" /\ commitment[e].started
  /\ job.at = "research" => planned[e] = 0
  /\ job.at \in {"research"} \cup BeforeQueue =>
       e \notin outbox /\ commitment[e].state # "silent"
  /\ job.at = "queued" => e \in outbox

AnswerInv ==
  /\ \A e \in Events : Ledger(e)
  /\ \A m \in Ids : Answers(m)
  /\ job.at # "idle" => Works(event[job.message])

GroupInv == TypeOK /\ ClaimInv /\ AnswerInv

-----------------------------------------------------------------------------
(* Types and claims.                                                       *)

LEMMA CommitmentsAreTyped ==
  ASSUME TypeOK, NEW e \in Events
  PROVE  /\ \A state \in Open \cup {"silent", "committed", "held"} :
              Settle(e, state) \/ SettleIfAllowed(e, state)
                => commitment' \in [Events -> Commitment]
         /\ \A owner \in {"none", "direct", "ambient"}, started \in BOOLEAN :
              Take(e, owner, started) => commitment' \in [Events -> Commitment]
         /\ [commitment EXCEPT ![e].started = TRUE] \in [Events -> Commitment]
<1>1. commitment \in [Events -> Commitment] /\ commitment[e] \in Commitment
  BY DEF TypeOK
<1>2. ASSUME NEW state \in Open \cup {"silent", "committed", "held"}
      PROVE  [commitment EXCEPT ![e].state = state] \in [Events -> Commitment]
  <2>1. [commitment[e] EXCEPT !.state = state] \in Commitment
    BY <1>1, <1>2 DEF Commitment
  <2>q. QED BY <1>1, <2>1
<1>3. ASSUME NEW owner \in {"none", "direct", "ambient"}, NEW started \in BOOLEAN
      PROVE  [commitment EXCEPT ![e] = [owner |-> owner, started |-> started, state |-> "owned"]]
                \in [Events -> Commitment]
  <2>1. [owner |-> owner, started |-> started, state |-> "owned"] \in Commitment
    BY <1>3 DEF Commitment, Open
  <2>q. QED BY <1>1, <2>1
<1>4. [commitment EXCEPT ![e].started = TRUE] \in [Events -> Commitment]
  <2>1. [commitment[e] EXCEPT !.started = TRUE] \in Commitment
    BY <1>1 DEF Commitment
  <2>q. QED BY <1>1, <2>1
<1>q. QED BY <1>1, <1>2, <1>3, <1>4 DEF Settle, SettleIfAllowed, Take

LEMMA RowsAreTyped ==
  ASSUME TypeOK
  PROVE  /\ \A state \in Ended : Finished(state) \in Candidate
         /\ Rescheduled \in Candidate /\ Renewed \in Candidate
         /\ \A n \in 0..MaxMessages, due \in BOOLEAN : HandedOver(n, due) \in Candidate
<1>1. \A state \in Ended : Finished(state) \in Candidate
  BY DEF TypeOK, Candidate, Finished
<1>2. Rescheduled \in Candidate /\ Renewed \in Candidate
  BY DEF TypeOK, Candidate, Rescheduled, Renewed
<1>3. \A n \in 0..MaxMessages, due \in BOOLEAN : HandedOver(n, due) \in Candidate
  <2> SUFFICES ASSUME NEW n \in 0..MaxMessages, NEW due \in BOOLEAN
               PROVE  HandedOver(n, due) \in Candidate
    OBVIOUS
  <2>1. Pending(n, due) \in Candidate
    BY DEF Pending, Candidate
  <2>2. Finished("cancelled") \in Candidate
    BY <1>1 DEF Ended
  <2>3. CASE IsCurrent /\ ~row.old
    BY <2>1, <2>3 DEF HandedOver
  <2>4. CASE ~(IsCurrent /\ ~row.old)
    BY <2>2, <2>4 DEF HandedOver
  <2>q. QED BY <2>3, <2>4
<1>q. QED BY <1>1, <1>2, <1>3

(* What ends, moves or renews a row keeps its message in range.            *)
LEMMA RowsAreInRange ==
  ASSUME TypeOK, ClaimInv, job.at # "idle"
  PROVE  /\ \A state \in Ended : Finished(state).state # "absent" => Finished(state).latest \in Ids
         /\ Rescheduled.state # "absent" => Rescheduled.latest \in Ids
         /\ Renewed.state # "absent" => Renewed.latest \in Ids
         /\ Renewed.state = row.state /\ Renewed.latest = row.latest
         /\ \A n \in Ids, due \in BOOLEAN :
              HandedOver(n, due).state # "absent" => HandedOver(n, due).latest \in Ids
         /\ job.message \in Ids
         /\ \A n \in (job.message + 1)..recorded : n \in Ids
<1>1. job.message \in Ids /\ (row.state # "absent" => row.latest \in Ids)
  BY DEF ClaimInv
<1>2. \A state \in Ended : Finished(state).state # "absent" => Finished(state).latest \in Ids
  BY <1>1 DEF TypeOK, Candidate, Finished
<1>3. Rescheduled.state # "absent" => Rescheduled.latest \in Ids
  BY <1>1 DEF TypeOK, Candidate, Rescheduled
<1>4. /\ Renewed.state # "absent" => Renewed.latest \in Ids
      /\ Renewed.state = row.state /\ Renewed.latest = row.latest
  BY <1>1 DEF TypeOK, Candidate, Renewed
<1>5. \A n \in Ids, due \in BOOLEAN :
        HandedOver(n, due).state # "absent" => HandedOver(n, due).latest \in Ids
  BY <1>2 DEF HandedOver, Pending, Ended
<1>6. \A n \in (job.message + 1)..recorded : n \in Ids
  BY <1>1 DEF TypeOK, Ids
<1>q. QED BY <1>1, <1>2, <1>3, <1>4, <1>5, <1>6

LEMMA TopicKeepsRows ==
  ASSUME TypeOK, ClaimInv, job.at # "idle", TopicMovesOn
  PROVE  row' \in Candidate /\ (row'.state # "absent" => row'.latest \in Ids)
<1>1. CASE row' = Finished("cancelled")
  BY <1>1, RowsAreTyped, RowsAreInRange DEF Ended
<1>2. CASE \E n \in (job.message + 1)..recorded, due \in BOOLEAN : row' = HandedOver(n, due)
  BY <1>2, RowsAreTyped, RowsAreInRange DEF Ids
<1>q. QED BY <1>1, <1>2 DEF TopicMovesOn

LEMMA JobsAreTyped ==
  ASSUME TypeOK
  PROVE  /\ Idle \in Job
         /\ \A from, to : WorkerGoes(from, to)
              => \/ job.at = from /\ job' = [job EXCEPT !.at = to]
         /\ \A to \in {"idle", "preflight", "load", "claim", "refused", "research", "queued", "raised"}
                      \cup BeforeQueue :
              [job EXCEPT !.at = to] \in Job
BY DEF TypeOK, Job, Idle, WorkerGoes, BeforeQueue

LEMMA TypeInit ==
  GroupInit => GroupInv
PROOF
<1> SUFFICES ASSUME GroupInit PROVE GroupInv
  OBVIOUS
<1>1. TypeOK
  BY DEF GroupInit, TypeOK, Handler, Candidate, Job, Idle, Commitment, Unowned, Open
<1>2. ClaimInv
  BY DEF GroupInit, ClaimInv, Idle
<1>3. AnswerInv
  <2>1. \A e \in Events : Ledger(e)
    BY DEF GroupInit, Ledger, Unowned
  <2>2. \A m \in Ids : Answers(m)
    BY DEF GroupInit, Answers, Answering, BeforeDirect
  <2>q. QED BY <2>1, <2>2 DEF AnswerInv, GroupInit, Idle
<1>q. QED BY <1>1, <1>2, <1>3 DEF GroupInv

LEMMA HandlersKeepTypes ==
  ASSUME GroupInv, NEW m \in Ids, HandlerStep(m)
  PROVE  TypeOK' /\ ClaimInv'
<1> USE DEF GroupInv
<1>e. event[m] \in Events
  BY DEF TypeOK
<1>h. \A to \in Handler : [handler EXCEPT ![m] = to] \in [Ids -> Handler]
  BY DEF TypeOK
<1>c. ASSUME NEW from, NEW to \in Handler, HandlerGoes(m, from, to),
             commitment' \in [Events -> Commitment], outbox' \subseteq Events,
             planned' \in [Events -> Nat]
      PROVE  TypeOK' /\ ClaimInv'
  BY <1>c, <1>h DEF HandlerGoes, TypeOK, ClaimInv
<1>p. commitment \in [Events -> Commitment] /\ outbox \subseteq Events /\ planned \in [Events -> Nat]
  BY DEF TypeOK
<1>1. CASE Receive(m)
  <2>1. CASE Enqueue(m) /\ handler' = [handler EXCEPT ![m] = "deferring"]
    <3>1. row' \in Candidate /\ (row'.state # "absent" => row'.latest \in Ids)
      <4>1. CASE UNCHANGED row
        BY <4>1 DEF TypeOK, ClaimInv
      <4>2. CASE \E due \in BOOLEAN : row' = Pending(m, due)
        BY <4>2 DEF Pending, Candidate, Ids
      <4>q. QED BY <2>1, <4>1, <4>2 DEF Enqueue
    <3>2. job' \in Job /\ job'.at = job.at /\ job'.message = job.message
      BY <2>1 DEF Enqueue, TypeOK, Job
    <3>3. (job'.at = "idle" => job' = Idle) /\ (job'.ours => row' = row /\ job' = job)
      BY <2>1 DEF Enqueue, TypeOK, Job, ClaimInv, Idle
    <3>4. handler' \in [Ids -> Handler] /\ recorded' \in 0..MaxMessages
      BY <2>1, <1>1, <1>h DEF Handler, Receive, Ids
    <3>q. QED BY <1>1, <3>1, <3>2, <3>3, <3>4 DEF Receive, TypeOK, ClaimInv
  <2>2. CASE \E to \in {"owning", "done"} : /\ handler' = [handler EXCEPT ![m] = to]
                                           /\ UNCHANGED <<row, job>>
    <3>1. handler' \in [Ids -> Handler] /\ recorded' \in 0..MaxMessages
      BY <2>2, <1>1, <1>h DEF Handler, Receive, Ids
    <3>q. QED BY <1>1, <2>2, <3>1 DEF Receive, TypeOK, ClaimInv
  <2>q. QED BY <1>1, <2>1, <2>2 DEF Receive
<1>2. CASE OwnDeferred(m)
  BY <1>2, <1>c, <1>e, <1>p, CommitmentsAreTyped DEF OwnDeferred, Handler
<1>3. CASE OwnDirect(m)
  BY <1>3, <1>c, <1>e, <1>p, CommitmentsAreTyped DEF OwnDirect, Handler, Answering
<1>4. CASE AlreadyOwned(m)
  BY <1>4, <1>c, <1>p DEF AlreadyOwned, Handler
<1>5. CASE Observe(m)
  BY <1>5, <1>c, <1>p DEF Observe, Handler
<1>6. CASE PlanDirect(m)
  <2>1. planned' \in [Events -> Nat]
    BY <1>6, <1>e, <1>p DEF PlanDirect
  <2>q. QED BY <1>6, <2>1, <1>c, <1>e, <1>p, CommitmentsAreTyped
            DEF PlanDirect, Handler, Answering
<1>7. CASE Conclude(m)
  <2>1. commitment' \in [Events -> Commitment]
    BY <1>7, <1>e, CommitmentsAreTyped DEF Conclude, Open
  <2>2. \E to \in Handler : HandlerGoes(m, "concluding", to)
    BY <1>7 DEF Conclude, Handler, Answering
  <2>q. QED BY <1>7, <2>1, <2>2, <1>c, <1>p DEF Conclude
<1>8. CASE QueueDirect(m)
  BY <1>8, <1>c, <1>e, <1>p DEF QueueDirect, Handler, Answering
<1>9. CASE QueueRefused(m)
  BY <1>9, <1>c, <1>p DEF QueueRefused, Handler
<1>10. CASE BindDirect(m)
  BY <1>10, <1>c, <1>e, <1>p, CommitmentsAreTyped DEF BindDirect, Handler
<1>11. CASE HandlerRaises(m)
  BY <1>11, <1>c, <1>e, <1>p, CommitmentsAreTyped DEF HandlerRaises, Handler
<1>12. CASE HandlerFails(m)
  BY <1>12, <1>c, <1>p DEF HandlerFails, Handler
<1>q. QED BY <1>1, <1>2, <1>3, <1>4, <1>5, <1>6, <1>7, <1>8, <1>9, <1>10, <1>11, <1>12
          DEF HandlerStep

(* A step of the worker that leaves a row of the right kind.               *)
LEMMA WorkersKeepTypes ==
  ASSUME GroupInv, WorkerStep
  PROVE  TypeOK' /\ ClaimInv'
<1> USE DEF GroupInv
<1> DEFINE Fits(r) == r \in Candidate /\ (r.state # "absent" => r.latest \in Ids)
<1>p. /\ commitment \in [Events -> Commitment] /\ outbox \subseteq Events
      /\ planned \in [Events -> Nat]
  BY DEF TypeOK
<1>m. /\ Fits(row)
      /\ job.at # "idle" => job.message \in Ids /\ event[job.message] \in Events
  BY DEF TypeOK, ClaimInv
<1>f. job.at # "idle" =>
        /\ \A state \in Ended : Fits(Finished(state))
        /\ Fits(Rescheduled) /\ Fits(Renewed)
        /\ Renewed.state = row.state /\ Renewed.latest = row.latest
        /\ \A due \in BOOLEAN : Fits(HandedOver(job.message, due))
        /\ TopicMovesOn => Fits(row')
  BY RowsAreTyped, RowsAreInRange, TopicKeepsRows DEF Ids
<1> HIDE DEF Fits
<1>l. ASSUME job' = Idle, Fits(row'), UNCHANGED OutsideOfTheWorker,
             commitment' \in [Events -> Commitment], outbox' \subseteq Events,
             planned' \in [Events -> Nat]
      PROVE  TypeOK' /\ ClaimInv'
  BY <1>l, JobsAreTyped DEF Fits, Idle, TypeOK, ClaimInv, OutsideOfTheWorker
<1>g. ASSUME job.at # "idle", job'.at # "idle", job' \in Job, job'.message = job.message,
             job'.ours = job.ours, Fits(row'), row'.state = row.state, row'.latest = row.latest,
             UNCHANGED OutsideOfTheWorker,
             commitment' \in [Events -> Commitment], outbox' \subseteq Events,
             planned' \in [Events -> Nat]
      PROVE  TypeOK' /\ ClaimInv'
  BY <1>g DEF Fits, TypeOK, ClaimInv, OutsideOfTheWorker
<1>s. ASSUME NEW from \in {"preflight", "load", "claim", "refused", "research", "queued", "raised"}
                         \cup BeforeQueue,
             NEW to \in {"preflight", "load", "claim", "refused", "research", "queued", "raised"}
                       \cup BeforeQueue,
             WorkerGoes(from, to)
      PROVE  /\ job.at # "idle" /\ job'.at # "idle" /\ job' \in Job
             /\ job'.message = job.message /\ job'.ours = job.ours
  BY <1>s DEF WorkerGoes, TypeOK, Job, BeforeQueue
<1>r. ASSUME PlanOrRefuse(event[job.message]), job.at # "idle"
      PROVE  /\ job'.at # "idle" /\ job' \in Job
             /\ job'.message = job.message /\ job'.ours = job.ours
             /\ commitment' \in [Events -> Commitment]
  <2>1. \A to \in {"research", "refused"} :
          job' = [job EXCEPT !.at = to, !.bound = TRUE] =>
            /\ job'.at # "idle" /\ job' \in Job
            /\ job'.message = job.message /\ job'.ours = job.ours
    BY DEF TypeOK, Job
  <2>2. commitment' \in [Events -> Commitment]
    BY <1>r, <1>m, <1>p, CommitmentsAreTyped DEF PlanOrRefuse
  <2>q. QED BY <1>r, <2>1, <2>2 DEF PlanOrRefuse
<1>1. CASE ClaimDue
  <2>0. OneMore \in 0..3
    BY DEF TypeOK, Candidate, OneMore
  <2>1. Fits(row') /\ row'.state = "claimed" /\ row'.latest = row.latest /\ row'.latest \in Ids
    <3>1. row.state # "absent" /\ row.latest \in Ids /\ row \in Candidate
      BY <1>1, <1>m DEF ClaimDue, Claimable, Fits
    <3>q. QED BY <1>1, <2>0, <3>1 DEF ClaimDue, Candidate, Fits
  <2>2. job' \in Job /\ job'.at # "idle" /\ job'.message = row.latest
    <3>1. row.latest \in 0..MaxMessages
      BY DEF TypeOK, Candidate
    <3>q. QED BY <1>1, <2>0, <3>1 DEF ClaimDue, Job
  <2>q. QED BY <1>1, <2>1, <2>2 DEF ClaimDue, TypeOK, ClaimInv, Fits
<1>2. CASE DropOld
  <2>1. Fits(row')
    BY <1>2, <1>m DEF DropOld, Claimable, Candidate, Ended, Fits
  <2>q. QED BY <1>2, <2>1, <1>l, <1>p DEF DropOld, OutsideOfTheWorker
<1>3. CASE PreflightPasses
  BY <1>3, <1>g, <1>s, <1>f, <1>m, <1>p DEF PreflightPasses, BeforeQueue
<1>4. CASE PreflightEnds
  BY <1>4, <1>l, <1>f, <1>m, <1>p, CommitmentsAreTyped DEF PreflightEnds, WorkerLeaves, Ended, Open
<1>5. CASE LoadCommitment
  <2>1. CASE PlanOrRefuse(event[job.message])
    BY <1>5, <2>1, <1>g, <1>r, <1>m, <1>p DEF LoadCommitment
  <2>2. CASE WorkerGoes("load", "claim") /\ UNCHANGED commitment
    BY <1>5, <2>2, <1>g, <1>s, <1>m, <1>p DEF LoadCommitment
  <2>q. QED BY <1>5, <2>1, <2>2 DEF LoadCommitment
<1>6. CASE ClaimCommitment
  <2>1. CASE PlanOrRefuse(event[job.message])
    BY <1>6, <2>1, <1>g, <1>r, <1>m, <1>p DEF ClaimCommitment
  <2>2. CASE WorkerGoes("claim", "raised") /\ UNCHANGED commitment
    BY <1>6, <2>2, <1>g, <1>s, <1>m, <1>p DEF ClaimCommitment
  <2>3. CASE /\ job' = [job EXCEPT !.at = "research", !.bound = TRUE]
             /\ Take(event[job.message], "ambient", TRUE)
    <3>1. job' \in Job /\ job'.at # "idle" /\ job'.message = job.message /\ job'.ours = job.ours
      BY <2>3 DEF TypeOK, Job
    <3>2. commitment' \in [Events -> Commitment]
      BY <2>3, <1>6, <1>m, CommitmentsAreTyped DEF ClaimCommitment
    <3>q. QED BY <1>6, <3>1, <3>2, <1>g, <1>m, <1>p DEF ClaimCommitment
  <2>q. QED BY <1>6, <2>1, <2>2, <2>3 DEF ClaimCommitment
<1>7. CASE Refuse
  BY <1>7, <1>l, <1>f, <1>m, <1>p, CommitmentsAreTyped DEF Refuse, HoldIfAmbient, WorkerLeaves, Ended, Open
<1>8. CASE StaySilent
  BY <1>8, <1>l, <1>f, <1>m, <1>p, CommitmentsAreTyped DEF StaySilent, WorkerLeaves, Ended, Open
<1>9. CASE CallModel
  BY <1>9, <1>g, <1>s, <1>f, <1>m, <1>p DEF CallModel, BeforeQueue
<1>10. CASE StillCurrent
  BY <1>10, <1>g, <1>s, <1>f, <1>m, <1>p DEF StillCurrent, BeforeQueue
<1>11. CASE CandidateFenceFails
  BY <1>11, <1>l, <1>f, <1>m, <1>p, CommitmentsAreTyped DEF CandidateFenceFails, WorkerLeaves, Ended, Open
<1>12. CASE ApprovedFencePasses
  BY <1>12, <1>g, <1>s, <1>f, <1>m, <1>p DEF ApprovedFencePasses, BeforeQueue, Onward
<1>13. CASE ApprovedFenceFails
  BY <1>13, <1>l, <1>f, <1>m, <1>p, CommitmentsAreTyped DEF ApprovedFenceFails, WorkerLeaves, Ended, Open, Onward, BeforeQueue
<1>14. CASE QueueReply
  BY <1>14, <1>g, <1>s, <1>f, <1>m, <1>p DEF QueueReply, BeforeQueue
<1>15. CASE CommitReply
  BY <1>15, <1>l, <1>f, <1>m, <1>p, CommitmentsAreTyped DEF CommitReply, WorkerLeaves, Ended, Open, SettleAfterFence
<1>16. CASE CloseBlocked
  BY <1>16, <1>l, <1>f, <1>m, <1>p, CommitmentsAreTyped DEF CloseBlocked, WorkerLeaves, Ended, Open, SettleAfterFence
<1>17. CASE WorkerRaises
  <2>1. /\ job.at # "idle" /\ job'.at # "idle" /\ job' \in Job
        /\ job'.message = job.message /\ job'.ours = job.ours
    BY <1>17 DEF WorkerRaises, TypeOK, Job
  <2>q. QED BY <1>17, <2>1, <1>g, <1>m, <1>p DEF WorkerRaises
<1>18. CASE HandleException
  BY <1>18, <1>l, <1>f, <1>m, <1>p, CommitmentsAreTyped DEF HandleException, HoldIfAmbient, WorkerLeaves, Ended, Open
<1>q. QED BY <1>1, <1>2, <1>3, <1>4, <1>5, <1>6, <1>7, <1>8, <1>9, <1>10, <1>11, <1>12, <1>13, <1>14, <1>15, <1>16, <1>17, <1>18 DEF WorkerStep

LEMMA TypesAndClaims ==
  ASSUME GroupInv, [GroupNext]_groupVars
  PROVE  TypeOK' /\ ClaimInv'
<1> USE DEF GroupInv
<1>1. ASSUME NEW m \in Ids, HandlerStep(m) PROVE TypeOK' /\ ClaimInv'
  BY <1>1, HandlersKeepTypes
<1>2. CASE WorkerStep
  BY <1>2, WorkersKeepTypes
<1>3. CASE TimePasses
  <2>1. row' \in Candidate /\ row'.state = row.state /\ row'.latest = row.latest
    BY <1>3 DEF TimePasses, FallsDue, LeaseExpires, GrowsOld, TypeOK, Candidate
  <2>q. QED BY <1>3, <2>1
            DEF TimePasses, FallsDue, LeaseExpires, GrowsOld, OutsideOfTime, TypeOK, ClaimInv
<1>4. CASE Restart
  <2>1. handler' \in [Ids -> Handler] /\ restarts' \in 0..MaxRestarts
    BY <1>4 DEF Restart, TypeOK, Handler
  <2>q. QED BY <1>4, <2>1, JobsAreTyped DEF Restart, TypeOK, ClaimInv, Idle
<1>5. CASE UNCHANGED groupVars
  BY <1>5 DEF groupVars, TypeOK, ClaimInv
<1>q. QED BY <1>1, <1>2, <1>3, <1>4, <1>5 DEF GroupNext

-----------------------------------------------------------------------------
(* Commitments.                                                            *)

(* Only the state of one commitment is settled, if at all.                 *)
LEMMA SettlementIsLocal ==
  ASSUME TypeOK, NEW e \in Events, NEW state, Settle(e, state) \/ SettleIfAllowed(e, state)
  PROVE  \A x \in Events :
           /\ commitment'[x].owner = commitment[x].owner
           /\ commitment'[x].started = commitment[x].started
           /\ \/ commitment'[x] = commitment[x]
              \/ x = e /\ commitment'[x].state = state
BY DEF TypeOK, Commitment, Settle, SettleIfAllowed

LEMMA TakingIsLocal ==
  ASSUME TypeOK, NEW e \in Events, NEW owner, NEW started, Take(e, owner, started)
  PROVE  \A x \in Events :
           commitment'[x] = IF x = e THEN [owner |-> owner, started |-> started, state |-> "owned"]
                                     ELSE commitment[x]
BY DEF TypeOK, Take

LEMMA BeginningIsLocal ==
  ASSUME TypeOK, NEW e \in Events, commitment' = [commitment EXCEPT ![e].started = TRUE]
  PROVE  \A x \in Events :
           /\ x # e => commitment'[x] = commitment[x]
           /\ commitment'[x].owner = commitment[x].owner
           /\ commitment'[x].state = commitment[x].state
           /\ x = e => commitment'[x].started
BY DEF TypeOK, Commitment

(* A thread of an HTTP request keeps to its message.                       *)
LEMMA GoingIsLocal ==
  ASSUME TypeOK, NEW m \in Ids, NEW from, NEW to, HandlerGoes(m, from, to)
  PROVE  /\ handler[m] = from
         /\ \A n \in Ids : handler'[n] = IF n = m THEN to ELSE handler[n]
         /\ event' = event /\ job' = job
BY DEF TypeOK, HandlerGoes

LEMMA HandlersKeepAnswers ==
  ASSUME GroupInv, NEW m \in Ids, HandlerStep(m)
  PROVE  AnswerInv'
<1> USE DEF GroupInv
<1>e. \A n \in Ids : event[n] \in Events
  BY DEF TypeOK
<1>i. /\ \A x \in Events : Ledger(x)
      /\ \A n \in Ids : Answers(n)
      /\ job.at # "idle" => job.message \in Ids /\ Works(event[job.message])
      /\ TypeOK
  BY DEF AnswerInv, ClaimInv
<1> HIDE DEF GroupInv
<1>t. ASSUME \A x \in Events : Ledger(x)', \A n \in Ids : Answers(n)',
             job'.at # "idle" => Works(event[job.message])'
      PROVE  AnswerInv'
  BY <1>t DEF AnswerInv
<1>1. CASE Receive(m)
  <2>1. \E to \in {"deferring", "owning", "done"} : handler' = [handler EXCEPT ![m] = to]
    BY <1>1 DEF Receive
  <2>2. \A n \in Ids : handler'[n] = handler[n] \/ handler'[n] \in {"deferring", "owning", "done"}
    BY <2>1 DEF TypeOK
  <2>3. job'.at = job.at /\ job'.message = job.message /\ job'.bound = job.bound
    BY <1>1, <1>i DEF Receive, Enqueue, TypeOK, Job
  <2>4. UNCHANGED <<event, commitment, outbox, planned>>
    BY <1>1 DEF Receive
  <2>5. \A x \in Events : Ledger(x)'
    BY <1>i, <2>4 DEF Ledger
  <2>6. \A n \in Ids : Answers(n)'
    BY <1>i, <2>2, <2>4 DEF Answers, Answering, BeforeDirect
  <2>7. job'.at # "idle" => Works(event[job.message])'
    BY <1>i, <2>3, <2>4 DEF Works
  <2>q. QED BY <1>t, <2>5, <2>6, <2>7
<1>2. CASE OwnDeferred(m)
  <2>1. HandlerGoes(m, "deferring", "observing")
    BY <1>2 DEF OwnDeferred
  <2>2. /\ commitment[event[m]] = Unowned
        /\ \A x \in Events :
             commitment'[x] = IF x = event[m]
                              THEN [owner |-> "ambient", started |-> FALSE, state |-> "owned"]
                              ELSE commitment[x]
    BY <1>2, <1>e, <1>i, TakingIsLocal DEF OwnDeferred
  <2>3. UNCHANGED <<event, job, outbox, planned>>
    BY <1>2, <2>1 DEF OwnDeferred, HandlerGoes
  <2>4. /\ handler[m] = "deferring"
        /\ \A n \in Ids : handler'[n] = IF n = m THEN "observing" ELSE handler[n]
    BY <1>i, <2>1, GoingIsLocal
  <2>5. \A x \in Events : Ledger(x)'
    BY <1>e, <1>i, <2>1, <2>2, <2>3, <2>4 DEF Ledger, Answers, Answering, BeforeDirect, Unowned
  <2>6. \A n \in Ids : Answers(n)'
    BY <1>e, <1>i, <2>1, <2>2, <2>3, <2>4 DEF Ledger, Answers, Answering, BeforeDirect, Unowned
  <2>7. job'.at # "idle" => Works(event[job.message])'
    BY <1>e, <1>i, <2>1, <2>2, <2>3, <2>4 DEF Works, Answers, Answering, BeforeDirect, Unowned, BeforeQueue
  <2>q. QED BY <1>t, <2>5, <2>6, <2>7
<1>3. CASE OwnDirect(m)
  <2>1. HandlerGoes(m, "owning", "planning")
    BY <1>3 DEF OwnDirect
  <2>2. /\ commitment[event[m]] = Unowned
        /\ \A x \in Events :
             commitment'[x] = IF x = event[m]
                              THEN [owner |-> "direct", started |-> FALSE, state |-> "owned"]
                              ELSE commitment[x]
    BY <1>3, <1>e, <1>i, TakingIsLocal DEF OwnDirect
  <2>3. UNCHANGED <<event, job, outbox, planned>>
    BY <1>3, <2>1 DEF OwnDirect, HandlerGoes
  <2>4. /\ handler[m] = "owning"
        /\ \A n \in Ids : handler'[n] = IF n = m THEN "planning" ELSE handler[n]
    BY <1>i, <2>1, GoingIsLocal
  <2>5. \A x \in Events : Ledger(x)'
    BY <1>e, <1>i, <2>1, <2>2, <2>3, <2>4 DEF Ledger, Answers, Answering, BeforeDirect, Unowned
  <2>6. \A n \in Ids : Answers(n)'
    BY <1>e, <1>i, <2>1, <2>2, <2>3, <2>4 DEF Ledger, Answers, Answering, BeforeDirect, Unowned
  <2>7. job'.at # "idle" => Works(event[job.message])'
    BY <1>e, <1>i, <2>1, <2>2, <2>3, <2>4 DEF Works, Answers, Answering, BeforeDirect, Unowned, BeforeQueue
  <2>q. QED BY <1>t, <2>5, <2>6, <2>7
<1>4. CASE AlreadyOwned(m) \/ Observe(m) \/ QueueRefused(m) \/ HandlerFails(m)
  <2>1. UNCHANGED <<event, job, commitment, outbox, planned>>
    BY <1>4 DEF AlreadyOwned, Observe, QueueRefused, HandlerFails, HandlerGoes
  <2>2. \E from : HandlerGoes(m, from, "done")
    BY <1>4 DEF AlreadyOwned, Observe, QueueRefused, HandlerFails
  <2>3. \A n \in Ids : handler'[n] = IF n = m THEN "done" ELSE handler[n]
    BY <1>i, <2>2, GoingIsLocal
  <2>5. \A x \in Events : Ledger(x)'
    BY <1>i, <2>1 DEF Ledger
  <2>6. \A n \in Ids : Answers(n)'
    BY <1>i, <2>1, <2>3 DEF Answers, Answering, BeforeDirect
  <2>7. job'.at # "idle" => Works(event[job.message])'
    BY <1>i, <2>1 DEF Works
  <2>q. QED BY <1>t, <2>5, <2>6, <2>7
<1>5. CASE PlanDirect(m)
  <2>1. HandlerGoes(m, "planning", "concluding")
    BY <1>5 DEF PlanDirect
  <2>2. \A x \in Events :
          /\ x # event[m] => commitment'[x] = commitment[x]
          /\ commitment'[x].owner = commitment[x].owner
          /\ commitment'[x].state = commitment[x].state
          /\ x = event[m] => commitment'[x].started
    BY <1>5, <1>e, <1>i, BeginningIsLocal DEF PlanDirect
  <2>p. \A x \in Events : planned'[x] = IF x = event[m] THEN planned[x] + 1 ELSE planned[x]
    BY <1>5, <1>e, <1>i DEF PlanDirect, TypeOK
  <2>3. UNCHANGED <<event, job, outbox>>
    BY <1>5, <2>1 DEF PlanDirect, HandlerGoes
  <2>4. /\ handler[m] = "planning"
        /\ \A n \in Ids : handler'[n] = IF n = m THEN "concluding" ELSE handler[n]
    BY <1>i, <2>1, GoingIsLocal
  <2>t. /\ commitment[event[m]].owner = "direct" /\ ~commitment[event[m]].started
        /\ event[m] \notin outbox /\ commitment[event[m]].state # "silent"
        /\ planned[event[m]] = 0
    BY <1>e, <1>i, <2>4 DEF Answers, Answering, BeforeDirect, Ledger
  <2>5. \A x \in Events : Ledger(x)'
    <3> TAKE x \in Events
    <3>1. CASE x = event[m]
      BY <1>e, <1>i, <2>2, <2>p, <2>3, <2>t, <3>1 DEF Ledger
    <3>2. CASE x # event[m]
      BY <1>e, <1>i, <2>2, <2>p, <2>3, <3>2 DEF Ledger
    <3>q. QED BY <3>1, <3>2
  <2>6. \A n \in Ids : Answers(n)'
    <3> TAKE n \in Ids
    <3>1. CASE n = m
      BY <1>e, <1>i, <2>2, <2>p, <2>3, <2>4, <2>t, <3>1 DEF Answers, Answering, BeforeDirect
    <3>2. CASE n # m
      BY <1>e, <1>i, <2>2, <2>p, <2>3, <2>4, <2>t, <3>2 DEF Answers, Answering, BeforeDirect
    <3>q. QED BY <3>1, <3>2
  <2>7. job'.at # "idle" => Works(event[job.message])'
    BY <1>e, <1>i, <2>2, <2>p, <2>3, <2>t DEF Works, BeforeQueue
  <2>q. QED BY <1>t, <2>5, <2>6, <2>7
<1>s. ASSUME NEW from \in {"observing", "planning", "concluding", "queueing", "binding"},
             NEW to \in {"queueing", "done"}, HandlerGoes(m, from, to),
             to = "queueing" => from = "concluding",
             NEW state \in {"silent", "planned", "held", "committed"},
             SettleIfAllowed(event[m], state),
             state = "silent" => from = "concluding" /\ to = "done",
             state = "committed" => from = "binding",
             UNCHANGED <<outbox, planned>>
      PROVE  AnswerInv'
  <2>1. \A x \in Events :
          /\ commitment'[x].owner = commitment[x].owner
          /\ commitment'[x].started = commitment[x].started
          /\ \/ commitment'[x] = commitment[x]
             \/ x = event[m] /\ commitment'[x].state = state
    BY <1>s, <1>e, <1>i, SettlementIsLocal
  <2>2. /\ handler[m] = from /\ event' = event /\ job' = job
        /\ \A n \in Ids : handler'[n] = IF n = m THEN to ELSE handler[n]
    BY <1>s, <1>i, GoingIsLocal
  <2>3. /\ commitment[event[m]].owner # "none"
        /\ from # "observing" => commitment[event[m]].owner = "direct"
        /\ state = "silent" => event[m] \notin outbox
        /\ state = "committed" => event[m] \in outbox
    BY <1>s, <1>i, <2>2 DEF Answers, Answering, BeforeDirect
  <2>5. \A x \in Events : Ledger(x)'
    BY <1>s, <1>e, <1>i, <2>1, <2>3 DEF Ledger
  <2>6. \A n \in Ids : Answers(n)'
    <3> TAKE n \in Ids
    <3>1. CASE n = m
      BY <1>s, <1>e, <1>i, <2>1, <2>2, <3>1 DEF Answers, Answering, BeforeDirect
    <3>2. CASE n # m
      BY <1>s, <1>e, <1>i, <2>1, <2>2, <2>3, <3>2 DEF Answers, Answering, BeforeDirect
    <3>q. QED BY <3>1, <3>2
  <2>7. job'.at # "idle" => Works(event[job.message])'
    BY <1>s, <1>e, <1>i, <2>1, <2>2, <2>3 DEF Works, BeforeQueue
  <2>q. QED BY <1>t, <2>5, <2>6, <2>7
<1>6. CASE Conclude(m)
  BY <1>6, <1>s DEF Conclude
<1>7. CASE BindDirect(m)
  BY <1>7, <1>s DEF BindDirect
<1>8. CASE HandlerRaises(m)
  BY <1>8, <1>s DEF HandlerRaises
<1>9. CASE QueueDirect(m)
  <2>1. HandlerGoes(m, "queueing", "binding")
    BY <1>9 DEF QueueDirect
  <2>2. outbox' = outbox \cup {event[m]}
    BY <1>9, <1>e, <1>i DEF QueueDirect
  <2>3. UNCHANGED <<event, job, commitment, planned>>
    BY <1>9, <2>1 DEF QueueDirect, HandlerGoes
  <2>4. /\ handler[m] = "queueing"
        /\ \A n \in Ids : handler'[n] = IF n = m THEN "binding" ELSE handler[n]
    BY <1>i, <2>1, GoingIsLocal
  <2>5. \A x \in Events : Ledger(x)'
    BY <1>e, <1>i, <2>1, <2>2, <2>3, <2>4 DEF Ledger, Answers, Answering, BeforeDirect, Unowned
  <2>6. \A n \in Ids : Answers(n)'
    BY <1>e, <1>i, <2>1, <2>2, <2>3, <2>4 DEF Ledger, Answers, Answering, BeforeDirect, Unowned
  <2>7. job'.at # "idle" => Works(event[job.message])'
    BY <1>e, <1>i, <2>1, <2>2, <2>3, <2>4 DEF Works, Answers, Answering, BeforeDirect, Unowned, BeforeQueue
  <2>q. QED BY <1>t, <2>5, <2>6, <2>7
<1>q. QED BY <1>1, <1>2, <1>3, <1>4, <1>5, <1>6, <1>7, <1>8, <1>9 DEF HandlerStep

LEMMA WorkersKeepAnswers ==
  ASSUME GroupInv, WorkerStep
  PROVE  AnswerInv'
<1> USE DEF GroupInv
<1>i. /\ \A x \in Events : Ledger(x)
      /\ \A n \in Ids : Answers(n) /\ event[n] \in Events
      /\ job.at # "idle" =>
           job.message \in Ids /\ event[job.message] \in Events /\ Works(event[job.message])
      /\ TypeOK
  BY DEF AnswerInv, ClaimInv, TypeOK
<1>g. \A from, to : WorkerGoes(from, to) =>
        job.at = from /\ job'.at = to /\ job'.message = job.message /\ job'.bound = job.bound
  BY DEF WorkerGoes, TypeOK, Job
<1> HIDE DEF GroupInv
<1>o. UNCHANGED OutsideOfTheWorker => event' = event /\ handler' = handler
  BY DEF OutsideOfTheWorker
<1>t. ASSUME \A x \in Events : Ledger(x)', \A n \in Ids : Answers(n)',
             job'.at # "idle" => Works(event[job.message])'
      PROVE  AnswerInv'
  BY <1>t DEF AnswerInv
(* Steps that write nothing but the row.                                   *)
<1>n. ASSUME UNCHANGED <<event, handler, commitment, outbox, planned>>,
             job'.at # "idle" => Works(event[job.message])'
      PROVE  AnswerInv'
  <2>1. \A x \in Events : Ledger(x)'
    BY <1>n, <1>i DEF Ledger
  <2>2. \A n \in Ids : Answers(n)'
    BY <1>n, <1>i DEF Answers
  <2>q. QED BY <1>n, <1>t, <2>1, <2>2
(* Steps that settle the commitment, if anything, and leave.               *)
<1>s. ASSUME UNCHANGED <<event, handler, outbox, planned>>, job' = Idle,
             job.at \notin {"idle", "preflight", "load", "claim"},
             NEW state \in {"silent", "held", "committed"},
             Settle(event[job.message], state) \/ SettleIfAllowed(event[job.message], state),
             job.bound \/ commitment[event[job.message]].owner = "ambient",
             state = "silent" => job.at \in {"research"} \cup BeforeQueue,
             state = "committed" => job.at = "queued"
      PROVE  AnswerInv'
  <2> DEFINE e == event[job.message]
  <2>1. e \in Events /\ Works(e)
    BY <1>s, <1>i
  <2>2. \A x \in Events :
          /\ commitment'[x].owner = commitment[x].owner
          /\ commitment'[x].started = commitment[x].started
          /\ commitment'[x] = commitment[x] \/ (x = e /\ commitment'[x].state = state)
    BY <1>s, <1>i, <2>1, SettlementIsLocal
  <2>3. /\ commitment[e].owner # "none"
        /\ state = "silent" => e \notin outbox /\ commitment[e].owner = "ambient"
        /\ state = "committed" => e \in outbox
    BY <1>s, <2>1 DEF Works
  <2> HIDE DEF e
  <2>5. \A x \in Events : Ledger(x)'
    BY <1>s, <1>i, <2>1, <2>2, <2>3 DEF Ledger
  <2>6. \A n \in Ids : Answers(n)'
    BY <1>s, <1>i, <2>1, <2>2, <2>3 DEF Answers, Answering, BeforeDirect
  <2>q. QED BY <1>s, <1>t, <2>5, <2>6 DEF Idle
(* Steps that begin the plan.                                              *)
<1>b. ASSUME UNCHANGED <<event, handler, outbox, planned>>, job.at # "idle",
             job'.at = "research", job'.message = job.message,
             NEW e \in Events, e = event[job.message],
             commitment[e] = Unowned \/ Plannable(e),
             \A x \in Events : x # e => commitment'[x] = commitment[x],
             commitment'[e].owner = "ambient", commitment'[e].started,
             commitment'[e].state \in Open
      PROVE  AnswerInv'
  <2>1. /\ commitment[e].owner \in {"none", "ambient"} /\ ~commitment[e].started
        /\ commitment[e].state \in Open
    BY <1>b DEF Unowned, Plannable, Open
  <2>2. e \notin outbox /\ planned[e] = 0
    BY <1>b, <1>i, <2>1 DEF Ledger
  <2>3. commitment'[e].owner # "none" /\ commitment'[e].state \notin {"committed", "silent"}
    BY <1>b DEF Open
  <2>5. \A x \in Events : Ledger(x)'
    <3> TAKE x \in Events
    <3>1. CASE x = e
      BY <1>b, <2>2, <2>3, <3>1 DEF Ledger
    <3>2. CASE x # e
      BY <1>b, <1>i, <3>2 DEF Ledger
    <3>q. QED BY <3>1, <3>2
  <2>6. \A n \in Ids : Answers(n)'
    BY <1>b, <1>i, <2>1, <2>3 DEF Answers, Answering, BeforeDirect
  <2>7. Works(event[job.message])'
    BY <1>b, <2>2, <2>3 DEF Works, BeforeQueue
  <2>q. QED BY <1>t, <2>5, <2>6, <2>7
<1>r. ASSUME UNCHANGED <<event, handler, outbox, planned>>, job.at # "idle",
             NEW e \in Events, e = event[job.message], commitment[e] # Unowned, PlanOrRefuse(e)
      PROVE  AnswerInv'
  <2>1. CASE /\ Plannable(e)
             /\ job' = [job EXCEPT !.at = "research", !.bound = TRUE]
             /\ commitment' = [commitment EXCEPT ![e].started = TRUE]
    <3>1. job'.at = "research" /\ job'.message = job.message
      BY <1>i, <2>1 DEF TypeOK, Job
    <3>2. \A x \in Events :
            /\ x # e => commitment'[x] = commitment[x]
            /\ commitment'[x].owner = commitment[x].owner
            /\ commitment'[x].state = commitment[x].state
            /\ x = e => commitment'[x].started
      BY <1>i, <2>1, BeginningIsLocal
    <3>q. QED BY <1>r, <1>b, <2>1, <3>1, <3>2 DEF Plannable
  <2>2. CASE job' = [job EXCEPT !.at = "refused", !.bound = TRUE] /\ UNCHANGED commitment
    <3>1. job'.at = "refused" /\ job'.message = job.message
      BY <1>i, <2>2 DEF TypeOK, Job
    <3>2. commitment[e].owner # "none"
      BY <1>r, <1>i DEF Ledger
    <3>3. Works(event[job.message])'
      BY <1>r, <2>2, <3>1, <3>2 DEF Works, BeforeQueue
    <3>q. QED BY <1>r, <1>n, <2>2, <3>3
  <2>q. QED BY <1>r, <2>1, <2>2 DEF PlanOrRefuse
<1>1. CASE ClaimDue
  <2>1. job'.at = "preflight" /\ ~job'.bound
    BY <1>1 DEF ClaimDue
  <2>q. QED BY <1>1, <1>n, <2>1 DEF ClaimDue, Works, BeforeQueue
<1>2. CASE DropOld
  BY <1>2, <1>n DEF DropOld, Idle
<1>3. CASE PreflightPasses
  BY <1>3, <1>n, <1>o, <1>g, <1>i DEF PreflightPasses, Works, BeforeQueue
<1>4. CASE PreflightEnds \/ CandidateFenceFails \/ ApprovedFenceFails
  <2>1. job' = Idle /\ UNCHANGED <<event, handler, commitment, outbox, planned>>
    BY <1>4, <1>o DEF PreflightEnds, CandidateFenceFails, ApprovedFenceFails, WorkerLeaves
  <2>q. QED BY <1>n, <2>1 DEF Idle
<1>5. CASE LoadCommitment
  <2>1. CASE commitment[event[job.message]] # Unowned
    BY <1>5, <2>1, <1>r, <1>o, <1>i DEF LoadCommitment
  <2>2. CASE commitment[event[job.message]] = Unowned
    BY <1>5, <2>2, <1>n, <1>o, <1>g, <1>i DEF LoadCommitment, Works, BeforeQueue
  <2>q. QED BY <2>1, <2>2
<1>6. CASE ClaimCommitment
  <2>1. CASE commitment[event[job.message]] # Unowned /\ PlanOrRefuse(event[job.message])
    BY <1>6, <2>1, <1>r, <1>o, <1>i DEF ClaimCommitment
  <2>2. CASE WorkerGoes("claim", "raised") /\ UNCHANGED commitment
    BY <1>6, <2>2, <1>n, <1>o, <1>g, <1>i DEF ClaimCommitment, Works, BeforeQueue
  <2>3. CASE /\ commitment[event[job.message]] = Unowned
             /\ job' = [job EXCEPT !.at = "research", !.bound = TRUE]
             /\ Take(event[job.message], "ambient", TRUE)
    <3> DEFINE e == event[job.message]
    <3>1. job'.at = "research" /\ job'.message = job.message
      BY <1>i, <2>3 DEF TypeOK, Job
    <3>2. e \in Events /\ job.at # "idle"
      BY <1>6, <1>i DEF ClaimCommitment
    <3>3. \A x \in Events :
            commitment'[x] = IF x = e THEN [owner |-> "ambient", started |-> TRUE, state |-> "owned"]
                                      ELSE commitment[x]
      BY <1>i, <2>3, <3>2, TakingIsLocal
    <3>q. QED BY <1>6, <1>o, <1>b, <2>3, <3>1, <3>2, <3>3 DEF ClaimCommitment, Open
  <2>q. QED BY <1>6, <2>1, <2>2, <2>3 DEF ClaimCommitment
<1>7. CASE Refuse
  <2>1. CASE commitment[event[job.message]].owner = "ambient"
    BY <1>7, <2>1, <1>s, <1>o DEF Refuse, HoldIfAmbient, WorkerLeaves
  <2>2. CASE commitment[event[job.message]].owner # "ambient"
    BY <1>7, <2>2, <1>n, <1>o DEF Refuse, HoldIfAmbient, WorkerLeaves, Idle
  <2>q. QED BY <2>1, <2>2
<1>8. CASE StaySilent
  <2>1. job.at \in {"research"} \cup BeforeQueue /\ job.at \notin {"idle", "preflight", "load", "claim"}
    BY <1>8 DEF StaySilent, BeforeQueue
  <2>2. commitment[event[job.message]].owner = "ambient"
    BY <1>i, <2>1 DEF Works
  <2>q. QED BY <1>8, <2>1, <2>2, <1>s, <1>o DEF StaySilent
<1>9. CASE CallModel
  <2> DEFINE e == event[job.message]
  <2>1. /\ job.at = "research" /\ job'.at = "answered" /\ job'.message = job.message
        /\ job'.bound = job.bound /\ e \in Events /\ Works(e)
    BY <1>9, <1>g, <1>i DEF CallModel
  <2>2. UNCHANGED <<event, handler, commitment, outbox>>
    BY <1>9, <1>o DEF CallModel
  <2>3. \A x \in Events : planned'[x] = IF x = e THEN planned[x] + 1 ELSE planned[x]
    BY <1>9, <1>i, <2>1 DEF CallModel, TypeOK
  <2>5. \A x \in Events : Ledger(x)'
    BY <1>i, <2>1, <2>2, <2>3 DEF Ledger, Works
  <2>6. \A n \in Ids : Answers(n)'
    BY <1>i, <2>2 DEF Answers
  <2>7. Works(event[job.message])'
    BY <2>1, <2>2 DEF Works, BeforeQueue
  <2>q. QED BY <1>t, <2>5, <2>6, <2>7
<1>10. CASE StillCurrent
  BY <1>10, <1>n, <1>o, <1>g, <1>i DEF StillCurrent, Works, BeforeQueue
<1>11. CASE ApprovedFencePasses
  <2>1. PICK from \in DOMAIN Onward : \E to \in Onward[from] : WorkerGoes(from, to)
    BY <1>11 DEF ApprovedFencePasses
  <2>a. PICK to \in Onward[from] : WorkerGoes(from, to)
    BY <2>1
  <2>2. from \in BeforeQueue /\ to \in BeforeQueue \cup {"raised"}
    BY <2>1, <2>a DEF Onward, BeforeQueue
  <2>3. /\ job.at = from /\ job'.at = to /\ job'.message = job.message /\ job'.bound = job.bound
        /\ job.at # "idle" /\ Works(event[job.message])
        /\ UNCHANGED <<event, handler, commitment, outbox, planned>>
    BY <1>11, <1>g, <1>i, <1>o, <2>a, <2>2 DEF ApprovedFencePasses, BeforeQueue
  <2>4. Works(event[job.message])'
    BY <2>2, <2>3 DEF Works, BeforeQueue
  <2>q. QED BY <1>n, <2>3, <2>4
<1>12. CASE QueueReply
  <2> DEFINE e == event[job.message]
  <2>1. /\ job.at = "dispatch" /\ job'.at = "queued" /\ job'.message = job.message
        /\ job'.bound = job.bound /\ e \in Events /\ Works(e)
    BY <1>12, <1>g, <1>i DEF QueueReply
  <2>2. UNCHANGED <<event, handler, commitment, planned>> /\ outbox' = outbox \cup {e}
    BY <1>12, <1>o DEF QueueReply
  <2>3. /\ commitment[e].owner = "ambient" /\ commitment[e].started /\ commitment[e].state # "silent"
    BY <2>1 DEF Works, BeforeQueue
  <2> HIDE DEF e
  <2>5. \A x \in Events : Ledger(x)'
    BY <1>i, <2>2, <2>3 DEF Ledger
  <2>6. \A n \in Ids : Answers(n)'
    BY <1>i, <2>2, <2>3 DEF Answers, Answering, BeforeDirect
  <2>7. Works(event[job.message])'
    BY <2>1, <2>2, <2>3 DEF Works, BeforeQueue, e
  <2>q. QED BY <1>t, <2>5, <2>6, <2>7
<1>13. CASE CommitReply
  <2>1. job.at = "queued" /\ job' = Idle /\ Settle(event[job.message], "committed")
    BY <1>13 DEF CommitReply, SettleAfterFence, WorkerLeaves
  <2>2. commitment[event[job.message]].owner = "ambient"
    BY <1>i, <2>1 DEF Works
  <2>q. QED BY <1>13, <1>s, <1>o, <2>1, <2>2 DEF CommitReply, SettleAfterFence
<1>14. CASE CloseBlocked
  <2>1. job.at = "blocked" /\ job' = Idle /\ Settle(event[job.message], "silent")
    BY <1>14 DEF CloseBlocked, SettleAfterFence, WorkerLeaves
  <2>2. commitment[event[job.message]].owner = "ambient" /\ job.at \in BeforeQueue
    BY <1>i, <2>1 DEF Works, BeforeQueue
  <2>q. QED BY <1>14, <1>s, <1>o, <2>1, <2>2 DEF CloseBlocked, SettleAfterFence
<1>15. CASE WorkerRaises
  <2>1. /\ job.at # "idle" /\ job'.at = "raised" /\ job'.message = job.message
        /\ job'.bound = job.bound
    BY <1>15, <1>i DEF WorkerRaises, TypeOK, Job
  <2>q. QED BY <1>15, <1>n, <1>o, <1>i, <2>1 DEF WorkerRaises, Works, BeforeQueue
<1>16. CASE HandleException
  <2>1. CASE UNCHANGED commitment
    BY <1>16, <2>1, <1>n, <1>o DEF HandleException, HoldIfAmbient, WorkerLeaves, Idle
  <2>2. CASE job.bound /\ SettleIfAllowed(event[job.message], "held")
    BY <1>16, <2>2, <1>s, <1>o DEF HandleException, HoldIfAmbient, WorkerLeaves
  <2>q. QED BY <1>16, <2>1, <2>2 DEF HandleException, HoldIfAmbient
<1>q. QED BY <1>1, <1>2, <1>3, <1>4, <1>5, <1>6, <1>7, <1>8, <1>9, <1>10, <1>11, <1>12,
             <1>13, <1>14, <1>15, <1>16 DEF WorkerStep

-----------------------------------------------------------------------------
(* The theorems.                                                           *)

(* The strengthened invariant holds in every state of the group.           *)
THEOREM GroupIsInvariant == GroupSpec => []GroupInv
<1>1. GroupInit => GroupInv
  BY TypeInit
<1>2. GroupInv /\ [GroupNext]_groupVars => GroupInv'
  <2> SUFFICES ASSUME GroupInv, [GroupNext]_groupVars PROVE AnswerInv'
    BY TypesAndClaims DEF GroupInv
  <2>1. ASSUME NEW m \in Ids, HandlerStep(m) PROVE AnswerInv'
    BY <2>1, HandlersKeepAnswers
  <2>2. CASE WorkerStep
    BY <2>2, WorkersKeepAnswers
  <2>3. CASE TimePasses \/ UNCHANGED groupVars
    <3>1. UNCHANGED <<event, handler, job, commitment, outbox, planned>>
      BY <2>3 DEF TimePasses, FallsDue, LeaseExpires, GrowsOld, OutsideOfTime, groupVars
    <3>2. AnswerInv
      BY DEF GroupInv
    <3>3. \A x \in Events : Ledger(x)'
      BY <3>1, <3>2 DEF AnswerInv, Ledger
    <3>4. \A n \in Ids : Answers(n)'
      BY <3>1, <3>2 DEF AnswerInv, Answers
    <3>5. job'.at # "idle" => Works(event[job.message])'
      BY <3>1, <3>2 DEF AnswerInv, Works
    <3>q. QED BY <3>3, <3>4, <3>5 DEF AnswerInv
  <2>4. CASE Restart
    <3>1. /\ UNCHANGED <<event, commitment, outbox, planned>> /\ job'.at = "idle"
          /\ \A n \in Ids : handler'[n] \in {"unsent", "done"}
      BY <2>4 DEF Restart, Idle
    <3>2. \A x \in Events : Ledger(x)'
      BY <3>1 DEF GroupInv, AnswerInv, Ledger
    <3>3. \A n \in Ids : Answers(n)'
      BY <3>1 DEF Answers, Answering, BeforeDirect
    <3>q. QED BY <3>1, <3>2, <3>3 DEF AnswerInv
  <2>q. QED BY <2>1, <2>2, <2>3, <2>4 DEF GroupNext
<1>q. QED BY <1>1, <1>2, PTL DEF GroupSpec

(* Types.                                                                  *)
THEOREM GroupIsTyped == GroupSpec => []TypeOK
BY GroupIsInvariant, PTL DEF GroupInv

(* One plan per event and a truthful ledger, for any number of restarts    *)
(* and redeliveries.                                                       *)
THEOREM AnswersStayFenced == GroupSpec => []AnswersAreFenced
<1>1. GroupInv => AnswersAreFenced
  BY DEF GroupInv, AnswerInv, Ledger, AnswersAreFenced, OnePlanPerEvent, SettledTruthfully
<1>q. QED BY <1>1, GroupIsInvariant, PTL

(* A candidate ends by the claim that stands or by its age.                *)
THEOREM EndsAreOwn == GroupSpec => OutcomeIsOwn
<1> DEFINE Own == Active /\ row'.state \in Ended => IsCurrent \/ (job = Idle /\ row.old)
<1>1. GroupInv /\ [GroupNext]_groupVars => [Own]_groupVars
  <2> SUFFICES ASSUME GroupInv, GroupNext, Active, row'.state \in Ended
               PROVE  IsCurrent \/ (job = Idle /\ row.old)
    BY DEF groupVars
  <2>1. row' # row
    BY DEF Active, Ended
  <2>2. \A state : Finished(state) = row \/ IsCurrent
    BY DEF Finished, IsCurrent, GroupInv, ClaimInv
  <2>3. Rescheduled = row \/ IsCurrent
    BY DEF Rescheduled, IsCurrent, GroupInv, ClaimInv
  <2>4. \A n, due : HandedOver(n, due) = row \/ IsCurrent
    BY <2>2 DEF HandedOver
  <2>5. TopicMovesOn => IsCurrent
    BY <2>1, <2>2, <2>4 DEF TopicMovesOn
  <2>6. Renewed.state = row.state
    BY DEF Renewed, GroupInv, TypeOK, Candidate
  <2>7. row' # Renewed
    BY <2>6 DEF Active, Ended
  <2>8. ASSUME NEW m \in Ids, HandlerStep(m) PROVE FALSE
    <3>1. \A due : Pending(m, due).state = "pending"
      BY DEF Pending
    <3>q. QED BY <2>1, <2>8, <3>1
              DEF HandlerStep, Receive, Enqueue, OwnDeferred, OwnDirect, AlreadyOwned, Observe,
                  PlanDirect, Conclude, QueueDirect, QueueRefused, BindDirect, HandlerRaises,
                  HandlerFails, HandlerGoes, Ended
  <2>9. CASE WorkerStep
    <3>1. ~PreflightPasses /\ ~LoadCommitment /\ ~ClaimCommitment /\ ~CallModel /\ ~StillCurrent
          /\ ~ApprovedFencePasses /\ ~QueueReply /\ ~WorkerRaises
      BY <2>1, <2>7 DEF PreflightPasses, LoadCommitment, ClaimCommitment, CallModel, StillCurrent,
                        ApprovedFencePasses, QueueReply, WorkerRaises
    <3>2. ~ClaimDue
      <4>1. ClaimDue => row'.state = "claimed"
        BY DEF ClaimDue, GroupInv, TypeOK, Candidate
      <4>q. QED BY <4>1 DEF Ended
    <3>3. CASE DropOld
      BY <3>3 DEF DropOld
    <3>4. CASE PreflightEnds
      BY <3>4, <2>1, <2>2, <2>4, <2>5 DEF PreflightEnds
    <3>5. CASE Refuse
      BY <3>5, <2>1, <2>2 DEF Refuse, HoldIfAmbient
    <3>6. CASE StaySilent
      BY <3>6 DEF StaySilent
    <3>7. CASE CandidateFenceFails \/ ApprovedFenceFails
      BY <3>7, <2>1, <2>5 DEF CandidateFenceFails, ApprovedFenceFails
    <3>8. CASE CommitReply \/ CloseBlocked
      BY <3>8, <2>7 DEF CommitReply, CloseBlocked, SettleAfterFence
    <3>9. CASE HandleException
      BY <3>9, <2>1 DEF HandleException, HoldIfAmbient
    <3>q. QED BY <2>9, <3>1, <3>2, <3>3, <3>4, <3>5, <3>6, <3>7, <3>8, <3>9 DEF WorkerStep
  <2>10. ~TimePasses
    BY DEF TimePasses, FallsDue, LeaseExpires, GrowsOld, Active, Ended, GroupInv, TypeOK, Candidate
  <2>11. ~Restart
    BY <2>1 DEF Restart
  <2>q. QED BY <2>8, <2>9, <2>10, <2>11 DEF GroupNext
<1>q. QED BY <1>1, GroupIsInvariant, PTL DEF GroupSpec, OutcomeIsOwn
=============================================================================
