# Verification of the NekoAgent Bridge

The Bridge (`src/codex_qq_bridge.py` and the `src/bridge_*.py` modules it serves
over HTTP) sits between a QQ plug-in (`src/remote-plugin/`), a Web console
(`src/admin/`) and a set of workers. What it promises its users is mostly about
messages: a message is handled once, its reply is said once, in order, and never
after it was withdrawn. That promise is kept by a few SQLite tables and the
processes that lease rows from them, and it is what this project specifies.

The modules here are written from the source; every definition that models code
has its file and lines in `PROJECT.json` under `map`.

## 1. The system

    QQ / Web --> dispatch (inbound receipts) --> private response cycle --+
                                             \-> tasks, approvals, goals  |
    group chat --> participation queue --> response commitment -----------+--> Delivery Outbox
    automation, proactive messaging, reliable actions ---------------------+        |
                                                                                    v
    assistant database <-- delivery settlement <-- acknowledgements <-- delivery worker --> QQ

Every arrow into the Outbox is an `enqueue` with a unique `dedupe_key`. The
worker in the plug-in claims rows by long poll, asks for permission to send
(`send-start`), sends, and reports. Two databases are involved: the Outbox lives
in the Bridge database, nearly everything else in the assistant database, and
nothing spans the two in one transaction.

| Component | State | Operations | Hard behaviour | What makes it correct |
|---|---|---|---|---|
| Delivery Outbox (`bridge_delivery_outbox.py`, `_enqueue`, `_sequences`, `_attempts`, `_claim`) | `delivery_outbox`, `delivery_attempts`, thread sequences and reservations | enqueue, supersede, reserve, claim and sweep, begin_send, ack, retry, defer, cancel, mark_ambiguous, requeue, bind_engagement | leases that expire under a live worker, late and repeated answers, crash between send and report, order within a thread, policy and operator interfering | no blind resend, order of a thread, withdrawn stays unsaid, a stale claimant is harmless, the ledger tells the truth, nothing is stuck but what the policy puts off or the operator has to judge |
| Delivery worker (`remote-plugin/delivery_worker.py`) | progress on each claimed record | send-start, send, ack / retry / ambiguous | lost answers, reloads, classification of failures | reports what it knows and no more |
| Long poll (`OutboxNotifier`) | generation, condition variable | notify, long_poll | wake-ups racing a query, changes that notify nobody | no lost wake-up, no oversleeping |
| Inbound receipts (`bridge_inbound_idempotency.py`, `bridge_private_turn_idempotency.py`) | `qq_inbound_receipts`, `qq_private_turn_members` | begin, complete, fail, replay, register aliases | redelivery while running, lease expiry, restart, unsettled receipt, unprotected reads | a Web request runs once, a QQ repeat needs a cause, an answer belongs to its question |
| Outbound policy (`bridge_outbound_policy.py`) | opt-outs, quiet hours, day counts | evaluate, defer, cancel | decides between claim and send | never acts on a row being sent |
| Delivery settlement (`bridge_delivery_settlement.py` and neighbours) | projections in the assistant database | after each acknowledgement, retry, ambiguity; reconcile | second transaction after a crash | projections converge on the Outbox |
| Private response cycle (`bridge_continuous_private_conversation.py`, `bridge_response_coordinator.py`, `bridge_response_cycle_recovery.py`, `bridge_qq_delivery.py` and the dispatch handler) | `conversation_response_cycles`, `conversation_response_cycle_sources`, thread sequences | accept ingress, acquire, start, admit effects, prepare or supersede, enqueue, bind, fail, reconcile, isolate, resolve | a lease lost or rotated under a live owner, messages that arrive while a reply is generated, a crash between two databases, settings written meanwhile | each message is answered once and in order, one owner generates, doubtful effects are not built upon, no message is stranded |
| Group participation (`bridge_group_participation_queue.py`, `_worker.py`, `bridge_group_response_commitment.py`, the group dispatch handler) | one candidate row per group, one commitment per event | record, enqueue, claim, renew, finish, reschedule, requeue stale; claim, begin, settle a commitment | a worker that lost its claim settling a newer candidate, a redelivered message, a crash between the model's answer and the Outbox | a candidate's outcome is its own, one plan is asked for about an event, the commitment agrees with the Outbox |
| Tasks and formal approval (`codex_qq_bridge.py`, `bridge_formal_approval.py`) | the row of a task and its object in `TASKS`, queue and event, approvals | create, approve, reject, supersede, expire, replay, cancel, supplement, run, restart | two copies of a task, commits whose callbacks come late or never, a worker going to sleep | only what was approved runs, once and with the approved timeout; nothing waits or is queued for ever |
| Automation (`bridge_automation.py`, `bridge_automation_*.py`) | jobs, runs, leases | claim, execute, finish, settle, reconcile, run now, disable, save, archive | the run in one database and its work in another, settlements by two threads, edits while a run is active | one run at a time, and its outcome is final and true |
| Reliable actions (`bridge_reliability_*.py`) | action outbox | commit, drain, link | crash between enqueue and link | an action becomes one delivery |
| Voice (`bridge_voice_*.py`) | daily quota | reserve, refund | read before write | the quota is not exceeded |
| Executor, goals, knowledge, learning, behaviour evaluation, operations broker, models, access, admin interface | see `PROJECT.json` | | | |

`PROJECT.json` lists every component with its sources and status and, under
`hazards`, each place where the code can go wrong in a way a test would hardly
reach, with the property that would catch it or the reason none does.

## 2. The modules

### DeliveryOutbox, DeliveryPromise

`DeliveryOutbox.tla` is the Outbox and its worker. Every public operation of the
Outbox is one `BEGIN IMMEDIATE` transaction, hence one action with the same name.

| Code | Model |
|---|---|
| a row of `delivery_outbox`, found by its unique `dedupe_key` | `row[d]`, present when `d \in rows` |
| `delivery_attempts` | `ledger[d][a]` |
| `delivery_thread_sequences`, `delivery_response_reservations` | `current`, `reserved` |
| `lease_token` (a fresh UUID per claim) | the attempt number, 0 when empty: `Holds(d, a)` is the comparison of tokens |
| `lease_owner`, `lease_expires_at` | `lease`: none, live or expired |
| `available_at` against the clock | `due` |
| `deliver_claimed_record` on one claim | the program counter `job[d][a]` |
| what reached the chat, what an operator did | the history variables `landed`, `requeued` |
| a row enqueued with a reserved sequence below one already claimed | the history variable `overtaken` |

The worker may stop at any point: it then simply takes no further step, so a
crash, a plug-in reload and a claim whose answer was lost need no action of
their own. `Send` lets the platform accept or not, and the worker see success, an
exception or the time-out with retcode 1200, in every combination but a success
that did not arrive. `Ack` lets the answer of the call get lost, upon which the
worker calls again.

`DeliveryPromise.tla` is the specification above it: the state the administrator
is shown for a reply (`_row_to_delivery`), the moves between those states, who
may make them, and when a copy may reach the chat. `KeepsPromise` states the
refinement, with `OutcomeOf` as its mapping; `DeliveryPromise_proofs.tla` proves
it.

### OutboxNotifier

`OutboxNotifier.tla` is `OutboxNotifier.long_poll`, one action per step between
the acquisition and the release of the condition's lock. Rows are reduced to
what a claim would do with them (`ready`, `later`, `gone`). A writer commits
first and notifies in a later step; an acknowledgement or an expiry that makes a
row claimable never notifies, which is why the timer computed by
`_next_claimable_delay` matters. One consequence is visible in the model: a row
held back behind a reply of unknown outcome counts as due (the query of
`_next_claimable_delay` does not look at the order of the thread), so a poller
re-queries every 10 ms until an operator decides.

### InboundReceipts, OperationPromise

`InboundReceipts.tla` is `/assistant/dispatch` around its operation: the receipt
of the request, and for QQ the aliases of source messages that were joined into
one private turn. The two callers differ. A Web request requires its receipt and
reads and takes it in one `BEGIN IMMEDIATE` transaction (`BeginRequired`). A QQ
request reads it (`Look`) before the transaction that the first write opens
(`WriteOptional`), may take a failed or expired one over, and runs bare while
`task_message_reliability_v2` is off (`GoBare`). `complete_receipt` and
`fail_receipt` write by message id alone, so an owner that lost its lease still
settles the receipt of a later one; the model has exactly that. `ran` records
the operations that ran under a receipt, `doubtful` the messages with a failed
operation or an expired lease.

`OperationPromise.tla` is what the callers of a Web message are promised: one of
them runs the operation, what became of it may stay unknown, and once it is known
all of them get that response. `Runner` and `Outcome` are the mapping;
`KeepsOperationPromise` states the refinement. QQ messages are promised less: a
receipt that was completed may be taken over by a request that had seen it expired.

### ResponseCycle, AnswerPromise

`ResponseCycle.tla` is one continuous private conversation from the accepted
message to the reply bound to its delivery. Owners of a cycle are the threads of
`/assistant/dispatch`, which serve messages of the first protocol version, and
the coordinator, which serves the second and alone recovers what others left.

| Code | Model |
|---|---|
| `latest_inbound_sequence`; messages accepted with `response_coordinator_version` 2 | `latest`; `coordinated` |
| a row of `conversation_response_cycles` with its sources | `cycles[c]`, numbered in the order of acquisition, `c \in 1..made` |
| `generation_started_at`, `effects_admitted_at`, `prepared_delivery_json` | `started`, `effects`, `prepared` |
| `lease_token`, `lease_expires_at` | `holder`, the owner that knows the token of the row, and `lease` |
| the fingerprint of settings recorded at acquisition | `drifted`, once it no longer matches |
| the reply under the cycle's dedupe key in the other database | `c` in the sequence `outbox` |
| `disposition`, `blocks_thread`, `blocks_effects`, predecessor, successor | fields of the same names |
| the call stack of an owner, and the row and the delivery that the reconciler has read | `job[o]`, with `row` and `existing` |

Every function of `bridge_continuous_private_conversation.py` that writes is one
transaction and one action. The steps between them belong to the callers:
`_execute_continuous_private_cycle` (start, effects, preparation, enqueue, bind,
report of a failure) and `reconcile_response_cycles` (read the rows, look the
delivery up in the other database, then hold, claim or reclaim). `Vanish` is a
process that stops or an exception that could not even be reported; the row
stays as it is and its token is known to nobody. `LeaseLost` is an owner that
finds its lease gone. `EnqueuePrepared` looks at no lease, as in the code: the
only fence there is the dedupe key. `PrepareOrSupersede` decides within one
transaction whether newer input withdraws the draft; `Acquire` attaches the
successor, and `ValidAncestry` repeats the walk that validates the chain.
`RecoveryRefused` stands for the catch-all of the reconciler; the one refusal
that the model knows is drift. The other holds in its place have no reachable
cause: `commit_ready` is written only together with the prepared reply
(`bridge_continuous_private_conversation.py:1278`), which one call per turn
prepares (`codex_qq_bridge.py:2799`), so it is neither missing nor prepared twice;
and both identities of the delivery are derived from the id of the cycle (`:428`)
and written by one enqueue, so they never name two rows.

`AnswerPromise.tla` is the specification above it, in which there are no leases,
owners or recoveries: messages are taken up in turns, one open at a time and in
order, and a turn is answered, withdrawn for the next one to take its messages
over, or held, after which a late owner may still answer it. `Turns` and `Fate`
are the mapping: a cycle is a turn, its messages are those of all the drafts it
carries on (`Covered`), and it is answered once its reply is in the Outbox, which
is earlier than the row says so. `KeepsAnswerPromise` states the refinement.

### AutomationRuns

`AutomationRuns.tla` is the scheduler. Its worker is one thread
(`bridge_automation_worker.py`) that alternates between due jobs and the
reconciliation of dispatched runs; beside it are the HTTP threads that report the
delivery of a reminder and the Owner in chat and console.

| Code | Model |
|---|---|
| `automation_jobs`: `enabled`, `state`, `next_due_at` against the clock and the lease | `job[j]` with `due`, the number of the run it stands for, and `ready` |
| `automation_runs`, unique by job and `scheduled_for` | `runs[j][n]`, `n` in the order of `scheduled_for` |
| the Outbox row or the task created for a run | `work[j][n]` |
| the worker's batch and place | `worker` |
| a report between the Outbox's commit and the projection | an element of `reports` |
| a chat request between its SELECT and its UPDATE | `asked` |

`Claim` is `claim_due_jobs`, one transaction, with a run that a crash left
running taken over. `Execute` creates the work in the Bridge database and
`FinishDispatch` writes it down in the other, so `Crash` may come between.
`ReadOutcome`, `LookUp` and `Settle` are the three steps of a reconciliation,
`LookUpReported` and `SettleReported` those of a report: in both, the run is read
in one statement and written in others, by id alone. The histories `saved` and
`contended` mark jobs on which those unfenced writes could collide; the
properties say what holds of all others.

### TaskApproval

`TaskApproval.tla` is a task from its creation to its final status.

| Code | Model |
|---|---|
| the row of `tasks` | `row[t]` |
| the object in `TASKS` | `hot[t]` |
| the object the worker holds after somebody replaced that one | `worker.held` |
| `TASK_QUEUE`, `TASK_EVENT` | `queue`, `event` |
| `approval_requests`, of which the action hash is reduced to the timeout an edit may change | `approval[t]` |
| `sync_runtime_task` after a commit, before and after it has read the row | elements of `calls` |
| an object built by `_create_approval_task` and not yet in `TASKS` | `creating[t]` |

Transactions of `bridge_formal_approval.py` are one action each; so is each
stretch under `TASK_LOCK`, with the `_save_task_db` inside it. The worker is
modelled statement by statement, from `TASK_EVENT.wait` to the final save, because
clearing the event and taking from the queue are what a late append races with.
The queue is a set, since everybody who appends a known task looks for it first.

### GroupParticipation

`GroupParticipation.tla` is one group: the HTTP threads that record its messages
(`handler[m]`), the candidate row (`row`), the automation thread and its fences
(`job`), and the commitment to an event (`commitment[e]`), which decides who may
ask for a plan about it. One plan is what the model counts: the repair of a risky
reply, the choice of a meme and the classifier of a direct message may call the
language model again. A message that QQ delivers twice is two rows of
`group_messages` about one event. `job.ours` says that the row still has the
`candidate_revision` the worker has read; with one automation thread nothing else
of the revision matters. What the quiet window, the floor, the topic and the
policies decide is a free choice, so that each fence may pass or fail at each
place.

## 3. What TLC checks

| Run | Instance | Properties | What it shows |
|---|---|---|---|
| `outbox_order` | two social replies of one thread, two attempts, two reservation keys, engagement, both supersede statements | `LedgerAgrees`, `SequencesDistinct`, `LandsInOrder`, `WithdrawnNeverLands` | replies land in sequence over retries and swept leases, a withdrawn one never; sequences are shared only through one reservation |
| `outbox_retry` | one logical response under two dedupe keys, one of them without a thread, up to four attempts | `NoBlindResend`, `RecordedTruth`, `OneReplyPerResponse`, `StaleClaimantHarmless`, `KeepsPromise` | resends need a "not sent" report; stale claimants change nothing; the response is said under one key; the Outbox implements `DeliveryPromise` |
| `outbox_thread` | two replies of one thread, one attempt and the one that a deferral or a requeue grants, workers that may stop anywhere, under fairness | `Consistent`, `EventuallySettled` | the inductive invariant of the proofs holds; nothing is silently stuck: a reply is settled, or put off by the policy to a time that has not come, or waits for such a reply before it or for the operator's verdict on one |
| `outbox_copies` | one reply | `OneCopyWithoutOperator` (violated) | the first finding of section 6 |
| `notifier_poll` | two rows, two pollers | `NoLostWakeup`, `NoOversleep` | no poller sleeps over a claimable row with nothing on its way to wake it, and it wakes before its deadline |
| `receipts_once` | a joined turn of two QQ messages, redeliveries of both, one edited; three calls of a Web message, one edited | `RepeatNeedsCause`, `ReplaysAreTruthful`, `KeepsOperationPromise` | Web receipts implement `OperationPromise`: one run, one final response; a QQ repeat follows only a failure or expiry; no answer belongs to another message |
| `cycle_fence` | two request threads and the coordinator, three messages, one revision, settings that change | `HistoryInv`, `RepliesInOrder`, `OutboxFactAgrees`, `EffectsFenced`, `OneGenerator`, `AnsweredOnce`, `SupersededIsSilent`, `SuccessorAccepted` | lost, rotated and recovered leases never let two owners generate, a row deny its delivery or effects rest on doubtful ones; drafts are superseded, continued and cut off at the bound without an answer given twice; the inductive invariant of the proofs holds |
| `cycle_live` | one request thread and the coordinator, two messages, under fairness | `NoMessageStranded`, `KeepsAnswerPromise` | every coordinated message gets its reply or the operator a held cycle, wherever owners stop; cycles implement `AnswerPromise` |
| `cycle_drift` | one message, settings that change, under fairness | `RecoveryIsBounded` (violated) | the second finding of section 6 |
| `automation_runs` | a repeating reminder and a one-off task, two runs each, one report at a time, one restart, under fairness | `OneActiveRun`, `EndedStaysOff`, `CompletedWasDone`, `OutcomeIsFinal`, `RunsEnd` | one run at a time, outcomes nobody rewrites, nothing counted as done that was not; every run that is interrupted or decided ends |
| `task_approval` | one task of any kind, two timeouts, two open callbacks, one restart, under fairness | `RunsAsApproved`, `RunsOnce`, `WaitingIsPending`, `StoppedStaysOff`, `QueuedIsTaken`, `WaitingEnds` | only what was approved runs, once and with the approved timeout; a cancelled task stays off; nothing waits or is queued for ever |
| `group_participation` | two messages about one or two events, deferred or answered at once, one restart, under fairness | `AnswersAreFenced`, `OutcomeIsOwn`, `CandidateSettles` | one plan per event, a ledger that agrees with the Outbox, no candidate ended by a worker that lost it and none left open for ever |

**Bounds.** `AttemptCap` ends the growth of `max_attempts` by deferral and
requeue, `SeqCap` the sequences of a thread, `GenerationCap` the notifier's
counter. Everything else is finite by itself. Two replies are enough for what
relates two of a thread, since every rule of the Outbox compares one row with
one other; one reply has room for four attempts where the question is about
repeats, so that a stale claimant can be two claims behind. The instance of order
has two ordinary attempts of each reply and sequences reserved for late; the
instance of the thread has one attempt and a deferral or a requeue. There
`AttemptCap` cuts off only a second deferral of the same row, and settles nothing by
it: a deferral raises `max_attempts` with the attempt it has used up
(`bridge_delivery_attempts.py:234-236`), so a row that was deferred often has as
many attempts left as one that never was. Two pollers are enough for
one to take the row or the lock from the other. Four QQ requests cover an owner, its
successor, a conflicting payload and a joined source, three Web requests the first
three of these. Three messages make a draft, its successor and one more that
arrives for the successor; `MaxSources` and `MaxRevisions` stand for the 64
sources and 8 revisions of the code, small enough that both are exceeded, and
`MaxAttempts` is 2, so that one recovery is counted and the next is one too many.
Two runs of a job are the one that is late and the one it could disturb
(`MaxRuns` ends the horizon), and one reporting thread beside the worker makes two
settlements of one run. Two timeouts are the one asked for and one an edit
chooses; two callbacks (`MaxCalls`) are the decision's and a replay's. There is one
task in `task_approval` because tasks meet only in the queue and in the worker,
which takes one after the other; the proofs have any number of them. Two messages
of a group are the one a worker has claimed and the one that takes its place, of
the same event or another. `MaxCrashes` and `MaxRestarts` are 1: a restart forgets
all that threads know, so a second one meets nothing the first did not. The proofs
of section 4 remove these bounds for the safety properties they cover.

The type invariants of most modules are theorems and not properties of a run.

**Symmetry.** `receipts_once` permutes the two Web requests that agree in message
and payload, `cycle_fence` the request threads. Neither checks liveness, and the
one action property among them names no request.

**Constraints.** Each is named in the MC module, and a state outside of it is
checked for invariants but not extended. `OneKindAtATime` (`receipts_once`) looks
at the QQ requests or at the Web requests, which share no row of either table.
`OneJobAtATime` (`automation_runs`) does the same for the two jobs, which share
only the batch of the worker; `RunsEnd` is therefore checked of each job with the
other at rest. `FirstIsE1` (`group_participation`) names the event of the first
message: events are alike and `event` never changes. `SteadyFromThird`
(`cycle_fence`) keeps settings unwritten, all but one request thread idle and the
last two messages of one version once the third message is there; with two
messages nothing is restricted.

**Settings.** In `cycle_live` no setting is written: with such writes it would
only repeat what `cycle_drift` shows. `cycle_fence` has them, and the proofs cover
both values of `SettingsChange`.

**Deadlock.** The Outbox and the notifier stop when their bounds are reached, so
their runs do not ask for deadlock; the cycles stop when every message that the
bound allows is settled, automation, tasks and the group when theirs are done. The
receipts never stop.

**Fairness.** `FairSpec` of the Outbox assumes that the plug-in's delivery loop
goes on claiming (`main.py:806-852` loops without end), that a row which stays
claimable or in need of a sweep has its turn (a claim sweeps first, and takes the
oldest due rows first), and that leases run out and schedules fall due. It assumes
nothing of a worker that holds a claim, of the policy, or of the operator.
`EventuallySettled` therefore does not promise an end: the policy defers a reply of
a task to a blocked group every minute, for as long as the group is blocked
(`bridge_outbound_policy.py:343-347`), and that reply and those behind it in its
thread stay open for as long. `PutOff` is that exemption. It ends each time the
schedule falls due, when the row has to be claimed and decided upon again, and so
covers a row for ever only if the policy defers it, or an earlier one, for ever. `NotifierFairness` assumes that
a writer that committed goes on to notify, that a poller inside the lock does
not stay there, and that a sleeper whose timer or notification has come wakes.
It does not assume that the deadline passes, because the property is that no
deadline is needed. Strong fairness is used where the lock can come and go.
`CyclesFairness` assumes that the coordinator's loop goes on (one scan a second)
and does not fail at the same step for ever, that an owner inside a cycle goes
on unless it vanishes, and that leases run out. Owners may vanish at every step,
the operator and the plug-in owe nothing. `PromptRecovery` adds that the lease
of a recovery, which is minutes long, outlives the three short transactions of
the recovery itself. `Waiting` names what a message may wait for: the operator
on a held cycle, a dispatch request for a message of the first version, or a
backlog of more messages than a cycle takes, which the coordinator leaves alone
(`bridge_response_coordinator.py:404`).

`FairAutomationSpec` assumes that the automation worker loops
(`bridge_automation_worker.py:172-190`) and that leases run out, but not that
reports arrive nor that the Owner does anything. `FairTaskSpec` assumes that the
task worker goes on, that deadlines pass, that the expiry worker looks every
thirty seconds (`codex_qq_bridge.py:16145`) and that a callback's statements
succeed; it does not assume that anybody decides, and a database that refuses a
save would stop the worker (section 5). `FairGroupSpec` assumes the automation
loop and the clock; the HTTP threads owe nothing.

## 4. What is proved

TLAPS proves, for every set of deliveries, threads, keys, rows, pollers,
messages, requests, owners, jobs, tasks and events and every value of the bounds:

| Module | Theorem | States |
|---|---|---|
| `DeliveryOutbox_proofs` | `AlwaysConsistent` | `Spec => []Consistent` |
| | `TypeCorrect` | `Spec => []TypeOK` |
| | `RecordsAreTrue` | `Spec => [](LedgerAgrees /\ RecordedTruth)` |
| | `ResendNeedsEvidence` | `Spec => []NoBlindResend` |
| | `OrderIsKept` | `Spec => LandsInOrder` |
| | `WithdrawalHolds` | `Spec => WithdrawnNeverLands` |
| | `LeaseFences` | `Spec => StaleClaimantHarmless` |
| `DeliveryPromise_proofs` | `PromiseIsKept` | `Spec => KeepsPromise` |
| | `SequencesStayDistinct` | `Spec => []SequencesDistinct` |
| | `ResponseSaidOnce` | `Spec => []OneReplyPerResponse` |
| | `RecordIsTrue` | `Spec => []RecordedTruth` |
| `OutboxNotifier_proofs` | `WakeupsReach` | `NotifierSpec => []NoLostWakeup` |
| `InboundReceipts_proofs` | `WebOperationRunsOnce` | `ReceiptsSpec => []WebRunsOnce` |
| | `RepeatsHaveACause` | `ReceiptsSpec => []RepeatNeedsCause` |
| | `AnswersAreTruthful` | `ReceiptsSpec => []ReplaysAreTruthful` |
| | `OperationsKeepThePromise` | `ReceiptsSpec => KeepsOperationPromise` |
| `ResponseCycle_proofs` | `CyclesAlwaysAgree` | `CyclesSpec => []CyclesInv` |
| | `CyclesTyped` | `CyclesSpec => []CyclesTypeOK` |
| | `ThreadHasOneCycle` | `CyclesSpec => []OneCyclePerThread` |
| | `OrderOfReplies` | `CyclesSpec => []RepliesInOrder` |
| | `RowsKnowTheOutbox` | `CyclesSpec => []OutboxFactAgrees` |
| | `DoubtIsNotBuiltUpon` | `CyclesSpec => []EffectsFenced` |
| | `DraftsStaySilent` | `CyclesSpec => []SupersededIsSilent` |
| | `GenerationIsExclusive` | `CyclesSpec => []OneGenerator` |
| | `HistoryAlwaysAgrees` | `CyclesSpec => []HistoryInv` |
| | `AnswersAreUnique` | `CyclesSpec => []AnsweredOnce` |
| | `SuccessorsAreAccepted` | `CyclesSpec => []SuccessorAccepted` |
| | `AnswersKeepThePromise` | `CyclesSpec => KeepsAnswerPromise` |
| `AutomationRuns_proofs` | `AutomationIsInvariant`, `AutomationIsTyped` | `AutomationSpec => []AutomationInv`, `[]TypeOK` |
| | `OneRunAtATime` | `AutomationSpec => []OneActiveRun` |
| | `OffStaysOff` | `AutomationSpec => []EndedStaysOff` |
| | `CompletedRunsWereDone` | `AutomationSpec => []CompletedWasDone` |
| | `OutcomesAreFinal` | `AutomationSpec => OutcomeIsFinal` |
| `TaskApproval_proofs` | `TaskIsInvariant`, `TaskIsTyped` | `TaskSpec => []TaskInv`, `[]TypeOK` |
| | `ApprovedRunsOnly` | `TaskSpec => []RunsAsApproved` |
| | `OneRunPerTask` | `TaskSpec => []RunsOnce` |
| | `NoneWaitsInVain` | `TaskSpec => []WaitingIsPending` |
| | `CancelledStaysOff` | `TaskSpec => StoppedStaysOff` |
| `GroupParticipation_proofs` | `GroupIsInvariant`, `GroupIsTyped` | `GroupSpec => []GroupInv`, `[]TypeOK` |
| | `AnswersStayFenced` | `GroupSpec => []AnswersAreFenced` |
| | `EndsAreOwn` | `GroupSpec => OutcomeIsOwn` |

**Outbox.** None of the safety properties is inductive. `NoBlindResend` speaks of
the chat and the ledger, and is kept only because the columns of the row
determine what a claimant may do next. `Consistent` makes that explicit:
`ColumnsAgree` ties the last action to the certainty, the lease and the flags;
`EntryAgrees` ties each entry of the ledger to the row; `ClaimantAgrees` bounds
what a claimant may be doing by its entry, so that a `started` job belongs to an
attempt that is sending or already swept; `ThreadsConsistent` says that a reply
that holds its thread back keeps the later ones unclaimed; `SequencesAgree` gives
each new row a sequence above the others unless it was reserved. `OrderIsKept`
then needs two steps: a reply that may land is sending or unknown, hence still
blocks; and what it blocks has never been claimed, hence has not landed.

**Refinement.** The step simulation goes row by row: `Shown` reduces a change of
the Outbox to that of one row, and each action's row maps to a move of
`DeliveryPromise` or to a stutter. `Consistent` is not enough for it: after a
requeue the ledger no longer speaks of an ambiguous entry, so `ClaimsOpen` adds
that a row whose last action is a claim has its entry still open.
`SequencesInv` bounds what was reserved and numbered by the thread's current
sequence, which gives `SequencesStayDistinct`. `OneRowPerResponse` says that no
two rows carry the same response, which gives `ResponseSaidOnce`.

**Notifier.** `NotifierInv` strengthens `NoLostWakeup` from the sleeping poller to
the poller about to sleep (`Covered`) and needs `LockProtects`: between query and
sleep nobody else moves the generation, so the snapshot is the generation at
which the query saw nothing.

**Receipts.** `ReceiptsInv` adds to `WebRunsOnce`, `RepeatNeedsCause` and
`ReplaysAreTruthful` what a request has left behind (`CallAgrees`) and what a row
says of its message (`ReceiptAgrees`): a request that looked at a stale row or ran
has a row with its own payload, and a row that is neither running nor completed is
doubtful. The second part is what lets the unfenced writes of a late owner keep the
properties: they land on a row with the same payload. For the refinement `OnceInv`
adds that a Web receipt has a request that ran, stays open while that request is
inside, and carries the response its callers were given. With `WebRunsOnce` the
request that settles a Web receipt late is the only one that ever could, so its
write never replaces a response that somebody has seen. Each step is first reduced
to what callers of the Web see of it (`Visible`): nothing, a start, a doubt, an end
or a replay.

**Cycles.** `CyclesInv` ties the columns of one row to each other (`RowAgrees`), an
owner's place to the row it works on (`JobAgrees`), and the delivery to a
prepared row (`QueuedAgrees`). `NewestBlocks` is what makes the thread's cycles
a history: only the last one blocks, so holds and recoveries, which touch
blocking rows, cannot disturb what an earlier cycle has settled. `JobAgrees` of
the coordinator says that what it has read of a row without a live lease stays
true until it acts, because nobody else gives out leases of an existing cycle;
a started row is never started again, which yields `OneGenerator`. The proof
has one lemma per action over a few lemmas on how a row may evolve (`RowsStep`),
so that each action is reduced to the change of a single row.

**The history of a thread.** That no message is answered twice, that a successor is
always accepted and what a turn takes over are facts about chains of drafts of any
length. `HistoryInv` adds them to `CyclesInv`:

- `InSequence`: later cycles took up later messages, so two cycles can share a
  message only through a draft that both carry on.
- `LinesApart`: of two cycles with a draft in common one carries the other on. It
  holds because only the newest cycle can be superseded (`NewestBlocks`) and only
  the next one links to it, which is `CarriedOn`.
- With these, `AnsweredOnce` reduces to one cycle: whatever is carried on is
  superseded, and what is superseded was never enqueued. `EnqueuedOnce` covers the
  reply that is enqueued again under its key.
- `HopsHold` and `LinesBounded` say that every link was validated and that a draft
  is superseded only while one more revision is possible. They are what
  `ValidAncestry` asks of a new successor, whence `SuccessorAccepted`.

`Lineage` is a recursive function, and a definition by recursion has to be shown to
have a solution before anything follows from it. `LineUnfolds` gives one: to each
cycle the least set that contains it and is closed under predecessors. The
induction over cycles is that of a set of counterexamples without a least member
(`CycleInduction`), which needs no operator as a parameter. `LinesAlike` then says
that the line of a cycle depends only on the predecessors at and below it, and
`LineSize` that it grows by one with each hop. No action but
`Acquire` changes a predecessor (`LinesKept`), and `AcquireKeepsLines` shows that it
adds one line and leaves the others.

**What the thread promises.** For the refinement each action is first reduced to
what it lets `AnswerPromise` see of one cycle: nothing (`Quiet`), a hold
(`HoldsOne`), a withdrawal (`WithdrawsOne`) or a reply in the Outbox
(`EnqueuesOne`). `StepShows` does this for every step that neither accepts a message
nor acquires a cycle; then each kind is one move or a stutter (`TurnBecomes`,
`TurnsStay`). `AcquireBegins` is the other half: the sources of a new cycle and what its chain covers are the
messages waiting up to the last source and those of the draft just withdrawn. That
an owner that was set aside may still enqueue, but never a superseded cycle, comes
from `SupersededIsSilent`, and that a reply enqueued twice shows nothing new from
the dedupe key.

**Automation.** `AutomationInv` numbers runs (`Numbered`), lets the state of an
undisturbed job tell which of its runs is active (`StateTells`), ties the worker's
batch and what it has in hand to the rows (`BatchAgrees`, `InHand`), and says that
two threads with one run in hand have marked it contended (`HandsAgree`). Finality
rests on the last: whoever is about to overwrite a run that is not contended holds
it while it is still dispatched.

**Tasks.** `TaskInv` says that every copy of a task, in `TASKS`, in the worker's
hand, in a callback or on its way into `TASKS`, agrees with what was decided: none
is further on than its approval. That is why no callback, however late, can bring
back what was rejected, and why a second one finds nothing to start. Tasks that
were decided before their object was in `TASKS` (`early`) are exempt. A frame lemma
reduces each action to the one task it touches.

**Group.** `GroupInv` is `TypeOK`, `ClaimInv` (a worker whose claim is current has
the row's message) and `AnswerInv`: what the ledger says of the Outbox
and of the calls made (`Ledger`), and which phase of an event each handler
(`Answers`) and the worker (`Works`) may be in.

The assumptions are those named `ASSUME` in the modules: the constants are
functions of the right sort, and the bounds are numbers. They are checked by TLC
in every run.

**Only model-checked.** Every safety and action property of the passing runs is
proved. Liveness (`EventuallySettled`, `NoOversleep`, `NoMessageStranded`,
`RunsEnd`, `QueuedIsTaken`, `WaitingEnds`, `CandidateSettles`) is beyond the
prover, which has no fairness and no `ENABLED`. The two violations of section 6
are counterexamples of TLC.

## 5. What is left out, and why

- The content of messages, segments, voice synthesis and the rendering in
  `_send_parts`: data that no property tells apart. A send is one step, although
  a message of several parts is sent in several calls.
- The clock: a lease may expire and a schedule fall due at any step, which
  includes every real timing and some that no clock would produce.
- How outbound policy decides. Its deferral and cancellation may happen to any
  claim that has not started to send.
- `POST /tasks/<id>/delivery` (`codex_qq_bridge.py`, the older callback) writes
  `delivery_outbox` past the lease fence. Nothing proved here of the Outbox
  speaks of rows that this callback touches. Nothing in the repository calls it:
  the plug-in defines `_mark_task_delivery` (`remote-plugin/main.py`) and does not
  use it.
- Of a response cycle: media and their leases, the checks of the envelope, the
  projection of delivery states into the row, `replan_depth`, which is 1 for a cycle
  with a predecessor and 0 for any other
  (`bridge_continuous_private_conversation.py:590`), just as its validation asks
  (`:1122`, `:1129`), so that the links say it already, and
  `complete_response_cycle_outbox`, which nothing calls. One thread is modelled;
  threads share only the coordinator, which takes them in turn.
- Of automation: how a schedule yields its next time, contracts and skills, the
  history of items already seen, notices of failure, and two limits: a claim takes
  five jobs at a time, which only delays the others, and a reconciliation reads the
  fifty dispatched runs that started first
  (`bridge_automation_reliability.py:48-51`). A run behind fifty older ones that
  stay undecided would wait for them; `RunsEnd` does not speak of it.
- Of tasks: what the process does, the trimming of `TASKS`, the delivery of the
  answer, the prompt with the supplements to it, idempotent replays of a creation, the
  final status "timeout", which is a failure here, and the version an approver
  quotes: it changes only with the status, so it refuses nothing that the status
  does not.
- Of the group: anchors, candidates of attachments alone, the journal of a turn,
  messages without a conversation event, and the roll-back of a handler that has
  just claimed its commitment. Planning and the model call are one
  step for a message answered at once.
- Everything PROJECT.json lists as `not_modelled`, each with its reason.

**What the models had to be told.** Where a property needs an exemption, the code
does what the exemption says. They are not findings, because no document promises
otherwise, but whoever changes this code should know them.

- *Automation.* A save in the console while a run is active is undone by that
  run's finish, which puts the job back on schedule, even after an archive
  (`saved`; `bridge_automation.py:311`). After such a save and a crash the run
  stays `running` for ever, and chat refuses to run or disable the job. Settling
  reads a run and writes it by id alone, so two settlements at once overwrite one
  another (`contended`). A task taken over after a crash collides with the unique
  `automation_run_id` of the first and is retried while that one runs.
- *Tasks.* The approved action hash covers the prompt
  (`bridge_formal_approval.py:79`) but is compared only at the decision (`:467`). A
  message of the user that is appended while the approved task is queued lengthens
  its prompt (`codex_qq_bridge.py:8172-8176`), and nothing looks at the hash again:
  of the approved action, the model and `RunsAsApproved` cover the decision and the
  timeout. The append looks the task up a second time without its status; the model
  lets the task have moved on or ended in between, but not have gone back to
  waiting, as an `early` one may, whose old status the append would then save. A
  decision that comes between the commit of a paused task and its entry
  into `TASKS` (`early`) may lose the edited timeout, and a replay may then start
  the task twice or leave it queued. A replay while the task runs replaces its
  object: the worker goes on with the old one, so a cancellation does not reach
  the process, and a message appended to the new one writes `running` over the
  finished row until the next restart. A cancellation between the worker's look at
  the flag and its start is overwritten by `running`; `_upsert_run` does not
  enforce `RUN_TRANSITIONS` (`bridge_goal_run.py:58-67`). A decision on an overdue
  approval expires it without a callback, so `TASKS` shows it waiting until a
  restart. A save that fails outside the worker's `try` (`codex_qq_bridge.py:7222`,
  `7227`) ends the only worker thread.
- *Receipts.* A source message that passed the check of aliases before its turn was
  bound (`CheckMember`) still runs on its own, beside the turn it was joined into.
- *Outbox.* A reply enqueued late for a reserved sequence is sent after later replies
  that were claimed before (`overtaken`); the claim holds nothing back for a
  sequence that is only reserved.
- *Group.* A message that arrives while a live claim is preserved is not queued,
  and its ambient commitment stays `owned` for ever. A commitment may stay `owned`
  or `held` although the reply is in the Outbox. Between the last fence and the
  Outbox nothing looks at the lease, which was renewed for five minutes.

## 6. Findings

### A lost answer is sent again

`docs/VOICE_OUTPUT.md:78` says that ambiguous sends "must not be retried as a
second voice message without evidence". `deliver_claimed_record` calls every
failure of `send_message` other than a retcode 1200 time-out `known_not_sent`
(`remote-plugin/delivery_worker.py:114-131`). A send that QQ accepted, but whose
answer was lost with the connection, goes back to the queue and is said again;
`outbox_copies` shows it. What the Outbox itself guarantees is the weaker
`NoBlindResend`: a repeat always follows a report of not sent.

### The recovery of a drifted reply does not end

`_binding_fingerprint` (`bridge_continuous_private_conversation.py:408`) hashes
the revision of every setting, so that any write of a setting after a cycle was
acquired makes loading and binding its prepared reply fail. If the reply is
already in the Outbox, the reconciler claims the row with `binding_only`, which
counts no attempt, is refused by that check, and calls `_hold` with
`require_recoverable_lease=True`, which is refused as well: the lease that the
recovery has just taken is live. The cycle stays `commit_ready`, its thread is
blocked, and the same happens after every lease. `cycle_drift` shows it;
`bridge_response_cycle_recovery.py:2` speaks of a "Bounded recovery state machine
for continuous private response cycles". The safety properties are not touched:
the reply is sent once, from the Outbox.

## 7. Not modelled, and why

Each component that is `partly` or `not_modelled` has its reason in
`PROJECT.json`. In short:

- *Delivery settlement*: what follows an acknowledgement on automation runs and
  response cycles is in their modules; the rest are projections on conversations,
  memes, tasks and continuity links, each a write that is repeated until it agrees.
  Composed with `DeliveryOutbox` they would be the next module to write.
- *Reliable actions*: the drain enqueues under a dedupe key and then links; a crash
  between the two is the repeated `Enqueue` of the Outbox model.
- *Voice*: one row with a daily count; a lost increment is listed as a hazard and
  would not carry a module.
- *Executor, knowledge ingestion, artifacts, learning, behaviour evaluation,
  models, personas, broker, access, admin interface, deployment*: sequential work
  on files and text, external services, or read models, without state that several
  actors share.
- *Conversation, group conversation, continuity*: what they decide is text. Where
  the decision matters it is a free choice in the modules above.

**What comes next.** `AnswerPromise` and `DeliveryPromise` are proved apart. The
module to compose them with is the settlement: a turn that is answered there is a
reply that is enqueued here, and what the operator sees of the one follows from the
other. Of the tasks and the automation runs, an abstract life of one task or run
could be stated in the same way, and the invariants of section 4 are what its proof
would rest on.
