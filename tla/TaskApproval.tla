----------------------------- MODULE TaskApproval -----------------------------
(***************************************************************************)
(* Tasks, the approvals some of them wait for, and the worker that runs    *)
(* them.                                                                   *)
(*                                                                         *)
(* A task lives twice: as a row of the Bridge database and as an object in *)
(* the dictionary TASKS, which HTTP threads, the dispatcher and the worker *)
(* change under TASK_LOCK and then write over the row.  An approval lives  *)
(* in the database alone, where it is decided or expires together with the *)
(* row in one transaction.  Only after that commit does the deciding       *)
(* thread read the row, and later put what it read into TASKS and the      *)
(* queue.  Replacing an object in TASKS leaves a worker that already holds *)
(* the old one with that: it goes on with a copy nobody else sees.         *)
(***************************************************************************)
EXTENDS Naturals, Sequences, FiniteSets

CONSTANTS
  Task,
  Timeout,    \* the timeouts an edit may choose, 30 to 900 seconds
  Asked,      \* the timeout a task is built with
  MaxCalls,   \* a replay adds no callback to that many open ones
  MaxCrashes, \* how often the Bridge restarts
  Nothing     \* the worker has no task

ASSUME TaskAssumption ==
  /\ Asked \in Timeout
  /\ MaxCalls \in Nat /\ MaxCrashes \in Nat
  /\ Nothing \notin Task

VARIABLES
  row,      \* table tasks
  approval, \* table approval_requests, by the task it is about
  hot,      \* TASKS
  queue,    \* TASK_QUEUE; whoever appends a known task looks for it first
  event,    \* TASK_EVENT
  worker,   \* the thread _task_worker
  creating, \* objects of _create_approval_task not yet put into TASKS
  research, \* established executions whose dispatcher is still researching
  calls,    \* sync_runtime_task after a commit: not yet read, or read
  crashes,
  ran,      \* history: the timeouts of the processes started for a task
  early,    \* history: decided before its object was in TASKS
  stopped   \* history: cancelled before the worker took it from the queue

taskVars ==
  <<row, approval, hot, queue, event, worker, creating, research, calls, crashes,
    ran, early, stopped>>

Final == {"done", "failed", "cancelled"}

Status == {"none", "waiting_approval", "queued", "running"} \cup Final

Object == [status : Status, timeout : Timeout, cancel : BOOLEAN]

Built(status) == [status |-> status, timeout |-> Asked, cancel |-> FALSE]

(* No such row, nothing in TASKS, not read yet, not replaced.              *)
Absent == Built("none")

(* Of what the action hash covers, the timeout alone: an edit changes it.  *)
(* The prompt, which a supplement lengthens while an approved task is      *)
(* queued, is left out.                                                    *)
Approval ==
  [status : {"none", "pending", "approved", "rejected", "expired", "superseded"},
   timeout : Timeout, overdue : BOOLEAN]

(* held is the object the worker works on when TASKS no longer has it.     *)
Worker ==
  [at : {"asleep", "draining", "popped", "cleared", "running", "spawned", "ended"},
   task : Task \cup {Nothing}, held : Object, outcome : {"done", "failed"}]

Free(at) == [at |-> at, task |-> Nothing, held |-> Absent, outcome |-> "done"]

TypeOK ==
  /\ row \in [Task -> Object]
  /\ approval \in [Task -> Approval]
  /\ hot \in [Task -> Object]
  /\ queue \subseteq Task /\ event \in BOOLEAN
  /\ worker \in Worker
  /\ creating \in [Task -> Object]
  /\ research \subseteq Task
  /\ calls \subseteq [task : Task, row : Object]
  /\ crashes \in 0..MaxCrashes
  /\ ran \in [Task -> Seq(Timeout)]
  /\ early \subseteq Task /\ stopped \subseteq Task

TaskInit ==
  /\ row = [t \in Task |-> Absent]
  /\ approval = [t \in Task |-> [status |-> "none", timeout |-> Asked, overdue |-> FALSE]]
  /\ hot = [t \in Task |-> Absent]
  /\ queue = {} /\ event = FALSE
  /\ worker = Free("asleep")
  /\ creating = [t \in Task |-> Absent]
  /\ research = {} /\ calls = {} /\ crashes = 0
  /\ ran = [t \in Task |-> <<>>]
  /\ early = {} /\ stopped = {}

-----------------------------------------------------------------------------
(* What creates tasks.                                                     *)

(* _create_task: row, TASKS and queue under one lock.                      *)
CreateTask(t) ==
  /\ row[t] = Absent
  /\ row' = [row EXCEPT ![t] = Built("queued")]
  /\ hot' = [hot EXCEPT ![t] = Built("queued")]
  /\ queue' = queue \cup {t} /\ event' = TRUE
  /\ UNCHANGED <<approval, worker, creating, research, calls, crashes, ran, early, stopped>>

(* create_paused_task_approval: the row and its approval in a transaction. *)
CreatePaused(t) ==
  /\ row[t] = Absent
  /\ row' = [row EXCEPT ![t] = Built("waiting_approval")]
  /\ approval' = [approval EXCEPT ![t] =
                    [status |-> "pending", timeout |-> Asked, overdue |-> FALSE]]
  /\ creating' = [creating EXCEPT ![t] = Built("waiting_approval")]
  /\ UNCHANGED <<hot, queue, event, worker, research, calls, crashes, ran, early, stopped>>

(* TASKS[t] = o.                                                           *)
Replace(t, o) ==
  /\ hot' = [hot EXCEPT ![t] = o]
  /\ worker' = IF worker.task = t /\ worker.held = Absent
                 THEN [worker EXCEPT !.held = hot[t]] ELSE worker

(* _create_approval_task after that transaction.                           *)
Expose(t) ==
  /\ creating[t] # Absent
  /\ Replace(t, creating[t])
  /\ creating' = [creating EXCEPT ![t] = Absent]
  /\ UNCHANGED <<row, approval, queue, event, research, calls, crashes, ran, early, stopped>>

(* _establish_execution: a running task that is not queued yet.            *)
Establish(t) ==
  /\ row[t] = Absent
  /\ row' = [row EXCEPT ![t] = Built("running")]
  /\ hot' = [hot EXCEPT ![t] = Built("running")]
  /\ research' = research \cup {t}
  /\ UNCHANGED <<approval, queue, event, worker, creating, calls, crashes, ran, early, stopped>>

(* _activate_established_execution asks nothing of the task's status.      *)
Activate(t) ==
  /\ t \in research
  /\ research' = research \ {t}
  /\ row' = [row EXCEPT ![t] = hot[t]]
  /\ queue' = queue \cup {t} /\ event' = TRUE
  /\ UNCHANGED <<approval, hot, worker, creating, calls, crashes, ran, early, stopped>>

(* _complete_established_research and _fail_established_execution.         *)
EndResearch(t, status) ==
  /\ t \in research
  /\ research' = research \ {t}
  /\ LET o == [hot[t] EXCEPT !.status = status]
     IN hot' = [hot EXCEPT ![t] = o] /\ row' = [row EXCEPT ![t] = o]
  /\ queue' = queue \ {t}
  /\ UNCHANGED <<approval, event, worker, creating, calls, crashes, ran, early, stopped>>

-----------------------------------------------------------------------------
(* What decides approvals.                                                 *)

Pending(t) == approval[t].status = "pending"

(* The row still waits, and its action is what the approval was asked for. *)
Waits(t) == row[t].status = "waiting_approval" /\ row[t].timeout = approval[t].timeout

Cancelled(o) == [o EXCEPT !.status = "cancelled", !.cancel = TRUE]

Called(t) == calls' = calls \cup {[task |-> t, row |-> Absent]}

Decided(t) == early' = IF creating[t] = Absent THEN early ELSE early \cup {t}

(* Faulty variant of Resumed: the edit does not reach the row.             *)
ResumedAsAsked(timeout) == Built("queued")

Resumed(timeout) == [status |-> "queued", timeout |-> timeout, cancel |-> FALSE]

(* decide with approve, or with edit: timeout is then another one.         *)
Approve(t, timeout) ==
  /\ Pending(t) /\ ~approval[t].overdue /\ Waits(t)
  /\ row' = [row EXCEPT ![t] = Resumed(timeout)]
  /\ approval' = [approval EXCEPT ![t] =
                    [approval[t] EXCEPT !.status = "approved", !.timeout = timeout]]
  /\ Called(t) /\ Decided(t)
  /\ UNCHANGED <<hot, queue, event, worker, creating, research, crashes, ran, stopped>>

Reject(t) ==
  /\ Pending(t) /\ ~approval[t].overdue /\ Waits(t)
  /\ row' = [row EXCEPT ![t] = Cancelled(row[t])]
  /\ approval' = [approval EXCEPT ![t] = [approval[t] EXCEPT !.status = "rejected"]]
  /\ Called(t) /\ Decided(t)
  /\ UNCHANGED <<hot, queue, event, worker, creating, research, crashes, ran, stopped>>

(* The error is committed too, but its caller makes no callback.           *)
Supersede(t) ==
  /\ Pending(t) /\ ~approval[t].overdue /\ ~Waits(t)
  /\ approval' = [approval EXCEPT ![t] = [approval[t] EXCEPT !.status = "superseded"]]
  /\ UNCHANGED <<row, hot, queue, event, worker, creating, research, calls, crashes, ran,
                 early, stopped>>

(* The same request once more: no write, and the callback again.           *)
Replay(t) ==
  /\ approval[t].status \in {"approved", "rejected"}
  /\ Cardinality(calls) < MaxCalls
  /\ Called(t)
  /\ UNCHANGED <<row, approval, hot, queue, event, worker, creating, research, crashes, ran,
                 early, stopped>>

TimePasses(t) ==
  /\ Pending(t) /\ ~approval[t].overdue
  /\ approval' = [approval EXCEPT ![t] = [approval[t] EXCEPT !.overdue = TRUE]]
  /\ UNCHANGED <<row, hot, queue, event, worker, creating, research, calls, crashes, ran,
                 early, stopped>>

(* Faulty variant of ExpiredRow: only the approval expires.                *)
ExpiredAlone(o) == o

ExpiredRow(o) == IF o.status = "waiting_approval" THEN Cancelled(o) ELSE o

(* _expire_row for each of these approvals.                                *)
Expire(due) ==
  /\ row' = [t \in Task |->
       IF t \in due THEN ExpiredRow(row[t]) ELSE row[t]]
  /\ approval' = [t \in Task |->
       IF t \in due THEN [approval[t] EXCEPT !.status = "expired"] ELSE approval[t]]
  /\ early' = early \cup {t \in due : creating[t] # Absent}

(* Faulty variant of Due: only what TASKS shows waiting.                   *)
DueInTasks ==
  {t \in Task : Pending(t) /\ approval[t].overdue /\ hot[t].status = "waiting_approval"}

Due == {t \in Task : Pending(t) /\ approval[t].overdue}

(* A decision that comes too late expires the approval, with no callback.  *)
ExpireLate(t) ==
  /\ t \in Due
  /\ Expire({t})
  /\ UNCHANGED <<hot, queue, event, worker, creating, research, calls, crashes, ran, stopped>>

(* formal_expiry_worker: expire_due, then the callbacks.                   *)
ExpireDue ==
  /\ Due # {}
  /\ Expire(Due)
  /\ calls' = calls \cup {[task |-> t, row |-> Absent] : t \in Due}
  /\ UNCHANGED <<hot, queue, event, worker, creating, research, crashes, ran, stopped>>

-----------------------------------------------------------------------------
(* sync_runtime_task: read the row, then apply it under TASK_LOCK.         *)

ReadRow(c) ==
  /\ c \in calls /\ c.row = Absent
  /\ calls' = (calls \ {c}) \cup {[c EXCEPT !.row = row[c.task]]}
  /\ UNCHANGED <<row, approval, hot, queue, event, worker, creating, research, crashes, ran,
                 early, stopped>>

(* Faulty variant of Queueable: whatever the task did before.              *)
NotYetQueued(t) == t \notin queue

(* Only a task that still waits in TASKS, or is not there, is queued.      *)
Queueable(t) == hot[t].status \in {"none", "waiting_approval"}

SyncQueued(c) ==
  /\ c \in calls /\ c.row.status = "queued"
  /\ calls' = calls \ {c}
  /\ \/ /\ Queueable(c.task)
        /\ Replace(c.task, c.row)
        /\ queue' = queue \cup {c.task} /\ event' = TRUE
     \/ /\ ~Queueable(c.task)
        /\ UNCHANGED <<hot, worker, queue, event>>
  /\ UNCHANGED <<row, approval, creating, research, crashes, ran, early, stopped>>

SyncOther(c) ==
  /\ c \in calls /\ c.row # Absent /\ c.row.status # "queued"
  /\ calls' = calls \ {c}
  /\ Replace(c.task, c.row)
  /\ queue' = queue \ {c.task}
  /\ UNCHANGED <<row, approval, event, creating, research, crashes, ran, early, stopped>>

-----------------------------------------------------------------------------
(* What users and the plugin do to a task meanwhile.                       *)

HasProcess(t) == worker.task = t /\ worker.held = Absent /\ worker.at = "spawned"

(* _cancel_task: a process is sent SIGTERM, anything else ends at once.    *)
Cancel(t) ==
  /\ hot[t].status \notin Final \cup {"none"}
  /\ LET o == IF HasProcess(t) THEN [hot[t] EXCEPT !.cancel = TRUE] ELSE Cancelled(hot[t])
     IN hot' = [hot EXCEPT ![t] = o] /\ row' = [row EXCEPT ![t] = o]
  /\ stopped' = IF worker.task = t THEN stopped ELSE stopped \cup {t}
  /\ UNCHANGED <<approval, queue, event, worker, creating, research, calls, crashes, ran, early>>

(* _append_task_message writes the object over the row.  active_qq_task    *)
(* found the task queued or running, but under the lock the status is not  *)
(* looked at again, and by then the task may have ended.                   *)
Supplement(t) ==
  /\ hot[t].status \notin {"none", "waiting_approval"}
  /\ row' = [row EXCEPT ![t] = hot[t]]
  /\ UNCHANGED <<approval, hot, queue, event, worker, creating, research, calls, crashes, ran,
                 early, stopped>>

-----------------------------------------------------------------------------
(* _task_worker.                                                           *)

Wake ==
  /\ worker.at = "asleep" /\ event
  /\ worker' = Free("draining")
  /\ UNCHANGED <<row, approval, hot, queue, event, creating, research, calls, crashes, ran,
                 early, stopped>>

(* Faulty variant of Sleep: the event is cleared without another look.     *)
SleepBlindly ==
  /\ worker.at = "draining"
  /\ worker' = Free("asleep") /\ event' = FALSE
  /\ UNCHANGED <<row, approval, hot, queue, creating, research, calls, crashes, ran, early, stopped>>

Sleep ==
  /\ worker.at = "draining" /\ queue = {}
  /\ worker' = Free("asleep") /\ event' = FALSE
  /\ UNCHANGED <<row, approval, hot, queue, creating, research, calls, crashes, ran, early, stopped>>

Pop(t) ==
  /\ worker.at = "draining" /\ t \in queue
  /\ queue' = queue \ {t}
  /\ worker' = [Free("popped") EXCEPT !.task = t]
  /\ UNCHANGED <<row, approval, hot, event, creating, research, calls, crashes, ran, early, stopped>>

Mine == IF worker.held = Absent THEN hot[worker.task] ELSE worker.held

(* The worker's object, wherever it is, becomes o and is saved.            *)
Save(o) ==
  /\ row' = [row EXCEPT ![worker.task] = o]
  /\ hot' = IF worker.held = Absent THEN [hot EXCEPT ![worker.task] = o] ELSE hot

SkipCancelled ==
  /\ worker.at = "popped" /\ Mine.cancel
  /\ Save([Mine EXCEPT !.status = "cancelled"])
  /\ worker' = Free("draining")
  /\ UNCHANGED <<approval, queue, event, creating, research, calls, crashes, ran, early, stopped>>

(* The flag is read without the lock; a cancellation may still come.       *)
Clear ==
  /\ worker.at = "popped" /\ ~Mine.cancel
  /\ worker' = [worker EXCEPT !.at = "cleared"]
  /\ UNCHANGED <<row, approval, hot, queue, event, creating, research, calls, crashes, ran,
                 early, stopped>>

Start ==
  /\ worker.at = "cleared"
  /\ LET o == [Mine EXCEPT !.status = "running"]
     IN /\ Save(o)
        /\ worker' = [worker EXCEPT !.at = "running",
                                    !.held = IF @ = Absent THEN Absent ELSE o]
  /\ UNCHANGED <<approval, queue, event, creating, research, calls, crashes, ran, early, stopped>>

Spawn ==
  /\ worker.at = "running"
  /\ worker' = [worker EXCEPT !.at = "spawned"]
  /\ ran' = [ran EXCEPT ![worker.task] = Append(@, Mine.timeout)]
  /\ UNCHANGED <<row, approval, hot, queue, event, creating, research, calls, crashes, early, stopped>>

(* Preparations fail before the process, or the process ends.              *)
End(outcome) ==
  /\ \/ worker.at = "running" /\ outcome = "failed"
     \/ worker.at = "spawned"
  /\ worker' = [worker EXCEPT !.at = "ended", !.outcome = outcome]
  /\ UNCHANGED <<row, approval, hot, queue, event, creating, research, calls, crashes, ran,
                 early, stopped>>

(* An exception fails the task whatever was asked meanwhile.               *)
Finish(raised) ==
  /\ worker.at = "ended"
  /\ \/ raised /\ Save([Mine EXCEPT !.status = "failed"])
     \/ /\ ~raised /\ Mine.cancel /\ worker.outcome = "failed"
        /\ Save([Mine EXCEPT !.status = "cancelled"])
     \/ /\ ~raised /\ ~(Mine.cancel /\ worker.outcome = "failed")
        /\ Save([Mine EXCEPT !.status = worker.outcome])
  /\ worker' = Free("draining")
  /\ UNCHANGED <<approval, queue, event, creating, research, calls, crashes, ran, early, stopped>>

-----------------------------------------------------------------------------
(* The process dies, and _load_history runs when it is back.               *)

Recovered(o) ==
  IF o.status = "running" THEN [o EXCEPT !.status = "failed"] ELSE o

(* Faulty variant of Resumable: what was interrupted goes on.              *)
Interruptible(o) == o.status \in {"queued", "running"}

Resumable(o) == o.status = "queued"

Restart ==
  /\ crashes < MaxCrashes
  /\ crashes' = crashes + 1
  /\ row' = [t \in Task |-> Recovered(row[t])]
  /\ hot' = [t \in Task |-> Recovered(row[t])]
  /\ queue' = {t \in Task : Resumable(row[t])}
  /\ event' = (queue' # {})
  /\ worker' = Free("asleep")
  /\ creating' = [t \in Task |-> Absent]
  /\ research' = {} /\ calls' = {}
  /\ UNCHANGED <<approval, ran, early, stopped>>

-----------------------------------------------------------------------------
WorkerStep ==
  \/ Wake \/ Sleep \/ SkipCancelled \/ Clear \/ Start \/ Spawn
  \/ \E t \in Task : Pop(t)
  \/ \E outcome \in {"done", "failed"} : End(outcome)
  \/ \E raised \in BOOLEAN : Finish(raised)

Read(t) == ReadRow([task |-> t, row |-> Absent])

Sync(t) == \E c \in calls : c.task = t /\ (SyncQueued(c) \/ SyncOther(c))

TaskNext ==
  \/ WorkerStep
  \/ ExpireDue
  \/ Restart
  \/ \E t \in Task :
       \/ CreateTask(t) \/ CreatePaused(t) \/ Expose(t) \/ Establish(t) \/ Activate(t)
       \/ \E status \in {"done", "failed"} : EndResearch(t, status)
       \/ \E timeout \in Timeout : Approve(t, timeout)
       \/ Reject(t) \/ Supersede(t) \/ Replay(t) \/ TimePasses(t) \/ ExpireLate(t)
       \/ Read(t) \/ Sync(t)
       \/ Cancel(t) \/ Supplement(t)

TaskSpec == TaskInit /\ [][TaskNext]_taskVars

(* The worker runs on, the deadlines pass, the expiry worker wakes every   *)
(* thirty seconds and a callback's statements do not fail.                 *)
FairTaskSpec ==
  /\ TaskSpec
  /\ WF_taskVars(WorkerStep)
  /\ WF_taskVars(ExpireDue)
  /\ \A t \in Task :
       WF_taskVars(TimePasses(t)) /\ WF_taskVars(Read(t)) /\ WF_taskVars(Sync(t))

-----------------------------------------------------------------------------
(* No process is started for a task that had to be approved and was not,   *)
(* whatever was saved over its row, replayed or restarted meanwhile; and   *)
(* it runs with the timeout that was approved.                             *)
RunsAsApproved ==
  \A t \in Task : \A i \in 1..Len(ran[t]) :
    approval[t].status # "none" =>
      /\ approval[t].status = "approved"
      /\ t \notin early => ran[t][i] = approval[t].timeout

(* Two callbacks, a replay or a restart never start a task again.          *)
RunsOnce == \A t \in Task \ early : Len(ran[t]) <= 1

(* A task cancelled before the worker took it from the queue, in TASKS and *)
(* over its row, is not started by a callback that read the row before.    *)
StoppedStaysOff == [][\A t \in stopped \ early : ran'[t] = ran[t]]_taskVars

(* A row waits for a decision only while a decision can still be made.     *)
WaitingIsPending ==
  \A t \in Task :
    row[t].status = "waiting_approval" => Pending(t)

(* A queued row, approved or created so, is taken up: it is not forgotten  *)
(* between its commit and the queue, nor by a worker going to sleep.       *)
QueuedIsTaken ==
  \A t \in Task :
    row[t].status = "queued" ~> row[t].status # "queued" \/ t \in early

(* No row waits for a decision for ever.                                   *)
WaitingEnds ==
  \A t \in Task : row[t].status = "waiting_approval" ~> row[t].status # "waiting_approval"
=============================================================================
