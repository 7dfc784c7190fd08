---------------------------- MODULE AutomationRuns ----------------------------
(***************************************************************************)
(* Scheduled jobs, their runs, and the two databases a run is decided in.  *)
(*                                                                         *)
(* One worker thread claims due jobs under a five-minute lease, creates    *)
(* the delivery or the task of each run in the Bridge database, and only   *)
(* then writes the run down as dispatched in the assistant database.  A    *)
(* dispatched run is settled from the fate of its delivery or task: by the *)
(* HTTP thread that serves the plugin's report of a reminder, and by the   *)
(* worker's reconciliation.  Settling reads the run in one statement and   *)
(* overwrites it, by its id alone, and its job in others.  Meanwhile the   *)
(* Owner edits jobs in the console and in chat.                            *)
(***************************************************************************)
EXTENDS Naturals, FiniteSets

CONSTANTS
  Job,
  Reminder,  \* those whose delivery is an automation_reminder
  Agent,     \* those whose runs are tasks; the others deliver a result
  Repeating, \* those with another schedule than "once"
  MaxRuns,    \* the horizon: how many runs of a job are looked at
  MaxCrashes, \* how often the Bridge restarts
  MaxThreads, \* how many HTTP threads settle reports at once
  Nothing     \* no run, no request

ASSUME AutomationAssumption ==
  /\ Reminder \subseteq Job /\ Agent \subseteq Job /\ Reminder \cap Agent = {}
  /\ Repeating \subseteq Job
  /\ MaxRuns \in Nat /\ MaxCrashes \in Nat /\ MaxThreads \in Nat
  /\ Nothing \notin Job \X Nat /\ Nothing \notin {"run_now", "disable"} \X Job

VARIABLES
  job,       \* table automation_jobs
  runs,      \* table automation_runs: the status of each run of a job
  made,      \* how many runs a job has, numbered by their scheduled_for
  work,      \* the Outbox row or the task of a run
  worker,    \* the automation worker thread
  reports,   \* HTTP threads between the Outbox's commit and the projection
  asked,     \* a chat request between its SELECT and its UPDATE
  crashes,
  saved,     \* history: the jobs saved in the console while a run was active
  contended, \* history: the jobs with two settlements of a run at once
  ended      \* history: the disabled or archived jobs, until re-enabled

automationVars ==
  <<job, runs, made, work, worker, reports, asked, crashes, saved, contended, ended>>

RunNo == 1..MaxRuns

Item == Job \X RunNo

State ==
  {"scheduled", "running", "dispatched", "retry_wait",
   "completed", "blocked", "disabled", "archived"}

(* due is next_due_at: the number of the run that it is or will be, 0 for  *)
(* none; ready: it has passed, and lease_until is not ahead.               *)
JobRow == [enabled : BOOLEAN, state : State, due : 0..(MaxRuns + 1), ready : BOOLEAN]

Status == {"none", "running", "dispatched", "completed", "failed"}

(* A task is done if _task_is_business_success says so, and failed else.   *)
Work == {"none", "open", "done", "failed"}

Outcome == {"dispatched", "completed", "retryable", "fatal"}

(* What the worker does next; todo are the items left of its batch.        *)
Worker ==
  [at : {"idle", "jobs", "finishing", "reconciling", "deciding", "settling"},
   todo : SUBSET Item, item : Item \cup {Nothing}, says : Outcome]

Resting == [at |-> "idle", todo |-> {}, item |-> Nothing, says |-> "dispatched"]

Report == [item : Item, says : {"completed", "retryable"}, looked : BOOLEAN]

Request == {"run_now", "disable"} \X Job

TypeOK ==
  /\ job \in [Job -> JobRow]
  /\ runs \in [Job -> [RunNo -> Status]]
  /\ made \in [Job -> 0..MaxRuns]
  /\ work \in [Job -> [RunNo -> Work]]
  /\ worker \in Worker
  /\ reports \subseteq Report
  /\ asked \in Request \cup {Nothing}
  /\ crashes \in 0..MaxCrashes
  /\ saved \subseteq Job /\ contended \subseteq Job /\ ended \subseteq Job

(* next_due_at lies ahead of every scheduled_for that a run has.           *)
Fresh(j) == made[j] + 1

Scheduled(j) ==
  [enabled |-> TRUE, state |-> "scheduled", due |-> Fresh(j), ready |-> FALSE]

Stopped(state) ==
  [enabled |-> FALSE, state |-> state, due |-> 0, ready |-> FALSE]

AutomationInit ==
  /\ made = [j \in Job |-> 0]
  /\ job = [j \in Job |-> Scheduled(j)]
  /\ runs = [j \in Job |-> [n \in RunNo |-> "none"]]
  /\ work = [j \in Job |-> [n \in RunNo |-> "none"]]
  /\ worker = Resting
  /\ reports = {}
  /\ asked = Nothing
  /\ crashes = 0
  /\ saved = {} /\ contended = {} /\ ended = {}

-----------------------------------------------------------------------------
Active(j) == {n \in RunNo : runs[j][n] \in {"running", "dispatched"}}

Goes(to, item, todo, says) ==
  worker' = [at |-> to, todo |-> todo, item |-> item, says |-> says]

(* To the next item of the batch, or to the next batch.                    *)
Turns(to, todo) == Goes(to, Nothing, todo, "dispatched")

(* The SELECT of claim_due_jobs; MaxRuns is the end of the horizon.        *)
Due(j) ==
  /\ job[j].enabled /\ job[j].state # "dispatched"
  /\ job[j].due \in RunNo /\ job[j].ready

(* A new occurrence gets a run; one that a crash left running is taken     *)
(* over with its run; one that is past that is claimed for nothing.  The   *)
(* faulty variant leaves the interrupted run alone.                        *)
RunsWhenNew(j) == Due(j) /\ runs[j][job[j].due] = "none"

Runs(j) == Due(j) /\ runs[j][job[j].due] \in {"none", "running"}

(* All due jobs at once; the code takes five at a time.                    *)
Claim ==
  /\ worker.at = "idle"
  /\ job' = [j \in Job |->
               IF Due(j) THEN [job[j] EXCEPT !.state = "running", !.ready = FALSE] ELSE job[j]]
  /\ runs' = [j \in Job |-> [n \in RunNo |->
               IF Runs(j) /\ n = job[j].due THEN "running" ELSE runs[j][n]]]
  /\ made' = [j \in Job |-> IF Runs(j) THEN job[j].due ELSE made[j]]
  /\ Turns("jobs", {<<j, job[j].due>> : j \in {k \in Job : Runs(k)}})
  /\ UNCHANGED <<work, reports, asked, crashes, saved, contended, ended>>

(* _run_automation_job: a delivery is found again by its dedupe key, the   *)
(* task of a run cannot be inserted twice.  Whatever raises, before the    *)
(* delivery or task is there or after, is an outcome of its own.           *)
Creates(j, n) ==
  /\ work[j][n] = "none"
  /\ work' = [work EXCEPT ![j][n] = "open"]
  /\ worker'.says \in {"dispatched", "retryable"}

Finds(j, n) ==
  /\ work[j][n] # "none"
  /\ worker'.says = IF j \in Agent THEN "retryable" ELSE "dispatched"
  /\ UNCHANGED work

Raises == worker'.says \in {"retryable", "fatal"} /\ UNCHANGED work

Execute(j, n) ==
  /\ worker.at = "jobs" /\ <<j, n>> \in worker.todo
  /\ \E says \in Outcome : Goes("finishing", <<j, n>>, worker.todo, says)
  /\ Creates(j, n) \/ Finds(j, n) \/ Raises
  /\ UNCHANGED <<job, runs, made, reports, asked, crashes, saved, contended, ended>>

-----------------------------------------------------------------------------
(* The failed run is the second of two in a row.                           *)
FailedTwice(j, n) ==
  /\ made[j] >= 2
  /\ \A m \in {made[j] - 1, made[j]} : m = n \/ runs[j][m] = "failed"

(* What finish_automation_run writes into the job.                         *)
Afterwards(j, n, says) ==
  LET again == says = "retryable" /\ ~FailedTwice(j, n)
      onward == says = "completed" \/ (says = "retryable" /\ FailedTwice(j, n))
  IN CASE says = "dispatched" -> [job[j] EXCEPT !.state = "dispatched", !.ready = TRUE]
       [] again -> [Scheduled(j) EXCEPT !.enabled = job[j].enabled, !.state = "retry_wait"]
       [] onward /\ j \in Repeating -> Scheduled(j)
       [] OTHER -> Stopped(IF says = "completed" THEN "completed" ELSE "blocked")

(* The status that goes with an outcome.                                   *)
StatusOf(says) == IF says \in {"retryable", "fatal"} THEN "failed" ELSE says

(* It looks at neither the status of the run nor the state of the job.     *)
Finish(j, n, says) ==
  /\ runs' = [runs EXCEPT ![j][n] = StatusOf(says)]
  /\ job' = [job EXCEPT ![j] = Afterwards(j, n, says)]

(* The worker's own finish, after _run_automation_job or its exception.    *)
FinishDispatch(j, n) ==
  /\ worker.at = "finishing" /\ worker.item = <<j, n>>
  /\ Finish(j, n, worker.says)
  /\ Turns("jobs", worker.todo \ {<<j, n>>})
  /\ UNCHANGED <<made, work, reports, asked, crashes, saved, contended, ended>>

-----------------------------------------------------------------------------
(* settle_automation_dispatch: its SELECT finds dispatched runs only; in   *)
(* the faulty variant, any run.                                            *)
SettleableAny(j, n) == runs[j][n] # "none"

Settleable(j, n) == runs[j][n] = "dispatched"

(* Another settlement has the run between its SELECT and its UPDATE.       *)
Settling(j, n) == worker.at = "settling" /\ worker.item = <<j, n>>

Looking(j, n) == Settling(j, n) \/ \E r \in reports : r.looked /\ r.item = <<j, n>>

Contend(j, n) == contended' = IF Looking(j, n) THEN contended \cup {j} ELSE contended

(* reconcile_automation_tasks, after the jobs of a round, with all the     *)
(* dispatched runs; the code reads the fifty oldest.                       *)
ReadDispatched ==
  /\ worker.at = "jobs" /\ worker.todo = {}
  /\ Turns("reconciling", {i \in Item : runs[i[1]][i[2]] = "dispatched"})
  /\ UNCHANGED <<job, runs, made, work, reports, asked, crashes, saved, contended, ended>>

(* The fate of a task may be permanent, that of a delivery never is.  The  *)
(* faulty variant takes every closed delivery for a delivered one.         *)
VerdictWhenClosed(j, n) == IF work[j][n] \in {"done", "failed"} THEN {"completed"} ELSE {}

Verdict(j, n) ==
  CASE work[j][n] = "done" -> {"completed"}
    [] work[j][n] = "failed" -> IF j \in Agent THEN {"retryable", "fatal"} ELSE {"retryable"}
    [] OTHER -> {}

ReadOutcome(j, n) ==
  /\ worker.at = "reconciling" /\ <<j, n>> \in worker.todo
  /\ \/ /\ Verdict(j, n) = {}
        /\ Turns("reconciling", worker.todo \ {<<j, n>>})
     \/ \E says \in Verdict(j, n) :
          Goes("deciding", <<j, n>>, worker.todo \ {<<j, n>>}, says)
  /\ UNCHANGED <<job, runs, made, work, reports, asked, crashes, saved, contended, ended>>

LookUp(j, n) ==
  /\ worker.at = "deciding" /\ worker.item = <<j, n>>
  /\ \/ /\ Settleable(j, n) /\ Contend(j, n)
        /\ Goes("settling", <<j, n>>, worker.todo, worker.says)
     \/ /\ ~Settleable(j, n) /\ UNCHANGED contended
        /\ Turns("reconciling", worker.todo)
  /\ UNCHANGED <<job, runs, made, work, reports, asked, crashes, saved, ended>>

Settle(j, n) ==
  /\ Settling(j, n)
  /\ Finish(j, n, worker.says)
  /\ Turns("reconciling", worker.todo)
  /\ UNCHANGED <<made, work, reports, asked, crashes, saved, contended, ended>>

Round ==
  /\ worker.at = "reconciling" /\ worker.todo = {}
  /\ worker' = Resting
  /\ UNCHANGED <<job, runs, made, work, reports, asked, crashes, saved, contended, ended>>

-----------------------------------------------------------------------------
Becomes(j, n, from, to) == work[j][n] \in from /\ work' = [work EXCEPT ![j][n] = to]

Projects(j, n, says) ==
  /\ Cardinality(reports) < MaxThreads
  /\ reports' = IF j \in Reminder
                THEN reports \cup {[item |-> <<j, n>>, says |-> says, looked |-> FALSE]}
                ELSE reports

(* The plugin reports an acknowledgement, or a retry that is one too many, *)
(* and may repeat either; settle_ack and settle_retry commit it in the     *)
(* Outbox first and project it on the run of a reminder afterwards.        *)
Acknowledge(j, n) ==
  /\ j \notin Agent
  /\ Becomes(j, n, {"open", "done"}, "done") /\ Projects(j, n, "completed")
  /\ UNCHANGED <<job, runs, made, worker, asked, crashes, saved, contended, ended>>

DeadLetter(j, n) ==
  /\ j \notin Agent
  /\ Becomes(j, n, {"open", "failed"}, "failed") /\ Projects(j, n, "retryable")
  /\ UNCHANGED <<job, runs, made, worker, asked, crashes, saved, contended, ended>>

(* What nobody reports: the sweep's dead letter, the Owner's requeue, the  *)
(* end of a task.                                                          *)
Unreported(j, n) ==
  /\ \/ j \notin Agent /\ Becomes(j, n, {"open"}, "failed")
     \/ j \notin Agent /\ Becomes(j, n, {"failed"}, "open")
     \/ j \in Agent /\ \E end \in {"done", "failed"} : Becomes(j, n, {"open"}, end)
  /\ UNCHANGED <<job, runs, made, worker, reports, asked, crashes, saved, contended, ended>>

LookUpReported(r, j, n) ==
  /\ r \in reports /\ ~r.looked /\ r.item = <<j, n>>
  /\ \/ /\ Settleable(j, n) /\ Contend(j, n)
        /\ reports' = (reports \ {r}) \cup {[r EXCEPT !.looked = TRUE]}
     \/ /\ ~Settleable(j, n) /\ UNCHANGED contended
        /\ reports' = reports \ {r}
  /\ UNCHANGED <<job, runs, made, work, worker, asked, crashes, saved, ended>>

SettleReported(r, j, n) ==
  /\ r \in reports /\ r.looked /\ r.item = <<j, n>>
  /\ Finish(j, n, r.says)
  /\ reports' = reports \ {r}
  /\ UNCHANGED <<made, work, worker, asked, crashes, saved, contended, ended>>

-----------------------------------------------------------------------------
(* Faulty variants of Busy: each forgets one of the two states.            *)
BusyWhenRunning(j) == job[j].state = "running"

BusyWhenDispatched(j) == job[j].state = "dispatched"

Busy(j) == job[j].state \in {"running", "dispatched"}

(* Chat reads the job and how many runs of it are active, ...              *)
Ask(what, j) ==
  /\ asked = Nothing
  /\ job[j].enabled /\ Active(j) = {} /\ ~Busy(j)
  /\ asked' = <<what, j>>
  /\ UNCHANGED <<job, runs, made, work, worker, reports, crashes, saved, contended, ended>>

(* ... and then writes, if the state alone still permits it.               *)
Grant(what, j) ==
  /\ asked = <<what, j>> /\ asked' = Nothing
  /\ \/ /\ ~job[j].enabled \/ Busy(j)
        /\ UNCHANGED <<job, ended>>
     \/ /\ job[j].enabled /\ ~Busy(j)
        /\ \/ what = "run_now" /\ UNCHANGED ended
              /\ job' = [job EXCEPT ![j] = [Scheduled(j) EXCEPT !.ready = TRUE]]
           \/ what = "disable" /\ ended' = ended \cup {j}
              /\ job' = [job EXCEPT ![j] = Stopped("disabled")]
  /\ UNCHANGED <<runs, made, work, worker, reports, crashes, saved, contended>>

(* upsert_automation_job from the console, which asks for no idle job.     *)
Save(j) ==
  /\ job[j].state # "archived"
  /\ \/ job' = [job EXCEPT ![j] = Scheduled(j)] /\ ended' = ended \ {j}
     \/ /\ job' = [job EXCEPT ![j] = [job[j] EXCEPT !.enabled = FALSE, !.state = "disabled"]]
        /\ ended' = ended \cup {j}
  /\ saved' = IF Active(j) # {} THEN saved \cup {j} ELSE saved
  /\ UNCHANGED <<runs, made, work, worker, reports, asked, crashes, contended>>

Archive(j) ==
  /\ \/ job[j].state # "archived" /\ ~Busy(j) /\ job' = [job EXCEPT ![j] = Stopped("archived")]
     \/ job[j].state = "archived" /\ job' = [job EXCEPT ![j] = Stopped("disabled")]
  /\ ended' = ended \cup {j}
  /\ UNCHANGED <<runs, made, work, worker, reports, asked, crashes, saved, contended>>

(* next_due_at passes, or the five minutes of a lease do.                  *)
TimeComes(j) ==
  /\ job[j].due # 0 /\ ~job[j].ready
  /\ job' = [job EXCEPT ![j] = [job[j] EXCEPT !.ready = TRUE]]
  /\ UNCHANGED <<runs, made, work, worker, reports, asked, crashes, saved, contended, ended>>

LeaseExpires(j) == job[j].state = "running" /\ TimeComes(j)

(* The Bridge stops: its threads are gone, both databases stay.            *)
Crash ==
  /\ crashes < MaxCrashes /\ crashes' = crashes + 1
  /\ worker' = Resting /\ reports' = {} /\ asked' = Nothing
  /\ UNCHANGED <<job, runs, made, work, saved, contended, ended>>

-----------------------------------------------------------------------------
WorkerStep ==
  \/ Claim \/ ReadDispatched \/ Round
  \/ \E j \in Job, n \in RunNo :
       \/ Execute(j, n) \/ FinishDispatch(j, n)
       \/ ReadOutcome(j, n) \/ LookUp(j, n) \/ Settle(j, n)

HttpStep ==
  \E j \in Job, n \in RunNo :
    \/ Acknowledge(j, n) \/ DeadLetter(j, n) \/ Unreported(j, n)
    \/ \E r \in reports : LookUpReported(r, j, n) \/ SettleReported(r, j, n)

OwnerStep ==
  \E j \in Job :
    \/ \E what \in {"run_now", "disable"} : Ask(what, j) \/ Grant(what, j)
    \/ Save(j) \/ Archive(j)

AutomationNext == WorkerStep \/ HttpStep \/ OwnerStep \/ (\E j \in Job : TimeComes(j)) \/ Crash

AutomationSpec == AutomationInit /\ [][AutomationNext]_automationVars

(* The worker thread loops for as long as the Bridge is up, and leases     *)
(* expire; nobody else has to do anything.                                 *)
FairAutomationSpec ==
  /\ AutomationSpec
  /\ WF_automationVars(WorkerStep)
  /\ \A j \in Job : WF_automationVars(LeaseExpires(j))

-----------------------------------------------------------------------------
(***************************************************************************)
(* A job has one active run at a time.  Only a save in the console while a *)
(* run is active, or two settlements of one run at once, lets another run  *)
(* start before the last one has ended.                                    *)
(***************************************************************************)
OneActiveRun ==
  \A j \in Job \ (saved \cup contended) : \A m, n \in Active(j) : m = n

(***************************************************************************)
(* A job that was disabled or archived stays off until the Owner enables   *)
(* it: no run that ends later puts it back on schedule, unless the job was *)
(* saved while a run was active or a run was settled twice at once.        *)
(***************************************************************************)
EndedStaysOff ==
  \A j \in ended \ (saved \cup contended) : ~job[j].enabled

(***************************************************************************)
(* Only a run whose delivery was acknowledged or whose task is done counts *)
(* as completed, whatever order reports, requeues and the reconciliation   *)
(* come in.                                                                *)
(***************************************************************************)
CompletedWasDone ==
  \A j \in Job, n \in RunNo : runs[j][n] = "completed" => work[j][n] = "done"

(***************************************************************************)
(* The outcome of a run is final: a repeated or late report and a          *)
(* reconciliation with an old snapshot leave it alone, unless two of them  *)
(* had the run in hand at once.                                            *)
(***************************************************************************)
OutcomeIsFinal ==
  [][\A j \in Job, n \in RunNo :
       runs[j][n] \in {"completed", "failed"} /\ j \notin contended
         => runs'[j][n] = runs[j][n]]_automationVars

(***************************************************************************)
(* A run that a crash left running is taken over and goes on, unless its   *)
(* job was saved meanwhile or its run settled twice; a dispatched run      *)
(* whose delivery or task is decided is settled, also when the report came *)
(* before the dispatch was written down or was lost between the two        *)
(* databases.                                                              *)
(***************************************************************************)
Overdue(j, n) ==
  \/ runs[j][n] = "running" /\ j \notin saved \cup contended
  \/ runs[j][n] = "dispatched" /\ work[j][n] # "open"

RunsEnd == \A j \in Job, n \in RunNo : []<>~Overdue(j, n)

(* Runs are numbered without a gap, and the next due one is the last or a  *)
(* new one.                                                                *)
Numbered(j) ==
  /\ \A n \in RunNo : runs[j][n] # "none" <=> n <= made[j]
  /\ job[j].due \in {0, made[j], Fresh(j)}

(* The state of an undisturbed job tells whether it has an active run.     *)
Undisturbed == Job \ (saved \cup contended)

StateTells(j) ==
  /\ \A n \in RunNo :
       /\ runs[j][n] = "running" => job[j].state = "running" /\ n = made[j] /\ job[j].due = n
       /\ runs[j][n] = "dispatched" => job[j].state = "dispatched" /\ n = made[j]
  /\ j \in ended => ~job[j].enabled /\ Active(j) = {}

Past == {"dispatched", "completed", "failed"}

(* The batch of the worker, and the run it has in hand.                    *)
BatchAgrees ==
  \A j \in Job, n \in RunNo : <<j, n>> \in worker.todo =>
    /\ worker.at \in {"jobs", "finishing"} => runs[j][n] = "running"
    /\ worker.at \in {"reconciling", "deciding", "settling"} => runs[j][n] \in Past

InHand ==
  /\ worker.at \in {"finishing", "deciding", "settling"} => worker.item \in Item
  /\ worker.at = "finishing" => worker.item \in worker.todo /\ worker.says # "completed"
  /\ worker.at \in {"deciding", "settling"} => worker.says # "dispatched"
  /\ \A j \in Job, n \in RunNo :
       worker.at \in {"deciding", "settling"} /\ worker.item = <<j, n>> /\ worker.says = "completed"
         => work[j][n] = "done"

(* Whoever has looked a run up finds it dispatched still when it settles   *)
(* it, but for a second settlement.                                        *)
LookedUp(j, n) ==
  /\ runs[j][n] \in Past
  /\ j \notin contended => runs[j][n] = "dispatched"

ReportAgrees(r, j, n) ==
  /\ r.says = "completed" => work[j][n] = "done"
  /\ r.looked => LookedUp(j, n)
  /\ r.looked /\ j \notin contended =>
       ~Settling(j, n) /\ \A s \in reports : s.looked /\ s.item = r.item => s = r

HandsAgree ==
  \A j \in Job, n \in RunNo :
    /\ Settling(j, n) => LookedUp(j, n)
    /\ \A r \in reports : r.item = <<j, n>> => ReportAgrees(r, j, n)

(* The inductive invariant behind the safety properties.                   *)
AutomationInv ==
  /\ TypeOK
  /\ \A j \in Job : Numbered(j)
  /\ \A j \in Undisturbed : StateTells(j)
  /\ BatchAgrees
  /\ InHand
  /\ HandsAgree
  /\ CompletedWasDone
=============================================================================
