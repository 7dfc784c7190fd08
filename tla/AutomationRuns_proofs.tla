------------------------ MODULE AutomationRuns_proofs ------------------------
(***************************************************************************)
(* Proofs about AutomationRuns, for any jobs, kinds of job, horizon and    *)
(* number of crashes and of HTTP threads.                                  *)
(***************************************************************************)
EXTENDS AutomationRuns, TLAPS

USE AutomationAssumption

LEMMA RowsAreTyped ==
  ASSUME TypeOK, NEW j \in Job
  PROVE  /\ Scheduled(j) \in JobRow
         /\ \A state \in State : Stopped(state) \in JobRow
BY DEF TypeOK, Scheduled, Stopped, JobRow, Fresh, State

LEMMA AfterwardsIsTyped ==
  ASSUME TypeOK, NEW j \in Job, NEW n \in RunNo, NEW says \in Outcome
  PROVE  Afterwards(j, n, says) \in JobRow
<1>1. job[j] \in JobRow
  BY DEF TypeOK
<1>2. Scheduled(j) \in JobRow /\ Stopped("completed") \in JobRow /\ Stopped("blocked") \in JobRow
  BY RowsAreTyped DEF State
<1>3. /\ [job[j] EXCEPT !.state = "dispatched", !.ready = TRUE] \in JobRow
      /\ [Scheduled(j) EXCEPT !.enabled = job[j].enabled, !.state = "retry_wait"] \in JobRow
  BY <1>1, <1>2 DEF JobRow, State
<1>q. QED BY <1>2, <1>3 DEF Afterwards

LEMMA FinishIsTyped ==
  ASSUME TypeOK, NEW j \in Job, NEW n \in RunNo, NEW says \in Outcome, Finish(j, n, says)
  PROVE  job' \in [Job -> JobRow] /\ runs' \in [Job -> [RunNo -> Status]]
<1>1. Afterwards(j, n, says) \in JobRow
  BY AfterwardsIsTyped
<1>2. StatusOf(says) \in Status
  BY DEF StatusOf, Status, Outcome
<1>q. QED BY <1>1, <1>2 DEF Finish, TypeOK

LEMMA TurnsIsTyped ==
  ASSUME NEW to \in {"jobs", "reconciling"}, NEW todo \in SUBSET Item, Turns(to, todo)
  PROVE  worker' \in Worker
BY DEF Turns, Goes, Worker, Outcome

LEMMA GoesIsTyped ==
  ASSUME NEW to \in {"finishing", "deciding", "settling"}, NEW item \in Item,
         NEW todo \in SUBSET Item, NEW says \in Outcome, Goes(to, item, todo, says)
  PROVE  worker' \in Worker
BY DEF Goes, Worker

(* Type correctness of every step.                                         *)
LEMMA WorkerTyping ==
  ASSUME TypeOK, WorkerStep
  PROVE  TypeOK'
<1>1. CASE Claim
  <2>1. worker' \in Worker
    <3>1. {<<j, job[j].due>> : j \in {k \in Job : Runs(k)}} \subseteq Item
      BY DEF Runs, Due, Item
    <3>q. QED BY <1>1, <3>1, TurnsIsTyped DEF Claim
  <2>2. job' \in [Job -> JobRow]
    <3>1. ASSUME NEW j \in Job
          PROVE  [job[j] EXCEPT !.state = "running", !.ready = FALSE] \in JobRow /\ job[j] \in JobRow
      <4>1. job[j] \in JobRow
        BY DEF TypeOK
      <4>q. QED BY <4>1 DEF JobRow, State
    <3>q. QED BY <1>1, <3>1 DEF Claim
  <2>3. runs' \in [Job -> [RunNo -> Status]]
    BY <1>1 DEF Claim, TypeOK, Status
  <2>4. made' \in [Job -> 0..MaxRuns]
    <3>1. ASSUME NEW j \in Job, Runs(j) PROVE job[j].due \in 0..MaxRuns
      BY <3>1 DEF Runs, Due, RunNo
    <3>q. QED BY <1>1, <3>1 DEF Claim, TypeOK
  <2>q. QED BY <1>1, <2>1, <2>2, <2>3, <2>4 DEF Claim, TypeOK
<1>2. CASE ReadDispatched
  <2>1. worker' \in Worker
    BY <1>2, TurnsIsTyped DEF ReadDispatched
  <2>q. QED BY <1>2, <2>1 DEF ReadDispatched, TypeOK
<1>3. CASE Round
  BY <1>3 DEF Round, TypeOK, Resting, Worker, Outcome
<1>4. ASSUME NEW j \in Job, NEW n \in RunNo,
             \/ Execute(j, n) \/ FinishDispatch(j, n)
             \/ ReadOutcome(j, n) \/ LookUp(j, n) \/ Settle(j, n)
      PROVE  TypeOK'
  <2>i. <<j, n>> \in Item /\ worker \in Worker /\ worker.todo \in SUBSET Item
        /\ worker.todo \ {<<j, n>>} \in SUBSET Item /\ worker.says \in Outcome
    BY DEF Item, TypeOK, Worker
  <2>1. CASE Execute(j, n)
    <3>1. worker' \in Worker
      BY <2>1, <2>i, GoesIsTyped DEF Execute
    <3>2. work' \in [Job -> [RunNo -> Work]]
      BY <2>1 DEF Execute, Creates, Finds, Raises, TypeOK, Work
    <3>q. QED BY <2>1, <3>1, <3>2 DEF Execute, TypeOK
  <2>2. CASE FinishDispatch(j, n)
    <3>1. worker' \in Worker
      BY <2>2, <2>i, TurnsIsTyped DEF FinishDispatch
    <3>q. QED BY <2>2, <2>i, <3>1, FinishIsTyped DEF FinishDispatch, TypeOK
  <2>3. CASE ReadOutcome(j, n)
    <3>1. Verdict(j, n) \subseteq Outcome
      BY DEF Verdict, Outcome
    <3>2. worker' \in Worker
      BY <2>3, <2>i, <3>1, TurnsIsTyped, GoesIsTyped DEF ReadOutcome
    <3>q. QED BY <2>3, <3>2 DEF ReadOutcome, TypeOK
  <2>4. CASE LookUp(j, n)
    <3>1. worker' \in Worker
      BY <2>4, <2>i, TurnsIsTyped, GoesIsTyped DEF LookUp
    <3>q. QED BY <2>4, <3>1 DEF LookUp, Contend, TypeOK
  <2>5. CASE Settle(j, n)
    <3>1. worker' \in Worker
      BY <2>5, <2>i, TurnsIsTyped DEF Settle
    <3>q. QED BY <2>5, <2>i, <3>1, FinishIsTyped DEF Settle, TypeOK
  <2>q. QED BY <1>4, <2>1, <2>2, <2>3, <2>4, <2>5
<1>q. QED BY <1>1, <1>2, <1>3, <1>4 DEF WorkerStep

LEMMA HttpTyping ==
  ASSUME TypeOK, NEW j \in Job, NEW n \in RunNo,
         \/ Acknowledge(j, n) \/ DeadLetter(j, n) \/ Unreported(j, n)
         \/ \E r \in reports : LookUpReported(r, j, n) \/ SettleReported(r, j, n)
  PROVE  TypeOK'
<1>i. <<j, n>> \in Item
  BY DEF Item
<1>w. ASSUME NEW from, NEW to \in Work, Becomes(j, n, from, to)
      PROVE  work' \in [Job -> [RunNo -> Work]]
  BY <1>w DEF Becomes, TypeOK
<1>r. ASSUME NEW says \in {"completed", "retryable"}, Projects(j, n, says)
      PROVE  reports' \subseteq Report
  <2>1. [item |-> <<j, n>>, says |-> says, looked |-> FALSE] \in Report
    BY <1>i DEF Report
  <2>q. QED BY <1>r, <2>1 DEF Projects, TypeOK
<1>1. CASE Acknowledge(j, n)
  <2>1. "done" \in Work /\ "completed" \in {"completed", "retryable"}
    BY DEF Work
  <2>q. QED BY <1>1, <1>w, <1>r, <2>1 DEF Acknowledge, TypeOK
<1>2. CASE DeadLetter(j, n)
  <2>1. "failed" \in Work /\ "retryable" \in {"completed", "retryable"}
    BY DEF Work
  <2>q. QED BY <1>2, <1>w, <1>r, <2>1 DEF DeadLetter, TypeOK
<1>3. CASE Unreported(j, n)
  <2>1. {"open", "done", "failed"} \subseteq Work
    BY DEF Work
  <2>2. work' \in [Job -> [RunNo -> Work]]
    BY <1>3, <1>w, <2>1 DEF Unreported
  <2>q. QED BY <1>3, <2>2 DEF Unreported, TypeOK
<1>4. ASSUME NEW r \in reports, LookUpReported(r, j, n)
      PROVE  TypeOK'
  <2>1. reports' \subseteq Report /\ contended' \subseteq Job
    BY <1>4 DEF LookUpReported, TypeOK, Report, Contend
  <2>q. QED BY <1>4, <2>1 DEF LookUpReported, TypeOK
<1>5. ASSUME NEW r \in reports, SettleReported(r, j, n)
      PROVE  TypeOK'
  <2>1. r.says \in Outcome
    BY DEF TypeOK, Report, Outcome
  <2>q. QED BY <1>5, <2>1, FinishIsTyped DEF SettleReported, TypeOK
<1>q. QED BY <1>1, <1>2, <1>3, <1>4, <1>5

LEMMA OwnerTyping ==
  ASSUME TypeOK, NEW j \in Job,
         \/ \E what \in {"run_now", "disable"} : Ask(what, j) \/ Grant(what, j)
         \/ Save(j) \/ Archive(j) \/ TimeComes(j) \/ Crash
  PROVE  TypeOK'
<1>s. Scheduled(j) \in JobRow /\ Stopped("disabled") \in JobRow /\ Stopped("archived") \in JobRow
  BY RowsAreTyped DEF State
<1>j. job[j] \in JobRow
  BY DEF TypeOK
<1>1. ASSUME NEW what \in {"run_now", "disable"}, Ask(what, j)
      PROVE  TypeOK'
  BY <1>1 DEF Ask, TypeOK, Request
<1>2. ASSUME NEW what \in {"run_now", "disable"}, Grant(what, j)
      PROVE  TypeOK'
  <2>1. [Scheduled(j) EXCEPT !.ready = TRUE] \in JobRow
    BY <1>s DEF JobRow
  <2>2. job' \in [Job -> JobRow]
    BY <1>s, <1>2, <2>1 DEF Grant, TypeOK
  <2>q. QED BY <1>2, <2>2 DEF Grant, TypeOK
<1>3. CASE Save(j)
  <2>1. [job[j] EXCEPT !.enabled = FALSE, !.state = "disabled"] \in JobRow
    BY <1>j DEF JobRow, State
  <2>2. job' \in [Job -> JobRow]
    BY <1>s, <1>3, <2>1 DEF Save, TypeOK
  <2>q. QED BY <1>3, <2>2 DEF Save, TypeOK
<1>4. CASE Archive(j)
  BY <1>s, <1>4 DEF Archive, TypeOK
<1>5. CASE TimeComes(j)
  <2>1. [job[j] EXCEPT !.ready = TRUE] \in JobRow
    BY <1>j DEF JobRow
  <2>q. QED BY <1>5, <2>1 DEF TimeComes, TypeOK
<1>6. CASE Crash
  BY <1>6 DEF Crash, TypeOK, Resting, Worker, Outcome
<1>q. QED BY <1>1, <1>2, <1>3, <1>4, <1>5, <1>6

(***************************************************************************)
(* Every variable keeps its type.                                          *)
(***************************************************************************)
LEMMA Typing ==
  ASSUME TypeOK, [AutomationNext]_automationVars
  PROVE  TypeOK'
<1>1. CASE WorkerStep
  BY <1>1, WorkerTyping
<1>2. CASE HttpStep
  BY <1>2, HttpTyping DEF HttpStep
<1>3. CASE OwnerStep
  BY <1>3, OwnerTyping DEF OwnerStep
<1>4. CASE \E j \in Job : TimeComes(j)
  BY <1>4, OwnerTyping
<1>5. CASE Crash
  BY <1>5 DEF Crash, TypeOK, Resting, Worker, Outcome
<1>6. CASE UNCHANGED automationVars
  BY <1>6 DEF automationVars, TypeOK
<1>q. QED BY <1>1, <1>2, <1>3, <1>4, <1>5, <1>6 DEF AutomationNext

-----------------------------------------------------------------------------
(* A step that leaves the rows alone keeps what is said of them.           *)
LEMMA RowsUntouched ==
  ASSUME AutomationInv, UNCHANGED <<job, runs, made, ended, saved>>, contended \subseteq contended'
  PROVE  (\A j \in Job : Numbered(j)') /\ (\A j \in Undisturbed' : StateTells(j)')
<1>1. \A j \in Job : Numbered(j)'
  BY DEF AutomationInv, Numbered, Fresh
<1>2. \A j \in Undisturbed' : StateTells(j)'
  BY DEF AutomationInv, Undisturbed, StateTells, Active
<1>q. QED BY <1>1, <1>2

(* A step that leaves runs and settlers alone keeps what is said of them.  *)
LEMMA HandsUntouched ==
  ASSUME AutomationInv, UNCHANGED <<runs, work, worker, reports, contended>>
  PROVE  BatchAgrees' /\ InHand' /\ HandsAgree' /\ CompletedWasDone'
<1>1. BatchAgrees' /\ InHand'
  BY DEF AutomationInv, BatchAgrees, InHand
<1>2. HandsAgree'
  BY DEF AutomationInv, HandsAgree, ReportAgrees, LookedUp, Settling
<1>3. CompletedWasDone'
  BY DEF AutomationInv, CompletedWasDone
<1>q. QED BY <1>1, <1>2, <1>3

(* Finishing an active run, or one that a second settlement had in hand.   *)
LEMMA FinishKeepsRows ==
  ASSUME AutomationInv, NEW j \in Job, NEW n \in RunNo, NEW says \in Outcome,
         Finish(j, n, says), UNCHANGED <<made, saved, contended, ended>>,
         runs[j][n] # "none",
         j \notin contended => runs[j][n] \in {"running", "dispatched"},
         TypeOK'
  PROVE  (\A k \in Job : Numbered(k)') /\ (\A k \in Undisturbed' : StateTells(k)')
<1>1. /\ job' = [job EXCEPT ![j] = Afterwards(j, n, says)]
      /\ runs' = [runs EXCEPT ![j][n] = StatusOf(says)]
  BY DEF Finish
<1>2. Afterwards(j, n, says).due \in {0, job[j].due, Fresh(j)}
  BY DEF Afterwards, Scheduled, Stopped, AutomationInv, TypeOK, JobRow
<1>3. StatusOf(says) # "none" /\ StatusOf(says) # "running"
  BY DEF StatusOf, Outcome
<1>4. job'[j] = Afterwards(j, n, says) /\ runs'[j][n] = StatusOf(says)
  BY <1>1 DEF AutomationInv, TypeOK
<1>5. ASSUME NEW k \in Job, k # j PROVE job'[k] = job[k] /\ runs'[k] = runs[k]
  BY <1>1, <1>5 DEF AutomationInv, TypeOK
<1>6. ASSUME NEW m \in RunNo, m # n PROVE runs'[j][m] = runs[j][m]
  BY <1>1, <1>6 DEF AutomationInv, TypeOK
<1>7. ASSUME NEW k \in Job PROVE Numbered(k)'
  <2>1. CASE k = j
    BY <1>2, <1>3, <1>4, <1>6, <2>1 DEF AutomationInv, Numbered, Fresh
  <2>2. CASE k # j
    BY <1>5, <2>2 DEF AutomationInv, Numbered, Fresh
  <2>q. QED BY <2>1, <2>2
<1>8. ASSUME NEW k \in Undisturbed' PROVE StateTells(k)'
  <2>0. k \in Job /\ k \in Undisturbed
    BY DEF Undisturbed
  <2>1. CASE k = j
    <3>1. /\ StateTells(j)
          /\ runs[j][n] \in {"running", "dispatched"}
      BY <2>0, <2>1 DEF AutomationInv, Undisturbed
    <3>2. n = made[j] /\ j \notin ended
      BY <3>1 DEF StateTells, Active
    <3>3. \A m \in RunNo : m # n => runs'[j][m] \notin {"running", "dispatched"}
      BY <1>6, <3>1, <3>2 DEF StateTells
    <3>4. StatusOf(says) = "dispatched" => Afterwards(j, n, says).state = "dispatched"
      BY DEF StatusOf, Afterwards, Outcome, AutomationInv, TypeOK, JobRow
    <3>q. QED BY <1>3, <1>4, <2>1, <3>2, <3>3, <3>4 DEF StateTells
  <2>2. CASE k # j
    BY <1>5, <2>0, <2>2 DEF AutomationInv, StateTells, Active
  <2>q. QED BY <2>1, <2>2
<1>q. QED BY <1>7, <1>8

-----------------------------------------------------------------------------
DoneStays == \A j \in Job, n \in RunNo : work[j][n] = "done" => work'[j][n] = "done"

(* A step that starts no settlement and undoes no work.                    *)
LEMMA HandsKept ==
  ASSUME AutomationInv, UNCHANGED <<runs, worker, contended>>, DoneStays,
         \A r \in reports' \ reports :
           /\ ~r.looked
           /\ \A j \in Job, n \in RunNo :
                r.item = <<j, n>> /\ r.says = "completed" => work'[j][n] = "done"
  PROVE  BatchAgrees' /\ InHand' /\ HandsAgree' /\ CompletedWasDone'
<1>1. BatchAgrees' /\ InHand'
  BY DEF AutomationInv, BatchAgrees, InHand, DoneStays
<1>2. CompletedWasDone'
  BY DEF AutomationInv, CompletedWasDone, DoneStays
<1>3. ASSUME NEW j \in Job, NEW n \in RunNo
      PROVE  (Settling(j, n) => LookedUp(j, n))'
  BY DEF AutomationInv, HandsAgree, LookedUp, Settling
<1>4. ASSUME NEW j \in Job, NEW n \in RunNo, NEW r \in reports', r.item = <<j, n>>
      PROVE  ReportAgrees(r, j, n)'
  <2>1. CASE r \in reports
    <3>1. ReportAgrees(r, j, n)
      BY <1>4, <2>1 DEF AutomationInv, HandsAgree
    <3>2. \A x \in reports' : x.looked => x \in reports
      OBVIOUS
    <3>q. QED BY <3>1, <3>2 DEF ReportAgrees, LookedUp, Settling, DoneStays
  <2>2. CASE r \notin reports
    BY <1>4, <2>2 DEF ReportAgrees
  <2>q. QED BY <2>1, <2>2
<1>5. HandsAgree'
  BY <1>3, <1>4 DEF HandsAgree
<1>q. QED BY <1>1, <1>2, <1>5

LEMMA BecomesIsDone ==
  ASSUME TypeOK, NEW j \in Job, NEW n \in RunNo, NEW from, NEW to,
         Becomes(j, n, from, to), "done" \in from => to = "done"
  PROVE  DoneStays /\ work'[j][n] = to
<1>1. work' = [work EXCEPT ![j][n] = to] /\ work[j][n] \in from
  BY DEF Becomes
<1>2. work'[j][n] = to
  BY <1>1 DEF TypeOK
<1>3. ASSUME NEW k \in Job, NEW m \in RunNo, work[k][m] = "done"
      PROVE  work'[k][m] = "done"
  BY <1>1, <1>2, <1>3 DEF TypeOK
<1>q. QED BY <1>2, <1>3 DEF DoneStays

LEMMA FateKeepsInv ==
  ASSUME AutomationInv, NEW j \in Job, NEW n \in RunNo,
         Acknowledge(j, n) \/ DeadLetter(j, n) \/ Unreported(j, n),
         TypeOK'
  PROVE  AutomationInv'
<1>t. TypeOK
  BY DEF AutomationInv
<1>1. UNCHANGED <<job, runs, made, worker, asked, crashes, saved, contended, ended>>
  BY DEF Acknowledge, DeadLetter, Unreported
<1>2. DoneStays
  BY <1>t, BecomesIsDone DEF Acknowledge, DeadLetter, Unreported
<1>3. ASSUME NEW r \in reports' \ reports
      PROVE  /\ ~r.looked
             /\ \A k \in Job, m \in RunNo :
                  r.item = <<k, m>> /\ r.says = "completed" => work'[k][m] = "done"
  <2>1. CASE Acknowledge(j, n)
    <3>1. r = [item |-> <<j, n>>, says |-> "completed", looked |-> FALSE]
      BY <2>1 DEF Acknowledge, Projects
    <3>2. work'[j][n] = "done"
      BY <1>t, <2>1, BecomesIsDone DEF Acknowledge
    <3>q. QED BY <3>1, <3>2
  <2>2. CASE DeadLetter(j, n)
    <3>1. r = [item |-> <<j, n>>, says |-> "retryable", looked |-> FALSE]
      BY <2>2 DEF DeadLetter, Projects
    <3>q. QED BY <3>1
  <2>3. CASE Unreported(j, n)
    BY <2>3 DEF Unreported
  <2>q. QED BY <2>1, <2>2, <2>3
<1>4. BatchAgrees' /\ InHand' /\ HandsAgree' /\ CompletedWasDone'
  BY <1>1, <1>2, <1>3, HandsKept
<1>5. (\A k \in Job : Numbered(k)') /\ (\A k \in Undisturbed' : StateTells(k)')
  BY <1>1, RowsUntouched
<1>q. QED BY <1>4, <1>5 DEF AutomationInv

(* The worker's turns.                                                     *)
LEMMA ExecuteKeepsInv ==
  ASSUME AutomationInv, NEW j \in Job, NEW n \in RunNo, Execute(j, n), TypeOK'
  PROVE  AutomationInv'
<1>t. TypeOK
  BY DEF AutomationInv
<1>1. /\ UNCHANGED <<job, runs, made, reports, asked, crashes, saved, contended, ended>>
      /\ worker.at = "jobs" /\ <<j, n>> \in worker.todo
      /\ worker'.at = "finishing" /\ worker'.item = <<j, n>> /\ worker'.todo = worker.todo
  BY DEF Execute, Goes
<1>2. worker'.says # "completed"
  BY DEF Execute, Creates, Finds, Raises
<1>3. DoneStays
  <2>1. CASE Creates(j, n)
    BY <1>t, <2>1 DEF Creates, DoneStays, TypeOK
  <2>q. QED BY <2>1 DEF Execute, Finds, Raises, DoneStays
<1>4. BatchAgrees' /\ InHand' /\ CompletedWasDone'
  <2>1. BatchAgrees'
    BY <1>1 DEF AutomationInv, BatchAgrees
  <2>2. InHand'
    BY <1>1, <1>2 DEF InHand, Item
  <2>3. CompletedWasDone'
    BY <1>1, <1>3 DEF AutomationInv, CompletedWasDone, DoneStays
  <2>q. QED BY <2>1, <2>2, <2>3
<1>5. HandsAgree'
  BY <1>1, <1>3 DEF AutomationInv, HandsAgree, ReportAgrees, LookedUp, Settling, DoneStays
<1>6. (\A k \in Job : Numbered(k)') /\ (\A k \in Undisturbed' : StateTells(k)')
  BY <1>1, RowsUntouched
<1>q. QED BY <1>4, <1>5, <1>6 DEF AutomationInv

LEMMA ReadingKeepsInv ==
  ASSUME AutomationInv, TypeOK',
         \/ ReadDispatched \/ Round
         \/ \E j \in Job, n \in RunNo : ReadOutcome(j, n)
  PROVE  AutomationInv'
<1>1. /\ UNCHANGED <<job, runs, made, work, reports, asked, crashes, saved, contended, ended>>
      /\ worker.at \in {"jobs", "reconciling"}
  BY DEF ReadDispatched, Round, ReadOutcome
<1>2. worker'.at \in {"reconciling", "deciding", "idle"}
  <2>1. CASE ReadDispatched
    <3>1. \E todo : worker' = [at |-> "reconciling", todo |-> todo,
                              item |-> Nothing, says |-> "dispatched"]
      BY <2>1 DEF ReadDispatched, Turns, Goes
    <3>q. QED BY <3>1
  <2>2. CASE Round
    BY <2>2 DEF Round, Resting
  <2>3. ASSUME NEW j \in Job, NEW n \in RunNo, ReadOutcome(j, n)
        PROVE  worker'.at \in {"reconciling", "deciding"}
    BY <2>3 DEF ReadOutcome, Turns, Goes
  <2>q. QED BY <2>1, <2>2, <2>3
<1>3. BatchAgrees' /\ InHand'
  <2>1. CASE ReadDispatched
    <3>1. worker' = [at |-> "reconciling", todo |-> {i \in Item : runs[i[1]][i[2]] = "dispatched"},
                     item |-> Nothing, says |-> "dispatched"]
      BY <2>1 DEF ReadDispatched, Turns, Goes
    <3>2. \A j \in Job, n \in RunNo : <<j, n>> \in worker'.todo => runs[j][n] = "dispatched"
      BY <3>1
    <3>q. QED BY <1>1, <3>1, <3>2 DEF BatchAgrees, InHand, Past
  <2>2. CASE Round
    BY <1>1, <2>2 DEF Round, Resting, BatchAgrees, InHand
  <2>3. ASSUME NEW j \in Job, NEW n \in RunNo, ReadOutcome(j, n)
        PROVE  BatchAgrees' /\ InHand'
    <3>1. /\ worker.at = "reconciling"
          /\ worker'.todo \subseteq worker.todo
      BY <2>3 DEF ReadOutcome, Turns, Goes
    <3>2. BatchAgrees'
      BY <1>1, <1>2, <3>1 DEF AutomationInv, BatchAgrees
    <3>3. CASE worker'.at = "reconciling"
      BY <3>2, <3>3 DEF InHand
    <3>4. CASE \E says \in Verdict(j, n) :
                 Goes("deciding", <<j, n>>, worker.todo \ {<<j, n>>}, says)
      <4>1. PICK says \in Verdict(j, n) :
              worker' = [at |-> "deciding", todo |-> worker.todo \ {<<j, n>>},
                         item |-> <<j, n>>, says |-> says]
        BY <3>4 DEF Goes
      <4>2. says # "dispatched" /\ (says = "completed" => work[j][n] = "done")
        BY DEF Verdict
      <4>q. QED BY <1>1, <3>2, <4>1, <4>2 DEF InHand, Item
    <3>q. QED BY <2>3, <3>3, <3>4 DEF ReadOutcome, Turns, Goes
  <2>q. QED BY <2>1, <2>2, <2>3
<1>4. HandsAgree' /\ CompletedWasDone'
  <2>1. HandsAgree'
    BY <1>1, <1>2 DEF AutomationInv, HandsAgree, ReportAgrees, LookedUp, Settling
  <2>2. CompletedWasDone'
    BY <1>1 DEF AutomationInv, CompletedWasDone
  <2>q. QED BY <2>1, <2>2
<1>5. (\A k \in Job : Numbered(k)') /\ (\A k \in Undisturbed' : StateTells(k)')
  BY <1>1, RowsUntouched
<1>q. QED BY <1>3, <1>4, <1>5 DEF AutomationInv

-----------------------------------------------------------------------------
(* Ending a run that nobody else has in hand, or that is contended for.    *)
LEMMA FinishKeepsHands ==
  ASSUME AutomationInv, NEW j \in Job, NEW n \in RunNo, NEW says \in Outcome,
         Finish(j, n, says), UNCHANGED <<work, contended>>,
         says = "completed" => work[j][n] = "done",
         reports' \subseteq reports,
         worker' = worker \/ worker'.at \in {"jobs", "reconciling"},
         worker'.todo \subseteq worker.todo,
         worker'.at \in {"jobs", "finishing"} <=> worker.at \in {"jobs", "finishing"},
         worker'.at \in {"reconciling", "deciding", "settling"}
           <=> worker.at \in {"reconciling", "deciding", "settling"},
         <<j, n>> \in worker'.todo => worker'.at \notin {"jobs", "finishing"},
         j \notin contended => /\ ~Settling(j, n)'
                              /\ \A r \in reports' : r.looked => r.item # <<j, n>>
  PROVE  BatchAgrees' /\ HandsAgree' /\ CompletedWasDone'
<1>1. /\ runs' = [runs EXCEPT ![j][n] = StatusOf(says)]
      /\ StatusOf(says) \in Past
      /\ StatusOf(says) = "completed" <=> says = "completed"
  BY DEF Finish, StatusOf, Outcome, Past
<1>2. runs'[j][n] = StatusOf(says)
  BY <1>1 DEF AutomationInv, TypeOK
<1>3. ASSUME NEW k \in Job, NEW m \in RunNo, k # j \/ m # n
      PROVE  runs'[k][m] = runs[k][m]
  BY <1>1, <1>3 DEF AutomationInv, TypeOK
<1>4. ASSUME NEW k \in Job, NEW m \in RunNo PROVE runs[k][m] \in Past => runs'[k][m] \in Past
  BY <1>1, <1>2, <1>3
<1>5. BatchAgrees'
  <2>1. SUFFICES ASSUME NEW k \in Job, NEW m \in RunNo, <<k, m>> \in worker'.todo
                 PROVE  /\ worker'.at \in {"jobs", "finishing"} => runs'[k][m] = "running"
                        /\ worker'.at \in {"reconciling", "deciding", "settling"}
                             => runs'[k][m] \in Past
    BY DEF BatchAgrees
  <2>2. /\ worker.at \in {"jobs", "finishing"} => runs[k][m] = "running"
        /\ worker.at \in {"reconciling", "deciding", "settling"} => runs[k][m] \in Past
    BY <2>1 DEF AutomationInv, BatchAgrees
  <2>3. CASE k = j /\ m = n
    BY <1>1, <1>2, <2>1, <2>3
  <2>4. CASE k # j \/ m # n
    BY <1>3, <2>2, <2>4
  <2>q. QED BY <2>3, <2>4
<1>6. CompletedWasDone'
  <2>1. SUFFICES ASSUME NEW k \in Job, NEW m \in RunNo, runs'[k][m] = "completed"
                 PROVE  work[k][m] = "done"
    BY DEF CompletedWasDone
  <2>q. QED BY <1>1, <1>2, <1>3, <2>1 DEF AutomationInv, CompletedWasDone
<1>7. HandsAgree'
  <2>1. ASSUME NEW k \in Job, NEW m \in RunNo, Settling(k, m)'
        PROVE  LookedUp(k, m)'
    <3>1. worker' = worker /\ Settling(k, m)
      BY <2>1 DEF Settling
    <3>2. LookedUp(k, m)
      BY <3>1 DEF AutomationInv, HandsAgree
    <3>3. CASE k = j /\ m = n
      BY <1>4, <2>1, <3>2, <3>3 DEF LookedUp
    <3>4. CASE k # j \/ m # n
      BY <1>3, <3>2, <3>4 DEF LookedUp
    <3>q. QED BY <3>3, <3>4
  <2>2. ASSUME NEW k \in Job, NEW m \in RunNo, NEW r \in reports', r.item = <<k, m>>
        PROVE  ReportAgrees(r, k, m)'
    <3>1. r \in reports /\ ReportAgrees(r, k, m)
      BY <2>2 DEF AutomationInv, HandsAgree
    <3>2. r.looked => LookedUp(k, m)'
      <4>1. CASE k = j /\ m = n
        BY <1>4, <2>2, <3>1, <4>1 DEF LookedUp, ReportAgrees
      <4>2. CASE k # j \/ m # n
        BY <1>3, <3>1, <4>2 DEF LookedUp, ReportAgrees
      <4>q. QED BY <4>1, <4>2
    <3>3. Settling(k, m)' => Settling(k, m)
      BY DEF Settling
    <3>q. QED BY <3>1, <3>2, <3>3 DEF ReportAgrees
  <2>q. QED BY <2>1, <2>2 DEF HandsAgree
<1>q. QED BY <1>5, <1>6, <1>7

LEMMA FinishDispatchKeepsInv ==
  ASSUME AutomationInv, NEW j \in Job, NEW n \in RunNo, FinishDispatch(j, n), TypeOK'
  PROVE  AutomationInv'
<1>1. /\ Finish(j, n, worker.says)
      /\ UNCHANGED <<made, work, reports, asked, crashes, saved, contended, ended>>
      /\ worker.at = "finishing" /\ worker.item = <<j, n>>
      /\ worker'.at = "jobs" /\ worker'.todo = worker.todo \ {<<j, n>>}
  BY DEF FinishDispatch, Turns, Goes
<1>2. worker.says \in Outcome /\ worker.says # "completed" /\ <<j, n>> \in worker.todo
  BY <1>1 DEF AutomationInv, InHand, TypeOK, Worker
<1>3. runs[j][n] = "running"
  BY <1>1, <1>2 DEF AutomationInv, BatchAgrees
<1>4. \A r \in reports' : r.looked => r.item # <<j, n>>
  BY <1>1, <1>3 DEF AutomationInv, HandsAgree, ReportAgrees, LookedUp, Past
<1>5. (\A k \in Job : Numbered(k)') /\ (\A k \in Undisturbed' : StateTells(k)')
  BY <1>1, <1>2, <1>3, FinishKeepsRows
<1>6. BatchAgrees' /\ HandsAgree' /\ CompletedWasDone'
  BY <1>1, <1>2, <1>4, FinishKeepsHands DEF Settling
<1>7. InHand'
  BY <1>1 DEF InHand
<1>q. QED BY <1>5, <1>6, <1>7 DEF AutomationInv

LEMMA SettleKeepsInv ==
  ASSUME AutomationInv, NEW j \in Job, NEW n \in RunNo, Settle(j, n), TypeOK'
  PROVE  AutomationInv'
<1>1. /\ Finish(j, n, worker.says)
      /\ UNCHANGED <<made, work, reports, asked, crashes, saved, contended, ended>>
      /\ worker.at = "settling" /\ worker.item = <<j, n>> /\ Settling(j, n)
      /\ worker'.at = "reconciling" /\ worker'.todo = worker.todo
  BY DEF Settle, Settling, Turns, Goes
<1>2. /\ worker.says \in Outcome
      /\ worker.says = "completed" => work[j][n] = "done"
  BY <1>1 DEF AutomationInv, InHand, TypeOK, Worker
<1>3. LookedUp(j, n)
  BY <1>1 DEF AutomationInv, HandsAgree
<1>4. j \notin contended => \A r \in reports' : r.looked => r.item # <<j, n>>
  BY <1>1 DEF AutomationInv, HandsAgree, ReportAgrees
<1>5. (\A k \in Job : Numbered(k)') /\ (\A k \in Undisturbed' : StateTells(k)')
  BY <1>1, <1>2, <1>3, FinishKeepsRows DEF LookedUp, Past
<1>6. BatchAgrees' /\ HandsAgree' /\ CompletedWasDone'
  BY <1>1, <1>2, <1>4, FinishKeepsHands DEF Settling
<1>7. InHand'
  BY <1>1 DEF InHand
<1>q. QED BY <1>5, <1>6, <1>7 DEF AutomationInv

LEMMA SettleReportedKeepsInv ==
  ASSUME AutomationInv, NEW j \in Job, NEW n \in RunNo,
         NEW r \in reports, SettleReported(r, j, n), TypeOK'
  PROVE  AutomationInv'
<1>1. /\ Finish(j, n, r.says)
      /\ UNCHANGED <<made, work, worker, asked, crashes, saved, contended, ended>>
      /\ r.item = <<j, n>> /\ r.looked /\ reports' = reports \ {r}
  BY DEF SettleReported
<1>2. ReportAgrees(r, j, n)
  BY <1>1 DEF AutomationInv, HandsAgree
<1>3. /\ r.says \in Outcome
      /\ r.says = "completed" => work[j][n] = "done"
  BY <1>2 DEF AutomationInv, TypeOK, Report, Outcome, ReportAgrees
<1>4. LookedUp(j, n)
  BY <1>1, <1>2 DEF ReportAgrees
<1>5. j \notin contended => /\ ~Settling(j, n)'
                           /\ \A x \in reports' : x.looked => x.item # <<j, n>>
  BY <1>1, <1>2 DEF ReportAgrees, Settling
<1>6. <<j, n>> \in worker.todo => worker.at \notin {"jobs", "finishing"}
  BY <1>4 DEF AutomationInv, BatchAgrees, LookedUp, Past
<1>7. (\A k \in Job : Numbered(k)') /\ (\A k \in Undisturbed' : StateTells(k)')
  BY <1>1, <1>3, <1>4, FinishKeepsRows DEF LookedUp, Past
<1>8. BatchAgrees' /\ HandsAgree' /\ CompletedWasDone'
  BY <1>1, <1>3, <1>5, <1>6, FinishKeepsHands
<1>9. InHand'
  BY <1>1 DEF AutomationInv, InHand
<1>q. QED BY <1>7, <1>8, <1>9 DEF AutomationInv

LEMMA LookUpKeepsInv ==
  ASSUME AutomationInv, NEW j \in Job, NEW n \in RunNo, LookUp(j, n), TypeOK'
  PROVE  AutomationInv'
<1>1. /\ UNCHANGED <<job, runs, made, work, reports, asked, crashes, saved, ended>>
      /\ worker.at = "deciding" /\ worker.item = <<j, n>>
      /\ worker'.todo = worker.todo
      /\ contended \subseteq contended'
  BY DEF LookUp, Contend, Turns, Goes
<1>2. \/ /\ Settleable(j, n) /\ Contend(j, n)
         /\ worker' = [at |-> "settling", todo |-> worker.todo,
                       item |-> <<j, n>>, says |-> worker.says]
      \/ worker'.at = "reconciling"
  BY DEF LookUp, Turns, Goes
<1>3. (\A k \in Job : Numbered(k)') /\ (\A k \in Undisturbed' : StateTells(k)')
  BY <1>1, RowsUntouched
<1>4. BatchAgrees'
  BY <1>1, <1>2 DEF AutomationInv, BatchAgrees
<1>5. InHand'
  BY <1>1, <1>2 DEF AutomationInv, InHand, Item
<1>6. CompletedWasDone'
  BY <1>1 DEF AutomationInv, CompletedWasDone
<1>7. HandsAgree'
  <2>1. ASSUME NEW k \in Job, NEW m \in RunNo, Settling(k, m)'
        PROVE  LookedUp(k, m)'
    <3>1. k = j /\ m = n /\ Settleable(j, n)
      BY <1>2, <2>1 DEF Settling
    <3>q. QED BY <1>1, <3>1 DEF LookedUp, Settleable, Past
  <2>2. ASSUME NEW k \in Job, NEW m \in RunNo, NEW r \in reports', r.item = <<k, m>>
        PROVE  ReportAgrees(r, k, m)'
    <3>1. r \in reports /\ ReportAgrees(r, k, m)
      BY <1>1, <2>2 DEF AutomationInv, HandsAgree
    <3>2. ASSUME r.looked, k \notin contended' PROVE ~Settling(k, m)'
      <4>1. SUFFICES ASSUME Settling(k, m)' PROVE FALSE
        OBVIOUS
      <4>2. k = j /\ m = n /\ Contend(j, n)
        BY <1>2, <4>1 DEF Settling
      <4>3. Looking(j, n)
        BY <2>2, <3>1, <3>2, <4>2 DEF Looking
      <4>q. QED BY <3>2, <4>2, <4>3 DEF Contend
    <3>q. QED BY <1>1, <3>1, <3>2 DEF ReportAgrees, LookedUp
  <2>q. QED BY <2>1, <2>2 DEF HandsAgree
<1>q. QED BY <1>3, <1>4, <1>5, <1>6, <1>7 DEF AutomationInv

LEMMA LookUpReportedKeepsInv ==
  ASSUME AutomationInv, NEW j \in Job, NEW n \in RunNo,
         NEW r \in reports, LookUpReported(r, j, n), TypeOK'
  PROVE  AutomationInv'
<1>1. /\ UNCHANGED <<job, runs, made, work, worker, asked, crashes, saved, ended>>
      /\ r.item = <<j, n>> /\ ~r.looked
      /\ contended \subseteq contended'
  BY DEF LookUpReported, Contend
<1>2. (\A k \in Job : Numbered(k)') /\ (\A k \in Undisturbed' : StateTells(k)')
  BY <1>1, RowsUntouched
<1>3. BatchAgrees' /\ InHand' /\ CompletedWasDone'
  BY <1>1 DEF AutomationInv, BatchAgrees, InHand, CompletedWasDone
<1>r. r.says = "completed" => work[j][n] = "done"
  BY <1>1 DEF AutomationInv, HandsAgree, ReportAgrees
<1>4. ASSUME NEW k \in Job, NEW m \in RunNo, Settling(k, m)'
      PROVE  LookedUp(k, m)'
  BY <1>1, <1>4 DEF AutomationInv, HandsAgree, LookedUp, Settling
<1>5. ASSUME NEW k \in Job, NEW m \in RunNo, NEW x \in reports', x.item = <<k, m>>
      PROVE  ReportAgrees(x, k, m)'
  <2>d. DEFINE s == [r EXCEPT !.looked = TRUE]
  <2>r. r \in Report
    BY DEF AutomationInv, TypeOK
  <2>s. s.item = <<j, n>> /\ s.says = r.says /\ s.looked
    BY <1>1, <2>r DEF Report
  <2>h. HIDE DEF s
  <2>1. \/ Settleable(j, n) /\ Contend(j, n) /\ reports' = (reports \ {r}) \cup {s}
        \/ reports' = reports \ {r}
    BY DEF LookUpReported, s
  <2>2. CASE x = s /\ Settleable(j, n) /\ Contend(j, n) /\ reports' = (reports \ {r}) \cup {s}
    <3>1. k = j /\ m = n
      BY <1>5, <2>2, <2>s
    <3>2. s.says = "completed" => work[j][n] = "done"
      BY <1>r, <2>s
    <3>3. LookedUp(j, n)'
      BY <1>1, <2>2 DEF LookedUp, Settleable, Past
    <3>4. ASSUME j \notin contended'
          PROVE  /\ ~Settling(j, n)'
                 /\ \A y \in reports' : y.looked /\ y.item = x.item => y = x
      <4>1. ~Looking(j, n)
        BY <2>2, <3>4 DEF Contend
      <4>q. QED BY <1>1, <1>5, <2>2, <3>1, <4>1 DEF Looking, Settling
    <3>q. QED BY <1>1, <2>2, <3>1, <3>2, <3>3, <3>4 DEF ReportAgrees
  <2>3. CASE x \in reports
    <3>1. ReportAgrees(x, k, m)
      BY <1>5, <2>3 DEF AutomationInv, HandsAgree
    <3>2. ASSUME x.looked, k \notin contended', NEW y \in reports', y.looked, y.item = x.item
          PROVE  y = x
      <4>1. CASE y \in reports
        BY <1>1, <3>1, <3>2, <4>1 DEF ReportAgrees
      <4>2. CASE y \notin reports
        <5>1. y = s /\ Contend(j, n)
          BY <2>1, <4>2
        <5>2. x.item = <<j, n>> /\ k = j
          BY <1>5, <2>s, <3>2, <5>1
        <5>3. Looking(j, n)
          BY <2>3, <3>2, <5>2 DEF Looking
        <5>q. QED BY <3>2, <5>1, <5>2, <5>3 DEF Contend
      <4>q. QED BY <4>1, <4>2
    <3>3. /\ x.says = "completed" => work'[k][m] = "done"
          /\ x.looked => LookedUp(k, m)'
      BY <1>1, <3>1 DEF ReportAgrees, LookedUp
    <3>4. x.looked /\ k \notin contended' => ~Settling(k, m)'
      BY <1>1, <3>1 DEF ReportAgrees, Settling
    <3>q. QED BY <3>2, <3>3, <3>4 DEF ReportAgrees
  <2>q. QED BY <2>1, <2>2, <2>3
<1>6. HandsAgree'
  BY <1>4, <1>5 DEF HandsAgree
<1>q. QED BY <1>2, <1>3, <1>6 DEF AutomationInv

(* A claim starts the run that is next, or takes over the one left running. *)
LEMMA ClaimKeepsInv ==
  ASSUME AutomationInv, Claim, TypeOK'
  PROVE  AutomationInv'
<1>1. UNCHANGED <<work, reports, asked, crashes, saved, contended, ended>>
  BY DEF Claim
<1>2. ASSUME NEW j \in Job
      PROVE  /\ job'[j] = IF Due(j)
                          THEN [job[j] EXCEPT !.state = "running", !.ready = FALSE]
                          ELSE job[j]
             /\ made'[j] = IF Runs(j) THEN job[j].due ELSE made[j]
             /\ \A n \in RunNo :
                  runs'[j][n] = IF Runs(j) /\ n = job[j].due THEN "running" ELSE runs[j][n]
  BY DEF Claim
<1>3. /\ worker'.at = "jobs"
      /\ worker'.todo = {<<j, job[j].due>> : j \in {k \in Job : Runs(k)}}
  BY DEF Claim, Turns, Goes
<1>4. ASSUME NEW j \in Job
      PROVE  /\ job[j] \in JobRow /\ made[j] \in Nat
             /\ job'[j].due = job[j].due /\ job'[j].enabled = job[j].enabled
             /\ Due(j) => job'[j].state = "running"
  <2>1. job[j] \in JobRow /\ made[j] \in Nat
    BY DEF AutomationInv, TypeOK
  <2>2. CASE Due(j)
    <3>1. job'[j] = [job[j] EXCEPT !.state = "running", !.ready = FALSE]
      BY <1>2, <2>2
    <3>q. QED BY <2>1, <3>1 DEF JobRow
  <2>3. CASE ~Due(j)
    <3>1. job'[j] = job[j]
      BY <1>2, <2>3
    <3>q. QED BY <2>1, <2>3, <3>1
  <2>q. QED BY <2>2, <2>3
<1>5. ASSUME NEW j \in Job, Runs(j)
      PROVE  /\ job[j].due \in RunNo
             /\ runs[j][job[j].due] = "none" => job[j].due = Fresh(j)
             /\ runs[j][job[j].due] = "running" => job[j].due = made[j]
  <2>1. Numbered(j) /\ job[j].due \in RunNo
    BY <1>5 DEF AutomationInv, Runs, Due
  <2>q. QED BY <1>4, <2>1 DEF Numbered, Fresh, RunNo
<1>6. ASSUME NEW j \in Job PROVE Numbered(j)'
  <2>1. Numbered(j)
    BY DEF AutomationInv
  <2>2. CASE Runs(j)
    <3>d. DEFINE due == job[j].due
    <3>0. /\ due \in RunNo /\ made'[j] = due /\ made[j] \in Nat
          /\ due = made[j] \/ due = made[j] + 1
      <4>1. runs[j][due] \in {"none", "running"}
        BY <2>2 DEF Runs
      <4>q. QED BY <1>2, <1>4, <1>5, <2>2, <4>1 DEF Fresh
    <3>1. \A n \in RunNo : runs'[j][n] # "none" <=> n <= due
      <4>1. ASSUME NEW n \in RunNo PROVE runs'[j][n] # "none" <=> n <= due
        <5>1. runs'[j][n] = IF n = due THEN "running" ELSE runs[j][n]
          BY <1>2, <2>2
        <5>2. runs[j][n] # "none" <=> n <= made[j]
          BY <2>1 DEF Numbered
        <5>q. QED BY <3>0, <5>1, <5>2 DEF RunNo
      <4>q. QED BY <4>1
    <3>q. QED BY <1>4, <3>0, <3>1 DEF Numbered
  <2>3. CASE ~Runs(j)
    <3>1. made'[j] = made[j] /\ \A n \in RunNo : runs'[j][n] = runs[j][n]
      BY <1>2, <2>3
    <3>q. QED BY <1>4, <2>1, <3>1 DEF Numbered, Fresh
  <2>q. QED BY <2>2, <2>3
<1>7. ASSUME NEW j \in Undisturbed' PROVE StateTells(j)'
  <2>0. j \in Job /\ j \in Undisturbed /\ StateTells(j) /\ Numbered(j)
    BY <1>1 DEF Undisturbed, AutomationInv
  <2>1. CASE Runs(j)
    <3>1. Due(j) /\ job[j].enabled /\ job[j].state # "dispatched"
      BY <2>1 DEF Runs, Due
    <3>2. \A n \in RunNo : n # job[j].due => runs[j][n] \notin {"running", "dispatched"}
      BY <1>4, <1>5, <2>0, <2>1, <3>1 DEF StateTells, Fresh, Runs
    <3>3. j \notin ended
      BY <2>0, <3>1 DEF StateTells
    <3>4. /\ made'[j] = job[j].due /\ job'[j].due = job[j].due /\ job'[j].state = "running"
          /\ \A n \in RunNo : n # job[j].due => runs'[j][n] = runs[j][n]
          /\ job[j].due \in RunNo /\ runs'[j][job[j].due] = "running"
      BY <1>2, <1>4, <1>5, <2>0, <2>1, <3>1
    <3>q. QED BY <1>1, <3>2, <3>3, <3>4 DEF StateTells
  <2>2. CASE ~Runs(j)
    <3>1. Due(j) => \A n \in RunNo : runs[j][n] \notin {"running", "dispatched"}
      BY <2>0, <2>2 DEF StateTells, Runs, Due
    <3>2. \A n \in RunNo : runs'[j][n] = runs[j][n]
      BY <1>2, <2>0, <2>2
    <3>3. made'[j] = made[j] /\ (~Due(j) => job'[j] = job[j])
      BY <1>2, <2>0, <2>2
    <3>4. Due(j) => j \notin ended
      BY <2>0 DEF StateTells, Due
    <3>5. Active(j)' = Active(j)
      BY <3>2 DEF Active
    <3>q. QED BY <1>1, <2>0, <3>1, <3>2, <3>3, <3>4, <3>5 DEF StateTells
  <2>q. QED BY <2>1, <2>2
<1>8. ASSUME NEW j \in Job, NEW n \in RunNo, runs[j][n] \in Past
      PROVE  runs'[j][n] = runs[j][n]
  BY <1>2, <1>8 DEF Runs, Past
<1>9. BatchAgrees' /\ InHand'
  <2>1. ASSUME NEW j \in Job, NEW n \in RunNo, <<j, n>> \in worker'.todo
        PROVE  runs'[j][n] = "running"
    <3>1. Runs(j) /\ n = job[j].due
      BY <1>3, <2>1
    <3>q. QED BY <1>2, <3>1
  <2>q. QED BY <1>3, <2>1 DEF BatchAgrees, InHand
<1>10. CompletedWasDone'
  <2>1. ASSUME NEW j \in Job, NEW n \in RunNo, runs'[j][n] = "completed"
        PROVE  work'[j][n] = "done"
    <3>1. runs[j][n] = "completed"
      BY <1>2, <2>1
    <3>q. QED BY <1>1, <3>1 DEF AutomationInv, CompletedWasDone
  <2>q. QED BY <2>1 DEF CompletedWasDone
<1>11. HandsAgree'
  <2>1. ASSUME NEW j \in Job, NEW n \in RunNo, LookedUp(j, n) PROVE LookedUp(j, n)'
    BY <1>1, <1>8, <2>1 DEF LookedUp
  <2>q. QED BY <1>1, <1>3, <2>1 DEF AutomationInv, HandsAgree, ReportAgrees, Settling
<1>q. QED BY <1>6, <1>7, <1>9, <1>10, <1>11 DEF AutomationInv

-----------------------------------------------------------------------------
(* A step that writes the row of an idle job, or of one it counts as saved. *)
LEMMA RowWritten ==
  ASSUME AutomationInv, NEW j \in Job, NEW row \in JobRow,
         job' = [job EXCEPT ![j] = row], UNCHANGED <<runs, made, contended>>,
         saved \subseteq saved', ended' \subseteq ended \cup {j},
         row.due \in {0, job[j].due, Fresh(j)},
         j \in Undisturbed' => Active(j) = {},
         j \in ended' => ~row.enabled
  PROVE  (\A k \in Job : Numbered(k)') /\ (\A k \in Undisturbed' : StateTells(k)')
<1>1. job'[j] = row /\ \A k \in Job : k # j => job'[k] = job[k]
  BY DEF AutomationInv, TypeOK
<1>2. ASSUME NEW k \in Job PROVE Numbered(k)'
  BY <1>1 DEF AutomationInv, Numbered, Fresh
<1>3. ASSUME NEW k \in Undisturbed' PROVE StateTells(k)'
  <2>0. k \in Job /\ k \in Undisturbed
    BY DEF Undisturbed
  <2>1. CASE k = j
    BY <1>1, <1>3, <2>1 DEF StateTells, Active
  <2>2. CASE k # j
    BY <1>1, <2>0, <2>2 DEF AutomationInv, StateTells, Active
  <2>q. QED BY <2>1, <2>2
<1>q. QED BY <1>2, <1>3

(* An undisturbed job that is neither running nor dispatched is idle.      *)
LEMMA IdleByState ==
  ASSUME AutomationInv, NEW j \in Undisturbed, ~Busy(j)
  PROVE  Active(j) = {}
BY DEF AutomationInv, StateTells, Active, Busy, Undisturbed

LEMMA OwnerKeepsInv ==
  ASSUME AutomationInv, NEW j \in Job, TypeOK',
         \/ \E what \in {"run_now", "disable"} : Ask(what, j) \/ Grant(what, j)
         \/ Save(j) \/ Archive(j) \/ TimeComes(j)
  PROVE  AutomationInv'
<1>t. TypeOK /\ job[j] \in JobRow
  BY DEF AutomationInv, TypeOK
<1>1. UNCHANGED <<runs, made, work, worker, reports, contended>>
  BY DEF Ask, Grant, Save, Archive, TimeComes
<1>2. BatchAgrees' /\ InHand' /\ HandsAgree' /\ CompletedWasDone'
  BY <1>1, HandsUntouched
<1>s. /\ Scheduled(j) \in JobRow
      /\ \A state \in {"disabled", "archived"} : Stopped(state) \in JobRow
  BY <1>t, RowsAreTyped DEF State
<1>3. (\A k \in Job : Numbered(k)') /\ (\A k \in Undisturbed' : StateTells(k)')
  <2>1. ASSUME NEW what \in {"run_now", "disable"}, Ask(what, j)
        PROVE  (\A k \in Job : Numbered(k)') /\ (\A k \in Undisturbed' : StateTells(k)')
    BY <2>1, RowsUntouched DEF Ask
  <2>2. ASSUME NEW what \in {"run_now", "disable"}, Grant(what, j)
        PROVE  (\A k \in Job : Numbered(k)') /\ (\A k \in Undisturbed' : StateTells(k)')
    <3>1. CASE UNCHANGED <<job, ended>>
      BY <1>1, <2>2, <3>1, RowsUntouched DEF Grant
    <3>2. ASSUME job[j].enabled, ~Busy(j), UNCHANGED <<saved, ended>>,
                 job' = [job EXCEPT ![j] = [Scheduled(j) EXCEPT !.ready = TRUE]]
          PROVE  (\A k \in Job : Numbered(k)') /\ (\A k \in Undisturbed' : StateTells(k)')
      <4>1. [Scheduled(j) EXCEPT !.ready = TRUE] \in JobRow
        BY <1>s DEF JobRow
      <4>2. [Scheduled(j) EXCEPT !.ready = TRUE].due = Fresh(j)
        BY DEF Scheduled
      <4>3. CASE j \in Undisturbed
        <5>1. Active(j) = {} /\ j \notin ended
          BY <3>2, <4>3, IdleByState DEF AutomationInv, StateTells
        <5>q. QED BY <1>1, <3>2, <4>1, <4>2, <5>1, RowWritten
      <4>4. CASE j \notin Undisturbed
        <5>1. job'[j].due = Fresh(j) /\ \A k \in Job : k # j => job'[k] = job[k]
          BY <1>t, <3>2, <4>2 DEF TypeOK
        <5>2. \A k \in Job : Numbered(k)'
          BY <1>1, <5>1 DEF AutomationInv, Numbered, Fresh
        <5>3. ASSUME NEW k \in Undisturbed' PROVE StateTells(k)'
          <6>1. k \in Job /\ k # j /\ k \in Undisturbed
            BY <1>1, <3>2, <4>4 DEF Undisturbed
          <6>q. QED BY <1>1, <3>2, <5>1, <6>1 DEF AutomationInv, StateTells, Active
        <5>q. QED BY <5>2, <5>3
      <4>q. QED BY <4>3, <4>4
    <3>3. ASSUME ~Busy(j), saved' = saved, ended' = ended \cup {j},
                 job' = [job EXCEPT ![j] = Stopped("disabled")]
          PROVE  (\A k \in Job : Numbered(k)') /\ (\A k \in Undisturbed' : StateTells(k)')
      <4>1. Stopped("disabled").due = 0 /\ ~Stopped("disabled").enabled
        BY DEF Stopped
      <4>2. j \in Undisturbed' => Active(j) = {}
        BY <1>1, <3>3, IdleByState DEF Undisturbed
      <4>q. QED BY <1>1, <1>s, <3>3, <4>1, <4>2, RowWritten
    <3>q. QED BY <2>2, <3>1, <3>2, <3>3 DEF Grant
  <2>3. CASE Save(j)
    <3>1. j \in Undisturbed' => Active(j) = {}
      BY <2>3 DEF Save, Undisturbed
    <3>2. saved \subseteq saved'
      BY <2>3 DEF Save
    <3>3. CASE job' = [job EXCEPT ![j] = Scheduled(j)] /\ ended' = ended \ {j}
      <4>1. Scheduled(j).due = Fresh(j)
        BY DEF Scheduled
      <4>q. QED BY <1>1, <1>s, <3>1, <3>2, <3>3, <4>1, RowWritten
    <3>4. CASE /\ job' = [job EXCEPT ![j] = [job[j] EXCEPT !.enabled = FALSE, !.state = "disabled"]]
               /\ ended' = ended \cup {j}
      <4>1. [job[j] EXCEPT !.enabled = FALSE, !.state = "disabled"] \in JobRow
        BY <1>t DEF JobRow, State
      <4>2. /\ [job[j] EXCEPT !.enabled = FALSE, !.state = "disabled"].due = job[j].due
            /\ ~[job[j] EXCEPT !.enabled = FALSE, !.state = "disabled"].enabled
        BY <1>t DEF JobRow
      <4>q. QED BY <1>1, <3>1, <3>2, <3>4, <4>1, <4>2, RowWritten
    <3>q. QED BY <2>3, <3>3, <3>4 DEF Save
  <2>4. CASE Archive(j)
    <3>1. ASSUME NEW state \in {"disabled", "archived"}
          PROVE  Stopped(state).due = 0 /\ ~Stopped(state).enabled
      BY DEF Stopped
    <3>2. j \in Undisturbed' => Active(j) = {}
      BY <1>1, <2>4, IdleByState DEF Archive, Busy, Undisturbed
    <3>3. PICK state \in {"disabled", "archived"} : job' = [job EXCEPT ![j] = Stopped(state)]
      BY <2>4 DEF Archive
    <3>q. QED BY <1>1, <1>s, <2>4, <3>1, <3>2, <3>3, RowWritten DEF Archive
  <2>5. CASE TimeComes(j)
    <3>1. /\ job'[j].due = job[j].due /\ job'[j].state = job[j].state
          /\ job'[j].enabled = job[j].enabled
          /\ \A k \in Job : k # j => job'[k] = job[k]
      BY <1>t, <2>5 DEF TimeComes, TypeOK, JobRow
    <3>2. \A k \in Job : Numbered(k)'
      BY <1>1, <3>1 DEF AutomationInv, Numbered, Fresh
    <3>3. ASSUME NEW k \in Undisturbed' PROVE StateTells(k)'
      <4>1. k \in Job /\ k \in Undisturbed
        BY <2>5 DEF TimeComes, Undisturbed
      <4>2. job'[k].due = job[k].due /\ job'[k].state = job[k].state /\ job'[k].enabled = job[k].enabled
        BY <3>1, <4>1
      <4>q. QED BY <1>1, <2>5, <4>1, <4>2 DEF TimeComes, AutomationInv, StateTells, Active
    <3>q. QED BY <3>2, <3>3
  <2>q. QED BY <2>1, <2>2, <2>3, <2>4, <2>5
<1>q. QED BY <1>2, <1>3 DEF AutomationInv

LEMMA CrashKeepsInv ==
  ASSUME AutomationInv, Crash, TypeOK'
  PROVE  AutomationInv'
<1>1. /\ UNCHANGED <<job, runs, made, work, saved, contended, ended>>
      /\ worker'.at = "idle" /\ worker'.todo = {} /\ reports' = {}
  BY DEF Crash, Resting
<1>2. (\A k \in Job : Numbered(k)') /\ (\A k \in Undisturbed' : StateTells(k)')
  BY <1>1, RowsUntouched
<1>3. BatchAgrees' /\ InHand' /\ HandsAgree'
  BY <1>1 DEF BatchAgrees, InHand, HandsAgree, Settling
<1>4. CompletedWasDone'
  BY <1>1 DEF AutomationInv, CompletedWasDone
<1>q. QED BY <1>2, <1>3, <1>4 DEF AutomationInv

-----------------------------------------------------------------------------
LEMMA InitInv == AutomationInit => AutomationInv
<1>1. SUFFICES ASSUME AutomationInit PROVE AutomationInv
  OBVIOUS
<1>2. TypeOK
  <2>1. \A j \in Job : Scheduled(j) \in JobRow
    BY <1>1 DEF AutomationInit, Scheduled, JobRow, State, Fresh
  <2>2. job \in [Job -> JobRow]
    BY <1>1, <2>1 DEF AutomationInit
  <2>q. QED BY <1>1, <2>2 DEF AutomationInit, TypeOK, Status, Work, Worker, Resting, Outcome
<1>3. \A j \in Job : Numbered(j)
  BY <1>1 DEF AutomationInit, Numbered, Fresh, Scheduled, RunNo
<1>4. \A j \in Undisturbed : StateTells(j)
  BY <1>1 DEF AutomationInit, StateTells, Undisturbed
<1>5. BatchAgrees /\ InHand /\ HandsAgree /\ CompletedWasDone
  BY <1>1 DEF AutomationInit, Resting, BatchAgrees, InHand, HandsAgree, Settling, CompletedWasDone
<1>q. QED BY <1>2, <1>3, <1>4, <1>5 DEF AutomationInv

LEMMA NextInv ==
  ASSUME AutomationInv, [AutomationNext]_automationVars
  PROVE  AutomationInv'
<1>t. TypeOK'
  BY Typing DEF AutomationInv
<1>1. CASE WorkerStep
  BY <1>t, <1>1, ClaimKeepsInv, ReadingKeepsInv, ExecuteKeepsInv, FinishDispatchKeepsInv,
     LookUpKeepsInv, SettleKeepsInv DEF WorkerStep
<1>2. CASE HttpStep
  BY <1>t, <1>2, FateKeepsInv, LookUpReportedKeepsInv, SettleReportedKeepsInv DEF HttpStep
<1>3. CASE OwnerStep
  BY <1>t, <1>3, OwnerKeepsInv DEF OwnerStep
<1>4. CASE \E j \in Job : TimeComes(j)
  BY <1>t, <1>4, OwnerKeepsInv
<1>5. CASE Crash
  BY <1>t, <1>5, CrashKeepsInv
<1>6. CASE UNCHANGED automationVars
  <2>1. (\A k \in Job : Numbered(k)') /\ (\A k \in Undisturbed' : StateTells(k)')
    BY <1>6, RowsUntouched DEF automationVars
  <2>2. BatchAgrees' /\ InHand' /\ HandsAgree' /\ CompletedWasDone'
    BY <1>6, HandsUntouched DEF automationVars
  <2>q. QED BY <1>t, <2>1, <2>2 DEF AutomationInv
<1>q. QED BY <1>1, <1>2, <1>3, <1>4, <1>5, <1>6 DEF AutomationNext

(***************************************************************************)
(* The inductive invariant, type correctness among it, always holds.       *)
(***************************************************************************)
THEOREM AutomationIsInvariant == AutomationSpec => []AutomationInv
BY InitInv, NextInv, PTL DEF AutomationSpec

THEOREM AutomationIsTyped == AutomationSpec => []TypeOK
<1>1. AutomationInv => TypeOK
  BY DEF AutomationInv
<1>q. QED BY <1>1, AutomationIsInvariant, PTL

(***************************************************************************)
(* A job has one active run at a time, but for a save while one is active  *)
(* and for two settlements of a run at once: the state of the job is what  *)
(* claim_due_jobs and run_now go by.                                       *)
(***************************************************************************)
THEOREM OneRunAtATime == AutomationSpec => []OneActiveRun
<1>1. AutomationInv => OneActiveRun
  BY DEF AutomationInv, OneActiveRun, Undisturbed, StateTells, Active
<1>q. QED BY <1>1, AutomationIsInvariant, PTL

(***************************************************************************)
(* No run that ends late turns a job on that was turned off while idle.    *)
(***************************************************************************)
THEOREM OffStaysOff == AutomationSpec => []EndedStaysOff
<1>1. AutomationInv => EndedStaysOff
  <2>1. SUFFICES ASSUME AutomationInv, NEW j \in ended \ (saved \cup contended)
                 PROVE  ~job[j].enabled
    BY DEF EndedStaysOff
  <2>2. j \in Undisturbed
    BY <2>1 DEF AutomationInv, TypeOK, Undisturbed
  <2>q. QED BY <2>1, <2>2 DEF AutomationInv, StateTells
<1>q. QED BY <1>1, AutomationIsInvariant, PTL

(***************************************************************************)
(* A completed run has an acknowledged delivery or a task that succeeded.  *)
(***************************************************************************)
THEOREM CompletedRunsWereDone == AutomationSpec => []CompletedWasDone
<1>1. AutomationInv => CompletedWasDone
  BY DEF AutomationInv
<1>q. QED BY <1>1, AutomationIsInvariant, PTL

(***************************************************************************)
(* The outcome of a run is final, but for two settlements at once: only a  *)
(* run that is active is ever finished.                                    *)
(***************************************************************************)
LEMMA FinishedStays ==
  ASSUME AutomationInv, AutomationNext, NEW j \in Job, NEW n \in RunNo,
         runs[j][n] \in {"completed", "failed"}, j \notin contended
  PROVE  runs'[j][n] = runs[j][n]
<1>f. ASSUME NEW k \in Job, NEW m \in RunNo, NEW says, Finish(k, m, says),
             runs[k][m] \in {"running", "dispatched"} \/ k # j
      PROVE  runs'[j][n] = runs[j][n]
  BY <1>f DEF Finish, AutomationInv, TypeOK
<1>1. CASE Claim
  BY <1>1 DEF Claim, Runs
<1>2. ASSUME NEW k \in Job, NEW m \in RunNo, FinishDispatch(k, m)
      PROVE  runs'[j][n] = runs[j][n]
  <2>1. runs[k][m] = "running"
    BY <1>2 DEF FinishDispatch, AutomationInv, InHand, BatchAgrees
  <2>q. QED BY <1>2, <1>f, <2>1 DEF FinishDispatch
<1>3. ASSUME NEW k \in Job, NEW m \in RunNo, Settle(k, m)
      PROVE  runs'[j][n] = runs[j][n]
  <2>1. LookedUp(k, m)
    BY <1>3 DEF Settle, AutomationInv, HandsAgree
  <2>q. QED BY <1>3, <1>f, <2>1 DEF Settle, LookedUp
<1>4. ASSUME NEW k \in Job, NEW m \in RunNo, NEW r \in reports, SettleReported(r, k, m)
      PROVE  runs'[j][n] = runs[j][n]
  <2>1. LookedUp(k, m)
    BY <1>4 DEF SettleReported, AutomationInv, HandsAgree, ReportAgrees
  <2>q. QED BY <1>4, <1>f, <2>1 DEF SettleReported, LookedUp
<1>5. CASE UNCHANGED runs
  BY <1>5
<1>q. QED BY <1>1, <1>2, <1>3, <1>4, <1>5
      DEF AutomationNext, WorkerStep, HttpStep, OwnerStep, ReadDispatched, Round, Execute,
          ReadOutcome, LookUp, Acknowledge, DeadLetter, Unreported, LookUpReported,
          Ask, Grant, Save, Archive, TimeComes, Crash

THEOREM OutcomesAreFinal == AutomationSpec => OutcomeIsFinal
<1>1. AutomationInv /\ [AutomationNext]_automationVars
        => [\A j \in Job, n \in RunNo :
              runs[j][n] \in {"completed", "failed"} /\ j \notin contended
                => runs'[j][n] = runs[j][n]]_automationVars
  BY FinishedStays DEF automationVars
<1>q. QED BY <1>1, AutomationIsInvariant, PTL DEF AutomationSpec, OutcomeIsFinal
=============================================================================
