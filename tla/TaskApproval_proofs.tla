-------------------------- MODULE TaskApproval_proofs --------------------------
(***************************************************************************)
(* Proofs about TaskApproval, for any set of tasks, any timeouts and any   *)
(* number of crashes and of open callbacks.                                *)
(***************************************************************************)
EXTENDS TaskApproval, TLAPS

USE TaskAssumption

-----------------------------------------------------------------------------
(* The inductive invariant.                                                *)

WorkerShape ==
  /\ worker.task = Nothing <=> worker.at \in {"asleep", "draining"}
  /\ worker.task = Nothing => worker.held = Absent

(* What a callback has read is a row that was decided before.              *)
CallsReadDecided ==
  \A c \in calls : c.row = Absent \/ c.row.status \notin {"none", "waiting_approval"}

NoCalls(t) == \A c \in calls : c.task # t

Untouched(t) ==
  /\ approval[t].status = "none" /\ hot[t].status = "none" /\ creating[t] = Absent
  /\ t \notin queue \cup research \cup stopped \cup early /\ worker.task # t
  /\ NoCalls(t) /\ ran[t] = <<>>

(* A task nobody has to approve.                                           *)
Plain(t) ==
  /\ creating[t] = Absent /\ NoCalls(t) /\ t \notin early
  /\ hot[t].status # "waiting_approval" /\ row[t].status # "waiting_approval"
  /\ row[t].status # "none" => hot[t].status # "none"

(* A task whose approval was not granted is nowhere near the worker.       *)
Barred(t) ==
  /\ t \notin queue \cup research /\ worker.task # t /\ ran[t] = <<>>
  /\ hot[t].status \in {"none", "waiting_approval", "cancelled"}
  /\ row[t].status \in {"waiting_approval", "cancelled"}
  /\ row[t].status = "waiting_approval" =>
       /\ hot[t].status \in {"none", "waiting_approval"}
       /\ approval[t].status = "pending" /\ row[t].timeout = approval[t].timeout
  /\ \A c \in calls : c.task = t => c.row.status \in {"none", "cancelled"}
  /\ approval[t].status = "pending" => NoCalls(t) /\ t \notin early
  /\ approval[t].status = "pending" /\ creating[t] = Absent => hot[t].status # "none"

Granted(t) == row[t].status \notin {"none", "waiting_approval"} /\ t \notin research

Created(t) ==
  creating[t] # Absent =>
    /\ creating[t].status = "waiting_approval"
    /\ t \in early \/ (/\ approval[t].status = "pending" /\ hot[t].status = "none"
                       /\ row[t].status = "waiting_approval")

Behind == {"none", "queued", "waiting_approval"}

(* Where a task is that the worker may take, or has.                       *)
Placed(t) ==
  /\ t \notin queue \cap research
  /\ t \in queue \/ worker.task = t => hot[t].status \notin {"none", "waiting_approval"}
  /\ worker.task = t =>
       /\ t \notin queue \cup research
       /\ worker.held # Absent => hot[t].status \notin Behind
       /\ worker.at \in {"running", "spawned", "ended"} =>
            hot[t].status \notin Behind /\ row[t].status \notin Behind

(* Nothing brings the task before the worker again, or it is cancelled.    *)
Quiet(t) ==
  /\ hot[t].status \notin Behind /\ row[t].status \notin Behind
  /\ t \in queue \cup research => hot[t].cancel
  /\ worker.task = t =>
       worker.at \in {"spawned", "ended"} \/ (worker.at = "popped" /\ Mine.cancel)

AsApproved(t, o) == o.cancel \/ o.timeout = approval[t].timeout

(* Every copy of an approved task that may run carries what was approved.  *)
Carried(t) ==
  /\ AsApproved(t, row[t])
  /\ \A c \in calls : c.task = t => c.row = Absent \/ AsApproved(t, c.row)
  /\ hot[t].status = "waiting_approval" \/ AsApproved(t, hot[t])
  /\ hot[t].status # "none"
  /\ worker.task = t =>
       IF worker.at = "popped" THEN AsApproved(t, Mine)
                               ELSE Mine.timeout = approval[t].timeout
  /\ \A i \in 1..Len(ran[t]) : ran[t][i] = approval[t].timeout

(* Whatever was decided too early: the object of a started task in TASKS.  *)
Engaged(t) ==
  worker.task = t /\ worker.held = Absent /\ worker.at \in {"running", "spawned", "ended"} =>
    hot[t].status \notin {"none", "waiting_approval"}

Consistent(t) ==
  /\ row[t].status = "none" => Untouched(t)
  /\ approval[t].status = "none" => Plain(t)
  /\ approval[t].status \notin {"none", "approved"} => Barred(t)
  /\ approval[t].status = "approved" => Granted(t)
  /\ Created(t)
  /\ Engaged(t)
  /\ t \notin early =>
       /\ Placed(t)
       /\ t \in stopped \/ ran[t] # <<>> => Quiet(t)
       /\ Len(ran[t]) <= 1
       /\ approval[t].status = "approved" => Carried(t)

TaskInv ==
  /\ TypeOK
  /\ WorkerShape
  /\ CallsReadDecided
  /\ \A t \in Task : Consistent(t)

-----------------------------------------------------------------------------
(* Types.                                                                  *)

LEMMA BuiltIsTyped ==
  /\ \A status \in Status : Built(status) \in Object
  /\ Absent \in Object
BY DEF Built, Absent, Object, Status

LEMMA ObjectsAreTyped ==
  ASSUME NEW o \in Object
  PROVE  /\ o.status \in Status /\ o.timeout \in Timeout /\ o.cancel \in BOOLEAN
         /\ \A status \in Status : [o EXCEPT !.status = status] \in Object
         /\ [o EXCEPT !.cancel = TRUE] \in Object
         /\ Cancelled(o) \in Object
BY DEF Object, Cancelled, Status, Final

LEMMA RecoveredIs ==
  ASSUME NEW o \in Object
  PROVE  /\ Recovered(o) \in Object
         /\ Recovered(o).cancel = o.cancel /\ Recovered(o).timeout = o.timeout
         /\ o.status = "running" => Recovered(o).status = "failed"
         /\ o.status # "running" => Recovered(o) = o
<1>1. [o EXCEPT !.status = "failed"] \in Object
  BY DEF Object, Status, Final
<1>2. CASE o.status = "running"
  BY <1>1, <1>2 DEF Recovered, Object
<1>3. CASE o.status # "running"
  BY <1>3 DEF Recovered
<1>q. QED BY <1>2, <1>3

LEMMA FreeIsTyped ==
  ASSUME NEW at \in {"asleep", "draining", "popped"}
  PROVE  /\ Free(at) \in Worker
         /\ Free(at).at = at /\ Free(at).task = Nothing /\ Free(at).held = Absent
BY BuiltIsTyped DEF Free, Worker

LEMMA MineIsTyped ==
  ASSUME TypeOK, worker.task \in Task
  PROVE  Mine \in Object
BY DEF TypeOK, Mine, Worker

LEMMA ReplaceIsTyped ==
  ASSUME TypeOK, WorkerShape, NEW t \in Task, NEW o \in Object, Replace(t, o)
  PROVE  /\ hot' \in [Task -> Object] /\ worker' \in Worker /\ WorkerShape'
         /\ worker'.at = worker.at /\ worker'.task = worker.task
         /\ worker'.outcome = worker.outcome
<1>1. hot[t] \in Object /\ worker \in Worker
  BY DEF TypeOK
<1>2. CASE worker.task = t /\ worker.held = Absent
  <2>1. worker' = [worker EXCEPT !.held = hot[t]]
    BY <1>2 DEF Replace
  <2>q. QED BY <1>1, <1>2, <2>1 DEF Replace, TypeOK, Worker, WorkerShape
<1>3. CASE ~(worker.task = t /\ worker.held = Absent)
  BY <1>1, <1>3 DEF Replace, TypeOK, WorkerShape
<1>q. QED BY <1>2, <1>3

LEMMA SaveIsTyped ==
  ASSUME TypeOK, worker.task \in Task, NEW o \in Object, Save(o)
  PROVE  row' \in [Task -> Object] /\ hot' \in [Task -> Object]
BY DEF TypeOK, Save

LEMMA ApprovalsAreTyped ==
  ASSUME NEW p \in Approval
  PROVE  /\ p.status \in {"none", "pending", "approved", "rejected", "expired", "superseded"}
         /\ p.timeout \in Timeout /\ p.overdue \in BOOLEAN
         /\ \A timeout \in Timeout :
              [p EXCEPT !.status = "approved", !.timeout = timeout] \in Approval
         /\ \A status \in {"rejected", "expired", "superseded"} :
              [p EXCEPT !.status = status] \in Approval
         /\ [p EXCEPT !.overdue = TRUE] \in Approval
BY DEF Approval

Typed == TypeOK /\ WorkerShape

LEMMA CreationTyping ==
  ASSUME Typed, NEW t \in Task,
         \/ CreateTask(t) \/ CreatePaused(t) \/ Expose(t) \/ Establish(t) \/ Activate(t)
         \/ \E status \in {"done", "failed"} : EndResearch(t, status)
  PROVE  Typed'
<1>u. USE DEF Typed
<1>b. /\ Built("queued") \in Object /\ Built("running") \in Object
      /\ Built("waiting_approval") \in Object /\ Absent \in Object
  BY BuiltIsTyped DEF Status
<1>1. CASE CreateTask(t)
  BY <1>1, <1>b DEF CreateTask, TypeOK, WorkerShape
<1>2. CASE CreatePaused(t)
  <2>1. [status |-> "pending", timeout |-> Asked, overdue |-> FALSE] \in Approval
    BY DEF Approval
  <2>q. QED BY <1>2, <1>b, <2>1 DEF CreatePaused, TypeOK, WorkerShape
<1>3. CASE Expose(t)
  <2>1. creating[t] \in Object
    BY DEF TypeOK
  <2>2. hot' \in [Task -> Object] /\ worker' \in Worker /\ WorkerShape'
    BY <1>3, <2>1, ReplaceIsTyped DEF Expose
  <2>q. QED BY <1>3, <1>b, <2>2 DEF Expose, TypeOK
<1>4. CASE Establish(t)
  BY <1>4, <1>b DEF Establish, TypeOK, WorkerShape
<1>5. CASE Activate(t)
  BY <1>5 DEF Activate, TypeOK, WorkerShape
<1>6. ASSUME NEW status \in {"done", "failed"}, EndResearch(t, status)
      PROVE  Typed'
  <2>1. [hot[t] EXCEPT !.status = status] \in Object
    BY ObjectsAreTyped DEF TypeOK, Status, Final
  <2>q. QED BY <1>6, <2>1 DEF EndResearch, TypeOK, WorkerShape
<1>q. QED BY <1>1, <1>2, <1>3, <1>4, <1>5, <1>6

LEMMA DecisionTyping ==
  ASSUME Typed, NEW t \in Task,
         \/ \E timeout \in Timeout : Approve(t, timeout)
         \/ Reject(t) \/ Supersede(t) \/ Replay(t) \/ TimePasses(t) \/ ExpireLate(t)
         \/ ExpireDue
  PROVE  Typed'
<1>u. USE DEF Typed
<1>a. approval[t] \in Approval /\ row[t] \in Object
  BY DEF TypeOK
<1>b. Absent \in Object
  BY BuiltIsTyped
<1>c. ASSUME Called(t) PROVE calls' \subseteq [task : Task, row : Object]
  BY <1>b, <1>c DEF Called, TypeOK
<1>d. ASSUME Decided(t) PROVE early' \subseteq Task
  BY <1>d DEF Decided, TypeOK
<1>e. ASSUME NEW due \in SUBSET Task, Expire(due)
      PROVE  row' \in [Task -> Object] /\ approval' \in [Task -> Approval] /\ early' \subseteq Task
  <2>1. ASSUME NEW u \in Task
        PROVE  /\ row[u] \in Object /\ Cancelled(row[u]) \in Object
               /\ ExpiredRow(row[u]) \in Object
               /\ approval[u] \in Approval
               /\ [approval[u] EXCEPT !.status = "expired"] \in Approval
    BY ObjectsAreTyped, ApprovalsAreTyped DEF TypeOK, ExpiredRow
  <2>q. QED BY <1>e, <2>1 DEF Expire, TypeOK
<1>1. ASSUME NEW timeout \in Timeout, Approve(t, timeout)
      PROVE  Typed'
  <2>1. Resumed(timeout) \in Object
    BY DEF Resumed, Object, Status
  <2>2. [approval[t] EXCEPT !.status = "approved", !.timeout = timeout] \in Approval
    BY <1>a, ApprovalsAreTyped
  <2>q. QED BY <1>1, <2>1, <2>2, <1>c, <1>d DEF Approve, TypeOK, WorkerShape
<1>2. CASE Reject(t)
  <2>1. [approval[t] EXCEPT !.status = "rejected"] \in Approval /\ Cancelled(row[t]) \in Object
    BY <1>a, ApprovalsAreTyped, ObjectsAreTyped
  <2>q. QED BY <1>2, <2>1, <1>c, <1>d DEF Reject, TypeOK, WorkerShape
<1>3. CASE Supersede(t)
  <2>1. [approval[t] EXCEPT !.status = "superseded"] \in Approval
    BY <1>a, ApprovalsAreTyped
  <2>q. QED BY <1>3, <2>1 DEF Supersede, TypeOK, WorkerShape
<1>4. CASE Replay(t)
  BY <1>4, <1>c DEF Replay, TypeOK, WorkerShape
<1>5. CASE TimePasses(t)
  <2>1. [approval[t] EXCEPT !.overdue = TRUE] \in Approval
    BY <1>a, ApprovalsAreTyped
  <2>q. QED BY <1>5, <2>1 DEF TimePasses, TypeOK, WorkerShape
<1>6. CASE ExpireLate(t)
  BY <1>6, <1>e DEF ExpireLate, TypeOK, WorkerShape
<1>7. CASE ExpireDue
  <2>1. Due \in SUBSET Task
    BY DEF Due
  <2>2. calls' \subseteq [task : Task, row : Object]
    BY <1>7, <1>b, <2>1 DEF ExpireDue, TypeOK
  <2>q. QED BY <1>7, <2>1, <2>2, <1>e DEF ExpireDue, TypeOK, WorkerShape
<1>q. QED BY <1>1, <1>2, <1>3, <1>4, <1>5, <1>6, <1>7

LEMMA CallbackTyping ==
  ASSUME Typed, NEW t \in Task, Read(t) \/ Sync(t) \/ Cancel(t) \/ Supplement(t)
  PROVE  Typed'
<1>u. USE DEF Typed
<1>1. CASE Read(t)
  <2>1. [[task |-> t, row |-> Absent] EXCEPT !.row = row[t]] \in [task : Task, row : Object]
    BY DEF TypeOK
  <2>q. QED BY <1>1, <2>1 DEF Read, ReadRow, TypeOK, WorkerShape
<1>2. ASSUME NEW c \in calls, c.task = t, SyncQueued(c) \/ SyncOther(c)
      PROVE  Typed'
  <2>1. c.row \in Object
    BY DEF TypeOK
  <2>2. ASSUME Replace(t, c.row)
        PROVE  hot' \in [Task -> Object] /\ worker' \in Worker /\ WorkerShape'
    BY <2>1, <2>2, ReplaceIsTyped
  <2>3. CASE SyncQueued(c)
    BY <1>2, <2>2, <2>3 DEF SyncQueued, TypeOK, WorkerShape
  <2>4. CASE SyncOther(c)
    BY <1>2, <2>2, <2>4 DEF SyncOther, TypeOK
  <2>q. QED BY <1>2, <2>3, <2>4
<1>3. CASE Cancel(t)
  <2>1. [hot[t] EXCEPT !.cancel = TRUE] \in Object /\ Cancelled(hot[t]) \in Object
    BY ObjectsAreTyped DEF TypeOK
  <2>q. QED BY <1>3, <2>1 DEF Cancel, TypeOK, WorkerShape
<1>4. CASE Supplement(t)
  BY <1>4 DEF Supplement, TypeOK, WorkerShape
<1>q. QED BY <1>1, <1>2, <1>3, <1>4 DEF Sync

LEMMA WorkerTyping ==
  ASSUME Typed, WorkerStep
  PROVE  Typed'
<1>u. USE DEF Typed
<1>w. worker \in Worker
  BY DEF TypeOK
<1>m. ASSUME worker.at \notin {"asleep", "draining"}
      PROVE  /\ worker.task \in Task /\ Mine \in Object
             /\ \A status \in Status : [Mine EXCEPT !.status = status] \in Object
  <2>1. worker.task \in Task
    BY <1>w, <1>m DEF WorkerShape, Worker
  <2>q. QED BY <2>1, MineIsTyped, ObjectsAreTyped
<1>1. CASE Wake
  BY <1>1, FreeIsTyped DEF Wake, TypeOK, WorkerShape
<1>2. CASE Sleep
  BY <1>2, FreeIsTyped DEF Sleep, TypeOK, WorkerShape
<1>3. ASSUME NEW t \in Task, Pop(t) PROVE Typed'
  <2>1. worker' = [Free("popped") EXCEPT !.task = t]
    BY <1>3 DEF Pop
  <2>2. worker' \in Worker /\ worker'.at = "popped" /\ worker'.task = t
    BY <2>1, FreeIsTyped DEF Worker, Free
  <2>q. QED BY <1>3, <2>2 DEF Pop, TypeOK, WorkerShape
<1>4. CASE SkipCancelled
  <2>1. [Mine EXCEPT !.status = "cancelled"] \in Object /\ worker.task \in Task
    BY <1>4, <1>m DEF SkipCancelled, Status, Final
  <2>q. QED BY <1>4, <2>1, SaveIsTyped, FreeIsTyped DEF SkipCancelled, TypeOK, WorkerShape
<1>5. CASE Clear
  BY <1>5, <1>w DEF Clear, TypeOK, Worker, WorkerShape
<1>6. CASE Start
  <2> DEFINE o == [Mine EXCEPT !.status = "running"]
  <2>1. o \in Object /\ worker.task \in Task
    BY <1>6, <1>m DEF Start, Status
  <2>2. worker' \in Worker /\ worker'.at = "running" /\ worker'.task = worker.task
    <3>1. worker' = [worker EXCEPT !.at = "running",
                                   !.held = IF worker.held = Absent THEN Absent ELSE o]
      BY <1>6, <1>w DEF Start, Worker
    <3>q. QED BY <3>1, <2>1, <1>w, BuiltIsTyped DEF Worker
  <2>3. row' \in [Task -> Object] /\ hot' \in [Task -> Object]
    BY <1>6, <2>1, SaveIsTyped DEF Start
  <2>q. QED BY <1>6, <2>1, <2>2, <2>3 DEF Start, TypeOK, WorkerShape
<1>7. CASE Spawn
  <2>1. worker.task \in Task /\ Mine.timeout \in Timeout
    BY <1>7, <1>m, ObjectsAreTyped DEF Spawn
  <2>2. ran' \in [Task -> Seq(Timeout)]
    <3>1. Append(ran[worker.task], Mine.timeout) \in Seq(Timeout)
      BY <2>1 DEF TypeOK
    <3>q. QED BY <1>7, <3>1 DEF Spawn, TypeOK
  <2>q. QED BY <1>7, <1>w, <2>1, <2>2 DEF Spawn, TypeOK, Worker, WorkerShape
<1>8. ASSUME NEW outcome \in {"done", "failed"}, End(outcome) PROVE Typed'
  BY <1>8, <1>w DEF End, TypeOK, Worker, WorkerShape
<1>9. ASSUME NEW raised \in BOOLEAN, Finish(raised) PROVE Typed'
  <2>1. PICK status \in Status : Save([Mine EXCEPT !.status = status])
    BY <1>9, <1>w DEF Finish, Status, Final, Worker
  <2>2. [Mine EXCEPT !.status = status] \in Object /\ worker.task \in Task
    BY <1>9, <1>m DEF Finish
  <2>q. QED BY <1>9, <2>1, <2>2, SaveIsTyped, FreeIsTyped DEF Finish, TypeOK, WorkerShape
<1>q. QED BY <1>1, <1>2, <1>3, <1>4, <1>5, <1>6, <1>7, <1>8, <1>9 DEF WorkerStep

LEMMA RestartTyping ==
  ASSUME Typed, Restart
  PROVE  Typed'
<1>1. \A t \in Task : Recovered(row[t]) \in Object
  BY RecoveredIs DEF Typed, TypeOK
<1>2. crashes' \in 0..MaxCrashes
  BY DEF Restart, Typed, TypeOK
<1>q. QED BY <1>1, <1>2, BuiltIsTyped, FreeIsTyped DEF Restart, Typed, TypeOK, WorkerShape

LEMMA Typing ==
  ASSUME Typed, [TaskNext]_taskVars
  PROVE  Typed'
<1>1. CASE UNCHANGED taskVars
  BY <1>1 DEF Typed, taskVars, TypeOK, WorkerShape
<1>2. CASE ExpireDue
  <2>1. PICK t \in Task : t \in Due
    BY <1>2 DEF ExpireDue, Due
  <2>q. QED BY <1>2, <2>1, DecisionTyping
<1>3. CASE WorkerStep \/ Restart
  BY <1>3, WorkerTyping, RestartTyping
<1>4. ASSUME NEW t \in Task,
             \/ CreateTask(t) \/ CreatePaused(t) \/ Expose(t) \/ Establish(t) \/ Activate(t)
             \/ \E status \in {"done", "failed"} : EndResearch(t, status)
             \/ \E timeout \in Timeout : Approve(t, timeout)
             \/ Reject(t) \/ Supersede(t) \/ Replay(t) \/ TimePasses(t) \/ ExpireLate(t)
             \/ Read(t) \/ Sync(t)
             \/ Cancel(t) \/ Supplement(t)
      PROVE  Typed'
  BY <1>4, CreationTyping, DecisionTyping, CallbackTyping
<1>q. QED BY <1>1, <1>2, <1>3, <1>4 DEF TaskNext

-----------------------------------------------------------------------------
(* Tasks a step is not about.                                              *)

(* Nothing about u changes, or u only leaves the queue and the like.       *)
Aside(u) ==
  /\ row'[u] = row[u] /\ approval'[u] = approval[u] /\ hot'[u] = hot[u]
  /\ creating'[u] = creating[u] /\ ran'[u] = ran[u]
  /\ u \in queue' => u \in queue
  /\ u \in research' => u \in research
  /\ u \in stopped' => u \in stopped
  /\ u \in early' <=> u \in early
  /\ worker' = worker \/ (worker.task # u /\ worker'.task # u)
  /\ \A c \in calls' : c.task = u => c \in calls

LEMMA AsideStaysConsistent ==
  ASSUME Typed, NEW u \in Task, Consistent(u), Aside(u)
  PROVE  Consistent(u)'
<1>u. USE DEF Aside
<1>n. NoCalls(u) => NoCalls(u)'
  BY DEF NoCalls
<1>m. worker.task = u => worker' = worker /\ Mine' = Mine
  BY DEF Mine
<1>w. worker'.task = u => worker.task = u
  OBVIOUS
<1>1. Untouched(u) => Untouched(u)'
  BY <1>n, <1>w DEF Untouched
<1>2. Plain(u) => Plain(u)'
  BY <1>n DEF Plain
<1>3. Barred(u) => Barred(u)'
  BY <1>n, <1>w DEF Barred
<1>4. Granted(u) => Granted(u)'
  BY DEF Granted
<1>5. Created(u) => Created(u)'
  BY DEF Created
<1>6. Placed(u) => Placed(u)'
  BY <1>m, <1>w DEF Placed, Behind
<1>7. Quiet(u) => Quiet(u)'
  BY <1>m, <1>w DEF Quiet, Behind
<1>8. Carried(u) => Carried(u)'
  BY <1>m, <1>w DEF Carried, AsApproved
<1>9. Engaged(u) => Engaged(u)'
  BY <1>w DEF Engaged
<1>q. QED BY <1>1, <1>2, <1>3, <1>4, <1>5, <1>6, <1>7, <1>8, <1>9 DEF Consistent

-----------------------------------------------------------------------------
(* What creates tasks.                                                     *)

LEMMA BuiltHas ==
  /\ \A status : Built(status).status = status /\ Built(status).timeout = Asked
                 /\ Built(status).cancel = FALSE
  /\ Absent.status = "none" /\ Absent.timeout = Asked /\ Absent.cancel = FALSE
BY DEF Built, Absent

LEMMA CreateTaskConsistent ==
  ASSUME Typed, NEW t \in Task, Consistent(t), CreateTask(t)
  PROVE  Consistent(t)'
<1>1. Untouched(t)
  BY BuiltHas DEF CreateTask, Consistent
<1>2. /\ row'[t] = Built("queued") /\ hot'[t] = Built("queued") /\ Built("queued").status = "queued"
      /\ creating'[t] = Absent /\ ran'[t] = <<>> /\ worker' = worker /\ worker.task # t
      /\ t \notin research'
      /\ NoCalls(t)' /\ t \notin early' \cup stopped' /\ approval'[t].status = "none"
  BY <1>1, BuiltHas DEF CreateTask, Untouched, NoCalls, Typed, TypeOK
<1>3. Plain(t)' /\ Created(t)' /\ Placed(t)' /\ Engaged(t)'
  BY <1>1, <1>2 DEF Plain, Created, Placed, Engaged, Untouched
<1>q. QED BY <1>2, <1>3 DEF Consistent

LEMMA CreatePausedConsistent ==
  ASSUME Typed, NEW t \in Task, Consistent(t), CreatePaused(t)
  PROVE  Consistent(t)'
<1>1. Untouched(t)
  BY BuiltHas DEF CreatePaused, Consistent
<1>2. /\ row'[t] = Built("waiting_approval") /\ creating'[t] = Built("waiting_approval")
      /\ Built("waiting_approval").status = "waiting_approval"
      /\ approval'[t] = [status |-> "pending", timeout |-> Asked, overdue |-> FALSE]
      /\ hot'[t].status = "none" /\ Built("waiting_approval").timeout = Asked
      /\ Built("waiting_approval") # Absent
      /\ ran'[t] = <<>> /\ worker' = worker /\ worker.task # t /\ t \notin queue' \cup research'
      /\ NoCalls(t)' /\ t \notin early' \cup stopped'
  BY <1>1, BuiltHas DEF CreatePaused, Untouched, NoCalls, Typed, TypeOK
<1>3. Barred(t)' /\ Created(t)' /\ Placed(t)' /\ Engaged(t)'
  BY <1>2 DEF Barred, Created, Placed, Engaged, NoCalls
<1>q. QED BY <1>2, <1>3 DEF Consistent

LEMMA ExposeConsistent ==
  ASSUME Typed, NEW t \in Task, Consistent(t), Expose(t)
  PROVE  Consistent(t)'
<1>1. /\ creating[t].status = "waiting_approval"
      /\ approval[t].status # "none" /\ row[t].status # "none"
  BY BuiltHas DEF Expose, Consistent, Created, Untouched, Plain
<1>2. /\ row'[t] = row[t] /\ approval'[t] = approval[t] /\ ran'[t] = ran[t]
      /\ hot'[t] = creating[t] /\ creating'[t] = Absent /\ queue' = queue /\ calls' = calls
      /\ research' = research /\ early' = early /\ stopped' = stopped
  BY DEF Expose, Replace, Typed, TypeOK
<1>e. Engaged(t)'
  <2>1. CASE worker.task = t /\ worker.held = Absent /\ hot[t] # Absent
    BY <2>1 DEF Expose, Replace, Engaged, Typed, TypeOK, Worker
  <2>2. CASE ~(worker.task = t /\ worker.held = Absent /\ hot[t] # Absent)
    BY <2>2, <1>2, BuiltHas DEF Expose, Replace, Consistent, Engaged, Typed, TypeOK, Worker
  <2>q. QED BY <2>1, <2>2
<1>3. CASE approval[t].status = "approved"
  BY <1>1, <1>2, <1>3, <1>e DEF Expose, Consistent, Created, Granted
<1>4. CASE approval[t].status # "approved"
  <2>1. Barred(t) /\ worker' = worker
    BY <1>1, <1>4 DEF Expose, Replace, Consistent, Barred
  <2>2. Barred(t)'
    BY <1>1, <1>2, <2>1 DEF Barred, NoCalls
  <2>3. ASSUME t \notin early PROVE t \notin stopped /\ ran[t] = <<>> /\ Placed(t)'
    BY <1>1, <1>2, <2>1, <2>3 DEF Expose, Consistent, Created, Barred, Quiet, Behind, Placed
  <2>q. QED BY <1>1, <1>2, <1>4, <1>e, <2>2, <2>3 DEF Consistent, Created
<1>q. QED BY <1>3, <1>4

LEMMA EstablishConsistent ==
  ASSUME Typed, NEW t \in Task, Consistent(t), Establish(t)
  PROVE  Consistent(t)'
<1>1. Untouched(t)
  BY BuiltHas DEF Establish, Consistent
<1>2. /\ row'[t] = Built("running") /\ hot'[t] = Built("running")
      /\ Built("running").status = "running"
      /\ creating'[t] = Absent /\ ran'[t] = <<>> /\ worker' = worker /\ worker.task # t
      /\ t \notin queue'
      /\ NoCalls(t)' /\ t \notin early' \cup stopped' /\ approval'[t].status = "none"
  BY <1>1, BuiltHas DEF Establish, Untouched, NoCalls, Typed, TypeOK
<1>3. Plain(t)' /\ Created(t)' /\ Placed(t)' /\ Engaged(t)'
  BY <1>1, <1>2 DEF Plain, Created, Placed, Engaged, Untouched
<1>q. QED BY <1>2, <1>3 DEF Consistent

(* A task in research is nobody's to approve.                              *)
LEMMA ResearchIsPlain ==
  ASSUME NEW t \in Task, Consistent(t), t \in research
  PROVE  /\ approval[t].status = "none" /\ Plain(t) /\ row[t].status # "none"
         /\ Placed(t) /\ (t \in stopped \/ ran[t] # <<>> => Quiet(t)) /\ Len(ran[t]) <= 1
BY DEF Consistent, Barred, Granted, Untouched, Plain

LEMMA ActivateConsistent ==
  ASSUME Typed, NEW t \in Task, Consistent(t), Activate(t)
  PROVE  Consistent(t)'
<1>1. /\ approval[t].status = "none" /\ Plain(t) /\ row[t].status # "none"
      /\ Placed(t) /\ (t \in stopped \/ ran[t] # <<>> => Quiet(t)) /\ Len(ran[t]) <= 1
  BY ResearchIsPlain DEF Activate
<1>2. /\ row'[t] = hot[t] /\ hot'[t] = hot[t] /\ approval'[t] = approval[t]
      /\ creating' = creating /\ ran' = ran /\ worker' = worker /\ Mine' = Mine
      /\ t \notin research' /\ calls' = calls /\ early' = early /\ stopped' = stopped
  BY DEF Activate, Mine, Typed, TypeOK
<1>3. worker.task # t /\ t \in research
  BY <1>1 DEF Activate, Placed
<1>4. Plain(t)' /\ Placed(t)' /\ Created(t)' /\ Engaged(t)'
  BY <1>1, <1>2, <1>3 DEF Plain, Placed, Created, Engaged, NoCalls
<1>5. Quiet(t) => Quiet(t)'
  BY <1>2, <1>3 DEF Activate, Quiet, Behind
<1>q. QED BY <1>1, <1>2, <1>4, <1>5 DEF Consistent, Plain

LEMMA EndResearchConsistent ==
  ASSUME Typed, NEW t \in Task, Consistent(t), NEW status \in {"done", "failed"},
         EndResearch(t, status)
  PROVE  Consistent(t)'
<1>1. /\ approval[t].status = "none" /\ Plain(t) /\ row[t].status # "none"
      /\ Placed(t) /\ (t \in stopped \/ ran[t] # <<>> => Quiet(t)) /\ Len(ran[t]) <= 1
  BY ResearchIsPlain DEF EndResearch
<1>2. /\ row'[t].status = status /\ hot'[t].status = status /\ approval'[t] = approval[t]
      /\ creating' = creating /\ ran' = ran /\ worker' = worker
      /\ t \notin research' \cup queue' /\ calls' = calls /\ early' = early /\ stopped' = stopped
  BY ObjectsAreTyped DEF EndResearch, Typed, TypeOK, Object
<1>3. worker.task # t
  BY <1>1 DEF EndResearch, Placed
<1>4. Plain(t)' /\ Placed(t)' /\ Created(t)' /\ Engaged(t)'
  BY <1>1, <1>2, <1>3 DEF Plain, Placed, Created, Engaged, NoCalls
<1>5. Quiet(t)'
  BY <1>2, <1>3 DEF Quiet, Behind
<1>q. QED BY <1>1, <1>2, <1>4, <1>5 DEF Consistent, Plain

-----------------------------------------------------------------------------
(* What decides approvals.                                                 *)

LEMMA PendingIs ==
  ASSUME NEW t \in Task, Consistent(t), Pending(t)
  PROVE  /\ Barred(t) /\ NoCalls(t) /\ t \notin early /\ Placed(t)
         /\ row[t].status = "waiting_approval" => t \notin stopped
         /\ creating[t] # Absent => row[t].status = "waiting_approval"
BY DEF Pending, Consistent, Barred, Created, Quiet, Behind

LEMMA ApproveConsistent ==
  ASSUME Typed, NEW t \in Task, Consistent(t), NEW timeout \in Timeout, Approve(t, timeout)
  PROVE  Consistent(t)'
<1>1. /\ Barred(t) /\ NoCalls(t) /\ t \notin stopped /\ row[t].status = "waiting_approval"
      /\ Placed(t) /\ Created(t)
  BY PendingIs DEF Approve, Waits, Consistent
<1>2. /\ row'[t] = [status |-> "queued", timeout |-> timeout, cancel |-> FALSE]
      /\ approval'[t].status = "approved" /\ approval'[t].timeout = timeout
      /\ hot' = hot /\ creating' = creating /\ queue' = queue /\ research' = research
      /\ worker' = worker /\ ran' = ran /\ stopped' = stopped
  BY DEF Approve, Resumed, Typed, TypeOK, Approval
<1>3. \A c \in calls' : c.task = t => c.row = Absent
  BY <1>1 DEF Approve, Called, NoCalls
<1>4. t \in early' <=> creating[t] # Absent
  BY PendingIs DEF Approve, Decided
<1>5. Granted(t)' /\ Created(t)' /\ Engaged(t)'
  BY <1>1, <1>2, <1>4 DEF Granted, Created, Engaged, Barred
<1>6. ASSUME t \notin early' PROVE Placed(t)' /\ Carried(t)' /\ ran'[t] = <<>>
  <2>1. hot[t].status = "waiting_approval"
    BY <1>1, <1>4, <1>6 DEF Barred, Approve, Pending
  <2>q. QED BY <1>1, <1>2, <1>3, <2>1 DEF Placed, Carried, AsApproved, Barred
<1>q. QED BY <1>1, <1>2, <1>5, <1>6 DEF Consistent

LEMMA RejectConsistent ==
  ASSUME Typed, NEW t \in Task, Consistent(t), Reject(t)
  PROVE  Consistent(t)'
<1>1. /\ Barred(t) /\ NoCalls(t) /\ t \notin stopped /\ row[t].status = "waiting_approval"
      /\ Placed(t) /\ Created(t)
  BY PendingIs DEF Reject, Waits, Consistent
<1>2. /\ row'[t].status = "cancelled" /\ approval'[t].status = "rejected"
      /\ hot' = hot /\ creating' = creating /\ queue' = queue /\ research' = research
      /\ worker' = worker /\ ran' = ran /\ stopped' = stopped
  BY DEF Reject, Cancelled, Typed, TypeOK, Approval, Object
<1>3. \A c \in calls' : c.task = t => c.row = Absent
  BY <1>1 DEF Reject, Called, NoCalls
<1>4. t \in early' <=> creating[t] # Absent
  BY PendingIs DEF Reject, Decided
<1>5. Barred(t)' /\ Created(t)' /\ Engaged(t)' /\ (t \notin early' => Placed(t)')
  BY <1>1, <1>2, <1>3, <1>4, BuiltHas DEF Barred, Created, Engaged, Placed, Behind
<1>q. QED BY <1>1, <1>2, <1>5 DEF Consistent, Barred

LEMMA SupersedeConsistent ==
  ASSUME Typed, NEW t \in Task, Consistent(t), Supersede(t)
  PROVE  Consistent(t)'
<1>1. /\ Barred(t) /\ NoCalls(t) /\ Placed(t) /\ row[t].status = "cancelled"
      /\ creating[t] = Absent /\ (t \in stopped => Quiet(t)) /\ Engaged(t) /\ t \notin early
  BY PendingIs DEF Supersede, Waits, Consistent, Barred, Pending
<1>2. /\ approval'[t].status = "superseded" /\ row' = row
      /\ hot' = hot /\ creating' = creating /\ queue' = queue /\ research' = research
      /\ worker' = worker /\ Mine' = Mine /\ ran' = ran /\ stopped' = stopped
      /\ calls' = calls /\ early' = early
  BY DEF Supersede, Mine, Typed, TypeOK, Approval
<1>3. Barred(t)' /\ Created(t)' /\ Engaged(t)' /\ Placed(t)' /\ (Quiet(t) => Quiet(t)')
  BY <1>1, <1>2 DEF Barred, NoCalls, Created, Engaged, Placed, Quiet, Behind
<1>q. QED BY <1>1, <1>2, <1>3 DEF Consistent, Barred

LEMMA ReplayConsistent ==
  ASSUME Typed, NEW t \in Task, Consistent(t), Replay(t)
  PROVE  Consistent(t)'
<1>1. row[t].status # "none"
  BY DEF Replay, Consistent, Untouched
<1>2. /\ approval' = approval /\ row' = row
      /\ hot' = hot /\ creating' = creating /\ queue' = queue /\ research' = research
      /\ worker' = worker /\ Mine' = Mine /\ ran' = ran /\ stopped' = stopped
      /\ early' = early
  BY DEF Replay, Mine
<1>3. \A c \in calls' : c.task = t => c.row = Absent \/ c \in calls
  BY DEF Replay, Called
<1>4. /\ approval[t].status = "rejected" /\ Barred(t) => Barred(t)'
      /\ Granted(t) => Granted(t)'
      /\ Created(t) => Created(t)'
  BY <1>2, <1>3, BuiltHas DEF Barred, Granted, Created
<1>5. /\ Engaged(t) => Engaged(t)'
      /\ Placed(t) => Placed(t)'
      /\ Quiet(t) => Quiet(t)'
      /\ Carried(t) => Carried(t)'
  <2>1. Engaged(t) => Engaged(t)'
    BY <1>2 DEF Engaged
  <2>2. Placed(t) => Placed(t)'
    BY <1>2 DEF Placed, Behind
  <2>3. Quiet(t) => Quiet(t)'
    BY <1>2 DEF Quiet, Behind
  <2>4. Carried(t) => Carried(t)'
    BY <1>2, <1>3 DEF Carried, AsApproved
  <2>q. QED BY <2>1, <2>2, <2>3, <2>4
<1>6. approval[t].status \in {"approved", "rejected"}
  BY DEF Replay
<1>7. approval[t].status = "rejected" => Barred(t)'
  BY <1>4, <1>6 DEF Consistent
<1>q. QED BY <1>1, <1>2, <1>4, <1>5, <1>6, <1>7 DEF Consistent

LEMMA TimePassesConsistent ==
  ASSUME Typed, NEW t \in Task, Consistent(t), TimePasses(t)
  PROVE  Consistent(t)'
<1>1. /\ Barred(t) /\ Placed(t) /\ Created(t) /\ Engaged(t) /\ (t \in stopped => Quiet(t))
      /\ t \notin early /\ row[t].status # "none" /\ approval[t].status = "pending"
  BY PendingIs DEF TimePasses, Consistent, Barred, Pending
<1>2. /\ approval'[t].status = approval[t].status /\ approval'[t].timeout = approval[t].timeout
      /\ row' = row /\ hot' = hot /\ creating' = creating /\ queue' = queue
      /\ research' = research /\ worker' = worker /\ Mine' = Mine /\ ran' = ran
      /\ stopped' = stopped /\ calls' = calls /\ early' = early
  BY DEF TimePasses, Mine, Typed, TypeOK, Approval
<1>3. Barred(t)' /\ Created(t)' /\ Engaged(t)' /\ Placed(t)' /\ (Quiet(t) => Quiet(t)')
  BY <1>1, <1>2 DEF Barred, NoCalls, Created, Engaged, Placed, Quiet, Behind
<1>q. QED BY <1>1, <1>2, <1>3 DEF Consistent, Barred

(* What expires is barred as it was; the rest stays aside.                 *)
LEMMA ExpireConsistent ==
  ASSUME Typed, NEW t \in Task, Consistent(t), NEW due \in SUBSET Task,
         \A u \in due : Pending(u), Expire(due),
         calls' \subseteq calls \cup {[task |-> u, row |-> Absent] : u \in due},
         UNCHANGED <<hot, queue, event, worker, creating, research, crashes, ran, stopped>>
  PROVE  Consistent(t)'
<1>1. CASE t \notin due
  <2>1. Aside(t)
    BY <1>1 DEF Expire, Aside
  <2>q. QED BY <2>1, AsideStaysConsistent
<1>2. CASE t \in due
  <2>1. /\ Barred(t) /\ NoCalls(t) /\ Placed(t) /\ Created(t) /\ Engaged(t)
        /\ (t \in stopped => Quiet(t)) /\ t \notin early
        /\ row[t].status = "waiting_approval" => t \notin stopped
    BY <1>2, PendingIs DEF Consistent
  <2>2. row'[t].status = "cancelled" /\ approval'[t].status = "expired"
    <3>1. row[t] \in Object /\ approval[t] \in Approval
      BY DEF Typed, TypeOK
    <3>2. row[t].status \in {"waiting_approval", "cancelled"}
      BY <2>1 DEF Barred
    <3>3. Cancelled(row[t]).status = "cancelled"
      BY <3>1 DEF Cancelled, Object
    <3>4. row'[t].status = "cancelled"
      BY <1>2, <3>2, <3>3 DEF Expire, ExpiredRow
    <3>5. approval'[t] = [approval[t] EXCEPT !.status = "expired"]
      BY <1>2 DEF Expire
    <3>q. QED BY <3>1, <3>4, <3>5 DEF Approval
  <2>3. \A c \in calls' : c.task = t => c.row = Absent
    BY <2>1 DEF NoCalls
  <2>4. creating[t] # Absent => t \in early'
    BY <1>2 DEF Expire
  <2>m. Mine' = Mine
    BY DEF Mine
  <2>5. Barred(t)' /\ Created(t)' /\ Engaged(t)' /\ Placed(t)'
    BY <2>1, <2>2, <2>3, <2>4, BuiltHas DEF Barred, Created, Engaged, Placed, Behind
  <2>6. Quiet(t) => Quiet(t)'
    BY <2>2, <2>m DEF Quiet, Behind
  <2>q. QED BY <2>1, <2>2, <2>5, <2>6 DEF Consistent, Barred
<1>q. QED BY <1>1, <1>2

-----------------------------------------------------------------------------
(* Callbacks.                                                              *)

(* A callback is about a task whose approval was decided.                  *)
LEMMA CalledIsDecided ==
  ASSUME NEW t \in Task, Consistent(t), ~NoCalls(t)
  PROVE  /\ row[t].status # "none"
         /\ approval[t].status \notin {"none", "pending"}
         /\ Barred(t) => row[t].status = "cancelled"
         /\ row[t].status \notin {"none", "waiting_approval"}
         /\ creating[t] # Absent => creating[t].status = "waiting_approval" /\ t \in early
<1>1. row[t].status # "none" /\ approval[t].status # "none"
  BY DEF Consistent, Untouched, Plain
<1>2. approval[t].status # "pending"
  BY DEF Consistent, Barred
<1>q. QED BY <1>1, <1>2 DEF Consistent, Barred, Granted, Created

LEMMA ReadConsistent ==
  ASSUME Typed, NEW t \in Task, Consistent(t), Read(t)
  PROVE  Consistent(t)' /\ row[t].status \notin {"none", "waiting_approval"}
<1>1. /\ calls' = (calls \ {[task |-> t, row |-> Absent]}) \cup {[task |-> t, row |-> row[t]]}
      /\ ~NoCalls(t)
  BY DEF Read, ReadRow, NoCalls
<1>2. /\ approval' = approval /\ row' = row
      /\ hot' = hot /\ creating' = creating /\ queue' = queue /\ research' = research
      /\ worker' = worker /\ Mine' = Mine /\ ran' = ran /\ stopped' = stopped
      /\ early' = early
  BY DEF Read, ReadRow, Mine
<1>3. \A c \in calls' : c.task = t => c \in calls \/ c.row = row[t]
  BY <1>1
<1>4. /\ row[t].status \notin {"none", "waiting_approval"} /\ approval[t].status \notin {"none", "pending"}
      /\ Barred(t) => row[t].status = "cancelled"
  BY <1>1, CalledIsDecided
<1>5. Barred(t) => Barred(t)'
  BY <1>2, <1>3, <1>4 DEF Barred
<1>6. /\ Granted(t) => Granted(t)'
      /\ Created(t) => Created(t)'
      /\ Engaged(t) => Engaged(t)'
  BY <1>2 DEF Granted, Created, Engaged
<1>7. Placed(t) => Placed(t)'
  BY <1>2 DEF Placed, Behind
<1>8. Quiet(t) => Quiet(t)'
  BY <1>2 DEF Quiet, Behind
<1>9. Carried(t) => Carried(t)'
  BY <1>2, <1>3 DEF Carried, AsApproved
<1>q. QED BY <1>2, <1>4, <1>5, <1>6, <1>7, <1>8, <1>9 DEF Consistent

LEMMA SyncQueuedConsistent ==
  ASSUME Typed, NEW t \in Task, Consistent(t), NEW c \in calls, c.task = t, SyncQueued(c)
  PROVE  Consistent(t)'
<1>1. CASE ~Queueable(t)
  <2>1. Aside(t)
    BY <1>1 DEF SyncQueued, Aside
  <2>q. QED BY <2>1, AsideStaysConsistent
<1>2. CASE Queueable(t)
  <2>1. approval[t].status = "approved" /\ Granted(t)
    BY CalledIsDecided DEF NoCalls, SyncQueued, Consistent, Barred
  <2>2. /\ Replace(t, c.row) /\ queue' = queue \cup {t} /\ calls' = calls \ {c}
        /\ row' = row /\ approval' = approval /\ creating' = creating /\ ran' = ran
        /\ research' = research /\ early' = early /\ stopped' = stopped
        /\ hot'[t] = c.row /\ c.row.status = "queued"
    BY <1>2 DEF SyncQueued, Replace, Queueable, Typed, TypeOK
  <2>3. Granted(t)' /\ Created(t)'
    BY <2>1, <2>2 DEF Granted, Created, Consistent
  <2>4. Engaged(t)'
    BY <2>2 DEF Engaged
  <2>5. ASSUME t \notin early
        PROVE  Placed(t)' /\ ~(t \in stopped \/ ran[t] # <<>>) /\ Carried(t)'
    <3>1. /\ Placed(t) /\ Carried(t) /\ hot[t].status = "waiting_approval"
          /\ (t \in stopped \/ ran[t] # <<>> => Quiet(t))
      BY <1>2, <2>1, <2>5 DEF Consistent, Carried, Queueable
    <3>2. worker.task # t /\ worker' = worker /\ ~Quiet(t)
      BY <3>1, <2>2 DEF Placed, Replace, Quiet, Behind
    <3>3. Placed(t)'
      BY <2>1, <2>2, <3>1, <3>2 DEF Placed, Granted
    <3>4. AsApproved(t, c.row)
      BY <2>2, <3>1, BuiltHas DEF Carried
    <3>5. Carried(t)'
      BY <2>2, <3>1, <3>2, <3>4 DEF Carried, AsApproved
    <3>q. QED BY <3>1, <3>2, <3>3, <3>5
  <2>q. QED BY <2>1, <2>2, <2>3, <2>4, <2>5 DEF Consistent, Granted
<1>q. QED BY <1>1, <1>2

LEMMA SyncOtherConsistent ==
  ASSUME Typed, CallsReadDecided, NEW t \in Task, Consistent(t),
         NEW c \in calls, c.task = t, SyncOther(c)
  PROVE  Consistent(t)'
<1>1. /\ Replace(t, c.row) /\ queue' = queue \ {t} /\ calls' = calls \ {c}
      /\ row' = row /\ approval' = approval /\ creating' = creating /\ ran' = ran
      /\ research' = research /\ early' = early /\ stopped' = stopped
      /\ hot'[t] = c.row /\ c.row.status \notin Behind
  BY DEF SyncOther, Replace, CallsReadDecided, Behind, Typed, TypeOK
<1>2. /\ row[t].status \notin {"none", "waiting_approval"}
      /\ approval[t].status \notin {"none", "pending"}
      /\ creating[t] # Absent => creating[t].status = "waiting_approval" /\ t \in early
  BY CalledIsDecided DEF NoCalls
<1>3. Created(t)' /\ Engaged(t)'
  BY <1>1, <1>2 DEF Created, Engaged, Behind
<1>4. CASE approval[t].status # "approved"
  <2>1. Barred(t)
    BY <1>2, <1>4 DEF Consistent
  <2>2. worker' = worker /\ worker.task # t
    BY <1>1, <2>1 DEF Replace, Barred
  <2>3. Barred(t)'
    BY <1>1, <1>2, <2>1, <2>2 DEF Barred, Behind, NoCalls
  <2>4. ASSUME t \notin early
        PROVE  Placed(t)' /\ (t \in stopped \/ ran[t] # <<>> => Quiet(t)')
    BY <1>1, <2>1, <2>2, <2>4 DEF Consistent, Placed, Quiet, Barred, Behind
  <2>q. QED BY <1>1, <1>2, <1>3, <1>4, <2>1, <2>3, <2>4 DEF Consistent, Barred
<1>5. CASE approval[t].status = "approved"
  <2>1. Granted(t) /\ Granted(t)'
    BY <1>1, <1>5 DEF Consistent, Granted
  <2>2. ASSUME t \notin early
        PROVE  /\ Placed(t)' /\ (t \in stopped \/ ran[t] # <<>> => Quiet(t)') /\ Carried(t)'
               /\ Len(ran[t]) <= 1
    <3>1. /\ Placed(t) /\ Carried(t) /\ Len(ran[t]) <= 1
          /\ (t \in stopped \/ ran[t] # <<>> => Quiet(t))
      BY <1>5, <2>2 DEF Consistent
    <3>2. worker.task = t => hot[t] # Absent
      BY <3>1, BuiltHas DEF Placed
    <3>3. /\ worker'.task = worker.task /\ worker'.at = worker.at
          /\ worker.task = t => Mine' = Mine
      <4>1. CASE worker.task = t /\ worker.held = Absent
        BY <1>1, <3>2, <4>1 DEF Replace, Mine, Typed, TypeOK, Worker
      <4>2. CASE ~(worker.task = t /\ worker.held = Absent)
        BY <1>1, <4>2 DEF Replace, Mine
      <4>q. QED BY <4>1, <4>2
    <3>4. Placed(t)'
      BY <1>1, <2>1, <3>1, <3>3 DEF Placed, Granted, Behind
    <3>5. Quiet(t) => Quiet(t)'
      BY <1>1, <2>1, <3>3 DEF Quiet, Granted
    <3>6. AsApproved(t, c.row)
      BY <1>1, <3>1, BuiltHas DEF Carried, Behind
    <3>7. Carried(t)'
      BY <1>1, <3>1, <3>3, <3>6 DEF Carried, AsApproved, Behind
    <3>q. QED BY <3>1, <3>4, <3>5, <3>7
  <2>q. QED BY <1>1, <1>3, <1>5, <2>1, <2>2 DEF Consistent, Granted
<1>q. QED BY <1>4, <1>5

LEMMA CancelConsistent ==
  ASSUME Typed, NEW t \in Task, Consistent(t), Cancel(t)
  PROVE  Consistent(t)'
<1> DEFINE o == IF HasProcess(t) THEN [hot[t] EXCEPT !.cancel = TRUE] ELSE Cancelled(hot[t])
<1>1. /\ hot[t].status \in {"waiting_approval", "queued", "running"}
      /\ row'[t] = o /\ hot'[t] = o /\ approval' = approval /\ creating' = creating
      /\ queue' = queue /\ research' = research /\ worker' = worker /\ calls' = calls
      /\ ran' = ran /\ early' = early
      /\ worker.task = t => stopped' = stopped
  BY DEF Cancel, Status, Final, Typed, TypeOK, Object
<1>2. /\ o.timeout = hot[t].timeout /\ o.cancel = TRUE
      /\ IF HasProcess(t) THEN o.status = hot[t].status ELSE o.status = "cancelled"
  <2>1. hot[t] \in Object
    BY DEF Typed, TypeOK
  <2>2. CASE HasProcess(t)
    BY <2>1, <2>2 DEF Object
  <2>3. CASE ~HasProcess(t)
    BY <2>1, <2>3 DEF Cancelled, Object
  <2>q. QED BY <2>2, <2>3
<1>h. HIDE DEF o
<1>3. row[t].status # "none"
  BY <1>1 DEF Consistent, Untouched
<1>4. HasProcess(t) => hot[t].status \notin {"none", "waiting_approval"}
  BY DEF HasProcess, Consistent, Engaged
<1>5. o.status \notin {"none", "waiting_approval"}
  BY <1>1, <1>2, <1>4
<1>6. Plain(t) => Plain(t)'
  BY <1>1, <1>5 DEF Plain, NoCalls
<1>7. Granted(t) => Granted(t)'
  BY <1>1, <1>5 DEF Granted
<1>8. Barred(t) => Barred(t)'
  BY <1>1, <1>2 DEF Barred, HasProcess, NoCalls
<1>9. Created(t)' /\ Engaged(t)'
  BY <1>1, <1>2, <1>5 DEF Consistent, Created, Engaged
<1>10. ASSUME t \notin early
       PROVE  (Placed(t)' /\ Quiet(t)') \/ (Placed(t)' /\ t \notin stopped' /\ ran[t] = <<>>)
  <2>1. Placed(t) /\ (t \in stopped \/ ran[t] # <<>> => Quiet(t))
    BY <1>10 DEF Consistent
  <2>2. HasProcess(t) => hot[t].status \notin Behind /\ worker.task = t
    BY <2>1 DEF HasProcess, Placed
  <2>3. o.status \notin Behind
    BY <1>2, <2>2 DEF Behind
  <2>4. Placed(t)'
    BY <1>1, <1>5, <2>1, <2>3 DEF Placed
  <2>5. Quiet(t)' \/ (t \notin stopped' /\ ran[t] = <<>>)
    <3>1. CASE worker.task # t
      BY <1>1, <1>2, <2>3, <3>1 DEF Quiet
    <3>2. CASE worker.task = t /\ Quiet(t)
      <4>1. Mine.cancel => Mine'.cancel
        BY <1>1, <1>2, <3>2 DEF Mine
      <4>q. QED BY <1>1, <1>2, <2>3, <3>2, <4>1 DEF Quiet
    <3>3. CASE worker.task = t /\ ~Quiet(t)
      BY <1>1, <2>1, <3>3
    <3>q. QED BY <3>1, <3>2, <3>3
  <2>q. QED BY <2>4, <2>5
<1>11. Carried(t) => Carried(t)'
  <2>1. worker.task = t => Mine'.timeout = Mine.timeout /\ (Mine' = Mine \/ Mine'.cancel)
    BY <1>1, <1>2 DEF Mine
  <2>q. QED BY <1>1, <1>2, <1>5, <2>1 DEF Carried, AsApproved
<1>12. t \notin early => Len(ran[t]) <= 1
  BY DEF Consistent
<1>q. QED BY <1>1, <1>3, <1>5, <1>6, <1>7, <1>8, <1>9, <1>10, <1>11, <1>12 DEF Consistent

LEMMA SupplementConsistent ==
  ASSUME Typed, NEW t \in Task, Consistent(t), Supplement(t)
  PROVE  Consistent(t)'
<1>1. /\ hot[t].status \notin {"none", "waiting_approval"} /\ row'[t] = hot[t]
      /\ hot' = hot /\ approval' = approval /\ creating' = creating
      /\ queue' = queue /\ research' = research /\ worker' = worker /\ calls' = calls
      /\ ran' = ran /\ early' = early /\ stopped' = stopped /\ Mine' = Mine
  BY DEF Supplement, Mine, Typed, TypeOK
<1>2. row[t].status # "none" /\ row'[t].status # "none"
  BY <1>1 DEF Consistent, Untouched
<1>b. Barred(t) => Barred(t)'
  BY <1>1 DEF Barred, NoCalls
<1>3. /\ Plain(t) => Plain(t)'
      /\ Granted(t) => Granted(t)'
      /\ Engaged(t) => Engaged(t)'
  BY <1>1 DEF Plain, NoCalls, Granted, Engaged
<1>4. Created(t)'
  BY <1>1, <1>2 DEF Consistent, Created, Plain
<1>5. Placed(t) => Placed(t)'
  BY <1>1 DEF Placed, Behind
<1>6. Quiet(t) => Quiet(t)'
  BY <1>1 DEF Quiet, Behind
<1>7. Carried(t) => Carried(t)'
  BY <1>1 DEF Carried, AsApproved
<1>q. QED BY <1>1, <1>2, <1>b, <1>3, <1>4, <1>5, <1>6, <1>7 DEF Consistent

-----------------------------------------------------------------------------
(* The worker.                                                             *)

(* A task the worker has was created, and asked for or approved.           *)
LEMMA WorkedOn ==
  ASSUME NEW t \in Task, Consistent(t), worker.task = t \/ t \in queue
  PROVE  /\ row[t].status # "none" /\ ~Barred(t)
         /\ approval[t].status = "none" \/ approval[t].status = "approved"
         /\ approval[t].status = "none" => Plain(t)
         /\ approval[t].status = "approved" => Granted(t)
BY DEF Consistent, Untouched, Barred

LEMMA SaveIs ==
  ASSUME Typed, worker.task \in Task, NEW o \in Object, Save(o)
  PROVE  /\ row'[worker.task] = o
         /\ worker.held = Absent => hot'[worker.task] = o
         /\ worker.held # Absent => hot' = hot
         /\ \A u \in Task : u # worker.task => row'[u] = row[u] /\ hot'[u] = hot[u]
BY DEF Typed, TypeOK, Save

(* The worker has no task before and after the step.                       *)
LEMMA WakeSleepConsistent ==
  ASSUME Typed, NEW u \in Task, Consistent(u), Wake \/ Sleep
  PROVE  Consistent(u)'
<1>1. worker.task # u /\ worker'.task # u
  BY FreeIsTyped DEF Wake, Sleep, Typed, WorkerShape
<1>2. Aside(u)
  BY <1>1 DEF Aside, Wake, Sleep
<1>q. QED BY <1>2, AsideStaysConsistent

LEMMA PopConsistent ==
  ASSUME Typed, NEW t \in Task, Consistent(t), Pop(t)
  PROVE  Consistent(t)'
<1>1. /\ worker'.at = "popped" /\ worker'.task = t /\ worker'.held = Absent
      /\ t \notin queue' /\ t \in queue /\ worker.task # t
  BY FreeIsTyped, BuiltIsTyped DEF Pop, Free, Typed, WorkerShape
<1>2. /\ hot' = hot /\ row' = row /\ approval' = approval /\ creating' = creating
      /\ research' = research /\ calls' = calls
      /\ ran' = ran /\ early' = early /\ stopped' = stopped
  BY DEF Pop
<1>m. Mine' = hot[t]
  BY <1>1, <1>2 DEF Mine
<1>3. /\ row[t].status # "none"
      /\ approval[t].status = "none" \/ approval[t].status = "approved"
      /\ approval[t].status = "none" => Plain(t)
      /\ approval[t].status = "approved" => Granted(t)
  BY <1>1, WorkedOn
<1>4. /\ Plain(t) => Plain(t)'
      /\ Granted(t) => Granted(t)'
      /\ Created(t) => Created(t)'
      /\ Engaged(t)'
  BY <1>1, <1>2 DEF Plain, NoCalls, Granted, Created, Engaged
<1>5. Placed(t) => Placed(t)'
  BY <1>1, <1>2 DEF Placed
<1>6. Quiet(t) => Quiet(t)'
  <2>1. ASSUME Quiet(t) PROVE Mine'.cancel /\ hot[t].status \notin Behind /\ row[t].status \notin Behind
    BY <1>1, <1>m, <2>1 DEF Quiet
  <2>q. QED BY <1>1, <1>2, <2>1 DEF Quiet, Behind
<1>7. Placed(t) /\ Carried(t) => Carried(t)'
  BY <1>1, <1>2, <1>m DEF Placed, Carried, AsApproved
<1>q. QED BY <1>2, <1>3, <1>4, <1>5, <1>6, <1>7 DEF Consistent

LEMMA ClearConsistent ==
  ASSUME Typed, NEW t \in Task, worker.task = t, Consistent(t), Clear
  PROVE  Consistent(t)'
<1>1. /\ worker.at = "popped" /\ ~Mine.cancel
      /\ worker'.at = "cleared" /\ worker'.task = t /\ worker'.held = worker.held
  BY DEF Clear, Typed, TypeOK, Worker
<1>2. /\ hot' = hot /\ row' = row /\ approval' = approval /\ creating' = creating
      /\ queue' = queue /\ research' = research /\ calls' = calls
      /\ ran' = ran /\ early' = early /\ stopped' = stopped
  BY DEF Clear
<1>m. Mine' = Mine
  BY <1>1, <1>2 DEF Mine
<1>3. /\ row[t].status # "none"
      /\ approval[t].status = "none" \/ approval[t].status = "approved"
      /\ approval[t].status = "none" => Plain(t)
      /\ approval[t].status = "approved" => Granted(t)
  BY WorkedOn
<1>4. /\ Plain(t) => Plain(t)'
      /\ Granted(t) => Granted(t)'
      /\ Created(t) => Created(t)'
      /\ Engaged(t)'
  BY <1>1, <1>2 DEF Plain, NoCalls, Granted, Created, Engaged
<1>5. Placed(t) => Placed(t)'
  BY <1>1, <1>2 DEF Placed, Behind
<1>6. ~Quiet(t)
  BY <1>1 DEF Quiet
<1>7. Carried(t) => Carried(t)'
  BY <1>1, <1>2, <1>m DEF Carried, AsApproved
<1>q. QED BY <1>2, <1>3, <1>4, <1>5, <1>6, <1>7 DEF Consistent

LEMMA StartConsistent ==
  ASSUME Typed, NEW t \in Task, worker.task = t, Consistent(t), Start
  PROVE  Consistent(t)'
<1> DEFINE o == [Mine EXCEPT !.status = "running"]
<1>1. /\ Mine \in Object /\ o \in Object /\ o.status = "running" /\ o.timeout = Mine.timeout
      /\ o.cancel = Mine.cancel /\ o # Absent
  BY MineIsTyped, BuiltHas DEF Typed, Object, Status
<1>2. Save(o) /\ worker.at = "cleared"
  BY DEF Start
<1>3. /\ worker'.at = "running" /\ worker'.task = t
      /\ worker.held = Absent => worker'.held = Absent
      /\ worker.held # Absent => worker'.held = o
  <2>1. worker' = [worker EXCEPT !.at = "running",
                                 !.held = IF worker.held = Absent THEN Absent ELSE o]
    BY DEF Start, Typed, TypeOK, Worker
  <2>q. QED BY <2>1 DEF Typed, TypeOK, Worker
<1>h. HIDE DEF o
<1>4. /\ row'[t] = o /\ (worker.held = Absent => hot'[t] = o)
      /\ worker.held # Absent => hot'[t] = hot[t]
  BY <1>1, <1>2, SaveIs
<1>5. /\ approval' = approval /\ creating' = creating
      /\ queue' = queue /\ research' = research /\ calls' = calls
      /\ ran' = ran /\ early' = early /\ stopped' = stopped
  BY DEF Start
<1>m. Mine' = o
  BY <1>1, <1>3, <1>4 DEF Mine
<1>6. /\ row[t].status # "none"
      /\ approval[t].status = "none" \/ approval[t].status = "approved"
      /\ approval[t].status = "none" => Plain(t)
      /\ approval[t].status = "approved" => Granted(t)
  BY WorkedOn
<1>7. /\ row[t].status # "none" /\ Plain(t) => Plain(t)'
      /\ Granted(t) => Granted(t)'
      /\ Created(t) /\ approval[t].status # "pending" => Created(t)'
      /\ Engaged(t)'
  BY <1>1, <1>3, <1>4, <1>5 DEF Plain, NoCalls, Granted, Created, Engaged
<1>8. Placed(t) => Placed(t)'
  BY <1>1, <1>3, <1>4, <1>5 DEF Placed, Behind
<1>9. ~Quiet(t)
  BY <1>2 DEF Quiet
<1>10. Placed(t) /\ Carried(t) => Carried(t)'
  BY <1>1, <1>2, <1>3, <1>4, <1>5, <1>m DEF Placed, Carried, AsApproved, Behind
<1>q. QED BY <1>1, <1>4, <1>5, <1>6, <1>7, <1>8, <1>9, <1>10 DEF Consistent

LEMMA SpawnConsistent ==
  ASSUME Typed, NEW t \in Task, worker.task = t, Consistent(t), Spawn
  PROVE  Consistent(t)'
<1>1. /\ worker.at = "running"
      /\ worker'.at = "spawned" /\ worker'.task = t /\ worker'.held = worker.held
  BY DEF Spawn, Typed, TypeOK, Worker
<1>2. /\ hot' = hot /\ row' = row /\ approval' = approval /\ creating' = creating
      /\ queue' = queue /\ research' = research /\ calls' = calls
      /\ early' = early /\ stopped' = stopped
      /\ ran'[t] = Append(ran[t], Mine.timeout)
  BY DEF Spawn, Typed, TypeOK
<1>m. Mine' = Mine /\ Mine \in Object
  BY <1>1, <1>2, MineIsTyped DEF Mine, Typed
<1>3. /\ row[t].status # "none"
      /\ approval[t].status = "none" \/ approval[t].status = "approved"
      /\ approval[t].status = "none" => Plain(t)
      /\ approval[t].status = "approved" => Granted(t)
  BY WorkedOn
<1>4. /\ Plain(t) => Plain(t)'
      /\ Granted(t) => Granted(t)'
      /\ Created(t) => Created(t)'
      /\ Engaged(t) => Engaged(t)'
  BY <1>1, <1>2 DEF Plain, NoCalls, Granted, Created, Engaged
<1>5. Placed(t) => Placed(t)' /\ Quiet(t)'
  BY <1>1, <1>2 DEF Placed, Quiet, Behind
<1>6. ASSUME t \notin early
      PROVE  ran'[t] = <<Mine.timeout>>
  <2>1. ran[t] = <<>>
    BY <1>1, <1>6 DEF Consistent, Quiet
  <2>q. QED BY <1>2, <2>1
<1>7. t \notin early /\ Carried(t) => Carried(t)'
  <2>1. ASSUME t \notin early, Carried(t), NEW i \in 1..Len(ran'[t])
        PROVE  ran'[t][i] = approval[t].timeout
    BY <1>1, <1>6, <2>1 DEF Carried
  <2>q. QED BY <1>1, <1>2, <1>m, <2>1 DEF Carried, AsApproved
<1>q. QED BY <1>2, <1>3, <1>4, <1>5, <1>6, <1>7 DEF Consistent

LEMMA EndConsistent ==
  ASSUME Typed, NEW t \in Task, worker.task = t, Consistent(t),
         NEW outcome \in {"done", "failed"}, End(outcome)
  PROVE  Consistent(t)'
<1>1. /\ worker.at \in {"running", "spawned"}
      /\ worker'.at = "ended" /\ worker'.task = t /\ worker'.held = worker.held
  BY DEF End, Typed, TypeOK, Worker
<1>2. /\ hot' = hot /\ row' = row /\ approval' = approval /\ creating' = creating
      /\ queue' = queue /\ research' = research /\ calls' = calls
      /\ early' = early /\ stopped' = stopped /\ ran' = ran
  BY DEF End
<1>m. Mine' = Mine
  BY <1>1, <1>2 DEF Mine
<1>3. /\ row[t].status # "none"
      /\ approval[t].status = "none" \/ approval[t].status = "approved"
      /\ approval[t].status = "none" => Plain(t)
      /\ approval[t].status = "approved" => Granted(t)
  BY WorkedOn
<1>4. /\ Plain(t) => Plain(t)'
      /\ Granted(t) => Granted(t)'
      /\ Created(t) => Created(t)'
      /\ Engaged(t) => Engaged(t)'
  BY <1>1, <1>2 DEF Plain, NoCalls, Granted, Created, Engaged
<1>5. Placed(t) => Placed(t)'
  BY <1>1, <1>2 DEF Placed, Behind
<1>6. Quiet(t) => Quiet(t)'
  BY <1>1, <1>2 DEF Quiet, Behind
<1>7. Carried(t) => Carried(t)'
  BY <1>1, <1>2, <1>m DEF Carried, AsApproved
<1>q. QED BY <1>2, <1>3, <1>4, <1>5, <1>6, <1>7 DEF Consistent

(* The worker lets go of its task with a final status.                     *)
LEMMA LetGoConsistent ==
  ASSUME Typed, NEW t \in Task, worker.task = t, Consistent(t), NEW status \in Final,
         Save([Mine EXCEPT !.status = status]), worker' = Free("draining"),
         Mine.cancel \/ worker.at = "ended",
         UNCHANGED <<approval, queue, event, creating, research, calls, crashes, ran,
                     early, stopped>>
  PROVE  Consistent(t)'
<1> DEFINE o == [Mine EXCEPT !.status = status]
<1>1. /\ Mine \in Object /\ o \in Object /\ o.status = status /\ o.timeout = Mine.timeout
      /\ o.cancel = Mine.cancel
  BY MineIsTyped DEF Typed, Object, Status
<1>2. Save(o)
  OBVIOUS
<1>h. HIDE DEF o
<1>3. /\ row'[t] = o /\ (worker.held = Absent => hot'[t] = o)
      /\ worker.held # Absent => hot'[t] = hot[t]
  BY <1>1, <1>2, SaveIs
<1>4. worker'.task # t
  BY FreeIsTyped
<1>5. /\ row[t].status # "none"
      /\ approval[t].status = "none" \/ approval[t].status = "approved"
      /\ approval[t].status = "none" => Plain(t)
      /\ approval[t].status = "approved" => Granted(t)
  BY WorkedOn
<1>6. /\ row[t].status # "none" /\ Plain(t) => Plain(t)'
      /\ Granted(t) => Granted(t)'
      /\ Created(t) /\ approval[t].status # "pending" => Created(t)'
      /\ Engaged(t)'
  BY <1>1, <1>3, <1>4 DEF Plain, NoCalls, Granted, Created, Engaged, Final
<1>7. Placed(t) => Placed(t)'
  BY <1>1, <1>3, <1>4 DEF Placed, Behind
<1>8. Placed(t) => Quiet(t)'
  <2>1. o.status \notin Behind
    BY <1>1 DEF Behind, Final
  <2>q. QED BY <1>1, <1>3, <1>4, <2>1 DEF Placed, Quiet
<1>9. Placed(t) /\ Carried(t) => Carried(t)'
  <2>1. ASSUME Carried(t) PROVE AsApproved(t, o)
    BY <1>1, <2>1 DEF Carried, AsApproved
  <2>q. QED BY <1>1, <1>3, <1>4, <2>1 DEF Placed, Carried, AsApproved, Final, Behind
<1>q. QED BY <1>1, <1>3, <1>5, <1>6, <1>7, <1>8, <1>9 DEF Consistent, Final

(* Tasks the worker does not hold.                                         *)
LEMMA OthersAside ==
  ASSUME Typed, NEW u \in Task, worker.task # u,
         \/ SkipCancelled \/ Clear \/ Start \/ Spawn
         \/ \E outcome \in {"done", "failed"} : End(outcome)
         \/ \E raised \in BOOLEAN : Finish(raised)
  PROVE  Aside(u)
<1>1. worker.task \in Task
  BY DEF SkipCancelled, Clear, Start, Spawn, End, Finish, Typed, TypeOK, WorkerShape, Worker
<1>2. worker'.task # u
  <2>1. worker'.task = worker.task \/ worker' = Free("draining")
    BY DEF SkipCancelled, Clear, Start, Spawn, End, Finish, Typed, TypeOK, Worker
  <2>q. QED BY <2>1, FreeIsTyped
<1>3. row'[u] = row[u] /\ hot'[u] = hot[u] /\ ran'[u] = ran[u]
  BY <1>1 DEF SkipCancelled, Clear, Start, Spawn, End, Finish, Save, Typed, TypeOK
<1>q. QED BY <1>2, <1>3 DEF Aside, SkipCancelled, Clear, Start, Spawn, End, Finish

LEMMA WorkerConsistent ==
  ASSUME Typed, NEW u \in Task, Consistent(u), WorkerStep
  PROVE  Consistent(u)'
<1>1. ASSUME NEW t \in Task, Pop(t) PROVE Consistent(u)'
  <2>1. CASE t = u
    BY <1>1, <2>1, PopConsistent
  <2>2. CASE t # u
    <3>1. worker.task # u /\ worker'.task # u
      BY <1>1, <2>2 DEF Pop, Free, Typed, WorkerShape
    <3>2. Aside(u)
      BY <1>1, <3>1 DEF Pop, Aside
    <3>q. QED BY <3>2, AsideStaysConsistent
  <2>q. QED BY <2>1, <2>2
<1>2. ASSUME worker.task # u,
             \/ SkipCancelled \/ Clear \/ Start \/ Spawn
             \/ \E outcome \in {"done", "failed"} : End(outcome)
             \/ \E raised \in BOOLEAN : Finish(raised)
      PROVE  Consistent(u)'
  BY <1>2, OthersAside, AsideStaysConsistent
<1>3. ASSUME worker.task = u, SkipCancelled PROVE Consistent(u)'
  BY <1>3, LetGoConsistent DEF SkipCancelled, Final
<1>4. ASSUME worker.task = u, NEW raised \in BOOLEAN, Finish(raised) PROVE Consistent(u)'
  <2>1. PICK status \in Final : Save([Mine EXCEPT !.status = status])
    BY <1>4 DEF Finish, Final, Typed, TypeOK, Worker
  <2>q. QED BY <1>4, <2>1, LetGoConsistent DEF Finish
<1>q. QED BY <1>1, <1>2, <1>3, <1>4, WakeSleepConsistent, ClearConsistent, StartConsistent,
          SpawnConsistent, EndConsistent DEF WorkerStep

-----------------------------------------------------------------------------
(* The restart, and every step.                                            *)

LEMMA RestartConsistent ==
  ASSUME Typed, NEW t \in Task, Consistent(t), Restart
  PROVE  Consistent(t)'
<1> DEFINE o == Recovered(row[t])
<1>1. /\ row[t] \in Object /\ o \in Object /\ o.timeout = row[t].timeout
      /\ o.cancel = row[t].cancel
      /\ row[t].status = "running" => o.status = "failed"
      /\ row[t].status # "running" => o = row[t]
  BY RecoveredIs DEF Typed, TypeOK
<1>2. /\ row'[t] = o /\ hot'[t] = o /\ (t \in queue' <=> row[t].status = "queued")
      /\ creating'[t] = Absent /\ research' = {} /\ calls' = {}
      /\ approval' = approval /\ ran' = ran /\ early' = early /\ stopped' = stopped
      /\ worker'.task # t
  BY FreeIsTyped DEF Restart, Resumable
<1>h. HIDE DEF o
<1>3. /\ Untouched(t) /\ row[t].status = "none" => Untouched(t)'
      /\ Plain(t) => Plain(t)'
      /\ Barred(t) => Barred(t)'
      /\ Granted(t) => Granted(t)'
      /\ Created(t)'
      /\ Engaged(t)'
      /\ Placed(t)'
  <2>1. Untouched(t) /\ row[t].status = "none" => Untouched(t)'
    BY <1>1, <1>2 DEF Untouched, NoCalls
  <2>2. Plain(t) => Plain(t)'
    BY <1>1, <1>2 DEF Plain, NoCalls
  <2>3. Barred(t) => Barred(t)'
    BY <1>1, <1>2 DEF Barred, NoCalls
  <2>4. Granted(t) => Granted(t)'
    BY <1>1, <1>2 DEF Granted
  <2>5. Created(t)' /\ Engaged(t)' /\ Placed(t)'
    BY <1>1, <1>2 DEF Created, Engaged, Placed
  <2>q. QED BY <2>1, <2>2, <2>3, <2>4, <2>5
<1>4. Quiet(t) => Quiet(t)'
  BY <1>1, <1>2 DEF Quiet, Behind
<1>5. Granted(t) /\ Carried(t) => Carried(t)'
  BY <1>1, <1>2 DEF Granted, Carried, AsApproved
<1>6. (o.status = "none") = (row[t].status = "none")
  BY <1>1
<1>q. QED BY <1>2, <1>3, <1>4, <1>5, <1>6 DEF Consistent

(* What a step about t does to another task.                               *)
LEMMA OtherTasksAside ==
  ASSUME Typed, NEW t \in Task, NEW u \in Task, u # t,
         \/ CreateTask(t) \/ CreatePaused(t) \/ Expose(t) \/ Establish(t) \/ Activate(t)
         \/ \E status \in {"done", "failed"} : EndResearch(t, status)
         \/ \E timeout \in Timeout : Approve(t, timeout)
         \/ Reject(t) \/ Supersede(t) \/ Replay(t) \/ TimePasses(t)
         \/ Read(t) \/ Sync(t) \/ Cancel(t) \/ Supplement(t)
  PROVE  Aside(u)
<1>1. CASE CreateTask(t) \/ CreatePaused(t) \/ Establish(t) \/ Activate(t)
  BY <1>1 DEF CreateTask, CreatePaused, Establish, Activate, Aside, Typed, TypeOK
<1>2. CASE Expose(t)
  <2>1. worker' = worker \/ (worker.task # u /\ worker'.task # u)
    BY <1>2 DEF Expose, Replace, Typed, TypeOK, Worker
  <2>q. QED BY <1>2, <2>1 DEF Expose, Replace, Aside, Typed, TypeOK
<1>3. ASSUME NEW status \in {"done", "failed"}, EndResearch(t, status) PROVE Aside(u)
  BY <1>3 DEF EndResearch, Aside, Typed, TypeOK
<1>4. ASSUME NEW timeout \in Timeout, Approve(t, timeout) PROVE Aside(u)
  <2>1. PICK r, p : row' = [row EXCEPT ![t] = r] /\ approval' = [approval EXCEPT ![t] = p]
    BY <1>4 DEF Approve
  <2>2. row'[u] = row[u] /\ approval'[u] = approval[u]
    BY <2>1 DEF Typed, TypeOK
  <2>3. /\ Called(t) /\ Decided(t)
        /\ UNCHANGED <<hot, queue, event, worker, creating, research, crashes, ran, stopped>>
    BY <1>4 DEF Approve
  <2>4. /\ u \in early' <=> u \in early
        /\ \A c \in calls' : c.task = u => c \in calls
    BY <2>3 DEF Called, Decided
  <2>q. QED BY <2>2, <2>3, <2>4 DEF Aside
<1>5. CASE Reject(t)
  BY <1>5 DEF Reject, Called, Decided, Aside, Typed, TypeOK
<1>6. CASE Supersede(t) \/ Replay(t) \/ TimePasses(t) \/ Cancel(t) \/ Supplement(t)
  BY <1>6 DEF Supersede, Replay, Called, TimePasses, Cancel, Supplement, Aside, Typed, TypeOK
<1>7. CASE Read(t)
  <2>1. calls' = (calls \ {[task |-> t, row |-> Absent]}) \cup {[task |-> t, row |-> row[t]]}
    BY <1>7 DEF Read, ReadRow
  <2>q. QED BY <1>7, <2>1 DEF Read, ReadRow, Aside
<1>8. CASE Sync(t)
  <2>1. PICK c \in calls : c.task = t /\ (SyncQueued(c) \/ SyncOther(c))
    BY <1>8 DEF Sync
  <2>2. ASSUME Replace(t, c.row)
        PROVE  /\ worker' = worker \/ (worker.task # u /\ worker'.task # u)
               /\ hot'[u] = hot[u]
    BY <2>2 DEF Replace, Typed, TypeOK, Worker
  <2>3. CASE SyncQueued(c)
    BY <2>1, <2>2, <2>3 DEF SyncQueued, Aside
  <2>4. CASE SyncOther(c)
    BY <2>1, <2>2, <2>4 DEF SyncOther, Aside
  <2>q. QED BY <2>1, <2>3, <2>4
<1>q. QED BY <1>1, <1>2, <1>3, <1>4, <1>5, <1>6, <1>7, <1>8

LEMMA StepConsistent ==
  ASSUME TaskInv, [TaskNext]_taskVars, NEW u \in Task
  PROVE  Consistent(u)'
<1>u. Typed /\ Consistent(u) /\ CallsReadDecided
  BY DEF TaskInv, Typed
<1>1. CASE UNCHANGED taskVars
  BY <1>u, <1>1, AsideStaysConsistent DEF taskVars, Aside
<1>2. CASE WorkerStep
  BY <1>u, <1>2, WorkerConsistent
<1>3. CASE Restart
  BY <1>u, <1>3, RestartConsistent
<1>4. CASE ExpireDue
  <2>1. Due \in SUBSET Task /\ \A t \in Due : Pending(t)
    BY DEF Due
  <2>2. /\ Expire(Due)
        /\ calls' = calls \cup {[task |-> t, row |-> Absent] : t \in Due}
        /\ UNCHANGED <<hot, queue, event, worker, creating, research, crashes, ran, stopped>>
    BY <1>4 DEF ExpireDue
  <2>q. QED BY <1>u, <2>1, <2>2, ExpireConsistent
<1>5. ASSUME NEW t \in Task, ExpireLate(t) PROVE Consistent(u)'
  <2>1. {t} \in SUBSET Task /\ \A v \in {t} : Pending(v)
    BY <1>5 DEF ExpireLate, Due
  <2>2. /\ Expire({t}) /\ calls' = calls
        /\ UNCHANGED <<hot, queue, event, worker, creating, research, crashes, ran, stopped>>
    BY <1>5 DEF ExpireLate
  <2>q. QED BY <1>u, <2>1, <2>2, ExpireConsistent
<1>6. ASSUME NEW t \in Task, t # u,
             \/ CreateTask(t) \/ CreatePaused(t) \/ Expose(t) \/ Establish(t) \/ Activate(t)
             \/ \E status \in {"done", "failed"} : EndResearch(t, status)
             \/ \E timeout \in Timeout : Approve(t, timeout)
             \/ Reject(t) \/ Supersede(t) \/ Replay(t) \/ TimePasses(t)
             \/ Read(t) \/ Sync(t) \/ Cancel(t) \/ Supplement(t)
      PROVE  Consistent(u)'
  BY <1>u, <1>6, OtherTasksAside, AsideStaysConsistent
<1>7. CASE \/ CreateTask(u) \/ CreatePaused(u) \/ Expose(u) \/ Establish(u) \/ Activate(u)
           \/ \E status \in {"done", "failed"} : EndResearch(u, status)
  BY <1>u, <1>7, CreateTaskConsistent, CreatePausedConsistent, ExposeConsistent,
     EstablishConsistent, ActivateConsistent, EndResearchConsistent
<1>8. CASE \/ \E timeout \in Timeout : Approve(u, timeout)
           \/ Reject(u) \/ Supersede(u) \/ Replay(u) \/ TimePasses(u)
  BY <1>u, <1>8, ApproveConsistent, RejectConsistent, SupersedeConsistent, ReplayConsistent,
     TimePassesConsistent
<1>9. CASE Read(u) \/ Sync(u) \/ Cancel(u) \/ Supplement(u)
  BY <1>u, <1>9, ReadConsistent, SyncQueuedConsistent, SyncOtherConsistent, CancelConsistent,
     SupplementConsistent DEF Sync
<1>q. QED BY <1>1, <1>2, <1>3, <1>4, <1>5, <1>6, <1>7, <1>8, <1>9 DEF TaskNext

LEMMA StepReadsDecided ==
  ASSUME TaskInv, [TaskNext]_taskVars
  PROVE  CallsReadDecided'
<1>u. Typed /\ CallsReadDecided
  BY DEF TaskInv, Typed
<1>1. ASSUME NEW t \in Task, Read(t) PROVE CallsReadDecided'
  <2>1. row[t].status \notin {"none", "waiting_approval"}
    BY <1>1, ReadConsistent, <1>u DEF TaskInv
  <2>2. calls' = (calls \ {[task |-> t, row |-> Absent]}) \cup {[task |-> t, row |-> row[t]]}
    BY <1>1 DEF Read, ReadRow
  <2>q. QED BY <1>u, <2>1, <2>2 DEF CallsReadDecided
<1>2. ASSUME \A c \in calls' : c \in calls \/ c.row = Absent PROVE CallsReadDecided'
  BY <1>u, <1>2 DEF CallsReadDecided
<1>3. CASE WorkerStep \/ Restart \/ ExpireDue \/ UNCHANGED taskVars
  BY <1>2, <1>3 DEF WorkerStep, Wake, Sleep, SkipCancelled, Clear, Start, Spawn, Pop, End, Finish,
                    Restart, ExpireDue, taskVars
<1>4. ASSUME NEW t \in Task,
             \/ CreateTask(t) \/ CreatePaused(t) \/ Expose(t) \/ Establish(t) \/ Activate(t)
             \/ \E status \in {"done", "failed"} : EndResearch(t, status)
             \/ \E timeout \in Timeout : Approve(t, timeout)
             \/ Reject(t) \/ Supersede(t) \/ Replay(t) \/ TimePasses(t) \/ ExpireLate(t)
             \/ Sync(t) \/ Cancel(t) \/ Supplement(t)
      PROVE  CallsReadDecided'
  <2>1. \/ calls' \subseteq calls
        \/ Called(t)
    BY <1>4 DEF CreateTask, CreatePaused, Expose, Establish, Activate, EndResearch,
                Approve, Reject, Supersede, Replay, TimePasses, ExpireLate,
                Sync, SyncQueued, SyncOther, Cancel, Supplement
  <2>q. QED BY <1>2, <2>1 DEF Called
<1>q. QED BY <1>1, <1>3, <1>4 DEF TaskNext

-----------------------------------------------------------------------------
(* The theorems.                                                           *)

LEMMA InitInv == TaskInit => TaskInv
<1> SUFFICES ASSUME TaskInit PROVE TaskInv
  OBVIOUS
<1>u. USE DEF TaskInit
<1>1. TypeOK
  <2>1. Absent \in Object /\ Free("asleep") \in Worker
    BY BuiltIsTyped, FreeIsTyped
  <2>2. [status |-> "none", timeout |-> Asked, overdue |-> FALSE] \in Approval
    BY DEF Approval
  <2>3. <<>> \in Seq(Timeout) /\ crashes \in 0..MaxCrashes
    OBVIOUS
  <2>q. QED BY <2>1, <2>2, <2>3 DEF TypeOK
<1>2. WorkerShape /\ CallsReadDecided
  BY FreeIsTyped DEF WorkerShape, CallsReadDecided
<1>3. ASSUME NEW t \in Task PROVE Consistent(t)
  <2>1. /\ row[t] = Absent /\ hot[t] = Absent /\ creating[t] = Absent
        /\ approval[t].status = "none" /\ worker.task # t /\ ran[t] = <<>> /\ Absent.status = "none"
    BY FreeIsTyped, BuiltHas
  <2>q. QED BY <2>1 DEF Consistent, Untouched, Plain, Created, Engaged, Placed, NoCalls
<1>q. QED BY <1>1, <1>2, <1>3 DEF TaskInv

(* Every copy of a task, wherever it is, agrees with what was decided      *)
(* about it, and no copy leads it to the worker a second time.             *)
THEOREM TaskIsInvariant == TaskSpec => []TaskInv
<1>1. TaskInv /\ [TaskNext]_taskVars => TaskInv'
  <2> SUFFICES ASSUME TaskInv, [TaskNext]_taskVars PROVE TaskInv'
    OBVIOUS
  <2>1. Typed'
    BY Typing DEF TaskInv, Typed
  <2>2. \A t \in Task : Consistent(t)'
    BY StepConsistent
  <2>q. QED BY <2>1, <2>2, StepReadsDecided DEF TaskInv, Typed
<1>q. QED BY InitInv, <1>1, PTL DEF TaskSpec

(* Rows, objects, approvals, the queue and the worker have their types.    *)
THEOREM TaskIsTyped == TaskSpec => []TypeOK
<1>1. TaskInv => TypeOK
  BY DEF TaskInv
<1>q. QED BY <1>1, TaskIsInvariant, PTL

(* No process runs for a task that awaited an approval and did not get it, *)
(* and one that did runs with the approved timeout.                        *)
THEOREM ApprovedRunsOnly == TaskSpec => []RunsAsApproved
<1>1. TaskInv => RunsAsApproved
  <2> SUFFICES ASSUME TaskInv, NEW t \in Task, NEW i \in 1..Len(ran[t]),
                      approval[t].status # "none"
               PROVE  /\ approval[t].status = "approved"
                      /\ t \notin early => ran[t][i] = approval[t].timeout
    BY DEF RunsAsApproved
  <2>1. Consistent(t)
    BY DEF TaskInv
  <2>2. ran[t] # <<>>
    OBVIOUS
  <2>q. QED BY <2>1, <2>2 DEF Consistent, Barred, Carried
<1>q. QED BY <1>1, TaskIsInvariant, PTL

(* Callbacks, replays, cancellations and restarts start no task twice.     *)
THEOREM OneRunPerTask == TaskSpec => []RunsOnce
<1>1. TaskInv => RunsOnce
  BY DEF TaskInv, Consistent, RunsOnce
<1>q. QED BY <1>1, TaskIsInvariant, PTL

(* A row waits only for an approval that is still pending.                 *)
THEOREM NoneWaitsInVain == TaskSpec => []WaitingIsPending
<1>1. TaskInv => WaitingIsPending
  <2> SUFFICES ASSUME TaskInv, NEW t \in Task, row[t].status = "waiting_approval"
               PROVE  Pending(t)
    BY DEF WaitingIsPending
  <2>1. Consistent(t)
    BY DEF TaskInv
  <2>q. QED BY <2>1 DEF Consistent, Plain, Barred, Granted, Pending
<1>q. QED BY <1>1, TaskIsInvariant, PTL

(* A task cancelled before the worker took it is never started.            *)
THEOREM CancelledStaysOff == TaskSpec => StoppedStaysOff
<1>1. TaskInv /\ [TaskNext]_taskVars => [\A t \in stopped \ early : ran'[t] = ran[t]]_taskVars
  <2> SUFFICES ASSUME TaskInv, TaskNext, NEW t \in stopped \ early
               PROVE  ran'[t] = ran[t]
    BY DEF taskVars
  <2>1. Typed /\ t \in Task /\ Quiet(t)
    BY DEF TaskInv, Typed, TypeOK, Consistent
  <2>2. CASE Spawn
    <3>1. worker.task # t
      BY <2>1, <2>2 DEF Spawn, Quiet
    <3>q. QED BY <2>1, <2>2, <3>1 DEF Spawn, Typed, TypeOK
  <2>3. CASE ~Spawn
    BY <2>3 DEF TaskNext, WorkerStep, Wake, Sleep, SkipCancelled, Clear, Start, Pop, End, Finish,
                Restart, ExpireDue, CreateTask, CreatePaused, Expose, Establish, Activate,
                EndResearch, Approve, Reject, Supersede, Replay, TimePasses, ExpireLate,
                Read, ReadRow, Sync, SyncQueued, SyncOther, Cancel, Supplement
  <2>q. QED BY <2>2, <2>3
<1>q. QED BY <1>1, TaskIsInvariant, PTL DEF TaskSpec, StoppedStaysOff
=============================================================================
