--------------------------- MODULE DeliveryOutbox ---------------------------
(***************************************************************************)
(* The durable Delivery Outbox of the Bridge and the QQ delivery worker    *)
(* that drains it.                                                         *)
(*                                                                         *)
(* The Outbox is one SQLite table.  Every operation of it is one BEGIN     *)
(* IMMEDIATE transaction, hence one action here.  The worker talks to it   *)
(* over HTTP: a call may be answered late, its answer may be lost, and the *)
(* worker may stop between any two calls, so the worker's progress on each *)
(* claim it was handed is a program counter of its own (job).              *)
(*                                                                         *)
(* Three abstractions.  A lease token is a fresh UUID per claim and a      *)
(* claim increments the attempt number, so the attempt number stands for   *)
(* the token (0 is the empty token).  lease_owner and lease_expires_at are *)
(* always written together, so one field, lease, stands for both.  Time is *)
(* not counted: a live lease may expire, and a scheduled row may become    *)
(* due, at any step.                                                       *)
(***************************************************************************)
EXTENDS Integers, FiniteSets

CONSTANTS
  Delivery,     \* dedupe keys: a row is identified by its unique dedupe_key
  Thread,       \* (channel, thread_ref) pairs with a non-empty thread_ref
  NoThread,     \* thread_ref = ''
  ThreadOf,     \* thread of each delivery
  Logical,      \* non-empty logical_response_id values
  NoLogical,    \* logical_response_id = ''
  LogicalOf,    \* logical response of each delivery
  ClassOf,      \* delivery_class of each delivery
  Key,          \* non-empty reservation keys
  Engageable,   \* deliveries a participation decision may be bound to
  Namespace,    \* dedupe prefixes, each the set of deliveries it selects
  MaxAttempts,  \* max_attempts given at enqueue (default 5)
  RequeueGrant, \* attempts an operator requeue grants (DEFAULT_MAX_ATTEMPTS)
  AttemptCap,   \* bound on max_attempts, which deferral and requeue raise
  SeqCap        \* bound on response sequences

ASSUME DeliveryAssumption ==
  /\ NoThread \notin Thread
  /\ NoLogical \notin Logical
  /\ ThreadOf \in [Delivery -> Thread \cup {NoThread}]
  /\ LogicalOf \in [Delivery -> Logical \cup {NoLogical}]
  /\ ClassOf \in [Delivery -> {"operational", "social", "topic_social"}]
  /\ Engageable \subseteq Delivery
  /\ Namespace \subseteq SUBSET Delivery

ASSUME BoundAssumption ==
  /\ AttemptCap \in Nat /\ SeqCap \in Nat
  /\ MaxAttempts \in 1..AttemptCap
  /\ RequeueGrant \in Nat \ {0}

VARIABLES
  rows,       \* deliveries that have a row
  row,        \* the row of each delivery, BlankRow before it is enqueued
  ledger,     \* delivery_attempts: state of each attempt of each delivery
  current,    \* delivery_thread_sequences.current_sequence of each thread
  reserved,   \* delivery_response_reservations, 0 when there is none
  job,        \* what the claimant of each attempt has done so far
  landed,     \* history: the attempts whose message reached the QQ chat
  requeued,   \* history: rows an operator has requeued
  overtaken   \* history: rows enqueued below a sequence already claimed

outboxVars == <<rows, row, ledger, current, reserved>>
vars == <<rows, row, ledger, current, reserved, job, landed, requeued, overtaken>>

AttemptNo == 1..AttemptCap

LastAction == {"", "claim", "send_start", "ack", "retry", "dead_letter",
               "ambiguous", "policy_defer", "policy_cancel", "superseded",
               "operator_requeue"}

Certainty == {"pending", "claimed", "sending", "confirmed", "rejected", "ambiguous"}

AttemptState == {"none", "claimed", "sending", "confirmed", "rejected", "ambiguous"}

(***************************************************************************)
(* A claimant has been handed the claim (held), got the permission to send *)
(* (started), saw the platform accept (sent), raise (failed) or time out   *)
(* with SendMsg retcode 1200 (unknown), or is done with it (gone).  It may *)
(* stop in any of these states - a plug-in reload, a lost claim answer, a  *)
(* crash - which is the behaviour in which it takes no further step.       *)
(***************************************************************************)
JobState == {"none", "held", "started", "sent", "failed", "unknown", "gone"}

Row == [attempt: 0..AttemptCap, max: 0..AttemptCap, due: BOOLEAN,
        lease: {"none", "live", "expired"}, token: 0..AttemptCap,
        last: LastAction, cert: Certainty, dead: BOOLEAN, acked: BOOLEAN,
        superseded: BOOLEAN, seq: 0..SeqCap, engaged: BOOLEAN]

BlankRow == [attempt |-> 0, max |-> 0, due |-> FALSE, lease |-> "none",
             token |-> 0, last |-> "", cert |-> "pending", dead |-> FALSE,
             acked |-> FALSE, superseded |-> FALSE, seq |-> 0,
             engaged |-> FALSE]

TypeOK ==
  /\ rows \subseteq Delivery
  /\ row \in [Delivery -> Row]
  /\ ledger \in [Delivery -> [AttemptNo -> AttemptState]]
  /\ current \in [Thread -> 0..SeqCap]
  /\ reserved \in [Thread -> [Key -> 0..SeqCap]]
  /\ job \in [Delivery -> [AttemptNo -> JobState]]
  /\ landed \in [Delivery -> SUBSET AttemptNo]
  /\ requeued \subseteq Delivery
  /\ overtaken \subseteq Delivery

Init ==
  /\ rows = {}
  /\ row = [d \in Delivery |-> BlankRow]
  /\ ledger = [d \in Delivery |-> [a \in AttemptNo |-> "none"]]
  /\ current = [t \in Thread |-> 0]
  /\ reserved = [t \in Thread |-> [k \in Key |-> 0]]
  /\ job = [d \in Delivery |-> [a \in AttemptNo |-> "none"]]
  /\ landed = [d \in Delivery |-> {}]
  /\ requeued = {}
  /\ overtaken = {}

-----------------------------------------------------------------------------
(* What a row becomes.                                                     *)

(* available_at may lie in the future: due says whether it does not.       *)
NewRow(seq, engaged, due) ==
  [BlankRow EXCEPT !.max = MaxAttempts, !.due = due, !.seq = seq, !.engaged = engaged]

Retire(r) == [r EXCEPT !.superseded = TRUE, !.last = "superseded"]

Claimed(r) ==
  [r EXCEPT !.attempt = r.attempt + 1, !.token = r.attempt + 1, !.lease = "live",
            !.cert = "claimed", !.last = "claim"]

Sending(r) == [r EXCEPT !.cert = "sending", !.last = "send_start", !.lease = "live"]

Confirmed(r) == [r EXCEPT !.acked = TRUE, !.lease = "none", !.last = "ack", !.cert = "confirmed"]

(* The failure of the last attempt dead-letters the row.                   *)
Rejected(r) ==
  [r EXCEPT !.due = FALSE, !.lease = "none", !.last = "retry", !.cert = "rejected",
            !.dead = (r.attempt >= r.max)]

(* A deferral gives the attempt back by raising max_attempts.              *)
Deferred(r) ==
  [r EXCEPT !.due = FALSE, !.max = r.max + 1, !.lease = "none", !.token = 0,
            !.last = "policy_defer", !.cert = "pending"]

Cancelled(r) ==
  [r EXCEPT !.lease = "none", !.token = 0, !.last = "policy_cancel", !.cert = "rejected",
            !.superseded = TRUE]

Unknown(r) ==
  [r EXCEPT !.cert = "ambiguous", !.dead = TRUE, !.lease = "none", !.last = "ambiguous"]

OutOfAttempts(r) == [r EXCEPT !.dead = TRUE, !.lease = "none", !.last = "dead_letter"]

LargerOf(m, n) == IF m >= n THEN m ELSE n

(* superseded_by is left as it is.                                         *)
Requeued(r) ==
  [r EXCEPT !.due = TRUE, !.max = LargerOf(r.max, r.attempt + RequeueGrant),
            !.lease = "none", !.token = 0, !.last = "operator_requeue",
            !.cert = "pending", !.dead = FALSE]

-----------------------------------------------------------------------------
(* Selectors over rows.                                                    *)

SameThread(d, e) == ThreadOf[d] = ThreadOf[e] /\ ThreadOf[d] # NoThread

Earlier(e, d) == SameThread(e, d) /\ row[e].seq < row[d].seq

(* Faulty variant of Blocking: an unknown outcome lets the next reply       *)
(* through.                                                                *)
BlockingUntilDead(r) == ~r.acked /\ ~r.superseded /\ ~r.dead

(* A row that still holds back the later rows of its thread: undecided, or *)
(* dead-lettered without knowing whether the message was sent.             *)
Blocking(r) == ~r.acked /\ ~r.superseded /\ (~r.dead \/ r.cert = "ambiguous")

Settled(r) == r.acked \/ r.superseded \/ r.dead

(* Faulty variant of Supersedable: a row being sent may be retired too.    *)
SupersedableWhileSending(r) == ~r.acked /\ ~r.dead /\ ~r.superseded

(* Rows the two supersede statements may retire: unsent and unleased.      *)
Supersedable(r) ==
  /\ ~r.acked /\ ~r.dead /\ ~r.superseded
  /\ r.lease = "none" /\ r.cert \in {"pending", "rejected"}

-----------------------------------------------------------------------------
(* Sequences: bridge_delivery_sequences.py and the head of enqueue.        *)

(* Both tables agree on the largest sequence because enqueue raises        *)
(* current to it; the code nevertheless takes the maximum of the two.      *)
LatestSequence(t) ==
  CHOOSE n \in {current[t]} \cup {row[e].seq : e \in {f \in rows : ThreadOf[f] = t}} :
    /\ n >= current[t]
    /\ \A e \in rows : ThreadOf[e] = t => row[e].seq <= n

ReserveSequence(t, k) ==
  /\ reserved[t][k] = 0
  /\ LatestSequence(t) < SeqCap
  /\ current' = [current EXCEPT ![t] = LatestSequence(t) + 1]
  /\ reserved' = [reserved EXCEPT ![t][k] = LatestSequence(t) + 1]
  /\ UNCHANGED <<rows, row, ledger, job, landed, requeued, overtaken>>

-----------------------------------------------------------------------------
(* Enqueue.                                                                *)

(* Faulty variant of Duplicate: only the dedupe key is looked up.          *)
DuplicateKeyOnly(d) == d \in rows

(* INSERT OR IGNORE keeps the first row of a dedupe key, and of a logical  *)
(* response.                                                               *)
Duplicate(d) ==
  \E e \in rows : e = d \/ (LogicalOf[e] = LogicalOf[d] /\ LogicalOf[d] # NoLogical)

(* Faulty variant of SequencesFor: the latest sequence is used again.      *)
SequencesReused(d) == {IF ThreadOf[d] = NoThread THEN 0 ELSE LatestSequence(ThreadOf[d])}

(* The response sequence a new row gets: the caller's reservation, or one  *)
(* past the latest of the thread.                                          *)
SequencesFor(d) ==
  LET t == ThreadOf[d] IN
  IF t = NoThread THEN {0}
  ELSE {LatestSequence(t) + 1} \cup {reserved[t][k] : k \in {j \in Key : reserved[t][j] > 0}}

(* The older social rows of the thread a new social row replaces.          *)
Replaced(d) ==
  {e \in rows : /\ SameThread(d, e) /\ ClassOf[e] = "social"
                /\ ~row[e].engaged /\ Supersedable(row[e])}

Enqueue(d, seq, engaged, supersede, due) ==
  /\ ~Duplicate(d)
  /\ seq \in SequencesFor(d) /\ seq <= SeqCap
  /\ engaged => d \in Engageable
  /\ rows' = rows \cup {d}
  /\ LET old == IF supersede /\ ClassOf[d] # "operational" THEN Replaced(d) ELSE {}
     IN row' = [e \in Delivery |->
                  IF e = d THEN NewRow(seq, engaged, due)
                  ELSE IF e \in old THEN Retire(row[e]) ELSE row[e]]
  /\ current' = [t \in Thread |->
                   IF t = ThreadOf[d] /\ seq > current[t] THEN seq ELSE current[t]]
  /\ overtaken' = IF \E e \in rows : /\ SameThread(d, e)
                                     /\ seq < row[e].seq /\ row[e].attempt > 0
                  THEN overtaken \cup {d} ELSE overtaken
  /\ UNCHANGED <<ledger, reserved, job, landed, requeued>>

(* supersede_pending_dedupe_prefix: S is the namespace the prefix selects.  *)
SupersedePrefix(S) ==
  /\ \E d \in S \cap rows : Supersedable(row[d])
  /\ row' = [d \in Delivery |->
               IF d \in S \cap rows /\ Supersedable(row[d]) THEN Retire(row[d]) ELSE row[d]]
  /\ UNCHANGED <<rows, ledger, current, reserved, job, landed, requeued, overtaken>>

(* bind_engagement_decision: idempotent, a second decision is refused.     *)
BindEngagement(d) ==
  /\ d \in rows \cap Engageable /\ ~row[d].engaged
  /\ row' = [row EXCEPT ![d] = [row[d] EXCEPT !.engaged = TRUE]]
  /\ UNCHANGED <<rows, ledger, current, reserved, job, landed, requeued, overtaken>>

-----------------------------------------------------------------------------
(* Claim.  The transaction first retires the sends whose worker was lost,  *)
(* then the rows without attempts left, and only then hands out work.      *)

LostSend(r) == ~r.acked /\ ~r.dead /\ r.cert = "sending" /\ r.lease = "expired"

(* Faulty variant of Exhausted: a worker that died holding the last        *)
(* attempt is forgotten.                                                   *)
ExhaustedUnleased(r) ==
  /\ ~r.acked /\ ~r.dead /\ ~LostSend(r)
  /\ r.attempt >= r.max /\ r.due /\ r.lease = "none"

Exhausted(r) ==
  /\ ~r.acked /\ ~r.dead /\ ~LostSend(r)
  /\ r.attempt >= r.max /\ r.due /\ r.lease # "live"

(* Faulty variant of Swept: a lost send goes back to the queue.            *)
SweptAsNotSent(r) ==
  IF LostSend(r) THEN Rejected(r)
  ELSE IF Exhausted(r) THEN OutOfAttempts(r)
  ELSE r

Swept(r) ==
  IF LostSend(r) THEN Unknown(r)
  ELSE IF Exhausted(r) THEN OutOfAttempts(r)
  ELSE r

SweptRow == [d \in Delivery |-> IF d \in rows THEN Swept(row[d]) ELSE row[d]]

(* Faulty variant of SweptLedger: the lost attempt stays open.             *)
SweptLedgerOpen == ledger

SweptLedger ==
  [d \in Delivery |->
     [a \in AttemptNo |->
        IF d \in rows /\ LostSend(row[d]) /\ a = row[d].attempt
        THEN "ambiguous" ELSE ledger[d][a]]]

(* Faulty variant of Claimable: a withdrawn row is handed out.             *)
ClaimableWithdrawn(d) ==
  LET r == SweptRow[d] IN
  /\ d \in rows
  /\ ~r.acked /\ ~r.dead
  /\ r.cert \notin {"ambiguous", "confirmed", "sending"}
  /\ r.attempt < r.max /\ r.due /\ r.lease # "live"
  /\ ~\E e \in rows : Earlier(e, d) /\ Blocking(SweptRow[e])

Claimable(d) ==
  LET r == SweptRow[d] IN
  /\ d \in rows
  /\ ~r.acked /\ ~r.dead /\ ~r.superseded
  /\ r.cert \notin {"ambiguous", "confirmed", "sending"}
  /\ r.attempt < r.max /\ r.due /\ r.lease # "live"
  /\ ~\E e \in rows : Earlier(e, d) /\ Blocking(SweptRow[e])

(* A claim takes at least one row when there is one to take; its LIMIT and *)
(* the order of available_at only choose among the claimable rows.         *)
Claim(S) ==
  /\ S \subseteq {d \in rows : Claimable(d)}
  /\ S = {} => ~\E d \in rows : Claimable(d)
  /\ row' = [d \in Delivery |-> IF d \in S THEN Claimed(SweptRow[d]) ELSE SweptRow[d]]
  /\ ledger' = [d \in Delivery |->
                  [a \in AttemptNo |->
                     IF d \in S /\ a = row[d].attempt + 1
                     THEN "claimed" ELSE SweptLedger[d][a]]]
  /\ job' = [d \in Delivery |->
               [a \in AttemptNo |->
                  IF d \in S /\ a = row[d].attempt + 1 THEN "held" ELSE job[d][a]]]
  /\ UNCHANGED <<rows, current, reserved, landed, requeued, overtaken>>

-----------------------------------------------------------------------------
(* Settlement calls.  Each is made by the claimant of attempt a and fenced *)
(* by the token it carries; a refused call (LeaseLostError) changes        *)
(* nothing in the Outbox.                                                  *)

(* Faulty variant of Holds: any token of the delivery is accepted.         *)
HoldsAny(d, a) == row[d].token > 0

Holds(d, a) == row[d].token = a

(* What the transaction does to the row and to its current attempt.        *)
SetRow(d, r) == row' = [row EXCEPT ![d] = r]
SetAttempt(d, s) == ledger' = [ledger EXCEPT ![d][row[d].attempt] = s]
SetJob(d, a, s) == job' = [job EXCEPT ![d][a] = s]
KeepRest == UNCHANGED <<rows, current, reserved, landed, requeued, overtaken>>

MayBeginSend(d, a) == Holds(d, a) /\ row[d].last \in {"claim", "send_start"}

(* begin_send.  It does not look at the lease's expiry and renews it.      *)
BeginSend(d, a) ==
  /\ job[d][a] = "held" /\ MayBeginSend(d, a)
  /\ SetRow(d, Sending(row[d]))
  /\ SetAttempt(d, "sending")
  /\ SetJob(d, a, "started")
  /\ KeepRest

SendStartRefused(d, a) ==
  /\ job[d][a] = "held" /\ ~MayBeginSend(d, a)
  /\ SetJob(d, a, "gone")
  /\ UNCHANGED <<row, ledger>> /\ KeepRest

(* Faulty variant of MayAck: the token is not compared.                    *)
MayAckUnfenced(d, a) == ~row[d].dead /\ row[d].last \in {"claim", "send_start"}

MayAck(d, a) == Holds(d, a) /\ ~row[d].dead /\ row[d].last \in {"claim", "send_start"}

(* ack, called up to three times by a worker that gets no answer.          *)
Ack(d, a, answered) ==
  /\ job[d][a] = "sent" /\ ~row[d].acked /\ MayAck(d, a)
  /\ SetRow(d, Confirmed(row[d]))
  /\ SetAttempt(d, "confirmed")
  /\ SetJob(d, a, IF answered THEN "gone" ELSE "sent")
  /\ KeepRest

(* A repeated ack, or one that came too late.                              *)
AckWithoutEffect(d, a) ==
  /\ job[d][a] = "sent" /\ (row[d].acked \/ ~MayAck(d, a))
  /\ SetJob(d, a, "gone")
  /\ UNCHANGED <<row, ledger>> /\ KeepRest

MayRetry(d, a, known_not_sent) ==
  /\ ~row[d].acked /\ Holds(d, a)
  /\ \/ row[d].last = "claim"
     \/ row[d].last = "send_start" /\ known_not_sent

(* retry.                                                                  *)
Retry(d, a, known_not_sent) ==
  /\ MayRetry(d, a, known_not_sent)
  /\ SetRow(d, Rejected(row[d]))
  /\ SetAttempt(d, "rejected")
  /\ SetJob(d, a, "gone")
  /\ KeepRest

(* claim_deliveries hands the claim back: the recipient has no QQ session. *)
NoSession(d, a) == job[d][a] = "held" /\ Retry(d, a, FALSE)

(* The worker reports a send that raised, known_not_sent = TRUE.           *)
ReportFailure(d, a) == job[d][a] = "failed" /\ Retry(d, a, TRUE)

ReportFailureRefused(d, a) ==
  /\ job[d][a] = "failed" /\ ~MayRetry(d, a, TRUE)
  /\ SetJob(d, a, "gone")
  /\ UNCHANGED <<row, ledger>> /\ KeepRest

MaySettlePolicy(d, a) == Holds(d, a) /\ row[d].last = "claim"

(* defer_claim, by the outbound policy at claim or at send-start.          *)
DeferClaim(d, a) ==
  /\ job[d][a] = "held" /\ MaySettlePolicy(d, a)
  /\ row[d].max < AttemptCap
  /\ SetRow(d, Deferred(row[d]))
  /\ SetAttempt(d, "rejected")
  /\ SetJob(d, a, "gone")
  /\ KeepRest

(* cancel_claim, by the outbound policy at claim or at send-start.         *)
CancelClaim(d, a) ==
  /\ job[d][a] = "held" /\ MaySettlePolicy(d, a)
  /\ SetRow(d, Cancelled(row[d]))
  /\ SetAttempt(d, "rejected")
  /\ SetJob(d, a, "gone")
  /\ KeepRest

MayMarkAmbiguous(d, a) ==
  /\ ~row[d].acked /\ row[d].cert # "ambiguous"
  /\ Holds(d, a) /\ row[d].last = "send_start"

(* mark_ambiguous: the platform may already have sent.                     *)
MarkAmbiguous(d, a) ==
  /\ job[d][a] = "unknown" /\ MayMarkAmbiguous(d, a)
  /\ SetRow(d, Unknown(row[d]))
  /\ SetAttempt(d, "ambiguous")
  /\ SetJob(d, a, "gone")
  /\ KeepRest

MarkAmbiguousWithoutEffect(d, a) ==
  /\ job[d][a] = "unknown" /\ ~MayMarkAmbiguous(d, a)
  /\ SetJob(d, a, "gone")
  /\ UNCHANGED <<row, ledger>> /\ KeepRest

-----------------------------------------------------------------------------
(* The worker's call of context.send_message.  The platform may accept and *)
(* answer; reject; raise although it accepted (the answer was lost on the  *)
(* way); or time out with retcode 1200, having accepted or not.            *)
Send(d, a, arrives, result) ==
  /\ job[d][a] = "started"
  /\ result = "sent" => arrives
  /\ landed' = IF arrives THEN [landed EXCEPT ![d] = @ \cup {a}] ELSE landed
  /\ SetJob(d, a, result)
  /\ UNCHANGED <<rows, row, ledger, current, reserved, requeued, overtaken>>

-----------------------------------------------------------------------------
(* Operator and time.                                                      *)

(* requeue_dead_letter.                                                    *)
Requeue(d) ==
  /\ d \in rows /\ row[d].dead /\ ~row[d].acked
  /\ row[d].attempt + RequeueGrant <= AttemptCap
  /\ SetRow(d, Requeued(row[d]))
  /\ requeued' = requeued \cup {d}
  /\ UNCHANGED <<rows, ledger, current, reserved, job, landed, overtaken>>

LeaseExpires(d) ==
  /\ row[d].lease = "live"
  /\ SetRow(d, [row[d] EXCEPT !.lease = "expired"])
  /\ UNCHANGED <<rows, ledger, current, reserved, job, landed, requeued, overtaken>>

BecomesDue(d) ==
  /\ d \in rows /\ ~row[d].due
  /\ SetRow(d, [row[d] EXCEPT !.due = TRUE])
  /\ UNCHANGED <<rows, ledger, current, reserved, job, landed, requeued, overtaken>>

-----------------------------------------------------------------------------
Produce(d) ==
  \/ \E seq \in 0..SeqCap, engaged, supersede, due \in BOOLEAN :
       Enqueue(d, seq, engaged, supersede, due)
  \/ BindEngagement(d)

Claimant(d, a) ==
  \/ BeginSend(d, a) \/ SendStartRefused(d, a)
  \/ \E answered \in BOOLEAN : Ack(d, a, answered)
  \/ AckWithoutEffect(d, a)
  \/ NoSession(d, a) \/ ReportFailure(d, a) \/ ReportFailureRefused(d, a)
  \/ DeferClaim(d, a) \/ CancelClaim(d, a)
  \/ MarkAmbiguous(d, a) \/ MarkAmbiguousWithoutEffect(d, a)
  \/ \E arrives \in BOOLEAN, result \in {"sent", "failed", "unknown"} :
       Send(d, a, arrives, result)

Time(d) == LeaseExpires(d) \/ BecomesDue(d)

Next ==
  \/ \E t \in Thread, k \in Key : ReserveSequence(t, k)
  \/ \E d \in Delivery : Produce(d) \/ Requeue(d) \/ Time(d)
  \/ \E d \in Delivery, a \in AttemptNo : Claimant(d, a)
  \/ \E S \in Namespace : SupersedePrefix(S)
  \/ \E S \in SUBSET rows : Claim(S)

Spec == Init /\ [][Next]_vars

(***************************************************************************)
(* The plug-in's delivery loop claims for ever, and time passes.  Nothing  *)
(* is assumed of a claimant, which may stop at any point, nor of the       *)
(* operator.                                                               *)
(***************************************************************************)
(* The claims that do something for a row: each hands out the rows whose   *)
(* available_at is oldest, so no claimable row starves, and each sweeps.   *)
ClaimOf(d) ==
  \/ Claimable(d) /\ \E S \in SUBSET rows : d \in S /\ Claim(S)
  \/ SweptRow[d] # row[d] /\ \E S \in SUBSET rows : Claim(S)

Fairness ==
  \A d \in Delivery :
    WF_vars(ClaimOf(d)) /\ WF_vars(LeaseExpires(d)) /\ WF_vars(BecomesDue(d))

FairSpec == Spec /\ Fairness

-----------------------------------------------------------------------------
(* Safety.                                                                 *)

(***************************************************************************)
(* The attempt ledger an operator reads agrees with the row: exactly the   *)
(* current attempt is open for sending when the row is sending, exactly    *)
(* the current one is confirmed when the row is acknowledged, and nothing  *)
(* is recorded of attempts that were never claimed.                        *)
(***************************************************************************)
LedgerAgrees ==
  \A d \in Delivery, a \in AttemptNo :
    /\ ledger[d][a] = "none" <=> a > row[d].attempt
    /\ ledger[d][a] = "sending" <=> a = row[d].attempt /\ row[d].cert = "sending"
    /\ ledger[d][a] = "confirmed" <=> a = row[d].attempt /\ row[d].acked

(***************************************************************************)
(* The Outbox never repeats a message on its own: when two attempts of a   *)
(* delivery reached QQ and no operator requeued it, the worker reported    *)
(* the earlier one as not sent.  A lost answer, a stopped worker, an       *)
(* expired lease or a late acknowledgement never causes a second copy.     *)
(***************************************************************************)
NoBlindResend ==
  \A d \in Delivery \ requeued : \A a, b \in landed[d] :
    a < b => ledger[d][a] = "rejected"

(***************************************************************************)
(* docs/VOICE_OUTPUT.md, safety boundary: a send whose outcome is not      *)
(* known is not repeated without evidence, so without an operator's        *)
(* requeue a delivery reaches the chat at most once.  The worker's         *)
(* classification of failures breaks this: see the README.                 *)
(***************************************************************************)
OneCopyWithoutOperator ==
  \A d \in Delivery \ requeued : Cardinality(landed[d]) <= 1

(***************************************************************************)
(* One logical response reaches the chat under one delivery only, however  *)
(* many dedupe keys it is enqueued under.                                  *)
(***************************************************************************)
OneReplyPerResponse ==
  \A d, e \in Delivery :
    d # e /\ LogicalOf[d] = LogicalOf[e] /\ LogicalOf[d] # NoLogical
      => landed[d] = {} \/ landed[e] = {}

(***************************************************************************)
(* What QQ received is on record: an attempt that reached the chat had     *)
(* been opened by send-start, and an acknowledged row was really sent by   *)
(* the attempt the row names.                                              *)
(***************************************************************************)
RecordedTruth ==
  \A d \in Delivery :
    /\ \A a \in landed[d] : ledger[d][a] \notin {"none", "claimed"}
    /\ row[d].acked => row[d].attempt \in landed[d]

(***************************************************************************)
(* Sequences order the replies of a thread: reservations are distinct, and *)
(* two rows share a sequence only by sharing one reservation.              *)
(***************************************************************************)
SequencesDistinct ==
  /\ \A t \in Thread, j, k \in Key :
       j # k /\ reserved[t][j] > 0 => reserved[t][j] # reserved[t][k]
  /\ \A d, e \in rows :
       d # e /\ SameThread(d, e) /\ row[d].seq = row[e].seq
         => \E k \in Key : reserved[ThreadOf[d]][k] = row[d].seq

-----------------------------------------------------------------------------
(* The inductive invariant behind the safety properties.                   *)

(* The columns of one row agree with one another.                          *)
ColumnsAgree(r) ==
  /\ r.attempt <= r.max /\ r.token \in {0, r.attempt}
  /\ r.last = "send_start" <=> r.cert = "sending"
  /\ r.last = "ack" <=> r.acked
  /\ r.last = "ambiguous" <=> r.cert = "ambiguous"
  /\ r.cert = "confirmed" <=> r.acked
  /\ r.last \in {"claim", "send_start"} =>
       /\ r.attempt > 0 /\ r.lease # "none"
       /\ ~r.acked /\ ~r.dead /\ ~r.superseded
  /\ r.last = "claim" => r.cert = "claimed"
  /\ r.acked => ~r.dead /\ ~r.superseded /\ r.attempt > 0
  /\ r.cert = "ambiguous" => r.dead /\ ~r.superseded /\ r.attempt > 0
  /\ r.dead => r.last \in {"retry", "dead_letter", "ambiguous"}

(* Only an existing row has columns, and an acknowledged one was sent.     *)
RowAgrees(d) ==
  /\ d \notin rows => row[d] = BlankRow
  /\ ColumnsAgree(row[d])
  /\ row[d].acked => row[d].attempt \in landed[d]

(* The ledger entry of an attempt agrees with the row and with the chat;   *)
(* an unknown outcome stays the current one until the operator decides.    *)
EntryAgrees(d, a) ==
  /\ ledger[d][a] = "none" <=> a > row[d].attempt
  /\ ledger[d][a] = "sending" <=> a = row[d].attempt /\ row[d].cert = "sending"
  /\ ledger[d][a] = "confirmed" <=> a = row[d].attempt /\ row[d].acked
  /\ a \in landed[d] => ledger[d][a] \notin {"none", "claimed"}
  /\ ledger[d][a] = "ambiguous" /\ d \notin requeued =>
       a = row[d].attempt /\ row[d].cert = "ambiguous"

(* What a claimant may be doing, given how its attempt is recorded.        *)
ClaimantAgrees(d, a) ==
  /\ job[d][a] = "none" <=> ledger[d][a] = "none"
  /\ job[d][a] = "held" => ledger[d][a] = "claimed"
  /\ job[d][a] \in {"started", "failed", "unknown"} => ledger[d][a] \in {"sending", "ambiguous"}
  /\ job[d][a] = "sent" => /\ ledger[d][a] \in {"sending", "ambiguous", "confirmed"}
                           /\ a \in landed[d]

RowsConsistent ==
  \A d \in Delivery :
    RowAgrees(d) /\ \A a \in AttemptNo : EntryAgrees(d, a) /\ ClaimantAgrees(d, a)

(* No later reply of a thread has been claimed over a reply that still     *)
(* holds the thread back.                                                  *)
ThreadsConsistent ==
  \A d, e \in rows :
    Earlier(d, e) /\ Blocking(row[d]) /\ d \notin requeued \cup overtaken
      => row[e].attempt = 0

(* current_sequence is never behind a row of its thread.                   *)
SequencesAgree ==
  \A d \in rows : ThreadOf[d] # NoThread => row[d].seq <= current[ThreadOf[d]]

(***************************************************************************)
(* What a worker was told, what the ledger records and what the row says   *)
(* never contradict one another, and a reply that may still be spoken      *)
(* keeps the later replies of its thread unclaimed.                        *)
(***************************************************************************)
Consistent == TypeOK /\ RowsConsistent /\ ThreadsConsistent /\ SequencesAgree

-----------------------------------------------------------------------------
(* Action properties.                                                      *)

(***************************************************************************)
(* Replies of a thread reach the chat in sequence: nothing lands after a   *)
(* later reply of its thread, unless an operator requeued it or it was     *)
(* enqueued when the later reply had already been claimed.                 *)
(***************************************************************************)
LandsInOrder ==
  [][\A d, e \in Delivery :
       landed'[d] # landed[d] /\ Earlier(d, e) /\ d \notin requeued \cup overtaken
         => landed[e] = {}]_vars

(***************************************************************************)
(* A withdrawn reply stays unsaid: a row that was superseded, or cancelled *)
(* by policy, never reaches the chat unless an operator had requeued it.   *)
(***************************************************************************)
WithdrawnNeverLands ==
  [][\A d \in Delivery :
       landed'[d] # landed[d] /\ d \notin requeued => ~row[d].superseded]_vars

(***************************************************************************)
(* The lease fences: a claimant whose attempt is no longer the current one *)
(* changes nothing in the row, whatever it calls and however late.         *)
(***************************************************************************)
StaleClaimantHarmless ==
  [][\A d \in Delivery, a \in AttemptNo :
       a < row[d].attempt /\ job'[d][a] # job[d][a] => row'[d] = row[d]]_vars

-----------------------------------------------------------------------------
(* Refinement.                                                             *)

(* _row_to_delivery: the state shown for a row, in its order of tests.     *)
OutcomeOf(d) ==
  IF d \notin rows THEN "absent"
  ELSE IF row[d].superseded THEN "withdrawn"
  ELSE IF row[d].acked THEN "delivered"
  ELSE IF row[d].cert = "ambiguous" THEN "unknown"
  ELSE IF row[d].dead THEN "failed"
  ELSE IF row[d].cert = "sending" THEN "sending"
  ELSE "queued"

Promise == INSTANCE DeliveryPromise WITH
  outcome <- [d \in Delivery |-> OutcomeOf(d)],
  copies <- landed,
  operated <- requeued,
  Copy <- AttemptNo

(***************************************************************************)
(* The Outbox keeps its promise: sweeping, claiming, settling, superseding *)
(* and requeueing rows are moves of DeliveryPromise or leave it alone.     *)
(***************************************************************************)
KeepsPromise == Promise!PromiseSpec

-----------------------------------------------------------------------------
(* Liveness.                                                               *)

(* An earlier reply of the thread whose outcome only the operator can tell. *)
HeldBack(d) ==
  \E e \in rows : Earlier(e, d) /\ row[e].cert = "ambiguous" /\ Blocking(row[e])

(* The policy put the row, or an earlier reply of its thread, off to a time *)
(* that has not come.                                                      *)
PutOff(d) ==
  \E e \in rows : /\ e = d \/ Earlier(e, d)
                  /\ row[e].last = "policy_defer" /\ ~row[e].due

(***************************************************************************)
(* Nothing is silently stuck: from every moment on, a row is eventually    *)
(* acknowledged, withdrawn or dead-lettered, or is put off by the policy,  *)
(* or waits for the operator's verdict on an earlier reply of its thread,  *)
(* although every worker may stop at any time.  A deferral is an answer    *)
(* only until its time comes: the row must then move again, so it is       *)
(* open for ever only if the policy defers it, or an earlier reply, for    *)
(* ever.                                                                   *)
(***************************************************************************)
EventuallySettled ==
  \A d \in Delivery :
    []<>(d \in rows => Settled(row[d]) \/ HeldBack(d) \/ PutOff(d))
=============================================================================
