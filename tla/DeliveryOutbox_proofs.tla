----------------------- MODULE DeliveryOutbox_proofs ------------------------
(***************************************************************************)
(* Proofs about DeliveryOutbox for every set of deliveries, threads and    *)
(* reservation keys and every bound.                                       *)
(***************************************************************************)
EXTENDS DeliveryOutbox, TLAPS

-----------------------------------------------------------------------------
(* Type correctness.                                                       *)

(* The latest sequence of a thread is current_sequence: the maximum over   *)
(* the rows that the code also takes adds nothing.                         *)
LEMMA LatestIsCurrent ==
  ASSUME TypeOK, SequencesAgree, NEW t \in Thread
  PROVE  LatestSequence(t) = current[t]
<1> DEFINE Candidates == {current[t]} \cup {row[e].seq : e \in {f \in rows : ThreadOf[f] = t}}
           Latest(n) == /\ n >= current[t]
                        /\ \A e \in rows : ThreadOf[e] = t => row[e].seq <= n
<1>1. \A e \in rows : ThreadOf[e] = t => row[e].seq <= current[t]
  BY DeliveryAssumption DEF SequencesAgree
<1>2. /\ current[t] \in Nat
      /\ \A e \in rows : row[e].seq \in Nat
  BY BoundAssumption DEF TypeOK, Row
<1>3. Latest(current[t])
  BY <1>1, <1>2
<1>4. \A n \in Candidates : Latest(n) => n = current[t]
  BY <1>1, <1>2
<1>5. LatestSequence(t) = (CHOOSE n \in Candidates : Latest(n))
  BY DEF LatestSequence
<1> HIDE DEF Latest
<1>6. QED
  BY <1>3, <1>4, <1>5

LEMMA BlankTyped == BlankRow \in Row
BY BoundAssumption DEF BlankRow, Row, Certainty, LastAction

LEMMA InitTyped == Init => TypeOK
BY BlankTyped, BoundAssumption DEF Init, TypeOK, AttemptState, JobState

LEMMA ReserveTyped ==
  ASSUME TypeOK, SequencesAgree, NEW t \in Thread, NEW k \in Key, ReserveSequence(t, k)
  PROVE  TypeOK'
<1>1. LatestSequence(t) = current[t]
  BY LatestIsCurrent
<1>2. QED
  BY <1>1, BoundAssumption DEF ReserveSequence, TypeOK

(* Every change the code makes to a row leaves it a row.                   *)
LEMMA FlagChangesTyped ==
  ASSUME NEW r \in Row
  PROVE  /\ Retire(r) \in Row /\ Sending(r) \in Row /\ Confirmed(r) \in Row
         /\ Unknown(r) \in Row /\ OutOfAttempts(r) \in Row
         /\ [r EXCEPT !.lease = "expired"] \in Row
         /\ [r EXCEPT !.due = TRUE] \in Row
         /\ [r EXCEPT !.engaged = TRUE] \in Row
<1> USE DEF Row, Certainty, LastAction
<1>1. Retire(r) \in Row
  BY DEF Retire
<1>2. Sending(r) \in Row
  BY DEF Sending
<1>3. Confirmed(r) \in Row
  BY DEF Confirmed
<1>4. Unknown(r) \in Row
  BY DEF Unknown
<1>5. OutOfAttempts(r) \in Row
  BY DEF OutOfAttempts
<1>6. [r EXCEPT !.lease = "expired"] \in Row
  OBVIOUS
<1>7. [r EXCEPT !.due = TRUE] \in Row
  OBVIOUS
<1>8. [r EXCEPT !.engaged = TRUE] \in Row
  OBVIOUS
<1>9. QED
  BY <1>1, <1>2, <1>3, <1>4, <1>5, <1>6, <1>7, <1>8

(* The shapes behind Rejected, Deferred, Cancelled, Requeued and Claimed:  *)
(* the numbers they write are abstracted to any number in range.           *)
LEMMA NumberChangesTyped ==
  ASSUME NEW r \in Row, NEW n \in 0..AttemptCap, NEW m \in 0..AttemptCap,
         NEW b \in BOOLEAN, NEW l \in LastAction, NEW c \in Certainty
  PROVE  /\ [r EXCEPT !.due = FALSE, !.lease = "none", !.last = l, !.cert = c, !.dead = b] \in Row
         /\ [r EXCEPT !.due = FALSE, !.max = n, !.lease = "none", !.token = m,
                      !.last = l, !.cert = c] \in Row
         /\ [r EXCEPT !.lease = "none", !.token = m, !.last = l, !.cert = c,
                      !.superseded = TRUE] \in Row
         /\ [r EXCEPT !.due = TRUE, !.max = n, !.lease = "none", !.token = m,
                      !.last = l, !.cert = c, !.dead = FALSE] \in Row
         /\ [r EXCEPT !.attempt = n, !.token = n, !.lease = "live",
                      !.cert = c, !.last = l] \in Row
<1> USE DEF Row
<1>1. [r EXCEPT !.due = FALSE, !.lease = "none", !.last = l, !.cert = c, !.dead = b] \in Row
  OBVIOUS
<1>2. [r EXCEPT !.due = FALSE, !.max = n, !.lease = "none", !.token = m,
               !.last = l, !.cert = c] \in Row
  OBVIOUS
<1>3. [r EXCEPT !.lease = "none", !.token = m, !.last = l, !.cert = c,
               !.superseded = TRUE] \in Row
  OBVIOUS
<1>4. [r EXCEPT !.due = TRUE, !.max = n, !.lease = "none", !.token = m,
               !.last = l, !.cert = c, !.dead = FALSE] \in Row
  OBVIOUS
<1>5. [r EXCEPT !.attempt = n, !.token = n, !.lease = "live", !.cert = c, !.last = l] \in Row
  OBVIOUS
<1>6. QED
  BY <1>1, <1>2, <1>3, <1>4, <1>5

LEMMA CountedChangesTyped ==
  ASSUME NEW r \in Row
  PROVE  /\ Rejected(r) \in Row /\ Cancelled(r) \in Row
         /\ r.max < AttemptCap => Deferred(r) \in Row
         /\ r.attempt + RequeueGrant <= AttemptCap => Requeued(r) \in Row
         /\ r.attempt < r.max => Claimed(r) \in Row
<1>0. /\ r.attempt \in 0..AttemptCap /\ r.max \in 0..AttemptCap /\ 0 \in 0..AttemptCap
      /\ (r.attempt >= r.max) \in BOOLEAN
  BY BoundAssumption DEF Row
<1>1. Rejected(r) \in Row
  BY <1>0, NumberChangesTyped DEF Rejected, LastAction, Certainty
<1>2. Cancelled(r) \in Row
  BY <1>0, NumberChangesTyped DEF Cancelled, LastAction, Certainty
<1>3. ASSUME r.max < AttemptCap PROVE Deferred(r) \in Row
  <2>1. r.max + 1 \in 0..AttemptCap
    BY <1>0, <1>3, BoundAssumption
  <2>2. QED
    BY <1>0, <2>1, NumberChangesTyped DEF Deferred, LastAction, Certainty
<1>4. ASSUME r.attempt + RequeueGrant <= AttemptCap PROVE Requeued(r) \in Row
  <2>1. LargerOf(r.max, r.attempt + RequeueGrant) \in 0..AttemptCap
    BY <1>0, <1>4, BoundAssumption DEF LargerOf
  <2>2. QED
    BY <1>0, <2>1, NumberChangesTyped DEF Requeued, LastAction, Certainty
<1>5. ASSUME r.attempt < r.max PROVE Claimed(r) \in Row
  <2>1. r.attempt + 1 \in 0..AttemptCap
    BY <1>0, <1>5, BoundAssumption
  <2>2. QED
    BY <2>1, NumberChangesTyped DEF Claimed, LastAction, Certainty
<1>6. QED
  BY <1>1, <1>2, <1>3, <1>4, <1>5

LEMMA EnqueueTyped ==
  ASSUME TypeOK, NEW d \in Delivery, NEW seq \in 0..SeqCap,
         NEW engaged \in BOOLEAN, NEW supersede \in BOOLEAN, NEW due \in BOOLEAN,
         Enqueue(d, seq, engaged, supersede, due)
  PROVE  TypeOK'
<1>1. NewRow(seq, engaged, due) \in Row
  <2>1. MaxAttempts \in 0..AttemptCap
    BY BoundAssumption
  <2>2. QED
    BY <2>1, BlankTyped DEF NewRow, Row
<1>2. \A e \in Delivery : Retire(row[e]) \in Row
  BY FlagChangesTyped DEF TypeOK
<1>3. row' \in [Delivery -> Row]
  BY <1>1, <1>2 DEF Enqueue, TypeOK
<1>4. current' \in [Thread -> 0..SeqCap]
  BY DEF Enqueue, TypeOK
<1>5. overtaken' \subseteq Delivery
  BY Zenon DEF Enqueue, TypeOK
<1>6. rows' \subseteq Delivery
  BY DEF Enqueue, TypeOK
<1>7. QED
  BY <1>3, <1>4, <1>5, <1>6 DEF Enqueue, TypeOK

LEMMA SupersedePrefixTyped ==
  ASSUME TypeOK, NEW S \in Namespace, SupersedePrefix(S)
  PROVE  TypeOK'
<1>1. \A d \in Delivery : Retire(row[d]) \in Row
  BY FlagChangesTyped DEF TypeOK
<1>2. row' \in [Delivery -> Row]
  BY <1>1 DEF SupersedePrefix, TypeOK
<1>3. QED
  BY <1>2 DEF SupersedePrefix, TypeOK

LEMMA SweptTyped ==
  ASSUME NEW r \in Row
  PROVE  Swept(r) \in Row /\ Swept(r).attempt = r.attempt /\ Swept(r).max = r.max
<1>1. Swept(r) \in {r, Unknown(r), OutOfAttempts(r)}
  BY DEF Swept
<1>2. Unknown(r) \in Row /\ OutOfAttempts(r) \in Row
  BY FlagChangesTyped
<1>3. Unknown(r).attempt = r.attempt /\ Unknown(r).max = r.max
  BY DEF Unknown, Row
<1>4. OutOfAttempts(r).attempt = r.attempt /\ OutOfAttempts(r).max = r.max
  BY DEF OutOfAttempts, Row
<1>5. QED
  BY <1>1, <1>2, <1>3, <1>4

LEMMA ClaimTyped ==
  ASSUME TypeOK, NEW S \in SUBSET rows, Claim(S)
  PROVE  TypeOK'
<1>1. SweptRow \in [Delivery -> Row]
  BY SweptTyped DEF SweptRow, TypeOK
<1>2. \A d \in S : Claimed(SweptRow[d]) \in Row
  BY <1>1, CountedChangesTyped DEF Claim, Claimable, TypeOK
<1>3. row' \in [Delivery -> Row]
  BY <1>1, <1>2 DEF Claim, TypeOK
<1>4. ledger' \in [Delivery -> [AttemptNo -> AttemptState]]
  BY DEF Claim, SweptLedger, TypeOK, AttemptState
<1>5. job' \in [Delivery -> [AttemptNo -> JobState]]
  BY DEF Claim, TypeOK, JobState
<1>6. QED
  BY <1>3, <1>4, <1>5 DEF Claim, TypeOK

(* What every settlement call leaves typed, given a typed new row.         *)
LEMMA SettleTyped ==
  ASSUME TypeOK, NEW d \in Delivery, NEW a \in AttemptNo,
         NEW r \in Row, NEW s \in AttemptState, NEW j \in JobState,
         SetRow(d, r), SetAttempt(d, s), SetJob(d, a, j), KeepRest
  PROVE  TypeOK'
BY DEF TypeOK, SetRow, SetAttempt, SetJob, KeepRest

LEMMA RefusedTyped ==
  ASSUME TypeOK, NEW d \in Delivery, NEW a \in AttemptNo,
         NEW j \in JobState, SetJob(d, a, j), UNCHANGED <<row, ledger>>, KeepRest
  PROVE  TypeOK'
BY DEF TypeOK, SetJob, KeepRest

LEMMA ClaimantTyped ==
  ASSUME TypeOK, NEW d \in Delivery, NEW a \in AttemptNo, Claimant(d, a)
  PROVE  TypeOK'
<1> USE DEF AttemptState, JobState
<1>0. row[d] \in Row
  BY DEF TypeOK
<1>1. CASE BeginSend(d, a)
  BY <1>0, <1>1, FlagChangesTyped, SettleTyped DEF BeginSend
<1>2. ASSUME NEW answered \in BOOLEAN, Ack(d, a, answered)
      PROVE  TypeOK'
  BY <1>0, <1>2, FlagChangesTyped, SettleTyped DEF Ack
<1>3. ASSUME NEW known \in BOOLEAN, Retry(d, a, known)
      PROVE  TypeOK'
  BY <1>0, <1>3, CountedChangesTyped, SettleTyped DEF Retry
<1>4. CASE DeferClaim(d, a)
  BY <1>0, <1>4, CountedChangesTyped, SettleTyped DEF DeferClaim
<1>5. CASE CancelClaim(d, a)
  BY <1>0, <1>5, CountedChangesTyped, SettleTyped DEF CancelClaim
<1>6. CASE MarkAmbiguous(d, a)
  BY <1>0, <1>6, FlagChangesTyped, SettleTyped DEF MarkAmbiguous
<1>7. CASE \/ SendStartRefused(d, a) \/ AckWithoutEffect(d, a)
           \/ ReportFailureRefused(d, a) \/ MarkAmbiguousWithoutEffect(d, a)
  BY <1>7, RefusedTyped DEF SendStartRefused, AckWithoutEffect, ReportFailureRefused,
                           MarkAmbiguousWithoutEffect
<1>8. ASSUME NEW arrives \in BOOLEAN, NEW result \in {"sent", "failed", "unknown"},
             Send(d, a, arrives, result)
      PROVE  TypeOK'
  <2>1. landed' \in [Delivery -> SUBSET AttemptNo]
    BY <1>8 DEF Send, TypeOK
  <2>2. job' \in [Delivery -> [AttemptNo -> JobState]]
    BY <1>8 DEF Send, SetJob, TypeOK
  <2>3. QED
    BY <1>8, <2>1, <2>2 DEF Send, TypeOK
<1>9. QED
  BY <1>1, <1>2, <1>3, <1>4, <1>5, <1>6, <1>7, <1>8 DEF Claimant, NoSession, ReportFailure

LEMMA OperatorTimeTyped ==
  ASSUME TypeOK, NEW d \in Delivery, BindEngagement(d) \/ Requeue(d) \/ Time(d)
  PROVE  TypeOK'
<1>0. row[d] \in Row
  BY DEF TypeOK
<1>1. CASE Requeue(d)
  BY <1>0, <1>1, CountedChangesTyped DEF Requeue, SetRow, TypeOK
<1>2. CASE BindEngagement(d) \/ Time(d)
  BY <1>0, <1>2, FlagChangesTyped DEF BindEngagement, Time, LeaseExpires, BecomesDue,
                                      SetRow, TypeOK
<1>3. QED
  BY <1>1, <1>2

-----------------------------------------------------------------------------
(* Rows: each change the code makes keeps the columns in agreement.        *)

Leased(r) == r.last \in {"claim", "send_start"}

LEMMA SettledColumns ==
  ASSUME NEW r \in Row, ColumnsAgree(r), Leased(r)
  PROVE  /\ ColumnsAgree(Sending(r)) /\ ColumnsAgree(Confirmed(r)) /\ ColumnsAgree(Rejected(r))
         /\ r.last = "claim" => ColumnsAgree(Deferred(r)) /\ ColumnsAgree(Cancelled(r))
         /\ r.last = "send_start" => ColumnsAgree(Unknown(r))
<1> USE DEF ColumnsAgree, Leased, Row
<1>1. ColumnsAgree(Sending(r))
  BY DEF Sending
<1>2. ColumnsAgree(Confirmed(r))
  BY DEF Confirmed
<1>3. ColumnsAgree(Rejected(r))
  BY DEF Rejected
<1>4. ASSUME r.last = "claim" PROVE ColumnsAgree(Deferred(r))
  BY <1>4 DEF Deferred
<1>5. ASSUME r.last = "claim" PROVE ColumnsAgree(Cancelled(r))
  BY <1>5 DEF Cancelled
<1>6. ASSUME r.last = "send_start" PROVE ColumnsAgree(Unknown(r))
  BY <1>6 DEF Unknown
<1>7. QED
  BY <1>1, <1>2, <1>3, <1>4, <1>5, <1>6

LEMMA OtherColumns ==
  ASSUME NEW r \in Row, ColumnsAgree(r)
  PROVE  /\ Supersedable(r) => ColumnsAgree(Retire(r))
         /\ r.dead /\ ~r.acked => ColumnsAgree(Requeued(r))
         /\ r.lease = "live" => ColumnsAgree([r EXCEPT !.lease = "expired"])
         /\ ColumnsAgree([r EXCEPT !.due = TRUE])
         /\ ColumnsAgree([r EXCEPT !.engaged = TRUE])
<1> USE DEF ColumnsAgree, Row
<1>1. ASSUME Supersedable(r) PROVE ColumnsAgree(Retire(r))
  BY <1>1 DEF Retire, Supersedable
<1>2. ASSUME r.dead, ~r.acked PROVE ColumnsAgree(Requeued(r))
  BY <1>2, BoundAssumption DEF Requeued, LargerOf
<1>3. ASSUME r.lease = "live" PROVE ColumnsAgree([r EXCEPT !.lease = "expired"])
  BY <1>3
<1>4. ColumnsAgree([r EXCEPT !.due = TRUE])
  OBVIOUS
<1>5. ColumnsAgree([r EXCEPT !.engaged = TRUE])
  OBVIOUS
<1>6. QED
  BY <1>1, <1>2, <1>3, <1>4, <1>5

LEMMA SweptColumns ==
  ASSUME NEW r \in Row, ColumnsAgree(r)
  PROVE  /\ ColumnsAgree(Swept(r))
         /\ Swept(r).acked = r.acked /\ Swept(r).seq = r.seq
         /\ Swept(r).cert = IF LostSend(r) THEN "ambiguous" ELSE r.cert
         /\ Blocking(Swept(r)) => Blocking(r)
<1>1. CASE LostSend(r)
  BY <1>1 DEF ColumnsAgree, Row, LostSend, Swept, Unknown, Blocking
<1>2. CASE ~LostSend(r) /\ Exhausted(r)
  BY <1>2 DEF ColumnsAgree, Row, LostSend, Exhausted, Swept, OutOfAttempts, Blocking
<1>3. CASE ~LostSend(r) /\ ~Exhausted(r)
  BY <1>3 DEF Swept
<1>4. QED
  BY <1>1, <1>2, <1>3

LEMMA ClaimedColumns ==
  ASSUME NEW r \in Row, ColumnsAgree(r), r.attempt < r.max,
         ~r.acked, ~r.dead, ~r.superseded
  PROVE  /\ ColumnsAgree(Claimed(r))
         /\ Claimed(r).attempt = r.attempt + 1 /\ Claimed(r).cert = "claimed"
         /\ ~Claimed(r).acked /\ Claimed(r).seq = r.seq
<1> DEFINE n == r.attempt + 1
<1>1. n \in 1..r.max
  BY DEF Row
<1>2. Claimed(r) = [r EXCEPT !.attempt = n, !.token = n, !.lease = "live",
                             !.cert = "claimed", !.last = "claim"]
  BY DEF Claimed
<1> HIDE DEF n
<1>3. ColumnsAgree(Claimed(r))
  BY <1>1, <1>2 DEF ColumnsAgree, Row
<1>4. /\ Claimed(r).attempt = n /\ Claimed(r).cert = "claimed"
      /\ ~Claimed(r).acked /\ Claimed(r).seq = r.seq
  BY <1>2 DEF Row
<1>5. QED
  BY <1>3, <1>4 DEF n

LEMMA NewRowColumns ==
  ASSUME NEW seq \in 0..SeqCap, NEW engaged \in BOOLEAN, NEW due \in BOOLEAN
  PROVE  /\ ColumnsAgree(NewRow(seq, engaged, due))
         /\ NewRow(seq, engaged, due).attempt = 0 /\ NewRow(seq, engaged, due).seq = seq
         /\ NewRow(seq, engaged, due).cert = "pending" /\ ~NewRow(seq, engaged, due).acked
BY BoundAssumption DEF ColumnsAgree, NewRow, BlankRow

-----------------------------------------------------------------------------
(* Consistency of the rows, the ledger and the claimants.                  *)

LEMMA BlankColumns ==
  /\ ColumnsAgree(BlankRow)
  /\ BlankRow.attempt = 0 /\ BlankRow.token = 0 /\ BlankRow.cert = "pending"
  /\ ~BlankRow.acked /\ BlankRow.lease = "none"
BY DEF ColumnsAgree, BlankRow

LEMMA InitConsistent == Init => Consistent
<1> SUFFICES ASSUME Init PROVE Consistent
  OBVIOUS
<1>1. TypeOK
  BY InitTyped
<1>2. RowsConsistent
  <2> SUFFICES ASSUME NEW d \in Delivery, NEW a \in AttemptNo
               PROVE  RowAgrees(d) /\ EntryAgrees(d, a) /\ ClaimantAgrees(d, a)
    <3>1. ASSUME NEW d \in Delivery PROVE RowAgrees(d)
      BY BlankColumns DEF Init, RowAgrees
    <3>2. QED
      BY <3>1 DEF RowsConsistent
  <2>1. /\ row[d] = BlankRow /\ ledger[d][a] = "none" /\ job[d][a] = "none"
        /\ landed[d] = {} /\ a > 0
    BY DEF Init, AttemptNo
  <2>2. QED
    BY <2>1, BlankColumns DEF RowAgrees, EntryAgrees, ClaimantAgrees
<1>3. ThreadsConsistent /\ SequencesAgree
  BY DEF Init, ThreadsConsistent, SequencesAgree
<1>4. QED
  BY <1>1, <1>2, <1>3 DEF Consistent

(* A delivery an action leaves alone stays consistent.                     *)
LEMMA Untouched ==
  ASSUME RowsConsistent, NEW d \in Delivery,
         d \in rows' <=> d \in rows, d \in requeued => d \in requeued',
         row'[d] = row[d], ledger'[d] = ledger[d], job'[d] = job[d], landed'[d] = landed[d]
  PROVE  RowAgrees(d)' /\ \A a \in AttemptNo : EntryAgrees(d, a)' /\ ClaimantAgrees(d, a)'
<1>1. RowAgrees(d)'
  BY DEF RowsConsistent, RowAgrees, ColumnsAgree
<1>2. \A a \in AttemptNo : EntryAgrees(d, a)'
  BY DEF RowsConsistent, EntryAgrees
<1>3. \A a \in AttemptNo : ClaimantAgrees(d, a)'
  BY DEF RowsConsistent, ClaimantAgrees
<1>4. QED
  BY <1>1, <1>2, <1>3

(* A change of the row alone, which changes nothing the ledger, the        *)
(* claimants or the chat speak of.                                         *)
LEMMA OnlyRow ==
  ASSUME TypeOK, RowsConsistent, NEW d \in rows, d \in rows', NEW r \in Row,
         row'[d] = r, ColumnsAgree(r), r.attempt = row[d].attempt, r.acked = row[d].acked,
         r.cert = "sending" <=> row[d].cert = "sending",
         d \in requeued => d \in requeued',
         row[d].cert = "ambiguous" => r.cert = "ambiguous" \/ d \in requeued',
         ledger'[d] = ledger[d], job'[d] = job[d], landed'[d] = landed[d]
  PROVE  RowAgrees(d)' /\ \A a \in AttemptNo : EntryAgrees(d, a)' /\ ClaimantAgrees(d, a)'
<1>0. d \in Delivery
  BY DEF TypeOK
<1>1. RowAgrees(d)'
  BY <1>0 DEF RowsConsistent, RowAgrees, ColumnsAgree
<1>2. \A a \in AttemptNo : EntryAgrees(d, a)'
  BY <1>0 DEF RowsConsistent, EntryAgrees
<1>3. \A a \in AttemptNo : ClaimantAgrees(d, a)'
  BY <1>0 DEF RowsConsistent, ClaimantAgrees
<1>4. QED
  BY <1>1, <1>2, <1>3

(* A settlement call by the claimant that holds the claim.                 *)
LEMMA Settlement ==
  ASSUME TypeOK, RowsConsistent, NEW d \in Delivery, NEW a \in AttemptNo, Holds(d, a),
         NEW r \in Row, NEW s \in AttemptState, NEW j \in JobState,
         SetRow(d, r), SetAttempt(d, s), SetJob(d, a, j), KeepRest,
         ColumnsAgree(r), r.attempt = row[d].attempt,
         s # "none", j # "none",
         s = "sending" <=> r.cert = "sending",
         s = "confirmed" <=> r.acked,
         s = "ambiguous" => r.cert = "ambiguous",
         s = "claimed" => a \notin landed[d],
         r.acked => a \in landed[d],
         j = "held" => s = "claimed",
         j \in {"started", "failed", "unknown"} => s \in {"sending", "ambiguous"},
         j = "sent" => s \in {"sending", "ambiguous", "confirmed"} /\ a \in landed[d]
  PROVE  RowsConsistent'
<1>1. a = row[d].attempt /\ d \in rows
  <2>1. RowAgrees(d) /\ row[d].token = a /\ a # 0
    BY DEF RowsConsistent, Holds, AttemptNo
  <2>2. QED
    BY <2>1, BlankColumns DEF RowAgrees, ColumnsAgree
<1>2. ASSUME NEW e \in Delivery, e # d
      PROVE  RowAgrees(e)' /\ \A b \in AttemptNo : EntryAgrees(e, b)' /\ ClaimantAgrees(e, b)'
  <2>1. row'[e] = row[e] /\ ledger'[e] = ledger[e] /\ job'[e] = job[e] /\ landed'[e] = landed[e]
    BY <1>2 DEF SetRow, SetAttempt, SetJob, KeepRest, TypeOK
  <2>2. QED
    BY <2>1, Untouched DEF KeepRest
<1>3. /\ row'[d] = r /\ ledger'[d] = [ledger[d] EXCEPT ![a] = s]
      /\ job'[d] = [job[d] EXCEPT ![a] = j] /\ landed' = landed /\ rows' = rows
      /\ requeued' = requeued
  BY <1>1 DEF SetRow, SetAttempt, SetJob, KeepRest, TypeOK
<1>4. RowAgrees(d)'
  BY <1>1, <1>3 DEF RowAgrees, ColumnsAgree
<1>5. ASSUME NEW b \in AttemptNo PROVE EntryAgrees(d, b)' /\ ClaimantAgrees(d, b)'
  <2>1. EntryAgrees(d, b) /\ ClaimantAgrees(d, b)
    BY DEF RowsConsistent
  <2>2. ledger[d] \in [AttemptNo -> AttemptState] /\ job[d] \in [AttemptNo -> JobState]
    BY DEF TypeOK
  <2>3. CASE b = a
    <3>1. ledger'[d][b] = s /\ job'[d][b] = j
      BY <1>3, <2>2, <2>3
    <3>2. ~(a > row[d].attempt)
      BY <1>1 DEF AttemptNo
    <3>3. QED
      BY <1>1, <1>3, <2>3, <3>1, <3>2 DEF EntryAgrees, ClaimantAgrees
  <2>4. CASE b # a
    <3>1. ledger'[d][b] = ledger[d][b] /\ job'[d][b] = job[d][b]
      BY <1>3, <2>2, <2>4
    <3>2. QED
      BY <1>1, <1>3, <2>1, <2>4, <3>1 DEF EntryAgrees, ClaimantAgrees
  <2>5. QED
    BY <2>3, <2>4
<1>6. QED
  BY <1>2, <1>4, <1>5 DEF RowsConsistent

(* The claimant holds the current claim, of a row that is not settled.     *)
LEMMA HolderFacts ==
  ASSUME TypeOK, RowsConsistent, NEW d \in Delivery, NEW a \in AttemptNo, Holds(d, a)
  PROVE  /\ a = row[d].attempt /\ d \in rows /\ row[d] \in Row
         /\ ColumnsAgree(row[d]) /\ EntryAgrees(d, a) /\ ClaimantAgrees(d, a)
<1>1. RowAgrees(d) /\ row[d].token = a /\ a # 0
  BY DEF RowsConsistent, Holds, AttemptNo
<1>2. row[d] \in Row /\ EntryAgrees(d, a) /\ ClaimantAgrees(d, a)
  BY DEF TypeOK, RowsConsistent
<1>3. QED
  BY <1>1, <1>2, BlankColumns DEF RowAgrees, ColumnsAgree

LEMMA BeginSendConsistent ==
  ASSUME TypeOK, RowsConsistent, NEW d \in Delivery, NEW a \in AttemptNo, BeginSend(d, a)
  PROVE  RowsConsistent'
<1> DEFINE r == Sending(row[d])
<1>1. /\ a = row[d].attempt /\ row[d] \in Row /\ ColumnsAgree(row[d])
      /\ EntryAgrees(d, a) /\ ClaimantAgrees(d, a) /\ Holds(d, a)
  BY HolderFacts DEF BeginSend, MayBeginSend
<1>2. r \in Row /\ ColumnsAgree(r)
  BY <1>1, FlagChangesTyped, SettledColumns DEF BeginSend, MayBeginSend, Leased
<1>3. r.attempt = row[d].attempt /\ r.cert = "sending" /\ r.acked = row[d].acked
  BY <1>1 DEF Sending, Row
<1>4. ~row[d].acked
  BY <1>1 DEF ColumnsAgree, BeginSend, MayBeginSend
<1> HIDE DEF r
<1>5. SetRow(d, r) /\ SetAttempt(d, "sending") /\ SetJob(d, a, "started") /\ KeepRest
  BY DEF BeginSend, r
<1>6. "sending" \in AttemptState /\ "started" \in JobState
  BY DEF AttemptState, JobState
<1>7. QED
  BY <1>1, <1>2, <1>3, <1>4, <1>5, <1>6, Settlement

LEMMA AckConsistent ==
  ASSUME TypeOK, RowsConsistent, NEW d \in Delivery, NEW a \in AttemptNo,
         NEW answered \in BOOLEAN, Ack(d, a, answered)
  PROVE  RowsConsistent'
<1> DEFINE r == Confirmed(row[d])
           j == IF answered THEN "gone" ELSE "sent"
<1>1. /\ a = row[d].attempt /\ row[d] \in Row /\ ColumnsAgree(row[d])
      /\ EntryAgrees(d, a) /\ ClaimantAgrees(d, a) /\ Holds(d, a) /\ job[d][a] = "sent"
  BY HolderFacts DEF Ack, MayAck
<1>2. r \in Row /\ ColumnsAgree(r)
  BY <1>1, FlagChangesTyped, SettledColumns DEF Ack, MayAck, Leased
<1>3. r.attempt = row[d].attempt /\ r.cert = "confirmed" /\ r.acked
  BY <1>1 DEF Confirmed, Row
<1>4. a \in landed[d] /\ j \in JobState /\ j \in {"gone", "sent"}
  BY <1>1 DEF ClaimantAgrees, JobState
<1> HIDE DEF r, j
<1>5. SetRow(d, r) /\ SetAttempt(d, "confirmed") /\ SetJob(d, a, j) /\ KeepRest
  BY DEF Ack, r, j
<1>6. "confirmed" \in AttemptState
  BY DEF AttemptState
<1>7. QED
  BY <1>1, <1>2, <1>3, <1>4, <1>5, <1>6, Settlement

(* Retry, DeferClaim and CancelClaim close the attempt as rejected.        *)
LEMMA RejectionConsistent ==
  ASSUME TypeOK, RowsConsistent, NEW d \in Delivery, NEW a \in AttemptNo, Holds(d, a),
         NEW r \in Row, ColumnsAgree(r), r.attempt = row[d].attempt,
         r.cert \in {"pending", "rejected"}, ~r.acked,
         SetRow(d, r), SetAttempt(d, "rejected"), SetJob(d, a, "gone"), KeepRest
  PROVE  RowsConsistent'
<1>1. "rejected" \in AttemptState /\ "gone" \in JobState
  BY DEF AttemptState, JobState
<1>2. QED
  BY <1>1, Settlement

LEMMA RetryConsistent ==
  ASSUME TypeOK, RowsConsistent, NEW d \in Delivery, NEW a \in AttemptNo,
         NEW known \in BOOLEAN, Retry(d, a, known)
  PROVE  RowsConsistent'
<1> DEFINE r == Rejected(row[d])
<1>1. row[d] \in Row /\ ColumnsAgree(row[d]) /\ Holds(d, a)
  BY HolderFacts DEF Retry, MayRetry
<1>2. r \in Row /\ ColumnsAgree(r)
  BY <1>1, CountedChangesTyped, SettledColumns DEF Retry, MayRetry, Leased
<1>3. r.attempt = row[d].attempt /\ r.cert = "rejected" /\ ~r.acked
  BY <1>1 DEF Rejected, Row, Retry, MayRetry
<1> HIDE DEF r
<1>4. SetRow(d, r) /\ SetAttempt(d, "rejected") /\ SetJob(d, a, "gone") /\ KeepRest
  BY DEF Retry, r
<1>5. QED
  BY <1>1, <1>2, <1>3, <1>4, RejectionConsistent

LEMMA PolicyConsistent ==
  ASSUME TypeOK, RowsConsistent, NEW d \in Delivery, NEW a \in AttemptNo,
         DeferClaim(d, a) \/ CancelClaim(d, a)
  PROVE  RowsConsistent'
<1>1. /\ row[d] \in Row /\ ColumnsAgree(row[d]) /\ Holds(d, a)
      /\ row[d].last = "claim" /\ ~row[d].acked
  BY HolderFacts DEF DeferClaim, CancelClaim, MaySettlePolicy, ColumnsAgree
<1>2. CASE DeferClaim(d, a)
  <2> DEFINE r == Deferred(row[d])
  <2>1. r \in Row /\ ColumnsAgree(r)
    BY <1>1, <1>2, CountedChangesTyped, SettledColumns DEF DeferClaim, Leased
  <2>2. r.attempt = row[d].attempt /\ r.cert = "pending" /\ ~r.acked
    BY <1>1 DEF Deferred, Row
  <2> HIDE DEF r
  <2>3. SetRow(d, r) /\ SetAttempt(d, "rejected") /\ SetJob(d, a, "gone") /\ KeepRest
    BY <1>2 DEF DeferClaim, r
  <2>4. QED
    BY <1>1, <2>1, <2>2, <2>3, RejectionConsistent
<1>3. CASE CancelClaim(d, a)
  <2> DEFINE r == Cancelled(row[d])
  <2>1. r \in Row /\ ColumnsAgree(r)
    BY <1>1, CountedChangesTyped, SettledColumns DEF Leased
  <2>2. r.attempt = row[d].attempt /\ r.cert = "rejected" /\ ~r.acked
    BY <1>1 DEF Cancelled, Row
  <2> HIDE DEF r
  <2>3. SetRow(d, r) /\ SetAttempt(d, "rejected") /\ SetJob(d, a, "gone") /\ KeepRest
    BY <1>3 DEF CancelClaim, r
  <2>4. QED
    BY <1>1, <2>1, <2>2, <2>3, RejectionConsistent
<1>4. QED
  BY <1>2, <1>3

LEMMA MarkAmbiguousConsistent ==
  ASSUME TypeOK, RowsConsistent, NEW d \in Delivery, NEW a \in AttemptNo, MarkAmbiguous(d, a)
  PROVE  RowsConsistent'
<1> DEFINE r == Unknown(row[d])
<1>1. row[d] \in Row /\ ColumnsAgree(row[d]) /\ Holds(d, a)
  BY HolderFacts DEF MarkAmbiguous, MayMarkAmbiguous
<1>2. r \in Row /\ ColumnsAgree(r)
  BY <1>1, FlagChangesTyped, SettledColumns DEF MarkAmbiguous, MayMarkAmbiguous, Leased
<1>3. r.attempt = row[d].attempt /\ r.cert = "ambiguous" /\ ~r.acked
  BY <1>1 DEF Unknown, Row, MarkAmbiguous, MayMarkAmbiguous
<1> HIDE DEF r
<1>4. SetRow(d, r) /\ SetAttempt(d, "ambiguous") /\ SetJob(d, a, "gone") /\ KeepRest
  BY DEF MarkAmbiguous, r
<1>5. "ambiguous" \in AttemptState /\ "gone" \in JobState
  BY DEF AttemptState, JobState
<1>6. QED
  BY <1>1, <1>2, <1>3, <1>4, <1>5, Settlement

(* A refused call, or one without effect, ends the claimant's work.        *)
LEMMA RefusedConsistent ==
  ASSUME TypeOK, RowsConsistent, NEW d \in Delivery, NEW a \in AttemptNo,
         job[d][a] # "none", SetJob(d, a, "gone"), UNCHANGED <<row, ledger>>, KeepRest
  PROVE  RowsConsistent'
<1>1. ASSUME NEW e \in Delivery PROVE RowAgrees(e)'
  BY DEF RowsConsistent, RowAgrees, ColumnsAgree, KeepRest
<1>2. ASSUME NEW e \in Delivery, NEW b \in AttemptNo
      PROVE  EntryAgrees(e, b)' /\ ClaimantAgrees(e, b)'
  <2>1. EntryAgrees(e, b) /\ ClaimantAgrees(e, b)
    BY DEF RowsConsistent
  <2>2. job'[e][b] = IF e = d /\ b = a THEN "gone" ELSE job[e][b]
    BY DEF SetJob, TypeOK
  <2>3. QED
    BY <2>1, <2>2 DEF EntryAgrees, ClaimantAgrees, KeepRest
<1>3. QED
  BY <1>1, <1>2 DEF RowsConsistent

LEMMA SendConsistent ==
  ASSUME TypeOK, RowsConsistent, NEW d \in Delivery, NEW a \in AttemptNo,
         NEW arrives \in BOOLEAN, NEW result \in {"sent", "failed", "unknown"},
         Send(d, a, arrives, result)
  PROVE  RowsConsistent'
<1>1. \A e \in Delivery : landed[e] \subseteq landed'[e]
  BY DEF Send, TypeOK
<1>2. ASSUME NEW e \in Delivery PROVE RowAgrees(e)'
  BY <1>1 DEF RowsConsistent, RowAgrees, ColumnsAgree, Send
<1>3. ASSUME NEW e \in Delivery, NEW b \in AttemptNo
      PROVE  EntryAgrees(e, b)' /\ ClaimantAgrees(e, b)'
  <2>1. EntryAgrees(e, b) /\ ClaimantAgrees(e, b)
    BY DEF RowsConsistent
  <2>2. job'[e][b] = IF e = d /\ b = a THEN result ELSE job[e][b]
    BY DEF Send, SetJob, TypeOK
  <2>3. b \in landed'[e] <=> b \in landed[e] \/ (arrives /\ e = d /\ b = a)
    BY DEF Send, TypeOK
  <2>4. row' = row /\ ledger' = ledger /\ requeued' = requeued /\ job[d][a] = "started"
    BY DEF Send
  <2>5. EntryAgrees(e, b)'
    BY <2>1, <2>3, <2>4 DEF EntryAgrees, ClaimantAgrees
  <2>6. ClaimantAgrees(e, b)'
    BY <2>1, <2>2, <2>3, <2>4 DEF ClaimantAgrees, Send
  <2>7. QED
    BY <2>5, <2>6
<1>4. QED
  BY <1>2, <1>3 DEF RowsConsistent

LEMMA ClaimantConsistent ==
  ASSUME TypeOK, RowsConsistent, NEW d \in Delivery, NEW a \in AttemptNo, Claimant(d, a)
  PROVE  RowsConsistent'
<1>1. CASE \/ SendStartRefused(d, a) \/ AckWithoutEffect(d, a)
           \/ ReportFailureRefused(d, a) \/ MarkAmbiguousWithoutEffect(d, a)
  BY <1>1, RefusedConsistent DEF SendStartRefused, AckWithoutEffect, ReportFailureRefused,
                                MarkAmbiguousWithoutEffect
<1>2. QED
  BY <1>1, BeginSendConsistent, AckConsistent, RetryConsistent, PolicyConsistent,
     MarkAmbiguousConsistent, SendConsistent
     DEF Claimant, NoSession, ReportFailure

LEMMA EnqueueConsistent ==
  ASSUME TypeOK, RowsConsistent, NEW d \in Delivery, NEW seq \in 0..SeqCap,
         NEW engaged \in BOOLEAN, NEW supersede \in BOOLEAN, NEW due \in BOOLEAN,
         Enqueue(d, seq, engaged, supersede, due)
  PROVE  RowsConsistent'
<1> DEFINE new == NewRow(seq, engaged, due)
<1>1. d \notin rows
  BY DEF Enqueue, Duplicate
<1>2. /\ rows' = rows \cup {d} /\ ledger' = ledger /\ job' = job /\ landed' = landed
      /\ requeued' = requeued
  BY DEF Enqueue
<1>3. ASSUME NEW e \in Delivery, e # d
      PROVE  \/ row'[e] = row[e]
             \/ e \in rows /\ Supersedable(row[e]) /\ row'[e] = Retire(row[e])
  <2> DEFINE old == IF supersede /\ ClassOf[d] # "operational" THEN Replaced(d) ELSE {}
  <2>1. row'[e] = IF e \in old THEN Retire(row[e]) ELSE row[e]
    BY <1>3 DEF Enqueue
  <2>2. e \in old => e \in rows /\ Supersedable(row[e])
    BY DEF Replaced
  <2>3. QED
    BY <2>1, <2>2
<1>4. ASSUME NEW e \in Delivery, e # d
      PROVE  RowAgrees(e)' /\ \A a \in AttemptNo : EntryAgrees(e, a)' /\ ClaimantAgrees(e, a)'
  <2>1. CASE row'[e] = row[e]
    BY <1>2, <1>4, <2>1, Untouched
  <2>2. CASE e \in rows /\ Supersedable(row[e]) /\ row'[e] = Retire(row[e])
    <3>1. row[e] \in Row /\ ColumnsAgree(row[e])
      BY DEF TypeOK, RowsConsistent, RowAgrees
    <3>2. Retire(row[e]) \in Row /\ ColumnsAgree(Retire(row[e]))
      BY <2>2, <3>1, FlagChangesTyped, OtherColumns
    <3>3. /\ Retire(row[e]).attempt = row[e].attempt /\ Retire(row[e]).acked = row[e].acked
          /\ Retire(row[e]).cert = row[e].cert
      BY <3>1 DEF Retire, Row
    <3>4. QED
      BY <1>2, <2>2, <3>2, <3>3, OnlyRow
  <2>3. QED
    BY <1>3, <1>4, <2>1, <2>2
<1>5. RowAgrees(d)' /\ \A a \in AttemptNo : EntryAgrees(d, a)' /\ ClaimantAgrees(d, a)'
  <2>1. /\ ColumnsAgree(new) /\ new.attempt = 0 /\ new.cert = "pending" /\ ~new.acked
    BY NewRowColumns
  <2>2. row'[d] = new /\ row[d] = BlankRow
    BY <1>1 DEF Enqueue, RowsConsistent, RowAgrees
  <2> HIDE DEF new
  <2>3. RowAgrees(d)'
    BY <1>2, <2>1, <2>2 DEF RowAgrees, ColumnsAgree
  <2>4. ASSUME NEW a \in AttemptNo PROVE EntryAgrees(d, a)' /\ ClaimantAgrees(d, a)'
    <3>1. EntryAgrees(d, a) /\ ClaimantAgrees(d, a)
      BY DEF RowsConsistent
    <3>2. QED
      BY <1>2, <2>1, <2>2, <3>1, BlankColumns DEF EntryAgrees, ClaimantAgrees
  <2>5. QED
    BY <2>3, <2>4
<1>6. QED
  BY <1>4, <1>5 DEF RowsConsistent

LEMMA SupersedePrefixConsistent ==
  ASSUME TypeOK, RowsConsistent, NEW S \in Namespace, SupersedePrefix(S)
  PROVE  RowsConsistent'
<1>1. ASSUME NEW e \in Delivery
      PROVE  RowAgrees(e)' /\ \A a \in AttemptNo : EntryAgrees(e, a)' /\ ClaimantAgrees(e, a)'
  <2>1. /\ rows' = rows /\ ledger' = ledger /\ job' = job /\ landed' = landed
        /\ requeued' = requeued
    BY DEF SupersedePrefix
  <2>2. CASE row'[e] = row[e]
    BY <2>1, <2>2, Untouched
  <2>3. CASE e \in rows /\ Supersedable(row[e]) /\ row'[e] = Retire(row[e])
    <3>1. row[e] \in Row /\ ColumnsAgree(row[e])
      BY DEF TypeOK, RowsConsistent, RowAgrees
    <3>2. Retire(row[e]) \in Row /\ ColumnsAgree(Retire(row[e]))
      BY <2>3, <3>1, FlagChangesTyped, OtherColumns
    <3>3. /\ Retire(row[e]).attempt = row[e].attempt /\ Retire(row[e]).acked = row[e].acked
          /\ Retire(row[e]).cert = row[e].cert
      BY <3>1 DEF Retire, Row
    <3>4. QED
      BY <2>1, <2>3, <3>2, <3>3, OnlyRow
  <2>4. QED
    BY <2>2, <2>3 DEF SupersedePrefix
<1>2. QED
  BY <1>1 DEF RowsConsistent

(* Actions that change one row and nothing else but requeued.              *)
LEMMA OneRowConsistent ==
  ASSUME TypeOK, RowsConsistent, NEW d \in rows, NEW r \in Row, SetRow(d, r),
         ColumnsAgree(r), r.attempt = row[d].attempt, r.acked = row[d].acked,
         r.cert = "sending" <=> row[d].cert = "sending",
         row[d].cert = "ambiguous" => r.cert = "ambiguous" \/ d \in requeued',
         requeued \subseteq requeued', UNCHANGED <<rows, ledger, job, landed>>
  PROVE  RowsConsistent'
<1>1. ASSUME NEW e \in Delivery
      PROVE  RowAgrees(e)' /\ \A a \in AttemptNo : EntryAgrees(e, a)' /\ ClaimantAgrees(e, a)'
  <2>1. CASE e = d
    <3>1. row'[d] = r
      BY DEF SetRow, TypeOK
    <3>2. QED
      BY <2>1, <3>1, OnlyRow
  <2>2. CASE e # d
    <3>1. row'[e] = row[e]
      BY <2>2 DEF SetRow, TypeOK
    <3>2. QED
      BY <3>1, Untouched
  <2>3. QED
    BY <2>1, <2>2
<1>2. QED
  BY <1>1 DEF RowsConsistent

LEMMA OperatorTimeConsistent ==
  ASSUME TypeOK, RowsConsistent, NEW d \in Delivery,
         BindEngagement(d) \/ Requeue(d) \/ Time(d)
  PROVE  RowsConsistent'
<1>0. row[d] \in Row /\ ColumnsAgree(row[d]) /\ (d \notin rows => row[d] = BlankRow)
  BY DEF TypeOK, RowsConsistent, RowAgrees
<1>1. CASE BindEngagement(d)
  <2> DEFINE r == [row[d] EXCEPT !.engaged = TRUE]
  <2>1. r \in Row /\ ColumnsAgree(r)
    BY <1>0, FlagChangesTyped, OtherColumns
  <2>2. r.attempt = row[d].attempt /\ r.acked = row[d].acked /\ r.cert = row[d].cert
    BY <1>0 DEF Row
  <2> HIDE DEF r
  <2>3. /\ d \in rows /\ SetRow(d, r) /\ UNCHANGED <<rows, ledger, job, landed>>
        /\ requeued' = requeued
    BY <1>1 DEF BindEngagement, SetRow, r
  <2>4. QED
    BY <2>1, <2>2, <2>3, OneRowConsistent
<1>2. CASE LeaseExpires(d)
  <2> DEFINE r == [row[d] EXCEPT !.lease = "expired"]
  <2>1. r \in Row /\ ColumnsAgree(r)
    BY <1>0, <1>2, FlagChangesTyped, OtherColumns DEF LeaseExpires
  <2>2. r.attempt = row[d].attempt /\ r.acked = row[d].acked /\ r.cert = row[d].cert
    BY <1>0 DEF Row
  <2> HIDE DEF r
  <2>3. d \in rows
    BY <1>0, <1>2, BlankColumns DEF LeaseExpires
  <2>4. /\ SetRow(d, r) /\ UNCHANGED <<rows, ledger, job, landed>> /\ requeued' = requeued
    BY <1>2 DEF LeaseExpires, SetRow, r
  <2>5. QED
    BY <2>1, <2>2, <2>3, <2>4, OneRowConsistent
<1>3. CASE BecomesDue(d)
  <2> DEFINE r == [row[d] EXCEPT !.due = TRUE]
  <2>1. r \in Row /\ ColumnsAgree(r)
    BY <1>0, FlagChangesTyped, OtherColumns
  <2>2. r.attempt = row[d].attempt /\ r.acked = row[d].acked /\ r.cert = row[d].cert
    BY <1>0 DEF Row
  <2> HIDE DEF r
  <2>3. /\ d \in rows /\ SetRow(d, r) /\ UNCHANGED <<rows, ledger, job, landed>>
        /\ requeued' = requeued
    BY <1>3 DEF BecomesDue, SetRow, r
  <2>4. QED
    BY <2>1, <2>2, <2>3, OneRowConsistent
<1>4. CASE Requeue(d)
  <2> DEFINE r == Requeued(row[d])
  <2>1. r \in Row /\ ColumnsAgree(r)
    BY <1>0, <1>4, CountedChangesTyped, OtherColumns DEF Requeue
  <2>2. r.attempt = row[d].attempt /\ r.acked = row[d].acked /\ r.cert = "pending"
    BY <1>0 DEF Row, Requeued
  <2>3. row[d].cert # "sending"
    BY <1>0, <1>4 DEF Requeue, ColumnsAgree
  <2> HIDE DEF r
  <2>4. /\ d \in rows /\ SetRow(d, r) /\ UNCHANGED <<rows, ledger, job, landed>>
        /\ requeued' = requeued \cup {d}
    BY <1>4 DEF Requeue, SetRow, r
  <2>5. QED
    BY <2>1, <2>2, <2>3, <2>4, OneRowConsistent
<1>5. QED
  BY <1>1, <1>2, <1>3, <1>4 DEF Time

(* The sweep of a claim on one row.                                        *)
LEMMA SweepFacts ==
  ASSUME TypeOK, RowsConsistent, NEW d \in rows
  PROVE  /\ SweptRow[d] = Swept(row[d]) /\ SweptRow[d] \in Row /\ ColumnsAgree(SweptRow[d])
         /\ SweptRow[d].attempt = row[d].attempt /\ SweptRow[d].acked = row[d].acked
         /\ SweptRow[d].seq = row[d].seq
         /\ SweptRow[d].cert = IF LostSend(row[d]) THEN "ambiguous" ELSE row[d].cert
         /\ Blocking(SweptRow[d]) => Blocking(row[d])
<1>1. row[d] \in Row /\ ColumnsAgree(row[d]) /\ d \in Delivery
  BY DEF TypeOK, RowsConsistent, RowAgrees
<1>2. SweptRow[d] = Swept(row[d])
  BY <1>1 DEF SweptRow
<1>3. QED
  BY <1>1, <1>2, SweptTyped, SweptColumns

LEMMA ClaimConsistent ==
  ASSUME TypeOK, RowsConsistent, NEW S \in SUBSET rows, Claim(S)
  PROVE  RowsConsistent'
<1>1. /\ rows' = rows /\ landed' = landed /\ requeued' = requeued
  BY DEF Claim
<1>2. ASSUME NEW d \in Delivery, d \notin rows
      PROVE  RowAgrees(d)' /\ \A a \in AttemptNo : EntryAgrees(d, a)' /\ ClaimantAgrees(d, a)'
  <2>1. row'[d] = row[d]
    BY <1>2 DEF Claim, SweptRow
  <2>2. ledger'[d] = ledger[d]
    BY <1>2 DEF Claim, SweptLedger, TypeOK
  <2>3. job'[d] = job[d]
    BY <1>2 DEF Claim, TypeOK
  <2>4. QED
    BY <1>1, <2>1, <2>2, <2>3, Untouched
<1>3. ASSUME NEW d \in rows
      PROVE  RowAgrees(d)' /\ \A a \in AttemptNo : EntryAgrees(d, a)' /\ ClaimantAgrees(d, a)'
  <2> DEFINE r == row[d]
             w == SweptRow[d]
  <2>1. /\ d \in Delivery /\ RowAgrees(d) /\ r \in Row /\ w \in Row /\ ColumnsAgree(r)
        /\ ColumnsAgree(w) /\ w.attempt = r.attempt /\ w.acked = r.acked
        /\ w.cert = IF LostSend(r) THEN "ambiguous" ELSE r.cert
    BY SweepFacts DEF TypeOK, RowsConsistent, RowAgrees
  <2>2. \A a \in AttemptNo :
          ledger'[d][a] = IF d \in S /\ a = r.attempt + 1 THEN "claimed"
                          ELSE IF LostSend(r) /\ a = r.attempt THEN "ambiguous"
                          ELSE ledger[d][a]
    BY <2>1 DEF Claim, SweptLedger
  <2>3. \A a \in AttemptNo :
          job'[d][a] = IF d \in S /\ a = r.attempt + 1 THEN "held" ELSE job[d][a]
    BY <2>1 DEF Claim
  <2>4. \A a \in AttemptNo : EntryAgrees(d, a) /\ ClaimantAgrees(d, a)
    BY <2>1 DEF RowsConsistent
  <2>5. r.attempt \in Nat /\ \A a \in AttemptNo : a \in Nat
    BY <2>1 DEF Row, AttemptNo
  <2>6. LostSend(r) => r.cert = "sending" /\ ~r.acked
    BY DEF LostSend
  <2>7. CASE d \notin S
    <3>1. row'[d] = w
      BY <2>1, <2>7 DEF Claim
    <3> HIDE DEF r, w
    <3>2. RowAgrees(d)'
      BY <1>1, <2>1, <3>1 DEF RowAgrees, ColumnsAgree, r
    <3>3. ASSUME NEW a \in AttemptNo PROVE EntryAgrees(d, a)' /\ ClaimantAgrees(d, a)'
      BY <1>1, <2>1, <2>2, <2>3, <2>4, <2>5, <2>6, <2>7, <3>1
         DEF EntryAgrees, ClaimantAgrees, r
    <3>4. QED
      BY <3>2, <3>3
  <2>8. CASE d \in S
    <3>1. row'[d] = Claimed(w)
      BY <2>1, <2>8 DEF Claim
    <3>2. /\ w.attempt < w.max /\ ~w.acked /\ ~w.dead /\ ~w.superseded
          /\ w.cert \notin {"ambiguous", "confirmed", "sending"}
      BY <2>8 DEF Claim, Claimable
    <3> HIDE DEF r, w
    <3>3. /\ ColumnsAgree(Claimed(w)) /\ Claimed(w).attempt = r.attempt + 1
          /\ Claimed(w).cert = "claimed" /\ ~Claimed(w).acked
      BY <2>1, <3>2, ClaimedColumns
    <3>4. RowAgrees(d)'
      BY <1>1, <3>1, <3>3 DEF RowAgrees, ColumnsAgree
    <3>5. ~LostSend(r) /\ r.cert \notin {"ambiguous", "sending"} /\ ~r.acked
      BY <2>1, <3>2
    <3>6. ASSUME NEW a \in AttemptNo PROVE EntryAgrees(d, a)' /\ ClaimantAgrees(d, a)'
      <4>1. CASE a = r.attempt + 1
        <5>1. ledger'[d][a] = "claimed" /\ job'[d][a] = "held"
          BY <2>2, <2>3, <2>8, <4>1
        <5>2. a \notin landed[d]
          BY <2>4, <2>5, <4>1 DEF EntryAgrees, r
        <5>3. QED
          BY <1>1, <2>5, <3>1, <3>3, <4>1, <5>1, <5>2 DEF EntryAgrees, ClaimantAgrees
      <4>2. CASE a # r.attempt + 1
        <5>1. ledger'[d][a] = ledger[d][a] /\ job'[d][a] = job[d][a]
          BY <2>2, <2>3, <3>5, <4>2
        <5>2. a > r.attempt + 1 <=> a > r.attempt
          BY <2>5, <4>2
        <5>3. EntryAgrees(d, a) /\ ClaimantAgrees(d, a)
          BY <2>4
        <5>4. QED
          BY <1>1, <3>1, <3>3, <3>5, <4>2, <5>1, <5>2, <5>3 DEF EntryAgrees, ClaimantAgrees, r
      <4>3. QED
        BY <4>1, <4>2
    <3>7. QED
      BY <3>4, <3>6
  <2>9. QED
    BY <2>7, <2>8
<1>4. QED
  BY <1>2, <1>3 DEF RowsConsistent

-----------------------------------------------------------------------------
(* Order of the replies of a thread.                                       *)

(* What an action must respect of each row for the order to survive it.    *)
OrderKept(d) ==
  /\ row'[d].seq = row[d].seq /\ row'[d].attempt = row[d].attempt
  /\ Blocking(row'[d]) /\ d \notin requeued' => Blocking(row[d])

LEMMA OrderSurvives ==
  ASSUME ThreadsConsistent, SequencesAgree, \A d \in rows : OrderKept(d),
         rows' = rows, overtaken' = overtaken, current' = current, requeued \subseteq requeued'
  PROVE  ThreadsConsistent' /\ SequencesAgree'
<1>1. ThreadsConsistent'
  <2> SUFFICES ASSUME NEW d \in rows, NEW e \in rows,
                      SameThread(d, e), row'[d].seq < row'[e].seq, Blocking(row'[d]),
                      d \notin requeued' \cup overtaken'
               PROVE  row'[e].attempt = 0
    BY DEF ThreadsConsistent, Earlier, SameThread
  <2>1. Earlier(d, e) /\ Blocking(row[d]) /\ d \notin requeued \cup overtaken
    BY DEF OrderKept, Earlier
  <2>2. row[e].attempt = 0
    BY <2>1 DEF ThreadsConsistent
  <2>3. QED
    BY <2>2 DEF OrderKept
<1>2. SequencesAgree'
  BY DEF SequencesAgree, OrderKept
<1>3. QED
  BY <1>1, <1>2

LEMMA RowChangesKeepOrder ==
  ASSUME NEW r \in Row, ColumnsAgree(r)
  PROVE  /\ Retire(r).seq = r.seq /\ Retire(r).attempt = r.attempt /\ ~Blocking(Retire(r))
         /\ Sending(r).seq = r.seq /\ Sending(r).attempt = r.attempt
         /\ Confirmed(r).seq = r.seq /\ Confirmed(r).attempt = r.attempt
         /\ Rejected(r).seq = r.seq /\ Rejected(r).attempt = r.attempt
         /\ Deferred(r).seq = r.seq /\ Deferred(r).attempt = r.attempt
         /\ Cancelled(r).seq = r.seq /\ Cancelled(r).attempt = r.attempt
         /\ Unknown(r).seq = r.seq /\ Unknown(r).attempt = r.attempt
         /\ Requeued(r).seq = r.seq /\ Requeued(r).attempt = r.attempt
         /\ Leased(r) => Blocking(r)
BY DEF Row, Retire, Sending, Confirmed, Rejected, Deferred, Cancelled, Unknown, Requeued,
       Blocking, Leased, ColumnsAgree

LEMMA ClaimantKeepsOrder ==
  ASSUME TypeOK, RowsConsistent, ThreadsConsistent, SequencesAgree,
         NEW d \in Delivery, NEW a \in AttemptNo, Claimant(d, a)
  PROVE  ThreadsConsistent' /\ SequencesAgree'
<1>1. row[d] \in Row /\ ColumnsAgree(row[d])
  BY DEF TypeOK, RowsConsistent, RowAgrees
<1>2. row' = row \/ \E r : SetRow(d, r) /\ r.seq = row[d].seq /\ r.attempt = row[d].attempt
                                       /\ Blocking(row[d])
  <2>1. CASE \/ BeginSend(d, a) \/ (\E answered \in BOOLEAN : Ack(d, a, answered))
             \/ NoSession(d, a) \/ ReportFailure(d, a) \/ MarkAmbiguous(d, a)
             \/ DeferClaim(d, a) \/ CancelClaim(d, a)
    <3>1. Leased(row[d])
      BY <2>1 DEF Leased, BeginSend, MayBeginSend, Ack, MayAck, NoSession, ReportFailure, Retry,
                  MayRetry, MarkAmbiguous, MayMarkAmbiguous, DeferClaim, CancelClaim,
                  MaySettlePolicy
    <3>2. Blocking(row[d])
      BY <1>1, <3>1, RowChangesKeepOrder
    <3>3. \E r \in {Sending(row[d]), Confirmed(row[d]), Rejected(row[d]), Deferred(row[d]),
                    Cancelled(row[d]), Unknown(row[d])} : SetRow(d, r)
      BY <2>1 DEF BeginSend, Ack, NoSession, ReportFailure, Retry, MarkAmbiguous,
                  DeferClaim, CancelClaim
    <3>4. QED
      BY <1>1, <3>2, <3>3, RowChangesKeepOrder
  <2>2. CASE \/ SendStartRefused(d, a) \/ AckWithoutEffect(d, a)
             \/ ReportFailureRefused(d, a) \/ MarkAmbiguousWithoutEffect(d, a)
             \/ \E arrives \in BOOLEAN, result \in {"sent", "failed", "unknown"} :
                  Send(d, a, arrives, result)
    BY <2>2 DEF SendStartRefused, AckWithoutEffect, ReportFailureRefused,
                MarkAmbiguousWithoutEffect, Send
  <2>3. QED
    BY <2>1, <2>2 DEF Claimant
<1>3. \A e \in rows : OrderKept(e)
  <2>1. rows \subseteq Delivery
    BY DEF TypeOK
  <2>2. QED
    BY <1>2, <2>1 DEF OrderKept, SetRow, TypeOK
<1>4. UNCHANGED <<rows, current, requeued, overtaken>>
  BY DEF Claimant, BeginSend, SendStartRefused, Ack, AckWithoutEffect, NoSession, ReportFailure,
         Retry, ReportFailureRefused, DeferClaim, CancelClaim, MarkAmbiguous,
         MarkAmbiguousWithoutEffect, Send, KeepRest
<1>5. QED
  BY <1>3, <1>4, OrderSurvives

LEMMA OperatorTimeKeepsOrder ==
  ASSUME TypeOK, RowsConsistent, ThreadsConsistent, SequencesAgree, NEW d \in Delivery,
         BindEngagement(d) \/ Requeue(d) \/ Time(d)
  PROVE  ThreadsConsistent' /\ SequencesAgree'
<1>1. row[d] \in Row /\ ColumnsAgree(row[d])
  BY DEF TypeOK, RowsConsistent, RowAgrees
<1>2. \A e \in rows : e # d => row'[e] = row[e]
  BY DEF BindEngagement, Requeue, Time, LeaseExpires, BecomesDue, SetRow, TypeOK
<1>3. d \in rows => OrderKept(d)
  <2>1. CASE Requeue(d)
    <3>1. row'[d] = Requeued(row[d]) /\ d \in requeued'
      BY <2>1 DEF Requeue, SetRow, TypeOK
    <3>2. QED
      BY <1>1, <3>1, RowChangesKeepOrder DEF OrderKept
  <2>2. CASE BindEngagement(d) \/ Time(d)
    <3>1. \/ row'[d] = [row[d] EXCEPT !.engaged = TRUE]
          \/ row'[d] = [row[d] EXCEPT !.lease = "expired"]
          \/ row'[d] = [row[d] EXCEPT !.due = TRUE]
      BY <2>2 DEF BindEngagement, Time, LeaseExpires, BecomesDue, SetRow, TypeOK
    <3>2. QED
      BY <1>1, <3>1 DEF OrderKept, Blocking, Row
  <2>3. QED
    BY <2>1, <2>2
<1>4. \A e \in rows : OrderKept(e)
  BY <1>2, <1>3 DEF OrderKept
<1>5. UNCHANGED <<rows, current, overtaken>> /\ requeued \subseteq requeued'
  BY DEF BindEngagement, Requeue, Time, LeaseExpires, BecomesDue
<1>6. QED
  BY <1>4, <1>5, OrderSurvives

LEMMA SupersedePrefixKeepsOrder ==
  ASSUME TypeOK, RowsConsistent, ThreadsConsistent, SequencesAgree,
         NEW S \in Namespace, SupersedePrefix(S)
  PROVE  ThreadsConsistent' /\ SequencesAgree'
<1>1. ASSUME NEW e \in rows PROVE OrderKept(e)
  <2>1. e \in Delivery /\ row[e] \in Row /\ ColumnsAgree(row[e])
    BY DEF TypeOK, RowsConsistent, RowAgrees
  <2>2. row'[e] = row[e] \/ row'[e] = Retire(row[e])
    BY <2>1 DEF SupersedePrefix
  <2>3. QED
    BY <2>1, <2>2, RowChangesKeepOrder DEF OrderKept
<1>2. QED
  BY <1>1, OrderSurvives DEF SupersedePrefix

LEMMA ReserveKeepsOrder ==
  ASSUME TypeOK, ThreadsConsistent, SequencesAgree,
         NEW t \in Thread, NEW k \in Key, ReserveSequence(t, k)
  PROVE  ThreadsConsistent' /\ SequencesAgree'
<1>1. ThreadsConsistent'
  BY DEF ReserveSequence, ThreadsConsistent, Earlier, SameThread
<1>2. current' = [current EXCEPT ![t] = current[t] + 1] /\ rows' = rows /\ row' = row
  BY LatestIsCurrent DEF ReserveSequence
<1>3. \A e \in rows : row[e].seq \in Nat /\ e \in Delivery
  BY DEF TypeOK, Row
<1>4. \A u \in Thread : current[u] \in Nat /\ current'[u] >= current[u]
  BY <1>2 DEF TypeOK
<1>5. \A e \in rows : ThreadOf[e] # NoThread => ThreadOf[e] \in Thread
  BY <1>3, DeliveryAssumption
<1>6. \A u \in Thread : current'[u] \in Nat
  BY <1>2, <1>4 DEF TypeOK
<1>7. SequencesAgree'
  BY <1>2, <1>3, <1>4, <1>5, <1>6 DEF SequencesAgree
<1>8. QED
  BY <1>1, <1>7

LEMMA EnqueueKeepsOrder ==
  ASSUME TypeOK, RowsConsistent, ThreadsConsistent, SequencesAgree,
         NEW d \in Delivery, NEW seq \in 0..SeqCap,
         NEW engaged \in BOOLEAN, NEW supersede \in BOOLEAN, NEW due \in BOOLEAN,
         Enqueue(d, seq, engaged, supersede, due)
  PROVE  ThreadsConsistent' /\ SequencesAgree'
<1>1. /\ d \notin rows /\ rows' = rows \cup {d} /\ requeued' = requeued
      /\ overtaken \subseteq overtaken'
  BY DEF Enqueue, Duplicate
<1>2. row'[d].seq = seq /\ row'[d].attempt = 0
  BY NewRowColumns DEF Enqueue
<1>3. ASSUME NEW e \in rows
      PROVE  /\ row'[e].seq = row[e].seq /\ row'[e].attempt = row[e].attempt
             /\ Blocking(row'[e]) => Blocking(row[e])
             /\ row[e].seq \in Nat /\ row[e].attempt \in Nat /\ e \in Delivery
  <2>1. e \in Delivery /\ row[e] \in Row /\ ColumnsAgree(row[e]) /\ e # d
    BY <1>1 DEF TypeOK, RowsConsistent, RowAgrees
  <2>2. row'[e] = row[e] \/ row'[e] = Retire(row[e])
    BY <2>1 DEF Enqueue
  <2>3. row[e].seq \in Nat /\ row[e].attempt \in Nat
    BY <2>1 DEF Row
  <2>4. QED
    BY <2>1, <2>2, <2>3, RowChangesKeepOrder
<1>4. ThreadsConsistent'
  <2> SUFFICES ASSUME NEW x \in rows', NEW y \in rows', SameThread(x, y),
                      row'[x].seq < row'[y].seq, Blocking(row'[x]),
                      x \notin requeued', x \notin overtaken'
               PROVE  row'[y].attempt = 0
    BY DEF ThreadsConsistent, Earlier, SameThread
  <2>1. CASE y = d
    BY <1>2, <2>1
  <2>2. CASE x = d /\ y # d
    <3>1. y \in rows /\ row[y].attempt \in Nat /\ seq < row[y].seq /\ SameThread(d, y)
      BY <1>1, <1>2, <1>3, <2>2
    <3>2. d \notin overtaken'
      BY <2>2
    <3>3. ~(row[y].attempt > 0)
      BY <3>1, <3>2 DEF Enqueue
    <3>4. QED
      BY <1>3, <3>1, <3>3
  <2>3. CASE x # d /\ y # d
    <3>1. x \in rows /\ y \in rows /\ x \notin requeued \cup overtaken
      BY <1>1, <2>3
    <3>2. Earlier(x, y) /\ Blocking(row[x])
      BY <1>3, <3>1 DEF Earlier
    <3>3. QED
      BY <1>3, <3>1, <3>2 DEF ThreadsConsistent
  <2>4. QED
    BY <2>1, <2>2, <2>3
<1>5. SequencesAgree'
  <2>1. \A t \in Thread : /\ current[t] \in Nat /\ current'[t] \in Nat
                          /\ current'[t] >= current[t]
                          /\ ThreadOf[d] = t => seq <= current'[t]
    BY DEF Enqueue, TypeOK
  <2>2. \A e \in rows' : ThreadOf[e] # NoThread => ThreadOf[e] \in Thread
    BY <1>1, <1>3, DeliveryAssumption
  <2>3. ASSUME NEW e \in rows', ThreadOf[e] # NoThread
        PROVE  row'[e].seq <= current'[ThreadOf[e]]
    <3>1. CASE e = d
      BY <1>2, <2>1, <2>2, <2>3, <3>1
    <3>2. CASE e # d
      <4>1. e \in rows /\ row[e].seq <= current[ThreadOf[e]]
        BY <1>1, <2>3, <3>2 DEF SequencesAgree
      <4>2. QED
        BY <1>3, <2>1, <2>2, <2>3, <4>1
    <3>3. QED
      BY <3>1, <3>2
  <2>4. QED
    BY <2>3 DEF SequencesAgree
<1>6. QED
  BY <1>4, <1>5

LEMMA ClaimKeepsOrder ==
  ASSUME TypeOK, RowsConsistent, ThreadsConsistent, SequencesAgree,
         NEW S \in SUBSET rows, Claim(S)
  PROVE  ThreadsConsistent' /\ SequencesAgree'
<1>1. UNCHANGED <<rows, current, requeued, overtaken>>
  BY DEF Claim
<1>2. ASSUME NEW e \in rows
      PROVE  /\ row'[e].seq = row[e].seq
             /\ Blocking(row'[e]) => Blocking(row[e]) /\ Blocking(SweptRow[e])
             /\ e \notin S => row'[e].attempt = row[e].attempt
             /\ row[e].seq = SweptRow[e].seq
  <2>1. /\ e \in Delivery /\ SweptRow[e] \in Row /\ ColumnsAgree(SweptRow[e])
        /\ SweptRow[e].seq = row[e].seq /\ SweptRow[e].attempt = row[e].attempt
        /\ Blocking(SweptRow[e]) => Blocking(row[e])
    BY SweepFacts DEF TypeOK
  <2>2. CASE e \notin S
    <3>1. row'[e] = SweptRow[e]
      BY <2>1, <2>2 DEF Claim
    <3>2. QED
      BY <2>1, <2>2, <3>1
  <2>3. CASE e \in S
    <3>1. row'[e] = Claimed(SweptRow[e])
      BY <2>1, <2>3 DEF Claim
    <3>2. /\ SweptRow[e].attempt < SweptRow[e].max /\ ~SweptRow[e].acked
          /\ ~SweptRow[e].dead /\ ~SweptRow[e].superseded
      BY <2>3 DEF Claim, Claimable
    <3>3. Claimed(SweptRow[e]).seq = SweptRow[e].seq /\ Blocking(SweptRow[e])
      BY <2>1, <3>2, ClaimedColumns DEF Blocking
    <3>4. QED
      BY <2>1, <2>3, <3>1, <3>3
  <2>4. QED
    BY <2>2, <2>3
<1>3. ThreadsConsistent'
  <2> SUFFICES ASSUME NEW x \in rows, NEW y \in rows, SameThread(x, y),
                      row'[x].seq < row'[y].seq, Blocking(row'[x]),
                      x \notin requeued \cup overtaken
               PROVE  row'[y].attempt = 0
    BY <1>1 DEF ThreadsConsistent, Earlier, SameThread
  <2>1. Earlier(x, y) /\ Blocking(row[x]) /\ Blocking(SweptRow[x])
    BY <1>2 DEF Earlier
  <2>2. y \notin S
    BY <2>1 DEF Claim, Claimable
  <2>3. row[y].attempt = 0
    BY <2>1 DEF ThreadsConsistent
  <2>4. QED
    BY <1>2, <2>2, <2>3
<1>4. SequencesAgree'
  BY <1>1, <1>2 DEF SequencesAgree
<1>5. QED
  BY <1>3, <1>4

-----------------------------------------------------------------------------
(* The inductive invariant, and the safety properties it implies.          *)

LEMMA NextConsistent ==
  ASSUME Consistent, Next
  PROVE  Consistent'
<1> USE DEF Consistent
<1>1. ASSUME NEW t \in Thread, NEW k \in Key, ReserveSequence(t, k)
      PROVE  Consistent'
  <2>1. RowsConsistent'
    <3>1. UNCHANGED <<rows, row, ledger, job, landed, requeued>>
      BY <1>1 DEF ReserveSequence
    <3>2. QED
      BY <3>1, Untouched DEF RowsConsistent
  <2>2. QED
    BY <1>1, <2>1, ReserveTyped, ReserveKeepsOrder
<1>2. ASSUME NEW d \in Delivery, NEW seq \in 0..SeqCap, NEW engaged \in BOOLEAN,
             NEW supersede \in BOOLEAN, NEW due \in BOOLEAN,
             Enqueue(d, seq, engaged, supersede, due)
      PROVE  Consistent'
  BY <1>2, EnqueueTyped, EnqueueConsistent, EnqueueKeepsOrder
<1>3. ASSUME NEW d \in Delivery, BindEngagement(d) \/ Requeue(d) \/ Time(d)
      PROVE  Consistent'
  BY <1>3, OperatorTimeTyped, OperatorTimeConsistent, OperatorTimeKeepsOrder
<1>4. ASSUME NEW d \in Delivery, NEW a \in AttemptNo, Claimant(d, a)
      PROVE  Consistent'
  BY <1>4, ClaimantTyped, ClaimantConsistent, ClaimantKeepsOrder
<1>5. ASSUME NEW S \in Namespace, SupersedePrefix(S)
      PROVE  Consistent'
  BY <1>5, SupersedePrefixTyped, SupersedePrefixConsistent, SupersedePrefixKeepsOrder
<1>6. ASSUME NEW S \in SUBSET rows, Claim(S)
      PROVE  Consistent'
  BY <1>6, ClaimTyped, ClaimConsistent, ClaimKeepsOrder
<1>7. QED
  BY <1>1, <1>2, <1>3, <1>4, <1>5, <1>6 DEF Next, Produce

LEMMA StutterConsistent ==
  ASSUME Consistent, UNCHANGED vars
  PROVE  Consistent'
<1>1. TypeOK'
  BY DEF Consistent, TypeOK, vars
<1>2. RowsConsistent'
  BY DEF Consistent, RowsConsistent, RowAgrees, EntryAgrees, ClaimantAgrees, vars
<1>3. ThreadsConsistent' /\ SequencesAgree'
  BY DEF Consistent, ThreadsConsistent, SequencesAgree, Earlier, SameThread, vars
<1>4. QED
  BY <1>1, <1>2, <1>3 DEF Consistent

(***************************************************************************)
(* The Outbox is always consistent: the columns of a row, the attempt      *)
(* ledger, what each claimant was told, what reached the chat and the      *)
(* order of each thread never contradict one another.                      *)
(***************************************************************************)
THEOREM AlwaysConsistent == Spec => []Consistent
<1>1. Consistent /\ [Next]_vars => Consistent'
  BY NextConsistent, StutterConsistent
<1>2. QED
  BY <1>1, InitConsistent, PTL DEF Spec

(* Every variable keeps its type, under every operation of the Outbox.     *)
THEOREM TypeCorrect == Spec => []TypeOK
<1>1. Consistent => TypeOK
  BY DEF Consistent
<1>2. QED
  BY <1>1, AlwaysConsistent, PTL

(***************************************************************************)
(* The ledger the operator reads agrees with the row, and what QQ received *)
(* is on record.                                                           *)
(***************************************************************************)
THEOREM RecordsAreTrue == Spec => [](LedgerAgrees /\ RecordedTruth)
<1>1. Consistent => LedgerAgrees
  BY DEF Consistent, RowsConsistent, EntryAgrees, LedgerAgrees
<1>2. ASSUME Consistent, NEW d \in Delivery
      PROVE  /\ \A a \in landed[d] : ledger[d][a] \notin {"none", "claimed"}
             /\ row[d].acked => row[d].attempt \in landed[d]
  <2>1. landed[d] \subseteq AttemptNo
    BY <1>2 DEF Consistent, TypeOK
  <2>2. RowAgrees(d) /\ \A a \in AttemptNo : EntryAgrees(d, a)
    BY <1>2 DEF Consistent, RowsConsistent
  <2>3. QED
    BY <2>1, <2>2 DEF RowAgrees, EntryAgrees
<1>3. Consistent => RecordedTruth
  BY <1>2 DEF RecordedTruth
<1>4. QED
  BY <1>1, <1>3, AlwaysConsistent, PTL

(***************************************************************************)
(* The Outbox never repeats a message on its own: without an operator's    *)
(* requeue, a second copy follows only an attempt reported as not sent.    *)
(***************************************************************************)
THEOREM ResendNeedsEvidence == Spec => []NoBlindResend
<1>1. ASSUME Consistent, NEW d \in Delivery \ requeued, NEW a \in landed[d], NEW b \in landed[d],
             a < b
      PROVE  ledger[d][a] = "rejected"
  <2>1. a \in AttemptNo /\ b \in AttemptNo /\ row[d] \in Row
    BY <1>1 DEF Consistent, TypeOK
  <2>2. EntryAgrees(d, a) /\ EntryAgrees(d, b)
    BY <1>1, <2>1 DEF Consistent, RowsConsistent
  <2>3. row[d].attempt \in Nat /\ a \in Nat /\ b \in Nat
    BY <2>1 DEF Row, AttemptNo
  <2>4. a < row[d].attempt
    BY <1>1, <2>2, <2>3 DEF EntryAgrees
  <2>5. ledger[d][a] \in AttemptState
    BY <1>1, <2>1 DEF Consistent, TypeOK
  <2>6. QED
    BY <1>1, <2>2, <2>3, <2>4, <2>5 DEF EntryAgrees, AttemptState
<1>2. Consistent => NoBlindResend
  BY <1>1 DEF NoBlindResend
<1>3. QED
  BY <1>2, AlwaysConsistent, PTL

(* A copy reaches the chat only from the one action that sends.            *)
LEMMA OnlySendLands ==
  ASSUME TypeOK, Next \/ UNCHANGED vars, NEW d \in Delivery, landed'[d] # landed[d]
  PROVE  \E a \in AttemptNo : job[d][a] = "started"
<1>1. \/ landed' = landed
      \/ \E e \in Delivery, a \in AttemptNo, arrives \in BOOLEAN,
            result \in {"sent", "failed", "unknown"} : Send(e, a, arrives, result)
  <2>1. ASSUME NEW e \in Delivery, NEW a \in AttemptNo, Claimant(e, a)
        PROVE  \/ landed' = landed
               \/ \E arrives \in BOOLEAN, result \in {"sent", "failed", "unknown"} :
                    Send(e, a, arrives, result)
    BY <2>1 DEF Claimant, BeginSend, SendStartRefused, Ack, AckWithoutEffect, NoSession,
                ReportFailure, Retry, ReportFailureRefused, DeferClaim, CancelClaim,
                MarkAmbiguous, MarkAmbiguousWithoutEffect, KeepRest
  <2>2. ASSUME NEW e \in Delivery, Produce(e) \/ Requeue(e) \/ Time(e)
        PROVE  landed' = landed
    BY <2>2 DEF Produce, Enqueue, BindEngagement, Requeue, Time, LeaseExpires, BecomesDue
  <2>3. CASE \/ \E t \in Thread, k \in Key : ReserveSequence(t, k)
             \/ \E S \in Namespace : SupersedePrefix(S)
             \/ \E S \in SUBSET rows : Claim(S)
    BY <2>3 DEF ReserveSequence, SupersedePrefix, Claim
  <2>4. CASE UNCHANGED vars
    BY <2>4 DEF vars
  <2>5. QED
    BY <2>1, <2>2, <2>3, <2>4 DEF Next
<1>2. QED
  BY <1>1 DEF Send, TypeOK

(* A row whose claimant is sending still holds its thread back.            *)
LEMMA SenderBlocks ==
  ASSUME Consistent, NEW d \in Delivery \ requeued, NEW a \in AttemptNo, job[d][a] = "started"
  PROVE  d \in rows /\ Blocking(row[d])
<1>1. RowAgrees(d) /\ EntryAgrees(d, a) /\ ClaimantAgrees(d, a) /\ row[d] \in Row
  BY DEF Consistent, RowsConsistent, TypeOK
<1>2. row[d].cert \in {"sending", "ambiguous"}
  BY <1>1 DEF EntryAgrees, ClaimantAgrees
<1>3. QED
  BY <1>1, <1>2, BlankColumns DEF RowAgrees, ColumnsAgree, Blocking

(* Nothing of a delivery that was never claimed has reached the chat.      *)
LEMMA UnclaimedUnsent ==
  ASSUME Consistent, NEW e \in Delivery, row[e].attempt = 0
  PROVE  landed[e] = {}
<1>1. ASSUME NEW a \in landed[e] PROVE FALSE
  <2>1. a \in AttemptNo /\ EntryAgrees(e, a) /\ a > 0
    BY DEF Consistent, TypeOK, RowsConsistent, AttemptNo
  <2>2. QED
    BY <2>1 DEF EntryAgrees
<1>2. QED
  BY <1>1

(***************************************************************************)
(* Replies of a thread reach the chat in sequence, but for an operator's   *)
(* requeue or a reply enqueued behind one already claimed.                 *)
(***************************************************************************)
THEOREM OrderIsKept == Spec => LandsInOrder
<1>1. ASSUME Consistent, [Next]_vars, NEW d \in Delivery, NEW e \in Delivery,
             landed'[d] # landed[d], Earlier(d, e), d \notin requeued \cup overtaken
      PROVE  landed[e] = {}
  <2>1. d \in rows /\ Blocking(row[d])
    BY <1>1, OnlySendLands, SenderBlocks DEF Consistent
  <2>2. row[e].attempt = 0
    <3>1. CASE e \in rows
      BY <1>1, <2>1, <3>1 DEF Consistent, ThreadsConsistent
    <3>2. CASE e \notin rows
      BY <1>1, <3>2, BlankColumns DEF Consistent, RowsConsistent, RowAgrees
    <3>3. QED
      BY <3>1, <3>2
  <2>3. QED
    BY <1>1, <2>2, UnclaimedUnsent
<1>2. Consistent /\ [Next]_vars =>
        [\A d, e \in Delivery :
           landed'[d] # landed[d] /\ Earlier(d, e) /\ d \notin requeued \cup overtaken
             => landed[e] = {}]_vars
  BY <1>1
<1>3. QED
  BY <1>2, AlwaysConsistent, PTL DEF Spec, LandsInOrder

(***************************************************************************)
(* A superseded or cancelled reply never reaches the chat, but for an      *)
(* operator's requeue.                                                     *)
(***************************************************************************)
THEOREM WithdrawalHolds == Spec => WithdrawnNeverLands
<1>1. ASSUME Consistent, [Next]_vars, NEW d \in Delivery, landed'[d] # landed[d], d \notin requeued
      PROVE  ~row[d].superseded
  BY <1>1, OnlySendLands, SenderBlocks DEF Consistent, Blocking
<1>2. Consistent /\ [Next]_vars =>
        [\A d \in Delivery :
           landed'[d] # landed[d] /\ d \notin requeued => ~row[d].superseded]_vars
  BY <1>1
<1>3. QED
  BY <1>2, AlwaysConsistent, PTL DEF Spec, WithdrawnNeverLands

(***************************************************************************)
(* The lease fences: a claimant whose attempt is not the current one       *)
(* changes nothing in the row.                                             *)
(***************************************************************************)
THEOREM LeaseFences == Spec => StaleClaimantHarmless
<1>1. ASSUME Consistent, Next, NEW d \in Delivery, NEW a \in AttemptNo,
             a < row[d].attempt, job'[d][a] # job[d][a]
      PROVE  row'[d] = row[d]
  <2>1. ASSUME NEW e \in Delivery, NEW b \in AttemptNo, Claimant(e, b)
        PROVE  row'[d] = row[d]
    <3>1. row' = row \/ Holds(e, b)
      BY <2>1 DEF Claimant, BeginSend, MayBeginSend, SendStartRefused, Ack, MayAck,
                  AckWithoutEffect, NoSession, ReportFailure, Retry, MayRetry,
                  ReportFailureRefused, DeferClaim, CancelClaim, MaySettlePolicy, MarkAmbiguous,
                  MayMarkAmbiguous, MarkAmbiguousWithoutEffect, Send
    <3>2. \E s : SetJob(e, b, s)
      BY <2>1 DEF Claimant, BeginSend, SendStartRefused, Ack, AckWithoutEffect, NoSession,
                  ReportFailure, Retry, ReportFailureRefused, DeferClaim, CancelClaim,
                  MarkAmbiguous, MarkAmbiguousWithoutEffect, Send
    <3>3. d = e /\ a = b
      BY <1>1, <3>2 DEF SetJob, Consistent, TypeOK
    <3>4. CASE Holds(e, b)
      <4>1. a = row[d].attempt
        BY <1>1, <3>3, <3>4, HolderFacts DEF Consistent
      <4>2. QED
        BY <1>1, <4>1 DEF AttemptNo
    <3>5. QED
      BY <3>1, <3>4
  <2>2. CASE \E S \in SUBSET rows : Claim(S)
    <3>1. a = row[d].attempt + 1
      BY <1>1, <2>2 DEF Claim, Consistent, TypeOK
    <3>2. row[d].attempt \in Nat
      BY <1>1 DEF Consistent, TypeOK, Row
    <3>3. QED
      BY <1>1, <3>1, <3>2
  <2>3. CASE \/ \E t \in Thread, k \in Key : ReserveSequence(t, k)
             \/ \E e \in Delivery : Produce(e) \/ Requeue(e) \/ Time(e)
             \/ \E S \in Namespace : SupersedePrefix(S)
    BY <1>1, <2>3 DEF ReserveSequence, Produce, Enqueue, BindEngagement, Requeue, Time,
                      LeaseExpires, BecomesDue, SupersedePrefix
  <2>4. QED
    BY <1>1, <2>1, <2>2, <2>3 DEF Next
<1>2. Consistent /\ [Next]_vars =>
        [\A d \in Delivery, a \in AttemptNo :
           a < row[d].attempt /\ job'[d][a] # job[d][a] => row'[d] = row[d]]_vars
  BY <1>1
<1>3. QED
  BY <1>2, AlwaysConsistent, PTL DEF Spec, StaleClaimantHarmless
=============================================================================
