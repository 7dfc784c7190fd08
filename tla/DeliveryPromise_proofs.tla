------------------------ MODULE DeliveryPromise_proofs -----------------------
(***************************************************************************)
(* The Outbox implements DeliveryPromise, for every set of deliveries,     *)
(* threads and keys and every bound; and what it says of sequences and of  *)
(* logical responses.  Consistent of DeliveryOutbox_proofs does the work,  *)
(* but for one fact about claims (ClaimsOpen) that the refinement adds.    *)
(***************************************************************************)
EXTENDS DeliveryOutbox_proofs

-----------------------------------------------------------------------------
(* What each change of a row does to the state shown for it.               *)

Shown(r) ==
  IF r.superseded THEN "withdrawn"
  ELSE IF r.acked THEN "delivered"
  ELSE IF r.cert = "ambiguous" THEN "unknown"
  ELSE IF r.dead THEN "failed"
  ELSE IF r.cert = "sending" THEN "sending"
  ELSE "queued"

LEMMA RetiredShown ==
  ASSUME NEW r \in Row, Supersedable(r)
  PROVE  Shown(r) = "queued" /\ Shown(Retire(r)) = "withdrawn"
BY DEF Supersedable, Retire, Shown, Row

LEMMA ClaimedShown ==
  ASSUME NEW r \in Row, ColumnsAgree(r), r.last = "claim"
  PROVE  /\ Shown(r) = "queued"
         /\ Shown(Sending(r)) = "sending"
         /\ Shown(Rejected(r)) \in {"queued", "failed"}
         /\ Shown(Deferred(r)) = "queued"
         /\ Shown(Cancelled(r)) = "withdrawn"
<1>1. ~r.acked /\ ~r.dead /\ ~r.superseded /\ r.cert = "claimed"
  BY DEF ColumnsAgree
<1>2. Shown(r) = "queued" /\ Shown(Sending(r)) = "sending"
  BY <1>1 DEF Sending, Shown, Row
<1>3. Shown(Rejected(r)) \in {"queued", "failed"} /\ Shown(Deferred(r)) = "queued"
  BY <1>1 DEF Rejected, Deferred, Shown, Row
<1>4. Shown(Cancelled(r)) = "withdrawn"
  BY <1>1 DEF Cancelled, Shown, Row
<1>5. QED
  BY <1>2, <1>3, <1>4

LEMMA SendingShown ==
  ASSUME NEW r \in Row, ColumnsAgree(r), r.last = "send_start"
  PROVE  /\ Shown(r) = "sending"
         /\ Shown(Sending(r)) = "sending"
         /\ Shown(Confirmed(r)) = "delivered"
         /\ Shown(Rejected(r)) \in {"queued", "failed"}
         /\ Shown(Unknown(r)) = "unknown"
<1>1. ~r.acked /\ ~r.dead /\ ~r.superseded /\ r.cert = "sending"
  BY DEF ColumnsAgree
<1>2. Shown(r) = "sending" /\ Shown(Sending(r)) = "sending"
  BY <1>1 DEF Sending, Shown, Row
<1>3. Shown(Confirmed(r)) = "delivered" /\ Shown(Unknown(r)) = "unknown"
  BY <1>1 DEF Confirmed, Unknown, Shown, Row
<1>4. Shown(Rejected(r)) \in {"queued", "failed"}
  BY <1>1 DEF Rejected, Shown, Row
<1>5. QED
  BY <1>2, <1>3, <1>4

LEMMA SweptShown ==
  ASSUME NEW r \in Row, ColumnsAgree(r)
  PROVE  \/ Shown(Swept(r)) = Shown(r)
         \/ Shown(r) = "sending" /\ Shown(Swept(r)) = "unknown"
         \/ Shown(r) = "queued" /\ Shown(Swept(r)) = "failed"
<1>1. CASE LostSend(r)
  <2>1. r.last = "send_start" /\ Swept(r) = Unknown(r)
    BY <1>1 DEF LostSend, ColumnsAgree, Swept
  <2>2. QED
    BY <2>1, SendingShown
<1>2. CASE ~LostSend(r) /\ Exhausted(r)
  <2>1. Swept(r) = OutOfAttempts(r)
    BY <1>2 DEF Swept
  <2>2. ~r.acked /\ ~r.dead /\ r.cert \notin {"ambiguous", "sending"}
    BY <1>2 DEF Exhausted, LostSend, ColumnsAgree, Row
  <2>3. QED
    BY <2>1, <2>2 DEF OutOfAttempts, Shown, Row
<1>3. CASE ~LostSend(r) /\ ~Exhausted(r)
  BY <1>3 DEF Swept
<1>4. QED
  BY <1>1, <1>2, <1>3

LEMMA RequeuedShown ==
  ASSUME NEW r \in Row, ColumnsAgree(r), r.dead, ~r.acked
  PROVE  /\ Shown(r) \in {"failed", "unknown", "withdrawn"}
         /\ Shown(Requeued(r)) = IF Shown(r) = "withdrawn" THEN "withdrawn" ELSE "queued"
BY DEF Requeued, Shown, Row

(* Marks that are not shown.                                               *)
LEMMA UnshownMarks ==
  ASSUME NEW r \in Row
  PROVE  /\ Shown([r EXCEPT !.engaged = TRUE]) = Shown(r)
         /\ Shown([r EXCEPT !.lease = "expired"]) = Shown(r)
         /\ Shown([r EXCEPT !.due = TRUE]) = Shown(r)
BY DEF Shown, Row

-----------------------------------------------------------------------------
(* The attempt of a claim that has not started to send is recorded as      *)
(* claimed, also when an operator requeued an earlier one.                 *)

ClaimsOpen ==
  \A d \in Delivery : row[d].last = "claim" => ledger[d][row[d].attempt] = "claimed"

(* A step that ends or starts no claim but those of d keeps it.            *)
LEMMA ClaimEnds ==
  ASSUME TypeOK, ClaimsOpen, NEW d \in Delivery, NEW r \in Row, r.last # "claim",
         SetRow(d, r), \A e \in Delivery \ {d} : ledger'[e] = ledger[e]
  PROVE  ClaimsOpen'
BY DEF TypeOK, ClaimsOpen, SetRow

LEMMA ClaimKeeps ==
  ASSUME ClaimsOpen, UNCHANGED ledger,
         \A d \in Delivery : row'[d].last = "claim" =>
            row[d].last = "claim" /\ row'[d].attempt = row[d].attempt
  PROVE  ClaimsOpen'
BY DEF ClaimsOpen

LEMMA ClaimantClaimsOpen ==
  ASSUME TypeOK, ClaimsOpen, NEW d \in Delivery, NEW a \in AttemptNo, Claimant(d, a)
  PROVE  ClaimsOpen'
<1>0. row[d] \in Row
  BY DEF TypeOK
<1>1. ASSUME NEW r \in Row, r.last # "claim", NEW s, SetRow(d, r), SetAttempt(d, s)
      PROVE  ClaimsOpen'
  BY <1>1, ClaimEnds DEF SetAttempt, TypeOK
<1>2. CASE BeginSend(d, a)
  <2>1. Sending(row[d]) \in Row /\ Sending(row[d]).last # "claim"
    BY <1>0, FlagChangesTyped DEF Sending, Row
  <2>2. QED
    BY <1>1, <1>2, <2>1 DEF BeginSend
<1>3. CASE \E answered \in BOOLEAN : Ack(d, a, answered)
  <2>1. Confirmed(row[d]) \in Row /\ Confirmed(row[d]).last # "claim"
    BY <1>0, FlagChangesTyped DEF Confirmed, Row
  <2>2. QED
    BY <1>1, <1>3, <2>1 DEF Ack
<1>4. CASE \E known \in BOOLEAN : Retry(d, a, known)
  <2>1. Rejected(row[d]) \in Row /\ Rejected(row[d]).last # "claim"
    BY <1>0, CountedChangesTyped DEF Rejected, Row
  <2>2. QED
    BY <1>1, <1>4, <2>1 DEF Retry
<1>5. CASE DeferClaim(d, a)
  <2>1. Deferred(row[d]) \in Row
    BY <1>0, <1>5, CountedChangesTyped DEF DeferClaim
  <2>2. Deferred(row[d]).last # "claim"
    BY <1>0 DEF Deferred, Row
  <2>3. QED
    BY <1>1, <1>5, <2>1, <2>2 DEF DeferClaim
<1>6. CASE CancelClaim(d, a)
  <2>1. Cancelled(row[d]) \in Row /\ Cancelled(row[d]).last # "claim"
    BY <1>0, CountedChangesTyped DEF Cancelled, Row
  <2>2. QED
    BY <1>1, <1>6, <2>1 DEF CancelClaim
<1>7. CASE MarkAmbiguous(d, a)
  <2>1. Unknown(row[d]) \in Row /\ Unknown(row[d]).last # "claim"
    BY <1>0, FlagChangesTyped DEF Unknown, Row
  <2>2. QED
    BY <1>1, <1>7, <2>1 DEF MarkAmbiguous
<1>8. CASE \/ SendStartRefused(d, a) \/ AckWithoutEffect(d, a)
           \/ ReportFailureRefused(d, a) \/ MarkAmbiguousWithoutEffect(d, a)
           \/ \E arrives \in BOOLEAN, result \in {"sent", "failed", "unknown"} :
                Send(d, a, arrives, result)
  BY <1>8, ClaimKeeps DEF SendStartRefused, AckWithoutEffect, ReportFailureRefused,
                          MarkAmbiguousWithoutEffect, Send
<1>9. QED
  BY <1>2, <1>3, <1>4, <1>5, <1>6, <1>7, <1>8 DEF Claimant, NoSession, ReportFailure

LEMMA ClaimClaimsOpen ==
  ASSUME Consistent, ClaimsOpen, NEW S \in SUBSET rows, Claim(S)
  PROVE  ClaimsOpen'
<1> SUFFICES ASSUME NEW d \in Delivery, row'[d].last = "claim"
             PROVE  ledger'[d][row'[d].attempt] = "claimed"
  BY DEF ClaimsOpen
<1>1. row[d] \in Row /\ ledger \in [Delivery -> [AttemptNo -> AttemptState]]
  BY DEF Consistent, TypeOK
<1>2. CASE d \in S
  <2>1. /\ SweptRow[d] \in Row /\ SweptRow[d].attempt = row[d].attempt
        /\ SweptRow[d].attempt < SweptRow[d].max
    BY <1>2, SweepFacts DEF Consistent, Claim, Claimable
  <2>2. row'[d] = Claimed(SweptRow[d])
    BY <1>2 DEF Claim
  <2>3. row'[d].attempt = row[d].attempt + 1
    BY <2>1, <2>2 DEF Claimed, Row
  <2>4. row[d].attempt + 1 \in AttemptNo
    BY <2>1, BoundAssumption DEF Row, AttemptNo
  <2>5. QED
    BY <1>2, <2>3, <2>4 DEF Claim
<1>3. CASE d \in rows \ S
  <2>1. row'[d] = Swept(row[d])
    BY <1>3, SweepFacts DEF Consistent, Claim
  <2>2. ~LostSend(row[d]) /\ ~Exhausted(row[d])
    BY <1>1, <2>1 DEF Swept, Unknown, OutOfAttempts, Row
  <2>3. row'[d] = row[d]
    BY <2>1, <2>2 DEF Swept
  <2>4. ledger[d][row[d].attempt] = "claimed"
    BY <2>3 DEF ClaimsOpen
  <2>5. row[d].attempt \in AttemptNo
    <3>1. ColumnsAgree(row[d])
      BY DEF Consistent, RowsConsistent, RowAgrees
    <3>2. QED
      BY <1>1, <2>3, <3>1 DEF ColumnsAgree, Row, AttemptNo
  <2>6. ledger'[d][row[d].attempt] = ledger[d][row[d].attempt]
    BY <1>3, <2>2, <2>5 DEF Claim, SweptLedger
  <2>7. QED
    BY <2>3, <2>4, <2>6
<1>4. CASE d \notin rows
  <2>1. row[d] = BlankRow /\ row'[d] = row[d]
    BY <1>4 DEF Consistent, RowsConsistent, RowAgrees, Claim, SweptRow
  <2>2. BlankRow.last # "claim"
    BY DEF BlankRow
  <2>3. QED
    BY <2>1, <2>2
<1>5. QED
  BY <1>2, <1>3, <1>4

LEMMA NextClaimsOpen ==
  ASSUME Consistent, ClaimsOpen, [Next]_vars
  PROVE  ClaimsOpen'
<1>0. TypeOK /\ row \in [Delivery -> Row]
  BY DEF Consistent, TypeOK
<1>1. CASE \E d \in Delivery, a \in AttemptNo : Claimant(d, a)
  BY <1>0, <1>1, ClaimantClaimsOpen
<1>2. CASE \E S \in SUBSET rows : Claim(S)
  BY <1>2, ClaimClaimsOpen
<1>3. ASSUME NEW d \in Delivery, Produce(d)
      PROVE  ClaimsOpen'
  <2>1. CASE \E seq \in 0..SeqCap, engaged, supersede, due \in BOOLEAN :
                Enqueue(d, seq, engaged, supersede, due)
    <3>1. \A e \in Delivery : Retire(row[e]).last # "claim"
      BY <1>0 DEF Retire, Row
    <3>2. \A seq, engaged, due : NewRow(seq, engaged, due).last # "claim"
      BY DEF NewRow, BlankRow
    <3>3. QED
      BY <1>0, <2>1, <3>1, <3>2, ClaimKeeps DEF Enqueue
  <2>2. CASE BindEngagement(d)
    BY <1>0, <2>2, ClaimKeeps DEF BindEngagement, Row
  <2>3. QED
    BY <1>3, <2>1, <2>2 DEF Produce
<1>4. ASSUME NEW d \in Delivery, Requeue(d) \/ Time(d)
      PROVE  ClaimsOpen'
  <2>1. CASE Requeue(d)
    BY <1>0, <2>1, ClaimKeeps DEF Requeue, Requeued, SetRow, Row
  <2>2. CASE Time(d)
    BY <1>0, <2>2, ClaimKeeps DEF Time, LeaseExpires, BecomesDue, SetRow, Row
  <2>3. QED
    BY <1>4, <2>1, <2>2
<1>5. ASSUME NEW S \in Namespace, SupersedePrefix(S)
      PROVE  ClaimsOpen'
  <2>1. \A d \in Delivery : Retire(row[d]).last # "claim"
    BY <1>0 DEF Retire, Row
  <2>2. QED
    BY <1>0, <1>5, <2>1, ClaimKeeps DEF SupersedePrefix
<1>6. CASE (\E t \in Thread, k \in Key : ReserveSequence(t, k)) \/ UNCHANGED vars
  BY <1>6, ClaimKeeps DEF ReserveSequence, vars
<1>7. QED
  BY <1>1, <1>2, <1>3, <1>4, <1>5, <1>6 DEF Next

LEMMA InitClaimsOpen == Init => ClaimsOpen
<1>1. BlankRow.last # "claim"
  BY DEF BlankRow
<1>2. QED
  BY <1>1 DEF Init, ClaimsOpen

-----------------------------------------------------------------------------
(* Every step of the Outbox is a move of DeliveryPromise or leaves what it *)
(* speaks of alone.                                                        *)

LEMMA OutcomeIsShown ==
  ASSUME NEW d \in Delivery
  PROVE  /\ d \in rows => OutcomeOf(d) = Shown(row[d])
         /\ d \notin rows => OutcomeOf(d) = "absent"
         /\ d \in rows' => OutcomeOf(d)' = Shown(row'[d])
         /\ d \notin rows' => OutcomeOf(d)' = "absent"
         /\ OutcomeOf(d)' \in Promise!Outcome
BY DEF OutcomeOf, Shown, Promise!Outcome

Moves(d) == OutcomeOf(d)' # OutcomeOf(d) => <<OutcomeOf(d), OutcomeOf(d)'>> \in Promise!Move

LEMMA MovesAdvance ==
  ASSUME \A d \in Delivery : Moves(d), UNCHANGED <<landed, requeued>>
  PROVE  Promise!Advance
<1>1. [d \in Delivery |-> OutcomeOf(d)]' \in [Delivery -> Promise!Outcome]
  BY OutcomeIsShown
<1>2. QED
  BY <1>1 DEF Promise!Advance, Moves

(* A step that rewrites one existing row, as it is shown.                  *)
LEMMA OneRowMoves ==
  ASSUME TypeOK, NEW d \in rows, NEW r, SetRow(d, r), rows' = rows,
         \/ Shown(r) = Shown(row[d])
         \/ <<Shown(row[d]), Shown(r)>> \in Promise!Move
  PROVE  \A e \in Delivery : Moves(e)
<1>1. d \in Delivery /\ row' = [row EXCEPT ![d] = r] /\ row \in [Delivery -> Row]
  BY DEF TypeOK, SetRow
<1>2. row'[d] = r /\ \A e \in Delivery \ {d} : row'[e] = row[e]
  BY <1>1
<1>3. QED
  BY <1>1, <1>2, OutcomeIsShown DEF Moves

LEMMA ClaimantMoves ==
  ASSUME Consistent, ClaimsOpen, NEW d \in Delivery, NEW a \in AttemptNo, Claimant(d, a),
         ~\E arrives \in BOOLEAN, result \in {"sent", "failed", "unknown"} :
            Send(d, a, arrives, result)
  PROVE  Promise!Advance
<1>1. ASSUME Holds(d, a)
      PROVE  /\ d \in rows /\ row[d] \in Row /\ ColumnsAgree(row[d]) /\ a = row[d].attempt
             /\ EntryAgrees(d, a) /\ ClaimantAgrees(d, a)
  BY <1>1, HolderFacts DEF Consistent
<1>2. ASSUME NEW r, SetRow(d, r), KeepRest, Holds(d, a),
             \/ Shown(r) = Shown(row[d])
             \/ <<Shown(row[d]), Shown(r)>> \in Promise!Move
      PROVE  Promise!Advance
  BY <1>1, <1>2, OneRowMoves, MovesAdvance DEF Consistent, KeepRest
<1>3. CASE BeginSend(d, a)
  BY <1>1, <1>2, <1>3, ClaimedShown, SendingShown DEF BeginSend, MayBeginSend, Promise!Move
<1>4. CASE \E answered \in BOOLEAN : Ack(d, a, answered)
  <2>1. Holds(d, a) /\ job[d][a] = "sent" /\ row[d].last \in {"claim", "send_start"}
    BY <1>4 DEF Ack, MayAck
  <2>2. row[d].last = "send_start"
    BY <1>1, <2>1 DEF ClaimantAgrees, ClaimsOpen
  <2>3. QED
    BY <1>1, <1>2, <1>4, <2>1, <2>2, SendingShown DEF Ack, Promise!Move
<1>5. CASE \E known \in BOOLEAN : Retry(d, a, known)
  <2>1. Holds(d, a) /\ row[d].last \in {"claim", "send_start"}
    BY <1>5 DEF Retry, MayRetry
  <2>2. QED
    BY <1>1, <1>2, <1>5, <2>1, ClaimedShown, SendingShown DEF Retry, Promise!Move
<1>6. CASE DeferClaim(d, a)
  BY <1>1, <1>2, <1>6, ClaimedShown DEF DeferClaim, MaySettlePolicy
<1>7. CASE CancelClaim(d, a)
  BY <1>1, <1>2, <1>7, ClaimedShown DEF CancelClaim, MaySettlePolicy, Promise!Move
<1>8. CASE MarkAmbiguous(d, a)
  BY <1>1, <1>2, <1>8, SendingShown DEF MarkAmbiguous, MayMarkAmbiguous, Promise!Move
<1>9. CASE \/ SendStartRefused(d, a) \/ AckWithoutEffect(d, a)
           \/ ReportFailureRefused(d, a) \/ MarkAmbiguousWithoutEffect(d, a)
  <2>1. UNCHANGED <<rows, row, landed, requeued>>
    BY <1>9 DEF SendStartRefused, AckWithoutEffect, ReportFailureRefused,
                MarkAmbiguousWithoutEffect, KeepRest
  <2>2. QED
    BY <2>1, OutcomeIsShown, MovesAdvance DEF Moves
<1>10. QED
  BY <1>3, <1>4, <1>5, <1>6, <1>7, <1>8, <1>9 DEF Claimant, NoSession, ReportFailure

(* What is sent was sending, or lost, unless an operator has intervened.   *)
LEMMA SendIsPromised ==
  ASSUME Consistent, NEW d \in Delivery, NEW a \in AttemptNo, NEW arrives \in BOOLEAN,
         NEW result \in {"sent", "failed", "unknown"}, Send(d, a, arrives, result)
  PROVE  Promise!CopyLands(d) \/ UNCHANGED Promise!promiseVars
<1>1. UNCHANGED <<rows, row, requeued>>
  BY DEF Send
<1>2. [e \in Delivery |-> OutcomeOf(e)]' = [e \in Delivery |-> OutcomeOf(e)]
  BY <1>1 DEF OutcomeOf
<1>3. CASE ~arrives
  BY <1>1, <1>2, <1>3 DEF Send, Promise!promiseVars
<1>4. CASE arrives
  <2>1. d \in requeued \/ OutcomeOf(d) \in {"sending", "unknown"}
    <3>1. SUFFICES ASSUME d \notin requeued
                   PROVE  OutcomeOf(d) \in {"sending", "unknown"}
      OBVIOUS
    <3>2. d \in rows /\ Blocking(row[d])
      BY <3>1, SenderBlocks DEF Send
    <3>3. EntryAgrees(d, a) /\ ClaimantAgrees(d, a) /\ job[d][a] = "started"
      BY DEF Consistent, RowsConsistent, Send
    <3>4. row[d].cert \in {"sending", "ambiguous"}
      BY <3>1, <3>3 DEF EntryAgrees, ClaimantAgrees
    <3>5. QED
      BY <3>2, <3>4 DEF OutcomeOf, Blocking
  <2>2. landed' = [landed EXCEPT ![d] = @ \cup {a}]
    BY <1>4 DEF Send
  <2>3. QED
    BY <1>1, <1>2, <2>1, <2>2 DEF Promise!CopyLands
<1>5. QED
  BY <1>3, <1>4

LEMMA RequeueIsPromised ==
  ASSUME Consistent, NEW d \in Delivery, Requeue(d)
  PROVE  Promise!OperatorRequeues(d)
<1>1. /\ d \in rows /\ row[d] \in Row /\ ColumnsAgree(row[d])
      /\ row[d].dead /\ ~row[d].acked
  BY DEF Consistent, TypeOK, RowsConsistent, RowAgrees, Requeue
<1>2. /\ row' = [row EXCEPT ![d] = Requeued(row[d])] /\ row \in [Delivery -> Row]
      /\ rows' = rows /\ landed' = landed /\ requeued' = requeued \cup {d}
  BY DEF Consistent, TypeOK, Requeue, SetRow
<1>3. OutcomeOf(d) \in {"failed", "unknown", "withdrawn"}
  BY <1>1, RequeuedShown, OutcomeIsShown
<1>4. OutcomeOf(d)' = IF OutcomeOf(d) = "withdrawn" THEN "withdrawn" ELSE "queued"
  BY <1>1, <1>2, RequeuedShown, OutcomeIsShown
<1>5. \A e \in Delivery \ {d} : OutcomeOf(e)' = OutcomeOf(e)
  BY <1>2, OutcomeIsShown
<1>6. [e \in Delivery |-> OutcomeOf(e)]' =
        [[e \in Delivery |-> OutcomeOf(e)] EXCEPT ![d] = IF @ = "withdrawn" THEN @ ELSE "queued"]
  BY <1>4, <1>5
<1>7. QED
  BY <1>2, <1>3, <1>6 DEF Promise!OperatorRequeues

LEMMA EnqueueMoves ==
  ASSUME Consistent, NEW d \in Delivery, NEW seq \in 0..SeqCap, NEW engaged \in BOOLEAN,
         NEW supersede \in BOOLEAN, NEW due \in BOOLEAN,
         Enqueue(d, seq, engaged, supersede, due)
  PROVE  Promise!Advance
<1>1. d \notin rows /\ rows' = rows \cup {d} /\ rows \subseteq Delivery
  BY DEF Enqueue, Duplicate, Consistent, TypeOK
<1>2. row'[d] = NewRow(seq, engaged, due) /\ Shown(NewRow(seq, engaged, due)) = "queued"
  <2>1. Shown(NewRow(seq, engaged, due)) = "queued"
    BY DEF NewRow, BlankRow, Shown
  <2>2. QED
    BY <2>1 DEF Enqueue
<1>3. \A e \in Delivery \ {d} :
        row'[e] = row[e] \/ (Supersedable(row[e]) /\ row'[e] = Retire(row[e]))
  BY DEF Enqueue, Replaced
<1>4. \A e \in Delivery : row[e] \in Row
  BY DEF Consistent, TypeOK
<1>5. Moves(d)
  BY <1>1, <1>2, OutcomeIsShown DEF Moves, Promise!Move
<1>6. \A e \in Delivery \ {d} : Moves(e)
  BY <1>1, <1>3, <1>4, RetiredShown, OutcomeIsShown DEF Moves, Promise!Move
<1>7. QED
  BY <1>5, <1>6, MovesAdvance DEF Enqueue

LEMMA SupersedePrefixMoves ==
  ASSUME Consistent, NEW S \in Namespace, SupersedePrefix(S)
  PROVE  Promise!Advance
<1>1. \A e \in Delivery :
        row'[e] = row[e] \/ (Supersedable(row[e]) /\ row'[e] = Retire(row[e]))
  BY DEF SupersedePrefix
<1>2. \A e \in Delivery : row[e] \in Row
  BY DEF Consistent, TypeOK
<1>3. UNCHANGED <<rows, landed, requeued>>
  BY DEF SupersedePrefix
<1>4. \A e \in Delivery : Moves(e)
  BY <1>1, <1>2, <1>3, RetiredShown, OutcomeIsShown DEF Moves, Promise!Move
<1>5. QED
  BY <1>3, <1>4, MovesAdvance

LEMMA ClaimMoves ==
  ASSUME Consistent, NEW S \in SUBSET rows, Claim(S)
  PROVE  Promise!Advance
<1>1. UNCHANGED <<rows, landed, requeued>> /\ rows \subseteq Delivery
  BY DEF Claim, Consistent, TypeOK
<1>2. ASSUME NEW d \in rows
      PROVE  Moves(d)
  <2>1. d \in Delivery /\ row[d] \in Row /\ ColumnsAgree(row[d]) /\ SweptRow[d] = Swept(row[d])
    BY <1>1, SweepFacts DEF Consistent, TypeOK, RowsConsistent, RowAgrees
  <2>2. CASE d \notin S
    <3>1. row'[d] = Swept(row[d])
      BY <2>1, <2>2 DEF Claim
    <3>2. QED
      BY <1>1, <2>1, <3>1, SweptShown, OutcomeIsShown DEF Moves, Promise!Move
  <2>3. CASE d \in S
    <3>1. Claimable(d)
      BY <2>3 DEF Claim
    <3>2. ~SweptRow[d].dead
      BY <3>1 DEF Claimable
    <3>3. Swept(row[d]) = row[d]
      BY <2>1, <3>2 DEF Swept, Unknown, OutOfAttempts, Row
    <3>4. /\ row'[d] = Claimed(row[d])
          /\ ~row[d].acked /\ ~row[d].dead /\ ~row[d].superseded
          /\ row[d].cert \notin {"ambiguous", "confirmed", "sending"}
      BY <2>1, <2>3, <3>1, <3>3 DEF Claim, Claimable
    <3>5. Shown(row[d]) = "queued" /\ Shown(Claimed(row[d])) = "queued"
      BY <2>1, <3>4 DEF Claimed, Shown, Row
    <3>6. QED
      BY <1>1, <2>1, <3>4, <3>5, OutcomeIsShown DEF Moves
  <2>4. QED
    BY <2>2, <2>3
<1>3. ASSUME NEW d \in Delivery \ rows
      PROVE  Moves(d)
  BY <1>1, OutcomeIsShown DEF Moves
<1>4. QED
  BY <1>1, <1>2, <1>3, MovesAdvance

LEMMA MarkMoves ==
  ASSUME Consistent, NEW d \in Delivery, BindEngagement(d) \/ Time(d)
  PROVE  Promise!Advance
<1>1. row[d] \in Row /\ TypeOK
  BY DEF Consistent, TypeOK
<1>2. d \in rows
  <2>1. BlankRow.lease = "none"
    BY DEF BlankRow
  <2>2. QED
    BY <2>1 DEF Consistent, RowsConsistent, RowAgrees, BindEngagement, Time, LeaseExpires, BecomesDue
<1>3. \E r : SetRow(d, r) /\ Shown(r) = Shown(row[d])
  BY <1>1, UnshownMarks DEF BindEngagement, Time, LeaseExpires, BecomesDue, SetRow
<1>4. UNCHANGED <<rows, landed, requeued>>
  BY DEF BindEngagement, Time, LeaseExpires, BecomesDue
<1>5. QED
  BY <1>1, <1>2, <1>3, <1>4, OneRowMoves, MovesAdvance

LEMMA StepIsPromised ==
  ASSUME Consistent, ClaimsOpen, [Next]_vars
  PROVE  [Promise!PromiseNext]_(Promise!promiseVars)
<1>1. ASSUME NEW d \in Delivery, NEW a \in AttemptNo, Claimant(d, a)
      PROVE  Promise!PromiseNext \/ UNCHANGED Promise!promiseVars
  BY <1>1, ClaimantMoves, SendIsPromised DEF Promise!PromiseNext
<1>2. ASSUME NEW d \in Delivery, Produce(d) \/ Time(d)
      PROVE  Promise!PromiseNext
  BY <1>2, EnqueueMoves, MarkMoves DEF Produce, Promise!PromiseNext
<1>3. ASSUME NEW d \in Delivery, Requeue(d)
      PROVE  Promise!PromiseNext
  BY <1>3, RequeueIsPromised DEF Promise!PromiseNext
<1>4. CASE (\E S \in Namespace : SupersedePrefix(S)) \/ (\E S \in SUBSET rows : Claim(S))
  BY <1>4, SupersedePrefixMoves, ClaimMoves DEF Promise!PromiseNext
<1>5. CASE (\E t \in Thread, k \in Key : ReserveSequence(t, k)) \/ UNCHANGED vars
  BY <1>5 DEF ReserveSequence, vars, Promise!promiseVars, OutcomeOf
<1>6. QED
  BY <1>1, <1>2, <1>3, <1>4, <1>5 DEF Next

LEMMA InitIsPromised == Init => Promise!PromiseInit
BY DEF Init, Promise!PromiseInit, OutcomeOf

(***************************************************************************)
(* The Outbox with its leases, tokens, sweeps and stale claimants          *)
(* implements DeliveryPromise: nothing it does moves a reply otherwise     *)
(* than the administrator is told, nor lets a copy reach the chat when the *)
(* promise does not.                                                       *)
(***************************************************************************)
THEOREM PromiseIsKept == Spec => KeepsPromise
<1>1. Init => ClaimsOpen
  BY InitClaimsOpen
<1>2. Consistent /\ ClaimsOpen /\ [Next]_vars => ClaimsOpen'
  BY NextClaimsOpen
<1>3. Consistent /\ ClaimsOpen /\ [Next]_vars => [Promise!PromiseNext]_(Promise!promiseVars)
  BY StepIsPromised
<1>4. QED
  BY <1>1, <1>2, <1>3, InitIsPromised, AlwaysConsistent, PTL
     DEF Spec, KeepsPromise, Promise!PromiseSpec

-----------------------------------------------------------------------------
(* Sequences.                                                              *)

(* No reservation is ahead of its thread, and a row in a thread has a      *)
(* number, so that no empty reservation can stand for it.                  *)
SequencesInv ==
  /\ SequencesDistinct
  /\ \A t \in Thread, k \in Key : reserved[t][k] <= current[t]
  /\ \A d \in rows : ThreadOf[d] # NoThread => row[d].seq > 0

LEMMA InitSequences == Init => SequencesInv
BY DEF Init, SequencesInv, SequencesDistinct

LEMMA SequencesKept ==
  ASSUME SequencesInv, UNCHANGED <<rows, current, reserved>>,
         \A d \in rows : row'[d].seq = row[d].seq
  PROVE  SequencesInv'
BY DEF SequencesInv, SequencesDistinct, SameThread

LEMMA ReserveSequences ==
  ASSUME Consistent, SequencesInv, NEW t \in Thread, NEW k \in Key, ReserveSequence(t, k)
  PROVE  SequencesInv'
<1>1. /\ current \in [Thread -> 0..SeqCap] /\ reserved \in [Thread -> [Key -> 0..SeqCap]]
      /\ \A d \in rows : row[d].seq \in 0..SeqCap
  BY DEF Consistent, TypeOK, Row
<1>2. /\ reserved[t][k] = 0 /\ UNCHANGED <<rows, row>>
      /\ current' = [current EXCEPT ![t] = current[t] + 1]
      /\ reserved' = [reserved EXCEPT ![t][k] = current[t] + 1]
  BY LatestIsCurrent DEF Consistent, ReserveSequence
<1>3. \A u \in Thread, j \in Key :
        reserved'[u][j] = IF u = t /\ j = k THEN current[t] + 1 ELSE reserved[u][j]
  BY <1>1, <1>2
<1>4. \A u \in Thread, j \in Key : reserved'[u][j] <= current'[u]
  BY <1>1, <1>2, <1>3, BoundAssumption DEF SequencesInv
<1>5. \A u \in Thread, i, j \in Key :
        i # j /\ reserved'[u][i] > 0 => reserved'[u][i] # reserved'[u][j]
  <2>1. \A u \in Thread, j \in Key : reserved[u][j] < current[u] + 1
    BY <1>1, BoundAssumption DEF SequencesInv
  <2>2. QED
    BY <1>1, <1>3, <2>1, BoundAssumption DEF SequencesInv, SequencesDistinct
<1>6. ASSUME NEW d \in rows, NEW e \in rows, d # e, SameThread(d, e), row[d].seq = row[e].seq
      PROVE  \E j \in Key : reserved'[ThreadOf[d]][j] = row[d].seq
  <2>1. ThreadOf[d] \in Thread
    BY <1>6, DeliveryAssumption DEF SameThread, Consistent, TypeOK
  <2>2. PICK j \in Key : reserved[ThreadOf[d]][j] = row[d].seq
    BY <1>6 DEF SequencesInv, SequencesDistinct
  <2>3. row[d].seq # 0
    BY <1>1, <1>6 DEF SequencesInv, SameThread
  <2>4. QED
    BY <1>2, <1>3, <2>1, <2>2, <2>3
<1>7. QED
  BY <1>2, <1>4, <1>5, <1>6 DEF SequencesInv, SequencesDistinct, SameThread

LEMMA EnqueueSequences ==
  ASSUME Consistent, SequencesInv, NEW d \in Delivery, NEW seq \in 0..SeqCap,
         NEW engaged \in BOOLEAN, NEW supersede \in BOOLEAN, NEW due \in BOOLEAN,
         Enqueue(d, seq, engaged, supersede, due)
  PROVE  SequencesInv'
<1>1. /\ current \in [Thread -> 0..SeqCap] /\ reserved \in [Thread -> [Key -> 0..SeqCap]]
      /\ \A e \in Delivery : row[e].seq \in 0..SeqCap /\ row[e] \in Row
      /\ rows \subseteq Delivery /\ d \notin rows /\ rows' = rows \cup {d} /\ reserved' = reserved
  BY DEF Consistent, TypeOK, Row, Enqueue, Duplicate
<1>2. \A e \in rows : row'[e].seq = row[e].seq
  <2>1. \A e \in Delivery : Retire(row[e]).seq = row[e].seq
    BY <1>1 DEF Retire, Row
  <2>2. QED
    BY <1>1, <2>1 DEF Enqueue
<1>3. row'[d].seq = seq
  BY DEF Enqueue, NewRow, BlankRow
<1>4. \A t \in Thread : current[t] <= current'[t]
  BY <1>1, BoundAssumption DEF Enqueue
<1>5. \A t \in Thread, k \in Key : reserved'[t][k] <= current'[t]
  <2>1. current' \in [Thread -> 0..SeqCap]
    BY EnqueueTyped DEF Consistent, TypeOK
  <2>2. QED
    BY <1>1, <1>4, <2>1, BoundAssumption DEF SequencesInv
<1>6. ASSUME ThreadOf[d] # NoThread
      PROVE  /\ ThreadOf[d] \in Thread /\ seq > 0
             /\ \/ seq = current[ThreadOf[d]] + 1
                \/ \E k \in Key : reserved[ThreadOf[d]][k] = seq
  <2>1. ThreadOf[d] \in Thread
    BY <1>6, DeliveryAssumption
  <2>2. \/ seq = current[ThreadOf[d]] + 1
        \/ \E k \in Key : reserved[ThreadOf[d]][k] > 0 /\ reserved[ThreadOf[d]][k] = seq
    BY <1>6, <2>1, LatestIsCurrent DEF Consistent, Enqueue, SequencesFor
  <2>3. QED
    BY <1>1, <2>1, <2>2, BoundAssumption
<1>7. ASSUME NEW e \in rows, SameThread(d, e), row[e].seq = seq
      PROVE  \E k \in Key : reserved[ThreadOf[d]][k] = seq
  <2>1. ThreadOf[d] # NoThread /\ ThreadOf[e] = ThreadOf[d]
    BY <1>7 DEF SameThread
  <2>2. row[e].seq <= current[ThreadOf[d]]
    BY <2>1 DEF Consistent, SequencesAgree
  <2>3. seq # current[ThreadOf[d]] + 1
    BY <1>1, <1>6, <1>7, <2>1, <2>2, BoundAssumption
  <2>4. QED
    BY <1>6, <2>1, <2>3
<1>8. ASSUME NEW e \in rows', NEW f \in rows', e # f, SameThread(e, f), row'[e].seq = row'[f].seq
      PROVE  \E k \in Key : reserved'[ThreadOf[e]][k] = row'[e].seq
  <2>1. CASE e \in rows /\ f \in rows
    BY <1>1, <1>2, <1>8, <2>1 DEF SequencesInv, SequencesDistinct
  <2>2. CASE e = d
    BY <1>1, <1>2, <1>3, <1>7, <1>8, <2>2
  <2>3. CASE f = d
    BY <1>1, <1>2, <1>3, <1>7, <1>8, <2>3 DEF SameThread
  <2>4. QED
    BY <1>1, <2>1, <2>2, <2>3
<1>9. \A e \in rows' : ThreadOf[e] # NoThread => row'[e].seq > 0
  BY <1>1, <1>2, <1>3, <1>6 DEF SequencesInv
<1>10. QED
  BY <1>1, <1>5, <1>8, <1>9 DEF SequencesInv, SequencesDistinct, SameThread

(* Nothing else renumbers a row.                                           *)
LEMMA ClaimantKeepsNumbers ==
  ASSUME TypeOK, NEW d \in Delivery, NEW a \in AttemptNo, Claimant(d, a)
  PROVE  /\ \A e \in rows : row'[e].seq = row[e].seq
         /\ UNCHANGED <<rows, current, reserved>>
<1>1. row \in [Delivery -> Row] /\ row[d] \in Row /\ rows \subseteq Delivery
  BY DEF TypeOK
<1>2. /\ Sending(row[d]).seq = row[d].seq /\ Confirmed(row[d]).seq = row[d].seq
      /\ Rejected(row[d]).seq = row[d].seq /\ Deferred(row[d]).seq = row[d].seq
      /\ Cancelled(row[d]).seq = row[d].seq /\ Unknown(row[d]).seq = row[d].seq
  BY <1>1 DEF Sending, Confirmed, Rejected, Deferred, Cancelled, Unknown, Row
<1>3. UNCHANGED row \/ \E r : SetRow(d, r) /\ r.seq = row[d].seq
  BY <1>2 DEF Claimant, BeginSend, SendStartRefused, Ack, AckWithoutEffect, NoSession,
              ReportFailure, Retry, ReportFailureRefused, DeferClaim, CancelClaim,
              MarkAmbiguous, MarkAmbiguousWithoutEffect, Send
<1>4. UNCHANGED <<rows, current, reserved>>
  BY DEF Claimant, BeginSend, SendStartRefused, Ack, AckWithoutEffect, NoSession,
         ReportFailure, Retry, ReportFailureRefused, DeferClaim, CancelClaim,
         MarkAmbiguous, MarkAmbiguousWithoutEffect, Send, KeepRest
<1>5. QED
  BY <1>1, <1>3, <1>4 DEF SetRow

LEMMA OthersKeepNumbers ==
  ASSUME TypeOK, NEW d \in Delivery, BindEngagement(d) \/ Requeue(d) \/ Time(d)
  PROVE  /\ \A e \in rows : row'[e].seq = row[e].seq
         /\ UNCHANGED <<rows, current, reserved>>
<1>1. row \in [Delivery -> Row] /\ row[d] \in Row /\ rows \subseteq Delivery
  BY DEF TypeOK
<1>2. \E r : SetRow(d, r) /\ r.seq = row[d].seq
  <2>1. /\ [row[d] EXCEPT !.engaged = TRUE].seq = row[d].seq
        /\ [row[d] EXCEPT !.lease = "expired"].seq = row[d].seq
        /\ [row[d] EXCEPT !.due = TRUE].seq = row[d].seq
        /\ Requeued(row[d]).seq = row[d].seq
    BY <1>1 DEF Requeued, Row
  <2>2. CASE BindEngagement(d)
    BY <2>1, <2>2 DEF BindEngagement, SetRow
  <2>3. CASE Requeue(d)
    BY <2>1, <2>3 DEF Requeue
  <2>4. CASE Time(d)
    BY <2>1, <2>4 DEF Time, LeaseExpires, BecomesDue
  <2>5. QED
    BY <2>2, <2>3, <2>4
<1>3. UNCHANGED <<rows, current, reserved>>
  BY DEF BindEngagement, Requeue, Time, LeaseExpires, BecomesDue
<1>4. QED
  BY <1>1, <1>2, <1>3 DEF SetRow

LEMMA BatchesKeepNumbers ==
  ASSUME Consistent,
         (\E S \in Namespace : SupersedePrefix(S)) \/ (\E S \in SUBSET rows : Claim(S))
  PROVE  /\ \A e \in rows : row'[e].seq = row[e].seq
         /\ UNCHANGED <<rows, current, reserved>>
<1>1. row \in [Delivery -> Row] /\ rows \subseteq Delivery
  BY DEF Consistent, TypeOK
<1>2. ASSUME NEW S \in Namespace, SupersedePrefix(S)
      PROVE  \A e \in rows : row'[e].seq = row[e].seq
  <2>1. \A e \in Delivery : Retire(row[e]).seq = row[e].seq
    BY <1>1 DEF Retire, Row
  <2>2. QED
    BY <1>1, <1>2, <2>1 DEF SupersedePrefix
<1>3. ASSUME NEW S \in SUBSET rows, Claim(S), NEW e \in rows
      PROVE  row'[e].seq = row[e].seq
  <2>1. SweptRow[e] \in Row /\ SweptRow[e].seq = row[e].seq /\ e \in Delivery
    BY <1>1, SweepFacts DEF Consistent
  <2>2. Claimed(SweptRow[e]).seq = SweptRow[e].seq
    BY <2>1 DEF Claimed, Row
  <2>3. QED
    BY <1>3, <2>1, <2>2 DEF Claim
<1>4. UNCHANGED <<rows, current, reserved>>
  BY DEF SupersedePrefix, Claim
<1>5. QED
  BY <1>2, <1>3, <1>4

LEMMA NextSequences ==
  ASSUME Consistent, SequencesInv, [Next]_vars
  PROVE  SequencesInv'
<1>0. TypeOK
  BY DEF Consistent
<1>1. CASE \E t \in Thread, k \in Key : ReserveSequence(t, k)
  BY <1>1, ReserveSequences
<1>2. ASSUME NEW d \in Delivery, Produce(d)
      PROVE  SequencesInv'
  BY <1>0, <1>2, EnqueueSequences, OthersKeepNumbers, SequencesKept DEF Produce
<1>3. CASE \E d \in Delivery : Requeue(d) \/ Time(d)
  BY <1>0, <1>3, OthersKeepNumbers, SequencesKept
<1>4. CASE \E d \in Delivery, a \in AttemptNo : Claimant(d, a)
  BY <1>0, <1>4, ClaimantKeepsNumbers, SequencesKept
<1>5. CASE (\E S \in Namespace : SupersedePrefix(S)) \/ (\E S \in SUBSET rows : Claim(S))
  BY <1>5, BatchesKeepNumbers, SequencesKept
<1>6. CASE UNCHANGED vars
  BY <1>6, SequencesKept DEF vars
<1>7. QED
  BY <1>1, <1>2, <1>3, <1>4, <1>5, <1>6 DEF Next

(***************************************************************************)
(* Reservations of a thread are distinct, and two replies of it share a    *)
(* sequence only through one reservation.                                  *)
(***************************************************************************)
THEOREM SequencesStayDistinct == Spec => []SequencesDistinct
<1>1. Consistent /\ SequencesInv /\ [Next]_vars => SequencesInv'
  BY NextSequences
<1>2. SequencesInv => SequencesDistinct
  BY DEF SequencesInv
<1>3. QED
  BY <1>1, <1>2, InitSequences, AlwaysConsistent, PTL DEF Spec

-----------------------------------------------------------------------------
(* Logical responses.                                                      *)

(* A response has one row, whatever keys it is enqueued under.             *)
OneRowPerResponse ==
  \A d, e \in rows : d # e => LogicalOf[d] # LogicalOf[e] \/ LogicalOf[d] = NoLogical

LEMMA NextResponses ==
  ASSUME Consistent, OneRowPerResponse, [Next]_vars
  PROVE  OneRowPerResponse'
<1>0. TypeOK
  BY DEF Consistent
<1>1. ASSUME NEW d \in Delivery, Produce(d)
      PROVE  OneRowPerResponse'
  <2>1. CASE \E seq \in 0..SeqCap, engaged, supersede, due \in BOOLEAN :
                Enqueue(d, seq, engaged, supersede, due)
    <3>1. ~Duplicate(d) /\ rows' = rows \cup {d}
      BY <2>1 DEF Enqueue
    <3>2. QED
      BY <3>1 DEF Duplicate, OneRowPerResponse
  <2>2. CASE BindEngagement(d)
    BY <2>2 DEF BindEngagement, OneRowPerResponse
  <2>3. QED
    BY <1>1, <2>1, <2>2 DEF Produce
<1>2. ASSUME \A d \in Delivery : ~Produce(d)
      PROVE  rows' = rows
  <2>1. CASE \E d \in Delivery, a \in AttemptNo : Claimant(d, a)
    BY <1>0, <2>1, ClaimantKeepsNumbers
  <2>2. CASE \E d \in Delivery : Requeue(d) \/ Time(d)
    BY <1>0, <2>2, OthersKeepNumbers
  <2>3. CASE (\E S \in Namespace : SupersedePrefix(S)) \/ (\E S \in SUBSET rows : Claim(S))
    BY <2>3, BatchesKeepNumbers
  <2>4. CASE (\E t \in Thread, k \in Key : ReserveSequence(t, k)) \/ UNCHANGED vars
    BY <2>4 DEF ReserveSequence, vars
  <2>5. QED
    BY <1>2, <2>1, <2>2, <2>3, <2>4 DEF Next
<1>3. QED
  BY <1>1, <1>2 DEF OneRowPerResponse

(***************************************************************************)
(* One logical response reaches the chat under one delivery only.          *)
(***************************************************************************)
THEOREM ResponseSaidOnce == Spec => []OneReplyPerResponse
<1>1. Init => OneRowPerResponse
  BY DEF Init, OneRowPerResponse
<1>2. Consistent /\ OneRowPerResponse /\ [Next]_vars => OneRowPerResponse'
  BY NextResponses
<1>3. ASSUME Consistent, NEW d \in Delivery, landed[d] # {}
      PROVE  d \in rows
  <2>1. SUFFICES ASSUME d \notin rows
                 PROVE  FALSE
    OBVIOUS
  <2>2. row[d] = BlankRow
    BY <1>3, <2>1 DEF Consistent, RowsConsistent, RowAgrees
  <2>3. BlankRow.attempt = 0
    BY DEF BlankRow
  <2>4. QED
    BY <1>3, <2>2, <2>3, UnclaimedUnsent
<1>4. Consistent /\ OneRowPerResponse => OneReplyPerResponse
  BY <1>3 DEF OneRowPerResponse, OneReplyPerResponse
<1>5. QED
  BY <1>1, <1>2, <1>4, AlwaysConsistent, PTL DEF Spec

(* What QQ received is on record.                                          *)
THEOREM RecordIsTrue == Spec => []RecordedTruth
BY RecordsAreTrue, PTL

=============================================================================
