------------------------ MODULE InboundReceipts_proofs ------------------------
(***************************************************************************)
(* Proofs about InboundReceipts, for any messages, requests, payloads and  *)
(* joined turns.                                                           *)
(***************************************************************************)
EXTENDS InboundReceipts, TLAPS

(* A step that touches neither rows nor the history of runs, and moves one *)
(* request to a state in which it owes nothing, keeps the invariant.       *)
LEMMA QuietStep ==
  ASSUME ReceiptsInv, NEW r \in Request, NEW to \in PC,
         to \notin Running, to = "looked" => seen'[r] = "absent",
         to \in Optional => ~Web(r),
         pc' = [pc EXCEPT ![r] = to], ReceiptsTypeOK',
         UNCHANGED <<receipt, ran, doubtful>>,
         \A q \in Request : q # r => seen'[q] = seen[q] /\ answer'[q] = answer[q],
         \A m \in Message : alias[m] # NoMessage => alias'[m] = alias[m],
         to = "answered" => answer'[r] \in Request /\ Truthful(r, answer[r])'
  PROVE  ReceiptsInv'
<1>1. \A q \in Request : CallAgrees(q)'
  BY DEF ReceiptsInv, CallAgrees, ReceiptsTypeOK, Row, Web, Running, Optional, PC
<1>2. \A m \in Message : ReceiptAgrees(m)'
  BY DEF ReceiptsInv, ReceiptAgrees
<1>3. WebRunsOnce' /\ RepeatNeedsCause'
  BY DEF ReceiptsInv, WebRunsOnce, RepeatNeedsCause, Web
<1>4. ReplaysAreTruthful'
  <2>1. ASSUME NEW q \in Request, q # r, pc'[q] = "answered"
        PROVE  answer'[q] \in Request /\ Truthful(q, answer[q])'
    <3>1. pc[q] = "answered" /\ answer'[q] = answer[q]
      BY <2>1 DEF ReceiptsInv, ReceiptsTypeOK
    <3>2. answer[q] \in Request /\ Truthful(q, answer[q])
      BY <3>1 DEF ReceiptsInv, ReplaysAreTruthful
    <3>3. MessageOf[q] \in Message /\ MessageOf[answer[q]] \in Message
      BY <3>2, RequestAssumption
    <3>4. alias[MessageOf[q]] # NoMessage => alias'[MessageOf[q]] = alias[MessageOf[q]]
      BY <3>3
    <3> QED BY <3>1, <3>2, <3>3, <3>4, RequestAssumption DEF Truthful
  <2>2. ASSUME pc'[r] = "answered" PROVE answer'[r] \in Request /\ Truthful(r, answer[r])'
    BY <2>2 DEF ReceiptsInv, ReceiptsTypeOK
  <2> QED BY <2>1, <2>2 DEF ReplaysAreTruthful
<1> QED BY <1>1, <1>2, <1>3, <1>4 DEF ReceiptsInv

(* Starting the operation of r under a receipt that nobody had taken, or   *)
(* that is doubtful and not of the Web, keeps the invariant.               *)
LEMMA StartStep ==
  ASSUME ReceiptsInv, NEW r \in Request, NEW from \in {"new", "looked"}, NEW t \in Receipt,
         Starts(r, from, t), t.status = "processing", t.leased, t.payload = PayloadOf[r],
         Row(r).status # "absent"
           => MessageOf[r] \in doubtful /\ ~Web(r) /\ Row(r).payload = PayloadOf[r],
         UNCHANGED <<alias, enabled, seen, doubtful>>
  PROVE  ReceiptsInv'
<1> DEFINE m == MessageOf[r]
<1>m. m \in Message /\ receipt[m] = Row(r)
  BY RequestAssumption DEF Row
<1>1. /\ pc' = [pc EXCEPT ![r] = "running"]
      /\ receipt' = [receipt EXCEPT ![m] = t]
      /\ ran' = ran \cup {r}
      /\ answer' = answer
  BY DEF Starts, Goes, Set
<1>2. ReceiptsTypeOK'
  BY <1>m, <1>1 DEF ReceiptsInv, ReceiptsTypeOK, PC, Running
<1>3. \A q \in Request : CallAgrees(q)'
  <2> SUFFICES ASSUME NEW q \in Request PROVE CallAgrees(q)'
    OBVIOUS
  <2>1. CallAgrees(q) /\ MessageOf[q] \in Message
    BY RequestAssumption DEF ReceiptsInv
  <2>2. CASE q = r
    BY <1>m, <1>1, <2>2 DEF ReceiptsInv, ReceiptsTypeOK, CallAgrees, Row, Running, Optional
  <2>3. CASE q # r
    <3>1. pc'[q] = pc[q] /\ (q \in ran' <=> q \in ran)
      BY <1>1, <2>3 DEF ReceiptsInv, ReceiptsTypeOK
    <3>2. CASE MessageOf[q] = m
      BY <1>m, <1>1, <2>1, <3>1, <3>2 DEF ReceiptsInv, ReceiptsTypeOK, CallAgrees, Row, Web
    <3>3. CASE MessageOf[q] # m
      BY <1>m, <1>1, <2>1, <3>1, <3>3 DEF ReceiptsInv, ReceiptsTypeOK, CallAgrees, Row, Web
    <3> QED BY <3>2, <3>3
  <2> QED BY <2>2, <2>3
<1>4. \A n \in Message : ReceiptAgrees(n)'
  BY <1>m, <1>1 DEF ReceiptsInv, ReceiptsTypeOK, ReceiptAgrees
<1>5. \A q \in ran : MessageOf[q] = m => Row(r).status # "absent"
  BY DEF ReceiptsInv, ReceiptsTypeOK, CallAgrees, Row
<1>6. WebRunsOnce' /\ RepeatNeedsCause'
  BY <1>1, <1>5 DEF ReceiptsInv, WebRunsOnce, RepeatNeedsCause, Web
<1>7. ReplaysAreTruthful'
  BY <1>1 DEF ReceiptsInv, ReceiptsTypeOK, ReplaysAreTruthful, Truthful
<1> QED BY <1>2, <1>3, <1>4, <1>6, <1>7 DEF ReceiptsInv

(* Rewriting a taken receipt, with the history grown to match, and moving  *)
(* one request to its end.                                                 *)
LEMMA SettleStep ==
  ASSUME ReceiptsInv, NEW r \in Request, NEW to \in {"answered", "refused"}, NEW t \in Receipt,
         pc' = [pc EXCEPT ![r] = to], receipt' = [receipt EXCEPT ![MessageOf[r]] = t],
         Row(r).status # "absent", t.status # "absent", t.payload = Row(r).payload, ~t.leased,
         t.status # "completed" => MessageOf[r] \in doubtful,
         t.status = "completed" =>
           /\ t.response \in Request
           /\ MessageOf[t.response] = MessageOf[r] /\ PayloadOf[t.response] = t.payload,
         ReceiptsTypeOK', UNCHANGED <<alias, enabled, seen, ran, doubtful>>,
         to = "answered" => answer' = [answer EXCEPT ![r] = r],
         to = "refused" => answer' = answer
  PROVE  ReceiptsInv'
<1> DEFINE m == MessageOf[r]
<1>m. m \in Message /\ receipt[m] = Row(r)
  BY RequestAssumption DEF Row
<1>1. \A q \in Request : CallAgrees(q)'
  <2> SUFFICES ASSUME NEW q \in Request PROVE CallAgrees(q)'
    OBVIOUS
  <2>1. CallAgrees(q) /\ MessageOf[q] \in Message
    BY RequestAssumption DEF ReceiptsInv
  <2>2. /\ q # r => pc'[q] = pc[q]
        /\ pc'[r] = to
    BY DEF ReceiptsInv, ReceiptsTypeOK
  <2>3. /\ MessageOf[q] # m => Row(q)' = Row(q)
        /\ MessageOf[q] = m => /\ Row(q).status # "absent" /\ Row(q)'.status # "absent"
                               /\ Row(q)'.payload = Row(q).payload
    BY <1>m, <2>1 DEF ReceiptsInv, ReceiptsTypeOK, Row
  <2> QED BY <2>1, <2>2, <2>3 DEF CallAgrees, Web, Running, Optional
<1>2. \A n \in Message : ReceiptAgrees(n)'
  BY <1>m DEF ReceiptsInv, ReceiptsTypeOK, ReceiptAgrees, Receipt, Status
<1>3. WebRunsOnce' /\ RepeatNeedsCause'
  BY DEF ReceiptsInv, WebRunsOnce, RepeatNeedsCause, Web
<1>4. ReplaysAreTruthful'
  BY DEF ReceiptsInv, ReceiptsTypeOK, ReplaysAreTruthful, Truthful
<1> QED BY <1>1, <1>2, <1>3, <1>4 DEF ReceiptsInv

LEMMA ReceiptsInitInv == ReceiptsInit => ReceiptsInv
BY RequestAssumption
   DEF ReceiptsInit, ReceiptsInv, ReceiptsTypeOK, Receipt, NoReceipt, Status, PC, CallAgrees,
       ReceiptAgrees, WebRunsOnce, RepeatNeedsCause, ReplaysAreTruthful, Running, Optional

(* What a request finds is the row of its message.                         *)
LEMMA RowOfRequest ==
  ASSUME ReceiptsInv, NEW r \in Request
  PROVE  /\ MessageOf[r] \in Message /\ Row(r) = receipt[MessageOf[r]]
         /\ Row(r) \in Receipt /\ ReceiptAgrees(MessageOf[r]) /\ CallAgrees(r)
         /\ Row(r).leased => Row(r).status = "processing"
         /\ Row(r).status = "completed" => Row(r).response \in Request
BY RequestAssumption DEF ReceiptsInv, ReceiptsTypeOK, Row

LEMMA OwnedIsReceipt ==
  ASSUME NEW r \in Request
  PROVE  Owned(r) \in Receipt
BY DEF Owned, Receipt, Status

(* A request that replays the receipt of its own message is answered       *)
(* truthfully; so are the other outcomes of reading it.                    *)
LEMMA DecidedStep ==
  ASSUME ReceiptsInv, NEW r \in Request, NEW from \in {"new", "ready"},
         \/ Refuse(r, from)
         \/ Replays(r) /\ AnsweredBy(r, from, Row(r).response),
         UNCHANGED <<receipt, alias, enabled, seen, ran, doubtful>>
  PROVE  ReceiptsInv'
<1>1. CASE Refuse(r, from)
  <2>1. pc' = [pc EXCEPT ![r] = "refused"] /\ answer' = answer
    BY <1>1 DEF Refuse, Goes
  <2>2. ReceiptsTypeOK'
    BY <2>1 DEF ReceiptsInv, ReceiptsTypeOK, PC
  <2> QED BY <2>1, <2>2, QuietStep DEF PC, Running, Optional
<1>2. CASE Replays(r) /\ AnsweredBy(r, from, Row(r).response)
  <2>1. /\ pc' = [pc EXCEPT ![r] = "answered"]
        /\ answer' = [answer EXCEPT ![r] = Row(r).response]
    BY <1>2 DEF AnsweredBy, Goes
  <2>2. /\ Row(r).response \in Request
        /\ MessageOf[Row(r).response] = MessageOf[r] /\ PayloadOf[Row(r).response] = PayloadOf[r]
    BY <1>2, RowOfRequest DEF Replays, Conflicts, ReceiptAgrees
  <2>3. ReceiptsTypeOK'
    BY <2>1, <2>2 DEF ReceiptsInv, ReceiptsTypeOK, PC
  <2>4. answer'[r] \in Request /\ Truthful(r, answer[r])'
    BY <2>1, <2>2 DEF ReceiptsInv, ReceiptsTypeOK, Truthful
  <2>5. \A q \in Request : q # r => seen'[q] = seen[q] /\ answer'[q] = answer[q]
    BY <2>1 DEF ReceiptsInv, ReceiptsTypeOK
  <2> QED BY <2>1, <2>3, <2>4, <2>5, QuietStep DEF PC, Running, Optional
<1> QED BY <1>1, <1>2

LEMMA BeginRequiredInv ==
  ASSUME ReceiptsInv, NEW r \in Request, BeginRequired(r)
  PROVE  ReceiptsInv'
<1>0. UNCHANGED <<alias, enabled, seen, doubtful>> /\ Web(r)
  BY DEF BeginRequired
<1>1. CASE Decided(r) /\ UNCHANGED <<receipt, ran>>
  BY <1>0, <1>1, DecidedStep DEF Decided
<1>2. CASE TakeRequired(r)
  BY <1>0, <1>2, StartStep, OwnedIsReceipt DEF TakeRequired, Owned
<1>3. CASE UnknownRequired(r)
  <2>1. /\ pc' = [pc EXCEPT ![r] = "refused"] /\ answer' = answer /\ ran' = ran
        /\ receipt' = [receipt EXCEPT ![MessageOf[r]] = Failed(Row(r))]
    BY <1>3 DEF UnknownRequired, Refuse, Goes, Set
  <2>2. /\ Row(r).status # "absent" /\ MessageOf[r] \in doubtful /\ Row(r) \in Receipt
    BY <1>3, RowOfRequest DEF UnknownRequired, Stale, ReceiptAgrees
  <2>3. /\ Failed(Row(r)) \in Receipt /\ Failed(Row(r)).status = "failed"
        /\ ~Failed(Row(r)).leased /\ Failed(Row(r)).payload = Row(r).payload
    BY <2>2 DEF Failed, Receipt, Status
  <2>4. ReceiptsTypeOK'
    BY <1>0, <2>1, <2>3, RowOfRequest DEF ReceiptsInv, ReceiptsTypeOK, PC
  <2> QED BY <1>0, <2>1, <2>2, <2>3, <2>4, SettleStep
<1> QED BY <1>1, <1>2, <1>3 DEF BeginRequired

LEMMA CheckMemberInv ==
  ASSUME ReceiptsInv, NEW r \in Request, CheckMember(r)
  PROVE  ReceiptsInv'
<1> DEFINE m == MessageOf[r]
           primary == receipt[alias[m]]
<1>0. UNCHANGED <<receipt, alias, enabled, seen, ran, doubtful>> /\ ~Web(r)
  BY DEF CheckMember
<1>1. CASE Goes(r, "new", "checked") /\ UNCHANGED answer
  <2>1. pc' = [pc EXCEPT ![r] = "checked"]
    BY <1>1 DEF Goes
  <2>2. ReceiptsTypeOK'
    BY <1>0, <1>1, <2>1 DEF ReceiptsInv, ReceiptsTypeOK, PC, Optional
  <2> QED BY <1>0, <1>1, <2>1, <2>2, QuietStep DEF PC, Running, Optional
<1>2. CASE Refuse(r, "new")
  BY <1>0, <1>2, DecidedStep
<1>3. CASE Joined(r) /\ primary.status = "completed" /\ AnsweredBy(r, "new", primary.response)
  <2>1. /\ pc' = [pc EXCEPT ![r] = "answered"]
        /\ answer' = [answer EXCEPT ![r] = primary.response]
    BY <1>3 DEF AnsweredBy, Goes
  <2>2. alias[m] \in Message
    BY <1>3, RowOfRequest DEF Joined, ReceiptsInv, ReceiptsTypeOK
  <2>3. primary.response \in Request /\ MessageOf[primary.response] = alias[m]
    BY <1>3, <2>2 DEF ReceiptsInv, ReceiptsTypeOK, ReceiptAgrees
  <2>4. ReceiptsTypeOK'
    BY <1>0, <2>1, <2>3 DEF ReceiptsInv, ReceiptsTypeOK, PC
  <2>5. answer'[r] \in Request /\ Truthful(r, answer[r])'
    BY <1>0, <2>1, <2>3 DEF ReceiptsInv, ReceiptsTypeOK, Truthful
  <2>6. \A q \in Request : q # r => seen'[q] = seen[q] /\ answer'[q] = answer[q]
    BY <1>0, <2>1 DEF ReceiptsInv, ReceiptsTypeOK
  <2> QED BY <1>0, <2>1, <2>4, <2>5, <2>6, QuietStep DEF PC, Running, Optional
<1> QED BY <1>1, <1>2, <1>3 DEF CheckMember

LEMMA RegisterMembersInv ==
  ASSUME ReceiptsInv, NEW r \in Request, RegisterMembers(r)
  PROVE  ReceiptsInv'
<1>0. UNCHANGED <<receipt, enabled, seen, ran, doubtful>>
  BY DEF RegisterMembers
<1>1. CASE /\ Bindable(r)
           /\ Goes(r, "checked", "ready")
           /\ alias' = [m \in Message |-> IF m \in Aliases(r) THEN MessageOf[r] ELSE alias[m]]
           /\ UNCHANGED answer
  <2>1. pc' = [pc EXCEPT ![r] = "ready"] /\ ~Web(r)
    BY <1>1 DEF Goes, ReceiptsInv, CallAgrees, Optional
  <2>2. \A m \in Message : alias[m] # NoMessage => alias'[m] = alias[m]
    BY <1>1 DEF Bindable
  <2>3. ReceiptsTypeOK'
    BY <1>0, <1>1, <2>1, RowOfRequest DEF ReceiptsInv, ReceiptsTypeOK, PC, Optional
  <2> QED BY <1>0, <1>1, <2>1, <2>2, <2>3, QuietStep DEF PC, Running, Optional
<1>2. CASE Refuse(r, "checked") /\ UNCHANGED alias
  <2>1. pc' = [pc EXCEPT ![r] = "refused"] /\ answer' = answer
    BY <1>2 DEF Refuse, Goes
  <2>2. ReceiptsTypeOK'
    BY <1>0, <1>2, <2>1 DEF ReceiptsInv, ReceiptsTypeOK, PC
  <2> QED BY <1>0, <1>2, <2>1, <2>2, QuietStep DEF PC, Running, Optional
<1> QED BY <1>1, <1>2 DEF RegisterMembers

LEMMA WriteOptionalInv ==
  ASSUME ReceiptsInv, NEW r \in Request, WriteOptional(r)
  PROVE  ReceiptsInv'
<1>0. UNCHANGED <<alias, enabled, seen, doubtful>>
  BY DEF WriteOptional
<1>1. CASE Insert(r)
  BY <1>0, <1>1, StartStep, OwnedIsReceipt DEF Insert, Owned
<1>2. CASE InsertRefused(r)
  <2>1. pc' = [pc EXCEPT ![r] = "refused"] /\ answer' = answer /\ UNCHANGED <<receipt, ran>>
    BY <1>2 DEF InsertRefused, Refuse, Goes
  <2>2. ReceiptsTypeOK'
    BY <1>0, <2>1 DEF ReceiptsInv, ReceiptsTypeOK, PC
  <2> QED BY <1>0, <2>1, <2>2, QuietStep DEF PC, Running, Optional
<1>3. CASE TakeOver(r)
  <2>1. Starts(r, "looked", TakenOver(r)) /\ pc[r] = "looked" /\ seen[r] = "stale"
    BY <1>3 DEF TakeOver, Starts, Goes
  <2>2. MessageOf[r] \in doubtful /\ ~Web(r) /\ Row(r).payload = PayloadOf[r]
    BY <2>1, RowOfRequest DEF CallAgrees, Optional
  <2>3. /\ TakenOver(r) \in Receipt /\ TakenOver(r).status = "processing"
        /\ TakenOver(r).leased /\ TakenOver(r).payload = Row(r).payload
    <3>1. Row(r) \in Receipt
      BY RowOfRequest
    <3> QED BY <3>1 DEF TakenOver, Receipt, Status
  <2> QED BY <1>0, <2>1, <2>2, <2>3, StartStep
<1> QED BY <1>1, <1>2, <1>3 DEF WriteOptional

LEMMA LookInv ==
  ASSUME ReceiptsInv, NEW r \in Request, Look(r)
  PROVE  ReceiptsInv'
<1>0. UNCHANGED <<receipt, alias, enabled, ran, doubtful>>
  BY DEF Look
<1>1. CASE /\ Refuse(r, "ready") \/ (Replays(r) /\ AnsweredBy(r, "ready", Row(r).response))
           /\ UNCHANGED seen
  BY <1>0, <1>1, DecidedStep
<1>2. CASE /\ ~Conflicts(r) /\ Goes(r, "ready", "looked")
           /\ \/ Row(r).status = "absent" /\ seen' = [seen EXCEPT ![r] = "absent"]
              \/ Stale(r) /\ seen' = [seen EXCEPT ![r] = "stale"]
           /\ UNCHANGED answer
  <2>1. pc' = [pc EXCEPT ![r] = "looked"] /\ answer' = answer /\ ~Web(r)
    BY <1>2 DEF Goes, ReceiptsInv, CallAgrees, Optional
  <2>2. PICK found \in {"absent", "stale"} : seen' = [seen EXCEPT ![r] = found]
    BY <1>2
  <2>3. ReceiptsTypeOK'
    BY <1>0, <2>1, <2>2 DEF ReceiptsInv, ReceiptsTypeOK, PC, Optional
  <2>4. CASE found = "absent"
    BY <1>0, <2>1, <2>2, <2>3, <2>4, QuietStep
    DEF ReceiptsInv, ReceiptsTypeOK, PC, Running, Optional
  <2>5. CASE found = "stale"
    <3>1. Stale(r) /\ seen'[r] = "stale"
      BY <1>2, <2>2, <2>5 DEF ReceiptsInv, ReceiptsTypeOK
    <3>2. /\ Row(r).status # "absent" /\ Row(r).payload = PayloadOf[r]
          /\ MessageOf[r] \in doubtful
      BY <1>2, <3>1, RowOfRequest DEF Stale, Conflicts, ReceiptAgrees
    <3>3. \A q \in Request : CallAgrees(q)'
      <4> SUFFICES ASSUME NEW q \in Request PROVE CallAgrees(q)'
        OBVIOUS
      <4>1. CallAgrees(q) /\ Row(q)' = Row(q)
        BY <1>0 DEF ReceiptsInv, Row
      <4>2. CASE q = r
        BY <1>0, <2>1, <3>2, <4>1, <4>2
        DEF ReceiptsInv, ReceiptsTypeOK, CallAgrees, Web, Running, Optional
      <4>3. CASE q # r
        <5>1. pc'[q] = pc[q] /\ seen'[q] = seen[q]
          BY <2>1, <2>2, <4>3 DEF ReceiptsInv, ReceiptsTypeOK
        <5> QED BY <1>0, <4>1, <5>1 DEF CallAgrees, Web
      <4> QED BY <4>2, <4>3
    <3>4. \A m \in Message : ReceiptAgrees(m)'
      BY <1>0 DEF ReceiptsInv, ReceiptAgrees
    <3>5. WebRunsOnce' /\ RepeatNeedsCause' /\ ReplaysAreTruthful'
      BY <1>0, <2>1
      DEF ReceiptsInv, ReceiptsTypeOK, WebRunsOnce, RepeatNeedsCause, ReplaysAreTruthful, Web, Truthful
    <3> QED BY <2>3, <3>3, <3>4, <3>5 DEF ReceiptsInv
  <2> QED BY <2>4, <2>5
<1> QED BY <1>1, <1>2 DEF Look

(* The flag, a bare operation and a lost settlement touch no receipt.      *)
LEMMA BareInv ==
  ASSUME ReceiptsInv, NEW r \in Request, GoBare(r) \/ BareEnds(r) \/ SettleFails(r)
  PROVE  ReceiptsInv'
<1>0. UNCHANGED <<receipt, alias, enabled, seen, ran, doubtful>>
  BY DEF GoBare, BareEnds, SettleFails
<1>1. CASE GoBare(r)
  <2>1. pc' = [pc EXCEPT ![r] = "bare"] /\ answer' = answer /\ ~Web(r)
    BY <1>1 DEF GoBare, Goes, ReceiptsInv, CallAgrees, Optional
  <2>2. ReceiptsTypeOK'
    BY <1>0, <2>1 DEF ReceiptsInv, ReceiptsTypeOK, PC, Optional
  <2> QED BY <1>0, <2>1, <2>2, QuietStep DEF PC, Running, Optional
<1>2. CASE AnsweredBy(r, "bare", r)
  <2>1. pc' = [pc EXCEPT ![r] = "answered"] /\ answer' = [answer EXCEPT ![r] = r]
    BY <1>2 DEF AnsweredBy, Goes
  <2>2. ReceiptsTypeOK' /\ answer'[r] = r
    BY <1>0, <2>1 DEF ReceiptsInv, ReceiptsTypeOK, PC
  <2>3. \A q \in Request : q # r => seen'[q] = seen[q] /\ answer'[q] = answer[q]
    BY <1>0, <2>1 DEF ReceiptsInv, ReceiptsTypeOK
  <2> QED BY <1>0, <2>1, <2>2, <2>3, QuietStep DEF PC, Running, Optional, Truthful
<1>3. CASE Refuse(r, "bare") \/ Refuse(r, "settling") \/ Refuse(r, "failing")
  <2>1. pc' = [pc EXCEPT ![r] = "refused"] /\ answer' = answer
    BY <1>3 DEF Refuse, Goes
  <2>2. ReceiptsTypeOK'
    BY <1>0, <2>1 DEF ReceiptsInv, ReceiptsTypeOK, PC
  <2> QED BY <1>0, <2>1, <2>2, QuietStep DEF PC, Running, Optional
<1> QED BY <1>1, <1>2, <1>3 DEF BareEnds, SettleFails

LEMMA OperationEndsInv ==
  ASSUME ReceiptsInv, NEW r \in Request, OperationEnds(r)
  PROVE  ReceiptsInv'
<1>0. UNCHANGED <<receipt, alias, enabled, seen, answer, ran>> /\ pc[r] = "running"
  BY DEF OperationEnds, Goes
<1>1. PICK to \in {"settling", "failing"} :
        /\ pc' = [pc EXCEPT ![r] = to]
        /\ to = "failing" => MessageOf[r] \in doubtful'
  BY DEF OperationEnds, Goes
<1>2. doubtful \subseteq doubtful' /\ doubtful' \subseteq Message
  BY RowOfRequest DEF OperationEnds, ReceiptsInv, ReceiptsTypeOK
<1>3. ReceiptsTypeOK'
  BY <1>0, <1>1, <1>2 DEF ReceiptsInv, ReceiptsTypeOK, PC, Running
<1>4. \A q \in Request : CallAgrees(q)'
  <2> SUFFICES ASSUME NEW q \in Request PROVE CallAgrees(q)'
    OBVIOUS
  <2>1. CallAgrees(q) /\ Row(q)' = Row(q)
    BY <1>0 DEF ReceiptsInv, Row
  <2>2. (q # r => pc'[q] = pc[q]) /\ pc'[r] = to
    BY <1>1 DEF ReceiptsInv, ReceiptsTypeOK
  <2> QED BY <1>0, <1>1, <1>2, <2>1, <2>2 DEF CallAgrees, Web, Running, Optional
<1>5. \A m \in Message : ReceiptAgrees(m)'
  BY <1>0, <1>2 DEF ReceiptsInv, ReceiptAgrees
<1>6. WebRunsOnce' /\ RepeatNeedsCause' /\ ReplaysAreTruthful'
  BY <1>0, <1>1, <1>2
  DEF ReceiptsInv, ReceiptsTypeOK, WebRunsOnce, RepeatNeedsCause, ReplaysAreTruthful, Web, Truthful
<1> QED BY <1>3, <1>4, <1>5, <1>6 DEF ReceiptsInv

(* Settling is not fenced by the lease; that the row still holds the       *)
(* payload of the settling request comes from CallAgrees.                  *)
LEMMA SettleInv ==
  ASSUME ReceiptsInv, NEW r \in Request, CompleteReceipt(r) \/ FailReceipt(r)
  PROVE  ReceiptsInv'
<1>0. UNCHANGED <<alias, enabled, seen, ran, doubtful>>
  BY DEF CompleteReceipt, FailReceipt
<1>1. /\ Row(r) \in Receipt /\ Row(r).status # "absent" /\ Row(r).payload = PayloadOf[r]
      /\ pc[r] = "failing" => MessageOf[r] \in doubtful
  BY RowOfRequest DEF CompleteReceipt, FailReceipt, AnsweredBy, Refuse, Goes, CallAgrees, Running
<1>2. CASE CompleteReceipt(r)
  <2>1. /\ pc' = [pc EXCEPT ![r] = "answered"] /\ answer' = [answer EXCEPT ![r] = r]
        /\ receipt' = [receipt EXCEPT ![MessageOf[r]] = Completed(r)]
    BY <1>2 DEF CompleteReceipt, AnsweredBy, Goes, Set
  <2>2. /\ Completed(r) \in Receipt /\ Completed(r).status = "completed"
        /\ Completed(r).response = r /\ ~Completed(r).leased
        /\ Completed(r).payload = Row(r).payload
    BY <1>1 DEF Completed, Receipt, Status
  <2>3. ReceiptsTypeOK'
    BY <1>0, <2>1, <2>2, RowOfRequest DEF ReceiptsInv, ReceiptsTypeOK, PC
  <2> QED BY <1>0, <1>1, <2>1, <2>2, <2>3, SettleStep
<1>3. CASE FailReceipt(r)
  <2>1. /\ pc' = [pc EXCEPT ![r] = "refused"] /\ answer' = answer /\ pc[r] = "failing"
        /\ receipt' = [receipt EXCEPT ![MessageOf[r]] = Failed(Row(r))]
    BY <1>3 DEF FailReceipt, Refuse, Goes, Set
  <2>2. /\ Failed(Row(r)) \in Receipt /\ Failed(Row(r)).status = "failed"
        /\ ~Failed(Row(r)).leased /\ Failed(Row(r)).payload = Row(r).payload
    BY <1>1 DEF Failed, Receipt, Status
  <2>3. ReceiptsTypeOK'
    BY <1>0, <2>1, <2>2, RowOfRequest DEF ReceiptsInv, ReceiptsTypeOK, PC
  <2> QED BY <1>0, <1>1, <2>1, <2>2, <2>3, SettleStep
<1> QED BY <1>2, <1>3

LEMMA ExpireInv ==
  ASSUME ReceiptsInv, NEW m \in Message, Expire(m)
  PROVE  ReceiptsInv'
<1> DEFINE t == [receipt[m] EXCEPT !.leased = FALSE]
<1>0. /\ UNCHANGED <<alias, enabled, pc, seen, answer, ran>>
      /\ receipt' = [receipt EXCEPT ![m] = t]
      /\ doubtful' = doubtful \cup {m} /\ receipt[m] \in Receipt
  BY DEF Expire, Set, ReceiptsInv, ReceiptsTypeOK
<1>1. /\ t \in Receipt /\ ~t.leased /\ t.status = "processing"
      /\ t.payload = receipt[m].payload /\ receipt[m].status = "processing"
  BY <1>0 DEF Expire, Receipt, Status
<1>2. ReceiptsTypeOK'
  BY <1>0, <1>1 DEF ReceiptsInv, ReceiptsTypeOK
<1>3. \A q \in Request : CallAgrees(q)'
  <2> SUFFICES ASSUME NEW q \in Request PROVE CallAgrees(q)'
    OBVIOUS
  <2>1. CallAgrees(q) /\ MessageOf[q] \in Message
    BY RowOfRequest DEF ReceiptsInv
  <2>2. /\ Row(q).status # "absent" => Row(q)'.status # "absent"
        /\ Row(q)'.payload = Row(q).payload
    BY <1>0, <1>1, <2>1 DEF ReceiptsInv, ReceiptsTypeOK, Row
  <2> QED BY <1>0, <2>1, <2>2 DEF CallAgrees, Web
<1>4. \A n \in Message : ReceiptAgrees(n)'
  BY <1>0, <1>1 DEF ReceiptsInv, ReceiptsTypeOK, ReceiptAgrees
<1>5. WebRunsOnce' /\ RepeatNeedsCause' /\ ReplaysAreTruthful'
  BY <1>0 DEF ReceiptsInv, WebRunsOnce, RepeatNeedsCause, ReplaysAreTruthful, Web, Truthful
<1> QED BY <1>2, <1>3, <1>4, <1>5 DEF ReceiptsInv

LEMMA RestartInv ==
  ASSUME ReceiptsInv, Restart
  PROVE  ReceiptsInv'
<1>0. /\ UNCHANGED <<receipt, alias, enabled, seen, answer, ran, doubtful>>
      /\ pc' = [r \in Request |-> IF r \in InFlight THEN "lost" ELSE pc[r]]
  BY DEF Restart
<1>1. ReceiptsTypeOK'
  BY <1>0 DEF ReceiptsInv, ReceiptsTypeOK, PC
<1>2. \A q \in Request : CallAgrees(q)'
  BY <1>0 DEF ReceiptsInv, CallAgrees, Row, Web, Running, Optional
<1>3. \A m \in Message : ReceiptAgrees(m)'
  BY <1>0 DEF ReceiptsInv, ReceiptAgrees
<1>4. WebRunsOnce' /\ RepeatNeedsCause' /\ ReplaysAreTruthful'
  BY <1>0 DEF ReceiptsInv, WebRunsOnce, RepeatNeedsCause, ReplaysAreTruthful, Web, Truthful
<1> QED BY <1>1, <1>2, <1>3, <1>4 DEF ReceiptsInv

LEMMA SwitchInv ==
  ASSUME ReceiptsInv, SwitchReliability \/ UNCHANGED receiptVars
  PROVE  ReceiptsInv'
<1>0. UNCHANGED <<receipt, alias, pc, seen, answer, ran, doubtful>> /\ enabled' \in BOOLEAN
  BY DEF SwitchReliability, receiptVars, ReceiptsInv, ReceiptsTypeOK
<1>1. ReceiptsTypeOK'
  BY <1>0 DEF ReceiptsInv, ReceiptsTypeOK
<1>2. \A q \in Request : CallAgrees(q)'
  BY <1>0 DEF ReceiptsInv, CallAgrees, Row, Web
<1>3. \A m \in Message : ReceiptAgrees(m)'
  BY <1>0 DEF ReceiptsInv, ReceiptAgrees
<1>4. WebRunsOnce' /\ RepeatNeedsCause' /\ ReplaysAreTruthful'
  BY <1>0 DEF ReceiptsInv, WebRunsOnce, RepeatNeedsCause, ReplaysAreTruthful, Web, Truthful
<1> QED BY <1>1, <1>2, <1>3, <1>4 DEF ReceiptsInv

LEMMA ReceiptsNextInv ==
  ASSUME ReceiptsInv, [ReceiptsNext]_receiptVars
  PROVE  ReceiptsInv'
<1>1. ASSUME NEW r \in Request, Dispatch(r)
      PROVE  ReceiptsInv'
  BY <1>1, BeginRequiredInv, CheckMemberInv, RegisterMembersInv, LookInv, WriteOptionalInv, BareInv,
     OperationEndsInv, SettleInv
  DEF Dispatch
<1>2. ASSUME NEW m \in Message, Expire(m)
      PROVE  ReceiptsInv'
  BY <1>2, ExpireInv
<1> QED BY <1>1, <1>2, RestartInv, SwitchInv DEF ReceiptsNext

-----------------------------------------------------------------------------
(* The inductive invariant holds in every reachable state.                 *)
LEMMA ReceiptsAgree == ReceiptsSpec => []ReceiptsInv
BY ReceiptsInitInv, ReceiptsNextInv, PTL DEF ReceiptsSpec

(***************************************************************************)
(* The operation of a Web message runs at most once: execute_once with     *)
(* require_receipt, for any number of retries, restarts and expiries.      *)
(***************************************************************************)
THEOREM WebOperationRunsOnce == ReceiptsSpec => []WebRunsOnce
<1>1. ReceiptsInv => WebRunsOnce
  BY DEF ReceiptsInv
<1> QED BY <1>1, ReceiptsAgree, PTL

(***************************************************************************)
(* A QQ operation is repeated only after a failed run or an expired lease: *)
(* what the primary key guarantees of a read-then-write execute_once.      *)
(***************************************************************************)
THEOREM RepeatsHaveACause == ReceiptsSpec => []RepeatNeedsCause
<1>1. ReceiptsInv => RepeatNeedsCause
  BY DEF ReceiptsInv
<1> QED BY <1>1, ReceiptsAgree, PTL

(***************************************************************************)
(* Replays, through a receipt or through a joined turn, are truthful       *)
(* although settling is not fenced and a receipt may be taken over.        *)
(***************************************************************************)
THEOREM AnswersAreTruthful == ReceiptsSpec => []ReplaysAreTruthful
<1>1. ReceiptsInv => ReplaysAreTruthful
  BY DEF ReceiptsInv
<1> QED BY <1>1, ReceiptsAgree, PTL

-----------------------------------------------------------------------------
(* What the callers of Web messages see of a step: nothing, or one move of *)
(* OperationPromise.                                                       *)

Becomes(m, o) ==
  \A n \in WebMessage : Outcome(receipt'[n]) = IF n = m THEN o ELSE Outcome(receipt[n])

Unseen ==
  /\ \A m \in WebMessage : Outcome(receipt'[m]) = Outcome(receipt[m])
  /\ \A r \in WebRequest : (r \in ran' <=> r \in ran) /\ answer'[r] = answer[r]

StartsOne(r) ==
  /\ Outcome(Row(r)) = "none" /\ Becomes(MessageOf[r], "pending")
  /\ ran' = ran \cup {r} /\ answer' = answer

DoubtsOne(m) ==
  /\ Outcome(receipt[m]) = "pending" /\ Becomes(m, "unknown")
  /\ ran' = ran /\ answer' = answer

FinishesOne(r) ==
  /\ r \in ran /\ answer[r] = Nobody
  /\ Outcome(Row(r)) \in {"pending", "unknown"} /\ Becomes(MessageOf[r], "finished")
  /\ ran' = ran /\ answer' = [answer EXCEPT ![r] = r]

ReplaysOne(r) ==
  /\ answer[r] = Nobody /\ Outcome(Row(r)) = "finished"
  /\ PayloadOf[r] = Row(r).payload
  /\ UNCHANGED <<receipt, ran>> /\ answer' = [answer EXCEPT ![r] = Row(r).response]

Visible ==
  \/ Unseen
  \/ \E r \in WebRequest : StartsOne(r) \/ FinishesOne(r) \/ ReplaysOne(r)
  \/ \E m \in WebMessage : DoubtsOne(m)

LEMMA OnceInit == ReceiptsInit => OnceInv
BY RequestAssumption DEF ReceiptsInit, OnceInv, NoReceipt, WebRequest, Web, Running, Row

(* The requests of Web messages are those that find a receipt of the Web.  *)
LEMMA WebRows ==
  ASSUME NEW r \in Request
  PROVE  /\ MessageOf[r] \in Message
         /\ Web(r) <=> r \in WebRequest
         /\ Web(r) <=> MessageOf[r] \in WebMessage
         /\ Row(r) = receipt[MessageOf[r]] /\ Row(r)' = receipt'[MessageOf[r]]
         /\ WebMessage \subseteq Message /\ WebRequest \subseteq Request
BY RequestAssumption DEF Web, WebRequest, Row

(* A step of a QQ request touches no receipt, run or answer of the Web.    *)
LEMMA ForeignStep ==
  ASSUME ReceiptsInv, OnceInv, NEW r \in Request, ~Web(r), pc[r] # "answered",
         NEW to, pc' = [pc EXCEPT ![r] = to],
         NEW s, answer' = [answer EXCEPT ![r] = s], s # Nobody => to = "answered",
         NEW t, receipt' = [receipt EXCEPT ![MessageOf[r]] = t],
         ran' \in {ran, ran \cup {r}}
  PROVE  OnceInv' /\ Unseen
<1>1. \A q \in WebRequest : q # r /\ MessageOf[q] # MessageOf[r] /\ MessageOf[q] \in WebMessage
  BY WebRows
<1>2. \A m \in WebMessage : m # MessageOf[r] /\ receipt'[m] = receipt[m]
  BY WebRows DEF ReceiptsInv, ReceiptsTypeOK
<1>3. \A q \in Request : q # r => pc'[q] = pc[q] /\ answer'[q] = answer[q]
  BY DEF ReceiptsInv, ReceiptsTypeOK
<1>4. pc'[r] = to /\ answer'[r] = s
  BY DEF ReceiptsInv, ReceiptsTypeOK
<1>5. \A q \in WebRequest : Row(q)' = Row(q)
  BY <1>1, <1>2, WebRows
<1>6. Unseen
  BY <1>1, <1>2, <1>3, WebRows DEF Unseen
<1>7. OnceInv'
  BY <1>1, <1>2, <1>3, <1>4, <1>5, WebRows DEF OnceInv, WebRequest, Web
<1> QED BY <1>6, <1>7

(* A request that goes on without touching anything but its own place.     *)
LEMMA OnwardStep ==
  ASSUME ReceiptsInv, OnceInv, NEW r \in Request, pc[r] # "answered",
         NEW to, to # "answered", to \in Running => pc[r] \in Running,
         pc' = [pc EXCEPT ![r] = to], UNCHANGED <<receipt, answer, ran>>
  PROVE  OnceInv' /\ Unseen
<1>1. \A q \in Request : q # r => pc'[q] = pc[q]
  BY DEF ReceiptsInv, ReceiptsTypeOK
<1>2. pc'[r] = to
  BY DEF ReceiptsInv, ReceiptsTypeOK
<1>3. \A q \in Request : Row(q)' = Row(q)
  BY DEF Row
<1> QED BY <1>1, <1>2, <1>3, WebRows DEF OnceInv, Unseen, WebRequest, Web

(* A request that gives its message up, or is told that it was given up.   *)
LEMMA FailsStep ==
  ASSUME ReceiptsInv, OnceInv, NEW r \in WebRequest, pc[r] # "answered",
         Row(r).status \in {"processing", "failed"},
         pc' = [pc EXCEPT ![r] = "refused"], UNCHANGED <<answer, ran>>,
         receipt' = [receipt EXCEPT ![MessageOf[r]] = Failed(Row(r))]
  PROVE  OnceInv' /\ (Unseen \/ DoubtsOne(MessageOf[r]))
<1> DEFINE m == MessageOf[r]
<1>1. /\ r \in Request /\ m \in WebMessage /\ m \in Message
      /\ receipt[m] = Row(r) /\ Row(r) \in Receipt
  BY WebRows, RowOfRequest DEF WebRequest
<1>2. /\ receipt'[m].status = "failed"
      /\ \A n \in WebMessage : n # m => receipt'[n] = receipt[n]
  BY <1>1, WebRows DEF ReceiptsInv, ReceiptsTypeOK, Failed, Receipt
<1>3. \A q \in Request : q # r => pc'[q] = pc[q]
  BY DEF ReceiptsInv, ReceiptsTypeOK
<1>4. pc'[r] = "refused"
  BY <1>1 DEF ReceiptsInv, ReceiptsTypeOK
<1>5. \A q \in WebRequest :
        /\ MessageOf[q] # m => Row(q)' = Row(q)
        /\ MessageOf[q] = m => Row(q).status # "completed" /\ Row(q)'.status = "failed"
  BY <1>1, <1>2, WebRows
<1>6. OnceInv'
  BY <1>1, <1>2, <1>3, <1>4, <1>5, WebRows DEF OnceInv, WebRequest, Web, Running
<1>7. Outcome(receipt'[m]) = "unknown"
  BY <1>2 DEF Outcome
<1>8. Outcome(receipt[m]) \in {"pending", "unknown"}
  BY <1>1 DEF Outcome
<1>9. CASE Outcome(receipt[m]) = "pending"
  BY <1>2, <1>6, <1>7, <1>9 DEF DoubtsOne, Becomes
<1>10. CASE Outcome(receipt[m]) = "unknown"
  BY <1>1, <1>2, <1>6, <1>7, <1>10 DEF Unseen
<1> QED BY <1>1, <1>8, <1>9, <1>10

LEMMA BeginRequiredShows ==
  ASSUME ReceiptsInv, OnceInv, NEW r \in Request, BeginRequired(r)
  PROVE  OnceInv' /\ Visible
<1> DEFINE m == MessageOf[r]
<1>0. /\ Web(r) /\ r \in WebRequest /\ m \in WebMessage /\ m \in Message /\ pc[r] = "new"
      /\ receipt[m] = Row(r) /\ Row(r) \in Receipt /\ answer[r] = Nobody
  BY WebRows, RowOfRequest
  DEF BeginRequired, Decided, TakeRequired, UnknownRequired, Starts, Refuse, AnsweredBy, Goes,
      OnceInv
<1>1. CASE Refuse(r, "new") /\ UNCHANGED <<receipt, ran>>
  BY <1>0, <1>1, OnwardStep DEF Refuse, Goes, Running, Visible
<1>2. CASE Replays(r) /\ AnsweredBy(r, "new", Row(r).response) /\ UNCHANGED <<receipt, ran>>
  <2>1. pc' = [pc EXCEPT ![r] = "answered"] /\ answer' = [answer EXCEPT ![r] = Row(r).response]
    BY <1>2 DEF AnsweredBy, Goes
  <2>2. ReplaysOne(r)
    BY <1>0, <1>2, <2>1 DEF ReplaysOne, Replays, Conflicts, Outcome
  <2>3. /\ pc'[r] = "answered" /\ answer'[r] = Row(r).response
        /\ \A q \in Request : q # r => pc'[q] = pc[q] /\ answer'[q] = answer[q]
    BY <2>1 DEF ReceiptsInv, ReceiptsTypeOK
  <2>4. \A q \in Request : Row(q)' = Row(q)
    BY <1>2 DEF Row
  <2>5. OnceInv'
    BY <1>0, <1>2, <2>3, <2>4, WebRows DEF OnceInv, Replays, WebRequest, Web, Running
  <2> QED BY <1>0, <2>2, <2>5 DEF Visible
<1>3. CASE TakeRequired(r)
  <2>1. /\ pc' = [pc EXCEPT ![r] = "running"] /\ receipt' = [receipt EXCEPT ![m] = Owned(r)]
        /\ ran' = ran \cup {r} /\ answer' = answer /\ Row(r).status = "absent"
    BY <1>3 DEF TakeRequired, Starts, Goes, Set
  <2>2. /\ receipt'[m] = Owned(r)
        /\ \A n \in WebMessage : n # m => receipt'[n] = receipt[n]
    BY <1>0, <2>1, WebRows DEF ReceiptsInv, ReceiptsTypeOK
  <2>3. Outcome(Row(r)) = "none" /\ Outcome(Owned(r)) = "pending"
    BY <2>1 DEF Outcome, Owned
  <2>4. StartsOne(r)
    BY <1>0, <2>1, <2>2, <2>3 DEF StartsOne, Becomes
  <2>5. /\ pc'[r] = "running"
        /\ \A q \in Request : q # r => pc'[q] = pc[q]
    BY <2>1 DEF ReceiptsInv, ReceiptsTypeOK
  <2>6. \A q \in WebRequest :
          /\ MessageOf[q] # m => Row(q)' = Row(q)
          /\ MessageOf[q] = m => Row(q).status = "absent" /\ Row(q)'.status = "processing"
    BY <1>0, <2>1, <2>2, WebRows DEF Owned
  <2>7. OnceInv'
    BY <1>0, <2>1, <2>2, <2>5, <2>6, WebRows DEF OnceInv, Owned, WebRequest, Web
  <2> QED BY <1>0, <2>4, <2>7 DEF Visible
<1>4. CASE UnknownRequired(r)
  <2>1. /\ pc' = [pc EXCEPT ![r] = "refused"] /\ UNCHANGED <<answer, ran>>
        /\ receipt' = [receipt EXCEPT ![m] = Failed(Row(r))]
        /\ Row(r).status \in {"processing", "failed"}
    BY <1>4 DEF UnknownRequired, Refuse, Goes, Set, Stale
  <2> QED BY <1>0, <2>1, FailsStep DEF Visible
<1> QED BY <1>1, <1>2, <1>3, <1>4 DEF BeginRequired, Decided

LEMMA CompleteReceiptShows ==
  ASSUME ReceiptsInv, OnceInv, NEW r \in WebRequest, CompleteReceipt(r)
  PROVE  OnceInv' /\ FinishesOne(r)
<1> DEFINE m == MessageOf[r]
<1>1. /\ pc[r] = "settling" /\ pc' = [pc EXCEPT ![r] = "answered"]
      /\ answer' = [answer EXCEPT ![r] = r] /\ ran' = ran
      /\ receipt' = [receipt EXCEPT ![m] = Completed(r)]
  BY DEF CompleteReceipt, AnsweredBy, Goes, Set
<1>2. /\ r \in Request /\ m \in WebMessage /\ m \in Message
      /\ receipt[m] = Row(r) /\ Row(r) \in Receipt
  BY WebRows, RowOfRequest DEF WebRequest
<1>3. r \in ran /\ Row(r).status \in {"processing", "failed"} /\ answer[r] = Nobody
  BY <1>1, <1>2, RowOfRequest DEF CallAgrees, OnceInv, Running, Receipt, Status
<1>4. /\ receipt'[m].status = "completed" /\ receipt'[m].response = r
      /\ \A n \in WebMessage : n # m => receipt'[n] = receipt[n]
  BY <1>1, <1>2, WebRows DEF ReceiptsInv, ReceiptsTypeOK, Completed, Receipt
<1>5. /\ pc'[r] = "answered" /\ answer'[r] = r
      /\ \A q \in Request : q # r => pc'[q] = pc[q] /\ answer'[q] = answer[q]
  BY <1>1, <1>2 DEF ReceiptsInv, ReceiptsTypeOK
<1>6. FinishesOne(r)
  <2>1. Outcome(Row(r)) \in {"pending", "unknown"}
    BY <1>3 DEF Outcome
  <2>2. Outcome(receipt'[m]) = "finished"
    BY <1>4 DEF Outcome
  <2> QED BY <1>1, <1>3, <1>4, <2>1, <2>2 DEF FinishesOne, Becomes
<1>7. ASSUME NEW q \in WebRequest, q # r, MessageOf[q] = m
      PROVE  pc[q] # "answered" /\ pc[q] \notin Running
  <2>1. Row(q) = Row(r) /\ q \in Request
    BY <1>2, <1>7, WebRows
  <2>2. pc[q] # "answered"
    BY <1>3, <2>1 DEF OnceInv
  <2>3. pc[q] \in Running => q \in ran
    BY <2>1, RowOfRequest DEF CallAgrees
  <2>4. WebRunsOnce /\ Web(r)
    BY DEF ReceiptsInv, WebRequest
  <2> QED BY <1>3, <1>7, <2>2, <2>3, <2>4 DEF WebRunsOnce
<1>8. \A q \in WebRequest : MessageOf[q] # m => Row(q)' = Row(q)
  BY <1>4, WebRows DEF WebRequest
<1>9. Row(r)' = receipt'[m]
  BY <1>2, WebRows
<1>10. \A q \in WebRequest :
         /\ pc'[q] = "answered" => Row(q)'.status = "completed" /\ answer'[q] = Row(q)'.response
         /\ pc'[q] \in Running => Row(q)'.status # "completed"
  BY <1>2, <1>4, <1>5, <1>7, <1>8, <1>9, WebRows DEF OnceInv, Running
<1>11. OnceInv'
  BY <1>1, <1>3, <1>4, <1>5, <1>10, <1>2 DEF OnceInv, WebRequest, Web
<1> QED BY <1>6, <1>11

LEMMA DispatchShows ==
  ASSUME ReceiptsInv, OnceInv, NEW r \in Request, Dispatch(r)
  PROVE  OnceInv' /\ Visible
<1>0. /\ pc \in [Request -> PC] /\ answer \in [Request -> Request \cup {Nobody}]
      /\ receipt \in [Message -> Receipt] /\ MessageOf[r] \in Message
  BY RowOfRequest DEF ReceiptsInv, ReceiptsTypeOK
<1>1. CASE BeginRequired(r)
  BY <1>1, BeginRequiredShows
<1>2. CASE ~Web(r)
  <2>0. pc[r] # "answered" /\ ran' \in {ran, ran \cup {r}}
    BY <1>2
    DEF Dispatch, BeginRequired, CheckMember, RegisterMembers, Look, WriteOptional, Insert,
        InsertRefused, TakeOver, Starts, GoBare, BareEnds, OperationEnds, CompleteReceipt,
        FailReceipt, SettleFails, Refuse, AnsweredBy, Goes
  <2>1. answer[r] = Nobody /\ answer = [answer EXCEPT ![r] = Nobody]
    BY <1>0, <2>0 DEF OnceInv
  <2>2. \E to, s : /\ pc' = [pc EXCEPT ![r] = to] /\ answer' = [answer EXCEPT ![r] = s]
                   /\ s # Nobody => to = "answered"
    <3>1. \/ \E to : Goes(r, pc[r], to) /\ UNCHANGED answer
          \/ \E s : AnsweredBy(r, pc[r], s)
      BY <1>2
      DEF Dispatch, BeginRequired, CheckMember, RegisterMembers, Look, WriteOptional, Insert,
          InsertRefused, TakeOver, Starts, GoBare, BareEnds, OperationEnds, CompleteReceipt,
          FailReceipt, SettleFails, Refuse, AnsweredBy, Goes
    <3> QED BY <2>1, <3>1 DEF AnsweredBy, Goes
  <2>3. \E t : receipt' = [receipt EXCEPT ![MessageOf[r]] = t]
    <3>1. receipt = [receipt EXCEPT ![MessageOf[r]] = Row(r)]
      BY <1>0, WebRows
    <3> QED BY <1>2, <3>1
      DEF Dispatch, BeginRequired, CheckMember, RegisterMembers, Look, WriteOptional, Insert,
          InsertRefused, TakeOver, Starts, GoBare, BareEnds, OperationEnds, CompleteReceipt,
          FailReceipt, SettleFails, Set
  <2> QED BY <1>2, <2>0, <2>2, <2>3, ForeignStep DEF Visible
<1>3. CASE Web(r) /\ ~BeginRequired(r)
  <2>0. r \in WebRequest /\ pc[r] \notin Optional
    BY <1>3, WebRows, RowOfRequest DEF CallAgrees
  <2>1. OperationEnds(r) \/ CompleteReceipt(r) \/ FailReceipt(r) \/ SettleFails(r)
    BY <1>3, <2>0
    DEF Dispatch, CheckMember, RegisterMembers, Look, WriteOptional, Insert, InsertRefused,
        TakeOver, Starts, GoBare, BareEnds, Refuse, AnsweredBy, Goes, Optional
  <2>2. CASE CompleteReceipt(r)
    BY <2>0, <2>2, CompleteReceiptShows DEF Visible
  <2>3. CASE FailReceipt(r)
    <3>1. /\ pc[r] = "failing" /\ pc' = [pc EXCEPT ![r] = "refused"]
          /\ UNCHANGED <<answer, ran>>
          /\ receipt' = [receipt EXCEPT ![MessageOf[r]] = Failed(Row(r))]
      BY <2>3 DEF FailReceipt, Refuse, Goes, Set
    <3>2. Row(r).status \in {"processing", "failed"}
      BY <2>0, <3>1, RowOfRequest DEF CallAgrees, OnceInv, Running, Receipt, Status
    <3> QED BY <2>0, <3>1, <3>2, FailsStep, WebRows DEF Visible
  <2>4. CASE OperationEnds(r) \/ SettleFails(r)
    <3>1. PICK to \in {"settling", "failing", "refused"} : pc' = [pc EXCEPT ![r] = to]
      BY <2>4 DEF OperationEnds, SettleFails, Refuse, Goes
    <3>2. pc[r] \in Running /\ UNCHANGED <<receipt, answer, ran>>
      BY <2>4 DEF OperationEnds, SettleFails, Refuse, Goes, Running
    <3> QED BY <3>1, <3>2, OnwardStep DEF Running, Visible
  <2> QED BY <2>1, <2>2, <2>3, <2>4
<1> QED BY <1>1, <1>2, <1>3

LEMMA ExpireShows ==
  ASSUME ReceiptsInv, OnceInv, NEW m \in Message, Expire(m)
  PROVE  OnceInv' /\ Visible
<1> DEFINE t == [receipt[m] EXCEPT !.leased = FALSE]
<1>1. /\ receipt' = [receipt EXCEPT ![m] = t] /\ UNCHANGED <<pc, answer, ran>>
      /\ receipt[m].status = "processing" /\ receipt[m].leased /\ receipt[m] \in Receipt
  BY DEF Expire, Set, ReceiptsInv, ReceiptsTypeOK
<1>2. /\ t.status = "processing" /\ ~t.leased
      /\ receipt'[m] = t /\ \A n \in Message : n # m => receipt'[n] = receipt[n]
  BY <1>1 DEF ReceiptsInv, ReceiptsTypeOK, Receipt
<1> HIDE DEF t
<1>3. \A q \in Request :
        /\ MessageOf[q] # m => Row(q)' = Row(q)
        /\ MessageOf[q] = m => Row(q).status = "processing" /\ Row(q)'.status = "processing"
  BY <1>1, <1>2, WebRows
<1>4. OnceInv'
  BY <1>1, <1>2, <1>3, WebRows DEF OnceInv, WebRequest, Web
<1>5. Outcome(receipt[m]) = "pending" /\ Outcome(t) = "unknown"
  BY <1>1, <1>2 DEF Outcome
<1>6. CASE m \in WebMessage
  <2>1. DoubtsOne(m)
    BY <1>1, <1>2, <1>5, RequestAssumption DEF DoubtsOne, Becomes
  <2> QED BY <1>4, <1>6, <2>1 DEF Visible
<1>7. CASE m \notin WebMessage
  BY <1>1, <1>2, <1>4, <1>7, RequestAssumption DEF Unseen, Visible
<1> QED BY <1>6, <1>7

LEMMA OthersShow ==
  ASSUME ReceiptsInv, OnceInv, Restart \/ SwitchReliability \/ UNCHANGED receiptVars
  PROVE  OnceInv' /\ Visible
<1>1. /\ UNCHANGED <<receipt, answer, ran>>
      /\ \A r \in Request : pc'[r] = pc[r] \/ (pc'[r] = "lost" /\ pc[r] # "answered")
  BY DEF Restart, InFlight, SwitchReliability, receiptVars, Running, Optional
<1>2. \A r \in Request : Row(r)' = Row(r)
  BY <1>1 DEF Row
<1> QED BY <1>1, <1>2, WebRows DEF OnceInv, Unseen, Visible, WebRequest, Web, Running

LEMMA OnceNext ==
  ASSUME ReceiptsInv, OnceInv, [ReceiptsNext]_receiptVars
  PROVE  OnceInv' /\ Visible
BY DispatchShows, ExpireShows, OthersShow DEF ReceiptsNext

-----------------------------------------------------------------------------
(* The receipts of Web messages keep the promise of OperationPromise.      *)

LEMMA RunnerIs ==
  ASSUME ReceiptsInv
  PROVE  /\ \A r \in WebRequest : r \in ran => Runner(MessageOf[r]) = r
         /\ \A m : (\A r \in ran : MessageOf[r] # m) => Runner(m) = Nobody
<1>1. ASSUME NEW r \in WebRequest, r \in ran
      PROVE  Runner(MessageOf[r]) = r
  <2>1. \A s \in ran : MessageOf[s] = MessageOf[r] => s = r
    BY <1>1 DEF ReceiptsInv, WebRunsOnce, WebRequest
  <2> QED BY <1>1, <2>1 DEF Runner
<1> QED BY <1>1 DEF Runner

LEMMA RunnerIsNext ==
  ASSUME ReceiptsInv'
  PROVE  /\ \A r \in WebRequest : r \in ran' => Runner(MessageOf[r])' = r
         /\ \A m : (\A r \in ran' : MessageOf[r] # m) => Runner(m)' = Nobody
<1>1. ASSUME NEW r \in WebRequest, r \in ran'
      PROVE  Runner(MessageOf[r])' = r
  <2>1. \A s \in ran' : MessageOf[s] = MessageOf[r] => s = r
    BY <1>1 DEF ReceiptsInv, WebRunsOnce, WebRequest, Web
  <2> QED BY <1>1, <2>1 DEF Runner
<1> QED BY <1>1 DEF Runner

(* A message keeps its runner as long as no request of its own starts.     *)
LEMMA RunnerStays ==
  ASSUME ReceiptsInv, ReceiptsInv', NEW m \in WebMessage,
         \A r \in WebRequest : MessageOf[r] = m => (r \in ran' <=> r \in ran)
  PROVE  Runner(m)' = Runner(m)
<1>1. ran \subseteq Request /\ ran' \subseteq Request
  BY DEF ReceiptsInv, ReceiptsTypeOK
<1>2. CASE \E r \in ran : MessageOf[r] = m
  <2>1. PICK r \in ran : MessageOf[r] = m
    BY <1>2
  <2>2. r \in WebRequest /\ r \in ran'
    BY <1>1, <2>1, WebRows
  <2> QED BY <2>1, <2>2, RunnerIs, RunnerIsNext
<1>3. CASE \A r \in ran : MessageOf[r] # m
  <2>1. \A r \in ran' : MessageOf[r] # m
    BY <1>1, <1>3, WebRows
  <2> QED BY <1>3, <2>1, RunnerIs, RunnerIsNext
<1> QED BY <1>2, <1>3

LEMMA StepKeepsOperationPromise ==
  ASSUME ReceiptsInv, ReceiptsInv', OnceInv, [ReceiptsNext]_receiptVars
  PROVE  [Promise!PromiseNext]_(Promise!promiseVars)
<1> DEFINE R == [m \in WebMessage |-> Runner(m)]
           S == [m \in WebMessage |-> Outcome(receipt[m])]
           A == [r \in WebRequest |-> answer[r]]
<1>0. /\ answer \in [Request -> Request \cup {Nobody}] /\ ran \subseteq Request
      /\ \A r \in WebRequest :
           /\ r \in Request /\ MessageOf[r] \in WebMessage /\ MessageOf[r] \in Message
           /\ Row(r) = receipt[MessageOf[r]]
  BY WebRows DEF ReceiptsInv, ReceiptsTypeOK, WebRequest
<1>1. /\ R' = [m \in WebMessage |-> Runner(m)']
      /\ S' = [m \in WebMessage |-> Outcome(receipt'[m])]
      /\ A' = [r \in WebRequest |-> answer'[r]]
  OBVIOUS
<1>2. CASE Unseen
  <2>1. R' = R
    BY <1>1, <1>2, RunnerStays DEF Unseen
  <2>2. S' = S /\ A' = A
    BY <1>1, <1>2 DEF Unseen
  <2> QED BY <2>1, <2>2 DEF Promise!promiseVars
<1>3. ASSUME NEW r \in WebRequest, StartsOne(r)
      PROVE  Promise!Run(r)
  <2> DEFINE m == MessageOf[r]
  <2>1. m \in WebMessage /\ Outcome(receipt[m]) = "none"
    BY <1>0, <1>3 DEF StartsOne
  <2>2. R[m] = Nobody
    <3>1. receipt[m].status = "absent" /\ m \in Message
      BY <1>0, <2>1, RequestAssumption DEF Outcome, ReceiptsInv, ReceiptsTypeOK, Receipt, Status
    <3>2. \A q \in ran : MessageOf[q] # m
      BY <1>0, <3>1, RowOfRequest DEF CallAgrees
    <3> QED BY <2>1, <3>2, RunnerIs
  <2>3. R' = [R EXCEPT ![m] = r]
    <3>1. Runner(m)' = r
      BY <1>3, RunnerIsNext DEF StartsOne
    <3>2. \A n \in WebMessage : n # m => Runner(n)' = Runner(n)
      BY <1>3, RunnerStays DEF StartsOne
    <3> QED BY <1>1, <2>1, <3>1, <3>2
  <2>4. S' = [S EXCEPT ![m] = "pending"]
    BY <1>1, <1>3, <2>1 DEF StartsOne, Becomes
  <2>5. A' = A
    BY <1>1, <1>3 DEF StartsOne
  <2> QED BY <2>2, <2>3, <2>4, <2>5 DEF Promise!Run
<1>4. ASSUME NEW r \in WebRequest, FinishesOne(r)
      PROVE  Promise!Finish(r)
  <2> DEFINE m == MessageOf[r]
  <2>1. R[m] = r /\ m \in WebMessage
    BY <1>0, <1>4, RunnerIs DEF FinishesOne
  <2>2. R' = R
    BY <1>1, <1>4, RunnerStays DEF FinishesOne
  <2>3. S[m] \in {"pending", "unknown"} /\ S' = [S EXCEPT ![m] = "finished"]
    BY <1>0, <1>1, <1>4, <2>1 DEF FinishesOne, Becomes
  <2>4. A[r] = Nobody /\ A' = [A EXCEPT ![r] = r]
    BY <1>0, <1>1, <1>4 DEF FinishesOne
  <2> QED BY <2>1, <2>2, <2>3, <2>4 DEF Promise!Finish, Promise!AnsweredWith
<1>5. ASSUME NEW r \in WebRequest, ReplaysOne(r)
      PROVE  Promise!Replay(r)
  <2> DEFINE m == MessageOf[r]
             s == receipt[m].response
  <2>1. m \in WebMessage /\ m \in Message /\ Outcome(receipt[m]) = "finished"
    BY <1>0, <1>5 DEF ReplaysOne
  <2>2. receipt[m].status = "completed"
    BY <2>1 DEF Outcome, ReceiptsInv, ReceiptsTypeOK, Receipt, Status
  <2>3. s \in ran /\ MessageOf[s] = m /\ PayloadOf[s] = receipt[m].payload
    BY <2>1, <2>2 DEF OnceInv, ReceiptsInv, ReceiptAgrees
  <2>4. R[m] = s
    <3>1. s \in WebRequest
      BY <1>0, <2>1, <2>3, WebRows
    <3> QED BY <2>1, <2>3, <3>1, RunnerIs
  <2>5. R' = R
    BY <1>1, <1>5, RunnerStays DEF ReplaysOne
  <2>6. S[m] = "finished" /\ S' = S
    BY <1>1, <1>5, <2>1 DEF ReplaysOne
  <2>7. A[r] = Nobody /\ A' = [A EXCEPT ![r] = s] /\ PayloadOf[r] = PayloadOf[s]
    BY <1>0, <1>1, <1>5, <2>3 DEF ReplaysOne
  <2> QED BY <2>4, <2>5, <2>6, <2>7 DEF Promise!Replay, Promise!AnsweredWith
<1>6. ASSUME NEW m \in WebMessage, DoubtsOne(m)
      PROVE  Promise!Doubt(m)
  <2>1. R' = R
    BY <1>1, <1>6, RunnerStays DEF DoubtsOne
  <2>2. S[m] = "pending" /\ S' = [S EXCEPT ![m] = "unknown"]
    BY <1>1, <1>6 DEF DoubtsOne, Becomes
  <2>3. A' = A
    BY <1>1, <1>6 DEF DoubtsOne
  <2> QED BY <2>1, <2>2, <2>3 DEF Promise!Doubt
<1>7. Visible
  BY OnceNext
<1> QED BY <1>2, <1>3, <1>4, <1>5, <1>6, <1>7 DEF Visible, Promise!PromiseNext

LEMMA PromiseBegins == ReceiptsInit => Promise!PromiseInit
<1> SUFFICES ASSUME ReceiptsInit PROVE Promise!PromiseInit
  OBVIOUS
<1>1. \A m \in WebMessage : Runner(m) = Nobody
  <2>1. \A m : ~\E r \in ran : MessageOf[r] = m
    BY DEF ReceiptsInit
  <2> QED BY <2>1, Zenon DEF Runner
<1>2. \A m \in WebMessage : Outcome(receipt[m]) = "none"
  <2>1. \A m \in WebMessage : receipt[m].status = "absent"
    BY RequestAssumption DEF ReceiptsInit, NoReceipt
  <2> QED BY <2>1 DEF Outcome
<1>3. \A r \in WebRequest : answer[r] = Nobody
  BY DEF ReceiptsInit, WebRequest
<1> QED BY <1>1, <1>2, <1>3 DEF Promise!PromiseInit

(***************************************************************************)
(* execute_once with require_receipt gives the requests of a message one   *)
(* operation and one response, through failures, expiries and restarts,    *)
(* although complete_receipt and fail_receipt look at no lease.            *)
(***************************************************************************)
THEOREM OperationsKeepThePromise == ReceiptsSpec => KeepsOperationPromise
<1>1. ReceiptsSpec => []OnceInv
  <2>1. ReceiptsInv /\ OnceInv /\ [ReceiptsNext]_receiptVars => OnceInv'
    BY OnceNext
  <2> QED BY <2>1, OnceInit, ReceiptsAgree, PTL DEF ReceiptsSpec
<1>2. ReceiptsInv /\ ReceiptsInv' /\ OnceInv /\ [ReceiptsNext]_receiptVars
        => [Promise!PromiseNext]_(Promise!promiseVars)
  BY StepKeepsOperationPromise
<1> QED BY <1>1, <1>2, PromiseBegins, ReceiptsAgree, PTL
        DEF ReceiptsSpec, KeepsOperationPromise, Promise!PromiseSpec
=============================================================================
