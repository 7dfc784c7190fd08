---------------------------- MODULE InboundReceipts ----------------------------
(***************************************************************************)
(* The receipts that keep a redelivered message from being answered twice. *)
(*                                                                         *)
(* Every dispatch request runs its operation inside execute_once.  A Web   *)
(* request (require_receipt) reads and takes its receipt in one writer     *)
(* transaction and never takes it twice.  A QQ request reads it first and  *)
(* writes it in a later transaction, may take an expired or failed one     *)
(* again, and goes without one while the reliability flag is off.  QQ      *)
(* source messages joined into one private turn are aliases of the turn's  *)
(* primary message.  Settling a receipt is not fenced by its lease.        *)
(***************************************************************************)
EXTENDS Naturals

CONSTANTS
  Message,    \* platform message ids, each with one actor and conversation
  WebMessage, \* those of the Web console: their requests require a receipt
  Request,    \* HTTP calls of /assistant/dispatch, deliveries and retries alike
  MessageOf,  \* the message id of a request, the primary one of a joined turn
  PayloadOf,  \* its fingerprinted payload
  Members,    \* the source messages of its private turn, MessageOf included
  NoMessage,  \* a message that no turn has joined
  Nobody      \* no response

ASSUME RequestAssumption ==
  /\ WebMessage \subseteq Message
  /\ MessageOf \in [Request -> Message]
  /\ Members \in [Request -> SUBSET Message]
  /\ NoMessage \notin Message
  /\ Nobody \notin Request

VARIABLES
  receipt, \* table qq_inbound_receipts
  alias,   \* table qq_private_turn_members: the primary of a joined message
  enabled, \* the feature flag task_message_reliability_v2
  pc,      \* where each request is
  seen,    \* what the SELECT of an optional receipt found
  answer,  \* whose response a request was answered with
  ran,     \* history: the requests whose operation ran under a receipt
  doubtful \* history: the messages with a failed operation or an expired lease

receiptVars == <<receipt, alias, enabled, pc, seen, answer, ran, doubtful>>

Status == {"absent", "processing", "completed", "failed"}

(* A response is identified by the request whose operation returned it.    *)
Receipt ==
  [status : Status, payload : {PayloadOf[r] : r \in Request} \cup {Nobody},
   response : Request \cup {Nobody}, leased : BOOLEAN]

NoReceipt == [status |-> "absent", payload |-> Nobody, response |-> Nobody, leased |-> FALSE]

Web(r) == MessageOf[r] \in WebMessage

Running == {"running", "settling", "failing"}

(* The states of a request before and during an unprotected operation.     *)
Optional == {"checked", "ready", "looked", "bare"}

PC == {"new", "answered", "refused", "lost"} \cup Running \cup Optional

ReceiptsTypeOK ==
  /\ receipt \in [Message -> Receipt]
  /\ alias \in [Message -> Message \cup {NoMessage}]
  /\ enabled \in BOOLEAN
  /\ pc \in [Request -> PC]
  /\ seen \in [Request -> {"absent", "stale"}]
  /\ answer \in [Request -> Request \cup {Nobody}]
  /\ ran \subseteq Request
  /\ doubtful \subseteq Message
  /\ \A m \in Message :
       /\ receipt[m].leased => receipt[m].status = "processing"
       /\ receipt[m].status = "completed" => receipt[m].response \in Request

ReceiptsInit ==
  /\ receipt = [m \in Message |-> NoReceipt]
  /\ alias = [m \in Message |-> NoMessage]
  /\ enabled \in BOOLEAN
  /\ pc = [r \in Request |-> "new"]
  /\ seen = [r \in Request |-> "absent"]
  /\ answer = [r \in Request |-> Nobody]
  /\ ran = {}
  /\ doubtful = {}

-----------------------------------------------------------------------------
Goes(r, from, to) == pc[r] = from /\ pc' = [pc EXCEPT ![r] = to]

Refuse(r, from) == Goes(r, from, "refused") /\ UNCHANGED answer

AnsweredBy(r, from, s) == Goes(r, from, "answered") /\ answer' = [answer EXCEPT ![r] = s]

(* The receipt that request r finds.                                       *)
Row(r) == receipt[MessageOf[r]]

(* Faulty variant of Conflicts: the fingerprint is not compared.           *)
ConflictsNever(r) == FALSE

(* begin_receipt refuses another payload under the same id and a receipt   *)
(* whose lease runs; it replays a completed one.                           *)
Conflicts(r) == Row(r).status # "absent" /\ Row(r).payload # PayloadOf[r]

InProgress(r) == Row(r).status = "processing" /\ Row(r).leased

Replays(r) == ~Conflicts(r) /\ Row(r).status = "completed"

(* Undecided, and nobody's lease: expired or failed.                       *)
Stale(r) == Row(r).status = "failed" \/ (Row(r).status = "processing" /\ ~Row(r).leased)

Set(m, t) == receipt' = [receipt EXCEPT ![m] = t]

(* The INSERT of a new receipt, and the UPDATE that takes an old one over. *)
Owned(r) ==
  [status |-> "processing", payload |-> PayloadOf[r], response |-> Nobody, leased |-> TRUE]

TakenOver(r) == [Row(r) EXCEPT !.status = "processing", !.leased = TRUE]

Failed(t) == [t EXCEPT !.status = "failed", !.leased = FALSE]

(* The operation of r starts under the receipt t.                          *)
Starts(r, from, t) ==
  /\ Goes(r, from, "running")
  /\ Set(MessageOf[r], t)
  /\ ran' = ran \cup {r}
  /\ UNCHANGED answer

(* begin_receipt of a Web request, one BEGIN IMMEDIATE transaction.        *)
Decided(r) ==
  \/ (Conflicts(r) \/ InProgress(r)) /\ Refuse(r, "new")
  \/ Replays(r) /\ AnsweredBy(r, "new", Row(r).response)

TakeRequired(r) == Row(r).status = "absent" /\ Starts(r, "new", Owned(r))

(* Faulty variant of UnknownRequired: the expired receipt is taken over.   *)
RetryRequired(r) ==
  Stale(r) /\ ~Conflicts(r) /\ Starts(r, "new", TakenOver(r))

(* An expired receipt becomes failed and the caller is told so.            *)
UnknownRequired(r) ==
  /\ Stale(r) /\ ~Conflicts(r)
  /\ Refuse(r, "new")
  /\ Set(MessageOf[r], Failed(Row(r)))
  /\ UNCHANGED ran

BeginRequired(r) ==
  /\ Web(r)
  /\ \/ Decided(r) /\ UNCHANGED <<receipt, ran>>
     \/ TakeRequired(r)
     \/ UnknownRequired(r)
  /\ UNCHANGED <<alias, enabled, seen, doubtful>>

-----------------------------------------------------------------------------
(* replay_private_turn_member: a joined source is answered from the        *)
(* receipt of its primary message, or refused.                             *)
Joined(r) == alias[MessageOf[r]] # NoMessage

CheckMember(r) ==
  /\ ~Web(r)
  /\ LET primary == receipt[alias[MessageOf[r]]] IN
     \/ ~Joined(r) /\ Goes(r, "new", "checked") /\ UNCHANGED answer
     \/ Joined(r) /\ primary.status # "completed" /\ Refuse(r, "new")
     \/ Joined(r) /\ primary.status = "completed" /\ AnsweredBy(r, "new", primary.response)
  /\ UNCHANGED <<receipt, alias, enabled, seen, ran, doubtful>>

Aliases(r) == Members[r] \ {MessageOf[r]}

(* register_private_turn_member_aliases binds all of them or none.         *)
Bindable(r) == \A m \in Aliases(r) : alias[m] \in {NoMessage, MessageOf[r]}

RegisterMembers(r) ==
  /\ \/ /\ Bindable(r)
        /\ Goes(r, "checked", "ready")
        /\ alias' = [m \in Message |-> IF m \in Aliases(r) THEN MessageOf[r] ELSE alias[m]]
        /\ UNCHANGED answer
     \/ ~Bindable(r) /\ Refuse(r, "checked") /\ UNCHANGED alias
  /\ UNCHANGED <<receipt, enabled, seen, ran, doubtful>>

(* The SELECT of an optional receipt, outside any transaction.             *)
Look(r) ==
  /\ enabled
  /\ \/ (Conflicts(r) \/ InProgress(r)) /\ Refuse(r, "ready") /\ UNCHANGED seen
     \/ Replays(r) /\ AnsweredBy(r, "ready", Row(r).response) /\ UNCHANGED seen
     \/ /\ ~Conflicts(r) /\ Goes(r, "ready", "looked")
        /\ \/ Row(r).status = "absent" /\ seen' = [seen EXCEPT ![r] = "absent"]
           \/ Stale(r) /\ seen' = [seen EXCEPT ![r] = "stale"]
        /\ UNCHANGED answer
  /\ UNCHANGED <<receipt, alias, enabled, ran, doubtful>>

(* Faulty variant of Insert: INSERT OR REPLACE.                            *)
Overwrite(r) == seen[r] = "absent" /\ Starts(r, "looked", Owned(r))

(* The primary key lets one of two concurrent INSERTs through.             *)
Insert(r) ==
  /\ seen[r] = "absent" /\ Row(r).status = "absent"
  /\ Starts(r, "looked", Owned(r))

InsertRefused(r) ==
  /\ seen[r] = "absent" /\ Row(r).status # "absent" /\ Refuse(r, "looked")
  /\ UNCHANGED <<receipt, ran>>

(* The UPDATE does not look at what the row has become since.              *)
TakeOver(r) == seen[r] = "stale" /\ Starts(r, "looked", TakenOver(r))

WriteOptional(r) ==
  /\ Insert(r) \/ InsertRefused(r) \/ TakeOver(r)
  /\ UNCHANGED <<alias, enabled, seen, doubtful>>

(* The flag is off: begin_receipt returns None.                            *)
GoBare(r) ==
  /\ ~enabled /\ Goes(r, "ready", "bare")
  /\ UNCHANGED <<receipt, alias, enabled, seen, answer, ran, doubtful>>

BareEnds(r) ==
  /\ AnsweredBy(r, "bare", r) \/ Refuse(r, "bare")
  /\ UNCHANGED <<receipt, alias, enabled, seen, ran, doubtful>>

-----------------------------------------------------------------------------
(* The operation returns or raises; then the receipt is settled.           *)
OperationEnds(r) ==
  /\ \/ Goes(r, "running", "settling") /\ UNCHANGED doubtful
     \/ Goes(r, "running", "failing") /\ doubtful' = doubtful \cup {MessageOf[r]}
  /\ UNCHANGED <<receipt, alias, enabled, seen, answer, ran>>

Completed(r) == [Row(r) EXCEPT !.status = "completed", !.response = r, !.leased = FALSE]

CompleteReceipt(r) ==
  /\ AnsweredBy(r, "settling", r)
  /\ Set(MessageOf[r], Completed(r))
  /\ UNCHANGED <<alias, enabled, seen, ran, doubtful>>

FailReceipt(r) ==
  /\ Refuse(r, "failing")
  /\ Set(MessageOf[r], Failed(Row(r)))
  /\ UNCHANGED <<alias, enabled, seen, ran, doubtful>>

(* The UPDATE itself fails, twice if the database was busy: the receipt    *)
(* stays in processing until its lease expires.                            *)
SettleFails(r) ==
  /\ Refuse(r, "settling") \/ Refuse(r, "failing")
  /\ UNCHANGED <<receipt, alias, enabled, seen, ran, doubtful>>

-----------------------------------------------------------------------------
(* Five minutes pass, with the operation still running or long gone.       *)
Expire(m) ==
  /\ receipt[m].status = "processing" /\ receipt[m].leased
  /\ Set(m, [receipt[m] EXCEPT !.leased = FALSE])
  /\ doubtful' = doubtful \cup {m}
  /\ UNCHANGED <<alias, enabled, pc, seen, answer, ran>>

(* The Bridge restarts: the requests in flight are gone, the tables stay.  *)
InFlight == {r \in Request : pc[r] \in Running \cup Optional}

Restart ==
  /\ InFlight # {}
  /\ pc' = [r \in Request |-> IF r \in InFlight THEN "lost" ELSE pc[r]]
  /\ UNCHANGED <<receipt, alias, enabled, seen, answer, ran, doubtful>>

(* The owner switches the reliability feature.                             *)
SwitchReliability ==
  /\ enabled' = ~enabled
  /\ UNCHANGED <<receipt, alias, pc, seen, answer, ran, doubtful>>

Dispatch(r) ==
  \/ BeginRequired(r) \/ CheckMember(r) \/ RegisterMembers(r) \/ Look(r)
  \/ WriteOptional(r) \/ GoBare(r) \/ BareEnds(r)
  \/ OperationEnds(r) \/ CompleteReceipt(r) \/ FailReceipt(r) \/ SettleFails(r)

ReceiptsNext ==
  \/ \E r \in Request : Dispatch(r)
  \/ \E m \in Message : Expire(m)
  \/ Restart
  \/ SwitchReliability

ReceiptsSpec == ReceiptsInit /\ [][ReceiptsNext]_receiptVars

-----------------------------------------------------------------------------
(***************************************************************************)
(* Whatever expires, fails, crashes or is retried, the operation of a Web  *)
(* message runs at most once, the reliability flag notwithstanding.        *)
(***************************************************************************)
WebRunsOnce ==
  \A r, s \in ran : MessageOf[r] = MessageOf[s] /\ Web(r) => r = s

(***************************************************************************)
(* The operation of a QQ message is repeated under its receipt only after  *)
(* a run of it failed or a lease of it expired: deliveries that arrive     *)
(* together, before or after a restart, do not both run.                   *)
(***************************************************************************)
RepeatNeedsCause ==
  \A r, s \in ran : MessageOf[r] = MessageOf[s] /\ r # s => MessageOf[r] \in doubtful

(***************************************************************************)
(* A request is answered with its own response, with a response to the     *)
(* same payload of the same message, or with one to the message whose turn *)
(* its message was joined to, never with somebody else's or an empty one.  *)
(***************************************************************************)
Truthful(r, s) ==
  \/ MessageOf[s] = MessageOf[r] /\ PayloadOf[s] = PayloadOf[r]
  \/ MessageOf[s] = alias[MessageOf[r]]

ReplaysAreTruthful ==
  \A r \in Request : pc[r] = "answered" => answer[r] \in Request /\ Truthful(r, answer[r])

(* A request that has looked at, runs under or ran under a receipt has     *)
(* left its mark on the row and on the history.                            *)
CallAgrees(r) ==
  /\ pc[r] \in Optional => ~Web(r)
  /\ pc[r] \in Running => r \in ran
  /\ pc[r] = "failing" => MessageOf[r] \in doubtful
  /\ pc[r] = "looked" /\ seen[r] = "stale" => MessageOf[r] \in doubtful
  /\ r \in ran \/ (pc[r] = "looked" /\ seen[r] = "stale")
       => Row(r).status # "absent" /\ Row(r).payload = PayloadOf[r]

(* A row that is neither running nor completed is doubtful; a completed    *)
(* one holds a response to its own payload.                                *)
ReceiptAgrees(m) ==
  LET t == receipt[m] IN
    /\ t.status = "failed" \/ (t.status = "processing" /\ ~t.leased) => m \in doubtful
    /\ t.status = "completed"
         => MessageOf[t.response] = m /\ PayloadOf[t.response] = t.payload

(* The inductive invariant behind the three.                               *)
ReceiptsInv ==
  /\ ReceiptsTypeOK
  /\ \A r \in Request : CallAgrees(r)
  /\ \A m \in Message : ReceiptAgrees(m)
  /\ WebRunsOnce
  /\ RepeatNeedsCause
  /\ ReplaysAreTruthful

-----------------------------------------------------------------------------
(* What the callers of Web messages see of the receipts.                   *)

WebRequest == {r \in Request : Web(r)}

(* Whose operation a message got.                                          *)
Runner(m) ==
  IF \E r \in ran : MessageOf[r] = m THEN CHOOSE r \in ran : MessageOf[r] = m ELSE Nobody

Outcome(t) ==
  CASE t.status = "absent" -> "none"
    [] t.status = "processing" /\ t.leased -> "pending"
    [] t.status = "failed" \/ (t.status = "processing" /\ ~t.leased) -> "unknown"
    [] t.status = "completed" -> "finished"

Promise ==
  INSTANCE OperationPromise
  WITH Message <- WebMessage, Request <- WebRequest,
       runner <- [m \in WebMessage |-> Runner(m)],
       outcome <- [m \in WebMessage |-> Outcome(receipt[m])],
       answer <- [r \in WebRequest |-> answer[r]]

(***************************************************************************)
(* Through failures, expiries and restarts, the requests of a Web message  *)
(* share one operation and one response: the receipt of a finished one is  *)
(* never rewritten, a late owner still settles it, and every later request *)
(* gets what the first one got.                                            *)
(***************************************************************************)
KeepsOperationPromise == Promise!PromiseSpec

(* What the refinement needs beside ReceiptsInv: a Web receipt was taken   *)
(* by a request that ran, stays open while that one runs, and its response *)
(* is the one that its requests were answered with.                        *)
OnceInv ==
  /\ \A r \in Request : answer[r] # Nobody => pc[r] = "answered"
  /\ \A r \in WebRequest :
       /\ pc[r] = "answered" => Row(r).status = "completed" /\ answer[r] = Row(r).response
       /\ pc[r] \in Running => Row(r).status # "completed"
  /\ \A m \in WebMessage :
       /\ receipt[m].status # "absent" => \E r \in ran : MessageOf[r] = m
       /\ receipt[m].status = "completed" => receipt[m].response \in ran
=============================================================================
