-------------------------- MODULE DeliveryPromise ---------------------------
(***************************************************************************)
(* What the Delivery Outbox promises about each reply, in the words of the *)
(* state it shows to the administrator (_row_to_delivery), without leases, *)
(* tokens, attempts or workers.                                            *)
(*                                                                         *)
(* A reply is queued, then sending, then delivered, known not to be sent   *)
(* (queued again, or failed for good) or of unknown outcome.  It may be    *)
(* withdrawn while queued.  Delivered and withdrawn are final; only an     *)
(* operator takes a reply out of failed or unknown.  A copy reaches the    *)
(* chat only while the reply is sending or its outcome is unknown, unless  *)
(* the operator has intervened.  One transaction may move several replies. *)
(***************************************************************************)
CONSTANTS
  Delivery,  \* replies
  Copy       \* names of the copies that reach the chat

VARIABLES outcome, copies, operated

promiseVars == <<outcome, copies, operated>>

Outcome == {"absent", "queued", "sending", "delivered", "unknown", "failed", "withdrawn"}

PromiseInit ==
  /\ outcome = [d \in Delivery |-> "absent"]
  /\ copies = [d \in Delivery |-> {}]
  /\ operated = {}

(* The moves of one reply that need no operator.                           *)
Move ==
  {<<"absent", "queued">>, <<"queued", "sending">>, <<"queued", "withdrawn">>,
   <<"queued", "failed">>, <<"sending", "delivered">>, <<"sending", "queued">>,
   <<"sending", "failed">>, <<"sending", "unknown">>}

Advance ==
  /\ outcome' \in [Delivery -> Outcome]
  /\ \A d \in Delivery : outcome'[d] # outcome[d] => <<outcome[d], outcome'[d]>> \in Move
  /\ UNCHANGED <<copies, operated>>

OperatorRequeues(d) ==
  /\ outcome[d] \in {"failed", "unknown", "withdrawn"}
  /\ outcome' = [outcome EXCEPT ![d] = IF @ = "withdrawn" THEN @ ELSE "queued"]
  /\ operated' = operated \cup {d}
  /\ UNCHANGED copies

CopyLands(d) ==
  /\ outcome[d] \in {"sending", "unknown"} \/ d \in operated
  /\ \E c \in Copy : copies' = [copies EXCEPT ![d] = @ \cup {c}]
  /\ UNCHANGED <<outcome, operated>>

PromiseNext == Advance \/ \E d \in Delivery : OperatorRequeues(d) \/ CopyLands(d)

PromiseSpec == PromiseInit /\ [][PromiseNext]_promiseVars
=============================================================================
