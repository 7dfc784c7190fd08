--------------------------- MODULE OperationPromise ---------------------------
(***************************************************************************)
(* What a message that requires a receipt is promised.                     *)
(*                                                                         *)
(* One of its requests gets to run its operation, and no other one ever    *)
(* does.  What becomes of the operation may be unknown for a while, or for *)
(* ever.  Once it is known, it does not change, and whoever asks again     *)
(* with the same payload is answered with it.                              *)
(***************************************************************************)
CONSTANTS Message, Request, MessageOf, PayloadOf, Nobody

VARIABLES
  runner,  \* the request that runs or ran the operation of a message
  outcome, \* what is known of that operation
  answer   \* whose response each request was answered with

promiseVars == <<runner, outcome, answer>>

PromiseInit ==
  /\ runner = [m \in Message |-> Nobody]
  /\ outcome = [m \in Message |-> "none"]
  /\ answer = [r \in Request |-> Nobody]

Run(r) ==
  /\ runner[MessageOf[r]] = Nobody
  /\ runner' = [runner EXCEPT ![MessageOf[r]] = r]
  /\ outcome' = [outcome EXCEPT ![MessageOf[r]] = "pending"]
  /\ UNCHANGED answer

Doubt(m) ==
  /\ outcome[m] = "pending"
  /\ outcome' = [outcome EXCEPT ![m] = "unknown"]
  /\ UNCHANGED <<runner, answer>>

AnsweredWith(r, s) ==
  /\ answer[r] = Nobody
  /\ answer' = [answer EXCEPT ![r] = s]
  /\ UNCHANGED runner

(* Late or in time: a runner that was given up may still finish.           *)
Finish(r) ==
  /\ runner[MessageOf[r]] = r
  /\ outcome[MessageOf[r]] \in {"pending", "unknown"}
  /\ outcome' = [outcome EXCEPT ![MessageOf[r]] = "finished"]
  /\ AnsweredWith(r, r)

Replay(r) ==
  LET s == runner[MessageOf[r]] IN
    /\ outcome[MessageOf[r]] = "finished"
    /\ PayloadOf[r] = PayloadOf[s]
    /\ AnsweredWith(r, s)
    /\ UNCHANGED outcome

PromiseNext ==
  \/ \E r \in Request : Run(r) \/ Finish(r) \/ Replay(r)
  \/ \E m \in Message : Doubt(m)

PromiseSpec == PromiseInit /\ [][PromiseNext]_promiseVars
=============================================================================
