----------------------------- MODULE AnswerPromise -----------------------------
(***************************************************************************)
(* What a continuous private conversation promises about its messages.     *)
(*                                                                         *)
(* Messages are taken up in turns, in the order in which they were         *)
(* accepted, and one turn is open at a time.  A turn is answered as a      *)
(* whole, or withdrawn because newer messages wait, and then the next turn *)
(* takes its messages over, or held for the operator, upon which the owner *)
(* that was set aside may still answer late.  Nothing reopens a turn, and  *)
(* an answer is never taken back.                                          *)
(***************************************************************************)
EXTENDS Naturals, Sequences

CONSTANT MaxMessages

VARIABLES
  accepted, \* how many messages were accepted, numbered in their order
  turns     \* the turns begun so far

promiseVars == <<accepted, turns>>

PromiseInit == accepted = 0 /\ turns = << >>

Waiting == {m \in 1..accepted : \A i \in 1..Len(turns) : m \notin turns[i].messages}

Accept ==
  /\ accepted < MaxMessages
  /\ accepted' = accepted + 1
  /\ UNCHANGED turns

(* The messages of a draft that the next turn has to answer.               *)
Carried ==
  IF Len(turns) > 0 /\ turns[Len(turns)].fate = "withdrawn"
  THEN turns[Len(turns)].messages ELSE {}

Begin ==
  /\ \A i \in 1..Len(turns) : turns[i].fate # "open"
  /\ \E last \in Waiting :
       turns' = Append(turns, [messages |-> {m \in Waiting : m <= last} \cup Carried,
                               fate |-> "open"])
  /\ UNCHANGED accepted

Becomes(i, from, to) ==
  /\ turns[i].fate = from
  /\ turns' = [turns EXCEPT ![i].fate = to]
  /\ UNCHANGED accepted

(* Only for messages that a turn begun now would take up.                  *)
Withdraw(i) == Waiting # {} /\ Becomes(i, "open", "withdrawn")

Answer(i) == Becomes(i, "open", "answered")

Hold(i) == Becomes(i, "open", "held")

AnswerLate(i) == Becomes(i, "held", "answered")

PromiseNext ==
  \/ Accept
  \/ Begin
  \/ \E i \in 1..Len(turns) : Withdraw(i) \/ Answer(i) \/ Hold(i) \/ AnswerLate(i)

PromiseSpec == PromiseInit /\ [][PromiseNext]_promiseVars
=============================================================================
