--------------------------- MODULE OutboxNotifier ---------------------------
(***************************************************************************)
(* The long poll of POST /deliveries/claim.                                *)
(*                                                                         *)
(* A poller queries the Outbox while it holds the condition's lock, notes  *)
(* the generation, and sleeps until the generation moves or a timer ends.  *)
(* A writer first commits its row and only then, in a second step, takes   *)
(* the lock and moves the generation; most commits that make a row         *)
(* claimable (an acknowledgement that unblocks the next reply, an expired  *)
(* lease, a schedule that falls due) notify nobody at all.                 *)
(***************************************************************************)
EXTENDS Naturals, FiniteSets

CONSTANTS
  Item,          \* Outbox rows
  Poller,        \* threads of the HTTP server inside long_poll
  Free,          \* nobody holds the condition's lock
  GenerationCap  \* bound on the generation counter

ASSUME PollerAssumption ==
  /\ Free \notin Poller
  /\ GenerationCap \in Nat
  /\ IsFiniteSet(Item)

VARIABLES
  item,        \* what the committed row of each item is to a claim
  unannounced, \* items committed by a writer that has yet to notify
  generation,  \* OutboxNotifier._generation
  lock,        \* holder of the condition's lock
  pc,          \* where each poller is in long_poll
  observed,    \* observed_generation of each poller
  timer        \* what ends the sleep of each poller besides a notification

notifierVars == <<item, unannounced, generation, lock, pc, observed, timer>>

(***************************************************************************)
(* ready: a claim would take it.  later: undecided, but leased, not yet    *)
(* due, or held back by an earlier reply of its thread.  gone: settled,    *)
(* being sent, or out of attempts.                                         *)
(***************************************************************************)
ItemState == {"absent", "ready", "later", "gone"}

(* soon: the wait is capped by next_wake_in.                               *)
Timer == {"soon", "deadline"}

NotifierTypeOK ==
  /\ item \in [Item -> ItemState]
  /\ unannounced \subseteq Item
  /\ generation \in Nat
  /\ lock \in Poller \cup {Free}
  /\ pc \in [Poller -> {"out", "query", "snapshot", "schedule", "sleep", "asleep"}]
  /\ observed \in [Poller -> Nat]
  /\ timer \in [Poller -> Timer]

NotifierInit ==
  /\ item = [i \in Item |-> "absent"]
  /\ unannounced = {}
  /\ generation = 0
  /\ lock = Free
  /\ pc = [w \in Poller |-> "out"]
  /\ observed = [w \in Poller |-> 0]
  /\ timer = [w \in Poller |-> "deadline"]

-----------------------------------------------------------------------------
(* Writers.                                                                *)

RoomToNotify == generation + Cardinality(unannounced) < GenerationCap

(* enqueue, retry, defer_claim and requeue_dead_letter commit a row that   *)
(* may be claimed, now or later, and will notify.                          *)
Commit(i) ==
  /\ i \notin unannounced /\ RoomToNotify
  /\ \E s \in {"ready", "later"} : item' = [item EXCEPT ![i] = s]
  /\ unannounced' = unannounced \cup {i}
  /\ UNCHANGED <<generation, lock, pc, observed, timer>>

Notify(i) ==
  /\ i \in unannounced /\ lock = Free
  /\ unannounced' = unannounced \ {i}
  /\ generation' = generation + 1
  /\ UNCHANGED <<item, lock, pc, observed, timer>>

(* A lease or a schedule runs out, or the reply that held this one back is *)
(* acknowledged, cancelled or dead-lettered: no writer notifies.           *)
Unblocked(i) ==
  /\ item[i] = "later"
  /\ item' = [item EXCEPT ![i] = "ready"]
  /\ UNCHANGED <<unannounced, generation, lock, pc, observed, timer>>

(* begin_send, ack, a last retry, cancel_claim or superseding takes the    *)
(* row out of every later claim.                                           *)
Leaves(i) ==
  /\ item[i] \in {"ready", "later"}
  /\ item' = [item EXCEPT ![i] = "gone"]
  /\ UNCHANGED <<unannounced, generation, lock, pc, observed, timer>>

-----------------------------------------------------------------------------
(* A poller in long_poll.  From query to sleep it holds the lock.          *)

Goes(w, from, to) == pc[w] = from /\ pc' = [pc EXCEPT ![w] = to]

Enter(w) ==
  /\ lock = Free /\ lock' = w
  /\ Goes(w, "out", "query")
  /\ UNCHANGED <<item, unannounced, generation, observed, timer>>

(* The query claims a row and the poll returns it.                         *)
QueryFinds(w) ==
  /\ Goes(w, "query", "out") /\ lock' = Free
  /\ \E i \in Item : item[i] = "ready" /\ item' = [item EXCEPT ![i] = "later"]
  /\ UNCHANGED <<unannounced, generation, observed, timer>>

QueryFindsNothing(w) ==
  /\ Goes(w, "query", "snapshot")
  /\ \A i \in Item : item[i] # "ready"
  /\ UNCHANGED <<item, unannounced, generation, lock, observed, timer>>

Snapshot(w) ==
  /\ Goes(w, "snapshot", "schedule")
  /\ observed' = [observed EXCEPT ![w] = generation]
  /\ UNCHANGED <<item, unannounced, generation, lock, timer>>

(* The deadline of the poll has passed: it returns empty-handed.           *)
GiveUp(w) ==
  /\ Goes(w, "schedule", "out") /\ lock' = Free
  /\ UNCHANGED <<item, unannounced, generation, observed, timer>>

(* Faulty variant of Foreseen: a leased or blocked row is not looked at.   *)
ForeseenReady == {i \in Item : item[i] = "ready"}

(* The rows _next_claimable_delay takes the earliest time of: it looks at  *)
(* due times and leases, not at the order of the thread.                   *)
Foreseen == {i \in Item : item[i] \in {"ready", "later"}}

Schedule(w) ==
  /\ Goes(w, "schedule", "sleep")
  /\ timer' = [timer EXCEPT ![w] = IF Foreseen = {} THEN "deadline" ELSE "soon"]
  /\ UNCHANGED <<item, unannounced, generation, lock, observed>>

(* Faulty variant of Moved: the first notification is taken for the        *)
(* poller's own.                                                           *)
MovedTwice(w) == generation > observed[w] + 1

(* The predicate of wait_for.                                              *)
Moved(w) == generation # observed[w]

(* wait_for releases the lock only while the generation has not moved.     *)
Sleep(w) ==
  /\ Goes(w, "sleep", IF Moved(w) THEN "out" ELSE "asleep")
  /\ lock' = Free
  /\ UNCHANGED <<item, unannounced, generation, observed, timer>>

(* Awake, the poller takes the lock again to leave wait_for.               *)
Wakes(w) ==
  /\ Goes(w, "asleep", "out") /\ lock = Free
  /\ UNCHANGED <<item, unannounced, generation, lock, observed, timer>>

WakeByNotification(w) == Moved(w) /\ Wakes(w)

WakeByTimer(w) == timer[w] = "soon" /\ Wakes(w)

WakeByDeadline(w) == timer[w] = "deadline" /\ Wakes(w)

-----------------------------------------------------------------------------
Writer(i) == Commit(i) \/ Notify(i) \/ Unblocked(i) \/ Leaves(i)

InPoll(w) ==
  \/ QueryFinds(w) \/ QueryFindsNothing(w) \/ Snapshot(w) \/ Schedule(w) \/ Sleep(w)

LongPoll(w) ==
  \/ Enter(w) \/ InPoll(w) \/ GiveUp(w)
  \/ WakeByNotification(w) \/ WakeByTimer(w) \/ WakeByDeadline(w)

NotifierNext == (\E i \in Item : Writer(i)) \/ (\E w \in Poller : LongPoll(w))

NotifierSpec == NotifierInit /\ [][NotifierNext]_notifierVars

(***************************************************************************)
(* A writer that has committed goes on to notify; a poller that holds the  *)
(* lock does not keep it; a notification or a timer does wake a sleeper.   *)
(* Deadlines are not assumed to pass: what is served must not wait for     *)
(* them.  Strong fairness, since the lock comes and goes.                  *)
(***************************************************************************)
NotifierFairness ==
  /\ \A i \in Item : SF_notifierVars(Notify(i))
  /\ \A w \in Poller : /\ WF_notifierVars(InPoll(w))
                       /\ SF_notifierVars(WakeByNotification(w))
                       /\ SF_notifierVars(WakeByTimer(w))

FairNotifierSpec == NotifierSpec /\ NotifierFairness

-----------------------------------------------------------------------------
(***************************************************************************)
(* No lost wake-up: a poller sleeps over a claimable row only while the    *)
(* writer of that row is still to notify, the notification is on its way,  *)
(* or its timer is set for the rows the query could not take.              *)
(***************************************************************************)
NoLostWakeup ==
  \A w \in Poller, i \in Item :
    pc[w] = "asleep" /\ item[i] = "ready"
      => i \in unannounced \/ generation # observed[w] \/ timer[w] = "soon"

(* From query to sleep a poller holds the lock, so its snapshot stays true. *)
LockProtects(w) ==
  /\ pc[w] \in {"query", "snapshot", "schedule", "sleep"} <=> lock = w
  /\ pc[w] \in {"schedule", "sleep"} => observed[w] = generation
  /\ observed[w] <= generation

(* Every row that may become claimable behind the poller's back is covered. *)
Covered(w, i) ==
  pc[w] \in {"sleep", "asleep"} /\ item[i] \in {"ready", "later"}
    => i \in unannounced \/ generation # observed[w] \/ timer[w] = "soon"

(* The inductive invariant behind NoLostWakeup.                            *)
NotifierInv ==
  NotifierTypeOK /\ \A w \in Poller : LockProtects(w) /\ \A i \in Item : Covered(w, i)

(***************************************************************************)
(* No poller oversleeps: while a row stays claimable, a sleeping poller    *)
(* wakes without waiting for its deadline.                                 *)
(***************************************************************************)
NoOversleep ==
  \A w \in Poller :
    (pc[w] = "asleep" /\ \E i \in Item : item[i] = "ready")
      ~> (pc[w] # "asleep" \/ \A i \in Item : item[i] # "ready")
=============================================================================
