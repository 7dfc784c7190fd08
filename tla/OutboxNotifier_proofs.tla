------------------------ MODULE OutboxNotifier_proofs -----------------------
(* The long poll loses no wake-up, for every number of rows and pollers.   *)
EXTENDS OutboxNotifier, TLAPS

LEMMA NotifierInitInv == NotifierInit => NotifierInv
BY PollerAssumption
   DEF NotifierInit, NotifierInv, NotifierTypeOK, LockProtects, Covered, ItemState, Timer

LEMMA NotifierNextInv ==
  ASSUME NotifierInv, NotifierNext
  PROVE  NotifierInv'
<1> USE PollerAssumption DEF NotifierInv, NotifierTypeOK, LockProtects, Covered, ItemState, Timer
<1>1. ASSUME NEW i \in Item, Commit(i) PROVE NotifierInv'
  BY <1>1 DEF Commit
<1>2. ASSUME NEW i \in Item, Notify(i) PROVE NotifierInv'
  BY <1>2 DEF Notify
<1>3. ASSUME NEW i \in Item, Unblocked(i) PROVE NotifierInv'
  BY <1>3 DEF Unblocked
<1>4. ASSUME NEW i \in Item, Leaves(i) PROVE NotifierInv'
  BY <1>4 DEF Leaves
<1>5. ASSUME NEW w \in Poller, Enter(w) PROVE NotifierInv'
  BY <1>5 DEF Enter, Goes
<1>6. ASSUME NEW w \in Poller, QueryFinds(w) PROVE NotifierInv'
  BY <1>6 DEF QueryFinds, Goes
<1>7. ASSUME NEW w \in Poller, QueryFindsNothing(w) PROVE NotifierInv'
  BY <1>7 DEF QueryFindsNothing, Goes
<1>8. ASSUME NEW w \in Poller, Snapshot(w) PROVE NotifierInv'
  BY <1>8 DEF Snapshot, Goes
<1>9. ASSUME NEW w \in Poller, Schedule(w) PROVE NotifierInv'
  BY <1>9 DEF Schedule, Foreseen, Goes
<1>10. ASSUME NEW w \in Poller, Sleep(w) PROVE NotifierInv'
  BY <1>10 DEF Sleep, Moved, Goes
<1>11. ASSUME NEW w \in Poller, GiveUp(w) PROVE NotifierInv'
  BY <1>11 DEF GiveUp, Goes
<1>12. ASSUME NEW w \in Poller, Wakes(w) PROVE NotifierInv'
  BY <1>12 DEF Wakes, Goes
<1>13. QED
  BY <1>1, <1>2, <1>3, <1>4, <1>5, <1>6, <1>7, <1>8, <1>9, <1>10, <1>11, <1>12
     DEF NotifierNext, Writer, LongPoll, InPoll, WakeByNotification, WakeByTimer, WakeByDeadline

(***************************************************************************)
(* No lost wake-up, whatever the order of commits, notifications, expiring *)
(* leases and pollers.                                                     *)
(***************************************************************************)
THEOREM WakeupsReach == NotifierSpec => []NoLostWakeup
<1>1. NotifierInv /\ UNCHANGED notifierVars => NotifierInv'
  BY DEF NotifierInv, NotifierTypeOK, LockProtects, Covered, notifierVars
<1>2. NotifierInv => NoLostWakeup
  BY DEF NotifierInv, Covered, NoLostWakeup
<1>3. QED
  BY <1>1, <1>2, NotifierInitInv, NotifierNextInv, PTL DEF NotifierSpec
=============================================================================
