----------------------------- MODULE ResponseCycle -----------------------------
(***************************************************************************)
(* The response cycles of one continuous private conversation.             *)
(*                                                                         *)
(* Accepted messages wait until a cycle freezes them as its sources.  The  *)
(* owner of the cycle holds a lease, generates, and prepares one reply,    *)
(* unless newer input supersedes the draft, whose successor then carries   *)
(* it on.  A prepared reply is enqueued in the Outbox, another database,   *)
(* and bound afterwards.  Owners are threads of HTTP requests and the      *)
(* coordinator, which alone recovers the cycles others left behind; it     *)
(* never generates twice, and holds what it cannot decide for an operator. *)
(*                                                                         *)
(* A lease token is fresh for every lease and known to one owner only, so  *)
(* that comparing tokens is comparing holders.                             *)
(***************************************************************************)
EXTENDS Integers, FiniteSets, Sequences

CONSTANTS
  HttpThread,      \* threads of /assistant/dispatch
  Coordinator,     \* the thread of BridgeResponseCoordinator
  Nobody,          \* the owner of no lease
  MaxMessages,     \* bound on accepted messages, hence on cycles
  MaxSources,      \* MAX_SOURCE_MESSAGES
  MaxRevisions,    \* MAX_SITUATION_REVISIONS
  MaxAttempts,     \* column max_attempts
  SettingsChange,  \* whether settings may be written meanwhile
  PromptRecovery   \* whether a recovery, three short transactions, surely
                   \* ends within the lease that it takes

ASSUME CycleAssumption ==
  /\ Coordinator \notin HttpThread
  /\ Nobody \notin HttpThread \cup {Coordinator}
  /\ MaxMessages \in Nat
  /\ MaxSources \in Nat
  /\ MaxRevisions \in Nat
  /\ MaxAttempts \in Nat \ {0}
  /\ SettingsChange \in BOOLEAN
  /\ PromptRecovery \in BOOLEAN

VARIABLES
  latest,      \* latest_inbound_sequence of the thread
  coordinated, \* the messages with response_coordinator_version 2
  made,        \* how many cycles there are, numbered in their order
  cycles,      \* table conversation_response_cycles with its sources
  outbox,      \* the cycles with a delivery in the Outbox, as enqueued
  job          \* what each owner is doing

cycleVars == <<latest, coordinated, made, cycles, outbox, job>>

Owner == HttpThread \cup {Coordinator}

MessageId == 1..MaxMessages

CycleId == 1..MaxMessages

ActiveStates == {"processing", "commit_ready", "retryable", "manual_hold"}

CycleState == ActiveStates \cup {"absent", "outbox_queued"}

Disposition == {"none", "superseded_precommit", "isolated", "effects_resolved"}

Cycle ==
  [state : CycleState, sources : SUBSET MessageId,
   started : BOOLEAN, effects : BOOLEAN, prepared : BOOLEAN, attempt : Nat,
   lease : {"none", "live", "expired"}, holder : Owner \cup {Nobody},
   blocks_thread : BOOLEAN, blocks_effects : BOOLEAN, disposition : Disposition,
   predecessor : {0} \cup CycleId, successor : {0} \cup CycleId,
   drifted : BOOLEAN]

NoCycle ==
  [state |-> "absent", sources |-> {},
   started |-> FALSE, effects |-> FALSE, prepared |-> FALSE, attempt |-> 0,
   lease |-> "none", holder |-> Nobody,
   blocks_thread |-> TRUE, blocks_effects |-> FALSE, disposition |-> "none",
   predecessor |-> 0, successor |-> 0, drifted |-> FALSE]

(* The columns of its snapshot that the reconciler decides upon.           *)
Snapshot == [started : BOOLEAN, prepared : BOOLEAN, attempt : Nat]

(* Reconciling states come first, those of an owner of the cycle last; a   *)
(* recovering owner goes on with a reply that another one prepared.        *)
Place ==
  {"idle", "scanned", "looked", "claimed",
   "acquired", "generating", "prepared", "enqueued"}

Job ==
  [at : Place, cycle : {0} \cup CycleId, recovering : BOOLEAN,
   row : Snapshot, existing : BOOLEAN]

NoSnapshot == [started |-> FALSE, prepared |-> FALSE, attempt |-> 0]

Idle ==
  [at |-> "idle", cycle |-> 0, recovering |-> FALSE, row |-> NoSnapshot, existing |-> FALSE]

CyclesTypeOK ==
  /\ latest \in 0..MaxMessages
  /\ coordinated \subseteq 1..latest
  /\ made \in 0..MaxMessages
  /\ cycles \in [CycleId -> Cycle]
  /\ outbox \in Seq(CycleId)
  /\ job \in [Owner -> Job]
  /\ \A c \in CycleId :
       /\ cycles[c].state = "absent" <=> c > made
       /\ cycles[c].attempt <= MaxAttempts
       /\ cycles[c].holder # Nobody => cycles[c].lease # "none"
  /\ \A o \in Owner : job[o].at # "idle" => job[o].cycle \in 1..made

CyclesInit ==
  /\ latest = 0
  /\ coordinated = {}
  /\ made = 0
  /\ cycles = [c \in CycleId |-> NoCycle]
  /\ outbox = << >>
  /\ job = [o \in Owner |-> Idle]

-----------------------------------------------------------------------------
Made == 1..made

Queued == {outbox[i] : i \in 1..Len(outbox)}

Pending == {m \in 1..latest : \A c \in Made : m \notin cycles[c].sources}

(* The cycles that keep the thread from a new one.                         *)
Blocking == {c \in Made : cycles[c].state \in ActiveStates /\ cycles[c].blocks_thread}

HoldsLease(o, c) == cycles[c].holder = o /\ cycles[c].lease = "live"

Leasable(t) == t.lease # "live"

(* What every UPDATE that ends a lease does to its three columns.          *)
Released(t) == [t EXCEPT !.lease = "none", !.holder = Nobody]

Leased(t, o) == [t EXCEPT !.lease = "live", !.holder = o]

Put(c, t) == cycles' = [cycles EXCEPT ![c] = t]

Go(o, place) == job' = [job EXCEPT ![o].at = place]

(* The owner returns, and its token is forgotten with it.                  *)
Return(o) == job' = [job EXCEPT ![o] = Idle]

Forgotten(t, o) == IF t.holder = o THEN [t EXCEPT !.holder = Nobody] ELSE t

(* A cycle and the superseded drafts it carries on.                        *)
Lineage(c) ==
  LET line[d \in 0..MaxMessages] ==
        IF d = 0 THEN {} ELSE {d} \cup line[cycles[d].predecessor]
  IN line[c]

Revisions(c) == Cardinality(Lineage(c)) - 1

Superseded(t) ==
  /\ t.state = "manual_hold"
  /\ ~t.blocks_thread
  /\ t.disposition = "superseded_precommit"

Below(S, T) == \A s \in S, t \in T : s < t

(* One hop of validated_response_cycle_predecessors.  replan_depth is left *)
(* out: it is written together with the predecessor and never again.       *)
ValidHop(parent, child) ==
  /\ cycles[parent].successor = child
  /\ Superseded(cycles[parent])
  /\ ~cycles[parent].blocks_effects
  /\ ~cycles[parent].effects
  /\ ~cycles[parent].prepared
  /\ Below(cycles[parent].sources, cycles[child].sources)

ValidAncestry(c) ==
  /\ Revisions(c) <= MaxRevisions
  /\ \A d \in Lineage(c) : cycles[d].predecessor # 0 => ValidHop(cycles[d].predecessor, d)

-----------------------------------------------------------------------------
(* Ingress, and the lease of a new cycle.                                  *)

(* A repeated event is answered from its receipt and changes nothing.      *)
AcceptPrivateIngress ==
  /\ latest < MaxMessages
  /\ latest' = latest + 1
  /\ coordinated' \in {coordinated, coordinated \cup {latest + 1}}
  /\ UNCHANGED <<made, cycles, outbox, job>>

(* Faulty variant of Unsucceeded: a draft may be continued twice.          *)
UnsucceededOrNot(sources) ==
  {p \in Made : Superseded(cycles[p]) /\ Below(cycles[p].sources, sources)}

(* The superseded draft that new sources continue: the latest one without  *)
(* a successor, if any.                                                    *)
Unsucceeded(sources) ==
  {p \in Made :
     /\ Superseded(cycles[p])
     /\ cycles[p].successor = 0
     /\ Below(cycles[p].sources, sources)}

Predecessor(sources) ==
  LET open == Unsucceeded(sources)
  IN IF open = {} THEN {0} ELSE {p \in open : \A q \in open : q <= p}

MayFollow(p) == p = 0 \/ (ValidAncestry(p) /\ Revisions(p) < MaxRevisions)

(* Faulty variant of NewCycle: the draft that it continues is forgotten.   *)
NewCycleUnlinked(o, sources, p) ==
  [Leased(NoCycle, o) EXCEPT !.state = "processing", !.sources = sources, !.attempt = 1]

NewCycle(o, sources, p) ==
  [Leased(NoCycle, o) EXCEPT
     !.state = "processing", !.sources = sources, !.attempt = 1, !.predecessor = p]

(* Faulty variant of ThreadFree: a held cycle does not count.              *)
ThreadFreeOfWork == \A c \in Blocking : cycles[c].state = "manual_hold"

ThreadFree == Blocking = {}

(* Everything unassigned up to the last requested message is taken.        *)
Acquire(o, last) ==
  LET sources == {m \in Pending : m <= last}
      c == made + 1
  IN /\ job[o].at = "idle"
     /\ ThreadFree
     /\ made < MaxMessages
     /\ Cardinality(sources) <= MaxSources
     /\ \E p \in Predecessor(sources) :
          /\ MayFollow(p)
          /\ cycles' =
               [d \in CycleId |->
                  IF d = c THEN NewCycle(o, sources, p)
                  ELSE IF d = p THEN [cycles[p] EXCEPT !.successor = c]
                  ELSE cycles[d]]
     /\ made' = c
     /\ job' = [job EXCEPT ![o] = [Idle EXCEPT !.at = "acquired", !.cycle = c]]
     /\ UNCHANGED <<latest, coordinated, outbox>>

(* A dispatch request of the first protocol version names its messages.    *)
DispatchPrivateTurn(o) == \E m \in Pending \ coordinated : Acquire(o, m)

(* The coordinator takes a thread with a message of the second version,    *)
(* and requests whatever waits there, provided that it is not too much.    *)
ProcessThread ==
  /\ Pending \cap coordinated # {}
  /\ Cardinality(Pending) <= MaxSources
  /\ \E m \in Pending : (\A n \in Pending : n <= m) /\ Acquire(Coordinator, m)

-----------------------------------------------------------------------------
(* The owner of a cycle.                                                   *)

(* Faulty variant of MayStart: the row is found by its id alone.           *)
MayStartAnyway(o, c) == TRUE

MayStart(o, c) ==
  /\ HoldsLease(o, c)
  /\ cycles[c].state = "processing"
  /\ ~cycles[c].started

MarkGenerationStarted(o) ==
  LET c == job[o].cycle
  IN /\ job[o].at = "acquired"
     /\ MayStart(o, c)
     /\ Put(c, [cycles[c] EXCEPT !.started = TRUE])
     /\ Go(o, "generating")
     /\ UNCHANGED <<latest, coordinated, made, outbox>>

(* Faulty variant of EffectsHeldBy: only cycles that block the thread.     *)
EffectsHeldByBlocking(c) ==
  {d \in Made \ {c} :
     cycles[d].state = "manual_hold" /\ cycles[d].blocks_effects /\ cycles[d].blocks_thread}

(* The other cycles whose effects nobody knows.                            *)
EffectsHeldBy(c) ==
  {d \in Made \ {c} : cycles[d].state = "manual_hold" /\ cycles[d].blocks_effects}

(* While there are any, the owner goes on without the effect.              *)
AdmitEffects(o) ==
  LET c == job[o].cycle
  IN /\ job[o].at = "generating"
     /\ HoldsLease(o, c)
     /\ cycles[c].state = "processing"
     /\ ~cycles[c].effects
     /\ EffectsHeldBy(c) = {}
     /\ Put(c, [cycles[c] EXCEPT !.effects = TRUE])
     /\ UNCHANGED <<latest, coordinated, made, outbox, job>>

Newer(c) == {m \in Pending : Below(cycles[c].sources, {m})}

(* Faulty variant of ReplanEligible: a draft may follow admitted effects.  *)
ReplanEligibleAfterEffects(c) ==
  /\ Revisions(c) < MaxRevisions
  /\ cycles[c].started
  /\ ~cycles[c].prepared
  /\ cycles[c].successor = 0

(* Faulty variant of ReplanEligible: one revision too many.                *)
ReplanEligibleOnceMore(c) ==
  /\ Revisions(c) <= MaxRevisions
  /\ cycles[c].started
  /\ ~cycles[c].effects
  /\ ~cycles[c].prepared
  /\ cycles[c].successor = 0

(* What _chat_replan_eligible asks of the row.                             *)
ReplanEligible(c) ==
  /\ Revisions(c) < MaxRevisions
  /\ cycles[c].started
  /\ ~cycles[c].effects
  /\ ~cycles[c].prepared
  /\ cycles[c].successor = 0

Prepared(t) == [t EXCEPT !.state = "commit_ready", !.prepared = TRUE]

Withdrawn(t) ==
  [Released(t) EXCEPT
     !.state = "manual_hold", !.blocks_thread = FALSE, !.blocks_effects = FALSE,
     !.disposition = "superseded_precommit"]

(* A reply is a chat reply, which newer input may supersede, or not.       *)
PrepareOrSupersede(o) ==
  LET c == job[o].cycle
  IN /\ job[o].at = "generating"
     /\ HoldsLease(o, c)
     /\ cycles[c].state = "processing"
     /\ ~cycles[c].drifted
     /\ Newer(c) # {} => ValidAncestry(c)
     /\ \E chat \in BOOLEAN :
          IF Newer(c) # {} /\ chat /\ ReplanEligible(c)
          THEN /\ Put(c, Withdrawn(cycles[c]))
               /\ Return(o)
          ELSE /\ Put(c, Prepared(cycles[c]))
               /\ Go(o, "prepared")
     /\ UNCHANGED <<latest, coordinated, made, outbox>>

(* Another database: no lease is looked at, a delivery under the same key  *)
(* is the delivery.                                                        *)
EnqueuePrepared(o) ==
  LET c == job[o].cycle
  IN /\ job[o].at = "prepared"
     /\ outbox' = IF c \in Queued THEN outbox ELSE Append(outbox, c)
     /\ Go(o, "enqueued")
     /\ UNCHANGED <<latest, coordinated, made, cycles>>

BindPrepared(o) ==
  LET c == job[o].cycle
  IN /\ job[o].at = "enqueued"
     /\ HoldsLease(o, c)
     /\ cycles[c].state = "commit_ready"
     /\ ~cycles[c].drifted
     /\ Put(c, [Released(cycles[c]) EXCEPT !.state = "outbox_queued"])
     /\ Return(o)
     /\ UNCHANGED <<latest, coordinated, made, outbox>>

(* Each of these but the enqueue is refused once the lease is lost, and    *)
(* so is the report of the failure.                                        *)
LeaseLost(o) ==
  /\ job[o].at \in {"acquired", "generating", "enqueued"}
  /\ ~HoldsLease(o, job[o].cycle)
  /\ ~(job[o].recovering /\ cycles[job[o].cycle].drifted)
  /\ Return(o)
  /\ cycles' = [c \in CycleId |-> Forgotten(cycles[c], o)]
  /\ UNCHANGED <<latest, coordinated, made, outbox>>

Failed(t) ==
  [Released(t) EXCEPT
     !.state = IF t.state = "commit_ready" /\ t.prepared THEN "commit_ready"
               ELSE IF t.started THEN "manual_hold" ELSE "retryable",
     !.blocks_effects = t.started /\ ~(t.state = "commit_ready" /\ t.prepared)]

(* Any exception whose report is fenced in.  A request whose start could   *)
(* not be marked reports nothing.                                          *)
MarkFailure(o) ==
  LET c == job[o].cycle
  IN /\ job[o].at \in {"claimed", "acquired", "generating", "prepared", "enqueued"}
     /\ job[o].at = "acquired" => o = Coordinator
     /\ HoldsLease(o, c)
     /\ Put(c, Failed(cycles[c]))
     /\ Return(o)
     /\ UNCHANGED <<latest, coordinated, made, outbox>>

(* The owner is gone: its process stopped, or it could not even report.    *)
Vanish(o) ==
  /\ job[o].at # "idle"
  /\ Return(o)
  /\ cycles' = [c \in CycleId |-> Forgotten(cycles[c], o)]
  /\ UNCHANGED <<latest, coordinated, made, outbox>>

-----------------------------------------------------------------------------
(* reconcile_response_cycles, run by the coordinator between two threads.  *)

Reconciled == job[Coordinator].cycle

Found == job[Coordinator].row

Scan(c) ==
  /\ job[Coordinator].at = "idle"
  /\ c \in Blocking
  /\ cycles[c].state # "manual_hold"
  /\ Leasable(cycles[c])
  /\ job' = [job EXCEPT ![Coordinator] =
                [Idle EXCEPT !.at = "scanned", !.cycle = c,
                   !.row = [started |-> cycles[c].started, prepared |-> cycles[c].prepared,
                            attempt |-> cycles[c].attempt]]]
  /\ UNCHANGED <<latest, coordinated, made, cycles, outbox>>

LookUp ==
  /\ job[Coordinator].at = "scanned"
  /\ job' = [job EXCEPT ![Coordinator].at = "looked",
                        ![Coordinator].existing = Reconciled \in Queued]
  /\ UNCHANGED <<latest, coordinated, made, cycles, outbox>>

Exhausted == Found.attempt >= MaxAttempts

Held(t, effects) ==
  [Released(t) EXCEPT
     !.state = "manual_hold", !.blocks_thread = TRUE, !.blocks_effects = effects]

(* _hold: nothing happens to a cycle that is held or leased by now.        *)
Holdable(t) == t.state # "manual_hold" /\ t.state \in ActiveStates /\ Leasable(t)

HoldUnlessTaken(c, effects) ==
  IF Holdable(cycles[c]) THEN Put(c, Held(cycles[c], effects)) ELSE UNCHANGED cycles

(* Faulty variant of Uncertain: an exhausted reply is held without effects.*)
UncertainWhenStartedOnly == Found.started /\ ~Found.prepared

(* The effects are known to be none only before generation.                *)
Uncertain == Found.prepared \/ Found.started

HoldCycle ==
  /\ job[Coordinator].at = "looked"
  /\ IF Found.prepared THEN ~job[Coordinator].existing /\ Exhausted
     ELSE Found.started \/ Exhausted
  /\ HoldUnlessTaken(Reconciled, Uncertain)
  /\ Return(Coordinator)
  /\ UNCHANGED <<latest, coordinated, made, outbox>>

(* Only an existing delivery is bound without counting an attempt.         *)
ClaimPrepared ==
  LET c == Reconciled
      existing == job[Coordinator].existing
  IN /\ job[Coordinator].at = "looked"
     /\ Found.prepared
     /\ existing \/ ~Exhausted
     /\ IF /\ cycles[c].state = "commit_ready"
           /\ cycles[c].prepared
           /\ Leasable(cycles[c])
           /\ existing \/ cycles[c].attempt < MaxAttempts
        THEN /\ Put(c, [Leased(cycles[c], Coordinator) EXCEPT
                          !.attempt = IF existing THEN @ ELSE @ + 1])
             /\ job' = [job EXCEPT ![Coordinator].at = "claimed",
                                   ![Coordinator].recovering = TRUE]
        ELSE Return(Coordinator) /\ UNCHANGED cycles
     /\ UNCHANGED <<latest, coordinated, made, outbox>>

LoadPrepared ==
  /\ job[Coordinator].at = "claimed"
  /\ ~cycles[Reconciled].drifted
  /\ Go(Coordinator, IF job[Coordinator].existing THEN "enqueued" ELSE "prepared")
  /\ UNCHANGED <<latest, coordinated, made, cycles, outbox>>

(* Any other exception of the recovery holds the cycle, unless the lease   *)
(* that the recovery itself took still runs.  Drift is the only cause here:*)
(* a ready row always has its reply, which is prepared once, and its two   *)
(* identities come from the cycle's id, so the holds for a missing,        *)
(* differing or conflicting one have no state to happen in.                *)
RecoveryRefused ==
  LET c == Reconciled
  IN /\ job[Coordinator].recovering
     /\ job[Coordinator].at \in {"claimed", "enqueued"}
     /\ cycles[c].drifted
     /\ IF Holdable(cycles[c]) THEN Put(c, Held(cycles[c], TRUE))
        ELSE cycles' = [d \in CycleId |-> Forgotten(cycles[d], Coordinator)]
     /\ Return(Coordinator)
     /\ UNCHANGED <<latest, coordinated, made, outbox>>

(* Faulty variant of Reclaimable: a failure without a lease is overlooked. *)
ReclaimableExpired(t) ==
  /\ t.blocks_thread
  /\ ~t.started
  /\ t.attempt < MaxAttempts
  /\ t.state = "processing" /\ t.lease = "expired"

Reclaimable(t) ==
  /\ t.blocks_thread
  /\ ~t.started
  /\ t.attempt < MaxAttempts
  /\ \/ t.state = "processing" /\ t.lease = "expired"
     \/ t.state = "retryable" /\ t.lease = "none"

Reclaim ==
  LET c == Reconciled
  IN /\ job[Coordinator].at = "looked"
     /\ ~Found.prepared /\ ~Found.started /\ ~Exhausted
     /\ IF Reclaimable(cycles[c])
        THEN /\ Put(c, [Leased(cycles[c], Coordinator) EXCEPT
                          !.state = "processing", !.attempt = @ + 1])
             /\ Go(Coordinator, "acquired")
        ELSE Return(Coordinator) /\ UNCHANGED cycles
     /\ UNCHANGED <<latest, coordinated, made, outbox>>

-----------------------------------------------------------------------------
(* Time, the settings and the operator.                                    *)

Recovering(c) == job[Coordinator].recovering /\ Reconciled = c

ExpireLease(c) ==
  /\ cycles[c].lease = "live"
  /\ PromptRecovery => ~Recovering(c)
  /\ Put(c, [cycles[c] EXCEPT !.lease = "expired"])
  /\ UNCHANGED <<latest, coordinated, made, outbox, job>>

(* Every cycle records a fingerprint of the revisions of all settings.     *)
WriteSetting ==
  /\ SettingsChange
  /\ cycles' = [c \in CycleId |->
                  IF c \in Made THEN [cycles[c] EXCEPT !.drifted = TRUE] ELSE cycles[c]]
  /\ UNCHANGED <<latest, coordinated, made, outbox, job>>

EffectsUnknown(t) == t.started \/ t.effects

Isolate(c) ==
  /\ cycles[c].state = "manual_hold"
  /\ cycles[c].blocks_thread
  /\ Put(c, [cycles[c] EXCEPT
               !.blocks_thread = FALSE, !.blocks_effects = EffectsUnknown(cycles[c]),
               !.disposition = "isolated"])
  /\ UNCHANGED <<latest, coordinated, made, outbox, job>>

ResolveEffects(c) ==
  /\ cycles[c].state = "manual_hold"
  /\ ~cycles[c].blocks_thread
  /\ cycles[c].blocks_effects
  /\ Put(c, [cycles[c] EXCEPT !.blocks_effects = FALSE, !.disposition = "effects_resolved"])
  /\ UNCHANGED <<latest, coordinated, made, outbox, job>>

OwnerStep(o) ==
  \/ MarkGenerationStarted(o)
  \/ AdmitEffects(o)
  \/ PrepareOrSupersede(o)
  \/ EnqueuePrepared(o)
  \/ BindPrepared(o)
  \/ LeaseLost(o)

Reconcile ==
  \/ \E c \in CycleId : Scan(c)
  \/ LookUp
  \/ HoldCycle
  \/ ClaimPrepared
  \/ LoadPrepared
  \/ RecoveryRefused
  \/ Reclaim

Operator == \E c \in CycleId : Isolate(c) \/ ResolveEffects(c)

CyclesNext ==
  \/ AcceptPrivateIngress
  \/ \E o \in HttpThread : DispatchPrivateTurn(o)
  \/ ProcessThread
  \/ Reconcile
  \/ \E o \in Owner : OwnerStep(o) \/ MarkFailure(o) \/ Vanish(o)
  \/ \E c \in CycleId : ExpireLease(c)
  \/ WriteSetting
  \/ Operator

CyclesSpec == CyclesInit /\ [][CyclesNext]_cycleVars

-----------------------------------------------------------------------------
(* Properties.                                                             *)

(* The thread is blocked by one cycle at most (the unique index            *)
(* idx_response_cycles_active_thread): neither a hold nor a recovery makes *)
(* a cycle block again that was set aside.                                 *)
OneCyclePerThread == \A c, d \in Blocking : c = d

Covered(c) == UNION {cycles[d].sources : d \in Lineage(c)}

(* No message is answered by two deliveries, whatever was superseded,      *)
(* reclaimed, recovered or enqueued late: a delivery answers the sources   *)
(* of its cycle and of the drafts that the cycle carries on.               *)
AnsweredOnce ==
  /\ \A i, j \in 1..Len(outbox) : outbox[i] = outbox[j] => i = j
  /\ \A c, d \in Queued : c # d => Covered(c) \cap Covered(d) = {}

(* Replies enter the Outbox in the order of the messages they answer.      *)
(* Only a cycle that the operator has isolated may be late, since its      *)
(* owner may be alive and the enqueue looks at no lease.                   *)
RepliesInOrder ==
  \A i, j \in 1..Len(outbox) :
     i < j => outbox[i] < outbox[j] \/ cycles[outbox[j]].disposition \in {"isolated", "effects_resolved"}

(* The cycle row never denies what the Outbox holds: a bound cycle has its *)
(* delivery, and one with a delivery is bound, to be bound, or held with   *)
(* its effects in doubt until the operator has resolved them.              *)
OutboxFactAgrees ==
  \A c \in Made :
     /\ cycles[c].state = "outbox_queued" => c \in Queued
     /\ c \in Queued =>
          \/ cycles[c].state \in {"commit_ready", "outbox_queued"}
          \/ /\ cycles[c].state = "manual_hold"
             /\ cycles[c].blocks_effects \/ cycles[c].disposition = "effects_resolved"

(* A cycle admits effects only when every earlier one that began to        *)
(* generate is bound, superseded before it had any, or resolved by the     *)
(* operator: effects in doubt are never built upon.                        *)
EffectsFenced ==
  \A c, d \in Made :
     d < c /\ cycles[c].effects /\ cycles[d].started =>
       \/ cycles[d].state = "outbox_queued"
       \/ Superseded(cycles[d])
       \/ cycles[d].disposition = "effects_resolved"

(* A draft that newer input superseded had no effect, is not in the Outbox *)
(* and nobody is about to put it there.                                    *)
SupersededIsSilent ==
  \A c \in Made :
     Superseded(cycles[c]) =>
       /\ ~cycles[c].effects
       /\ c \notin Queued
       /\ \A o \in Owner : job[o].cycle = c => job[o].at \notin {"prepared", "enqueued"}

Generates(o) ==
  job[o].at \in {"generating", "prepared", "enqueued"} /\ ~job[o].recovering

(* However a lease is lost, expires or is taken over, one owner at most is *)
(* past the start of the generation of a cycle.                            *)
OneGenerator ==
  \A o, p \in Owner :
     Generates(o) /\ Generates(p) /\ job[o].cycle = job[p].cycle => o = p

(* The bound on revisions that supersedes drafts agrees with the one that  *)
(* accepts successors: whenever a new cycle could be acquired, the draft   *)
(* that it would carry on passes the validation of its ancestry.           *)
SuccessorAccepted ==
  Blocking = {} /\ Pending # {} => \A p \in Predecessor(Pending) : MayFollow(p)

-----------------------------------------------------------------------------
(* The inductive invariant behind the safety properties.                   *)

(* What the columns of one cycle say of each other.                        *)
RowAgrees(t) ==
  /\ t.effects \/ t.prepared => t.started
  /\ t.holder # Nobody => t.lease # "none"
  /\ t.state \in {"absent", "retryable", "manual_hold", "outbox_queued"} => t.lease = "none"
  /\ t.state = "processing" => ~t.prepared
  /\ t.state = "retryable" => ~t.started
  /\ t.state \in {"commit_ready", "outbox_queued"} => t.prepared
  /\ t.state \in ActiveStates => (t.blocks_thread <=> t.disposition = "none")
  /\ t.disposition # "none" => t.state = "manual_hold"
  /\ t.state = "manual_hold" /\ t.started =>
       t.blocks_effects \/ t.disposition \in {"superseded_precommit", "effects_resolved"}
  /\ t.disposition = "superseded_precommit" =>
       ~t.effects /\ ~t.prepared /\ ~t.blocks_effects

(* What an owner knows of the cycle it works on.                           *)
JobAgrees(o) ==
  LET j == job[o]
      t == cycles[j.cycle]
  IN /\ j.at \in {"scanned", "looked", "claimed"} => o = Coordinator
     /\ j.at \in {"scanned", "looked"} =>
          Leasable(t) /\ j.row.started = t.started /\ j.row.prepared = t.prepared
     /\ j.at \in {"looked", "claimed"} /\ j.existing => j.cycle \in Queued
     /\ j.at = "claimed" => j.recovering
     /\ j.at = "generating" => t.started
     /\ j.at \in {"claimed", "prepared", "enqueued"} => t.prepared
     /\ j.at = "enqueued" => j.cycle \in Queued

(* Only the newest cycle can block the thread.                             *)
NewestBlocks == \A c \in Made : c < made => c \notin Blocking

QueuedAgrees ==
  /\ \A i \in 1..Len(outbox) : outbox[i] \in Made /\ cycles[outbox[i]].prepared
  /\ \A c \in Made : cycles[c].state = "outbox_queued" => c \in Queued

(* A generation begins before a reply, a reply is prepared before it is    *)
(* queued, only the newest cycle blocks, and each owner knows of its cycle *)
(* what the columns say: the facts from which the properties above follow. *)
CyclesInv ==
  /\ CyclesTypeOK
  /\ \A c \in CycleId : RowAgrees(cycles[c])
  /\ \A o \in Owner : JobAgrees(o)
  /\ NewestBlocks
  /\ QueuedAgrees
  /\ EffectsFenced
  /\ OneGenerator
  /\ RepliesInOrder

(* Cycles, read in their order, take up the messages in theirs.            *)
InSequence ==
  /\ \A c \in Made : cycles[c].sources # {} /\ cycles[c].sources \subseteq 1..latest
  /\ \A c, d \in Made : c < d => Below(cycles[c].sources, cycles[d].sources)
  /\ \A c \in Made : Below(cycles[c].sources, Pending)

(* A cycle continues an earlier one, which it was validated to follow.     *)
HopsHold ==
  /\ \A c \in CycleId : cycles[c].predecessor < c
  /\ \A c \in Made : cycles[c].predecessor # 0 => ValidHop(cycles[c].predecessor, c)

(* A draft is superseded only when one more revision is possible.          *)
LinesBounded ==
  \A c \in Made :
     /\ Revisions(c) <= MaxRevisions
     /\ Superseded(cycles[c]) => Revisions(c) < MaxRevisions

(* The next cycle carries a superseded draft on, and no other one does.    *)
CarriedOn ==
  \A c \in Made :
     /\ Superseded(cycles[c]) /\ c < made => cycles[c].successor # 0
     /\ cycles[c].successor # 0 =>
          cycles[c].successor \in Made /\ cycles[cycles[c].successor].predecessor = c

(* Of two cycles with a draft in common, one carries the other on.         *)
LinesApart ==
  \A c, d \in Made : c < d /\ Lineage(c) \cap Lineage(d) # {} => c \in Lineage(d)

EnqueuedOnce == \A i, j \in 1..Len(outbox) : outbox[i] = outbox[j] => i = j

(* What the cycles have become so far keeps every message in one line of   *)
(* drafts: the facts from which it follows that no message is answered     *)
(* twice and that a successor is accepted.                                 *)
HistoryInv ==
  /\ CyclesInv
  /\ InSequence
  /\ HopsHold
  /\ LinesBounded
  /\ CarriedOn
  /\ LinesApart
  /\ EnqueuedOnce

-----------------------------------------------------------------------------
(* What the conversation shows of its cycles.                              *)

Fate(c) ==
  CASE c \in Queued -> "answered"
    [] c \notin Queued /\ Superseded(cycles[c]) -> "withdrawn"
    [] c \notin Queued /\ cycles[c].state = "manual_hold" /\ ~Superseded(cycles[c]) -> "held"
    [] c \notin Queued /\ cycles[c].state # "manual_hold" -> "open"

Turns == [c \in 1..made |-> [messages |-> Covered(c), fate |-> Fate(c)]]

Promise == INSTANCE AnswerPromise WITH accepted <- latest, turns <- Turns

(* Messages are taken up in order and one turn at a time; a turn takes     *)
(* over exactly what a withdrawn one has left, none is reopened after a    *)
(* hold or an answer, and a draft is withdrawn only when newer messages    *)
(* wait.                                                                   *)
KeepsAnswerPromise == Promise!PromiseSpec

-----------------------------------------------------------------------------
(* Liveness.                                                               *)

(* The coordinator scans once a second and its database errors are         *)
(* transient: it does not fail for ever at the same step.  Threads inside  *)
(* a cycle go on unless they vanish; leases run out.  The operator and the *)
(* plug-in owe nothing.                                                    *)
CyclesFairness ==
  /\ WF_cycleVars(ProcessThread)
  /\ \A c \in CycleId : WF_cycleVars(Scan(c))
  /\ SF_cycleVars(LookUp)
  /\ SF_cycleVars(HoldCycle)
  /\ SF_cycleVars(ClaimPrepared)
  /\ SF_cycleVars(LoadPrepared)
  /\ SF_cycleVars(EnqueuePrepared(Coordinator))
  /\ SF_cycleVars(BindPrepared(Coordinator))
  /\ SF_cycleVars(RecoveryRefused)
  /\ SF_cycleVars(Reclaim)
  /\ \A o \in Owner : WF_cycleVars(OwnerStep(o))
  /\ \A c \in CycleId : WF_cycleVars(ExpireLease(c))

FairCyclesSpec == CyclesSpec /\ CyclesFairness

Settled(m) ==
  \E c \in Made :
     /\ m \in Covered(c)
     /\ cycles[c].state \in {"outbox_queued", "manual_hold"}
     /\ ~Superseded(cycles[c])

(* What only others can change: a held cycle, more messages than a cycle   *)
(* takes, a message that the plug-in has to dispatch.                      *)
Waiting ==
  \/ \E c \in Blocking : cycles[c].state = "manual_hold"
  \/ Cardinality(Pending) > MaxSources
  \/ Pending \ coordinated # {}

(* No message of the second version is forgotten: a reply is bound to the  *)
(* Outbox, or the operator is shown a held cycle, through crashes, lost    *)
(* leases and superseded drafts alike.                                     *)
NoMessageStranded == \A m \in MessageId : m \in coordinated ~> Settled(m) \/ Waiting

(* "Bounded recovery state machine for continuous private response         *)
(* cycles": recovery ends, a prepared reply is bound or held.              *)
RecoveryIsBounded ==
  \A c \in CycleId :
     cycles[c].state = "commit_ready" ~> cycles[c].state \in {"outbox_queued", "manual_hold"}
=============================================================================
