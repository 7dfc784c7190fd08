------------------------- MODULE ResponseCycle_proofs -------------------------
(***************************************************************************)
(* Proofs about ResponseCycle, for any number of request threads, messages *)
(* and cycles, and any bounds on sources, revisions and attempts.          *)
(***************************************************************************)
EXTENDS ResponseCycle, TLAPS, WellFoundedInduction, FiniteSetTheorems, SequenceTheorems

Blocks(t) == t.state \in ActiveStates /\ t.blocks_thread

(* A cycle whose effects nobody has to wait for.                           *)
Past(t) ==
  \/ t.state = "outbox_queued"
  \/ Superseded(t)
  \/ t.disposition = "effects_resolved"

Late(t) == t.disposition \in {"isolated", "effects_resolved"}

(* How a row may change, and how while the reconciler is looking at it.    *)
Evolves(r, t) ==
  /\ t \in Cycle
  /\ RowAgrees(t)
  /\ t.attempt <= MaxAttempts
  /\ t.state # "absent"
  /\ r.started => t.started
  /\ r.prepared => t.prepared
  /\ Blocks(t) => Blocks(r)
  /\ Past(r) => Past(t)
  /\ Late(r) => Late(t)
  /\ t.started => r.started \/ Blocks(r)

Frozen(r, t) ==
  Leasable(r) => Leasable(t) /\ t.started = r.started /\ t.prepared = r.prepared

(* What every owner but the one that moves needs of a changed row.         *)
Changes(c, o) ==
  /\ c \in Made
  /\ Evolves(cycles[c], cycles'[c])
  /\ o = Coordinator \/ Frozen(cycles[c], cycles'[c])
  /\ cycles'[c].state = "outbox_queued" => c \in Queued
  /\ cycles'[c].effects =>
       \/ cycles[c].effects
       \/ \A d \in Made : d < c /\ cycles[d].started => Past(cycles[d])

-----------------------------------------------------------------------------
(* The typing facts that most steps need.                                  *)
LEMMA Typing ==
  ASSUME CyclesTypeOK
  PROVE  /\ made \in 0..MaxMessages /\ Made \subseteq CycleId
         /\ \A c \in CycleId : cycles[c] \in Cycle /\ (cycles[c].state = "absent" <=> c > made)
         /\ \A c \in CycleId : cycles[c].attempt <= MaxAttempts
         /\ outbox \in Seq(CycleId) /\ Queued \subseteq CycleId
         /\ \A o \in Owner : job[o] \in Job /\ (job[o].at # "idle" => job[o].cycle \in Made)
         /\ Coordinator \in Owner /\ Nobody \notin Owner
<1>1. made \in 0..MaxMessages /\ Made \subseteq CycleId
  BY CycleAssumption DEF CyclesTypeOK, Made, CycleId
<1>2. \A c \in CycleId :
        /\ cycles[c] \in Cycle /\ (cycles[c].state = "absent" <=> c > made)
        /\ cycles[c].attempt <= MaxAttempts
  BY DEF CyclesTypeOK
<1>3. outbox \in Seq(CycleId) /\ Queued \subseteq CycleId
  BY DEF CyclesTypeOK, Queued
<1>4. \A o \in Owner : job[o] \in Job /\ (job[o].at # "idle" => job[o].cycle \in Made)
  BY DEF CyclesTypeOK, Made
<1>5. Coordinator \in Owner /\ Nobody \notin Owner
  BY CycleAssumption DEF Owner
<1> QED BY <1>1, <1>2, <1>3, <1>4, <1>5

(* A step of one owner that changes rows as they may change keeps the      *)
(* invariant.                                                              *)
LEMMA RowsStep ==
  ASSUME CyclesInv, NEW o \in Owner, NEW j \in Job,
         cycles' \in [CycleId -> Cycle],
         job' = [job EXCEPT ![o] = j], j.at # "idle" => j.cycle \in Made,
         UNCHANGED <<latest, coordinated, made, outbox>>,
         \A c \in CycleId : cycles'[c] = cycles[c] \/ Changes(c, o),
         JobAgrees(o)',
         Generates(o)' => \A p \in Owner : Generates(p) /\ job[p].cycle = j.cycle => p = o
  PROVE  CyclesInv'
<1>0. CyclesTypeOK
  BY DEF CyclesInv
<1>1. /\ Made' = Made /\ Queued' = Queued
      /\ job'[o] = j /\ \A p \in Owner : p # o => job'[p] = job[p]
  BY DEF Made, Queued, CyclesInv, CyclesTypeOK
<1>2. CyclesTypeOK'
  <2>1. \A c \in CycleId :
          /\ cycles'[c].state = "absent" <=> c > made
          /\ cycles'[c].attempt <= MaxAttempts
          /\ cycles'[c].holder # Nobody => cycles'[c].lease # "none"
    <3> SUFFICES ASSUME NEW c \in CycleId
                 PROVE  /\ cycles'[c].state = "absent" <=> c > made
                        /\ cycles'[c].attempt <= MaxAttempts
                        /\ cycles'[c].holder # Nobody => cycles'[c].lease # "none"
      OBVIOUS
    <3>1. CASE cycles'[c] = cycles[c]
      BY <1>0, <3>1 DEF CyclesTypeOK
    <3>2. CASE Changes(c, o)
      <4>1. ~(c > made)
        BY <1>0, <3>2 DEF Changes, Made, CyclesTypeOK
      <4> QED BY <3>2, <4>1 DEF Changes, Evolves, RowAgrees
    <3> QED BY <3>1, <3>2
  <2>2. job' \in [Owner -> Job]
    BY <1>0 DEF CyclesTypeOK
  <2>3. \A p \in Owner : job'[p].at # "idle" => job'[p].cycle \in 1..made
    BY <1>0, <1>1 DEF CyclesTypeOK, Made
  <2> QED BY <1>0, <2>1, <2>2, <2>3 DEF CyclesTypeOK
<1>3. \A c \in CycleId : RowAgrees(cycles'[c])
  BY DEF CyclesInv, Changes, Evolves
<1>4. \A c \in Made :
        /\ cycles[c].started => cycles'[c].started
        /\ cycles[c].prepared => cycles'[c].prepared
        /\ Blocks(cycles'[c]) => Blocks(cycles[c])
        /\ Past(cycles[c]) => Past(cycles'[c])
        /\ Late(cycles[c]) => Late(cycles'[c])
        /\ cycles'[c].started => cycles[c].started \/ Blocks(cycles[c])
        /\ o = Coordinator \/ Frozen(cycles[c], cycles'[c])
        /\ cycles'[c].state = "outbox_queued" => c \in Queued
        /\ cycles'[c].effects =>
             \/ cycles[c].effects
             \/ \A d \in Made : d < c /\ cycles[d].started => Past(cycles[d])
  <2> SUFFICES ASSUME NEW c \in Made
               PROVE  /\ cycles[c].started => cycles'[c].started
                      /\ cycles[c].prepared => cycles'[c].prepared
                      /\ Blocks(cycles'[c]) => Blocks(cycles[c])
                      /\ Past(cycles[c]) => Past(cycles'[c])
                      /\ Late(cycles[c]) => Late(cycles'[c])
                      /\ cycles'[c].started => cycles[c].started \/ Blocks(cycles[c])
                      /\ o = Coordinator \/ Frozen(cycles[c], cycles'[c])
                      /\ cycles'[c].state = "outbox_queued" => c \in Queued
                      /\ cycles'[c].effects =>
                           \/ cycles[c].effects
                           \/ \A d \in Made : d < c /\ cycles[d].started => Past(cycles[d])
    OBVIOUS
  <2>1. c \in CycleId
    BY <1>0, Typing
  <2>2. CASE cycles'[c] = cycles[c]
    BY <2>2 DEF CyclesInv, QueuedAgrees, Frozen
  <2>3. CASE Changes(c, o)
    BY <2>3 DEF Changes, Evolves
  <2> QED BY <2>1, <2>2, <2>3
<1>5. \A p \in Owner : JobAgrees(p)'
  <2> SUFFICES ASSUME NEW p \in Owner, p # o PROVE JobAgrees(p)'
    OBVIOUS
  <2>1. JobAgrees(p) /\ job'[p] = job[p]
    BY <1>1 DEF CyclesInv
  <2>2. CASE job[p].at = "idle"
    BY <2>1, <2>2 DEF JobAgrees
  <2>3. CASE job[p].at # "idle"
    <3>1. job[p].cycle \in Made
      BY <1>0, <2>3, Typing
    <3>2. job[p].at \in {"scanned", "looked"} => Frozen(cycles[job[p].cycle], cycles'[job[p].cycle])
      BY <1>4, <2>1, <3>1 DEF JobAgrees
    <3> QED BY <1>1, <1>4, <2>1, <3>1, <3>2 DEF JobAgrees, Frozen
  <2> QED BY <2>2, <2>3
<1>6. NewestBlocks'
  BY <1>1, <1>4 DEF CyclesInv, NewestBlocks, Blocking, Blocks
<1>7. QueuedAgrees'
  BY <1>1, <1>4 DEF CyclesInv, QueuedAgrees
<1>8. EffectsFenced'
  <2> SUFFICES ASSUME NEW c \in Made, NEW d \in Made, d < c, cycles'[c].effects, cycles'[d].started
               PROVE  Past(cycles'[d])
    BY <1>1 DEF EffectsFenced, Past
  <2>1. d < made
    BY <1>0, Typing DEF Made
  <2>2. ~Blocks(cycles[d])
    BY <2>1 DEF CyclesInv, NewestBlocks, Blocking, Blocks
  <2>3. cycles[d].started
    BY <1>4, <2>2
  <2>4. Past(cycles[d])
    BY <1>4, <2>3 DEF CyclesInv, EffectsFenced, Past
  <2> QED BY <1>4, <2>4
<1>9. OneGenerator'
  <2>1. \A p \in Owner : p # o => (Generates(p)' <=> Generates(p)) /\ job'[p].cycle = job[p].cycle
    BY <1>1 DEF Generates
  <2> QED BY <1>1, <2>1 DEF CyclesInv, OneGenerator
<1>10. RepliesInOrder'
  <2> SUFFICES ASSUME NEW i \in 1..Len(outbox), NEW k \in 1..Len(outbox), i < k
               PROVE  outbox[i] < outbox[k] \/ Late(cycles'[outbox[k]])
    BY DEF RepliesInOrder, Late
  <2>1. outbox[i] < outbox[k] \/ Late(cycles[outbox[k]])
    BY DEF CyclesInv, RepliesInOrder, Late
  <2>2. outbox[k] \in Made
    BY DEF CyclesInv, QueuedAgrees
  <2> QED BY <1>4, <2>1, <2>2
<1> QED
  BY <1>1, <1>2, <1>3, <1>5, <1>6, <1>7, <1>8, <1>9, <1>10 DEF CyclesInv

-----------------------------------------------------------------------------
(* What each update does to a row.                                         *)

Sound(r) ==
  /\ r \in Cycle
  /\ RowAgrees(r)
  /\ r.attempt <= MaxAttempts
  /\ r.state # "absent"

Work(r) == r.state \in {"processing", "commit_ready", "retryable"}

LEMMA WorkBlocks ==
  ASSUME NEW r, Sound(r), Work(r)
  PROVE  Blocks(r) /\ r.disposition = "none"
BY DEF Sound, Work, RowAgrees, Blocks, ActiveStates

LEMMA StartEvolves ==
  ASSUME NEW r, Sound(r), r.state = "processing"
  PROVE  Evolves(r, [r EXCEPT !.started = TRUE])
<1>1. Blocks(r)
  BY WorkBlocks DEF Work
<1> QED BY <1>1 DEF Evolves, Sound, RowAgrees, Blocks, Past, Late, Superseded, Cycle, ActiveStates

LEMMA AdmitEvolves ==
  ASSUME NEW r, Sound(r), r.state = "processing", r.started
  PROVE  Evolves(r, [r EXCEPT !.effects = TRUE])
<1>1. Blocks(r) /\ r.disposition = "none"
  BY WorkBlocks DEF Work
<1> QED BY <1>1 DEF Evolves, Sound, RowAgrees, Blocks, Past, Late, Superseded, Cycle, ActiveStates

LEMMA PrepareEvolves ==
  ASSUME NEW r, Sound(r), r.state = "processing", r.started
  PROVE  Evolves(r, Prepared(r))
<1>1. Blocks(r) /\ r.disposition = "none"
  BY WorkBlocks DEF Work
<1>2. Prepared(r) \in Cycle
  BY DEF Prepared, Sound, Cycle, CycleState, ActiveStates
<1> QED BY <1>1, <1>2 DEF Evolves, Prepared, Sound, RowAgrees, Blocks, Past, Late, Superseded, Cycle, ActiveStates

LEMMA WithdrawEvolves ==
  ASSUME NEW r, Sound(r), r.state = "processing", ~r.effects, ~r.prepared
  PROVE  Evolves(r, Withdrawn(r))
<1>1. Blocks(r) /\ r.disposition = "none"
  BY WorkBlocks DEF Work
<1>2. Withdrawn(r) \in Cycle
  BY DEF Withdrawn, Released, Sound, Cycle, CycleState, ActiveStates, Disposition
<1> QED
  BY <1>1, <1>2
     DEF Evolves, Withdrawn, Released, Sound, RowAgrees, Blocks, Past, Late, Superseded, Cycle,
         ActiveStates

LEMMA BindEvolves ==
  ASSUME NEW r, Sound(r), r.state = "commit_ready"
  PROVE  Evolves(r, [Released(r) EXCEPT !.state = "outbox_queued"])
<1>1. Blocks(r) /\ r.disposition = "none"
  BY WorkBlocks DEF Work
<1>2. [Released(r) EXCEPT !.state = "outbox_queued"] \in Cycle
  BY DEF Released, Sound, Cycle, CycleState
<1> QED
  BY <1>1, <1>2
     DEF Evolves, Released, Sound, RowAgrees, Blocks, Past, Late, Superseded, Cycle, ActiveStates

LEMMA FailEvolves ==
  ASSUME NEW r, Sound(r), r.lease = "live"
  PROVE  Evolves(r, Failed(r))
<1>1. r.state \in {"processing", "commit_ready"}
  BY DEF Sound, RowAgrees, Cycle, CycleState, ActiveStates
<1>2. Blocks(r) /\ r.disposition = "none"
  BY <1>1, WorkBlocks DEF Work
<1> DEFINE t == Failed(r)
<1>3. t \in Cycle
  <2> DEFINE kept == r.state = "commit_ready" /\ r.prepared
             place == IF kept THEN "commit_ready"
                      ELSE IF r.started THEN "manual_hold" ELSE "retryable"
             doubt == r.started /\ ~kept
  <2>1. t = [Released(r) EXCEPT !.state = place, !.blocks_effects = doubt]
    BY DEF Failed
  <2>2. place \in CycleState
    BY DEF CycleState, ActiveStates
  <2>3. doubt \in BOOLEAN
    OBVIOUS
  <2>4. Released(r) \in Cycle
    BY DEF Released, Sound, Cycle
  <2> HIDE DEF place, doubt, t
  <2> QED BY <2>1, <2>2, <2>3, <2>4 DEF Cycle
<1>4. /\ t.lease = "none" /\ t.holder = Nobody
      /\ t.blocks_thread = r.blocks_thread /\ t.disposition = r.disposition
      /\ t.attempt = r.attempt
      /\ t.started = r.started /\ t.effects = r.effects /\ t.prepared = r.prepared
  BY DEF Failed, Released, Sound, Cycle
<1>5. \/ r.state = "commit_ready" /\ t.state = "commit_ready"
      \/ ~r.started /\ t.state = "retryable"
      \/ r.started /\ ~r.prepared /\ t.state = "manual_hold" /\ t.blocks_effects
  BY <1>1 DEF Failed, Released, Sound, Cycle, RowAgrees
<1> HIDE DEF t
<1>6. RowAgrees(t)
  BY <1>2, <1>4, <1>5 DEF RowAgrees, Sound, ActiveStates, Blocks
<1>7. Evolves(r, t)
  BY <1>1, <1>2, <1>3, <1>4, <1>5, <1>6 DEF Evolves, Sound, Blocks, Past, Late, Superseded
<1> QED BY <1>7 DEF t

LEMMA ForgetEvolves ==
  ASSUME NEW r, Sound(r), NEW o
  PROVE  Evolves(r, Forgotten(r, o)) /\ Frozen(r, Forgotten(r, o))
<1>1. Forgotten(r, o) \in Cycle
  BY DEF Forgotten, Sound, Cycle
<1> QED
  BY <1>1
     DEF Evolves, Frozen, Forgotten, Leasable, Sound, RowAgrees, Blocks, Past, Late, Superseded,
         Cycle, ActiveStates

LEMMA HoldEvolves ==
  ASSUME NEW r, Sound(r), NEW e \in BOOLEAN, Holdable(r), r.started => e
  PROVE  Evolves(r, Held(r, e))
<1>1. Work(r)
  BY DEF Holdable, Work, ActiveStates
<1>2. Blocks(r) /\ r.disposition = "none"
  BY <1>1, WorkBlocks
<1>3. Held(r, e) \in Cycle
  BY DEF Held, Released, Sound, Cycle, CycleState, ActiveStates
<1>4. /\ Held(r, e).state = "manual_hold" /\ Held(r, e).lease = "none"
      /\ Held(r, e).holder = Nobody
      /\ Held(r, e).blocks_thread = TRUE /\ Held(r, e).blocks_effects = e
      /\ Held(r, e).disposition = "none" /\ Held(r, e).attempt = r.attempt
      /\ Held(r, e).started = r.started /\ Held(r, e).effects = r.effects
      /\ Held(r, e).prepared = r.prepared
  BY <1>2 DEF Held, Released, Sound, Cycle
<1>5. RowAgrees(Held(r, e))
  BY <1>4 DEF RowAgrees, Sound, ActiveStates
<1> QED
  BY <1>1, <1>2, <1>3, <1>4, <1>5
     DEF Evolves, Sound, Blocks, Past, Late, Superseded, Work

LEMMA ClaimEvolves ==
  ASSUME NEW r, Sound(r), NEW o \in Owner, r.state = "commit_ready", NEW n \in Nat,
         n <= MaxAttempts
  PROVE  Evolves(r, [Leased(r, o) EXCEPT !.attempt = n])
<1>1. Blocks(r) /\ r.disposition = "none"
  BY WorkBlocks DEF Work
<1>2. [Leased(r, o) EXCEPT !.attempt = n] \in Cycle
  BY DEF Leased, Sound, Cycle
<1> QED
  BY <1>1, <1>2
     DEF Evolves, Leased, Sound, RowAgrees, Blocks, Past, Late, Superseded, Cycle, ActiveStates

LEMMA ReclaimEvolves ==
  ASSUME NEW r, Sound(r), NEW o \in Owner, Reclaimable(r)
  PROVE  Evolves(r, [Leased(r, o) EXCEPT !.state = "processing", !.attempt = @ + 1])
<1> DEFINE t == [Leased(r, o) EXCEPT !.state = "processing", !.attempt = r.attempt + 1]
<1>1. Work(r)
  BY DEF Reclaimable, Work
<1>2. Blocks(r) /\ r.disposition = "none"
  BY <1>1, WorkBlocks
<1>3. r.attempt + 1 \in Nat /\ r.attempt + 1 <= MaxAttempts
  BY CycleAssumption DEF Reclaimable, Sound, Cycle
<1>4. t \in Cycle
  BY <1>3 DEF Leased, Sound, Cycle, CycleState, ActiveStates
<1>5. ~r.prepared
  BY DEF Sound, RowAgrees, Reclaimable
<1>6. Evolves(r, t)
  BY <1>1, <1>2, <1>3, <1>4, <1>5
     DEF Evolves, Leased, Sound, RowAgrees, Blocks, Past, Late, Superseded, Cycle, ActiveStates,
         Reclaimable
<1>7. t = [Leased(r, o) EXCEPT !.state = "processing", !.attempt = @ + 1]
  BY DEF Leased, Sound, Cycle
<1> QED BY <1>6, <1>7

LEMMA ExpireEvolves ==
  ASSUME NEW r, Sound(r), r.lease = "live"
  PROVE  LET t == [r EXCEPT !.lease = "expired"]
         IN Evolves(r, t) /\ Frozen(r, t)
<1>1. [r EXCEPT !.lease = "expired"] \in Cycle
  BY DEF Sound, Cycle
<1> QED
  BY <1>1
     DEF Evolves, Frozen, Leasable, Sound, RowAgrees, Blocks, Past, Late, Superseded, Cycle,
         ActiveStates

LEMMA DriftEvolves ==
  ASSUME NEW r, Sound(r)
  PROVE  LET t == [r EXCEPT !.drifted = TRUE]
         IN Evolves(r, t) /\ Frozen(r, t)
<1>1. [r EXCEPT !.drifted = TRUE] \in Cycle
  BY DEF Sound, Cycle
<1> QED
  BY <1>1
     DEF Evolves, Frozen, Leasable, Sound, RowAgrees, Blocks, Past, Late, Superseded, Cycle,
         ActiveStates

LEMMA IsolateEvolves ==
  ASSUME NEW r, Sound(r), r.state = "manual_hold", r.blocks_thread
  PROVE  LET t == [r EXCEPT !.blocks_thread = FALSE, !.blocks_effects = EffectsUnknown(r),
                            !.disposition = "isolated"]
         IN Evolves(r, t) /\ Frozen(r, t)
<1> DEFINE t == [r EXCEPT !.blocks_thread = FALSE, !.blocks_effects = EffectsUnknown(r),
                          !.disposition = "isolated"]
<1>0. EffectsUnknown(r) \in BOOLEAN
  BY DEF EffectsUnknown, Sound, Cycle
<1>1. t \in Cycle
  BY <1>0 DEF Sound, Cycle, Disposition
<1>2. r.disposition = "none"
  BY DEF Sound, RowAgrees, ActiveStates
<1>3. /\ t.state = "manual_hold" /\ t.lease = r.lease /\ t.holder = r.holder
      /\ t.blocks_thread = FALSE /\ (r.started => t.blocks_effects)
      /\ t.disposition = "isolated" /\ t.attempt = r.attempt
      /\ t.started = r.started /\ t.effects = r.effects /\ t.prepared = r.prepared
  BY DEF Sound, Cycle, EffectsUnknown
<1>4. RowAgrees(t)
  BY <1>3 DEF RowAgrees, Sound, ActiveStates
<1> HIDE DEF t
<1>5. Evolves(r, t) /\ Frozen(r, t)
  BY <1>1, <1>2, <1>3, <1>4
     DEF Evolves, Frozen, Leasable, Sound, Blocks, Past, Late, Superseded
<1> QED BY <1>5 DEF t

LEMMA ResolveEvolves ==
  ASSUME NEW r, Sound(r), r.state = "manual_hold", ~r.blocks_thread, r.blocks_effects
  PROVE  LET t == [r EXCEPT !.blocks_effects = FALSE, !.disposition = "effects_resolved"]
         IN Evolves(r, t) /\ Frozen(r, t)
<1> DEFINE t == [r EXCEPT !.blocks_effects = FALSE, !.disposition = "effects_resolved"]
<1>1. t \in Cycle
  BY DEF Sound, Cycle, Disposition
<1>2. /\ t.state = "manual_hold" /\ t.lease = r.lease /\ t.holder = r.holder
      /\ t.blocks_thread = FALSE /\ t.blocks_effects = FALSE
      /\ t.disposition = "effects_resolved" /\ t.attempt = r.attempt
      /\ t.started = r.started /\ t.effects = r.effects /\ t.prepared = r.prepared
  BY DEF Sound, Cycle
<1>3. RowAgrees(t)
  BY <1>2 DEF RowAgrees, Sound, ActiveStates
<1> HIDE DEF t
<1>4. Evolves(r, t) /\ Frozen(r, t)
  BY <1>1, <1>2, <1>3
     DEF Evolves, Frozen, Leasable, Sound, Blocks, Past, Late, Superseded
<1> QED BY <1>4 DEF t

-----------------------------------------------------------------------------
(* What the parts of a step mean under the invariant.                      *)
LEMMA SoundRows ==
  ASSUME CyclesInv
  PROVE  /\ \A c \in Made : c \in CycleId /\ Sound(cycles[c])
         /\ \A c \in CycleId : c \notin Made => cycles[c].lease = "none" /\ cycles[c].holder = Nobody
         /\ \A o \in Owner : job[o] \in Job /\ (job[o].at # "idle" => job[o].cycle \in Made)
<1>1. CyclesTypeOK
  BY DEF CyclesInv
<1>2. \A c \in CycleId : cycles[c] \in Cycle /\ cycles[c].attempt <= MaxAttempts /\ RowAgrees(cycles[c])
  BY <1>1, Typing DEF CyclesInv
<1>3. \A c \in Made : c \in CycleId /\ cycles[c].state # "absent"
  BY <1>1, Typing DEF Made
<1>4. \A c \in CycleId : c \notin Made => cycles[c].state = "absent"
  BY <1>1, Typing DEF Made, CycleId
<1>5. \A c \in CycleId : c \notin Made => cycles[c].lease = "none" /\ cycles[c].holder = Nobody
  BY <1>2, <1>4 DEF RowAgrees
<1> QED BY <1>1, <1>2, <1>3, <1>5, Typing DEF Sound

LEMMA PutIs ==
  ASSUME CyclesInv, NEW c \in Made, NEW t \in Cycle, Put(c, t)
  PROVE  /\ cycles' \in [CycleId -> Cycle]
         /\ cycles'[c] = t
         /\ \A d \in CycleId : d # c => cycles'[d] = cycles[d]
BY SoundRows DEF Put, CyclesInv, CyclesTypeOK

LEMMA GoIs ==
  ASSUME CyclesInv, NEW o \in Owner, NEW place \in Place, Go(o, place), job[o].at # "idle"
  PROVE  LET j == [job[o] EXCEPT !.at = place]
         IN /\ j \in Job
            /\ job' = [job EXCEPT ![o] = j]
            /\ job'[o] = j
            /\ j.at = place /\ j.cycle = job[o].cycle /\ j.recovering = job[o].recovering
            /\ j.existing = job[o].existing /\ j.row = job[o].row
            /\ j.cycle \in Made
<1>1. job \in [Owner -> Job] /\ job[o].cycle \in Made
  BY SoundRows DEF CyclesInv, CyclesTypeOK
<1> QED BY <1>1 DEF Go, Job

LEMMA ReturnIs ==
  ASSUME CyclesInv, NEW o \in Owner, Return(o)
  PROVE  /\ Idle \in Job /\ Idle.at = "idle"
         /\ job' = [job EXCEPT ![o] = Idle]
         /\ job'[o] = Idle
         /\ JobAgrees(o)'
         /\ ~Generates(o)'
<1>1. job \in [Owner -> Job]
  BY DEF CyclesInv, CyclesTypeOK
<1>2. Idle \in Job /\ Idle.at = "idle"
  BY DEF Idle, Job, Place, Snapshot, NoSnapshot
<1>3. job' = [job EXCEPT ![o] = Idle] /\ job'[o] = Idle
  BY <1>1 DEF Return
<1> QED BY <1>2, <1>3 DEF JobAgrees, Generates

(* Forgetting the token of an owner in all rows.                           *)
LEMMA ForgetAll ==
  ASSUME CyclesInv, NEW o \in Owner, cycles' = [c \in CycleId |-> Forgotten(cycles[c], o)]
  PROVE  /\ cycles' \in [CycleId -> Cycle]
         /\ \A c \in CycleId : cycles'[c] = cycles[c] \/ Changes(c, o)
<1>1. \A c \in CycleId : c \notin Made => cycles'[c] = cycles[c]
  BY SoundRows, CycleAssumption DEF Forgotten, Owner
<1>2. ASSUME NEW c \in Made PROVE Changes(c, o)
  <2>1. c \in CycleId /\ Sound(cycles[c])
    BY SoundRows
  <2>2. Evolves(cycles[c], cycles'[c]) /\ Frozen(cycles[c], cycles'[c])
    BY <2>1, ForgetEvolves
  <2>3. cycles'[c].state = cycles[c].state /\ cycles'[c].effects = cycles[c].effects
    BY <2>1 DEF Forgotten, Sound, Cycle
  <2>4. cycles[c].state = "outbox_queued" => c \in Queued
    BY DEF CyclesInv, QueuedAgrees
  <2> QED BY <2>2, <2>3, <2>4 DEF Changes
<1>3. \A c \in CycleId : cycles'[c] \in Cycle
  BY <1>1, <1>2 DEF CyclesInv, CyclesTypeOK, Changes, Evolves
<1> QED BY <1>1, <1>2, <1>3

(* An earlier cycle that began to generate is past, or held in doubt.      *)
LEMMA PastUnlessInDoubt ==
  ASSUME NEW r, Sound(r), ~Blocks(r), r.started
  PROVE  Past(r) \/ (r.state = "manual_hold" /\ r.blocks_effects)
<1>1. r.state \in {"manual_hold", "outbox_queued"}
  BY WorkBlocks DEF Work, Sound, Cycle, CycleState, ActiveStates
<1>2. r.state = "manual_hold" => ~r.blocks_thread
  BY DEF Blocks, ActiveStates
<1> QED BY <1>1, <1>2 DEF Sound, RowAgrees, Past, Superseded

-----------------------------------------------------------------------------
(* The owner's steps keep the invariant.                                   *)
LEMMA StartKeeps ==
  ASSUME CyclesInv, NEW o \in Owner, MarkGenerationStarted(o)
  PROVE  CyclesInv'
<1> DEFINE c == job[o].cycle
           t == [cycles[c] EXCEPT !.started = TRUE]
           j == [job[o] EXCEPT !.at = "generating"]
<1>1. /\ job[o].at = "acquired" /\ Put(c, t) /\ Go(o, "generating")
      /\ cycles[c].state = "processing" /\ cycles[c].lease = "live" /\ ~cycles[c].started
      /\ UNCHANGED <<latest, coordinated, made, outbox>>
  BY DEF MarkGenerationStarted, MayStart, HoldsLease
<1>2. c \in Made /\ c \in CycleId /\ Sound(cycles[c])
  BY <1>1, SoundRows
<1>3. Evolves(cycles[c], t)
  BY <1>1, <1>2, StartEvolves
<1>4. t \in Cycle /\ t.started /\ t.state = "processing" /\ t.effects = cycles[c].effects
  BY <1>1, <1>2, <1>3 DEF Evolves, Sound, Cycle
<1> HIDE DEF t
<1>5. /\ cycles' \in [CycleId -> Cycle] /\ cycles'[c] = t
      /\ \A d \in CycleId : d # c => cycles'[d] = cycles[d]
  BY <1>1, <1>2, <1>4, PutIs
<1>6. "generating" \in Place
  BY DEF Place
<1>7. /\ j \in Job /\ job' = [job EXCEPT ![o] = j] /\ job'[o] = j
      /\ j.at = "generating" /\ j.cycle = c /\ j.cycle \in Made
  BY <1>1, <1>6, GoIs
<1> HIDE DEF j
<1>8. Changes(c, o)
  BY <1>1, <1>2, <1>3, <1>4, <1>5 DEF Changes, Frozen, Leasable
<1>9. JobAgrees(o)'
  BY <1>4, <1>5, <1>7 DEF JobAgrees
<1>10. \A p \in Owner : Generates(p) /\ job[p].cycle = j.cycle => p = o
  <2> SUFFICES ASSUME NEW p \in Owner, Generates(p), job[p].cycle = c PROVE FALSE
    BY <1>7
  <2>1. JobAgrees(p)
    BY DEF CyclesInv
  <2>2. cycles[c].started
    BY <1>2, <2>1 DEF JobAgrees, Generates, Sound, RowAgrees
  <2> QED BY <1>1, <2>2
<1> QED BY <1>1, <1>5, <1>7, <1>8, <1>9, <1>10, RowsStep

LEMMA AdmitKeeps ==
  ASSUME CyclesInv, NEW o \in Owner, AdmitEffects(o)
  PROVE  CyclesInv'
<1> DEFINE c == job[o].cycle
           t == [cycles[c] EXCEPT !.effects = TRUE]
<1>1. /\ job[o].at = "generating" /\ Put(c, t) /\ job' = job
      /\ cycles[c].state = "processing" /\ cycles[c].lease = "live"
      /\ EffectsHeldBy(c) = {}
      /\ UNCHANGED <<latest, coordinated, made, outbox>>
  BY DEF AdmitEffects, HoldsLease
<1>2. c \in Made /\ c \in CycleId /\ Sound(cycles[c]) /\ JobAgrees(o)
  BY <1>1, SoundRows DEF CyclesInv
<1>3. Evolves(cycles[c], t)
  BY <1>1, <1>2, AdmitEvolves DEF JobAgrees
<1>4. t \in Cycle /\ t.started = cycles[c].started /\ t.state = "processing"
  BY <1>1, <1>2, <1>3 DEF Evolves, Sound, Cycle
<1> HIDE DEF t
<1>5. /\ cycles' \in [CycleId -> Cycle] /\ cycles'[c] = t
      /\ \A d \in CycleId : d # c => cycles'[d] = cycles[d]
  BY <1>1, <1>2, <1>4, PutIs
<1>6. ASSUME NEW d \in Made, d < c, cycles[d].started PROVE Past(cycles[d])
  <2>1. d < made /\ d # c
    BY <1>2, <1>6, Typing DEF Made, CyclesInv
  <2>2. ~Blocks(cycles[d]) /\ Sound(cycles[d])
    BY <2>1, SoundRows DEF CyclesInv, NewestBlocks, Blocking, Blocks
  <2>3. ~(cycles[d].state = "manual_hold" /\ cycles[d].blocks_effects)
    BY <1>1, <2>1 DEF EffectsHeldBy
  <2> QED BY <1>6, <2>2, <2>3, PastUnlessInDoubt
<1>7. Changes(c, o)
  BY <1>1, <1>2, <1>3, <1>4, <1>5, <1>6 DEF Changes, Frozen, Leasable
<1>8. job' = [job EXCEPT ![o] = job[o]] /\ job[o] \in Job
  BY <1>1, SoundRows DEF CyclesInv, CyclesTypeOK
<1>9. JobAgrees(o)'
  BY <1>1, <1>2, <1>4, <1>5 DEF JobAgrees
<1>10. Generates(o)' => \A p \in Owner : Generates(p) /\ job[p].cycle = job[o].cycle => p = o
  BY <1>1 DEF Generates, CyclesInv, OneGenerator
<1> QED BY <1>1, <1>2, <1>5, <1>7, <1>8, <1>9, <1>10, RowsStep

LEMMA PrepareKeeps ==
  ASSUME CyclesInv, NEW o \in Owner, PrepareOrSupersede(o)
  PROVE  CyclesInv'
<1> DEFINE c == job[o].cycle
<1>1. /\ job[o].at = "generating"
      /\ cycles[c].state = "processing" /\ cycles[c].lease = "live"
      /\ \/ ReplanEligible(c) /\ Put(c, Withdrawn(cycles[c])) /\ Return(o)
         \/ Put(c, Prepared(cycles[c])) /\ Go(o, "prepared")
      /\ UNCHANGED <<latest, coordinated, made, outbox>>
  BY DEF PrepareOrSupersede, HoldsLease
<1>2. c \in Made /\ c \in CycleId /\ Sound(cycles[c]) /\ JobAgrees(o)
  BY <1>1, SoundRows DEF CyclesInv
<1>3. CASE ReplanEligible(c) /\ Put(c, Withdrawn(cycles[c])) /\ Return(o)
  <2> DEFINE t == Withdrawn(cycles[c])
  <2>1. Evolves(cycles[c], t)
    BY <1>1, <1>2, <1>3, WithdrawEvolves DEF ReplanEligible
  <2>2. t \in Cycle /\ t.state = "manual_hold" /\ t.effects = cycles[c].effects
    BY <1>2, <2>1 DEF Evolves, Withdrawn, Released, Sound, Cycle
  <2> HIDE DEF t
  <2>3. /\ cycles' \in [CycleId -> Cycle] /\ cycles'[c] = t
        /\ \A d \in CycleId : d # c => cycles'[d] = cycles[d]
    BY <1>2, <1>3, <2>2, PutIs DEF t
  <2>4. Changes(c, o)
    BY <1>1, <1>2, <2>1, <2>2, <2>3 DEF Changes, Frozen, Leasable
  <2>5. /\ Idle \in Job /\ Idle.at = "idle" /\ job' = [job EXCEPT ![o] = Idle]
        /\ JobAgrees(o)' /\ ~Generates(o)'
    BY <1>3, ReturnIs
  <2> QED BY <1>1, <2>3, <2>4, <2>5, RowsStep
<1>4. CASE Put(c, Prepared(cycles[c])) /\ Go(o, "prepared")
  <2> DEFINE t == Prepared(cycles[c])
             j == [job[o] EXCEPT !.at = "prepared"]
  <2>1. Evolves(cycles[c], t)
    BY <1>1, <1>2, PrepareEvolves DEF JobAgrees
  <2>2. t \in Cycle /\ t.state = "commit_ready" /\ t.prepared /\ t.effects = cycles[c].effects
    BY <1>2, <2>1 DEF Evolves, Prepared, Sound, Cycle
  <2> HIDE DEF t
  <2>3. /\ cycles' \in [CycleId -> Cycle] /\ cycles'[c] = t
        /\ \A d \in CycleId : d # c => cycles'[d] = cycles[d]
    BY <1>2, <1>4, <2>2, PutIs DEF t
  <2>4. Changes(c, o)
    BY <1>1, <1>2, <2>1, <2>2, <2>3 DEF Changes, Frozen, Leasable
  <2>5. "prepared" \in Place
    BY DEF Place
  <2>6. /\ j \in Job /\ job' = [job EXCEPT ![o] = j] /\ job'[o] = j
        /\ j.at = "prepared" /\ j.cycle = c /\ j.cycle \in Made /\ j.recovering = job[o].recovering
    BY <1>1, <1>4, <2>5, GoIs
  <2> HIDE DEF j
  <2>7. JobAgrees(o)'
    BY <2>2, <2>3, <2>6 DEF JobAgrees
  <2>8. Generates(o)' => \A p \in Owner : Generates(p) /\ job[p].cycle = j.cycle => p = o
    BY <1>1, <2>6 DEF Generates, CyclesInv, OneGenerator
  <2> QED BY <1>1, <2>3, <2>4, <2>6, <2>7, <2>8, RowsStep
<1> QED BY <1>1, <1>3, <1>4

LEMMA BindKeeps ==
  ASSUME CyclesInv, NEW o \in Owner, BindPrepared(o)
  PROVE  CyclesInv'
<1> DEFINE c == job[o].cycle
           t == [Released(cycles[c]) EXCEPT !.state = "outbox_queued"]
<1>1. /\ job[o].at = "enqueued" /\ Put(c, t) /\ Return(o)
      /\ cycles[c].state = "commit_ready" /\ cycles[c].lease = "live"
      /\ UNCHANGED <<latest, coordinated, made, outbox>>
  BY DEF BindPrepared, HoldsLease
<1>2. c \in Made /\ c \in CycleId /\ Sound(cycles[c]) /\ c \in Queued
  BY <1>1, SoundRows DEF CyclesInv, JobAgrees
<1>3. Evolves(cycles[c], t)
  BY <1>1, <1>2, BindEvolves
<1>4. t \in Cycle /\ t.effects = cycles[c].effects
  BY <1>2, <1>3 DEF Evolves, Released, Sound, Cycle
<1> HIDE DEF t
<1>5. /\ cycles' \in [CycleId -> Cycle] /\ cycles'[c] = t
      /\ \A d \in CycleId : d # c => cycles'[d] = cycles[d]
  BY <1>1, <1>2, <1>4, PutIs
<1>6. Changes(c, o)
  BY <1>1, <1>2, <1>3, <1>4, <1>5 DEF Changes, Frozen, Leasable
<1>7. /\ Idle \in Job /\ Idle.at = "idle" /\ job' = [job EXCEPT ![o] = Idle]
      /\ JobAgrees(o)' /\ ~Generates(o)'
  BY <1>1, ReturnIs
<1> QED BY <1>1, <1>5, <1>6, <1>7, RowsStep

LEMMA FailureKeeps ==
  ASSUME CyclesInv, NEW o \in Owner, MarkFailure(o)
  PROVE  CyclesInv'
<1> DEFINE c == job[o].cycle
           t == Failed(cycles[c])
<1>1. /\ job[o].at # "idle" /\ Put(c, t) /\ Return(o)
      /\ cycles[c].lease = "live"
      /\ UNCHANGED <<latest, coordinated, made, outbox>>
  BY DEF MarkFailure, HoldsLease
<1>2. c \in Made /\ c \in CycleId /\ Sound(cycles[c])
  BY <1>1, SoundRows
<1>3. Evolves(cycles[c], t)
  BY <1>1, <1>2, FailEvolves
<1>4. t \in Cycle /\ t.effects = cycles[c].effects
  BY <1>2, <1>3 DEF Evolves, Failed, Released, Sound, Cycle
<1>5. t.state # "outbox_queued"
  BY <1>2 DEF Failed, Released, Sound, Cycle
<1> HIDE DEF t
<1>6. /\ cycles' \in [CycleId -> Cycle] /\ cycles'[c] = t
      /\ \A d \in CycleId : d # c => cycles'[d] = cycles[d]
  BY <1>1, <1>2, <1>4, PutIs
<1>7. Changes(c, o)
  BY <1>1, <1>2, <1>3, <1>4, <1>5, <1>6 DEF Changes, Frozen, Leasable
<1>8. /\ Idle \in Job /\ Idle.at = "idle" /\ job' = [job EXCEPT ![o] = Idle]
      /\ JobAgrees(o)' /\ ~Generates(o)'
  BY <1>1, ReturnIs
<1> QED BY <1>1, <1>6, <1>7, <1>8, RowsStep

LEMMA ForgettingKeeps ==
  ASSUME CyclesInv, NEW o \in Owner, Return(o),
         cycles' = [c \in CycleId |-> Forgotten(cycles[c], o)],
         UNCHANGED <<latest, coordinated, made, outbox>>
  PROVE  CyclesInv'
<1>1. /\ cycles' \in [CycleId -> Cycle]
      /\ \A c \in CycleId : cycles'[c] = cycles[c] \/ Changes(c, o)
  BY ForgetAll
<1>2. /\ Idle \in Job /\ Idle.at = "idle" /\ job' = [job EXCEPT ![o] = Idle]
      /\ JobAgrees(o)' /\ ~Generates(o)'
  BY ReturnIs
<1> QED BY <1>1, <1>2, RowsStep

-----------------------------------------------------------------------------
(* The reconciler's steps keep the invariant.                              *)
LEMMA CoordinatorOwns == Coordinator \in Owner
BY DEF Owner

(* A step of the coordinator that touches no row.                          *)
LEMMA LooksOnly ==
  ASSUME CyclesInv, NEW j \in Job, job' = [job EXCEPT ![Coordinator] = j],
         j.at \in {"scanned", "looked", "enqueued"}, j.cycle \in Made,
         UNCHANGED <<latest, coordinated, made, cycles, outbox>>,
         JobAgrees(Coordinator)', j.at = "enqueued" => j.recovering
  PROVE  CyclesInv'
<1>1. cycles' \in [CycleId -> Cycle] /\ job'[Coordinator] = j
  BY CoordinatorOwns DEF CyclesInv, CyclesTypeOK
<1>2. ~Generates(Coordinator)'
  BY <1>1 DEF Generates
<1> QED BY <1>1, <1>2, CoordinatorOwns, RowsStep

(* A step of the coordinator that gives its cycle up.                      *)
LEMMA GivesUp ==
  ASSUME CyclesInv, Return(Coordinator), UNCHANGED <<latest, coordinated, made, outbox>>,
         cycles' \in [CycleId -> Cycle],
         \A c \in CycleId : cycles'[c] = cycles[c] \/ Changes(c, Coordinator)
  PROVE  CyclesInv'
<1>1. /\ Idle \in Job /\ Idle.at = "idle" /\ job' = [job EXCEPT ![Coordinator] = Idle]
      /\ JobAgrees(Coordinator)' /\ ~Generates(Coordinator)'
  BY CoordinatorOwns, ReturnIs
<1> QED BY <1>1, CoordinatorOwns, RowsStep

LEMMA ScanKeeps ==
  ASSUME CyclesInv, NEW c \in CycleId, Scan(c)
  PROVE  CyclesInv'
<1> DEFINE r == [started |-> cycles[c].started, prepared |-> cycles[c].prepared,
                 attempt |-> cycles[c].attempt]
           j == [Idle EXCEPT !.at = "scanned", !.cycle = c, !.row = r]
<1>1. /\ c \in Made /\ Leasable(cycles[c]) /\ job' = [job EXCEPT ![Coordinator] = j]
      /\ UNCHANGED <<latest, coordinated, made, cycles, outbox>>
  BY DEF Scan, Blocking
<1>2. r \in Snapshot
  BY <1>1, SoundRows DEF Snapshot, Sound, Cycle
<1>3. j \in Job /\ j.at = "scanned" /\ j.cycle = c /\ j.row = r
  BY <1>2 DEF Idle, Job, Place
<1>4. r.started = cycles[c].started /\ r.prepared = cycles[c].prepared
  OBVIOUS
<1> HIDE DEF j, r
<1>5. job'[Coordinator] = j
  BY <1>1, CoordinatorOwns DEF CyclesInv, CyclesTypeOK
<1>6. JobAgrees(Coordinator)'
  BY <1>1, <1>3, <1>4, <1>5 DEF JobAgrees
<1> QED BY <1>1, <1>3, <1>6, LooksOnly

LEMMA LookUpKeeps ==
  ASSUME CyclesInv, LookUp
  PROVE  CyclesInv'
<1> DEFINE found == Reconciled \in Queued
           j == [job[Coordinator] EXCEPT !.at = "looked", !.existing = found]
<1>1. /\ job[Coordinator].at = "scanned"
      /\ job' = [job EXCEPT ![Coordinator].at = "looked", ![Coordinator].existing = found]
      /\ UNCHANGED <<latest, coordinated, made, cycles, outbox>>
  BY DEF LookUp
<1>2. /\ job[Coordinator] \in Job /\ Reconciled \in Made /\ JobAgrees(Coordinator)
      /\ job \in [Owner -> Job]
  BY <1>1, SoundRows, CoordinatorOwns DEF Reconciled, CyclesInv, CyclesTypeOK
<1>3. found \in BOOLEAN
  OBVIOUS
<1>4. found => Reconciled \in Queued
  OBVIOUS
<1> HIDE DEF found
<1>5. /\ j \in Job /\ j.at = "looked" /\ j.cycle = Reconciled /\ j.row = job[Coordinator].row
      /\ j.existing = found
  BY <1>2, <1>3 DEF Job, Place, Reconciled
<1>6. job' = [job EXCEPT ![Coordinator] = j]
  BY <1>1, <1>2, CoordinatorOwns
<1> HIDE DEF j
<1>7. job'[Coordinator] = j
  BY <1>2, <1>6, CoordinatorOwns
<1>8. Queued' = Queued
  BY <1>1 DEF Queued
<1>9. JobAgrees(Coordinator)'
  BY <1>1, <1>2, <1>4, <1>5, <1>7, <1>8 DEF JobAgrees, Reconciled
<1> QED BY <1>1, <1>2, <1>5, <1>6, <1>9, LooksOnly

LEMMA HoldKeeps ==
  ASSUME CyclesInv, NEW e \in BOOLEAN, Reconciled \in Made, Return(Coordinator),
         HoldUnlessTaken(Reconciled, e), cycles[Reconciled].started => e,
         UNCHANGED <<latest, coordinated, made, outbox>>
  PROVE  CyclesInv'
<1> DEFINE c == Reconciled
           t == Held(cycles[c], e)
<1>1. Sound(cycles[c])
  BY SoundRows
<1>2. CASE ~Holdable(cycles[c])
  <2>1. cycles' = cycles
    BY <1>2 DEF HoldUnlessTaken
  <2>2. cycles' \in [CycleId -> Cycle]
    BY <2>1 DEF CyclesInv, CyclesTypeOK
  <2> QED BY <2>1, <2>2, GivesUp
<1>3. CASE Holdable(cycles[c])
  <2>1. Evolves(cycles[c], t)
    BY <1>1, <1>3, HoldEvolves
  <2>2. t \in Cycle /\ t.effects = cycles[c].effects /\ t.state = "manual_hold"
    BY <1>1, <2>1 DEF Evolves, Held, Released, Sound, Cycle
  <2>3. Put(c, t)
    BY <1>3 DEF HoldUnlessTaken
  <2> HIDE DEF t
  <2>4. /\ cycles' \in [CycleId -> Cycle] /\ cycles'[c] = t
        /\ \A d \in CycleId : d # c => cycles'[d] = cycles[d]
    BY <2>2, <2>3, PutIs
  <2>5. Changes(c, Coordinator)
    BY <2>1, <2>2, <2>4 DEF Changes
  <2> QED BY <2>4, <2>5, GivesUp
<1> QED BY <1>2, <1>3

LEMMA HoldCycleKeeps ==
  ASSUME CyclesInv, HoldCycle
  PROVE  CyclesInv'
<1>1. /\ job[Coordinator].at = "looked" /\ HoldUnlessTaken(Reconciled, Uncertain)
      /\ Return(Coordinator) /\ UNCHANGED <<latest, coordinated, made, outbox>>
  BY DEF HoldCycle
<1>2. Reconciled \in Made /\ JobAgrees(Coordinator) /\ job[Coordinator] \in Job
  BY <1>1, SoundRows, CoordinatorOwns DEF Reconciled, CyclesInv
<1>3. cycles[Reconciled].started => Uncertain
  BY <1>1, <1>2 DEF JobAgrees, Reconciled, Uncertain, Found
<1>4. Uncertain \in BOOLEAN
  BY <1>2 DEF Uncertain, Found, Job, Snapshot
<1> QED BY <1>1, <1>2, <1>3, <1>4, HoldKeeps

LEMMA ClaimKeeps ==
  ASSUME CyclesInv, ClaimPrepared
  PROVE  CyclesInv'
<1> DEFINE c == Reconciled
           existing == job[Coordinator].existing
           n == IF existing THEN cycles[c].attempt ELSE cycles[c].attempt + 1
           t == [Leased(cycles[c], Coordinator) EXCEPT !.attempt = n]
           j == [job[Coordinator] EXCEPT !.at = "claimed", !.recovering = TRUE]
<1>1. /\ job[Coordinator].at = "looked"
      /\ UNCHANGED <<latest, coordinated, made, outbox>>
      /\ \/ /\ cycles[c].state = "commit_ready" /\ cycles[c].prepared
            /\ Leasable(cycles[c]) /\ (existing \/ cycles[c].attempt < MaxAttempts)
            /\ Put(c, [Leased(cycles[c], Coordinator) EXCEPT
                          !.attempt = IF existing THEN @ ELSE @ + 1])
            /\ job' = [job EXCEPT ![Coordinator].at = "claimed", ![Coordinator].recovering = TRUE]
         \/ Return(Coordinator) /\ UNCHANGED cycles
  BY DEF ClaimPrepared
<1>2. /\ c \in Made /\ c \in CycleId /\ Sound(cycles[c]) /\ JobAgrees(Coordinator)
      /\ job[Coordinator] \in Job /\ job \in [Owner -> Job]
  BY <1>1, SoundRows, CoordinatorOwns DEF Reconciled, CyclesInv, CyclesTypeOK
<1>3. CASE Return(Coordinator) /\ UNCHANGED cycles
  BY <1>1, <1>3, GivesUp DEF CyclesInv, CyclesTypeOK
<1>4. CASE /\ cycles[c].state = "commit_ready" /\ cycles[c].prepared
           /\ Leasable(cycles[c]) /\ (existing \/ cycles[c].attempt < MaxAttempts)
           /\ Put(c, [Leased(cycles[c], Coordinator) EXCEPT
                         !.attempt = IF existing THEN @ ELSE @ + 1])
           /\ job' = [job EXCEPT ![Coordinator].at = "claimed", ![Coordinator].recovering = TRUE]
  <2>1. n \in Nat /\ n <= MaxAttempts
    BY <1>2, <1>4, CycleAssumption DEF Sound, Cycle
  <2>2. t = [Leased(cycles[c], Coordinator) EXCEPT !.attempt = IF existing THEN @ ELSE @ + 1]
    BY <1>2 DEF Leased, Sound, Cycle
  <2>3. Put(c, t)
    BY <1>4, <2>2
  <2> HIDE DEF n
  <2>4. Evolves(cycles[c], t)
    BY <1>2, <1>4, <2>1, ClaimEvolves, CoordinatorOwns
  <2>5. t \in Cycle /\ t.effects = cycles[c].effects /\ t.state = "commit_ready" /\ t.prepared
    BY <1>2, <1>4, <2>4 DEF Evolves, Leased, Sound, Cycle
  <2> HIDE DEF t
  <2>6. /\ cycles' \in [CycleId -> Cycle] /\ cycles'[c] = t
        /\ \A d \in CycleId : d # c => cycles'[d] = cycles[d]
    BY <1>2, <2>3, <2>5, PutIs
  <2>7. Changes(c, Coordinator)
    BY <1>2, <2>4, <2>5, <2>6 DEF Changes
  <2>8. /\ j \in Job /\ j.at = "claimed" /\ j.cycle = c /\ j.recovering = TRUE
        /\ j.existing = existing
    BY <1>2 DEF Job, Place, Reconciled
  <2>9. job' = [job EXCEPT ![Coordinator] = j]
    BY <1>2, <1>4, CoordinatorOwns
  <2> HIDE DEF j
  <2>10. job'[Coordinator] = j
    BY <1>2, <2>9, CoordinatorOwns
  <2>11. Queued' = Queued
    BY <1>1 DEF Queued
  <2>12. existing => c \in Queued
    BY <1>1, <1>2 DEF JobAgrees, Reconciled
  <2>13. JobAgrees(Coordinator)'
    BY <2>5, <2>6, <2>8, <2>10, <2>11, <2>12 DEF JobAgrees
  <2>14. ~Generates(Coordinator)'
    BY <2>8, <2>10 DEF Generates
  <2> QED
    BY <1>1, <1>2, <2>6, <2>7, <2>8, <2>9, <2>13, <2>14, CoordinatorOwns, RowsStep
<1> QED BY <1>1, <1>3, <1>4

LEMMA LoadKeeps ==
  ASSUME CyclesInv, LoadPrepared
  PROVE  CyclesInv'
<1> DEFINE place == IF job[Coordinator].existing THEN "enqueued" ELSE "prepared"
           j == [job[Coordinator] EXCEPT !.at = place]
<1>1. /\ job[Coordinator].at = "claimed" /\ Go(Coordinator, place)
      /\ UNCHANGED <<latest, coordinated, made, cycles, outbox>>
  BY DEF LoadPrepared
<1>2. place \in Place /\ place \in {"enqueued", "prepared"}
  BY DEF Place
<1>3. place = "enqueued" => job[Coordinator].existing
  OBVIOUS
<1>4. JobAgrees(Coordinator)
  BY CoordinatorOwns DEF CyclesInv
<1> HIDE DEF place
<1>5. /\ j \in Job /\ job' = [job EXCEPT ![Coordinator] = j] /\ job'[Coordinator] = j
      /\ j.at = place /\ j.cycle = Reconciled /\ j.cycle \in Made /\ j.recovering
  BY <1>1, <1>2, <1>4, GoIs, CoordinatorOwns DEF Reconciled, JobAgrees
<1> HIDE DEF j
<1>6. Queued' = Queued
  BY <1>1 DEF Queued
<1>7. JobAgrees(Coordinator)'
  BY <1>1, <1>2, <1>3, <1>4, <1>5, <1>6 DEF JobAgrees, Reconciled
<1>8. ~Generates(Coordinator)' /\ cycles' \in [CycleId -> Cycle]
  BY <1>1, <1>5 DEF Generates, CyclesInv, CyclesTypeOK
<1> QED BY <1>1, <1>5, <1>7, <1>8, CoordinatorOwns, RowsStep

LEMMA RefusedKeeps ==
  ASSUME CyclesInv, RecoveryRefused
  PROVE  CyclesInv'
<1>1. /\ job[Coordinator].at # "idle" /\ Return(Coordinator)
      /\ UNCHANGED <<latest, coordinated, made, outbox>>
      /\ IF Holdable(cycles[Reconciled]) THEN Put(Reconciled, Held(cycles[Reconciled], TRUE))
         ELSE cycles' = [d \in CycleId |-> Forgotten(cycles[d], Coordinator)]
  BY DEF RecoveryRefused
<1>2. CASE Holdable(cycles[Reconciled])
  <2>1. HoldUnlessTaken(Reconciled, TRUE)
    BY <1>1, <1>2 DEF HoldUnlessTaken
  <2>2. Reconciled \in Made
    BY <1>1, SoundRows, CoordinatorOwns DEF Reconciled
  <2> QED BY <1>1, <2>1, <2>2, HoldKeeps
<1>3. CASE ~Holdable(cycles[Reconciled])
  BY <1>1, <1>3, ForgettingKeeps, CoordinatorOwns
<1> QED BY <1>2, <1>3

LEMMA ReclaimKeeps ==
  ASSUME CyclesInv, Reclaim
  PROVE  CyclesInv'
<1> DEFINE c == Reconciled
           t == [Leased(cycles[c], Coordinator) EXCEPT !.state = "processing", !.attempt = @ + 1]
           j == [job[Coordinator] EXCEPT !.at = "acquired"]
<1>1. /\ job[Coordinator].at = "looked"
      /\ UNCHANGED <<latest, coordinated, made, outbox>>
      /\ \/ Reclaimable(cycles[c]) /\ Put(c, t) /\ Go(Coordinator, "acquired")
         \/ Return(Coordinator) /\ UNCHANGED cycles
  BY DEF Reclaim
<1>2. c \in Made /\ c \in CycleId /\ Sound(cycles[c])
  BY <1>1, SoundRows, CoordinatorOwns DEF Reconciled
<1>3. CASE Return(Coordinator) /\ UNCHANGED cycles
  BY <1>1, <1>3, GivesUp DEF CyclesInv, CyclesTypeOK
<1>4. CASE Reclaimable(cycles[c]) /\ Put(c, t) /\ Go(Coordinator, "acquired")
  <2>1. Evolves(cycles[c], t)
    BY <1>2, <1>4, ReclaimEvolves, CoordinatorOwns
  <2>2. t \in Cycle /\ t.effects = cycles[c].effects /\ t.state = "processing"
    BY <1>2, <2>1 DEF Evolves, Leased, Sound, Cycle
  <2> HIDE DEF t
  <2>3. /\ cycles' \in [CycleId -> Cycle] /\ cycles'[c] = t
        /\ \A d \in CycleId : d # c => cycles'[d] = cycles[d]
    BY <1>2, <1>4, <2>2, PutIs
  <2>4. Changes(c, Coordinator)
    BY <1>2, <2>1, <2>2, <2>3 DEF Changes
  <2>5. "acquired" \in Place
    BY DEF Place
  <2>6. /\ j \in Job /\ job' = [job EXCEPT ![Coordinator] = j] /\ job'[Coordinator] = j
        /\ j.at = "acquired" /\ j.cycle \in Made
    BY <1>1, <1>4, <2>5, GoIs, CoordinatorOwns
  <2> HIDE DEF j
  <2>7. JobAgrees(Coordinator)' /\ ~Generates(Coordinator)'
    BY <2>6 DEF JobAgrees, Generates
  <2> QED BY <1>1, <2>3, <2>4, <2>6, <2>7, CoordinatorOwns, RowsStep
<1> QED BY <1>1, <1>3, <1>4

-----------------------------------------------------------------------------
(* Time, the settings and the operator keep the invariant.                 *)
LEMMA RowsOnly ==
  ASSUME CyclesInv, UNCHANGED <<latest, coordinated, made, outbox, job>>,
         cycles' \in [CycleId -> Cycle],
         \A c \in CycleId :
            \/ cycles'[c] = cycles[c]
            \/ /\ c \in Made /\ Evolves(cycles[c], cycles'[c]) /\ Frozen(cycles[c], cycles'[c])
               /\ cycles'[c].state = cycles[c].state /\ cycles'[c].effects = cycles[c].effects
  PROVE  CyclesInv'
<1>1. \A c \in CycleId :
         cycles'[c] = cycles[c] \/ (Changes(c, Coordinator) /\ Frozen(cycles[c], cycles'[c]))
  BY DEF Changes, CyclesInv, QueuedAgrees
<1>2. job' = [job EXCEPT ![Coordinator] = job[Coordinator]] /\ job[Coordinator] \in Job
  BY SoundRows, CoordinatorOwns DEF CyclesInv, CyclesTypeOK
<1>3. JobAgrees(Coordinator)'
  <2>1. JobAgrees(Coordinator) /\ Queued' = Queued
    BY CoordinatorOwns DEF CyclesInv, Queued
  <2>2. CASE job[Coordinator].at = "idle"
    BY <2>1, <2>2 DEF JobAgrees
  <2>3. CASE job[Coordinator].at # "idle"
    <3>1. Reconciled \in CycleId
      BY <2>3, SoundRows, CoordinatorOwns DEF Reconciled
    <3>2. \/ cycles'[Reconciled] = cycles[Reconciled]
          \/ /\ Evolves(cycles[Reconciled], cycles'[Reconciled])
             /\ Frozen(cycles[Reconciled], cycles'[Reconciled])
      BY <3>1
    <3> QED BY <2>1, <3>2 DEF JobAgrees, Reconciled, Evolves, Frozen
  <2> QED BY <2>2, <2>3
<1>4. Generates(Coordinator)' =>
        \A p \in Owner : Generates(p) /\ job[p].cycle = job[Coordinator].cycle => p = Coordinator
  BY CoordinatorOwns DEF Generates, CyclesInv, OneGenerator
<1>5. job[Coordinator].at # "idle" => job[Coordinator].cycle \in Made
  BY SoundRows, CoordinatorOwns
<1>6. \A c \in CycleId : cycles'[c] = cycles[c] \/ Changes(c, Coordinator)
  BY <1>1
<1> QED BY <1>2, <1>3, <1>4, <1>5, <1>6, CoordinatorOwns, RowsStep

LEMMA ExpireKeeps ==
  ASSUME CyclesInv, NEW c \in CycleId, ExpireLease(c)
  PROVE  CyclesInv'
<1> DEFINE t == [cycles[c] EXCEPT !.lease = "expired"]
<1>1. /\ cycles[c].lease = "live" /\ Put(c, t)
      /\ UNCHANGED <<latest, coordinated, made, outbox, job>>
  BY DEF ExpireLease
<1>2. c \in Made /\ Sound(cycles[c])
  BY <1>1, SoundRows
<1>3. Evolves(cycles[c], t) /\ Frozen(cycles[c], t)
  BY <1>1, <1>2, ExpireEvolves
<1>4. t \in Cycle /\ t.effects = cycles[c].effects /\ t.state = cycles[c].state
  BY <1>2, <1>3 DEF Evolves, Sound, Cycle
<1> HIDE DEF t
<1>5. /\ cycles' \in [CycleId -> Cycle] /\ cycles'[c] = t
      /\ \A d \in CycleId : d # c => cycles'[d] = cycles[d]
  BY <1>1, <1>2, <1>4, PutIs
<1> QED BY <1>1, <1>2, <1>3, <1>4, <1>5, RowsOnly

LEMMA SettingKeeps ==
  ASSUME CyclesInv, WriteSetting
  PROVE  CyclesInv'
<1>1. /\ cycles' = [c \in CycleId |->
                      IF c \in Made THEN [cycles[c] EXCEPT !.drifted = TRUE] ELSE cycles[c]]
      /\ UNCHANGED <<latest, coordinated, made, outbox, job>>
  BY DEF WriteSetting
<1>2. ASSUME NEW c \in Made
      PROVE  /\ Evolves(cycles[c], cycles'[c]) /\ Frozen(cycles[c], cycles'[c])
             /\ cycles'[c].state = cycles[c].state /\ cycles'[c].effects = cycles[c].effects
  <2>1. c \in CycleId /\ Sound(cycles[c])
    BY SoundRows
  <2>2. cycles'[c] = [cycles[c] EXCEPT !.drifted = TRUE]
    BY <1>1, <2>1
  <2>3. /\ Evolves(cycles[c], [cycles[c] EXCEPT !.drifted = TRUE])
        /\ Frozen(cycles[c], [cycles[c] EXCEPT !.drifted = TRUE])
    BY <2>1, DriftEvolves
  <2>4. cycles'[c].state = cycles[c].state /\ cycles'[c].effects = cycles[c].effects
    BY <2>1, <2>2 DEF Sound, Cycle
  <2> QED BY <2>2, <2>3, <2>4
<1>3. \A c \in CycleId : c \notin Made => cycles'[c] = cycles[c]
  BY <1>1
<1>4. \A c \in CycleId : cycles'[c] \in Cycle
  BY <1>2, <1>3 DEF Evolves, CyclesInv, CyclesTypeOK
<1>5. cycles' \in [CycleId -> Cycle]
  BY <1>1, <1>4
<1> QED BY <1>1, <1>2, <1>3, <1>5, RowsOnly

LEMMA OperatorKeeps ==
  ASSUME CyclesInv, NEW c \in CycleId, Isolate(c) \/ ResolveEffects(c)
  PROVE  CyclesInv'
<1> DEFINE t == [cycles[c] EXCEPT
                   !.blocks_thread = FALSE, !.blocks_effects = EffectsUnknown(cycles[c]),
                   !.disposition = "isolated"]
           u == [cycles[c] EXCEPT !.blocks_effects = FALSE, !.disposition = "effects_resolved"]
<1>1. UNCHANGED <<latest, coordinated, made, outbox, job>> /\ cycles[c].state = "manual_hold"
  BY DEF Isolate, ResolveEffects
<1>2. c \in Made /\ Sound(cycles[c])
  <2>1. cycles[c].state # "absent"
    BY <1>1
  <2>2. c \in Made
    BY <2>1, Typing DEF CyclesInv, Made, CycleId
  <2> QED BY <2>2, SoundRows
<1>3. \E v \in Cycle :
        /\ Put(c, v) /\ Evolves(cycles[c], v) /\ Frozen(cycles[c], v)
        /\ v.effects = cycles[c].effects /\ v.state = cycles[c].state
  <2>1. CASE Isolate(c)
    <3>1. Put(c, t) /\ cycles[c].blocks_thread
      BY <2>1 DEF Isolate
    <3>2. Evolves(cycles[c], t) /\ Frozen(cycles[c], t)
      BY <1>1, <1>2, <3>1, IsolateEvolves
    <3>3. t \in Cycle /\ t.effects = cycles[c].effects /\ t.state = cycles[c].state
      BY <1>2, <3>2 DEF Evolves, Sound, Cycle
    <3> QED BY <3>1, <3>2, <3>3
  <2>2. CASE ResolveEffects(c)
    <3>1. Put(c, u) /\ ~cycles[c].blocks_thread /\ cycles[c].blocks_effects
      BY <2>2 DEF ResolveEffects
    <3>2. Evolves(cycles[c], u) /\ Frozen(cycles[c], u)
      BY <1>1, <1>2, <3>1, ResolveEvolves
    <3>3. u \in Cycle /\ u.effects = cycles[c].effects /\ u.state = cycles[c].state
      BY <1>2, <3>2 DEF Evolves, Sound, Cycle
    <3> QED BY <3>1, <3>2, <3>3
  <2> QED BY <2>1, <2>2
<1> HIDE DEF t, u
<1>4. PICK v \in Cycle :
        /\ Put(c, v) /\ Evolves(cycles[c], v) /\ Frozen(cycles[c], v)
        /\ v.effects = cycles[c].effects /\ v.state = cycles[c].state
  BY <1>3
<1>5. /\ cycles' \in [CycleId -> Cycle] /\ cycles'[c] = v
      /\ \A d \in CycleId : d # c => cycles'[d] = cycles[d]
  BY <1>2, <1>4, PutIs
<1> QED BY <1>1, <1>2, <1>4, <1>5, RowsOnly

-----------------------------------------------------------------------------
(* Ingress, a new cycle, and the Outbox keep the invariant.                *)
LEMMA AcceptKeeps ==
  ASSUME CyclesInv, AcceptPrivateIngress
  PROVE  CyclesInv'
<1>1. /\ latest < MaxMessages /\ latest' = latest + 1
      /\ coordinated' \in {coordinated, coordinated \cup {latest + 1}}
      /\ UNCHANGED <<made, cycles, outbox, job>>
  BY DEF AcceptPrivateIngress
<1>2. latest \in 0..MaxMessages /\ coordinated \subseteq 1..latest
  BY DEF CyclesInv, CyclesTypeOK
<1>3. latest' \in 0..MaxMessages /\ coordinated' \subseteq 1..(latest')
  BY <1>1, <1>2, CycleAssumption
<1>4. CyclesTypeOK'
  BY <1>1, <1>3 DEF CyclesInv, CyclesTypeOK
<1>5. Made' = Made /\ Queued' = Queued
  BY <1>1 DEF Made, Queued
<1>6. /\ \A c \in CycleId : RowAgrees(cycles'[c])
      /\ \A o \in Owner : JobAgrees(o)'
  BY <1>1, <1>5 DEF CyclesInv, JobAgrees
<1>7. NewestBlocks' /\ QueuedAgrees'
  BY <1>1, <1>5 DEF CyclesInv, NewestBlocks, Blocking, QueuedAgrees
<1>8. EffectsFenced' /\ OneGenerator' /\ RepliesInOrder'
  BY <1>1, <1>5 DEF CyclesInv, EffectsFenced, OneGenerator, Generates, RepliesInOrder
<1> QED BY <1>4, <1>6, <1>7, <1>8 DEF CyclesInv

(* A prepared cycle that is not in the Outbox is the newest one, or it was *)
(* isolated while its owner was still at work.                             *)
LEMMA LateUnlessNewest ==
  ASSUME CyclesInv, NEW c \in Made, c < made, cycles[c].prepared, c \notin Queued
  PROVE  Late(cycles[c])
<1>1. Sound(cycles[c]) /\ ~Blocks(cycles[c])
  BY SoundRows DEF CyclesInv, NewestBlocks, Blocking, Blocks
<1>2. cycles[c].state # "outbox_queued"
  BY DEF CyclesInv, QueuedAgrees
<1>3. cycles[c].state = "manual_hold" /\ ~cycles[c].blocks_thread
  BY <1>1, <1>2, WorkBlocks DEF Work, Sound, Cycle, CycleState, ActiveStates, Blocks
<1> QED
  BY <1>1, <1>3 DEF Sound, RowAgrees, ActiveStates, Cycle, Disposition, Late

LEMMA EnqueueKeeps ==
  ASSUME CyclesInv, NEW o \in Owner, EnqueuePrepared(o)
  PROVE  CyclesInv'
<1> DEFINE c == job[o].cycle
           j == [job[o] EXCEPT !.at = "enqueued"]
<1>1. /\ job[o].at = "prepared" /\ Go(o, "enqueued")
      /\ outbox' = IF c \in Queued THEN outbox ELSE Append(outbox, c)
      /\ UNCHANGED <<latest, coordinated, made, cycles>>
  BY DEF EnqueuePrepared
<1>2. /\ c \in Made /\ c \in CycleId /\ Sound(cycles[c]) /\ JobAgrees(o)
      /\ outbox \in Seq(CycleId) /\ job \in [Owner -> Job]
  BY <1>1, SoundRows DEF CyclesInv, CyclesTypeOK
<1>3. cycles[c].prepared
  BY <1>1, <1>2 DEF JobAgrees
<1>4. "enqueued" \in Place
  BY DEF Place
<1>5. /\ j \in Job /\ job' = [job EXCEPT ![o] = j] /\ job'[o] = j
      /\ j.at = "enqueued" /\ j.cycle = c /\ j.recovering = job[o].recovering
  BY <1>1, <1>4, GoIs
<1> HIDE DEF j
<1>6. \A p \in Owner : p # o => job'[p] = job[p]
  BY <1>2, <1>5
<1>7. Made' = Made
  BY <1>1 DEF Made
<1>8. /\ outbox' \in Seq(CycleId)
      /\ c \in Queued' /\ Queued \subseteq Queued' /\ Queued' \subseteq Queued \cup {c}
  <2>1. CASE c \in Queued
    BY <1>1, <1>2, <2>1 DEF Queued
  <2>2. CASE c \notin Queued
    <3>1. outbox' = Append(outbox, c)
      BY <1>1, <2>2
    <3>2. /\ outbox' \in Seq(CycleId) /\ Len(outbox') = Len(outbox) + 1
          /\ outbox'[Len(outbox) + 1] = c
          /\ \A i \in 1..Len(outbox) : outbox'[i] = outbox[i]
          /\ Len(outbox) \in Nat
      BY <1>2, <3>1
    <3> QED BY <3>2 DEF Queued
  <2> QED BY <2>1, <2>2
<1>9. CyclesTypeOK'
  <2>1. job' \in [Owner -> Job]
    BY <1>2, <1>5
  <2>2. \A p \in Owner : job'[p].at # "idle" => job'[p].cycle \in 1..made
    BY <1>2, <1>5, <1>6 DEF CyclesInv, CyclesTypeOK, Made
  <2> QED BY <1>1, <1>8, <2>1, <2>2 DEF CyclesInv, CyclesTypeOK
<1>10. \A p \in Owner : JobAgrees(p)'
  <2> SUFFICES ASSUME NEW p \in Owner PROVE JobAgrees(p)'
    OBVIOUS
  <2>1. CASE p = o
    BY <1>1, <1>3, <1>5, <1>8, <2>1 DEF JobAgrees
  <2>2. CASE p # o
    <3>1. JobAgrees(p) /\ job'[p] = job[p]
      BY <1>6, <2>2 DEF CyclesInv
    <3> QED BY <1>1, <1>8, <3>1 DEF JobAgrees
  <2> QED BY <2>1, <2>2
<1>11. NewestBlocks' /\ EffectsFenced' /\ \A d \in CycleId : RowAgrees(cycles'[d])
  BY <1>1, <1>7 DEF CyclesInv, NewestBlocks, Blocking, EffectsFenced
<1>12. OneGenerator'
  <2>1. \A p \in Owner : (Generates(p)' <=> Generates(p)) /\ job'[p].cycle = job[p].cycle
    BY <1>1, <1>5, <1>6 DEF Generates
  <2> QED BY <2>1 DEF CyclesInv, OneGenerator
<1>13. QueuedAgrees' /\ RepliesInOrder'
  <2>1. CASE c \in Queued
    BY <1>1, <1>7, <2>1 DEF CyclesInv, QueuedAgrees, Queued, RepliesInOrder
  <2>2. CASE c \notin Queued
    <3>1. outbox' = Append(outbox, c)
      BY <1>1, <2>2
    <3>2. /\ Len(outbox') = Len(outbox) + 1 /\ Len(outbox) \in Nat
          /\ outbox'[Len(outbox) + 1] = c
          /\ \A i \in 1..Len(outbox) : outbox'[i] = outbox[i]
      BY <1>2, <3>1
    <3>3. \A i \in 1..Len(outbox) : outbox[i] \in Made /\ cycles[outbox[i]].prepared
      BY DEF CyclesInv, QueuedAgrees
    <3>4. \A i \in 1..Len(outbox') : outbox'[i] \in Made /\ cycles[outbox'[i]].prepared
      BY <1>2, <1>3, <3>2, <3>3
    <3>5. \A d \in Made : cycles[d].state = "outbox_queued" => d \in Queued'
      BY <1>8 DEF CyclesInv, QueuedAgrees
    <3>6. QueuedAgrees'
      BY <1>1, <1>7, <3>4, <3>5 DEF QueuedAgrees
    <3>7. ASSUME NEW i \in 1..Len(outbox'), NEW k \in 1..Len(outbox'), i < k
          PROVE  outbox'[i] < outbox'[k] \/ Late(cycles[outbox'[k]])
      <4>1. i \in 1..Len(outbox) /\ outbox'[i] = outbox[i]
        BY <3>2, <3>7
      <4>2. CASE k \in 1..Len(outbox)
        BY <3>2, <3>7, <4>1, <4>2 DEF CyclesInv, RepliesInOrder, Late
      <4>3. CASE k \notin 1..Len(outbox)
        <5>1. outbox'[k] = c
          BY <3>2, <4>3
        <5>2. outbox[i] # c /\ outbox[i] \in Made
          BY <2>2, <3>3, <4>1 DEF Queued
        <5>3. made \in Nat /\ c \in 1..made /\ outbox[i] \in 1..made
          BY <1>2, <5>2, CycleAssumption DEF Made, CyclesInv, CyclesTypeOK
        <5>4. CASE c = made
          BY <4>1, <5>1, <5>2, <5>3, <5>4
        <5>5. CASE c < made
          BY <1>2, <1>3, <2>2, <5>1, <5>5, LateUnlessNewest
        <5> QED BY <5>3, <5>4, <5>5
      <4> QED BY <4>2, <4>3
    <3>8. RepliesInOrder'
      BY <1>1, <3>7 DEF RepliesInOrder, Late
    <3> QED BY <3>6, <3>8
  <2> QED BY <2>1, <2>2
<1> QED BY <1>9, <1>10, <1>11, <1>12, <1>13 DEF CyclesInv

LEMMA NewCycleIs ==
  ASSUME NEW o \in Owner, NEW sources \in SUBSET MessageId, NEW p \in {0} \cup CycleId
  PROVE  LET t == NewCycle(o, sources, p)
         IN /\ t \in Cycle /\ RowAgrees(t) /\ t.attempt = 1 /\ t.state = "processing"
            /\ ~t.started /\ ~t.effects
<1>1. Coordinator \in Owner /\ Nobody \notin Owner
  BY CycleAssumption DEF Owner
<1> DEFINE t == NewCycle(o, sources, p)
<1>2. t \in Cycle
  BY DEF NewCycle, Leased, NoCycle, Cycle, CycleState, ActiveStates, Disposition
<1>3. /\ t.state = "processing" /\ t.attempt = 1 /\ t.lease = "live"
      /\ t.started = FALSE /\ t.effects = FALSE /\ t.prepared = FALSE
      /\ t.disposition = "none" /\ t.blocks_thread = TRUE
  BY DEF NewCycle, Leased, NoCycle
<1> HIDE DEF t
<1>4. RowAgrees(t)
  BY <1>3 DEF RowAgrees, ActiveStates
<1> QED BY <1>2, <1>3, <1>4 DEF t

LEMMA AcquireKeeps ==
  ASSUME CyclesInv, NEW o \in Owner, NEW last \in Pending, Acquire(o, last)
  PROVE  CyclesInv'
<1> DEFINE c == made + 1
           j == [Idle EXCEPT !.at = "acquired", !.cycle = c]
<1>1. PICK sources \in SUBSET MessageId, p \in {0} \cup Made :
        cycles' = [d \in CycleId |->
                     IF d = c THEN NewCycle(o, sources, p)
                     ELSE IF d = p THEN [cycles[p] EXCEPT !.successor = c]
                     ELSE cycles[d]]
  <2> DEFINE sources == {m \in Pending : m <= last}
  <2>1. sources \in SUBSET MessageId
    BY CycleAssumption DEF Pending, MessageId, CyclesInv, CyclesTypeOK
  <2>2. Predecessor(sources) \subseteq {0} \cup Made
    BY DEF Predecessor, Unsucceeded
  <2> QED BY <2>1, <2>2 DEF Acquire
<1>2. /\ Blocking = {} /\ made < MaxMessages /\ made' = c
      /\ job' = [job EXCEPT ![o] = j]
      /\ UNCHANGED <<latest, coordinated, outbox>>
  BY DEF Acquire, ThreadFree
<1>3. /\ made \in Nat /\ c \in CycleId /\ c \notin Made /\ Made' = Made \cup {c}
      /\ made \in 0..MaxMessages /\ c \in 0..MaxMessages
  BY <1>2, CycleAssumption DEF Made, CycleId, CyclesInv, CyclesTypeOK
<1>4. /\ cycles'[c] \in Cycle /\ RowAgrees(cycles'[c]) /\ cycles'[c].attempt = 1
      /\ cycles'[c].state = "processing" /\ ~cycles'[c].started /\ ~cycles'[c].effects
  <2>1. p \in {0} \cup CycleId
    BY SoundRows
  <2>2. cycles'[c] = NewCycle(o, sources, p)
    BY <1>1, <1>3
  <2> QED BY <2>1, <2>2, NewCycleIs
<1>5. ASSUME NEW d \in CycleId, d # c
      PROVE  /\ cycles'[d] \in Cycle /\ RowAgrees(cycles'[d])
             /\ cycles'[d].state = cycles[d].state /\ cycles'[d].attempt = cycles[d].attempt
             /\ cycles'[d].lease = cycles[d].lease /\ cycles'[d].holder = cycles[d].holder
             /\ cycles'[d].started = cycles[d].started /\ cycles'[d].effects = cycles[d].effects
             /\ cycles'[d].prepared = cycles[d].prepared
             /\ cycles'[d].disposition = cycles[d].disposition
             /\ cycles'[d].blocks_thread = cycles[d].blocks_thread
             /\ cycles'[d].blocks_effects = cycles[d].blocks_effects
  <2>1. cycles[d] \in Cycle /\ RowAgrees(cycles[d])
    BY DEF CyclesInv, CyclesTypeOK
  <2>2. cycles'[d] = cycles[d] \/ cycles'[d] = [cycles[d] EXCEPT !.successor = c]
    BY <1>1, <1>5
  <2>3. [cycles[d] EXCEPT !.successor = c] \in Cycle
    BY <1>3, <2>1 DEF Cycle
  <2> QED BY <2>1, <2>2, <2>3 DEF Cycle, RowAgrees
<1>6. j \in Job /\ j.at = "acquired" /\ j.cycle = c
  BY <1>3 DEF Idle, Job, Place, Snapshot, NoSnapshot
<1> HIDE DEF j
<1>7. job' \in [Owner -> Job] /\ job'[o] = j /\ \A q \in Owner : q # o => job'[q] = job[q]
  BY <1>2, <1>6 DEF CyclesInv, CyclesTypeOK
<1>8. CyclesTypeOK'
  <2>1. cycles' \in [CycleId -> Cycle]
    BY <1>1, <1>4, <1>5
  <2>2. \A d \in CycleId :
          /\ cycles'[d].state = "absent" <=> d > c
          /\ cycles'[d].attempt <= MaxAttempts
          /\ cycles'[d].holder # Nobody => cycles'[d].lease # "none"
    <3> SUFFICES ASSUME NEW d \in CycleId
                 PROVE  /\ cycles'[d].state = "absent" <=> d > c
                        /\ cycles'[d].attempt <= MaxAttempts
                        /\ cycles'[d].holder # Nobody => cycles'[d].lease # "none"
      OBVIOUS
    <3>1. CASE d = c
      BY <1>3, <1>4, <3>1, CycleAssumption DEF RowAgrees
    <3>2. CASE d # c
      <4>1. /\ cycles[d].state = "absent" <=> d > made
            /\ cycles[d].attempt <= MaxAttempts
            /\ cycles[d].holder # Nobody => cycles[d].lease # "none"
        BY DEF CyclesInv, CyclesTypeOK
      <4>2. d > made <=> d > c
        BY <1>3, <3>2, CycleAssumption DEF CycleId
      <4> QED BY <1>5, <3>2, <4>1, <4>2
    <3> QED BY <3>1, <3>2
  <2>3. \A q \in Owner : job'[q].at # "idle" => job'[q].cycle \in 1..c
    BY <1>3, <1>6, <1>7 DEF CyclesInv, CyclesTypeOK
  <2> QED BY <1>2, <1>3, <1>7, <2>1, <2>2, <2>3 DEF CyclesInv, CyclesTypeOK
<1>9. \A d \in CycleId : RowAgrees(cycles'[d])
  BY <1>4, <1>5
<1>10. Queued' = Queued
  BY <1>2 DEF Queued
<1>11. \A d \in Made : d \in CycleId /\ d # c
  BY <1>3, SoundRows
<1>12. \A q \in Owner : JobAgrees(q)'
  <2> SUFFICES ASSUME NEW q \in Owner PROVE JobAgrees(q)'
    OBVIOUS
  <2>1. CASE q = o
    BY <1>6, <1>7, <2>1 DEF JobAgrees
  <2>2. CASE q # o
    <3>1. JobAgrees(q) /\ job'[q] = job[q]
      BY <1>7, <2>2 DEF CyclesInv
    <3>2. CASE job[q].at = "idle"
      BY <3>1, <3>2 DEF JobAgrees
    <3>3. CASE job[q].at # "idle"
      <4>1. job[q].cycle \in CycleId /\ job[q].cycle # c
        BY <1>11, <3>3, SoundRows
      <4> QED BY <1>5, <1>10, <3>1, <4>1 DEF JobAgrees, Leasable
    <3> QED BY <3>2, <3>3
  <2> QED BY <2>1, <2>2
<1>13. NewestBlocks'
  <2> SUFFICES ASSUME NEW d \in Made', d < c PROVE d \notin Blocking'
    BY <1>2 DEF NewestBlocks
  <2>1. d \in Made /\ d \in CycleId /\ d # c
    BY <1>3, <1>11
  <2>2. d \notin Blocking
    BY <1>2
  <2> QED BY <1>5, <2>1, <2>2 DEF Blocking
<1>14. QueuedAgrees'
  BY <1>2, <1>3, <1>4, <1>5, <1>10, <1>11 DEF CyclesInv, QueuedAgrees
<1>15. EffectsFenced'
  <2> SUFFICES ASSUME NEW d \in Made', NEW e \in Made', e < d, cycles'[d].effects,
                      cycles'[e].started
               PROVE  Past(cycles'[e])
    BY DEF EffectsFenced, Past
  <2>1. d \in Made /\ e \in Made
    BY <1>3, <1>4
  <2>2. Past(cycles[e])
    BY <1>5, <1>11, <2>1 DEF CyclesInv, EffectsFenced, Past
  <2> QED BY <1>5, <1>11, <2>1, <2>2 DEF Past, Superseded
<1>16. OneGenerator'
  <2>1. \A q \in Owner : Generates(q)' => q # o
    BY <1>6, <1>7 DEF Generates
  <2>2. \A q \in Owner : Generates(q)' => Generates(q) /\ job'[q].cycle = job[q].cycle
    BY <1>7, <2>1 DEF Generates
  <2> QED BY <2>2 DEF CyclesInv, OneGenerator
<1>17. RepliesInOrder'
  <2> SUFFICES ASSUME NEW i \in 1..Len(outbox), NEW k \in 1..Len(outbox), i < k
               PROVE  outbox[i] < outbox[k] \/ Late(cycles'[outbox[k]])
    BY <1>2 DEF RepliesInOrder, Late
  <2>1. outbox[i] < outbox[k] \/ Late(cycles[outbox[k]])
    BY DEF CyclesInv, RepliesInOrder, Late
  <2>2. outbox[k] \in Made
    BY DEF CyclesInv, QueuedAgrees
  <2> QED BY <1>5, <1>11, <2>1, <2>2 DEF Late
<1> QED
  BY <1>8, <1>9, <1>12, <1>13, <1>14, <1>15, <1>16, <1>17 DEF CyclesInv

-----------------------------------------------------------------------------
(* The invariant holds initially and is kept by every step.                *)
LEMMA InitEstablishes ==
  ASSUME CyclesInit
  PROVE  CyclesInv
<1>1. /\ latest = 0 /\ coordinated = {} /\ made = 0 /\ outbox = << >>
      /\ cycles = [c \in CycleId |-> NoCycle] /\ job = [o \in Owner |-> Idle]
  BY DEF CyclesInit
<1>2. Made = {} /\ 0 \in 0..MaxMessages
  BY <1>1, CycleAssumption DEF Made
<1>3. NoCycle \in Cycle /\ Idle \in Job
  BY CycleAssumption
     DEF NoCycle, Cycle, CycleState, ActiveStates, Disposition, CycleId, MessageId, Owner,
         Idle, Job, Place, Snapshot, NoSnapshot
<1>4. /\ NoCycle.state = "absent" /\ NoCycle.attempt = 0 /\ NoCycle.holder = Nobody
      /\ Idle.at = "idle"
  BY DEF NoCycle, Idle
<1>5. \A c \in CycleId : cycles[c] = NoCycle /\ c > made
  BY <1>1, CycleAssumption DEF CycleId
<1>6. \A o \in Owner : job[o] = Idle
  BY <1>1
<1>7. outbox \in Seq(CycleId) /\ Len(outbox) = 0
  BY <1>1
<1>8. CyclesTypeOK
  <2>1. cycles \in [CycleId -> Cycle] /\ job \in [Owner -> Job]
    BY <1>1, <1>3
  <2>2. coordinated \subseteq 1..latest /\ latest \in 0..MaxMessages /\ made \in 0..MaxMessages
    BY <1>1, <1>2
  <2>3. \A c \in CycleId :
          /\ cycles[c].state = "absent" <=> c > made
          /\ cycles[c].attempt <= MaxAttempts
          /\ cycles[c].holder # Nobody => cycles[c].lease # "none"
    BY <1>4, <1>5, CycleAssumption
  <2>4. \A o \in Owner : job[o].at # "idle" => job[o].cycle \in 1..made
    BY <1>4, <1>6
  <2> QED BY <1>7, <2>1, <2>2, <2>3, <2>4 DEF CyclesTypeOK
<1>9. \A c \in CycleId : RowAgrees(cycles[c])
  BY <1>5 DEF RowAgrees, NoCycle, ActiveStates
<1>10. \A o \in Owner : JobAgrees(o)
  BY <1>4, <1>6 DEF JobAgrees
<1>11. NewestBlocks /\ QueuedAgrees /\ EffectsFenced /\ RepliesInOrder
  BY <1>2, <1>7 DEF NewestBlocks, QueuedAgrees, EffectsFenced, RepliesInOrder
<1>12. OneGenerator
  BY <1>4, <1>6 DEF OneGenerator, Generates
<1> QED BY <1>8, <1>9, <1>10, <1>11, <1>12 DEF CyclesInv

LEMMA StepKeeps ==
  ASSUME CyclesInv, [CyclesNext]_cycleVars
  PROVE  CyclesInv'
<1>1. CASE AcceptPrivateIngress
  BY <1>1, AcceptKeeps
<1>2. ASSUME NEW o \in HttpThread, DispatchPrivateTurn(o) PROVE CyclesInv'
  <2>1. o \in Owner
    BY DEF Owner
  <2> QED BY <1>2, <2>1, AcquireKeeps DEF DispatchPrivateTurn
<1>3. CASE ProcessThread
  BY <1>3, AcquireKeeps, CoordinatorOwns DEF ProcessThread
<1>4. CASE Reconcile
  BY <1>4, ScanKeeps, LookUpKeeps, HoldCycleKeeps, ClaimKeeps, LoadKeeps, RefusedKeeps,
     ReclaimKeeps DEF Reconcile
<1>5. ASSUME NEW o \in Owner, OwnerStep(o) \/ MarkFailure(o) \/ Vanish(o) PROVE CyclesInv'
  <2>1. CASE OwnerStep(o)
    <3>1. CASE LeaseLost(o)
      BY <3>1, ForgettingKeeps DEF LeaseLost
    <3> QED
      BY <2>1, <3>1, StartKeeps, AdmitKeeps, PrepareKeeps, EnqueueKeeps, BindKeeps DEF OwnerStep
  <2>2. CASE MarkFailure(o)
    BY <2>2, FailureKeeps
  <2>3. CASE Vanish(o)
    BY <2>3, ForgettingKeeps DEF Vanish
  <2> QED BY <1>5, <2>1, <2>2, <2>3
<1>6. ASSUME NEW c \in CycleId, ExpireLease(c) PROVE CyclesInv'
  BY <1>6, ExpireKeeps
<1>7. CASE WriteSetting
  BY <1>7, SettingKeeps
<1>8. CASE Operator
  BY <1>8, OperatorKeeps DEF Operator
<1>9. CASE UNCHANGED cycleVars
  BY <1>9
     DEF cycleVars, CyclesInv, CyclesTypeOK, JobAgrees, NewestBlocks, Blocking, Made, QueuedAgrees,
         Queued, EffectsFenced, OneGenerator, Generates, RepliesInOrder
<1> QED
  BY <1>1, <1>2, <1>3, <1>4, <1>5, <1>6, <1>7, <1>8, <1>9 DEF CyclesNext

(* The inductive invariant of the response cycles: what a row says of      *)
(* itself, what owners know of their rows, and which cycle may block.      *)
THEOREM CyclesAlwaysAgree == CyclesSpec => []CyclesInv
<1> QED BY InitEstablishes, StepKeeps, PTL DEF CyclesSpec

(* Every variable keeps its type, and no attempt is counted beyond         *)
(* max_attempts, under every operation of owners, recovery and operator.   *)
THEOREM CyclesTyped == CyclesSpec => []CyclesTypeOK
<1>1. CyclesInv => CyclesTypeOK
  BY DEF CyclesInv
<1> QED BY <1>1, CyclesAlwaysAgree, PTL

(* At most one cycle blocks a thread, so that the partial unique index is  *)
(* never hit: neither a hold nor a recovery revives a cycle set aside.     *)
THEOREM ThreadHasOneCycle == CyclesSpec => []OneCyclePerThread
<1>1. CyclesInv => OneCyclePerThread
  <2> SUFFICES ASSUME CyclesInv, NEW c \in Blocking, NEW d \in Blocking PROVE c = d
    BY DEF OneCyclePerThread
  <2>1. made \in Nat /\ c \in 1..made /\ d \in 1..made
    BY CycleAssumption DEF Blocking, Made, CyclesInv, CyclesTypeOK
  <2>2. ~(c < made) /\ ~(d < made)
    BY DEF CyclesInv, NewestBlocks, Blocking
  <2> QED BY <2>1, <2>2
<1> QED BY <1>1, CyclesAlwaysAgree, PTL

(* Replies enter the Outbox in the order of the messages they answer,      *)
(* unless the operator isolated a cycle whose owner was still at work.     *)
THEOREM OrderOfReplies == CyclesSpec => []RepliesInOrder
<1>1. CyclesInv => RepliesInOrder
  BY DEF CyclesInv
<1> QED BY <1>1, CyclesAlwaysAgree, PTL

(* The cycle row never denies what the Outbox holds, whatever crashed      *)
(* between the two databases.                                              *)
THEOREM RowsKnowTheOutbox == CyclesSpec => []OutboxFactAgrees
<1>1. CyclesInv => OutboxFactAgrees
  <2> SUFFICES ASSUME CyclesInv, NEW c \in Made, c \in Queued
               PROVE  \/ cycles[c].state \in {"commit_ready", "outbox_queued"}
                      \/ /\ cycles[c].state = "manual_hold"
                         /\ cycles[c].blocks_effects \/ cycles[c].disposition = "effects_resolved"
    BY DEF OutboxFactAgrees, CyclesInv, QueuedAgrees
  <2>1. Sound(cycles[c])
    BY SoundRows
  <2>2. cycles[c].prepared
    BY DEF Queued, CyclesInv, QueuedAgrees
  <2> QED
    BY <2>1, <2>2 DEF Sound, RowAgrees, Cycle, CycleState, ActiveStates
<1> QED BY <1>1, CyclesAlwaysAgree, PTL

(* Effects are admitted only when those of every earlier cycle are known.  *)
THEOREM DoubtIsNotBuiltUpon == CyclesSpec => []EffectsFenced
<1>1. CyclesInv => EffectsFenced
  BY DEF CyclesInv
<1> QED BY <1>1, CyclesAlwaysAgree, PTL

(* A superseded draft had no effect, is not in the Outbox and cannot come  *)
(* to be there.                                                            *)
THEOREM DraftsStaySilent == CyclesSpec => []SupersededIsSilent
<1>1. CyclesInv => SupersededIsSilent
  <2> SUFFICES ASSUME CyclesInv, NEW c \in Made, Superseded(cycles[c])
               PROVE  /\ ~cycles[c].effects
                      /\ c \notin Queued
                      /\ \A o \in Owner :
                           job[o].cycle = c => job[o].at \notin {"prepared", "enqueued"}
    BY DEF SupersededIsSilent
  <2>1. ~cycles[c].effects /\ ~cycles[c].prepared
    BY SoundRows DEF Sound, RowAgrees, Superseded
  <2>2. c \notin Queued
    BY <2>1 DEF Queued, CyclesInv, QueuedAgrees
  <2>3. \A o \in Owner : job[o].cycle = c => job[o].at \notin {"prepared", "enqueued"}
    BY <2>1 DEF CyclesInv, JobAgrees
  <2> QED BY <2>1, <2>2, <2>3
<1> QED BY <1>1, CyclesAlwaysAgree, PTL

(* One owner at most is past the start of a generation, however leases     *)
(* expire and are taken over.                                              *)
THEOREM GenerationIsExclusive == CyclesSpec => []OneGenerator
<1>1. CyclesInv => OneGenerator
  BY DEF CyclesInv
<1> QED BY <1>1, CyclesAlwaysAgree, PTL

-----------------------------------------------------------------------------
(* The lineage of a cycle.  Its recursive definition is unfolded once, and *)
(* everything else about lineages follows by induction on the cycle.       *)

(* Lineage in any table of rows: in this state, or in the next one.        *)
LineIn(rows, c) ==
  LET line[d \in 0..MaxMessages] ==
        IF d = 0 THEN {} ELSE {d} \cup line[rows[d].predecessor]
  IN line[c]

LEMMA LineageIs ==
  ASSUME NEW c
  PROVE  Lineage(c) = LineIn(cycles, c) /\ Lineage(c)' = LineIn(cycles', c')
BY DEF Lineage, LineIn

(* Induction on the cycles, for the members of a set.                      *)
LEMMA CycleInduction ==
  ASSUME NEW S, \A c \in CycleId : (\A d \in CycleId : d < c => d \in S) => c \in S
  PROVE  CycleId \subseteq S
<1> DEFINE T == CycleId \ S
           R == {ss \in Nat \X Nat : ss[1] < ss[2]}
<1>0. CycleId \subseteq Nat
  BY CycleAssumption DEF CycleId
<1>1. IsWellFoundedOn(R, Nat)
  BY NatLessThanWellFounded DEF OpToRel
<1>2. \A x, y \in Nat : y < x => <<y, x>> \in R
  OBVIOUS
<1> HIDE DEF R
<1> SUFFICES ASSUME T # {} PROVE FALSE
  OBVIOUS
<1>3. PICK c \in T : \A d \in T : ~(<<d, c>> \in R)
  BY <1>0, <1>1, WFMin
<1>4. \A d \in CycleId : d < c => d \in S
  BY <1>0, <1>2, <1>3
<1> QED BY <1>3, <1>4

Descend(rows) == \A c \in CycleId : rows[c].predecessor \in 0..(c-1)

(* The least set with c that is closed under predecessors: a witness for   *)
(* the function that LineIn defines.                                       *)
Closed(rows, S) == \A d \in S : rows[d].predecessor # 0 => rows[d].predecessor \in S

Least(rows, c) ==
  {d \in 1..MaxMessages :
     \A S \in SUBSET (1..MaxMessages) : c \in S /\ Closed(rows, S) => d \in S}

LEMMA LineUnfolds ==
  ASSUME NEW rows, Descend(rows)
  PROVE  /\ LineIn(rows, 0) = {}
         /\ \A c \in CycleId : LineIn(rows, c) = {c} \cup LineIn(rows, rows[c].predecessor)
<1> DEFINE Eqn(f) ==
             f = [d \in 0..MaxMessages |->
                    IF d = 0 THEN {} ELSE {d} \cup f[rows[d].predecessor]]
           g == [d \in 0..MaxMessages |-> IF d = 0 THEN {} ELSE Least(rows, d)]
           line == CHOOSE f : Eqn(f)
<1>0. MaxMessages \in Nat
  BY CycleAssumption
<1>1. \A d \in CycleId : Least(rows, d) = {d} \cup g[rows[d].predecessor]
  <2> SUFFICES ASSUME NEW d \in CycleId PROVE Least(rows, d) = {d} \cup g[rows[d].predecessor]
    OBVIOUS
  <2>0. d \in 1..MaxMessages /\ rows[d].predecessor \in 0..MaxMessages
    BY <1>0 DEF CycleId, Descend
  <2>1. CASE rows[d].predecessor = 0
    <3>1. g[rows[d].predecessor] = {}
      BY <2>1, <1>0
    <3>2. {d} \in SUBSET (1..MaxMessages) /\ Closed(rows, {d})
      BY <2>0, <2>1 DEF Closed
    <3>3. d \in Least(rows, d)
      BY <2>0 DEF Least
    <3>4. Least(rows, d) \subseteq {d}
      BY <3>2 DEF Least
    <3> QED BY <3>1, <3>3, <3>4
  <2>2. CASE rows[d].predecessor # 0
    <3> DEFINE p == rows[d].predecessor
               T == {d} \cup Least(rows, p)
    <3>0. p \in 1..MaxMessages
      BY <2>0, <2>2
    <3>1. g[p] = Least(rows, p)
      BY <2>2, <3>0
    <3>2. \A S : d \in S /\ Closed(rows, S) => p \in S
      BY <2>2 DEF Closed
    <3>3. T \subseteq Least(rows, d)
      BY <2>0, <3>2 DEF Least
    <3>4. p \in Least(rows, p)
      BY <3>0 DEF Least
    <3>5. Closed(rows, Least(rows, p))
      <4> SUFFICES ASSUME NEW e \in Least(rows, p), rows[e].predecessor # 0
                   PROVE  rows[e].predecessor \in Least(rows, p)
        BY DEF Closed
      <4>1. e \in CycleId
        BY DEF Least, CycleId
      <4>2. rows[e].predecessor \in 1..MaxMessages
        BY <4>1, <1>0 DEF CycleId, Descend
      <4>3. \A S \in SUBSET (1..MaxMessages) : p \in S /\ Closed(rows, S) => rows[e].predecessor \in S
        BY DEF Least, Closed
      <4> QED BY <4>2, <4>3 DEF Least
    <3>6. T \in SUBSET (1..MaxMessages) /\ Closed(rows, T)
      BY <2>0, <3>4, <3>5 DEF Closed, Least
    <3>7. Least(rows, d) \subseteq T
      BY <3>6 DEF Least
    <3> HIDE DEF g
    <3> QED BY <3>1, <3>3, <3>7
  <2> QED BY <2>1, <2>2
<1>2. Eqn(g)
  <2> SUFFICES ASSUME NEW d \in 0..MaxMessages, d # 0
               PROVE  Least(rows, d) = {d} \cup g[rows[d].predecessor]
    OBVIOUS
  <2>1. d \in CycleId
    BY <1>0 DEF CycleId
  <2> QED BY <2>1, <1>1
<1>3. Eqn(line)
  <2> HIDE DEF g
  <2>1. \E f : Eqn(f)
    BY <1>2
  <2> QED BY <2>1
<1>4. \A c : LineIn(rows, c) = line[c]
  BY DEF LineIn
<1> HIDE DEF line
<1>5. line[0] = {}
  BY <1>0, <1>3
<1>6. \A c \in CycleId : line[c] = {c} \cup line[rows[c].predecessor]
  BY <1>0, <1>3 DEF CycleId, Descend
<1> QED BY <1>4, <1>5, <1>6

LEMMA LineBounds ==
  ASSUME NEW rows, Descend(rows), NEW c \in CycleId
  PROVE  c \in LineIn(rows, c) /\ LineIn(rows, c) \subseteq 1..c
<1> DEFINE S == {d \in CycleId : LineIn(rows, d) \subseteq 1..d}
<1>1. \A d \in CycleId : (\A e \in CycleId : e < d => e \in S) => d \in S
  <2> SUFFICES ASSUME NEW d \in CycleId, \A e \in CycleId : e < d => e \in S
               PROVE  LineIn(rows, d) \subseteq 1..d
    OBVIOUS
  <2> DEFINE p == rows[d].predecessor
  <2>1. LineIn(rows, d) = {d} \cup LineIn(rows, p) /\ LineIn(rows, 0) = {}
    BY LineUnfolds
  <2>2. d \in 1..MaxMessages /\ MaxMessages \in Nat /\ p \in 0..(d-1)
    BY CycleAssumption DEF CycleId, Descend
  <2>3. CASE p = 0
    BY <2>1, <2>2, <2>3
  <2>4. CASE p # 0
    <3>1. p \in CycleId /\ p < d
      BY <2>2, <2>4 DEF CycleId
    <3>2. LineIn(rows, p) \subseteq 1..p
      BY <3>1
    <3> QED BY <2>1, <2>2, <3>1, <3>2
  <2> QED BY <2>3, <2>4
<1>2. c \in S
  <2> HIDE DEF S
  <2> QED BY <1>1, CycleInduction
<1> QED BY <1>2, LineUnfolds

(* Every member but the last is the predecessor of a member.               *)
LEMMA LineContinues ==
  ASSUME NEW rows, Descend(rows), NEW c \in CycleId, NEW e \in LineIn(rows, c), e # c
  PROVE  \E d \in LineIn(rows, c) : rows[d].predecessor = e
<1> DEFINE S == {d \in CycleId : \A m \in LineIn(rows, d) :
                   m # d => \E n \in LineIn(rows, d) : rows[n].predecessor = m}
<1>1. \A d \in CycleId : (\A n \in CycleId : n < d => n \in S) => d \in S
  <2> SUFFICES ASSUME NEW d \in CycleId, \A n \in CycleId : n < d => n \in S,
                      NEW m \in LineIn(rows, d), m # d
               PROVE  \E n \in LineIn(rows, d) : rows[n].predecessor = m
    OBVIOUS
  <2> DEFINE p == rows[d].predecessor
  <2>1. LineIn(rows, d) = {d} \cup LineIn(rows, p) /\ LineIn(rows, 0) = {}
    BY LineUnfolds
  <2>2. m \in LineIn(rows, p) /\ p # 0
    BY <2>1
  <2>3. p \in CycleId /\ p < d
    BY <2>2, CycleAssumption DEF CycleId, Descend
  <2>4. CASE m = p
    BY <2>1, <2>4
  <2>5. CASE m # p
    BY <2>1, <2>2, <2>3, <2>5
  <2> QED BY <2>4, <2>5
<1>2. c \in S
  <2> HIDE DEF S
  <2> QED BY <1>1, CycleInduction
<1> QED BY <1>2

(* Tables with the same predecessors up to a cycle have the same lineages. *)
LEMMA LinesAlike ==
  ASSUME NEW rows, NEW others, Descend(rows), Descend(others), NEW n \in 0..MaxMessages,
         \A d \in 1..n : rows[d].predecessor = others[d].predecessor
  PROVE  \A d \in 0..n : LineIn(rows, d) = LineIn(others, d)
<1> DEFINE S == {d \in CycleId : d <= n => LineIn(rows, d) = LineIn(others, d)}
<1>0. LineIn(rows, 0) = {} /\ LineIn(others, 0) = {} /\ MaxMessages \in Nat
  BY LineUnfolds, CycleAssumption
<1>1. \A d \in CycleId : (\A e \in CycleId : e < d => e \in S) => d \in S
  <2> SUFFICES ASSUME NEW d \in CycleId, \A e \in CycleId : e < d => e \in S, d <= n
               PROVE  LineIn(rows, d) = LineIn(others, d)
    OBVIOUS
  <2> DEFINE p == rows[d].predecessor
  <2>1. p = others[d].predecessor /\ p \in 0..(d-1) /\ d \in 1..n
    BY <1>0 DEF Descend, CycleId
  <2>2. LineIn(rows, p) = LineIn(others, p)
    <3>1. CASE p = 0
      BY <1>0, <3>1
    <3>2. CASE p # 0
      BY <1>0, <2>1, <3>2 DEF CycleId
    <3> QED BY <3>1, <3>2
  <2>3. /\ LineIn(rows, d) = {d} \cup LineIn(rows, p)
        /\ LineIn(others, d) = {d} \cup LineIn(others, others[d].predecessor)
    BY LineUnfolds
  <2> QED BY <2>1, <2>2, <2>3
<1>2. CycleId \subseteq S
  <2> HIDE DEF S
  <2> QED BY <1>1, CycleInduction
<1>3. ASSUME NEW d \in 0..n PROVE LineIn(rows, d) = LineIn(others, d)
  <2>1. CASE d = 0
    BY <1>0, <2>1
  <2>2. CASE d # 0
    BY <1>0, <1>2, <2>2 DEF CycleId
  <2> QED BY <2>1, <2>2
<1> QED BY <1>3

LEMMA LineSize ==
  ASSUME NEW rows, Descend(rows), NEW c \in CycleId
  PROVE  /\ IsFiniteSet(LineIn(rows, c))
         /\ Cardinality(LineIn(rows, c)) \in Nat
         /\ rows[c].predecessor = 0 => Cardinality(LineIn(rows, c)) = 1
         /\ rows[c].predecessor # 0 =>
              Cardinality(LineIn(rows, c)) = Cardinality(LineIn(rows, rows[c].predecessor)) + 1
<1> DEFINE p == rows[c].predecessor
<1>1. c \in Nat /\ p \in 0..(c-1)
  BY CycleAssumption DEF CycleId, Descend
<1>2. \A d \in CycleId : IsFiniteSet(LineIn(rows, d)) /\ Cardinality(LineIn(rows, d)) \in Nat
  <2> SUFFICES ASSUME NEW d \in CycleId
               PROVE  IsFiniteSet(LineIn(rows, d)) /\ Cardinality(LineIn(rows, d)) \in Nat
    OBVIOUS
  <2>1. d \in Nat /\ LineIn(rows, d) \in SUBSET (1..d)
    BY LineBounds, CycleAssumption DEF CycleId
  <2>2. IsFiniteSet(1..d)
    BY <2>1, FS_Interval
  <2>3. IsFiniteSet(LineIn(rows, d))
    BY <2>1, <2>2, FS_Subset
  <2> QED BY <2>3, FS_CardinalityType
<1>3. LineIn(rows, c) = {c} \cup LineIn(rows, p) /\ LineIn(rows, 0) = {}
  BY LineUnfolds
<1>4. CASE p = 0
  <2>1. LineIn(rows, c) = {c}
    BY <1>3, <1>4
  <2> QED BY <1>2, <1>4, <2>1, FS_Singleton
<1>5. CASE p # 0
  <2>1. p \in CycleId
    BY <1>1, <1>5, CycleAssumption DEF CycleId
  <2>2. c \notin LineIn(rows, p)
    BY <1>1, <2>1, LineBounds
  <2>3. LineIn(rows, c) = LineIn(rows, p) \cup {c}
    BY <1>3
  <2> QED BY <1>2, <1>5, <2>1, <2>2, <2>3, FS_AddElement
<1> QED BY <1>2, <1>4, <1>5

-----------------------------------------------------------------------------
(* What a step shows of the cycles: which messages a row stands for, with  *)
(* which it is linked, whether it is superseded or held.                   *)

Kept(r, t) ==
  /\ t.sources = r.sources
  /\ t.predecessor = r.predecessor
  /\ t.successor = r.successor

OnHold(t) == t.state = "manual_hold"

Shown(r, t) ==
  /\ Kept(r, t)
  /\ Superseded(t) <=> Superseded(r)
  /\ OnHold(t) <=> OnHold(r)

Quiet ==
  /\ UNCHANGED <<latest, made, outbox>>
  /\ \A c \in CycleId : Shown(cycles[c], cycles'[c])

OnlyRow(c) ==
  /\ UNCHANGED <<latest, made, outbox>>
  /\ \A d \in CycleId : d # c => cycles'[d] = cycles[d]
  /\ Kept(cycles[c], cycles'[c])

HoldsOne(c) ==
  /\ OnlyRow(c)
  /\ ~OnHold(cycles[c])
  /\ OnHold(cycles'[c]) /\ ~Superseded(cycles'[c])

WithdrawsOne(c) ==
  /\ OnlyRow(c)
  /\ ~OnHold(cycles[c])
  /\ c \in Blocking /\ c \notin Queued
  /\ Revisions(c) < MaxRevisions
  /\ Newer(c) # {}
  /\ Superseded(cycles'[c])

EnqueuesOne(c) ==
  /\ cycles[c].prepared
  /\ outbox' = IF c \in Queued THEN outbox ELSE Append(outbox, c)
  /\ UNCHANGED <<latest, made, cycles>>

Visible ==
  \/ AcceptPrivateIngress
  \/ \E o \in Owner, last \in Pending : Acquire(o, last)
  \/ \E c \in Made : HoldsOne(c) \/ WithdrawsOne(c) \/ EnqueuesOne(c)
  \/ Quiet

LEMMA PutShows ==
  ASSUME CyclesInv, NEW c \in Made, NEW t, Put(c, t), UNCHANGED <<latest, made, outbox>>,
         Kept(cycles[c], t)
  PROVE  /\ cycles'[c] = t
         /\ OnlyRow(c)
         /\ Shown(cycles[c], t) => Quiet
<1>1. c \in CycleId /\ cycles \in [CycleId -> Cycle]
  BY SoundRows DEF CyclesInv, CyclesTypeOK
<1>2. cycles'[c] = t /\ \A d \in CycleId : d # c => cycles'[d] = cycles[d]
  BY <1>1 DEF Put
<1> QED BY <1>1, <1>2 DEF OnlyRow, Quiet, Shown, Kept

LEMMA ForgottenShows ==
  ASSUME CyclesInv, NEW o, cycles' = [c \in CycleId |-> Forgotten(cycles[c], o)],
         UNCHANGED <<latest, made, outbox>>
  PROVE  Quiet
<1>1. \A c \in CycleId : cycles[c] \in Cycle
  BY DEF CyclesInv, CyclesTypeOK
<1>2. ASSUME NEW c \in CycleId PROVE Shown(cycles[c], cycles'[c])
  BY <1>1 DEF Forgotten, Shown, Kept, OnHold, Superseded, Cycle
<1> QED BY <1>2 DEF Quiet

LEMMA OwnerShows ==
  ASSUME CyclesInv, NEW o \in Owner, OwnerStep(o) \/ MarkFailure(o) \/ Vanish(o)
  PROVE  Visible
<1> DEFINE c == job[o].cycle
           r == cycles[c]
<1>1. job[o].at # "idle" => c \in Made /\ Sound(r)
  BY SoundRows
<1>2. CASE MarkGenerationStarted(o)
  <2> DEFINE t == [r EXCEPT !.started = TRUE]
  <2>1. Sound(r) /\ c \in Made /\ Put(c, t) /\ UNCHANGED <<latest, made, outbox>>
    BY <1>1, <1>2 DEF MarkGenerationStarted
  <2>2. Shown(r, t)
    BY <2>1 DEF Sound, Shown, Kept, OnHold, Superseded, Cycle
  <2> HIDE DEF t
  <2> QED BY <2>1, <2>2, PutShows DEF Shown, Visible
<1>3. CASE AdmitEffects(o)
  <2> DEFINE t == [r EXCEPT !.effects = TRUE]
  <2>1. Sound(r) /\ c \in Made /\ Put(c, t) /\ UNCHANGED <<latest, made, outbox>>
    BY <1>1, <1>3 DEF AdmitEffects
  <2>2. Shown(r, t)
    BY <2>1 DEF Sound, Shown, Kept, OnHold, Superseded, Cycle
  <2> HIDE DEF t
  <2> QED BY <2>1, <2>2, PutShows DEF Shown, Visible
<1>4. CASE PrepareOrSupersede(o)
  <2>1. /\ Sound(r) /\ c \in Made /\ r.state = "processing"
        /\ UNCHANGED <<latest, made, outbox>>
        /\ \/ Newer(c) # {} /\ ReplanEligible(c) /\ Put(c, Withdrawn(r))
           \/ Put(c, Prepared(r))
    BY <1>1, <1>4 DEF PrepareOrSupersede
  <2>2. CASE Newer(c) # {} /\ ReplanEligible(c) /\ Put(c, Withdrawn(r))
    <3> DEFINE t == Withdrawn(r)
    <3>1. Kept(r, t) /\ Superseded(t) /\ ~OnHold(r)
      BY <2>1 DEF Withdrawn, Released, Sound, Kept, OnHold, Superseded, Cycle
    <3> HIDE DEF t
    <3>2. cycles'[c] = t /\ OnlyRow(c)
      BY <2>1, <2>2, <3>1, PutShows DEF t
    <3>3. c \in Blocking
      BY <2>1, WorkBlocks DEF Work, Blocks, Blocking
    <3>4. c \notin Queued
      BY <2>1 DEF Sound, RowAgrees, CyclesInv, QueuedAgrees, Queued
    <3> QED BY <2>1, <2>2, <3>1, <3>2, <3>3, <3>4 DEF WithdrawsOne, ReplanEligible, Visible
  <2>3. CASE Put(c, Prepared(r))
    <3> DEFINE t == Prepared(r)
    <3>1. Shown(r, t)
      BY <2>1 DEF Prepared, Sound, Shown, Kept, OnHold, Superseded, Cycle
    <3> HIDE DEF t
    <3> QED BY <2>1, <2>3, <3>1, PutShows DEF Shown, Visible, t
  <2> QED BY <2>1, <2>2, <2>3
<1>5. CASE EnqueuePrepared(o)
  <2>1. c \in Made
    BY <1>1, <1>5 DEF EnqueuePrepared
  <2>2. r.prepared
    BY <1>5 DEF EnqueuePrepared, CyclesInv, JobAgrees
  <2> QED BY <1>5, <2>1, <2>2 DEF EnqueuePrepared, EnqueuesOne, Visible
<1>6. CASE BindPrepared(o)
  <2> DEFINE t == [Released(r) EXCEPT !.state = "outbox_queued"]
  <2>1. /\ Sound(r) /\ c \in Made /\ Put(c, t) /\ UNCHANGED <<latest, made, outbox>>
        /\ r.state = "commit_ready"
    BY <1>1, <1>6 DEF BindPrepared
  <2>2. Shown(r, t)
    BY <2>1 DEF Released, Sound, Shown, Kept, OnHold, Superseded, Cycle
  <2> HIDE DEF t
  <2> QED BY <2>1, <2>2, PutShows DEF Shown, Visible
<1>7. CASE LeaseLost(o) \/ Vanish(o)
  BY <1>7, ForgottenShows DEF LeaseLost, Vanish, Visible
<1>8. CASE MarkFailure(o)
  <2> DEFINE t == Failed(r)
  <2>1. /\ Sound(r) /\ c \in Made /\ Put(c, t) /\ UNCHANGED <<latest, made, outbox>>
        /\ r.lease = "live"
    BY <1>1, <1>8 DEF MarkFailure, HoldsLease
  <2>2. r.state \in {"processing", "commit_ready"} /\ r.blocks_thread
    BY <2>1 DEF Sound, RowAgrees, Cycle, CycleState, ActiveStates
  <2>3. Kept(r, t) /\ t.blocks_thread
    BY <2>1, <2>2 DEF Failed, Released, Sound, Kept, Cycle
  <2> HIDE DEF t
  <2>4. cycles'[c] = t /\ OnlyRow(c) /\ (Shown(r, t) => Quiet)
    BY <2>1, <2>3, PutShows
  <2>5. CASE OnHold(t)
    BY <2>1, <2>2, <2>3, <2>4, <2>5 DEF HoldsOne, OnHold, Superseded, Visible
  <2>6. CASE ~OnHold(t)
    BY <2>2, <2>3, <2>4, <2>6 DEF Shown, OnHold, Superseded, Visible
  <2> QED BY <2>5, <2>6
<1> QED
  BY <1>2, <1>3, <1>4, <1>5, <1>6, <1>7, <1>8 DEF OwnerStep

LEMMA HeldShows ==
  ASSUME CyclesInv, NEW c \in Made, NEW e, Holdable(cycles[c]), Put(c, Held(cycles[c], e)),
         UNCHANGED <<latest, made, outbox>>
  PROVE  Visible
<1> DEFINE t == Held(cycles[c], e)
<1>1. Sound(cycles[c]) /\ ~OnHold(cycles[c])
  BY SoundRows DEF Holdable, OnHold
<1>2. Kept(cycles[c], t) /\ OnHold(t) /\ ~Superseded(t)
  BY <1>1 DEF Held, Released, Sound, Kept, OnHold, Superseded, Cycle
<1> HIDE DEF t
<1>3. cycles'[c] = t /\ OnlyRow(c)
  BY <1>2, PutShows DEF t
<1> QED BY <1>1, <1>2, <1>3 DEF HoldsOne, Visible

LEMMA UnchangedShows ==
  ASSUME CyclesInv, UNCHANGED <<latest, made, cycles, outbox>>
  PROVE  Quiet
BY DEF Quiet, Shown, Kept

LEMMA ReconcileShows ==
  ASSUME CyclesInv, Reconcile
  PROVE  Visible
<1> DEFINE c == Reconciled
           r == cycles[c]
<1>1. job[Coordinator].at # "idle" => c \in Made /\ Sound(r)
  BY SoundRows, CoordinatorOwns DEF Reconciled
<1>2. CASE (\E d \in CycleId : Scan(d)) \/ LookUp \/ LoadPrepared
  BY <1>2, UnchangedShows DEF Scan, LookUp, LoadPrepared, Visible
<1>3. CASE HoldCycle
  <2>1. c \in Made /\ UNCHANGED <<latest, made, outbox>> /\ HoldUnlessTaken(c, Uncertain)
    BY <1>1, <1>3 DEF HoldCycle
  <2> QED BY <2>1, HeldShows, UnchangedShows DEF HoldUnlessTaken, Visible
<1>4. CASE ClaimPrepared
  <2>1. c \in Made /\ Sound(r) /\ UNCHANGED <<latest, made, outbox>>
    BY <1>1, <1>4 DEF ClaimPrepared
  <2>2. CASE UNCHANGED cycles
    BY <2>1, <2>2, UnchangedShows DEF Visible
  <2>3. CASE ~UNCHANGED cycles
    <3> DEFINE t == [Leased(r, Coordinator) EXCEPT
                       !.attempt = IF job[Coordinator].existing THEN @ ELSE @ + 1]
    <3>1. Put(c, t) /\ r.state = "commit_ready"
      BY <1>4, <2>3 DEF ClaimPrepared
    <3>2. Shown(r, t)
      BY <2>1 DEF Leased, Sound, Shown, Kept, OnHold, Superseded, Cycle
    <3> HIDE DEF t
    <3> QED BY <2>1, <3>1, <3>2, PutShows DEF Shown, Visible
  <2> QED BY <2>2, <2>3
<1>5. CASE RecoveryRefused
  <2>1. c \in Made /\ UNCHANGED <<latest, made, outbox>>
    BY <1>1, <1>5 DEF RecoveryRefused
  <2>2. CASE Holdable(r)
    BY <1>5, <2>1, <2>2, HeldShows DEF RecoveryRefused
  <2>3. CASE ~Holdable(r)
    BY <1>5, <2>1, <2>3, ForgottenShows DEF RecoveryRefused, Visible
  <2> QED BY <2>2, <2>3
<1>6. CASE Reclaim
  <2>1. c \in Made /\ Sound(r) /\ UNCHANGED <<latest, made, outbox>>
    BY <1>1, <1>6 DEF Reclaim
  <2>2. CASE ~Reclaimable(r)
    BY <1>6, <2>1, <2>2, UnchangedShows DEF Reclaim, Visible
  <2>3. CASE Reclaimable(r)
    <3> DEFINE t == [Leased(r, Coordinator) EXCEPT !.state = "processing", !.attempt = @ + 1]
    <3>1. Put(c, t) /\ ~OnHold(r)
      BY <1>6, <2>3 DEF Reclaim, Reclaimable, OnHold
    <3>2. Shown(r, t)
      BY <2>1, <3>1 DEF Leased, Sound, Shown, Kept, OnHold, Superseded, Cycle
    <3> HIDE DEF t
    <3> QED BY <2>1, <3>1, <3>2, PutShows DEF Shown, Visible
  <2> QED BY <2>2, <2>3
<1> QED BY <1>2, <1>3, <1>4, <1>5, <1>6 DEF Reconcile

LEMMA OthersShow ==
  ASSUME CyclesInv, (\E c \in CycleId : ExpireLease(c)) \/ WriteSetting \/ Operator
  PROVE  Visible
<1>1. \A c \in Made : Sound(cycles[c])
  BY SoundRows
<1>2. ASSUME NEW c \in CycleId, cycles[c].state # "absent" PROVE c \in Made
  BY <1>2, CycleAssumption DEF CyclesInv, CyclesTypeOK, Made, CycleId
<1>3. ASSUME NEW c \in CycleId, ExpireLease(c) PROVE Quiet
  <2>1. c \in Made
    BY <1>2, <1>3 DEF ExpireLease, CyclesInv, RowAgrees
  <2> DEFINE t == [cycles[c] EXCEPT !.lease = "expired"]
  <2>2. Shown(cycles[c], t)
    BY <1>1, <2>1 DEF Sound, Shown, Kept, OnHold, Superseded, Cycle
  <2>3. Put(c, t) /\ UNCHANGED <<latest, made, outbox>>
    BY <1>3 DEF ExpireLease
  <2> HIDE DEF t
  <2> QED BY <2>1, <2>2, <2>3, PutShows DEF Shown
<1>4. ASSUME WriteSetting PROVE Quiet
  <2>1. \A c \in CycleId : cycles[c] \in Cycle
    BY DEF CyclesInv, CyclesTypeOK
  <2>2. ASSUME NEW c \in CycleId PROVE Shown(cycles[c], cycles'[c])
    BY <1>4, <2>1 DEF WriteSetting, Shown, Kept, OnHold, Superseded, Cycle
  <2> QED BY <1>4, <2>2 DEF WriteSetting, Quiet
<1>5. ASSUME NEW c \in CycleId, Isolate(c) PROVE Quiet
  <2>1. c \in Made
    BY <1>2, <1>5 DEF Isolate
  <2> DEFINE t == [cycles[c] EXCEPT
                     !.blocks_thread = FALSE, !.blocks_effects = EffectsUnknown(cycles[c]),
                     !.disposition = "isolated"]
  <2>2. Shown(cycles[c], t)
    BY <1>1, <1>5, <2>1 DEF Isolate, Sound, Shown, Kept, OnHold, Superseded, Cycle
  <2>3. Put(c, t) /\ UNCHANGED <<latest, made, outbox>>
    BY <1>5 DEF Isolate
  <2> HIDE DEF t
  <2> QED BY <2>1, <2>2, <2>3, PutShows DEF Shown
<1>6. ASSUME NEW c \in CycleId, ResolveEffects(c) PROVE Quiet
  <2>1. c \in Made
    BY <1>2, <1>6 DEF ResolveEffects
  <2> DEFINE t == [cycles[c] EXCEPT !.blocks_effects = FALSE, !.disposition = "effects_resolved"]
  <2>2. Shown(cycles[c], t)
    BY <1>1, <1>6, <2>1
       DEF ResolveEffects, Sound, RowAgrees, Shown, Kept, OnHold, Superseded, Cycle
  <2>3. Put(c, t) /\ UNCHANGED <<latest, made, outbox>>
    BY <1>6 DEF ResolveEffects
  <2> HIDE DEF t
  <2> QED BY <2>1, <2>2, <2>3, PutShows DEF Shown
<1> QED BY <1>3, <1>4, <1>5, <1>6 DEF Operator, Visible

LEMMA StepShows ==
  ASSUME CyclesInv, [CyclesNext]_cycleVars
  PROVE  Visible
<1>1. ASSUME NEW o \in HttpThread, DispatchPrivateTurn(o) PROVE Visible
  <2>1. o \in Owner
    BY DEF Owner
  <2> QED BY <1>1, <2>1 DEF DispatchPrivateTurn, Visible
<1>2. CASE ProcessThread
  BY <1>2, CoordinatorOwns DEF ProcessThread, Visible
<1>3. CASE UNCHANGED cycleVars
  BY <1>3, UnchangedShows DEF cycleVars, Visible
<1> QED
  BY <1>1, <1>2, <1>3, OwnerShows, ReconcileShows, OthersShow DEF CyclesNext, Visible

-----------------------------------------------------------------------------
(* The lines of drafts are kept by every step.                             *)

LEMMA LinesHold ==
  ASSUME HistoryInv
  PROVE  /\ Descend(cycles)
         /\ made \in 0..MaxMessages /\ MaxMessages \in Nat /\ CycleId = 1..MaxMessages
         /\ Made = 1..made /\ Made \subseteq CycleId
         /\ latest \in Nat
<1>1. CyclesTypeOK
  BY DEF HistoryInv, CyclesInv
<1>2. MaxMessages \in Nat /\ CycleId = 1..MaxMessages
  BY CycleAssumption DEF CycleId
<1>3. made \in 0..MaxMessages /\ Made = 1..made /\ Made \subseteq CycleId /\ latest \in Nat
  BY <1>1, <1>2, Typing DEF Made, CyclesTypeOK
<1>4. \A c \in CycleId : cycles[c].predecessor \in {0} \cup CycleId
  BY <1>1 DEF CyclesTypeOK, Cycle
<1>5. Descend(cycles)
  BY <1>2, <1>4 DEF Descend, HistoryInv, HopsHold
<1> QED BY <1>2, <1>3, <1>5

(* A row is the predecessor of the next member of any lineage that it      *)
(* belongs to, hence superseded and succeeded.                             *)
LEMMA MembersGoOn ==
  ASSUME HistoryInv, NEW c \in Made, NEW e \in Lineage(c), e # c
  PROVE  /\ e \in Made /\ e < c
         /\ Superseded(cycles[e]) /\ cycles[e].successor # 0
         /\ cycles[e].successor \in Lineage(c)
<1>1. Descend(cycles) /\ c \in CycleId /\ c \in 1..made /\ made \in Nat /\ Made = 1..made
  BY LinesHold
<1>2. Lineage(c) = LineIn(cycles, c) /\ Lineage(c) \subseteq 1..c
  BY <1>1, LineageIs, LineBounds
<1>3. PICK d \in Lineage(c) : cycles[d].predecessor = e
  BY <1>1, <1>2, LineContinues
<1>4. e \in 1..c /\ d \in 1..c
  BY <1>2
<1>5. e \in Made /\ d \in Made /\ e < c /\ e # 0 /\ d # 0
  BY <1>1, <1>4
<1>6. ValidHop(e, d)
  BY <1>3, <1>5 DEF HistoryInv, HopsHold
<1> QED BY <1>3, <1>5, <1>6 DEF ValidHop

(* Steps that begin no cycle.                                              *)
LEMMA LinesKept ==
  ASSUME HistoryInv, CyclesInv', made' = made, latest' \in {latest, latest + 1},
         \A c \in CycleId : Kept(cycles[c], cycles'[c]),
         \A c \in Made : Superseded(cycles[c]) => Superseded(cycles'[c]),
         \A c \in Made : Superseded(cycles'[c]) =>
           Superseded(cycles[c]) \/ (c = made /\ Revisions(c) < MaxRevisions),
         EnqueuedOnce'
  PROVE  HistoryInv'
<1>1. /\ Descend(cycles) /\ made \in 0..MaxMessages /\ MaxMessages \in Nat
      /\ CycleId = 1..MaxMessages /\ Made = 1..made /\ Made \subseteq CycleId /\ latest \in Nat
  BY LinesHold
<1>2. Made' = Made
  BY DEF Made
<1>3. Descend(cycles')
  BY <1>1 DEF Descend, Kept
<1>4. \A c \in CycleId : LineIn(cycles', c) = LineIn(cycles, c)
  BY <1>1, <1>3, LinesAlike DEF Kept
<1>5. ASSUME NEW c \in CycleId PROVE Lineage(c)' = Lineage(c) /\ Revisions(c)' = Revisions(c)
  <2>1. Lineage(c) = LineIn(cycles, c) /\ Lineage(c)' = LineIn(cycles', c)
    BY LineageIs
  <2> QED BY <1>4, <2>1 DEF Revisions
<1>6. InSequence'
  <2>1. InSequence
    BY DEF HistoryInv
  <2>2. \A c \in Made : cycles'[c].sources = cycles[c].sources
    BY <1>1 DEF Kept
  <2>3. /\ \A c \in Made : cycles'[c].sources # {} /\ cycles'[c].sources \subseteq 1..latest'
        /\ \A c, d \in Made : c < d => Below(cycles'[c].sources, cycles'[d].sources)
    BY <1>1, <2>1, <2>2 DEF InSequence
  <2>4. ASSUME NEW c \in Made, NEW s \in cycles[c].sources, NEW m \in Pending' PROVE s < m
    <3>1. s \in 1..latest
      BY <2>1 DEF InSequence
    <3>2. m \in 1..latest' /\ \A d \in Made : m \notin cycles[d].sources
      BY <1>2, <2>2 DEF Pending
    <3>3. CASE m \in 1..latest
      <4>1. m \in Pending
        BY <3>2, <3>3 DEF Pending
      <4> QED BY <2>1, <4>1 DEF InSequence, Below
    <3>4. CASE m \notin 1..latest
      BY <1>1, <3>1, <3>2, <3>4
    <3> QED BY <3>3, <3>4
  <2>5. \A c \in Made : Below(cycles[c].sources, Pending')
    BY <2>4 DEF Below
  <2> QED BY <1>2, <2>2, <2>3, <2>5 DEF InSequence, Below
<1>7. HopsHold'
  <2>1. \A c \in CycleId : cycles'[c].predecessor < c
    BY <1>1, <1>3 DEF Descend
  <2>2. ASSUME NEW c \in Made, cycles'[c].predecessor # 0
        PROVE  LET p == cycles'[c].predecessor
               IN /\ cycles'[p].successor = c
                  /\ Superseded(cycles'[p])
                  /\ ~cycles'[p].blocks_effects /\ ~cycles'[p].effects /\ ~cycles'[p].prepared
                  /\ Below(cycles'[p].sources, cycles'[c].sources)
    <3> DEFINE p == cycles[c].predecessor
    <3>1. cycles'[c].predecessor = p /\ p # 0 /\ c \in CycleId /\ p \in 0..(c-1)
      BY <1>1, <2>2 DEF Kept, Descend
    <3>2. p \in Made /\ p \in CycleId
      BY <1>1, <3>1
    <3>3. ValidHop(p, c)
      BY <3>1 DEF HistoryInv, HopsHold
    <3>4. Superseded(cycles'[p]) /\ Kept(cycles[p], cycles'[p]) /\ Kept(cycles[c], cycles'[c])
      BY <3>1, <3>2, <3>3 DEF ValidHop
    <3>5. RowAgrees(cycles'[p])
      BY <3>2 DEF CyclesInv
    <3> QED BY <3>1, <3>3, <3>4, <3>5 DEF ValidHop, Kept, RowAgrees, Superseded, Below
  <2> QED BY <1>2, <2>1, <2>2 DEF HopsHold, ValidHop, Below
<1>8. LinesBounded'
  <2>1. \A c \in Made :
          /\ Revisions(c)' = Revisions(c)
          /\ Revisions(c) <= MaxRevisions
          /\ Superseded(cycles[c]) => Revisions(c) < MaxRevisions
    BY <1>1, <1>5 DEF HistoryInv, LinesBounded
  <2> QED BY <1>2, <2>1 DEF LinesBounded
<1>9. CarriedOn'
  <2>1. CarriedOn
    BY DEF HistoryInv
  <2>2. \A c \in Made : Kept(cycles[c], cycles'[c])
    BY <1>1
  <2>3. \A c \in Made : Superseded(cycles'[c]) /\ c < made => cycles'[c].successor # 0
    BY <1>1, <2>1, <2>2 DEF CarriedOn, Kept
  <2>4. \A c \in Made :
          cycles'[c].successor # 0 =>
            /\ cycles'[c].successor \in Made
            /\ cycles'[cycles'[c].successor].predecessor = c
    BY <2>1, <2>2 DEF CarriedOn, Kept
  <2> QED BY <1>2, <2>3, <2>4 DEF CarriedOn
<1>10. LinesApart'
  <2>1. \A c \in Made : Lineage(c)' = Lineage(c)
    BY <1>1, <1>5
  <2> QED BY <1>2, <2>1 DEF HistoryInv, LinesApart
<1> QED BY <1>6, <1>7, <1>8, <1>9, <1>10 DEF HistoryInv

(* New sources continue the newest cycle, if it is superseded, or none.    *)
LEMMA PredecessorIs ==
  ASSUME HistoryInv, NEW sources \in SUBSET Pending
  PROVE  Predecessor(sources) =
           IF made # 0 /\ Superseded(cycles[made]) THEN {made} ELSE {0}
<1>1. /\ Descend(cycles) /\ made \in Nat /\ Made = 1..made /\ Made \subseteq CycleId
      /\ CycleId \subseteq Nat
  BY LinesHold
<1>2. ASSUME NEW q \in Unsucceeded(sources) PROVE q = made
  BY <1>1 DEF Unsucceeded, HistoryInv, CarriedOn
<1>3. CASE made # 0 /\ Superseded(cycles[made])
  <2>1. made \in Made /\ made \in CycleId
    BY <1>1, <1>3
  <2>2. cycles[made].successor = 0
    <3> SUFFICES ASSUME cycles[made].successor # 0 PROVE FALSE
      OBVIOUS
    <3>1. cycles[made].successor \in Made /\ cycles[cycles[made].successor].predecessor = made
      BY <2>1 DEF HistoryInv, CarriedOn
    <3> QED BY <1>1, <3>1 DEF Descend
  <2>3. Below(cycles[made].sources, sources)
    BY <2>1 DEF HistoryInv, InSequence, Below
  <2>4. made \in Unsucceeded(sources)
    BY <1>3, <2>1, <2>2, <2>3 DEF Unsucceeded
  <2>5. Unsucceeded(sources) = {made}
    BY <1>2, <2>4
  <2> QED BY <1>1, <1>3, <2>5 DEF Predecessor
<1>4. CASE ~(made # 0 /\ Superseded(cycles[made]))
  <2>1. Unsucceeded(sources) = {}
    BY <1>1, <1>2, <1>4 DEF Unsucceeded
  <2> QED BY <1>4, <2>1 DEF Predecessor
<1> QED BY <1>3, <1>4

LEMMA AcquireIs ==
  ASSUME HistoryInv, NEW o \in Owner, NEW last \in Pending, Acquire(o, last)
  PROVE  \E p \in {0, made} :
           LET sources == {m \in Pending : m <= last}
               c == made + 1
           IN /\ Blocking = {}
              /\ c \in CycleId /\ made' = c /\ UNCHANGED <<latest, outbox>>
              /\ p = IF made # 0 /\ Superseded(cycles[made]) THEN made ELSE 0
              /\ p # 0 => Revisions(p) < MaxRevisions
              /\ cycles'[c] = NewCycle(o, sources, p)
              /\ p # 0 => cycles'[p] = [cycles[p] EXCEPT !.successor = c]
              /\ \A d \in CycleId : d # c /\ d # p => cycles'[d] = cycles[d]
<1> DEFINE sources == {m \in Pending : m <= last}
           c == made + 1
<1>1. PICK p \in Predecessor(sources) :
        /\ MayFollow(p)
        /\ cycles' = [d \in CycleId |->
                        IF d = c THEN NewCycle(o, sources, p)
                        ELSE IF d = p THEN [cycles[p] EXCEPT !.successor = c]
                        ELSE cycles[d]]
  BY DEF Acquire
<1>2. /\ Blocking = {} /\ made < MaxMessages /\ made' = c /\ UNCHANGED <<latest, outbox>>
  BY DEF Acquire, ThreadFree
<1>3. /\ made \in Nat /\ MaxMessages \in Nat /\ CycleId = 1..MaxMessages
  BY LinesHold
<1>4. c \in CycleId /\ c # made
  BY <1>2, <1>3
<1>5. sources \in SUBSET Pending
  OBVIOUS
<1>6. p = IF made # 0 /\ Superseded(cycles[made]) THEN made ELSE 0
  <2> HIDE DEF sources
  <2> QED BY <1>1, <1>5, PredecessorIs
<1>7. p # 0 => Revisions(p) < MaxRevisions
  BY <1>1 DEF MayFollow
<1>8. p # 0 => p \in CycleId /\ p # c
  BY <1>2, <1>3, <1>4, <1>6
<1> HIDE DEF sources
<1>9. /\ cycles'[c] = NewCycle(o, sources, p)
      /\ p # 0 => cycles'[p] = [cycles[p] EXCEPT !.successor = c]
      /\ \A d \in CycleId : d # c /\ d # p => cycles'[d] = cycles[d]
  BY <1>1, <1>4, <1>8
<1> QED BY <1>2, <1>4, <1>6, <1>7, <1>9 DEF sources

(* A new cycle is one more line, or goes on with the newest one.           *)
LEMMA AcquireKeepsLines ==
  ASSUME HistoryInv, CyclesInv', NEW o \in Owner, NEW last \in Pending, Acquire(o, last)
  PROVE  HistoryInv'
<1> DEFINE sources == {m \in Pending : m <= last}
<1>0. PICK c : c = made + 1
  OBVIOUS
<1>1. /\ Descend(cycles) /\ made \in 0..MaxMessages /\ MaxMessages \in Nat
      /\ CycleId = 1..MaxMessages /\ Made = 1..made /\ Made \subseteq CycleId /\ latest \in Nat
  BY LinesHold
<1>2. PICK p \in {0, made} :
        /\ c \in CycleId /\ made' = c /\ UNCHANGED <<latest, outbox>>
        /\ p = IF made # 0 /\ Superseded(cycles[made]) THEN made ELSE 0
        /\ p # 0 => Revisions(p) < MaxRevisions
        /\ cycles'[c] = NewCycle(o, sources, p)
        /\ p # 0 => cycles'[p] = [cycles[p] EXCEPT !.successor = c]
        /\ \A d \in CycleId : d # c /\ d # p => cycles'[d] = cycles[d]
  BY <1>0, AcquireIs
<1>3. Made' = Made \cup {c} /\ c \notin Made /\ (p # 0 => p \in Made /\ p \in CycleId)
  BY <1>0, <1>1, <1>2 DEF Made
<1>4. /\ cycles'[c].sources = sources /\ cycles'[c].predecessor = p /\ cycles'[c].successor = 0
      /\ cycles'[c].state = "processing"
  <2> HIDE DEF sources
  <2> QED BY <1>2 DEF NewCycle, Leased, NoCycle
<1>5. ASSUME NEW d \in Made
      PROVE  /\ cycles'[d].sources = cycles[d].sources
             /\ cycles'[d].predecessor = cycles[d].predecessor
             /\ cycles'[d].successor = IF d = p THEN c ELSE cycles[d].successor
             /\ Superseded(cycles'[d]) <=> Superseded(cycles[d])
             /\ cycles'[d].effects = cycles[d].effects
             /\ cycles'[d].prepared = cycles[d].prepared
             /\ cycles'[d].blocks_effects = cycles[d].blocks_effects
  <2>1. d \in CycleId /\ d # c /\ d # 0 /\ cycles[d] \in Cycle
    BY <1>0, <1>1, <1>3 DEF HistoryInv, CyclesInv, CyclesTypeOK
  <2>2. CASE d = p
    BY <1>2, <2>1, <2>2 DEF Superseded, Cycle
  <2>3. CASE d # p
    BY <1>2, <2>1, <2>3
  <2> QED BY <2>2, <2>3
<1>6. Descend(cycles')
  <2> SUFFICES ASSUME NEW d \in CycleId PROVE cycles'[d].predecessor \in 0..(d-1)
    BY DEF Descend
  <2>1. CASE d = c
    BY <1>0, <1>1, <1>2, <1>4, <2>1
  <2>2. CASE d \in Made
    BY <1>1, <1>5, <2>2 DEF Descend
  <2>3. CASE d # c /\ d \notin Made
    BY <1>1, <1>2, <1>3, <2>3 DEF Descend
  <2> QED BY <2>1, <2>2, <2>3
<1>7. \A d \in 0..made : LineIn(cycles', d) = LineIn(cycles, d)
  <2>1. \A d \in 1..made : cycles[d].predecessor = cycles'[d].predecessor
    BY <1>1, <1>5
  <2> QED BY <1>1, <1>6, <2>1, LinesAlike
<1>8. ASSUME NEW d \in Made PROVE Lineage(d)' = Lineage(d) /\ Revisions(d)' = Revisions(d)
  <2>1. Lineage(d) = LineIn(cycles, d) /\ Lineage(d)' = LineIn(cycles', d)
    BY LineageIs
  <2> QED BY <1>1, <1>7, <2>1 DEF Revisions
<1>9. Lineage(c)' = {c} \cup (IF p = 0 THEN {} ELSE Lineage(p))
  <2>1. Lineage(c)' = LineIn(cycles', c)
    BY <1>2, LineageIs
  <2>2. LineIn(cycles', c) = {c} \cup LineIn(cycles', p) /\ LineIn(cycles', 0) = {}
    BY <1>2, <1>4, <1>6, LineUnfolds
  <2>3. LineIn(cycles', p) = LineIn(cycles, p)
    BY <1>1, <1>2, <1>7
  <2>4. Lineage(p) = LineIn(cycles, p)
    BY DEF Lineage, LineIn
  <2> QED BY <2>1, <2>2, <2>3, <2>4
<1>10. InSequence'
  <2>1. InSequence
    BY DEF HistoryInv
  <2>2. last \in sources /\ sources \subseteq Pending /\ Pending \subseteq 1..latest
    BY <1>1 DEF Pending
  <2>3. Pending' = {m \in Pending : ~(m <= last)}
    <3>1. Pending' = {m \in 1..latest : /\ \A d \in Made : m \notin cycles'[d].sources
                                        /\ m \notin cycles'[c].sources}
      BY <1>2, <1>3 DEF Pending
    <3> QED BY <1>4, <1>5, <3>1 DEF Pending
  <2>4. \A d \in Made' : cycles'[d].sources # {} /\ cycles'[d].sources \subseteq 1..latest'
    BY <1>2, <1>3, <1>4, <1>5, <2>1, <2>2 DEF InSequence
  <2>5. \A d \in Made : Below(cycles'[d].sources, cycles'[c].sources)
    BY <1>4, <1>5, <2>1, <2>2 DEF InSequence, Below
  <2>6. \A d, e \in Made' : d < e => Below(cycles'[d].sources, cycles'[e].sources)
    <3> SUFFICES ASSUME NEW d \in Made', NEW e \in Made', d < e
                 PROVE  Below(cycles'[d].sources, cycles'[e].sources)
      OBVIOUS
    <3>1. d \in Made
      BY <1>0, <1>1, <1>3
    <3>2. CASE e = c
      BY <2>5, <3>1, <3>2
    <3>3. CASE e \in Made
      BY <1>5, <2>1, <3>1, <3>3 DEF InSequence
    <3> QED BY <1>3, <3>2, <3>3
  <2>7. \A d \in Made : Below(cycles'[d].sources, Pending')
    BY <1>5, <2>1, <2>3 DEF InSequence, Below
  <2>8. Below(cycles'[c].sources, Pending')
    <3> SUFFICES ASSUME NEW s \in sources, NEW m \in Pending' PROVE s < m
      BY <1>4 DEF Below
    <3>1. s \in Nat /\ last \in Nat /\ m \in Nat
      BY <1>1, <2>2, <2>3
    <3>2. s <= last /\ ~(m <= last)
      BY <2>3
    <3> QED BY <3>1, <3>2
  <2> QED BY <1>3, <2>4, <2>6, <2>7, <2>8 DEF InSequence, Below
<1>11. HopsHold'
  <2>1. \A d \in CycleId : cycles'[d].predecessor < d
    BY <1>1, <1>6 DEF Descend
  <2>2. ASSUME p # 0
        PROVE  /\ cycles'[p].successor = c
               /\ Superseded(cycles'[p])
               /\ ~cycles'[p].blocks_effects /\ ~cycles'[p].effects /\ ~cycles'[p].prepared
               /\ Below(cycles'[p].sources, cycles'[c].sources)
    <3>1. p \in Made /\ p \in CycleId /\ Superseded(cycles[p])
      BY <1>2, <1>3, <2>2
    <3>2. RowAgrees(cycles'[p])
      BY <3>1 DEF CyclesInv
    <3>3. Below(cycles[p].sources, sources)
      BY <3>1 DEF HistoryInv, InSequence, Below
    <3>4. /\ cycles'[p].successor = c /\ Superseded(cycles'[p])
          /\ cycles'[p].sources = cycles[p].sources
      BY <1>5, <3>1
    <3> QED BY <1>4, <3>2, <3>3, <3>4 DEF RowAgrees, Superseded
  <2>3. ASSUME NEW d \in Made, cycles[d].predecessor # 0
        PROVE  LET q == cycles[d].predecessor
               IN /\ cycles'[q].successor = d
                  /\ Superseded(cycles'[q])
                  /\ ~cycles'[q].blocks_effects /\ ~cycles'[q].effects /\ ~cycles'[q].prepared
                  /\ Below(cycles'[q].sources, cycles'[d].sources)
    <3> DEFINE q == cycles[d].predecessor
    <3>1. ValidHop(q, d)
      BY <2>3 DEF HistoryInv, HopsHold
    <3>2. q \in Made
      BY <1>1, <2>3 DEF Descend
    <3>3. q # p
      <4>1. CASE p = 0
        BY <2>3, <4>1
      <4>2. CASE p # 0
        <5>1. p = made /\ d \in 1..made /\ q \in 0..(d-1)
          BY <1>1, <1>2, <4>2 DEF Descend
        <5> QED BY <1>1, <5>1
      <4> QED BY <4>1, <4>2
    <3> HIDE DEF q
    <3>4. /\ cycles'[q].successor = cycles[q].successor
          /\ cycles'[q].sources = cycles[q].sources /\ cycles'[d].sources = cycles[d].sources
          /\ Superseded(cycles'[q]) <=> Superseded(cycles[q])
          /\ cycles'[q].effects = cycles[q].effects /\ cycles'[q].prepared = cycles[q].prepared
          /\ cycles'[q].blocks_effects = cycles[q].blocks_effects
      BY <1>5, <3>2, <3>3
    <3>5. /\ cycles'[q].successor = d
          /\ Superseded(cycles'[q])
          /\ ~cycles'[q].blocks_effects /\ ~cycles'[q].effects /\ ~cycles'[q].prepared
          /\ Below(cycles'[q].sources, cycles'[d].sources)
      BY <3>1, <3>4 DEF ValidHop
    <3> QED BY <3>5 DEF q
  <2>4. ASSUME NEW d \in Made', cycles'[d].predecessor # 0
        PROVE  LET q == cycles'[d].predecessor
               IN /\ cycles'[q].successor = d
                  /\ Superseded(cycles'[q])
                  /\ ~cycles'[q].blocks_effects /\ ~cycles'[q].effects /\ ~cycles'[q].prepared
                  /\ Below(cycles'[q].sources, cycles'[d].sources)
    <3>1. CASE d = c
      BY <1>4, <2>2, <2>4, <3>1
    <3>2. CASE d \in Made
      BY <1>5, <2>3, <2>4, <3>2
    <3> QED BY <1>3, <3>1, <3>2
  <2> QED BY <2>1, <2>4 DEF HopsHold, ValidHop, Below
<1>12. LinesBounded'
  <2>1. ASSUME NEW d \in Made
        PROVE  Revisions(d)' <= MaxRevisions /\ (Superseded(cycles'[d]) => Revisions(d)' < MaxRevisions)
    BY <1>5, <1>8 DEF HistoryInv, LinesBounded
  <2>2. Revisions(c)' <= MaxRevisions
    <3>1. Revisions(c)' = Cardinality(LineIn(cycles', c)) - 1
      BY <1>2, LineageIs DEF Revisions
    <3>2. CASE p = 0
      BY <1>2, <1>4, <1>6, <3>1, <3>2, LineSize, CycleAssumption
    <3>3. CASE p # 0
      <4>1. p \in CycleId /\ p \in 0..made
        BY <1>1, <1>2, <1>3, <3>3
      <4>2. Revisions(p) = Cardinality(LineIn(cycles, p)) - 1
        BY DEF Revisions, Lineage, LineIn
      <4>3. LineIn(cycles', p) = LineIn(cycles, p)
        BY <1>7, <4>1
      <4>4. Cardinality(LineIn(cycles', c)) = Cardinality(LineIn(cycles', p)) + 1
        BY <1>2, <1>4, <1>6, <3>3, LineSize
      <4>5. Cardinality(LineIn(cycles', p)) \in Nat
        BY <1>6, <4>1, LineSize
      <4>6. Revisions(p) < MaxRevisions /\ MaxRevisions \in Nat
        BY <1>2, <3>3, CycleAssumption
      <4> QED BY <3>1, <4>2, <4>3, <4>4, <4>5, <4>6
    <3> QED BY <3>2, <3>3
  <2>3. ~Superseded(cycles'[c])
    BY <1>4 DEF Superseded
  <2> QED BY <1>3, <2>1, <2>2, <2>3 DEF LinesBounded
<1>13. CarriedOn'
  <2>1. CarriedOn
    BY DEF HistoryInv
  <2>2. ASSUME NEW d \in Made, Superseded(cycles'[d]) PROVE cycles'[d].successor # 0
    <3>1. Superseded(cycles[d]) /\ c # 0
      BY <1>0, <1>1, <1>5, <2>2
    <3>2. CASE d = p
      BY <1>5, <3>1, <3>2
    <3>3. CASE d # p
      <4>1. d < made
        BY <1>1, <1>2, <3>1, <3>3
      <4> QED BY <1>5, <2>1, <3>1, <3>3, <4>1 DEF CarriedOn
    <3> QED BY <3>2, <3>3
  <2>3. ASSUME NEW d \in Made, cycles'[d].successor # 0
        PROVE  /\ cycles'[d].successor \in Made'
               /\ cycles'[cycles'[d].successor].predecessor = d
    <3>1. CASE d = p
      BY <1>3, <1>4, <1>5, <3>1
    <3>2. CASE d # p
      <4>1. cycles'[d].successor = cycles[d].successor
        BY <1>5, <3>2
      <4>2. cycles[d].successor \in Made /\ cycles[cycles[d].successor].predecessor = d
        BY <2>1, <2>3, <4>1 DEF CarriedOn
      <4> QED BY <1>3, <1>5, <4>1, <4>2
    <3> QED BY <3>1, <3>2
  <2>4. cycles'[c].successor = 0 /\ ~Superseded(cycles'[c])
    BY <1>4 DEF Superseded
  <2> QED BY <1>3, <2>2, <2>3, <2>4 DEF CarriedOn
<1>14. LinesApart'
  <2>1. ASSUME NEW d \in Made, p # 0, Lineage(d) \cap Lineage(p) # {} PROVE d \in Lineage(p)
    <3>1. p = made /\ p \in Made /\ p \in CycleId
      BY <1>2, <1>3, <2>1
    <3>2. CASE d = p
      <4>1. Lineage(p) = LineIn(cycles, p)
        BY DEF Lineage, LineIn
      <4> QED BY <1>1, <3>1, <3>2, <4>1, LineBounds
    <3>3. CASE d # p
      <4>1. d < p
        BY <1>1, <3>1, <3>3
      <4> QED BY <2>1, <3>1, <4>1 DEF HistoryInv, LinesApart
    <3> QED BY <3>2, <3>3
  <2>2. ASSUME NEW d \in Made PROVE c \notin Lineage(d)
    <3>1. d \in CycleId /\ d \in 1..made
      BY <1>1
    <3>2. Lineage(d) \subseteq 1..d
      BY <1>1, <3>1, LineageIs, LineBounds
    <3> QED BY <1>0, <1>1, <3>1, <3>2
  <2>3. ASSUME NEW d \in Made', NEW e \in Made', d < e, (Lineage(d) \cap Lineage(e))' # {}
        PROVE  d \in Lineage(e)'
    <3>1. d \in Made
      BY <1>0, <1>1, <1>3, <2>3
    <3>2. CASE e \in Made
      BY <1>8, <2>3, <3>1, <3>2 DEF HistoryInv, LinesApart
    <3>3. CASE e = c
      <4>1. Lineage(e)' = {c} \cup (IF p = 0 THEN {} ELSE Lineage(p))
        BY <1>9, <3>3
      <4>2. p # 0 /\ Lineage(d) \cap Lineage(p) # {}
        BY <1>8, <2>2, <2>3, <3>1, <4>1
      <4> QED BY <2>1, <3>1, <4>1, <4>2
    <3> QED BY <1>3, <3>2, <3>3
  <2> QED BY <2>3 DEF LinesApart
<1>15. EnqueuedOnce'
  BY <1>2 DEF HistoryInv, EnqueuedOnce
<1> QED BY <1>10, <1>11, <1>12, <1>13, <1>14, <1>15 DEF HistoryInv

LEMMA HistoryBegins ==
  ASSUME CyclesInit
  PROVE  HistoryInv
<1>1. CyclesInv
  BY InitEstablishes
<1>2. /\ latest = 0 /\ made = 0 /\ outbox = << >> /\ Made = {}
      /\ cycles = [c \in CycleId |-> NoCycle]
  BY DEF CyclesInit, Made
<1>3. \A c \in CycleId : cycles[c].predecessor < c
  BY <1>2, CycleAssumption DEF CycleId, NoCycle
<1> QED
  BY <1>1, <1>2, <1>3
     DEF HistoryInv, InSequence, HopsHold, LinesBounded, CarriedOn, LinesApart, EnqueuedOnce

LEMMA HistoryKept ==
  ASSUME HistoryInv, [CyclesNext]_cycleVars
  PROVE  HistoryInv'
<1>1. CyclesInv /\ CyclesInv' /\ Visible
  BY StepKeeps, StepShows DEF HistoryInv
<1>2. /\ Made = 1..made /\ Made \subseteq CycleId /\ made \in Nat
      /\ \A c \in CycleId : Kept(cycles[c], cycles[c])
  BY LinesHold DEF Kept
<1>3. outbox' = outbox => EnqueuedOnce'
  BY DEF HistoryInv, EnqueuedOnce
<1>4. CASE AcceptPrivateIngress
  BY <1>1, <1>2, <1>3, <1>4, LinesKept DEF AcceptPrivateIngress
<1>5. CASE \E o \in Owner, last \in Pending : Acquire(o, last)
  BY <1>1, <1>5, AcquireKeepsLines
<1>6. ASSUME NEW c \in Made, HoldsOne(c) PROVE HistoryInv'
  <2>1. \A d \in CycleId : Kept(cycles[d], cycles'[d])
    BY <1>2, <1>6 DEF HoldsOne, OnlyRow, Kept
  <2>2. \A d \in Made : Superseded(cycles'[d]) <=> Superseded(cycles[d])
    BY <1>2, <1>6 DEF HoldsOne, OnlyRow, OnHold, Superseded
  <2> QED BY <1>1, <1>3, <1>6, <2>1, <2>2, LinesKept DEF HoldsOne, OnlyRow
<1>7. ASSUME NEW c \in Made, WithdrawsOne(c) PROVE HistoryInv'
  <2>1. \A d \in CycleId : Kept(cycles[d], cycles'[d])
    BY <1>2, <1>7 DEF WithdrawsOne, OnlyRow, Kept
  <2>2. c = made
    BY <1>1, <1>2, <1>7 DEF WithdrawsOne, CyclesInv, NewestBlocks
  <2>3. ~Superseded(cycles[c]) /\ \A d \in Made : d # c => cycles'[d] = cycles[d]
    BY <1>2, <1>7 DEF WithdrawsOne, OnlyRow, OnHold, Superseded
  <2> QED BY <1>1, <1>3, <1>7, <2>1, <2>2, <2>3, LinesKept DEF WithdrawsOne, OnlyRow
<1>8. ASSUME NEW c \in Made, EnqueuesOne(c) PROVE HistoryInv'
  <2>1. EnqueuedOnce'
    <3>1. EnqueuedOnce /\ outbox \in Seq(CycleId) /\ c \in CycleId
      BY <1>1, <1>2 DEF HistoryInv, CyclesInv, CyclesTypeOK
    <3>2. CASE c \in Queued
      BY <1>3, <1>8, <3>2 DEF EnqueuesOne
    <3>3. CASE c \notin Queued
      <4>1. outbox' = Append(outbox, c)
        BY <1>8, <3>3 DEF EnqueuesOne
      <4>2. \A i \in 1..Len(outbox) : outbox[i] # c
        BY <3>3 DEF Queued
      <4> QED BY <3>1, <4>1, <4>2 DEF EnqueuedOnce
    <3> QED BY <3>2, <3>3
  <2> QED BY <1>1, <1>2, <1>8, <2>1, LinesKept DEF EnqueuesOne
<1>9. CASE Quiet
  BY <1>1, <1>2, <1>3, <1>9, LinesKept DEF Quiet, Shown
<1> QED BY <1>1, <1>4, <1>5, <1>6, <1>7, <1>8, <1>9 DEF Visible

(* The inductive invariant with the history of the thread: which messages  *)
(* a cycle took up, which draft it goes on with, and how often.            *)
THEOREM HistoryAlwaysAgrees == CyclesSpec => []HistoryInv
<1> QED BY HistoryBegins, HistoryKept, PTL DEF CyclesSpec

(* No message is answered by two deliveries: drafts are in one line only,  *)
(* and only the last of a line can reach the Outbox, once.                 *)
THEOREM AnswersAreUnique == CyclesSpec => []AnsweredOnce
<1>1. HistoryInv => AnsweredOnce
  <2> SUFFICES ASSUME HistoryInv PROVE AnsweredOnce
    OBVIOUS
  <2>1. /\ Descend(cycles) /\ made \in Nat /\ Made = 1..made /\ Made \subseteq CycleId
        /\ \A c \in Queued : c \in Made /\ cycles[c].prepared
    BY LinesHold DEF HistoryInv, CyclesInv, QueuedAgrees, Queued
  <2>2. ASSUME NEW c \in Made, NEW d \in Made, c < d, NEW m \in Covered(c), m \in Covered(d)
        PROVE  Superseded(cycles[c])
    <3>1. PICK e \in Lineage(c) : m \in cycles[e].sources
      BY <2>2 DEF Covered
    <3>2. PICK f \in Lineage(d) : m \in cycles[f].sources
      BY <2>2 DEF Covered
    <3>3. e \in Made /\ f \in Made
      BY <2>2, MembersGoOn
    <3>4. m \in 1..latest /\ latest \in Nat
      BY <3>1, <3>3, LinesHold DEF HistoryInv, InSequence
    <3>5. e = f
      BY <2>1, <3>1, <3>2, <3>3, <3>4 DEF HistoryInv, InSequence, Below
    <3>6. c \in Lineage(d)
      BY <2>2, <3>1, <3>2, <3>5 DEF HistoryInv, LinesApart
    <3> QED BY <2>1, <2>2, <3>6, MembersGoOn
  <2>3. \A c \in Queued : ~Superseded(cycles[c])
    BY <2>1 DEF HistoryInv, CyclesInv, RowAgrees, Superseded
  <2>4. ASSUME NEW c \in Queued, NEW d \in Queued, c # d PROVE Covered(c) \cap Covered(d) = {}
    <3>1. c \in Made /\ d \in Made /\ (c < d \/ d < c)
      BY <2>1, <2>4
    <3> QED BY <2>2, <2>3, <3>1
  <2> QED BY <2>4 DEF AnsweredOnce, HistoryInv, EnqueuedOnce
<1> QED BY <1>1, HistoryAlwaysAgrees, PTL

(* Whenever a new cycle could be acquired, the draft that it would carry   *)
(* on passes the validation of its ancestry: the two bounds on revisions   *)
(* never leave a thread with a draft that nothing may follow.              *)
THEOREM SuccessorsAreAccepted == CyclesSpec => []SuccessorAccepted
<1>1. HistoryInv => SuccessorAccepted
  <2> SUFFICES ASSUME HistoryInv, NEW p \in Predecessor(Pending), p # 0 PROVE MayFollow(p)
    BY DEF SuccessorAccepted, MayFollow
  <2>1. made # 0 /\ p = made /\ Superseded(cycles[p])
    BY PredecessorIs
  <2>2. p \in Made /\ Descend(cycles) /\ Made \subseteq CycleId
    BY <2>1, LinesHold
  <2>3. Revisions(p) <= MaxRevisions /\ Revisions(p) < MaxRevisions
    BY <2>1, <2>2 DEF HistoryInv, LinesBounded
  <2>4. \A d \in Lineage(p) : d \in Made
    BY <2>2, MembersGoOn
  <2>5. \A d \in Lineage(p) :
          cycles[d].predecessor # 0 => ValidHop(cycles[d].predecessor, d)
    BY <2>4 DEF HistoryInv, HopsHold
  <2> QED BY <2>3, <2>5 DEF MayFollow, ValidAncestry
<1> QED BY <1>1, HistoryAlwaysAgrees, PTL

-----------------------------------------------------------------------------
(* The cycles keep the promise that AnswerPromise states.                  *)

LEMMA TurnsAre ==
  ASSUME made \in Nat
  PROVE  /\ Len(Turns) = made
         /\ \A c \in 1..made : Turns[c] = [messages |-> Covered(c), fate |-> Fate(c)]
         /\ Turns = [c \in 1..made |-> [messages |-> Covered(c), fate |-> Fate(c)]]
BY DEF Turns

LEMMA FatesAre ==
  ASSUME NEW c
  PROVE  /\ c \in Queued => Fate(c) = "answered"
         /\ c \notin Queued /\ Superseded(cycles[c]) => Fate(c) = "withdrawn"
         /\ c \notin Queued /\ OnHold(cycles[c]) /\ ~Superseded(cycles[c]) => Fate(c) = "held"
         /\ c \notin Queued /\ ~OnHold(cycles[c]) => Fate(c) = "open"
BY DEF Fate, OnHold, Superseded

LEMMA WaitingIs ==
  ASSUME HistoryInv
  PROVE  Promise!Waiting = Pending
<1>1. /\ Descend(cycles) /\ made \in Nat /\ Made = 1..made /\ Made \subseteq CycleId
  BY LinesHold
<1>2. ASSUME NEW c \in Made PROVE c \in Lineage(c) /\ Lineage(c) \subseteq Made
  <2>1. c \in Lineage(c)
    BY <1>1, LineageIs, LineBounds
  <2> QED BY <2>1, MembersGoOn
<1>3. Promise!Waiting = {m \in 1..latest : \A c \in Made : m \notin Covered(c)}
  BY <1>1, TurnsAre DEF Promise!Waiting
<1>4. \A m : (\A c \in Made : m \notin Covered(c)) <=> (\A c \in Made : m \notin cycles[c].sources)
  BY <1>2 DEF Covered
<1> QED BY <1>3, <1>4 DEF Pending

LEMMA DescendNext ==
  ASSUME HistoryInv'
  PROVE  Descend(cycles')
<1>1. \A c \in CycleId : cycles'[c].predecessor \in {0} \cup CycleId /\ cycles'[c].predecessor < c
  BY DEF HistoryInv, HopsHold, CyclesInv, CyclesTypeOK, Cycle
<1> QED BY <1>1, CycleAssumption DEF Descend, CycleId

(* What a turn stands for changes with its row only.                       *)
LEMMA CoverKept ==
  ASSUME HistoryInv, HistoryInv',
         \A d \in Made : /\ cycles'[d].sources = cycles[d].sources
                         /\ cycles'[d].predecessor = cycles[d].predecessor
  PROVE  \A c \in Made : Covered(c)' = Covered(c)
<1> SUFFICES ASSUME NEW c \in Made PROVE Covered(c)' = Covered(c)
  OBVIOUS
<1>1. /\ Descend(cycles) /\ made \in 0..MaxMessages /\ Made = 1..made /\ Made \subseteq CycleId
      /\ CycleId \subseteq Nat
  BY LinesHold
<1>2. Descend(cycles')
  BY DescendNext
<1>3. LineIn(cycles', c) = LineIn(cycles, c)
  BY <1>1, <1>2, LinesAlike
<1>4. Lineage(c)' = Lineage(c)
  BY <1>3, LineageIs
<1>5. Lineage(c) \subseteq Made
  BY MembersGoOn
<1> QED BY <1>4, <1>5 DEF Covered

LEMMA FateKept ==
  ASSUME NEW c, Queued' = Queued, Superseded(cycles'[c]) <=> Superseded(cycles[c]),
         OnHold(cycles'[c]) <=> OnHold(cycles[c])
  PROVE  Fate(c)' = Fate(c)
BY DEF Fate, OnHold, Superseded

LEMMA OneMore ==
  ASSUME NEW n \in Nat, NEW s, DOMAIN s = 1..n, s = [i \in 1..n |-> s[i]], NEW e
  PROVE  [i \in 1..(n+1) |-> IF i = n + 1 THEN e ELSE s[i]] = Append(s, e)
<1> DEFINE S == {s[i] : i \in 1..n} \cup {e}
           t == [i \in 1..(n+1) |-> IF i = n + 1 THEN e ELSE s[i]]
<1>1. s \in Seq(S) /\ Len(s) = n /\ e \in S
  OBVIOUS
<1>2. t \in Seq(S) /\ Len(t) = n + 1
  <2>1. PICK m \in Nat : m = n + 1
    OBVIOUS
  <2>2. t \in [1..m -> S]
    BY <2>1
  <2> HIDE DEF S, t
  <2>3. t \in Seq(S) /\ Len(t) = m
    BY <2>2
  <2> QED BY <2>1, <2>3
<1> HIDE DEF S
<1>3. /\ Append(s, e) \in Seq(S) /\ Len(Append(s, e)) = n + 1
      /\ \A i \in 1..n : Append(s, e)[i] = s[i]
      /\ Append(s, e)[n+1] = e
  BY <1>1, AppendProperties
<1>4. \A i \in 1..(n+1) : t[i] = Append(s, e)[i]
  BY <1>3
<1> HIDE DEF t
<1>5. t = Append(s, e)
  BY <1>2, <1>3, <1>4, SeqEqual
<1> QED BY <1>5 DEF t

(* One turn changes its fate, the others stay what they are.               *)
LEMMA TurnBecomes ==
  ASSUME made \in Nat, made' = made, NEW c \in 1..made, NEW from, NEW to,
         \A d \in 1..made : Covered(d)' = Covered(d),
         \A d \in 1..made : d # c => Fate(d)' = Fate(d),
         Fate(c) = from, Fate(c)' = to, latest' = latest
  PROVE  c \in 1..Len(Turns) /\ Promise!Becomes(c, from, to)
<1>1. /\ Len(Turns) = made
      /\ \A d \in 1..made : Turns[d] = [messages |-> Covered(d), fate |-> Fate(d)]
      /\ Turns = [d \in 1..made |-> [messages |-> Covered(d), fate |-> Fate(d)]]
  BY TurnsAre
<1>2. Turns' = [d \in 1..made |-> [messages |-> Covered(d)', fate |-> Fate(d)']]
  BY DEF Turns
<1>3. [Turns EXCEPT ![c].fate = to] =
        [d \in 1..made |-> IF d = c THEN [messages |-> Covered(d), fate |-> to] ELSE Turns[d]]
  BY <1>1
<1>4. \A d \in 1..made :
        [messages |-> Covered(d)', fate |-> Fate(d)'] =
          IF d = c THEN [messages |-> Covered(d), fate |-> to] ELSE Turns[d]
  BY <1>1
<1>5. Turns' = [Turns EXCEPT ![c].fate = to]
  BY <1>2, <1>3, <1>4
<1> QED BY <1>1, <1>5 DEF Promise!Becomes

LEMMA TurnsStay ==
  ASSUME made' = made, latest' = latest,
         \A d \in 1..made : Covered(d)' = Covered(d),
         \A d \in 1..made : Fate(d)' = Fate(d)
  PROVE  UNCHANGED Promise!promiseVars
<1>1. Turns' = [d \in 1..made |-> [messages |-> Covered(d)', fate |-> Fate(d)']]
  BY DEF Turns
<1>2. Turns' = Turns
  BY <1>1 DEF Turns
<1> QED BY <1>2 DEF Promise!promiseVars

(* A new cycle is a turn that begins.                                      *)
LEMMA AcquireBegins ==
  ASSUME HistoryInv, HistoryInv', NEW o \in Owner, NEW last \in Pending, Acquire(o, last)
  PROVE  Promise!Begin
<1> DEFINE sources == {m \in Pending : m <= last}
<1>0. PICK c : c = made + 1
  OBVIOUS
<1>1. /\ Descend(cycles) /\ made \in 0..MaxMessages /\ MaxMessages \in Nat
      /\ CycleId = 1..MaxMessages /\ Made = 1..made /\ Made \subseteq CycleId
  BY LinesHold
<1>2. PICK p \in {0, made} :
        /\ Blocking = {}
        /\ c \in CycleId /\ made' = c /\ UNCHANGED <<latest, outbox>>
        /\ p = IF made # 0 /\ Superseded(cycles[made]) THEN made ELSE 0
        /\ cycles'[c] = NewCycle(o, sources, p)
        /\ p # 0 => cycles'[p] = [cycles[p] EXCEPT !.successor = c]
        /\ \A d \in CycleId : d # c /\ d # p => cycles'[d] = cycles[d]
  BY <1>0, AcquireIs
<1>3. \A d \in Made : cycles[d] \in Cycle /\ RowAgrees(cycles[d]) /\ cycles[d].state # "absent"
  BY SoundRows DEF HistoryInv, Sound
<1>4. ASSUME NEW d \in Made
      PROVE  /\ cycles'[d].sources = cycles[d].sources
             /\ cycles'[d].predecessor = cycles[d].predecessor
             /\ Superseded(cycles'[d]) <=> Superseded(cycles[d])
             /\ OnHold(cycles'[d]) <=> OnHold(cycles[d])
  <2>1. d \in CycleId /\ d # c /\ d # 0
    BY <1>0, <1>1
  <2>2. CASE d = p
    BY <1>2, <1>3, <2>1, <2>2 DEF Superseded, OnHold, Cycle
  <2>3. CASE d # p
    BY <1>2, <2>1, <2>3
  <2> QED BY <2>2, <2>3
<1>5. \A d \in Made : Covered(d)' = Covered(d)
  BY <1>4, CoverKept
<1>6. Queued' = Queued /\ Queued \subseteq Made
  BY <1>2 DEF Queued, HistoryInv, CyclesInv, QueuedAgrees
<1>7. \A d \in Made : Fate(d)' = Fate(d)
  BY <1>4, <1>6, FateKept
<1>8. Fate(c)' = "open"
  <2>1. cycles'[c].state = "processing" /\ c \notin Queued'
    <3> HIDE DEF sources
    <3> QED BY <1>0, <1>1, <1>2, <1>6 DEF NewCycle, Leased, NoCycle
  <2> QED BY <2>1 DEF Fate, Superseded
<1>9. Covered(c)' = sources \cup (IF p = 0 THEN {} ELSE Covered(p))
  <2>1. Descend(cycles')
    BY DescendNext
  <2>2. cycles'[c].sources = sources /\ cycles'[c].predecessor = p
    <3> HIDE DEF sources
    <3> QED BY <1>2 DEF NewCycle, Leased, NoCycle
  <2>3. Lineage(c)' = LineIn(cycles', c)
    BY LineageIs
  <2>4. LineIn(cycles', c) = {c} \cup LineIn(cycles', p) /\ LineIn(cycles', 0) = {}
    BY <1>2, <2>1, <2>2, LineUnfolds
  <2>5. Lineage(p)' = LineIn(cycles', p)
    BY LineageIs
  <2>6. Covered(c)' = UNION {cycles'[d].sources : d \in Lineage(c)'}
    BY DEF Covered
  <2>7. Covered(p)' = UNION {cycles'[d].sources : d \in Lineage(p)'}
    BY DEF Covered
  <2>8. p # 0 => Covered(p)' = Covered(p)
    BY <1>1, <1>2, <1>5
  <2> HIDE DEF sources
  <2> QED BY <2>2, <2>3, <2>4, <2>5, <2>6, <2>7, <2>8
<1>10. /\ Len(Turns) = made
       /\ \A d \in 1..made : Turns[d] = [messages |-> Covered(d), fate |-> Fate(d)]
  BY <1>1, TurnsAre
<1>11. Promise!Carried = IF p = 0 THEN {} ELSE Covered(p)
  <2>1. \A d \in Made : Superseded(cycles[d]) <=> Fate(d) = "withdrawn"
    <3> SUFFICES ASSUME NEW d \in Made PROVE Superseded(cycles[d]) <=> Fate(d) = "withdrawn"
      OBVIOUS
    <3>1. d \in Queued => ~Superseded(cycles[d])
      BY <1>3 DEF HistoryInv, CyclesInv, QueuedAgrees, Queued, RowAgrees, Superseded
    <3> QED BY <3>1, FatesAre
  <2> QED BY <1>1, <1>2, <1>10, <2>1 DEF Promise!Carried
<1>12. \A d \in Made : Fate(d) # "open"
  <2> SUFFICES ASSUME NEW d \in Made, Fate(d) = "open" PROVE FALSE
    OBVIOUS
  <2>1. d \notin Queued /\ ~OnHold(cycles[d])
    BY FatesAre
  <2>2. Work(cycles[d])
    BY <1>3, <2>1 DEF HistoryInv, CyclesInv, QueuedAgrees, OnHold, Work, Cycle, CycleState,
                      ActiveStates
  <2>3. Blocks(cycles[d])
    BY <2>2, SoundRows, WorkBlocks DEF HistoryInv
  <2> QED BY <1>2, <2>3 DEF Blocking, Blocks
<1>13. Turns' = Append(Turns, [messages |-> sources \cup Promise!Carried, fate |-> "open"])
  <2>1. Turns' = [d \in 1..c |-> [messages |-> Covered(d)', fate |-> Fate(d)']]
    BY <1>2 DEF Turns
  <2>2. Turns = [d \in 1..made |-> [messages |-> Covered(d), fate |-> Fate(d)]]
    BY DEF Turns
  <2>3. Covered(c)' = sources \cup Promise!Carried
    BY <1>9, <1>11
  <2> DEFINE turn == [messages |-> sources \cup Promise!Carried, fate |-> "open"]
  <2>4. \A d \in 1..c : [messages |-> Covered(d)', fate |-> Fate(d)'] =
                         IF d = made + 1 THEN turn ELSE Turns[d]
    <3> SUFFICES ASSUME NEW d \in 1..c
                 PROVE  [messages |-> Covered(d)', fate |-> Fate(d)'] =
                          IF d = made + 1 THEN turn ELSE Turns[d]
      OBVIOUS
    <3>1. CASE d = c
      BY <1>0, <1>8, <2>3, <3>1
    <3>2. CASE d # c
      <4>1. d \in Made /\ d \in 1..made /\ d # made + 1
        BY <1>0, <1>1, <3>2
      <4>2. Turns[d] = [messages |-> Covered(d)', fate |-> Fate(d)']
        BY <1>5, <1>7, <1>10, <4>1
      <4> QED BY <4>1, <4>2
    <3> QED BY <3>1, <3>2
  <2> HIDE DEF turn
  <2>5. Turns' = [d \in 1..(made+1) |-> IF d = made + 1 THEN turn ELSE Turns[d]]
    BY <1>0, <2>1, <2>4
  <2>6. DOMAIN Turns = 1..made /\ Turns = [d \in 1..made |-> Turns[d]]
    BY <2>2
  <2>7. Turns' = Append(Turns, turn)
    BY <1>1, <2>5, <2>6, OneMore
  <2> QED BY <2>7 DEF turn
<1>14. last \in Promise!Waiting /\ sources = {m \in Promise!Waiting : m <= last}
  BY WaitingIs
<1>15. \A i \in 1..Len(Turns) : Turns[i].fate # "open"
  BY <1>1, <1>10, <1>12
<1> HIDE DEF sources
<1> QED BY <1>2, <1>13, <1>14, <1>15 DEF Promise!Begin

LEMMA StepKeepsPromise ==
  ASSUME HistoryInv, HistoryInv', [CyclesNext]_cycleVars
  PROVE  [Promise!PromiseNext]_(Promise!promiseVars)
<1>1. /\ Made = 1..made /\ made \in Nat /\ Made \subseteq CycleId
      /\ \A c \in Made : RowAgrees(cycles[c])
      /\ \A c \in Queued : c \in Made /\ cycles[c].prepared
  BY LinesHold DEF HistoryInv, CyclesInv, QueuedAgrees, Queued
<1>2. Visible
  BY StepShows DEF HistoryInv
<1>3. Promise!Waiting = Pending /\ Len(Turns) = made
  BY <1>1, WaitingIs, TurnsAre
<1>4. CASE AcceptPrivateIngress
  <2>1. /\ latest < MaxMessages /\ latest' = latest + 1
        /\ made' = made /\ cycles' = cycles /\ outbox' = outbox
    BY <1>4 DEF AcceptPrivateIngress
  <2>2. Turns' = Turns
    <3>1. \A c \in Made : Covered(c)' = Covered(c)
      BY <2>1, CoverKept
    <3>2. \A c \in Made : Fate(c)' = Fate(c)
      BY <2>1 DEF Fate, Queued
    <3> QED BY <1>1, <2>1, <3>1, <3>2 DEF Turns
  <2> QED BY <2>1, <2>2 DEF Promise!Accept, Promise!PromiseNext
<1>5. CASE \E o \in Owner, last \in Pending : Acquire(o, last)
  BY <1>5, AcquireBegins DEF Promise!PromiseNext
<1>6. ASSUME NEW c \in Made, HoldsOne(c) \/ WithdrawsOne(c)
      PROVE  [Promise!PromiseNext]_(Promise!promiseVars)
  <2>1. /\ OnlyRow(c) /\ ~OnHold(cycles[c]) /\ OnHold(cycles'[c])
        /\ \/ HoldsOne(c) /\ ~Superseded(cycles'[c])
           \/ WithdrawsOne(c) /\ Superseded(cycles'[c])
    BY <1>6 DEF HoldsOne, WithdrawsOne, OnHold, Superseded
  <2>2. /\ UNCHANGED <<latest, made, outbox>> /\ Queued' = Queued
        /\ \A d \in Made : d # c => cycles'[d] = cycles[d]
        /\ \A d \in Made : Kept(cycles[d], cycles'[d])
    BY <1>1, <2>1 DEF OnlyRow, Kept, Queued
  <2>3. \A d \in Made : Covered(d)' = Covered(d)
    BY <2>2, CoverKept DEF Kept
  <2>4. \A d \in Made : d # c => Fate(d)' = Fate(d)
    BY <2>2, FateKept
  <2>5. CASE c \in Queued
    <3>1. Fate(c) = "answered" /\ Fate(c)' = "answered"
      BY <2>2, <2>5 DEF Fate, Superseded
    <3>2. UNCHANGED Promise!promiseVars
      BY <1>1, <2>2, <2>3, <2>4, <3>1, TurnsStay
    <3> QED BY <3>2
  <2>6. CASE c \notin Queued /\ HoldsOne(c) /\ ~Superseded(cycles'[c])
    <3>1. Fate(c) = "open"
      BY <2>1, <2>6, FatesAre
    <3>2. Fate(c)' = "held"
      BY <2>1, <2>2, <2>6 DEF Fate, OnHold
    <3>3. c \in 1..Len(Turns) /\ Promise!Becomes(c, "open", "held")
      BY <1>1, <2>2, <2>3, <2>4, <3>1, <3>2, TurnBecomes
    <3> QED BY <3>3 DEF Promise!Hold, Promise!PromiseNext
  <2>7. CASE c \notin Queued /\ WithdrawsOne(c) /\ Superseded(cycles'[c])
    <3>1. Fate(c) = "open"
      BY <2>1, <2>7, FatesAre
    <3>2. Fate(c)' = "withdrawn"
      BY <2>1, <2>2, <2>7 DEF Fate, OnHold
    <3>3. c \in 1..Len(Turns) /\ Promise!Becomes(c, "open", "withdrawn")
      BY <1>1, <2>2, <2>3, <2>4, <3>1, <3>2, TurnBecomes
    <3>4. Promise!Waiting # {}
      BY <1>3, <2>7 DEF WithdrawsOne, Newer
    <3> QED BY <3>3, <3>4 DEF Promise!Withdraw, Promise!PromiseNext
  <2> QED BY <2>1, <2>5, <2>6, <2>7
<1>7. ASSUME NEW c \in Made, EnqueuesOne(c)
      PROVE  [Promise!PromiseNext]_(Promise!promiseVars)
  <2>1. UNCHANGED <<latest, made, cycles>> /\ cycles[c].prepared
    BY <1>7 DEF EnqueuesOne
  <2>2. \A d \in Made : Covered(d)' = Covered(d)
    BY <2>1, CoverKept
  <2>3. CASE c \in Queued
    <3>1. Queued' = Queued
      BY <1>7, <2>3 DEF EnqueuesOne, Queued
    <3>2. \A d \in Made : Fate(d)' = Fate(d)
      BY <2>1, <3>1 DEF Fate
    <3>3. UNCHANGED Promise!promiseVars
      BY <1>1, <2>1, <2>2, <3>2, TurnsStay
    <3> QED BY <3>3
  <2>4. CASE c \notin Queued
    <3>1. Queued' = Queued \cup {c}
      <4>1. outbox' = Append(outbox, c) /\ outbox \in Seq(CycleId) /\ c \in CycleId
        BY <1>1, <1>7, <2>4 DEF EnqueuesOne, HistoryInv, CyclesInv, CyclesTypeOK
      <4>2. /\ Len(outbox') = Len(outbox) + 1 /\ Len(outbox) \in Nat
            /\ \A i \in 1..Len(outbox) : outbox'[i] = outbox[i]
            /\ outbox'[Len(outbox) + 1] = c
        BY <4>1, AppendProperties
      <4>3. c \in Queued'
        <5>1. Len(outbox) + 1 \in 1..Len(outbox')
          BY <4>2
        <5> QED BY <4>2, <5>1 DEF Queued
      <4>4. \A i \in 1..Len(outbox) : outbox[i] \in Queued'
        <5>1. \A i \in 1..Len(outbox) : i \in 1..Len(outbox')
          BY <4>2
        <5> QED BY <4>2, <5>1 DEF Queued
      <4>5. \A i \in 1..Len(outbox') : outbox'[i] \in Queued \cup {c}
        <5> SUFFICES ASSUME NEW i \in 1..Len(outbox') PROVE outbox'[i] \in Queued \cup {c}
          OBVIOUS
        <5>1. CASE i = Len(outbox) + 1
          BY <4>2, <5>1
        <5>2. CASE i \in 1..Len(outbox)
          BY <4>2, <5>2 DEF Queued
        <5> QED BY <4>2, <5>1, <5>2
      <4> QED BY <4>3, <4>4, <4>5 DEF Queued
    <3>2. \A d \in Made : d # c => Fate(d)' = Fate(d)
      BY <2>1, <3>1 DEF Fate
    <3>3. Fate(c)' = "answered"
      BY <3>1 DEF Fate
    <3>4. ~Superseded(cycles[c])
      BY <1>1, <2>1 DEF RowAgrees, Superseded
    <3>5. CASE OnHold(cycles[c])
      <4>1. Fate(c) = "held"
        BY <2>4, <3>4, <3>5, FatesAre
      <4>2. c \in 1..Len(Turns) /\ Promise!Becomes(c, "held", "answered")
        BY <1>1, <2>1, <2>2, <3>2, <3>3, <4>1, TurnBecomes
      <4> QED BY <4>2 DEF Promise!AnswerLate, Promise!PromiseNext
    <3>6. CASE ~OnHold(cycles[c])
      <4>1. Fate(c) = "open"
        BY <2>4, <3>6, FatesAre
      <4>2. c \in 1..Len(Turns) /\ Promise!Becomes(c, "open", "answered")
        BY <1>1, <2>1, <2>2, <3>2, <3>3, <4>1, TurnBecomes
      <4> QED BY <4>2 DEF Promise!Answer, Promise!PromiseNext
    <3> QED BY <3>5, <3>6
  <2> QED BY <2>3, <2>4
<1>8. CASE Quiet
  <2>1. /\ UNCHANGED <<latest, made, outbox>> /\ Queued' = Queued
        /\ \A d \in Made : Shown(cycles[d], cycles'[d])
    BY <1>1, <1>8 DEF Quiet, Queued
  <2>2. \A d \in Made : Covered(d)' = Covered(d)
    BY <2>1, CoverKept DEF Shown, Kept
  <2>3. \A d \in Made : Fate(d)' = Fate(d)
    BY <2>1, FateKept DEF Shown
  <2>4. UNCHANGED Promise!promiseVars
    BY <1>1, <2>1, <2>2, <2>3, TurnsStay
  <2> QED BY <2>4
<1> QED BY <1>2, <1>4, <1>5, <1>6, <1>7, <1>8 DEF Visible

(* The conversation keeps the promise of AnswerPromise: cycles, leases,    *)
(* recovery and the second database show no more than turns that are       *)
(* answered, withdrawn or held as a whole, one at a time and in order.     *)
THEOREM AnswersKeepThePromise == CyclesSpec => KeepsAnswerPromise
<1>1. CyclesInit => Promise!PromiseInit
  <2> SUFFICES ASSUME CyclesInit PROVE Promise!PromiseInit
    OBVIOUS
  <2>1. latest = 0 /\ made = 0
    BY DEF CyclesInit
  <2>2. Turns = << >>
    BY <2>1 DEF Turns
  <2> QED BY <2>1, <2>2 DEF Promise!PromiseInit
<1>2. HistoryInv /\ HistoryInv' /\ [CyclesNext]_cycleVars
        => [Promise!PromiseNext]_(Promise!promiseVars)
  BY StepKeepsPromise
<1> QED
  BY <1>1, <1>2, HistoryAlwaysAgrees, PTL DEF CyclesSpec, KeepsAnswerPromise, Promise!PromiseSpec

=============================================================================
