------------------------- MODULE CpuExecutorProofs -------------------------
(***************************************************************************)
(* Theorems about CpuExecutor for every finite set of jobs, every bound    *)
(* and every number of workers.                                            *)
(*                                                                         *)
(* The argument: a step either adds one lease (Reserve), removes one       *)
(* (DropPermit, DropLease) or leaves the leases alone (lemma StepLeases),  *)
(* and the counter follows it.  Everything else rests on that equality.    *)
(***************************************************************************)
EXTENDS CpuExecutor, FiniteSetTheorems, TLAPS

Advance(t) ==
    \/ CanAdmitSpeculative(t) \/ Reserve(t) \/ Submit(t) \/ DropPermit(t)
    \/ Join(t) \/ DropHandle(t)
    \/ StartWorker(t) \/ RunOperation(t) \/ DropLease(t)
    \/ StoreFinished(t) \/ SendOutcome(t)

\* The fields of every reachable state have the types of the Rust structs,
\* and in_flight never passes max_in_flight (worker.rs:40).
THEOREM TypeCorrect == Spec => []TypeOK
<1>1. Init => TypeOK
  BY CpuAssumption DEF Init, TypeOK, Stages, Outcomes
<1>2. TypeOK /\ [Next]_vars => TypeOK'
  <2> SUFFICES ASSUME TypeOK, [Next]_vars PROVE TypeOK'
    OBVIOUS
  <2> USE CpuAssumption DEF TypeOK
  <2>1. ASSUME NEW t \in Tasks, Reserve(t) PROVE TypeOK'
    BY <2>1 DEF Reserve, CanReserve, Stages
  <2>2. ASSUME NEW t \in Tasks, DropPermit(t) \/ DropLease(t) PROVE TypeOK'
    BY <2>2 DEF DropPermit, DropLease, Release, Stages
  <2>3. ASSUME NEW t \in Tasks, Advance(t), ~Reserve(t), ~DropPermit(t), ~DropLease(t)
        PROVE TypeOK'
    <3>1. CASE CanAdmitSpeculative(t) BY <3>1 DEF CanAdmitSpeculative
    <3>2. CASE Submit(t) BY <3>2 DEF Submit, Stages
    <3>3. CASE Join(t) BY <3>3 DEF Join
    <3>4. CASE DropHandle(t) BY <3>4 DEF DropHandle
    <3>5. CASE StartWorker(t) BY <3>5 DEF StartWorker, Stages
    <3>6. CASE RunOperation(t) BY <3>6 DEF RunOperation, Stages, Outcomes
    <3>7. CASE StoreFinished(t) BY <3>7 DEF StoreFinished, Stages
    <3>8. CASE SendOutcome(t) BY <3>8 DEF SendOutcome, Stages
    <3> QED BY <2>3, <3>1, <3>2, <3>3, <3>4, <3>5, <3>6, <3>7, <3>8 DEF Advance
  <2>4. CASE BeginShutdown \/ SpuriousWake \/ RecheckDrained \/ DropPool
    BY <2>4 DEF BeginShutdown, SpuriousWake, RecheckDrained, DropPool, WaitOrDrain
  <2>5. CASE UNCHANGED vars
    BY <2>5 DEF vars
  <2> QED BY <2>1, <2>2, <2>3, <2>4, <2>5 DEF Next, Advance
<1> QED BY <1>1, <1>2, PTL DEF Spec

-----------------------------------------------------------------------------

LEMMA LeasesFinite ==
    /\ Leases \in SUBSET Tasks
    /\ IsFiniteSet(Leases)
    /\ Cardinality(Leases) \in Nat
<1>1. Leases \in SUBSET Tasks BY DEF Leases
<1> QED BY <1>1, CpuAssumption, FS_Subset, FS_CardinalityType

\* What one step does to the set of live leases and to the counter.
LEMMA StepLeases ==
    ASSUME TypeOK, [Next]_vars
    PROVE  \/ \E t \in Tasks : Reserve(t) /\ t \notin Leases /\ Leases' = Leases \union {t}
           \/ \E t \in Tasks : /\ DropPermit(t) \/ DropLease(t)
                               /\ t \in Leases /\ Leases' = Leases \ {t}
           \/ /\ Leases' = Leases /\ inFlight' = inFlight
              /\ advice' = advice \/ \E t \in Tasks : CanAdmitSpeculative(t)
<1> USE DEF TypeOK, Leases, HoldsLease, LeaseStages
<1>1. ASSUME NEW t \in Tasks, Reserve(t)
      PROVE  t \notin Leases /\ Leases' = Leases \union {t}
  BY <1>1 DEF Reserve
<1>2. ASSUME NEW t \in Tasks, DropPermit(t) \/ DropLease(t)
      PROVE  t \in Leases /\ Leases' = Leases \ {t}
  BY <1>2 DEF DropPermit, DropLease, Release
<1>3. ASSUME NEW t \in Tasks,
             \/ Submit(t) \/ StartWorker(t) \/ RunOperation(t)
             \/ StoreFinished(t) \/ SendOutcome(t)
      PROVE  Leases' = Leases /\ inFlight' = inFlight /\ advice' = advice
  <2>1. CASE Submit(t) BY <2>1 DEF Submit
  <2>2. CASE StartWorker(t) BY <2>2 DEF StartWorker
  <2>3. CASE RunOperation(t) BY <2>3 DEF RunOperation
  <2>4. CASE StoreFinished(t) BY <2>4 DEF StoreFinished
  <2>5. CASE SendOutcome(t) BY <2>5 DEF SendOutcome
  <2> QED BY <1>3, <2>1, <2>2, <2>3, <2>4, <2>5
<1>4. ASSUME NEW t \in Tasks, CanAdmitSpeculative(t)
      PROVE  Leases' = Leases /\ inFlight' = inFlight
  BY <1>4 DEF CanAdmitSpeculative
<1>5. ASSUME NEW t \in Tasks, Join(t) \/ DropHandle(t)
      PROVE  Leases' = Leases /\ inFlight' = inFlight /\ advice' = advice
  BY <1>5 DEF Join, DropHandle
<1>6. ASSUME \/ BeginShutdown \/ SpuriousWake \/ RecheckDrained \/ DropPool
             \/ UNCHANGED vars
      PROVE  Leases' = Leases /\ inFlight' = inFlight /\ advice' = advice
  BY <1>6 DEF BeginShutdown, SpuriousWake, RecheckDrained, DropPool, vars
<1> QED BY <1>1, <1>2, <1>3, <1>4, <1>5, <1>6 DEF Next

-----------------------------------------------------------------------------

\* The counter equals the number of live leases in every reachable state:
\* neither a panic, an unused permit nor the order of releases loses or
\* duplicates a slot (worker.rs reserve, release).
THEOREM LeasesAccounted == Spec => []LeaseAccounting
<1>1. Init => LeaseAccounting
  <2> SUFFICES ASSUME Init PROVE LeaseAccounting
    OBVIOUS
  <2>1. Leases = {} BY DEF Init, Leases, HoldsLease, LeaseStages
  <2> QED BY <2>1, FS_EmptySet DEF LeaseAccounting, Init
<1>2. TypeOK /\ LeaseAccounting /\ [Next]_vars => LeaseAccounting'
  <2> SUFFICES ASSUME TypeOK, LeaseAccounting, [Next]_vars PROVE LeaseAccounting'
    OBVIOUS
  <2> USE LeasesFinite DEF LeaseAccounting
  <2>1. ASSUME NEW t \in Tasks, Reserve(t), t \notin Leases, Leases' = Leases \union {t}
        PROVE  LeaseAccounting'
    BY <2>1, FS_AddElement DEF Reserve
  <2>2. ASSUME NEW t \in Tasks, DropPermit(t) \/ DropLease(t),
               t \in Leases, Leases' = Leases \ {t}
        PROVE  LeaseAccounting'
    <3>1. Cardinality(Leases) # 0 BY <2>2, FS_EmptySet
    <3>2. Cardinality(Leases') = Cardinality(Leases) - 1
      BY <2>2, FS_RemoveElement
    <3>3. inFlight' = inFlight - 1
      BY <2>2, <3>1 DEF DropPermit, DropLease, Release
    <3> QED BY <3>2, <3>3
  <2>3. ASSUME Leases' = Leases, inFlight' = inFlight PROVE LeaseAccounting'
    BY <2>3
  <2> QED BY <2>1, <2>2, <2>3, StepLeases
<1> QED BY <1>1, <1>2, TypeCorrect, PTL DEF Spec

-----------------------------------------------------------------------------

\* ShutdownDrained is not inductive: it also needs that nothing can be
\* admitted once the owner is inside shutdown.
ShutdownInv ==
    /\ ShutdownDrained
    /\ accepting <=> owner = "open"
    /\ owner # "open" => \A t \in Tasks : stage[t] # "reserved"

\* Admission stays closed and drained from the start of shutdown on.
THEOREM ShutdownInvariant == Spec => []ShutdownInv
<1>1. Init => ShutdownInv
  BY DEF Init, ShutdownInv, ShutdownDrained
<1>2. TypeOK /\ LeaseAccounting /\ ShutdownInv /\ [Next]_vars => ShutdownInv'
  <2> SUFFICES ASSUME TypeOK, LeaseAccounting, ShutdownInv, [Next]_vars
               PROVE  ShutdownInv'
    OBVIOUS
  <2> USE DEF ShutdownInv, ShutdownDrained
  <2>1. ASSUME NEW t \in Tasks, Reserve(t) PROVE ShutdownInv'
    BY <2>1 DEF Reserve
  <2>2. ASSUME NEW t \in Tasks, DropPermit(t) \/ DropLease(t),
               t \in Leases, Leases' = Leases \ {t}
        PROVE  ShutdownInv'
    BY <2>2 DEF DropPermit, DropLease, Release, TypeOK
  <2>3. ASSUME inFlight = 0 PROVE Leases = {}
    BY <2>3, LeasesFinite, FS_EmptySet DEF LeaseAccounting
  <2>4. CASE BeginShutdown
    <3>1. Leases' = Leases BY <2>4 DEF BeginShutdown, Leases, HoldsLease
    <3> QED BY <2>3, <2>4, <3>1 DEF BeginShutdown, WaitOrDrain
  <2>5. CASE RecheckDrained
    <3>1. Leases' = Leases BY <2>5 DEF RecheckDrained, Leases, HoldsLease
    <3> QED BY <2>3, <2>5, <3>1 DEF RecheckDrained, WaitOrDrain
  <2>6. CASE SpuriousWake \/ DropPool
    <3>1. Leases' = Leases BY <2>6 DEF SpuriousWake, DropPool, Leases, HoldsLease
    <3> QED BY <2>6, <3>1 DEF SpuriousWake, DropPool
  <2>7. CASE UNCHANGED vars
    BY <2>7 DEF vars, Leases, HoldsLease
  <2>8. ASSUME NEW t \in Tasks, Leases' = Leases, Advance(t),
               ~Reserve(t), ~DropPermit(t), ~DropLease(t)
        PROVE  ShutdownInv'
    <3>1. CASE Submit(t) BY <2>8, <3>1 DEF Submit, TypeOK
    <3>2. CASE CanAdmitSpeculative(t) \/ Join(t) \/ DropHandle(t)
      BY <2>8, <3>2 DEF CanAdmitSpeculative, Join, DropHandle
    <3>3. CASE StartWorker(t) \/ RunOperation(t) \/ StoreFinished(t) \/ SendOutcome(t)
      BY <2>8, <3>3 DEF StartWorker, RunOperation, StoreFinished, SendOutcome, TypeOK
    <3> QED BY <2>8, <3>1, <3>2, <3>3 DEF Advance
  <2>9. ASSUME NEW t \in Tasks, Advance(t), ~Reserve(t), ~DropPermit(t), ~DropLease(t)
        PROVE  Leases' = Leases
    BY <2>9 DEF Advance, CanAdmitSpeculative, Submit, Join, DropHandle, StartWorker,
       RunOperation, StoreFinished, SendOutcome, Leases, HoldsLease, LeaseStages, TypeOK
  <2>10. ASSUME NEW t \in Tasks, DropPermit(t) \/ DropLease(t)
         PROVE  t \in Leases /\ Leases' = Leases \ {t}
    BY <2>10 DEF DropPermit, DropLease, Release, Leases, HoldsLease, LeaseStages, TypeOK
  <2> QED BY <2>1, <2>2, <2>4, <2>5, <2>6, <2>7, <2>8, <2>9, <2>10 DEF Next, Advance
<1> QED BY <1>1, <1>2, TypeCorrect, LeasesAccounted, PTL DEF Spec

\* shutdown() never returns over live work, in any order of releases,
\* notifications and spurious wake-ups (worker.rs stop_and_wait).
THEOREM ShutdownDrains == Spec => []ShutdownDrained
<1>1. ShutdownInv => ShutdownDrained
  BY DEF ShutdownInv
<1> QED BY <1>1, ShutdownInvariant, PTL

-----------------------------------------------------------------------------

LEMMA SpeculativeLimitBound ==
    /\ SpeculativeLimit \in Nat
    /\ SpeculativeLimit <= MaxInFlight
    /\ WorkerCount > 1 => SpeculativeLimit < WorkerCount
BY CpuAssumption DEF SpeculativeLimit

\* What a yes from can_admit_speculative still means when it is used.
AdviceInv == advice # None => accepting /\ inFlight < SpeculativeLimit

SpeculativeLeases == Leases \intersect Speculative
LaneInv == Cardinality(SpeculativeLeases) <= SpeculativeLimit

LEMMA SpeculativeLeasesFinite ==
    /\ IsFiniteSet(SpeculativeLeases)
    /\ Cardinality(SpeculativeLeases) \in Nat
    /\ Cardinality(SpeculativeLeases) <= Cardinality(Leases)
<1>1. SpeculativeLeases \in SUBSET Leases BY DEF SpeculativeLeases
<1> QED BY <1>1, LeasesFinite, FS_Subset, FS_CardinalityType

\* Between the snapshot and the reservation the load can only fall, because
\* one owner makes both.
THEOREM AdviceAlwaysHeld == Spec => []AdviceInv
<1>1. Init => AdviceInv
  BY DEF Init, AdviceInv
<1>2. TypeOK /\ AdviceInv /\ [Next]_vars => AdviceInv'
  <2> SUFFICES ASSUME TypeOK, AdviceInv, [Next]_vars PROVE AdviceInv'
    OBVIOUS
  <2> USE SpeculativeLimitBound DEF AdviceInv
  <2>1. ASSUME NEW t \in Tasks, Reserve(t) PROVE AdviceInv'
    BY <2>1 DEF Reserve
  <2>2. ASSUME NEW t \in Tasks, DropPermit(t) \/ DropLease(t) PROVE AdviceInv'
    BY <2>2 DEF DropPermit, DropLease, Release, TypeOK
  <2>3. ASSUME NEW t \in Tasks, CanAdmitSpeculative(t) PROVE AdviceInv'
    BY <2>3 DEF CanAdmitSpeculative
  <2>4. ASSUME NEW t \in Tasks, Advance(t),
               ~Reserve(t), ~DropPermit(t), ~DropLease(t), ~CanAdmitSpeculative(t)
        PROVE  UNCHANGED <<accepting, inFlight, advice>>
    BY <2>4 DEF Advance, Submit, Join, DropHandle, StartWorker,
       RunOperation, StoreFinished, SendOutcome
  <2>5. CASE BeginShutdown
    BY <2>5 DEF BeginShutdown
  <2>6. CASE SpuriousWake \/ RecheckDrained \/ DropPool \/ UNCHANGED vars
    BY <2>6 DEF SpuriousWake, RecheckDrained, DropPool, vars
  <2> QED BY <2>1, <2>2, <2>3, <2>4, <2>5, <2>6 DEF Next, Advance
<1> QED BY <1>1, <1>2, TypeCorrect, PTL DEF Spec

\* The advice is never stale: a job told yes is not refused by the
\* reservation that follows (executor.rs:110, :75).
THEOREM AdviceStaysGood == Spec => []AdviceHolds
<1>1. TypeOK /\ AdviceInv => AdviceHolds
  BY SpeculativeLimitBound, CpuAssumption DEF AdviceInv, AdviceHolds, CanReserve, TypeOK
<1> QED BY <1>1, TypeCorrect, AdviceAlwaysHeld, PTL

\* Speculative jobs never hold every worker of a multi-worker pool: one lane
\* stays free for an interactive submission (executor.rs:99-118).
THEOREM LaneReserved == Spec => []SpeculativeLane
<1>1. Init => LaneInv
  <2> SUFFICES ASSUME Init PROVE LaneInv
    OBVIOUS
  <2>1. SpeculativeLeases = {}
    BY DEF Init, SpeculativeLeases, Leases, HoldsLease, LeaseStages
  <2> QED BY <2>1, FS_EmptySet, SpeculativeLimitBound DEF LaneInv
<1>2. TypeOK /\ LeaseAccounting /\ AdviceInv /\ LaneInv /\ [Next]_vars => LaneInv'
  <2> SUFFICES ASSUME TypeOK, LeaseAccounting, AdviceInv, LaneInv, [Next]_vars
               PROVE  LaneInv'
    OBVIOUS
  <2> USE SpeculativeLeasesFinite, LeasesFinite, SpeculativeLimitBound DEF LaneInv
  <2>1. ASSUME NEW t \in Tasks, Reserve(t), t \notin Leases, Leases' = Leases \union {t}
        PROVE  LaneInv'
    <3>1. CASE t \in Speculative
      <4>1. inFlight < SpeculativeLimit
        BY <2>1, <3>1, CpuAssumption DEF Reserve, AdviceInv
      <4>2. SpeculativeLeases' = SpeculativeLeases \union {t}
        BY <2>1, <3>1 DEF SpeculativeLeases
      <4>3. Cardinality(SpeculativeLeases \union {t}) = Cardinality(SpeculativeLeases) + 1
        BY <2>1, FS_AddElement DEF SpeculativeLeases
      <4>4. Cardinality(SpeculativeLeases) < SpeculativeLimit
        BY <4>1 DEF LeaseAccounting
      <4>5. Cardinality(SpeculativeLeases') <= SpeculativeLimit
        BY <4>2, <4>3, <4>4
      <4> QED BY <4>5
    <3>2. CASE t \notin Speculative
      BY <2>1, <3>2 DEF SpeculativeLeases
    <3> QED BY <3>1, <3>2
  <2>2. ASSUME NEW t \in Tasks, Leases' = Leases \ {t}
        PROVE  LaneInv'
    <3>1. SpeculativeLeases' \in SUBSET SpeculativeLeases
      BY <2>2 DEF SpeculativeLeases
    <3>2. Cardinality(SpeculativeLeases') <= Cardinality(SpeculativeLeases)
      BY <3>1, FS_Subset
    <3>3. Cardinality(SpeculativeLeases') \in Nat
      BY <3>1, FS_Subset, FS_CardinalityType
    <3> QED BY <3>2, <3>3
  <2>3. CASE Leases' = Leases
    BY <2>3 DEF SpeculativeLeases
  <2> QED BY <2>1, <2>2, <2>3, StepLeases
<1>3. TypeOK /\ LaneInv => SpeculativeLane
  BY SpeculativeLimitBound, SpeculativeLeasesFinite, CpuAssumption
     DEF LaneInv, SpeculativeLane, SpeculativeLeases
<1> QED BY <1>1, <1>2, <1>3, TypeCorrect, LeasesAccounted, AdviceAlwaysHeld, PTL DEF Spec

-----------------------------------------------------------------------------

\* Init of the executor is Init of the gate, and every step of the executor
\* is an admission, a finish, the closing, the drain, or no step of the gate.
THEOREM Implementation == Spec => ImplementsAdmission
<1>1. Init => Promise!Init
  BY DEF Init, Promise!Init, Leases, HoldsLease, LeaseStages
<1>2. TypeOK /\ LeaseAccounting /\ ShutdownInv /\ [Next]_vars => [Promise!Next]_(Promise!vars)
  <2> SUFFICES ASSUME TypeOK, LeaseAccounting, ShutdownInv, [Next]_vars
               PROVE  [Promise!Next]_(Promise!vars)
    OBVIOUS
  <2>1. ASSUME NEW t \in Tasks, Reserve(t), t \notin Leases, Leases' = Leases \union {t}
        PROVE  Promise!Admit(t)
    <3>1. accepting /\ Cardinality(Leases) < MaxInFlight
      BY <2>1 DEF Reserve, CanReserve, LeaseAccounting
    <3>2. UNCHANGED <<accepting, owner>>
      BY <2>1 DEF Reserve
    <3>3. Promise!Cardinality(Leases) = Cardinality(Leases)
      BY DEF Cardinality, Promise!Cardinality
    <3> QED BY <2>1, <3>1, <3>2, <3>3 DEF Promise!Admit
  <2>2. ASSUME NEW t \in Tasks, DropPermit(t) \/ DropLease(t), t \in Leases,
               Leases' = Leases \ {t}
        PROVE  Promise!Finish(t)
    BY <2>2 DEF DropPermit, DropLease, Release, Promise!Finish, ShutdownInv,
       ShutdownDrained, TypeOK
  <2>3. ASSUME inFlight = 0 PROVE Leases = {}
    BY <2>3, LeasesFinite, FS_EmptySet DEF LeaseAccounting
  <2>4. ASSUME BeginShutdown PROVE Leases' = Leases /\ Promise!Close
    <3>1. Leases' = Leases BY <2>4 DEF BeginShutdown, Leases, HoldsLease
    <3>2. accepting /\ accepting' = FALSE
      BY <2>4 DEF BeginShutdown, ShutdownInv
    <3>3. CASE inFlight = 0
      BY <2>3, <2>4, <3>1, <3>2, <3>3 DEF BeginShutdown, WaitOrDrain, Promise!Close
    <3>4. CASE inFlight # 0
      <4>1. owner' = "waiting"
        BY <2>4, <3>4 DEF BeginShutdown, WaitOrDrain
      <4>2. (owner' \in {"drained", "closed"}) = FALSE
        BY <4>1
      <4> QED BY <3>1, <3>2, <4>2 DEF Promise!Close
    <3> QED BY <3>1, <3>3, <3>4
  <2>5. ASSUME RecheckDrained PROVE Promise!Drain \/ UNCHANGED Promise!vars
    <3>1. Leases' = Leases BY <2>5 DEF RecheckDrained, Leases, HoldsLease
    <3> QED BY <2>3, <2>5, <3>1
            DEF RecheckDrained, WaitOrDrain, Promise!Drain, Promise!vars, ShutdownInv
  <2>6. ASSUME SpuriousWake \/ DropPool \/ UNCHANGED vars
        PROVE  UNCHANGED Promise!vars
    BY <2>6 DEF SpuriousWake, DropPool, vars, Promise!vars, Leases, HoldsLease
  <2>7. ASSUME NEW t \in Tasks, Advance(t), ~Reserve(t), ~DropPermit(t), ~DropLease(t)
        PROVE  UNCHANGED Promise!vars
    <3>1. UNCHANGED <<accepting, owner>>
      BY <2>7 DEF Advance, CanAdmitSpeculative, Submit, Join, DropHandle, StartWorker,
         RunOperation, StoreFinished, SendOutcome
    <3>2. Leases' = Leases
      BY <2>7 DEF Advance, CanAdmitSpeculative, Submit, Join, DropHandle, StartWorker,
         RunOperation, StoreFinished, SendOutcome, Leases, HoldsLease, LeaseStages, TypeOK
    <3> QED BY <3>1, <3>2 DEF Promise!vars
  <2>8. ASSUME NEW t \in Tasks, Reserve(t)
        PROVE  t \notin Leases /\ Leases' = Leases \union {t}
    BY <2>8 DEF Reserve, Leases, HoldsLease, LeaseStages, TypeOK
  <2>9. ASSUME NEW t \in Tasks, DropPermit(t) \/ DropLease(t)
        PROVE  t \in Leases /\ Leases' = Leases \ {t}
    BY <2>9 DEF DropPermit, DropLease, Release, Leases, HoldsLease, LeaseStages, TypeOK
  <2> QED BY <2>1, <2>2, <2>4, <2>5, <2>6, <2>7, <2>8, <2>9
          DEF Next, Advance, Promise!Next
<1> QED BY <1>1, <1>2, TypeCorrect, LeasesAccounted, ShutdownInvariant, PTL
        DEF Spec, Promise!Spec, ImplementsAdmission

=============================================================================
