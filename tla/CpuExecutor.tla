---------------------------- MODULE CpuExecutor ----------------------------
(***************************************************************************)
(* crates/cpu/src/pool: the application-owned executor for finite CPU work *)
(* (executor.rs, worker.rs, task.rs).                                      *)
(*                                                                         *)
(* Actors: the one thread that owns the CpuExecutor (it reserves, submits, *)
(* polls, joins and shuts down) and WorkerCount rayon threads.  Each       *)
(* action below is one critical section of the lifecycle mutex, or one     *)
(* step of a worker closure between two of them, so every interleaving of  *)
(* the owner with the workers is a behaviour.                              *)
(***************************************************************************)
EXTENDS Naturals, FiniteSets

CONSTANTS
    Tasks,         \* the operations callers may submit
    Speculative,   \* those whose callers ask can_admit_speculative first
    Panics,        \* those whose operation unwinds
    MaxInFlight,   \* CpuPoolConfig::max_in_flight (NonZeroUsize)
    WorkerCount,   \* CpuPoolConfig::worker_count (NonZeroUsize)
    None           \* Option::None

ASSUME CpuAssumption ==
    /\ IsFiniteSet(Tasks)
    /\ Speculative \subseteq Tasks /\ Panics \subseteq Tasks
    /\ MaxInFlight \in Nat \ {0}
    /\ WorkerCount \in Nat \ {0}
    /\ None \notin Tasks

VARIABLES
    accepting,   \* Lifecycle::accepting
    inFlight,    \* Lifecycle::in_flight
    stage,       \* where each task's WorkerLease is, and how far its closure ran
    outcome,     \* TaskOutcome computed by the closure, None before
    handle,      \* CpuTask: "none", "held", "dropped", or what join returned
    advice,      \* the task for which can_admit_speculative just said yes
    owner        \* the owner in shutdown: "open", "waiting", "woken", "drained", "closed"

vars == <<accepting, inFlight, stage, outcome, handle, advice, owner>>

\* The stages of one submission, in the order of the closure's statements.
Stages == {"idle", "reserved", "queued", "running", "ran",
           "released", "flagged", "sent"}

Outcomes == {"Completed", "Panicked"}

\* The WorkerLease is alive from reserve() until the permit or closure drops it.
LeaseStages == {"reserved", "queued", "running", "ran"}
HoldsLease(t) == stage[t] \in LeaseStages
Leases == {t \in Tasks : HoldsLease(t)}

\* CpuTask::is_finished: the flag the worker stores with Release ordering.
IsFinished(t) == stage[t] \in {"flagged", "sent"}

TypeOK ==
    /\ accepting \in BOOLEAN
    /\ inFlight \in 0..MaxInFlight
    /\ stage \in [Tasks -> Stages]
    /\ outcome \in [Tasks -> Outcomes \union {None}]
    /\ handle \in [Tasks -> {"none", "held", "dropped", "Ok", "TaskPanicked"}]
    /\ advice \in Tasks \union {None}
    /\ owner \in {"open", "waiting", "woken", "drained", "closed"}

Init ==
    /\ accepting = TRUE
    /\ inFlight = 0
    /\ stage = [t \in Tasks |-> "idle"]
    /\ outcome = [t \in Tasks |-> None]
    /\ handle = [t \in Tasks |-> "none"]
    /\ advice = None
    /\ owner = "open"

-----------------------------------------------------------------------------
(* Owner operations.                                                       *)

\* Defect: no lane is set aside.
SpeculativeLimit_NoLane ==
    IF WorkerCount < MaxInFlight THEN WorkerCount ELSE MaxInFlight

\* worker_count.saturating_sub(1).max(1).min(max_in_flight)
SpeculativeLimit ==
    LET lanes == IF WorkerCount > 1 THEN WorkerCount - 1 ELSE 1
    IN  IF lanes < MaxInFlight THEN lanes ELSE MaxInFlight

\* A snapshot under the lock; only a yes leads the caller to submit.  The
\* lock is released before the caller acts on the answer.
CanAdmitSpeculative(t) ==
    /\ owner = "open" /\ advice = None
    /\ t \in Speculative /\ stage[t] = "idle"
    /\ accepting /\ inFlight < SpeculativeLimit
    /\ advice' = t
    /\ UNCHANGED <<accepting, inFlight, stage, outcome, handle, owner>>

\* SharedExecutorState::reserve on its success path.  AtCapacity and
\* ShuttingDown return without touching the lifecycle.
CanReserve == accepting /\ inFlight < MaxInFlight

Reserve(t) ==
    /\ owner = "open"
    /\ stage[t] = "idle"
    /\ IF t \in Speculative THEN advice = t ELSE advice = None
    /\ CanReserve
    /\ inFlight' = inFlight + 1
    /\ stage' = [stage EXCEPT ![t] = "reserved"]
    /\ advice' = None
    /\ UNCHANGED <<accepting, outcome, handle, owner>>

\* CpuTaskPermit::submit: the lease moves into the closure, the handle to
\* the caller.
Submit(t) ==
    /\ owner = "open"
    /\ stage[t] = "reserved"
    /\ stage' = [stage EXCEPT ![t] = "queued"]
    /\ handle' = [handle EXCEPT ![t] = "held"]
    /\ UNCHANGED <<accepting, inFlight, outcome, advice, owner>>

\* SharedExecutorState::release, shared by Drop for the permit's lease and
\* by the worker closure; the notification reaches a waiting owner.
Release(t, next) ==
    /\ inFlight' = IF inFlight = 0 THEN 0 ELSE inFlight - 1
    /\ owner' = IF inFlight = 1 /\ owner = "waiting" THEN "woken" ELSE owner
    /\ stage' = [stage EXCEPT ![t] = next]

\* An unused CpuTaskPermit is dropped: the inputs stay with the caller.
DropPermit(t) ==
    /\ owner = "open"
    /\ stage[t] = "reserved"
    /\ Release(t, "idle")
    /\ UNCHANGED <<accepting, outcome, handle, advice>>

\* The one-result channel holds the outcome: recv() returns at once.
JoinReady(t) == stage[t] = "sent"

\* CpuTask::join returns once recv() has a value; decode_outcome.
Join(t) ==
    /\ handle[t] = "held"
    /\ JoinReady(t)
    /\ handle' = [handle EXCEPT ![t] =
                    IF outcome[t] = "Completed" THEN "Ok" ELSE "TaskPanicked"]
    /\ UNCHANGED <<accepting, inFlight, stage, outcome, advice, owner>>

\* Dropping the CpuTask discards the result and nothing else.
DropHandle(t) ==
    /\ handle[t] = "held"
    /\ handle' = [handle EXCEPT ![t] = "dropped"]
    /\ UNCHANGED <<accepting, inFlight, stage, outcome, advice, owner>>

-----------------------------------------------------------------------------
(* Worker steps: the closure of CpuTaskPermit::submit.                     *)

Running == {t \in Tasks : stage[t] \in {"running", "ran", "released", "flagged"}}

\* A rayon thread takes a queued job; no total order is promised.
StartWorker(t) ==
    /\ stage[t] = "queued"
    /\ Cardinality(Running) < WorkerCount
    /\ stage' = [stage EXCEPT ![t] = "running"]
    /\ UNCHANGED <<accepting, inFlight, outcome, handle, advice, owner>>

\* catch_unwind(operation): it returns or unwinds.
RunOperation(t) ==
    /\ stage[t] = "running"
    /\ outcome' = [outcome EXCEPT ![t] = IF t \in Panics THEN "Panicked" ELSE "Completed"]
    /\ stage' = [stage EXCEPT ![t] = "ran"]
    /\ UNCHANGED <<accepting, inFlight, handle, advice, owner>>

\* drop(lease)
DropLease(t) ==
    /\ stage[t] = "ran"
    /\ Release(t, "released")
    /\ UNCHANGED <<accepting, outcome, handle, advice>>

\* finished_by_worker.store(true, Ordering::Release)
StoreFinished(t) ==
    /\ stage[t] = "released"
    /\ stage' = [stage EXCEPT ![t] = "flagged"]
    /\ UNCHANGED <<accepting, inFlight, outcome, handle, advice, owner>>

\* sender.send(outcome): the channel has room for the one result.
SendOutcome(t) ==
    /\ stage[t] = "flagged"
    /\ stage' = [stage EXCEPT ![t] = "sent"]
    /\ UNCHANGED <<accepting, inFlight, outcome, handle, advice, owner>>

WorkerStep(t) ==
    \/ StartWorker(t) \/ RunOperation(t) \/ DropLease(t)
    \/ StoreFinished(t) \/ SendOutcome(t)

-----------------------------------------------------------------------------
(* Shutdown.  It takes &mut self, so no permit borrows the executor.       *)

\* One pass of the loop in stop_and_wait, the lock held.
WaitOrDrain == owner' = IF inFlight # 0 THEN "waiting" ELSE "drained"

BeginShutdown ==
    /\ owner = "open" /\ advice = None
    /\ \A t \in Tasks : stage[t] # "reserved"
    /\ accepting' = FALSE
    /\ WaitOrDrain
    /\ UNCHANGED <<inFlight, stage, outcome, handle, advice>>

\* Condvar::wait may return without a notification.
SpuriousWake ==
    /\ owner = "waiting"
    /\ owner' = "woken"
    /\ UNCHANGED <<accepting, inFlight, stage, outcome, handle, advice>>

\* Defect: `if in_flight != 0 { wait }` instead of `while`.
RecheckDrained_If ==
    /\ owner = "woken"
    /\ owner' = "drained"
    /\ UNCHANGED <<accepting, inFlight, stage, outcome, handle, advice>>

RecheckDrained ==
    /\ owner = "woken"
    /\ WaitOrDrain
    /\ UNCHANGED <<accepting, inFlight, stage, outcome, handle, advice>>

\* Defect: dropping the pool discards closures past their lease.
DropPool_Discards ==
    /\ owner = "drained"
    /\ owner' = "closed"
    /\ stage' = [t \in Tasks |-> IF stage[t] \in {"released", "flagged"}
                                 THEN "idle" ELSE stage[t]]
    /\ UNCHANGED <<accepting, inFlight, outcome, handle, advice>>

\* drop(self.pool.take()).  rayon keeps its threads until the spawned
\* closures have returned.
DropPool ==
    /\ owner = "drained"
    /\ owner' = "closed"
    /\ UNCHANGED <<accepting, inFlight, stage, outcome, handle, advice>>

Shutdown == BeginShutdown \/ RecheckDrained \/ DropPool

Next ==
    \/ \E t \in Tasks :
          \/ CanAdmitSpeculative(t) \/ Reserve(t) \/ Submit(t) \/ DropPermit(t)
          \/ Join(t) \/ DropHandle(t)
          \/ StartWorker(t) \/ RunOperation(t) \/ DropLease(t)
          \/ StoreFinished(t) \/ SendOutcome(t)
    \/ BeginShutdown \/ SpuriousWake \/ RecheckDrained \/ DropPool

\* Submitted operations are finite, rayon's threads run whenever they hold
\* work, and an owner inside shutdown does nothing else.
Fairness ==
    /\ \A t \in Tasks : WF_vars(WorkerStep(t))
    /\ WF_vars(RecheckDrained \/ DropPool)

Spec == Init /\ [][Next]_vars

FairSpec == Spec /\ Fairness

-----------------------------------------------------------------------------
(* Properties.                                                             *)

\* The counter under the mutex is exactly the number of live WorkerLeases:
\* a permit dropped unused, a panic and a normal return each give back one
\* slot, and none gives back two (worker.rs reserve/release).
LeaseAccounting == inFlight = Cardinality(Leases)

\* stop_and_wait returns only when no admitted operation is left, whatever
\* order releases, notifications and spurious wake-ups come in; the gate
\* then stays closed ("No task is cancelled or detached", executor.rs).
ShutdownDrained ==
    owner \in {"drained", "closed"} => Leases = {} /\ ~accepting

\* A yes from can_admit_speculative, taken outside the lock, is still good
\* when the single owner reserves: workers only lower the count.
AdviceHolds == advice # None => CanReserve

\* Speculative jobs alone never occupy every worker of a multi-worker pool,
\* however the checks, the reservations and the releases interleave.
SpeculativeLane ==
    WorkerCount > 1 => Cardinality(Leases \intersect Speculative) < WorkerCount

\* The counter, condition variable and stages implement the promise.
Promise == INSTANCE BoundedAdmission WITH
    admitted <- Leases,
    open <- accepting,
    drained <- owner \in {"drained", "closed"}

\* Every step of the executor is a step of the abstract gate, or none.
ImplementsAdmission == Promise!Spec

\* Every wait on the executor ends: shutdown() returns, since its waiter cannot miss the
\* final release; and an admitted operation delivers its outcome to the handle that waits
\* for it, also when shutdown drops the pool before the closure has sent it.
WaitsEnd ==
    /\ owner = "waiting" ~> owner = "closed"
    /\ \A t \in Tasks : handle[t] = "held" ~> (stage[t] = "sent" \/ handle[t] = "dropped")
=============================================================================
