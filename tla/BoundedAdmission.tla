-------------------------- MODULE BoundedAdmission --------------------------
(***************************************************************************)
(* What crates/cpu promises its callers, without counters, condition       *)
(* variables or worker stages: a set of jobs that own an admission slot,   *)
(* never larger than the limit; a gate that closes once; and a drained     *)
(* state that is reached only when the gate is closed and no job is left.  *)
(* CpuExecutor.tla implements it.                                          *)
(***************************************************************************)
EXTENDS Naturals, FiniteSets

CONSTANTS
    Tasks,        \* the jobs callers may offer
    MaxInFlight   \* CpuPoolConfig::max_in_flight

VARIABLES
    admitted,     \* jobs that own a slot, running or queued
    open,         \* the gate: TRUE until shutdown begins
    drained       \* shutdown has returned

vars == <<admitted, open, drained>>

TypeOK ==
    /\ admitted \subseteq Tasks
    /\ open \in BOOLEAN
    /\ drained \in BOOLEAN

Init ==
    /\ admitted = {}
    /\ open = TRUE
    /\ drained = FALSE

Admit(t) ==
    /\ open
    /\ t \notin admitted
    /\ Cardinality(admitted) < MaxInFlight
    /\ admitted' = admitted \union {t}
    /\ UNCHANGED <<open, drained>>

Finish(t) ==
    /\ t \in admitted
    /\ admitted' = admitted \ {t}
    /\ UNCHANGED <<open, drained>>

\* Closing an idle executor may find it drained at once.
Close ==
    /\ open
    /\ open' = FALSE
    /\ drained' \in {FALSE, admitted = {}}
    /\ UNCHANGED admitted

Drain ==
    /\ ~open
    /\ admitted = {}
    /\ drained' = TRUE
    /\ UNCHANGED <<admitted, open>>

Next ==
    \/ \E t \in Tasks : Admit(t) \/ Finish(t)
    \/ Close
    \/ Drain

Spec == Init /\ [][Next]_vars

=============================================================================
