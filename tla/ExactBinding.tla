---------------------------- MODULE ExactBinding ----------------------------
(***************************************************************************)
(* The pure decision tables of the kobe-state-machine crate that govern    *)
(* the two-sided lease/instance reservation.  A lease and an instance each *)
(* carry a copy of one binding; every cross-object decision compares what  *)
(* an object carries now with the binding the caller set out with.         *)
(***************************************************************************)
CONSTANT NoBinding     \* the absent `status.binding`

\* What an object that carries `current` says about the binding `expected`.
model_binding_state(current, expected) ==
    IF current = expected THEN "Expected"
    ELSE IF current = NoBinding THEN "Absent" ELSE "Foreign"

\* The Pending -> Bound commit: access is published only while both objects
\* still carry the exact intent.
exact_binding_finalization(leasePhase, leaseBinding, instPhase, instBinding) ==
    IF /\ leaseBinding = "Expected"
       /\ instPhase = "Leased"
       /\ instBinding = "Expected"
       /\ leasePhase \in {"Pending", "Bound"}
    THEN IF leasePhase = "Pending" THEN "PublishBound" ELSE "AlreadyBound"
    ELSE "Superseded"

\* Mutation: a teardown phase is recovered like a reservation.
exact_binding_recovery_AnyPhase(phase, binding, refAbsent, transition) ==
    IF binding = "Expected" THEN "Apply" ELSE "Superseded"

\* Recovery of a reserved instance whose lease ended ("RecycleTerminalLease")
\* or vanished ("ReleaseOrphan").  A retry may meet its own completed write;
\* every foreign binding and every teardown phase is refused.
exact_binding_recovery(phase, binding, refAbsent, transition) ==
    IF phase = "Leased" /\ binding = "Expected" THEN "Apply"
    ELSE IF \/ /\ transition = "RecycleTerminalLease"
               /\ phase = "Recycling"
               /\ binding = "Expected"
            \/ /\ transition = "ReleaseOrphan"
               /\ phase = "Ready"
               /\ binding = "Absent"
               /\ refAbsent
    THEN "AlreadyApplied"
    ELSE "Superseded"
=============================================================================
