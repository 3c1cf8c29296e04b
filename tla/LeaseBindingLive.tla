-------------------------- MODULE LeaseBindingLive --------------------------
(***************************************************************************)
(* LeaseBinding with the scheduling the operator provides, for what must   *)
(* eventually happen.  A reconcile pass ends early for two reasons that    *)
(* LeaseBinding does not tell apart (Abandon): the next step is impossible *)
(* (a superseded decision, a lost fence), or a call fails or the process   *)
(* dies.  Here the second kind is limited to MaxFaults: failures stop.     *)
(* After any pass, finished or not, the controllers requeue the object     *)
(* (Action::requeue, error_policy), so every object is reconciled again.   *)
(***************************************************************************)
EXTENDS LeaseBinding

CONSTANT MaxFaults     \* failed calls and crashes before the failures stop

ASSUME FaultsAssumption == MaxFaults \in Nat

VARIABLE faults        \* failures so far

liveVars == <<vars, faults>>

\* A pass of the lease controller over lease l begins (or is a single write).
StartPass(w, l) ==
    \/ \E i \in Insts : ReserveIntent(w, l, i)
    \/ FenceIntent(w, l)
    \/ RetireUnbound(w, l)
    \/ ReadHolding(w, l)
    \/ ResolveTerminal(w, l)
    \/ RetireRecycled(w, l)

\* The running pass takes its next step.
LeaseStep(w) ==
    \/ Adopt(w) \/ ReserveLost(w) \/ ClearIntent(w)
    \/ ReadPair(w) \/ PublishBound(w)
    \/ DeleteRetired(w) \/ MarkRecycling(w) \/ AdvanceLease(w)

StartInstPass(v, i) ==
    \/ ObserveTerminal(v, i)
    \/ ObserveOrphan(v, i)
    \/ VerifyTeardown(v, i)

InstStep(v) ==
    \/ ApplyRecovery(v)
    \/ RecheckUid(v) \/ DeleteBackend(v) \/ FinishTeardown(v)

\* The pass cannot go on and returns; the object is requeued.
Return(w) == ~ENABLED LeaseStep(w) /\ Abandon(w)
ReturnInst(v) == ~ENABLED InstStep(v) /\ AbandonInst(v)

\* A call fails, or the process dies and restarts.
Fault ==
    /\ faults < MaxFaults
    /\ \/ \E w \in LeaseWorkers : Abandon(w)
       \/ \E v \in InstWorkers : AbandonInst(v)
    /\ faults' = faults + 1

Capacity(i) ==
    \/ CreateInstance(i)
    \/ Provision(i) \/ MarkReady(i) \/ FailProvisioning(i)
    \/ HealthRecycle(i) \/ PoolRecycle(i)

NoFault ==
    /\ \/ Client
       \/ \E w \in LeaseWorkers : LeaseStep(w) \/ Return(w)
       \/ \E w \in LeaseWorkers, l \in Leases :
            StartPass(w, l) \/ ExpireQueued(w, l)
       \/ \E l \in Leases : ExpireBound(l)
       \/ \E v \in InstWorkers : InstStep(v) \/ ReturnInst(v)
       \/ \E v \in InstWorkers, i \in Insts : StartInstPass(v, i)
       \/ \E i \in Insts : Capacity(i)
    /\ UNCHANGED faults

LiveInit == Init /\ faults = 0
LiveNext == NoFault \/ Fault

\* A pass that runs goes on or returns; a lease or an instance that can be
\* reconciled again and again is.  Nothing is assumed of clients, of clocks or
\* of the capacity that provisioning brings.
Fairness ==
    /\ \A w \in LeaseWorkers :
         WF_liveVars((LeaseStep(w) \/ Return(w)) /\ UNCHANGED faults)
    /\ \A v \in InstWorkers :
         WF_liveVars((InstStep(v) \/ ReturnInst(v)) /\ UNCHANGED faults)
    /\ \A l \in Leases :
         SF_liveVars((\E w \in LeaseWorkers : StartPass(w, l)) /\ UNCHANGED faults)
    /\ \A i \in Insts :
         SF_liveVars((\E v \in InstWorkers : StartInstPass(v, i)) /\ UNCHANGED faults)

LiveSpec == LiveInit /\ [][LiveNext]_liveVars /\ Fairness
-----------------------------------------------------------------------------
\* A lease that ended without ever reaching Bound is retired: its intent does
\* not keep it, whatever became of the instance it named.
NeverBoundLeaseRetired ==
    \A l \in Leases :
        (lease[l].phase \in Terminal /\ ~lease[l].named)
            ~> (lease[l].phase = "Gone")

\* A reservation whose lease is gone does not hold the instance for ever.
OrphanReclaimed ==
    \A i \in Insts :
        (/\ inst[i].phase = "Leased"
         /\ inst[i].binding # NoBinding
         /\ lease[inst[i].binding.lease].phase = "Gone")
            ~> (inst[i].phase # "Leased")

\* Teardown ends: a recycled instance disappears and its capacity is replaced.
RecycledInstanceGone ==
    \A i \in Insts : (inst[i].phase = "Recycling") ~> (inst[i].phase = "Gone")

\* Every lease that ended is deleted in the end.
TerminalLeaseDeleted ==
    \A l \in Leases :
        (lease[l].phase \in Terminal) ~> (lease[l].phase = "Gone")
=============================================================================
