------------------------- MODULE LeaseBindingProofs -------------------------
(***************************************************************************)
(* Machine-checked proofs about LeaseBinding, for any number of leases,    *)
(* instances and tasks and any reuse of names.  The pairing (PairInv) is   *)
(* for any number of operator processes and with clients free to delete    *)
(* either kind of object; the properties of a managed deployment           *)
(* (ManagedInv) are under the premise each one needs.                      *)
(***************************************************************************)
EXTENDS LeaseBinding, TLAPS

LeaseStore == [Leases -> LeaseObject]
InstStore == [Insts -> InstObject]
WorkerRecord == [pc : WorkerPCs, b : MaybeBinding]
InstWorkerRecord == [pc : InstPCs, i : Insts \union {NoInst},
                     b : MaybeBinding, final : BOOLEAN]
-----------------------------------------------------------------------------
(* Field writes keep a store well typed.                                   *)

\* A status-phase write to one lease.
LEMMA LeasePhaseType ==
    ASSUME NEW f \in LeaseStore, NEW l \in Leases, NEW p \in LeasePhases
    PROVE  [f EXCEPT ![l].phase = p] \in LeaseStore
  BY DEF LeaseStore, LeaseObject

\* A write of /status/binding to one lease.
LEMMA LeaseBindingType ==
    ASSUME NEW f \in LeaseStore, NEW l \in Leases, NEW b \in MaybeBinding
    PROVE  [f EXCEPT ![l].binding = b] \in LeaseStore
  BY DEF LeaseStore, LeaseObject

\* The TTL of one lease runs out.
LEMMA LeaseExpiredType ==
    ASSUME NEW f \in LeaseStore, NEW l \in Leases, NEW e \in BOOLEAN
    PROVE  [f EXCEPT ![l].expired = e] \in LeaseStore
  BY DEF LeaseStore, LeaseObject

\* extend_lease_ttl's write.
LEMMA LeaseExtendType ==
    ASSUME NEW f \in LeaseStore, NEW l \in Leases, NEW e \in BOOLEAN,
           NEW x \in Nat
    PROVE  [f EXCEPT ![l].expired = e, ![l].ext = x] \in LeaseStore
  BY DEF LeaseStore, LeaseObject

\* finalize_binding's Pending -> Bound write.
LEMMA LeaseBoundType ==
    ASSUME NEW f \in LeaseStore, NEW l \in Leases, NEW p \in LeasePhases,
           NEW n \in BOOLEAN, NEW e \in BOOLEAN, NEW x \in Nat
    PROVE  [f EXCEPT ![l].phase = p, ![l].named = n,
                     ![l].expired = e, ![l].ext = x] \in LeaseStore
  BY DEF LeaseStore, LeaseObject

\* A status-phase write to one instance.
LEMMA InstPhaseType ==
    ASSUME NEW f \in InstStore, NEW i \in Insts, NEW p \in InstPhases
    PROVE  [f EXCEPT ![i].phase = p] \in InstStore
  BY DEF InstStore, InstObject

\* The health recycle: phase and leaseRef.
LEMMA InstPhaseRefType ==
    ASSUME NEW f \in InstStore, NEW i \in Insts, NEW p \in InstPhases,
           NEW r \in Leases \union {NoLease}
    PROVE  [f EXCEPT ![i].phase = p, ![i].ref = r] \in InstStore
  BY DEF InstStore, InstObject

\* A reservation: phase, binding and leaseRef.
LEMMA InstReserveType ==
    ASSUME NEW f \in InstStore, NEW i \in Insts, NEW p \in InstPhases,
           NEW b \in MaybeBinding, NEW r \in Leases \union {NoLease}
    PROVE  [f EXCEPT ![i].phase = p, ![i].binding = b, ![i].ref = r] \in InstStore
  BY DEF InstStore, InstObject

\* deletionTimestamp.
LEMMA InstDeletingType ==
    ASSUME NEW f \in InstStore, NEW i \in Insts, NEW d \in BOOLEAN
    PROVE  [f EXCEPT ![i].deleting = d] \in InstStore
  BY DEF InstStore, InstObject

\* The backend of one instance comes up.
LEMMA InstBackendType ==
    ASSUME NEW f \in InstStore, NEW i \in Insts, NEW d \in BOOLEAN
    PROVE  [f EXCEPT ![i].backend = d] \in InstStore
  BY DEF InstStore, InstObject

\* A lease task begins a pass or goes idle.
LEMMA WorkerType ==
    ASSUME NEW f \in [LeaseWorkers -> WorkerRecord], NEW w \in LeaseWorkers,
           NEW p \in WorkerPCs, NEW b \in MaybeBinding
    PROVE  [f EXCEPT ![w] = [pc |-> p, b |-> b]] \in [LeaseWorkers -> WorkerRecord]
  BY DEF WorkerRecord

\* A lease task moves to its next step.
LEMMA WorkerPcType ==
    ASSUME NEW f \in [LeaseWorkers -> WorkerRecord], NEW w \in LeaseWorkers,
           NEW p \in WorkerPCs
    PROVE  [f EXCEPT ![w].pc = p] \in [LeaseWorkers -> WorkerRecord]
  BY DEF WorkerRecord

\* An instance task begins a pass or goes idle.
LEMMA InstWorkerType ==
    ASSUME NEW f \in [InstWorkers -> InstWorkerRecord], NEW v \in InstWorkers,
           NEW p \in InstPCs, NEW i \in Insts \union {NoInst},
           NEW b \in MaybeBinding, NEW d \in BOOLEAN
    PROVE  [f EXCEPT ![v] = [pc |-> p, i |-> i, b |-> b, final |-> d]]
              \in [InstWorkers -> InstWorkerRecord]
  BY DEF InstWorkerRecord

\* An instance task moves to its next step.
LEMMA InstWorkerPcType ==
    ASSUME NEW f \in [InstWorkers -> InstWorkerRecord], NEW v \in InstWorkers,
           NEW p \in InstPCs
    PROVE  [f EXCEPT ![v].pc = p] \in [InstWorkers -> InstWorkerRecord]
  BY DEF InstWorkerRecord

\* What the type invariant says of the fields the proofs look at.
LEMMA TypeFacts ==
    ASSUME TypeOK
    PROVE  /\ \A l \in Leases : /\ lease[l].phase \in LeasePhases
                                /\ lease[l].binding \in MaybeBinding
           /\ \A i \in Insts : /\ inst[i].phase \in InstPhases
                               /\ inst[i].binding \in MaybeBinding
                               /\ inst[i].ref \in Leases \union {NoLease}
           /\ \A w \in LeaseWorkers : /\ worker[w].pc \in WorkerPCs
                                      /\ worker[w].b \in MaybeBinding
           /\ \A v \in InstWorkers : /\ iworker[v].pc \in InstPCs
                                     /\ iworker[v].i \in Insts \union {NoInst}
                                     /\ iworker[v].b \in MaybeBinding
  BY DEF TypeOK, LeaseObject, InstObject

\* A binding that is there names a lease, an instance and a numeric id.
LEMMA BindingFacts ==
    ASSUME NEW b \in MaybeBinding, b # NoBinding
    PROVE  b \in Bindings /\ b.lease \in Leases /\ b.inst \in Insts /\ b.id \in Nat
  BY DEF MaybeBinding, Bindings

\* The same, for what busy tasks are about: TaskShape rules out a busy task
\* without a binding or an instance.
LEMMA BusyFacts ==
    ASSUME PairInv
    PROVE  /\ \A w \in LeaseWorkers : worker[w].pc # "idle" =>
                /\ worker[w].b \in Bindings
                /\ worker[w].b.lease \in Leases
                /\ worker[w].b.inst \in Insts
                /\ worker[w].b.id \in Nat
           /\ \A v \in InstWorkers : iworker[v].pc # "idle" => iworker[v].i \in Insts
           /\ \A v \in InstWorkers : iworker[v].pc \in {"recycle", "orphan"} =>
                /\ iworker[v].b \in Bindings
                /\ iworker[v].b.lease \in Leases
  BY TypeFacts, BindingFacts DEF PairInv, TaskShape
-----------------------------------------------------------------------------
\* Every step preserves the type invariant.
LEMMA TypeStep ==
    ASSUME PairInv, [Next]_vars
    PROVE  TypeOK'
<1> USE DEF LeaseStore, InstStore, WorkerRecord, InstWorkerRecord
<1>t. TypeOK
  BY DEF PairInv
<1>f. /\ lease \in LeaseStore
      /\ inst \in InstStore
      /\ minted \in Nat
      /\ worker \in [LeaseWorkers -> WorkerRecord]
      /\ iworker \in [InstWorkers -> InstWorkerRecord]
      /\ served \in [Insts -> SUBSET Leases]
  BY <1>t DEF TypeOK
<1> HIDE DEF LeaseStore, InstStore, WorkerRecord, InstWorkerRecord
<1>q. SUFFICES /\ lease' \in LeaseStore
               /\ inst' \in InstStore
               /\ minted' \in Nat
               /\ worker' \in [LeaseWorkers -> WorkerRecord]
               /\ iworker' \in [InstWorkers -> InstWorkerRecord]
               /\ served' \in [Insts -> SUBSET Leases]
  BY DEF TypeOK, LeaseStore, InstStore, WorkerRecord, InstWorkerRecord
<1> DEFINE Goal == /\ lease' \in LeaseStore
                   /\ inst' \in InstStore
                   /\ minted' \in Nat
                   /\ worker' \in [LeaseWorkers -> WorkerRecord]
                   /\ iworker' \in [InstWorkers -> InstWorkerRecord]
                   /\ served' \in [Insts -> SUBSET Leases]
<1> USE <1>f
<1>1. ASSUME NEW l \in Leases, CreateLease(l) PROVE Goal
  BY <1>1, LeasePhaseType DEF CreateLease, LeasePhases
<1>2. ASSUME NEW l \in Leases, ReleaseLease(l) PROVE Goal
  BY <1>2, LeasePhaseType DEF ReleaseLease, LeasePhases, Terminal
<1>3. ASSUME NEW l \in Leases, TtlElapses(l) PROVE Goal
  BY <1>3, LeaseExpiredType DEF TtlElapses
<1>4. ASSUME NEW l \in Leases, ExtendLeaseTtl(l) PROVE Goal
  <2>1. lease[l].ext + 1 \in Nat
    BY DEF LeaseStore, LeaseObject
  <2> QED BY <1>4, <2>1, LeaseExtendType DEF ExtendLeaseTtl
<1>5. ASSUME NEW l \in Leases, DeleteLeaseObject(l) PROVE Goal
  BY <1>5, LeasePhaseType DEF DeleteLeaseObject, LeasePhases
<1>6. ASSUME NEW i \in Insts, DeleteInstanceObject(i) PROVE Goal
  BY <1>6, InstDeletingType DEF DeleteInstanceObject
<1>7. ASSUME NEW w \in LeaseWorkers, NEW l \in Leases, NEW i \in Insts,
             ReserveIntent(w, l, i)
      PROVE  Goal
  <2>1. [id |-> minted + 1, lease |-> l, inst |-> i] \in MaybeBinding
    BY DEF MaybeBinding, Bindings
  <2>2. lease' \in LeaseStore
    BY <1>7, <2>1, LeaseBindingType DEF ReserveIntent
  <2>3. minted' \in Nat
    BY <1>7 DEF ReserveIntent
  <2> QED BY <1>7, <2>2, <2>3 DEF ReserveIntent
<1>8. ASSUME NEW w \in LeaseWorkers, NEW l \in Leases, FenceIntent(w, l)
      PROVE  Goal
  BY <1>8, <1>t, TypeFacts, WorkerType DEF FenceIntent, WorkerPCs
<1>9. ASSUME NEW w \in LeaseWorkers, Adopt(w) PROVE Goal
  <2> DEFINE b == worker[w].b
  <2>1. b \in Bindings /\ b.inst \in Insts /\ b.lease \in Leases
    BY <1>9, BusyFacts DEF Adopt
  <2>2. worker' \in [LeaseWorkers -> WorkerRecord]
    BY <1>9, WorkerPcType DEF Adopt, WorkerPCs
  <2>3. [inst EXCEPT ![b.inst].phase = "Leased", ![b.inst].binding = b,
                     ![b.inst].ref = b.lease] \in InstStore
    BY <2>1, InstReserveType DEF InstPhases, MaybeBinding
  <2> QED BY <1>9, <2>2, <2>3 DEF Adopt
<1>10. ASSUME NEW w \in LeaseWorkers, ReserveLost(w) PROVE Goal
  BY <1>10, WorkerPcType DEF ReserveLost, WorkerPCs
<1>11. ASSUME NEW w \in LeaseWorkers, ClearIntent(w) PROVE Goal
  <2>1. worker[w].b.lease \in Leases
    BY <1>11, BusyFacts DEF ClearIntent
  <2>2. worker' \in [LeaseWorkers -> WorkerRecord]
    BY <1>11, WorkerType DEF ClearIntent, IdleWorker, WorkerPCs, MaybeBinding
  <2> QED BY <1>11, <2>1, <2>2, LeaseBindingType DEF ClearIntent, MaybeBinding
<1>12. ASSUME NEW w \in LeaseWorkers, ReadPair(w) PROVE Goal
  BY <1>12, WorkerPcType DEF ReadPair, WorkerPCs
<1>13. ASSUME NEW w \in LeaseWorkers, PublishBound(w) PROVE Goal
  <2> DEFINE b == worker[w].b
  <2>1. b.inst \in Insts /\ b.lease \in Leases
    BY <1>13, BusyFacts DEF PublishBound
  <2>2. worker' \in [LeaseWorkers -> WorkerRecord]
    BY <1>13, WorkerType DEF PublishBound, IdleWorker, WorkerPCs, MaybeBinding
  <2>3. lease' \in LeaseStore
    BY <1>13, <2>1, LeaseBoundType DEF PublishBound, LeasePhases
  <2>4. served' \in [Insts -> SUBSET Leases]
    BY <1>13, <2>1 DEF PublishBound
  <2> QED BY <1>13, <2>2, <2>3, <2>4 DEF PublishBound
<1>14. ASSUME NEW w \in LeaseWorkers, Abandon(w) PROVE Goal
  BY <1>14, WorkerType DEF Abandon, IdleWorker, WorkerPCs, MaybeBinding
<1>15. ASSUME NEW w \in LeaseWorkers, NEW l \in Leases, ExpireQueued(w, l)
       PROVE  Goal
  BY <1>15, LeasePhaseType DEF ExpireQueued, LeasePhases, Terminal
<1>16. ASSUME NEW l \in Leases, ExpireBound(l) PROVE Goal
  BY <1>16, LeasePhaseType DEF ExpireBound, LeasePhases, Terminal
<1>17. ASSUME NEW w \in LeaseWorkers, NEW l \in Leases, RetireUnbound(w, l)
       PROVE  Goal
  BY <1>17, LeasePhaseType DEF RetireUnbound, LeasePhases
<1>18. ASSUME NEW w \in LeaseWorkers, NEW l \in Leases, ReadHolding(w, l)
       PROVE  Goal
  BY <1>18, <1>t, TypeFacts, WorkerType DEF ReadHolding, WorkerPCs
<1>19. ASSUME NEW w \in LeaseWorkers, DeleteRetired(w) PROVE Goal
  <2>1. worker[w].b.lease \in Leases
    BY <1>19, BusyFacts DEF DeleteRetired
  <2>2. worker' \in [LeaseWorkers -> WorkerRecord]
    BY <1>19, WorkerType DEF DeleteRetired, IdleWorker, WorkerPCs, MaybeBinding
  <2> QED BY <1>19, <2>1, <2>2, LeasePhaseType DEF DeleteRetired, LeasePhases
<1>20. ASSUME NEW w \in LeaseWorkers, NEW l \in Leases, ResolveTerminal(w, l)
       PROVE  Goal
  BY <1>20, <1>t, TypeFacts, WorkerType DEF ResolveTerminal, WorkerPCs
<1>21. ASSUME NEW w \in LeaseWorkers, MarkRecycling(w) PROVE Goal
  <2>1. worker[w].b.inst \in Insts
    BY <1>21, BusyFacts DEF MarkRecycling
  <2>2. worker' \in [LeaseWorkers -> WorkerRecord]
    BY <1>21, WorkerPcType DEF MarkRecycling, WorkerPCs
  <2> QED BY <1>21, <2>1, <2>2, InstPhaseType DEF MarkRecycling, InstPhases
<1>22. ASSUME NEW w \in LeaseWorkers, AdvanceLease(w) PROVE Goal
  <2>1. worker[w].b.lease \in Leases
    BY <1>22, BusyFacts DEF AdvanceLease
  <2>2. worker' \in [LeaseWorkers -> WorkerRecord]
    BY <1>22, WorkerType DEF AdvanceLease, IdleWorker, WorkerPCs, MaybeBinding
  <2> QED BY <1>22, <2>1, <2>2, LeasePhaseType DEF AdvanceLease, LeasePhases
<1>23. ASSUME NEW w \in LeaseWorkers, NEW l \in Leases, RetireRecycled(w, l)
       PROVE  Goal
  BY <1>23, LeasePhaseType DEF RetireRecycled, LeasePhases
<1>24. ASSUME NEW i \in Insts, CreateInstance(i) PROVE Goal
  BY <1>24, InstPhaseType DEF CreateInstance, InstPhases
<1>25. ASSUME NEW i \in Insts, Provision(i) PROVE Goal
  BY <1>25, InstBackendType DEF Provision
<1>26. ASSUME NEW i \in Insts, MarkReady(i) PROVE Goal
  BY <1>26, InstPhaseType DEF MarkReady, InstPhases
<1>27. ASSUME NEW i \in Insts, FailProvisioning(i) PROVE Goal
  BY <1>27, InstPhaseType DEF FailProvisioning, InstPhases
<1>28. ASSUME NEW i \in Insts, HealthRecycle(i) PROVE Goal
  BY <1>28, InstPhaseRefType DEF HealthRecycle, InstPhases
<1>29. ASSUME NEW i \in Insts, PoolRecycle(i) PROVE Goal
  BY <1>29, InstPhaseType DEF PoolRecycle, InstPhases
<1>30. ASSUME NEW v \in InstWorkers, NEW i \in Insts, ObserveTerminal(v, i)
       PROVE  Goal
  BY <1>30, <1>t, TypeFacts, InstWorkerType DEF ObserveTerminal, InstPCs
<1>31. ASSUME NEW v \in InstWorkers, NEW i \in Insts, ObserveOrphan(v, i)
       PROVE  Goal
  BY <1>31, <1>t, TypeFacts, InstWorkerType DEF ObserveOrphan, InstPCs
<1>32. ASSUME NEW v \in InstWorkers, ApplyRecovery(v) PROVE Goal
  <2> DEFINE i == iworker[v].i
             kind == RecoveryKind(iworker[v].pc)
  <2>1. i \in Insts
    BY <1>32, BusyFacts DEF ApplyRecovery
  <2>2. inst[i] \in InstObject
    BY <2>1 DEF InstStore
  <2>3. Recovered(inst[i], kind) \in InstObject
    BY <2>2 DEF Recovered, InstObject, InstPhases, MaybeBinding
  <2>4. [inst EXCEPT ![i] = Recovered(@, kind)] \in InstStore
    BY <2>1, <2>3 DEF InstStore
  <2>5. iworker' \in [InstWorkers -> InstWorkerRecord]
    BY <1>32, InstWorkerType
       DEF ApplyRecovery, IdleInstWorker, InstPCs, MaybeBinding
  <2> QED BY <1>32, <2>4, <2>5 DEF ApplyRecovery
<1>33. ASSUME NEW v \in InstWorkers, NEW i \in Insts, VerifyTeardown(v, i)
       PROVE  Goal
  <2>1. inst[i].deleting \in BOOLEAN
    BY DEF InstStore, InstObject
  <2>2. iworker' \in [InstWorkers -> InstWorkerRecord]
    <3> DEFINE p == IF inst[i].deleting THEN "destroy" ELSE "recheck"
    <3>1. p \in InstPCs
      BY DEF InstPCs
    <3> QED BY <1>33, <2>1, <3>1, InstWorkerType DEF VerifyTeardown, MaybeBinding
  <2> QED BY <1>33, <2>2 DEF VerifyTeardown
<1>34. ASSUME NEW v \in InstWorkers, RecheckUid(v) PROVE Goal
  BY <1>34, InstWorkerPcType DEF RecheckUid, InstPCs
<1>35. ASSUME NEW v \in InstWorkers, DeleteBackend(v) PROVE Goal
  <2>1. inst' \in InstStore
    BY <1>35 DEF DeleteBackend, InstStore, InstObject
  <2> QED BY <1>35, <2>1, InstWorkerPcType DEF DeleteBackend, InstPCs
<1>36. ASSUME NEW v \in InstWorkers, FinishTeardown(v) PROVE Goal
  <2>1. iworker[v].i \in Insts
    BY <1>36, BusyFacts DEF FinishTeardown
  <2>2. iworker' \in [InstWorkers -> InstWorkerRecord]
    BY <1>36, InstWorkerType
       DEF FinishTeardown, IdleInstWorker, InstPCs, MaybeBinding
  <2>3. inst' \in InstStore
    BY <1>36, <2>1, InstPhaseType, InstDeletingType DEF FinishTeardown, InstPhases
  <2> QED BY <1>36, <2>2, <2>3 DEF FinishTeardown
<1>37. ASSUME NEW v \in InstWorkers, AbandonInst(v) PROVE Goal
  BY <1>37, InstWorkerType DEF AbandonInst, IdleInstWorker, InstPCs, MaybeBinding
<1>38. CASE UNCHANGED vars
  BY <1>38 DEF vars
<1> QED
  BY <1>1, <1>2, <1>3, <1>4, <1>5, <1>6, <1>7, <1>8, <1>9, <1>10, <1>11, <1>12,
     <1>13, <1>14, <1>15, <1>16, <1>17, <1>18, <1>19, <1>20, <1>21, <1>22,
     <1>23, <1>24, <1>25, <1>26, <1>27, <1>28, <1>29, <1>30, <1>31, <1>32,
     <1>33, <1>34, <1>35, <1>36, <1>37, <1>38
     DEF Next, Client, LeaseController, InstanceController
-----------------------------------------------------------------------------
(* What the pairing invariant can see: phases, bindings and leaseRefs.     *)

SameLease(l) ==
    /\ lease'[l].phase = lease[l].phase
    /\ lease'[l].binding = lease[l].binding
SameInst(i) ==
    /\ inst'[i].phase = inst[i].phase
    /\ inst'[i].binding = inst[i].binding
    /\ inst'[i].ref = inst[i].ref

\* A task is as it was, has gone idle, or has moved on within its pass to a
\* step that needs no more than the one before.
QuietWorker(w) ==
    \/ worker'[w] = worker[w]
    \/ worker'[w].pc = "idle"
    \/ /\ worker[w].pc # "idle"
       /\ worker'[w].b = worker[w].b
       /\ \/ worker'[w].pc \in {"finalize", "clear"}
          \/ worker'[w].pc = "advance" /\ worker[w].pc = "recycle"
QuietInstWorker(v) ==
    \/ iworker'[v] = iworker[v]
    \/ iworker'[v].pc = "idle"
    \/ /\ iworker[v].pc # "idle"
       /\ iworker'[v].i = iworker[v].i
       /\ iworker'[v].pc \in {"destroy", "finish"}

QuietTasks ==
    /\ \A w \in LeaseWorkers : QuietWorker(w)
    /\ \A v \in InstWorkers : QuietInstWorker(v)
-----------------------------------------------------------------------------
\* A step that changes no phase, binding or leaseRef keeps the invariant.
LEMMA QuietStep ==
    ASSUME PairInv, TypeOK', QuietTasks, minted' = minted,
           \A l \in Leases : SameLease(l), \A i \in Insts : SameInst(i)
    PROVE  PairInv'
<1>t. TypeOK
  BY DEF PairInv
<1>1. BindingShape'
  BY <1>t, TypeFacts, BindingFacts DEF PairInv, BindingShape, SameLease, SameInst
<1>2. ReservationShape'
  BY <1>t DEF PairInv, ReservationShape, SameInst
<1>3. TaskShape'
  BY <1>t, TypeFacts, BusyFacts
     DEF PairInv, TaskShape, SameLease, QuietTasks, QuietWorker, QuietInstWorker
<1>4. PublishReady'
  BY <1>t, BusyFacts
     DEF PairInv, PublishReady, HoldsPair, SameLease, SameInst, QuietTasks, QuietWorker
<1>5. RecoveryJustified'
  BY <1>t, BusyFacts
     DEF PairInv, RecoveryJustified, SameLease, QuietTasks, QuietWorker, QuietInstWorker
<1>6. BoundReciprocal'
  BY <1>t, TypeFacts, BindingFacts
     DEF PairInv, BoundReciprocal, HoldsPair, SameLease, SameInst, Bindings
<1> QED BY <1>1, <1>2, <1>3, <1>4, <1>5, <1>6 DEF PairInv

\* A lease that ends takes nothing from the invariant.
LEMMA EndStep ==
    ASSUME PairInv, TypeOK', QuietTasks, minted' = minted,
           NEW l \in Leases,
           lease[l].phase \notin {"Unborn", "Gone"},
           lease'[l].phase \in Ended,
           lease'[l].binding = lease[l].binding,
           \A m \in Leases \ {l} : SameLease(m),
           \A i \in Insts : SameInst(i)
    PROVE  PairInv'
<1>t. TypeOK
  BY DEF PairInv
<1>e. "Unborn" \notin Ended /\ "Pending" \notin Ended /\ "Bound" \notin Ended
  BY DEF Ended, Terminal
<1>1. BindingShape'
  BY <1>t, <1>e, TypeFacts, BindingFacts DEF PairInv, BindingShape, SameLease, SameInst
<1>2. ReservationShape'
  BY <1>t DEF PairInv, ReservationShape, SameInst
<1>3. TaskShape'
  BY <1>t, <1>e, TypeFacts, BusyFacts
     DEF PairInv, TaskShape, SameLease, QuietTasks, QuietWorker, QuietInstWorker
<1>4. PublishReady'
  BY <1>t, <1>e, BusyFacts
     DEF PairInv, PublishReady, HoldsPair, SameLease, SameInst, QuietTasks, QuietWorker
<1>5. RecoveryJustified'
  BY <1>t, <1>e, BusyFacts
     DEF PairInv, RecoveryJustified, SameLease, QuietTasks, QuietWorker, QuietInstWorker
<1>6. BoundReciprocal'
  BY <1>t, <1>e, TypeFacts, BindingFacts
     DEF PairInv, BoundReciprocal, HoldsPair, SameLease, SameInst, Bindings
<1> QED BY <1>1, <1>2, <1>3, <1>4, <1>5, <1>6 DEF PairInv

\* A write to one instance keeps the invariant if it leaves the reservation
\* whole, and takes nothing from a lease that is Bound or about to be.
LEMMA InstanceWriteStep ==
    ASSUME PairInv, TypeOK', QuietTasks, minted' = minted,
           \A l \in Leases : SameLease(l),
           NEW i \in Insts,
           \A j \in Insts \ {i} : SameInst(j),
           inst'[i].binding # NoBinding =>
              /\ inst'[i].binding.inst = i
              /\ lease[inst'[i].binding.lease].phase # "Unborn",
           inst'[i].phase \in {"Unborn", "Creating", "Ready", "Failed"} =>
              inst'[i].binding = NoBinding /\ inst'[i].ref = NoLease,
           inst'[i].phase = "Leased" =>
              inst'[i].binding # NoBinding /\ inst'[i].ref = inst'[i].binding.lease,
           /\ inst[i].binding # NoBinding
           /\ inst[i].ref = inst[i].binding.lease
           /\ inst[i].phase \in {"Leased", "Gone"}
           /\ lease[inst[i].binding.lease].phase \in {"Pending", "Bound"}
           => /\ inst'[i].binding = inst[i].binding
              /\ inst'[i].ref = inst[i].ref
              /\ inst'[i].phase \in {"Leased", "Gone"}
    PROVE  PairInv'
<1>t. TypeOK
  BY DEF PairInv
<1>1. BindingShape'
  <2>1. ASSUME NEW j \in Insts, inst'[j].binding # NoBinding
        PROVE  /\ inst'[j].binding.inst = j
               /\ lease'[inst'[j].binding.lease].phase # "Unborn"
    <3>1. inst'[j].binding.lease \in Leases
      <4>1. inst'[j].binding \in MaybeBinding
        BY DEF TypeOK, InstObject
      <4> QED BY <2>1, <4>1, BindingFacts
    <3> QED BY <2>1, <3>1 DEF PairInv, BindingShape, SameLease, SameInst
  <2> QED BY <2>1 DEF PairInv, BindingShape, SameLease
<1>2. ReservationShape'
  BY <1>t DEF PairInv, ReservationShape, SameInst
<1>3. TaskShape'
  BY <1>t, TypeFacts, BusyFacts
     DEF PairInv, TaskShape, SameLease, QuietTasks, QuietWorker, QuietInstWorker
<1>4. PublishReady'
  <2>1. ASSUME NEW w \in LeaseWorkers,
               worker'[w].pc = "publish",
               lease'[worker'[w].b.lease].phase = "Pending",
               lease'[worker'[w].b.lease].binding = worker'[w].b
        PROVE  /\ inst'[worker'[w].b.inst].binding = worker'[w].b
               /\ inst'[worker'[w].b.inst].ref = worker'[w].b.lease
               /\ inst'[worker'[w].b.inst].phase \in {"Leased", "Gone"}
    <3> DEFINE b == worker[w].b
    <3>1. worker'[w] = worker[w] /\ worker[w].pc = "publish"
      BY <2>1 DEF QuietTasks, QuietWorker
    <3>2. b \in Bindings /\ b.lease \in Leases /\ b.inst \in Insts
      BY <3>1, BusyFacts
    <3>3. lease[b.lease].phase = "Pending" /\ HoldsPair(b)
      BY <2>1, <3>1, <3>2 DEF PairInv, PublishReady, SameLease
    <3>4. b # NoBinding
      BY <3>2, BindingAssumption
    <3> QED BY <3>1, <3>2, <3>3, <3>4 DEF HoldsPair, SameInst
  <2> QED BY <2>1 DEF PublishReady, HoldsPair
<1>5. RecoveryJustified'
  BY <1>t, BusyFacts
     DEF PairInv, RecoveryJustified, SameLease, QuietTasks, QuietWorker, QuietInstWorker
<1>6. BoundReciprocal'
  <2>1. ASSUME NEW l \in Leases, lease'[l].phase = "Bound"
        PROVE  /\ lease'[l].binding \in Bindings
               /\ lease'[l].binding.lease = l
               /\ inst'[lease'[l].binding.inst].binding = lease'[l].binding
               /\ inst'[lease'[l].binding.inst].ref = lease'[l].binding.lease
               /\ inst'[lease'[l].binding.inst].phase \in {"Leased", "Gone"}
    <3> DEFINE b == lease[l].binding
    <3>1. lease[l].phase = "Bound" /\ lease'[l].binding = b
      BY <2>1 DEF SameLease
    <3>2. b \in Bindings /\ b.lease = l /\ HoldsPair(b)
      BY <3>1 DEF PairInv, BoundReciprocal
    <3>3. b # NoBinding /\ b.inst \in Insts
      BY <3>2, BindingAssumption DEF Bindings
    <3> QED BY <3>1, <3>2, <3>3 DEF HoldsPair, SameInst
  <2> QED BY <2>1 DEF BoundReciprocal, HoldsPair
<1> QED BY <1>1, <1>2, <1>3, <1>4, <1>5, <1>6 DEF PairInv

\* A lease task begins a pass or goes on to publish: it holds a binding of a
\* lease that exists, and what its next write rests on is true now.
LEMMA LeaseTaskStep ==
    ASSUME PairInv, TypeOK', UNCHANGED <<lease, inst, minted, iworker>>,
           NEW w \in LeaseWorkers,
           \A x \in LeaseWorkers \ {w} : worker'[x] = worker[x],
           NEW b \in Bindings, worker'[w].b = b,
           b.id <= minted,
           lease[b.lease].phase # "Unborn",
           worker'[w].pc = "publish" => HoldsPair(b),
           worker'[w].pc \in {"recycle", "advance"} => lease[b.lease].phase \in Ended
    PROVE  PairInv'
<1>b. b # NoBinding
  BY BindingAssumption
<1>1. BindingShape' /\ ReservationShape' /\ BoundReciprocal'
  BY DEF PairInv, BindingShape, ReservationShape, BoundReciprocal, HoldsPair
<1>2. TaskShape'
  BY <1>b DEF PairInv, TaskShape
<1>3. PublishReady'
  BY DEF PairInv, PublishReady, HoldsPair
<1>4. RecoveryJustified'
  BY DEF PairInv, RecoveryJustified
<1> QED BY <1>1, <1>2, <1>3, <1>4 DEF PairInv

\* An instance task begins a pass: it knows its instance, and a recovery rests
\* on a lease that ended, or is gone.
LEMMA InstTaskStep ==
    ASSUME PairInv, TypeOK', UNCHANGED <<lease, inst, minted, worker>>,
           NEW v \in InstWorkers,
           \A x \in InstWorkers \ {v} : iworker'[x] = iworker[x],
           iworker'[v].i # NoInst,
           iworker'[v].pc \in {"recycle", "orphan"} => iworker'[v].b # NoBinding,
           iworker'[v].pc = "recycle" => lease[iworker'[v].b.lease].phase \in Ended,
           iworker'[v].pc = "orphan" => lease[iworker'[v].b.lease].phase = "Gone"
    PROVE  PairInv'
<1>1. BindingShape' /\ ReservationShape' /\ BoundReciprocal' /\ PublishReady'
  BY DEF PairInv, BindingShape, ReservationShape, BoundReciprocal, PublishReady,
         HoldsPair
<1>2. TaskShape'
  BY DEF PairInv, TaskShape
<1>3. RecoveryJustified'
  BY DEF PairInv, RecoveryJustified
<1> QED BY <1>1, <1>2, <1>3 DEF PairInv
-----------------------------------------------------------------------------
(* What a field write does to the fields the invariant can see.            *)

\* A phase write to one lease, as the invariant sees it.
LEMMA LeasePhaseWrite ==
    ASSUME TypeOK, NEW l \in Leases, NEW p,
           lease' = [lease EXCEPT ![l].phase = p]
    PROVE  /\ lease'[l].phase = p
           /\ lease'[l].binding = lease[l].binding
           /\ \A m \in Leases \ {l} : SameLease(m)
  BY DEF TypeOK, LeaseObject, SameLease

\* A write of /status/binding to one lease.
LEMMA LeaseBindingWrite ==
    ASSUME TypeOK, NEW l \in Leases, NEW b,
           lease' = [lease EXCEPT ![l].binding = b]
    PROVE  /\ lease'[l].phase = lease[l].phase
           /\ lease'[l].binding = b
           /\ \A m \in Leases \ {l} : SameLease(m)
  BY DEF TypeOK, LeaseObject, SameLease

\* The passing of expiresAt is invisible to the invariant.
LEMMA LeaseExpiredWrite ==
    ASSUME TypeOK, NEW l \in Leases, NEW e,
           lease' = [lease EXCEPT ![l].expired = e]
    PROVE  \A m \in Leases : SameLease(m)
  BY DEF TypeOK, LeaseObject, SameLease

\* extend_lease_ttl's write is invisible to the invariant.
LEMMA LeaseExtendWrite ==
    ASSUME TypeOK, NEW l \in Leases, NEW e, NEW x,
           lease' = [lease EXCEPT ![l].expired = e, ![l].ext = x]
    PROVE  \A m \in Leases : SameLease(m)
  BY DEF TypeOK, LeaseObject, SameLease

\* finalize_binding's write publishes the phase and keeps the binding.
LEMMA LeaseBoundWrite ==
    ASSUME TypeOK, NEW l \in Leases, NEW p, NEW n, NEW e, NEW x,
           lease' = [lease EXCEPT ![l].phase = p, ![l].named = n,
                                  ![l].expired = e, ![l].ext = x]
    PROVE  /\ lease'[l].phase = p
           /\ lease'[l].binding = lease[l].binding
           /\ \A m \in Leases \ {l} : SameLease(m)
  BY DEF TypeOK, LeaseObject, SameLease

\* A phase write to one instance.
LEMMA InstPhaseWrite ==
    ASSUME TypeOK, NEW i \in Insts, NEW p,
           inst' = [inst EXCEPT ![i].phase = p]
    PROVE  /\ inst'[i].phase = p
           /\ inst'[i].binding = inst[i].binding
           /\ inst'[i].ref = inst[i].ref
           /\ \A j \in Insts \ {i} : SameInst(j)
  BY DEF TypeOK, InstObject, SameInst

\* The health recycle of one instance.
LEMMA InstPhaseRefWrite ==
    ASSUME TypeOK, NEW i \in Insts, NEW p, NEW r,
           inst' = [inst EXCEPT ![i].phase = p, ![i].ref = r]
    PROVE  /\ inst'[i].phase = p
           /\ inst'[i].binding = inst[i].binding
           /\ inst'[i].ref = r
           /\ \A j \in Insts \ {i} : SameInst(j)
  BY DEF TypeOK, InstObject, SameInst

\* The reservation write to one instance.
LEMMA InstReserveWrite ==
    ASSUME TypeOK, NEW i \in Insts, NEW p, NEW b, NEW r,
           inst' = [inst EXCEPT ![i].phase = p, ![i].binding = b, ![i].ref = r]
    PROVE  /\ inst'[i].phase = p
           /\ inst'[i].binding = b
           /\ inst'[i].ref = r
           /\ \A j \in Insts \ {i} : SameInst(j)
  BY DEF TypeOK, InstObject, SameInst

\* A deletionTimestamp is invisible to the invariant.
LEMMA InstDeletingWrite ==
    ASSUME TypeOK, NEW i \in Insts, NEW d,
           inst' = [inst EXCEPT ![i].deleting = d]
    PROVE  \A j \in Insts : SameInst(j)
  BY DEF TypeOK, InstObject, SameInst

\* The backend coming up is invisible to the invariant.
LEMMA InstBackendWrite ==
    ASSUME TypeOK, NEW i \in Insts, NEW d,
           inst' = [inst EXCEPT ![i].backend = d]
    PROVE  \A j \in Insts : SameInst(j)
  BY DEF TypeOK, InstObject, SameInst

\* A lease task begins a pass.
LEMMA WorkerWrite ==
    ASSUME TypeOK, NEW w \in LeaseWorkers, NEW p, NEW b,
           worker' = [worker EXCEPT ![w] = [pc |-> p, b |-> b]]
    PROVE  /\ worker'[w].pc = p
           /\ worker'[w].b = b
           /\ \A x \in LeaseWorkers \ {w} : worker'[x] = worker[x]
  BY DEF TypeOK

\* A lease task moves on and keeps its binding.
LEMMA WorkerPcWrite ==
    ASSUME TypeOK, NEW w \in LeaseWorkers, NEW p,
           worker' = [worker EXCEPT ![w].pc = p]
    PROVE  /\ worker'[w].pc = p
           /\ worker'[w].b = worker[w].b
           /\ \A x \in LeaseWorkers \ {w} : worker'[x] = worker[x]
  BY DEF TypeOK

\* An instance task begins a pass.
LEMMA InstWorkerWrite ==
    ASSUME TypeOK, NEW v \in InstWorkers, NEW p, NEW i, NEW b, NEW d,
           iworker' = [iworker EXCEPT ![v] =
                         [pc |-> p, i |-> i, b |-> b, final |-> d]]
    PROVE  /\ iworker'[v].pc = p
           /\ iworker'[v].i = i
           /\ iworker'[v].b = b
           /\ \A x \in InstWorkers \ {v} : iworker'[x] = iworker[x]
  BY DEF TypeOK

\* An instance task moves on and keeps its instance.
LEMMA InstWorkerPcWrite ==
    ASSUME TypeOK, NEW v \in InstWorkers, NEW p,
           iworker' = [iworker EXCEPT ![v].pc = p]
    PROVE  /\ iworker'[v].pc = p
           /\ iworker'[v].i = iworker[v].i
           /\ \A x \in InstWorkers \ {v} : iworker'[x] = iworker[x]
  BY DEF TypeOK
-----------------------------------------------------------------------------
\* Tasks that keep out of a step, or go idle in it, are quiet.
LEMMA IdleQuiet ==
    ASSUME TypeOK
    PROVE  /\ (UNCHANGED worker) => \A w \in LeaseWorkers : QuietWorker(w)
           /\ (UNCHANGED iworker) => \A v \in InstWorkers : QuietInstWorker(v)
           /\ \A w \in LeaseWorkers :
                worker' = [worker EXCEPT ![w] = IdleWorker]
                   => \A x \in LeaseWorkers : QuietWorker(x)
           /\ \A v \in InstWorkers :
                iworker' = [iworker EXCEPT ![v] = IdleInstWorker]
                   => \A x \in InstWorkers : QuietInstWorker(x)
<1>1. ASSUME NEW w \in LeaseWorkers, worker' = [worker EXCEPT ![w] = IdleWorker]
      PROVE  \A x \in LeaseWorkers : QuietWorker(x)
  BY <1>1, WorkerWrite DEF QuietWorker, IdleWorker
<1>2. ASSUME NEW v \in InstWorkers,
             iworker' = [iworker EXCEPT ![v] = IdleInstWorker]
      PROVE  \A x \in InstWorkers : QuietInstWorker(x)
  BY <1>2, InstWorkerWrite DEF QuietInstWorker, IdleInstWorker
<1> QED BY <1>1, <1>2 DEF QuietWorker, QuietInstWorker

\* Every step preserves the pairing invariant.
LEMMA PairStep ==
    ASSUME PairInv, [Next]_vars
    PROVE  PairInv'
<1>t. TypeOK
  BY DEF PairInv
<1>n. TypeOK'
  BY TypeStep
<1> USE <1>t, <1>n
<1>1. ASSUME NEW l \in Leases, CreateLease(l) PROVE PairInv'
  <2>1. /\ lease'[l].phase = "Pending"
        /\ lease'[l].binding = lease[l].binding
        /\ \A m \in Leases \ {l} : SameLease(m)
    BY <1>1, LeasePhaseWrite DEF CreateLease
  <2>2. lease[l].phase = "Unborn" /\ UNCHANGED <<inst, minted, worker, iworker>>
    BY <1>1 DEF CreateLease
  <2>3. lease[l].binding = NoBinding
    BY <2>2 DEF PairInv, BindingShape
  <2>4. BindingShape'
    BY <2>1, <2>2, TypeFacts, BindingFacts
       DEF PairInv, BindingShape, SameLease
  <2>5. ReservationShape'
    BY <2>2 DEF PairInv, ReservationShape
  <2>6. TaskShape'
    BY <2>1, <2>2, BusyFacts DEF PairInv, TaskShape, SameLease
  <2>7. PublishReady'
    BY <2>1, <2>2, BusyFacts
       DEF PairInv, TaskShape, PublishReady, HoldsPair, SameLease
  <2>8. RecoveryJustified'
    BY <2>1, <2>2, BusyFacts
       DEF PairInv, TaskShape, RecoveryJustified, SameLease, Ended, Terminal
  <2>9. BoundReciprocal'
    BY <2>1, <2>2 DEF PairInv, BoundReciprocal, HoldsPair, SameLease
  <2> QED BY <2>4, <2>5, <2>6, <2>7, <2>8, <2>9 DEF PairInv
<1>2. ASSUME NEW l \in Leases, ReleaseLease(l) PROVE PairInv'
  BY <1>2, LeasePhaseWrite, EndStep, IdleQuiet
     DEF ReleaseLease, QuietTasks, SameInst, Ended, Terminal
<1>3. ASSUME NEW l \in Leases, TtlElapses(l) PROVE PairInv'
  BY <1>3, LeaseExpiredWrite, QuietStep, IdleQuiet
     DEF TtlElapses, QuietTasks, SameInst
<1>4. ASSUME NEW l \in Leases, ExtendLeaseTtl(l) PROVE PairInv'
  BY <1>4, LeaseExtendWrite, QuietStep, IdleQuiet
     DEF ExtendLeaseTtl, QuietTasks, SameInst
<1>5. ASSUME NEW l \in Leases, DeleteLeaseObject(l) PROVE PairInv'
  BY <1>5, LeasePhaseWrite, EndStep, IdleQuiet
     DEF DeleteLeaseObject, LiveLease, QuietTasks, SameInst, Ended
<1>6. ASSUME NEW i \in Insts, DeleteInstanceObject(i) PROVE PairInv'
  BY <1>6, InstDeletingWrite, QuietStep, IdleQuiet
     DEF DeleteInstanceObject, QuietTasks, SameLease
<1>7. ASSUME NEW w \in LeaseWorkers, NEW l \in Leases, NEW i \in Insts,
             ReserveIntent(w, l, i)
      PROVE  PairInv'
  <2> DEFINE b == [id |-> minted + 1, lease |-> l, inst |-> i]
  <2>1. /\ lease'[l].phase = lease[l].phase
        /\ lease'[l].binding = b
        /\ \A m \in Leases \ {l} : SameLease(m)
    BY <1>7, LeaseBindingWrite DEF ReserveIntent
  <2>2. /\ lease[l].phase = "Pending"
        /\ UNCHANGED <<inst, worker, iworker>>
        /\ minted \in Nat
        /\ minted' = minted + 1
    BY <1>7 DEF ReserveIntent, TypeOK
  <2>3. \A m \in Leases : lease'[m].phase = lease[m].phase
    BY <2>1 DEF SameLease
  <2>4. BindingShape'
    BY <2>1, <2>2, <2>3, TypeFacts, BindingFacts
       DEF PairInv, BindingShape, SameLease
  <2>5. ReservationShape'
    BY <2>2 DEF PairInv, ReservationShape
  <2>6. TaskShape'
    <3>1. \A n \in Nat : n <= minted => n <= minted'
      BY <2>2
    <3>2. b.id <= minted'
      BY <2>2
    <3> QED BY <2>1, <2>2, <2>3, <3>1, <3>2, BusyFacts, TypeFacts, BindingFacts
            DEF PairInv, TaskShape, SameLease
  <2>7. PublishReady'
    <3>1. ASSUME NEW x \in LeaseWorkers, worker[x].pc = "publish"
          PROVE  worker[x].b # b
      <4>1. worker[x].b.id \in Nat /\ worker[x].b.id <= minted
        BY <3>1, BusyFacts DEF PairInv, TaskShape
      <4> QED BY <4>1, <2>2
    <3> QED BY <2>1, <2>2, <2>3, <3>1, BusyFacts
            DEF PairInv, PublishReady, HoldsPair, SameLease
  <2>8. RecoveryJustified'
    BY <2>2, <2>3, BusyFacts DEF PairInv, RecoveryJustified
  <2>9. BoundReciprocal'
    BY <2>1, <2>2 DEF PairInv, BoundReciprocal, HoldsPair, SameLease
  <2> QED BY <2>4, <2>5, <2>6, <2>7, <2>8, <2>9 DEF PairInv
<1>8. ASSUME NEW w \in LeaseWorkers, NEW l \in Leases, FenceIntent(w, l)
      PROVE  PairInv'
  <2> DEFINE b == lease[l].binding
  <2>1. /\ worker'[w].pc = "reserve"
        /\ worker'[w].b = b
        /\ \A x \in LeaseWorkers \ {w} : worker'[x] = worker[x]
    BY <1>8, WorkerWrite DEF FenceIntent
  <2>2. b \in Bindings /\ b.lease = l /\ b.id <= minted
    BY <1>8, TypeFacts, BindingFacts
       DEF FenceIntent, PairInv, BindingShape, TaskShape
  <2>3. lease[l].phase = "Pending" /\ UNCHANGED <<lease, inst, minted, iworker>>
    BY <1>8 DEF FenceIntent
  <2> QED BY <2>1, <2>2, <2>3, LeaseTaskStep
<1>9. ASSUME NEW w \in LeaseWorkers, Adopt(w) PROVE PairInv'
  <2> DEFINE b == worker[w].b
  <2>1. b \in Bindings /\ b.lease \in Leases /\ b.inst \in Insts
    BY <1>9, BusyFacts DEF Adopt
  <2>2. lease[b.lease].phase # "Unborn"
    BY <1>9 DEF Adopt, PairInv, TaskShape
  <2>3. /\ worker'[w].pc = "finalize"
        /\ worker'[w].b = b
        /\ \A x \in LeaseWorkers \ {w} : worker'[x] = worker[x]
    BY <1>9, WorkerPcWrite DEF Adopt
  <2>4. QuietTasks
    BY <1>9, <2>3, IdleQuiet DEF Adopt, QuietTasks, QuietWorker
  <2>5. UNCHANGED <<lease, minted>>
    BY <1>9 DEF Adopt
  <2>6. CASE UNCHANGED inst
    BY <2>4, <2>5, <2>6, QuietStep DEF SameLease, SameInst
  <2>7. CASE /\ FreeCapacity(b.inst)
             /\ inst' = [inst EXCEPT ![b.inst].phase = "Leased",
                                     ![b.inst].binding = b,
                                     ![b.inst].ref = b.lease]
    <3>1. /\ inst'[b.inst].phase = "Leased"
          /\ inst'[b.inst].binding = b
          /\ inst'[b.inst].ref = b.lease
          /\ \A j \in Insts \ {b.inst} : SameInst(j)
      BY <2>1, <2>7, InstReserveWrite
    <3>2. inst[b.inst].binding = NoBinding
      BY <2>7 DEF FreeCapacity
    <3>3. b # NoBinding
      BY <2>1, BindingAssumption
    <3>4. \A l \in Leases : SameLease(l)
      BY <2>5 DEF SameLease
    <3> QED BY <2>1, <2>2, <2>4, <2>5, <3>1, <3>2, <3>3, <3>4, InstanceWriteStep
  <2> QED BY <1>9, <2>6, <2>7 DEF Adopt
<1>10. ASSUME NEW w \in LeaseWorkers, ReserveLost(w) PROVE PairInv'
  <2>1. QuietTasks
    BY <1>10, WorkerPcWrite, IdleQuiet DEF ReserveLost, QuietTasks, QuietWorker
  <2> QED BY <1>10, <2>1, QuietStep DEF ReserveLost, SameLease, SameInst
<1>11. ASSUME NEW w \in LeaseWorkers, ClearIntent(w) PROVE PairInv'
  <2> DEFINE b == worker[w].b
  <2>1. b \in Bindings /\ b.lease \in Leases
    BY <1>11, BusyFacts DEF ClearIntent
  <2>2. QuietTasks /\ UNCHANGED <<inst, minted, iworker>>
    BY <1>11, IdleQuiet DEF ClearIntent, QuietTasks
  <2>3. CASE UNCHANGED lease
    BY <2>2, <2>3, QuietStep DEF SameLease, SameInst
  <2>4. CASE /\ lease[b.lease].phase = "Pending"
             /\ lease' = [lease EXCEPT ![b.lease].binding = NoBinding]
    <3> DEFINE l == b.lease
    <3>1. /\ lease'[l].phase = "Pending"
          /\ lease'[l].binding = NoBinding
          /\ \A m \in Leases \ {l} : SameLease(m)
      BY <2>1, <2>4, LeaseBindingWrite
    <3>2. \A m \in Leases : lease'[m].phase = lease[m].phase
      BY <2>4, <3>1 DEF SameLease
    <3>3. BindingShape'
      BY <2>1, <2>2, <3>1, <3>2, TypeFacts, BindingFacts
         DEF PairInv, BindingShape, SameLease
    <3>4. ReservationShape'
      BY <2>2 DEF PairInv, ReservationShape
    <3>5. TaskShape'
      BY <2>1, <2>2, <3>1, <3>2, TypeFacts, BusyFacts
         DEF PairInv, TaskShape, SameLease, QuietTasks, QuietWorker, QuietInstWorker
    <3>6. PublishReady'
      <4>1. ASSUME NEW x \in LeaseWorkers, worker'[x].pc = "publish"
            PROVE  /\ worker'[x] = worker[x]
                   /\ worker[x].b \in Bindings
                   /\ worker[x].b.lease \in Leases
                   /\ worker[x].b # NoBinding
        BY <4>1, <2>2, BusyFacts, BindingAssumption DEF QuietTasks, QuietWorker
      <4> QED BY <2>1, <2>2, <3>1, <3>2, <4>1
              DEF PairInv, PublishReady, HoldsPair, SameLease
    <3>7. RecoveryJustified'
      BY <2>2, <3>2, BusyFacts
         DEF PairInv, RecoveryJustified, QuietTasks, QuietWorker, QuietInstWorker
    <3>8. BoundReciprocal'
      BY <2>1, <2>2, <3>1 DEF PairInv, BoundReciprocal, HoldsPair, SameLease
    <3> QED BY <3>3, <3>4, <3>5, <3>6, <3>7, <3>8 DEF PairInv
  <2> QED BY <1>11, <2>3, <2>4 DEF ClearIntent
<1>12. ASSUME NEW w \in LeaseWorkers, ReadPair(w) PROVE PairInv'
  <2> DEFINE b == worker[w].b
  <2>1. /\ b \in Bindings /\ b.lease \in Leases /\ b.inst \in Insts
        /\ b.id <= minted
        /\ lease[b.lease].phase # "Unborn"
    BY <1>12, BusyFacts DEF ReadPair, PairInv, TaskShape
  <2>2. /\ worker'[w].pc = "publish"
        /\ worker'[w].b = b
        /\ \A x \in LeaseWorkers \ {w} : worker'[x] = worker[x]
    BY <1>12, WorkerPcWrite DEF ReadPair
  <2>3. HoldsPair(b)
    BY <1>12, <2>1, BindingAssumption
       DEF ReadPair, FinalizationDecision, exact_binding_finalization,
           model_binding_state, HoldsPair, PairInv, ReservationShape
  <2>4. UNCHANGED <<lease, inst, minted, iworker>>
    BY <1>12 DEF ReadPair
  <2> QED BY <2>1, <2>2, <2>3, <2>4, LeaseTaskStep
<1>13. ASSUME NEW w \in LeaseWorkers, PublishBound(w) PROVE PairInv'
  <2> DEFINE b == worker[w].b
             l == b.lease
  <2>1. /\ b \in Bindings /\ l \in Leases /\ b.inst \in Insts
        /\ lease[l].phase = "Pending" /\ lease[l].binding = b
    BY <1>13, BusyFacts DEF PublishBound
  <2>2. HoldsPair(b)
    BY <1>13, <2>1 DEF PublishBound, PairInv, PublishReady
  <2>3. /\ lease'[l].phase = "Bound"
        /\ lease'[l].binding = lease[l].binding
        /\ \A m \in Leases \ {l} : SameLease(m)
    BY <1>13, <2>1, LeaseBoundWrite DEF PublishBound
  <2>4. QuietTasks /\ UNCHANGED <<inst, minted, iworker>>
    BY <1>13, IdleQuiet DEF PublishBound, QuietTasks
  <2>5. BindingShape'
    BY <2>1, <2>3, <2>4, TypeFacts, BindingFacts DEF PairInv, BindingShape, SameLease
  <2>6. ReservationShape'
    BY <2>4 DEF PairInv, ReservationShape
  <2>7. TaskShape'
    BY <2>1, <2>3, <2>4, TypeFacts, BusyFacts
       DEF PairInv, TaskShape, SameLease, QuietTasks, QuietWorker, QuietInstWorker
  <2>8. PublishReady'
    BY <2>1, <2>3, <2>4, BusyFacts
       DEF PairInv, PublishReady, HoldsPair, SameLease, QuietTasks, QuietWorker
  <2>9. RecoveryJustified'
    BY <2>1, <2>3, <2>4, BusyFacts
       DEF PairInv, RecoveryJustified, SameLease, QuietTasks, QuietWorker,
           QuietInstWorker, Ended, Terminal
  <2>10. BoundReciprocal'
    BY <2>1, <2>2, <2>3, <2>4 DEF PairInv, BoundReciprocal, HoldsPair, SameLease
  <2> QED BY <2>5, <2>6, <2>7, <2>8, <2>9, <2>10 DEF PairInv
<1>14. ASSUME NEW w \in LeaseWorkers, Abandon(w) PROVE PairInv'
  BY <1>14, QuietStep, IdleQuiet DEF Abandon, QuietTasks, SameLease, SameInst
<1>15. ASSUME NEW w \in LeaseWorkers, NEW l \in Leases, ExpireQueued(w, l)
       PROVE  PairInv'
  BY <1>15, LeasePhaseWrite, EndStep, IdleQuiet
     DEF ExpireQueued, QuietTasks, SameInst, Ended, Terminal
<1>16. ASSUME NEW l \in Leases, ExpireBound(l) PROVE PairInv'
  BY <1>16, LeasePhaseWrite, EndStep, IdleQuiet
     DEF ExpireBound, QuietTasks, SameInst, Ended, Terminal
<1>17. ASSUME NEW w \in LeaseWorkers, NEW l \in Leases, RetireUnbound(w, l)
       PROVE  PairInv'
  BY <1>17, LeasePhaseWrite, EndStep, IdleQuiet
     DEF RetireUnbound, QuietTasks, SameInst, Ended, Terminal
<1>18. ASSUME NEW w \in LeaseWorkers, NEW l \in Leases, ReadHolding(w, l)
       PROVE  PairInv'
  <2> DEFINE b == lease[l].binding
  <2>1. /\ worker'[w].pc = "retire"
        /\ worker'[w].b = b
        /\ \A x \in LeaseWorkers \ {w} : worker'[x] = worker[x]
    BY <1>18, WorkerWrite DEF ReadHolding
  <2>2. b \in Bindings /\ b.lease = l /\ b.id <= minted
    BY <1>18, TypeFacts, BindingFacts
       DEF ReadHolding, PairInv, BindingShape, TaskShape
  <2>3. lease[l].phase \in Terminal /\ UNCHANGED <<lease, inst, minted, iworker>>
    BY <1>18 DEF ReadHolding
  <2> QED BY <2>1, <2>2, <2>3, LeaseTaskStep DEF Terminal
<1>19. ASSUME NEW w \in LeaseWorkers, DeleteRetired(w) PROVE PairInv'
  <2>1. worker[w].b.lease \in Leases
    BY <1>19, BusyFacts DEF DeleteRetired
  <2> QED BY <1>19, <2>1, LeasePhaseWrite, EndStep, IdleQuiet
          DEF DeleteRetired, QuietTasks, SameInst, Ended, Terminal
<1>20. ASSUME NEW w \in LeaseWorkers, NEW l \in Leases, ResolveTerminal(w, l)
       PROVE  PairInv'
  <2> DEFINE b == lease[l].binding
  <2>1. /\ worker'[w].pc = "recycle"
        /\ worker'[w].b = b
        /\ \A x \in LeaseWorkers \ {w} : worker'[x] = worker[x]
    BY <1>20, WorkerWrite DEF ResolveTerminal
  <2>2. b \in Bindings /\ b.lease = l /\ b.id <= minted
    BY <1>20, TypeFacts, BindingFacts
       DEF ResolveTerminal, PairInv, BindingShape, TaskShape
  <2>3. lease[l].phase \in Terminal /\ UNCHANGED <<lease, inst, minted, iworker>>
    BY <1>20 DEF ResolveTerminal
  <2> QED BY <2>1, <2>2, <2>3, LeaseTaskStep DEF Ended, Terminal
<1>21. ASSUME NEW w \in LeaseWorkers, MarkRecycling(w) PROVE PairInv'
  <2> DEFINE b == worker[w].b
             i == b.inst
  <2>1. b \in Bindings /\ b.lease \in Leases /\ i \in Insts
    BY <1>21, BusyFacts DEF MarkRecycling
  <2>2. lease[b.lease].phase \in Ended
    BY <1>21 DEF MarkRecycling, PairInv, RecoveryJustified
  <2>3. QuietTasks
    BY <1>21, WorkerPcWrite, IdleQuiet DEF MarkRecycling, QuietTasks, QuietWorker
  <2>4. /\ inst'[i].phase = "Recycling"
        /\ inst'[i].binding = inst[i].binding
        /\ inst'[i].ref = inst[i].ref
        /\ \A j \in Insts \ {i} : SameInst(j)
    BY <1>21, <2>1, InstPhaseWrite DEF MarkRecycling
  <2>5. inst[i].binding = b /\ UNCHANGED <<lease, minted>>
    BY <1>21 DEF MarkRecycling
  <2>6. \A l \in Leases : SameLease(l)
    BY <2>5 DEF SameLease
  <2>7. lease[b.lease].phase \notin {"Unborn", "Pending", "Bound"}
    BY <2>2 DEF Ended, Terminal
  <2> QED BY <2>1, <2>3, <2>4, <2>5, <2>6, <2>7, InstanceWriteStep
<1>22. ASSUME NEW w \in LeaseWorkers, AdvanceLease(w) PROVE PairInv'
  <2>1. worker[w].b.lease \in Leases
    BY <1>22, BusyFacts DEF AdvanceLease
  <2> QED BY <1>22, <2>1, LeasePhaseWrite, EndStep, IdleQuiet
          DEF AdvanceLease, QuietTasks, SameInst, Ended, Terminal
<1>23. ASSUME NEW w \in LeaseWorkers, NEW l \in Leases, RetireRecycled(w, l)
       PROVE  PairInv'
  BY <1>23, LeasePhaseWrite, EndStep, IdleQuiet
     DEF RetireRecycled, QuietTasks, SameInst, Ended
<1>c. ASSUME NEW i \in Insts, inst[i].binding = NoBinding,
             NEW p \in {"Creating", "Ready", "Failed", "Recycling"},
             inst'[i].phase = p, inst'[i].binding = NoBinding,
             inst'[i].ref = NoLease,
             \A j \in Insts \ {i} : SameInst(j),
             UNCHANGED <<lease, minted, worker, iworker>>
      PROVE  PairInv'
  <2>1. QuietTasks /\ \A l \in Leases : SameLease(l)
    BY <1>c, IdleQuiet DEF QuietTasks, SameLease
  <2> QED BY <1>c, <2>1, InstanceWriteStep
<1>24. ASSUME NEW i \in Insts, CreateInstance(i) PROVE PairInv'
  <2>1. inst[i].binding = NoBinding /\ inst[i].ref = NoLease
    BY <1>24 DEF CreateInstance, PairInv, ReservationShape
  <2> QED BY <1>24, <1>c, <2>1, InstPhaseWrite DEF CreateInstance
<1>25. ASSUME NEW i \in Insts, Provision(i) PROVE PairInv'
  BY <1>25, InstBackendWrite, QuietStep, IdleQuiet
     DEF Provision, QuietTasks, SameLease
<1>26. ASSUME NEW i \in Insts, MarkReady(i) PROVE PairInv'
  <2>1. inst[i].binding = NoBinding /\ inst[i].ref = NoLease
    BY <1>26 DEF MarkReady, PairInv, ReservationShape
  <2> QED BY <1>26, <1>c, <2>1, InstPhaseWrite DEF MarkReady
<1>27. ASSUME NEW i \in Insts, FailProvisioning(i) PROVE PairInv'
  <2>1. inst[i].binding = NoBinding /\ inst[i].ref = NoLease
    BY <1>27 DEF FailProvisioning, PairInv, ReservationShape
  <2> QED BY <1>27, <1>c, <2>1, InstPhaseWrite DEF FailProvisioning
<1>28. ASSUME NEW i \in Insts, HealthRecycle(i) PROVE PairInv'
  <2>1. inst[i].binding = NoBinding /\ inst[i].ref = NoLease
    BY <1>28 DEF HealthRecycle, PairInv, ReservationShape
  <2>2. /\ inst'[i].phase = "Recycling"
        /\ inst'[i].binding = inst[i].binding
        /\ inst'[i].ref = NoLease
        /\ \A j \in Insts \ {i} : SameInst(j)
    BY <1>28, InstPhaseRefWrite DEF HealthRecycle
  <2>3. UNCHANGED <<lease, minted, worker, iworker>>
    BY <1>28 DEF HealthRecycle
  <2> QED BY <1>c, <2>1, <2>2, <2>3
<1>29. ASSUME NEW i \in Insts, PoolRecycle(i) PROVE PairInv'
  BY <1>29, <1>c, InstPhaseWrite DEF PoolRecycle
<1>30. ASSUME NEW v \in InstWorkers, NEW i \in Insts, ObserveTerminal(v, i)
       PROVE  PairInv'
  <2> DEFINE b == inst[i].binding
  <2>1. /\ iworker'[v].pc = "recycle"
        /\ iworker'[v].i = i
        /\ iworker'[v].b = b
        /\ \A x \in InstWorkers \ {v} : iworker'[x] = iworker[x]
    BY <1>30, InstWorkerWrite DEF ObserveTerminal
  <2>2. /\ b # NoBinding
        /\ lease[b.lease].phase \in Ended
        /\ UNCHANGED <<lease, inst, minted, worker>>
    BY <1>30 DEF ObserveTerminal, Ended
  <2> QED BY <2>1, <2>2, InstTaskStep, InstAssumption
<1>31. ASSUME NEW v \in InstWorkers, NEW i \in Insts, ObserveOrphan(v, i)
       PROVE  PairInv'
  <2> DEFINE b == inst[i].binding
  <2>1. /\ iworker'[v].pc = "orphan"
        /\ iworker'[v].i = i
        /\ iworker'[v].b = b
        /\ \A x \in InstWorkers \ {v} : iworker'[x] = iworker[x]
    BY <1>31, InstWorkerWrite DEF ObserveOrphan
  <2>2. /\ b # NoBinding
        /\ LeaseNotFound(b.lease)
        /\ UNCHANGED <<lease, inst, minted, worker>>
    BY <1>31 DEF ObserveOrphan
  <2>3. b.lease \in Leases
    BY <2>2, TypeFacts, BindingFacts
  <2>4. lease[b.lease].phase = "Gone"
    BY <2>2, <2>3 DEF LeaseNotFound, LiveLease, PairInv, BindingShape
  <2> QED BY <2>1, <2>2, <2>4, InstTaskStep, InstAssumption
<1>32. ASSUME NEW v \in InstWorkers, ApplyRecovery(v) PROVE PairInv'
  <2> DEFINE i == iworker[v].i
             b == iworker[v].b
             kind == RecoveryKind(iworker[v].pc)
  <2>1. i \in Insts /\ b \in Bindings /\ b.lease \in Leases
    BY <1>32, BusyFacts DEF ApplyRecovery
  <2>2. inst[i].binding = b
    BY <1>32 DEF ApplyRecovery, exact_binding_recovery, model_binding_state
  <2>3. lease[b.lease].phase \in Ended
    BY <1>32 DEF ApplyRecovery, PairInv, RecoveryJustified, Ended
  <2>4. lease[b.lease].phase \notin {"Unborn", "Pending", "Bound"}
    BY <2>3 DEF Ended, Terminal
  <2>5. /\ inst'[i] = Recovered(inst[i], kind)
        /\ \A j \in Insts \ {i} : inst'[j] = inst[j]
    BY <1>32, <2>1 DEF ApplyRecovery, TypeOK
  <2>6. inst[i] \in InstObject
    BY <2>1 DEF TypeOK
  <2>7. \/ /\ inst'[i].phase = "Recycling"
           /\ inst'[i].binding = b
        \/ /\ inst'[i].phase = "Ready"
           /\ inst'[i].binding = NoBinding
           /\ inst'[i].ref = NoLease
    BY <2>2, <2>5, <2>6 DEF Recovered, InstObject
  <2>8. QuietTasks /\ UNCHANGED <<lease, minted>>
    BY <1>32, IdleQuiet DEF ApplyRecovery, QuietTasks
  <2>9. /\ \A l \in Leases : SameLease(l)
        /\ \A j \in Insts \ {i} : SameInst(j)
    BY <2>5, <2>8 DEF SameLease, SameInst
  <2>10. b.inst = i
    BY <2>1, <2>2, BindingAssumption DEF PairInv, BindingShape
  <2> QED BY <2>1, <2>2, <2>4, <2>7, <2>8, <2>9, <2>10, InstanceWriteStep
<1>33. ASSUME NEW v \in InstWorkers, NEW i \in Insts, VerifyTeardown(v, i)
       PROVE  PairInv'
  <2>1. PICK p \in {"destroy", "recheck"}, d \in BOOLEAN :
               iworker' = [iworker EXCEPT ![v] =
                             [pc |-> p, i |-> i, b |-> NoBinding, final |-> d]]
    <3>1. inst[i].deleting \in BOOLEAN
      BY DEF TypeOK, InstObject
    <3>2. CASE inst[i].deleting
      BY <1>33, <3>1, <3>2 DEF VerifyTeardown
    <3>3. CASE ~inst[i].deleting
      BY <1>33, <3>1, <3>3 DEF VerifyTeardown
    <3> QED BY <3>2, <3>3
  <2>2. UNCHANGED <<lease, inst, minted, worker>>
    BY <1>33 DEF VerifyTeardown
  <2>3. /\ iworker'[v].pc = p
        /\ iworker'[v].i = i
        /\ \A x \in InstWorkers \ {v} : iworker'[x] = iworker[x]
    BY <2>1 DEF TypeOK
  <2> QED BY <2>2, <2>3, InstTaskStep, InstAssumption
<1>34. ASSUME NEW v \in InstWorkers, RecheckUid(v) PROVE PairInv'
  <2>1. QuietTasks
    BY <1>34, InstWorkerPcWrite, IdleQuiet
       DEF RecheckUid, QuietTasks, QuietInstWorker
  <2> QED BY <1>34, <2>1, QuietStep DEF RecheckUid, SameLease, SameInst
<1>35. ASSUME NEW v \in InstWorkers, DeleteBackend(v) PROVE PairInv'
  <2>1. QuietTasks
    BY <1>35, InstWorkerPcWrite, IdleQuiet
       DEF DeleteBackend, QuietTasks, QuietInstWorker
  <2>2. \A j \in Insts : SameInst(j)
    BY <1>35 DEF DeleteBackend, TypeOK, InstObject, SameInst
  <2> QED BY <1>35, <2>1, <2>2, QuietStep DEF DeleteBackend, SameLease
<1>36. ASSUME NEW v \in InstWorkers, FinishTeardown(v) PROVE PairInv'
  <2> DEFINE i == iworker[v].i
  <2>1. i \in Insts
    BY <1>36, BusyFacts DEF FinishTeardown
  <2>2. QuietTasks /\ UNCHANGED <<lease, minted>>
    BY <1>36, IdleQuiet DEF FinishTeardown, QuietTasks
  <2>3. \A l \in Leases : SameLease(l)
    BY <2>2 DEF SameLease
  <2>4. CASE inst' = [inst EXCEPT ![i].deleting = TRUE]
    BY <2>1, <2>2, <2>3, <2>4, InstDeletingWrite, QuietStep
  <2>5. CASE inst' = [inst EXCEPT ![i].phase = "Gone"]
    <3>1. /\ inst'[i].phase = "Gone"
          /\ inst'[i].binding = inst[i].binding
          /\ inst'[i].ref = inst[i].ref
          /\ \A j \in Insts \ {i} : SameInst(j)
      BY <2>1, <2>5, InstPhaseWrite
    <3>2. inst[i].binding # NoBinding =>
             /\ inst[i].binding.inst = i
             /\ lease[inst[i].binding.lease].phase # "Unborn"
      BY <2>1 DEF PairInv, BindingShape
    <3> QED BY <2>1, <2>2, <2>3, <3>1, <3>2, InstanceWriteStep
  <2> QED BY <1>36, <2>4, <2>5 DEF FinishTeardown
<1>37. ASSUME NEW v \in InstWorkers, AbandonInst(v) PROVE PairInv'
  BY <1>37, QuietStep, IdleQuiet DEF AbandonInst, QuietTasks, SameLease, SameInst
<1>38. CASE UNCHANGED vars
  BY <1>38, QuietStep, IdleQuiet DEF vars, QuietTasks, SameLease, SameInst
<1> QED
  BY <1>1, <1>2, <1>3, <1>4, <1>5, <1>6, <1>7, <1>8, <1>9, <1>10, <1>11, <1>12,
     <1>13, <1>14, <1>15, <1>16, <1>17, <1>18, <1>19, <1>20, <1>21, <1>22,
     <1>23, <1>24, <1>25, <1>26, <1>27, <1>28, <1>29, <1>30, <1>31, <1>32,
     <1>33, <1>34, <1>35, <1>36, <1>37, <1>38
     DEF Next, Client, LeaseController, InstanceController
-----------------------------------------------------------------------------
\* Initially there are no objects and no tasks: the invariant holds.
LEMMA PairInit ==
    ASSUME Init
    PROVE  PairInv
<1>1. TypeOK
  BY DEF Init, TypeOK, LeaseObject, InstObject, LeasePhases, InstPhases,
         MaybeBinding, IdleWorker, IdleInstWorker, WorkerPCs, InstPCs
<1>2. BindingShape /\ ReservationShape /\ TaskShape
  BY DEF Init, BindingShape, ReservationShape, TaskShape, IdleWorker, IdleInstWorker
<1>3. PublishReady /\ RecoveryJustified /\ BoundReciprocal
  BY DEF Init, PublishReady, RecoveryJustified, BoundReciprocal, IdleWorker,
         IdleInstWorker
<1> QED BY <1>1, <1>2, <1>3 DEF PairInv

\* What each pass in flight relies on when it writes one object on the
\* strength of an earlier read of the other is true at every moment.
THEOREM PairInvariant == Spec => []PairInv
<1>1. Init => PairInv
  BY PairInit
<1>2. PairInv /\ [Next]_vars => PairInv'
  BY PairStep
<1> QED BY <1>1, <1>2, PTL DEF Spec

\* Every object and task keeps its type: in particular no task goes on
\* without the binding or the instance it is about.
THEOREM TypeCorrect == Spec => []TypeOK
<1>1. PairInv => TypeOK
  BY DEF PairInv
<1> QED BY <1>1, PairInvariant, PTL

\* While a lease is Bound, its instance carries the same binding and leaseRef
\* and is Leased, or its object was deleted by hand: no write of either
\* controller takes a published cluster away from its lease.
THEOREM Reciprocal == Spec => []BoundReciprocal
<1>1. PairInv => BoundReciprocal
  BY DEF PairInv
<1> QED BY <1>1, PairInvariant, PTL

\* Two Bound leases never share an instance, however many replicas of the
\* lease controller run at once.
THEOREM Exclusive == Spec => []ExclusiveBinding
<1>1. BoundReciprocal => ExclusiveBinding
  BY DEF BoundReciprocal, ExclusiveBinding, HoldsPair
<1> QED BY <1>1, Reciprocal, PTL
-----------------------------------------------------------------------------
\* Teardown of one instance across a step.
NotReopened(i) ==
    /\ inst[i].phase = "Recycling" => inst'[i].phase \in {"Recycling", "Gone"}
    /\ inst[i].deleting => inst'[i].deleting

\* A write that moves the phase of one instance, and that one is not in
\* Recycling or goes nowhere else, reopens nothing.
LEMMA PhaseWriteKeepsTeardown ==
    ASSUME TypeOK, NEW i \in Insts, NEW o \in InstObject,
           inst' = [inst EXCEPT ![i] = o],
           o.deleting = inst[i].deleting,
           inst[i].phase = "Recycling" => o.phase \in {"Recycling", "Gone"}
    PROVE  \A j \in Insts : NotReopened(j)
  BY DEF TypeOK, NotReopened

\* No step reopens a teardown: reservations need a Ready instance that is not
\* being deleted, recoveries a Leased one, and deletion is never undone.
LEMMA TeardownStep ==
    ASSUME PairInv, [Next]_vars
    PROVE  \A i \in Insts : NotReopened(i)
<1>t. TypeOK
  BY DEF PairInv
<1>f. \A i \in Insts : inst[i] \in InstObject
  BY <1>t DEF TypeOK
<1> DEFINE Goal == \A i \in Insts : NotReopened(i)
<1> USE <1>t, <1>f
<1>u. ASSUME UNCHANGED inst PROVE Goal
  BY <1>u DEF NotReopened
<1>1. ASSUME NEW i \in Insts, DeleteInstanceObject(i) PROVE Goal
  BY <1>1 DEF DeleteInstanceObject, TypeOK, InstObject, NotReopened
<1>2. ASSUME NEW w \in LeaseWorkers, Adopt(w) PROVE Goal
  <2> DEFINE b == worker[w].b
             o == [inst[b.inst] EXCEPT !.phase = "Leased", !.binding = b,
                                       !.ref = b.lease]
  <2>1. b \in Bindings /\ b.inst \in Insts /\ b.lease \in Leases
    BY <1>2, BusyFacts DEF Adopt
  <2>2. o \in InstObject /\ o.deleting = inst[b.inst].deleting
    BY <2>1 DEF InstObject, InstPhases, MaybeBinding
  <2>3. CASE FreeCapacity(b.inst) /\ inst' = [inst EXCEPT ![b.inst] = o]
    <3>1. inst[b.inst].phase # "Recycling"
      BY <2>3 DEF FreeCapacity
    <3> HIDE DEF o
    <3> QED BY <2>1, <2>2, <2>3, <3>1, PhaseWriteKeepsTeardown
  <2> QED BY <1>2, <1>u, <2>3 DEF Adopt
<1>3. ASSUME NEW w \in LeaseWorkers, MarkRecycling(w) PROVE Goal
  <2> DEFINE i == worker[w].b.inst
             o == [inst[i] EXCEPT !.phase = "Recycling"]
  <2>1. i \in Insts
    BY <1>3, BusyFacts DEF MarkRecycling
  <2>2. o \in InstObject /\ o.deleting = inst[i].deleting /\ o.phase = "Recycling"
    BY <2>1 DEF InstObject, InstPhases
  <2>3. inst' = [inst EXCEPT ![i] = o]
    BY <1>3 DEF MarkRecycling
  <2> HIDE DEF o
  <2> QED BY <2>1, <2>2, <2>3, PhaseWriteKeepsTeardown
<1>c. ASSUME NEW i \in Insts, inst[i].phase # "Recycling", NEW p \in InstPhases,
             inst' = [inst EXCEPT ![i].phase = p]
      PROVE  Goal
  <2> DEFINE o == [inst[i] EXCEPT !.phase = p]
  <2>1. o \in InstObject /\ o.deleting = inst[i].deleting
    BY DEF InstObject
  <2>2. inst' = [inst EXCEPT ![i] = o]
    BY <1>c
  <2> HIDE DEF o
  <2> QED BY <1>c, <2>1, <2>2, PhaseWriteKeepsTeardown
<1>4. ASSUME NEW i \in Insts, CreateInstance(i) PROVE Goal
  BY <1>4, <1>c DEF CreateInstance, InstPhases
<1>5. ASSUME NEW i \in Insts, Provision(i) PROVE Goal
  BY <1>5 DEF Provision, TypeOK, InstObject, NotReopened
<1>6. ASSUME NEW i \in Insts, MarkReady(i) PROVE Goal
  BY <1>6, <1>c DEF MarkReady, InstPhases
<1>7. ASSUME NEW i \in Insts, FailProvisioning(i) PROVE Goal
  BY <1>7, <1>c DEF FailProvisioning, InstPhases
<1>8. ASSUME NEW i \in Insts, HealthRecycle(i) PROVE Goal
  <2> DEFINE o == [inst[i] EXCEPT !.phase = "Recycling", !.ref = NoLease]
  <2>1. /\ o \in InstObject
        /\ o.deleting = inst[i].deleting
        /\ o.phase = "Recycling"
    BY DEF InstObject, InstPhases
  <2>2. inst' = [inst EXCEPT ![i] = o]
    BY <1>8 DEF HealthRecycle
  <2> HIDE DEF o
  <2> QED BY <2>1, <2>2, PhaseWriteKeepsTeardown
<1>9. ASSUME NEW i \in Insts, PoolRecycle(i) PROVE Goal
  BY <1>9, <1>c DEF PoolRecycle, InstPhases
<1>10. ASSUME NEW v \in InstWorkers, ApplyRecovery(v) PROVE Goal
  <2> DEFINE i == iworker[v].i
             o == Recovered(inst[i], RecoveryKind(iworker[v].pc))
  <2>1. i \in Insts
    BY <1>10, BusyFacts DEF ApplyRecovery
  <2>2. o \in InstObject /\ o.deleting = inst[i].deleting
    BY <2>1 DEF Recovered, InstObject, InstPhases, MaybeBinding
  <2>3. inst[i].phase = "Leased"
    BY <1>10 DEF ApplyRecovery, exact_binding_recovery
  <2>4. inst' = [inst EXCEPT ![i] = o]
    BY <1>10 DEF ApplyRecovery
  <2> HIDE DEF o
  <2> QED BY <2>1, <2>2, <2>3, <2>4, PhaseWriteKeepsTeardown
<1>11. ASSUME NEW v \in InstWorkers, DeleteBackend(v) PROVE Goal
  BY <1>11 DEF DeleteBackend, TypeOK, InstObject, NotReopened
<1>12. ASSUME NEW v \in InstWorkers, FinishTeardown(v) PROVE Goal
  <2> DEFINE i == iworker[v].i
  <2>1. i \in Insts
    BY <1>12, BusyFacts DEF FinishTeardown
  <2>2. CASE inst' = [inst EXCEPT ![i].deleting = TRUE]
    BY <2>1, <2>2 DEF TypeOK, InstObject, NotReopened
  <2>3. CASE inst' = [inst EXCEPT ![i].phase = "Gone"]
    BY <2>1, <2>3 DEF TypeOK, InstObject, NotReopened
  <2> QED BY <1>12, <2>2, <2>3 DEF FinishTeardown
<1>13. CASE Next
  <2>1. CASE Client
    BY <2>1, <1>u, <1>1
       DEF Client, CreateLease, ReleaseLease, TtlElapses, ExtendLeaseTtl,
           DeleteLeaseObject
  <2>2. CASE LeaseController
    BY <2>2, <1>u, <1>2, <1>3
       DEF LeaseController, ReserveLost, ClearIntent, ReadPair, PublishBound,
           Abandon, DeleteRetired, AdvanceLease, ReserveIntent, FenceIntent,
           ExpireQueued, RetireUnbound, ReadHolding, ResolveTerminal,
           RetireRecycled, ExpireBound
  <2>3. CASE InstanceController
    BY <2>3, <1>u, <1>4, <1>5, <1>6, <1>7, <1>8, <1>9, <1>10, <1>11, <1>12
       DEF InstanceController, RecheckUid, AbandonInst, ObserveTerminal,
           ObserveOrphan, VerifyTeardown
  <2> QED BY <1>13, <2>1, <2>2, <2>3 DEF Next
<1>14. CASE UNCHANGED vars
  BY <1>14, <1>u DEF vars
<1> QED BY <1>13, <1>14

\* A reservation, recovery or health write never rolls a teardown back.
THEOREM TeardownFinal == Spec => TeardownNeverReopened
<1>1. PairInv /\ [Next]_vars =>
        [\A i \in Insts :
           /\ inst[i].phase = "Recycling" => inst'[i].phase \in {"Recycling", "Gone"}
           /\ inst[i].deleting => inst'[i].deleting]_vars
  BY TeardownStep DEF NotReopened
<1> QED BY <1>1, PairInvariant, PTL DEF Spec, TeardownNeverReopened
-----------------------------------------------------------------------------
(* One process, and objects that only the operator deletes: each property  *)
(* of a managed deployment under the premise it needs, and no other.       *)

\* One operator process runs every task.
OneProcess == \A x, y \in Workers : Replica[x] = Replica[y]

\* A lease got its name with its Bound write; retire_orphaned_standard_intent deletes
\* one that never did.
NamedOnce ==
    /\ \A l \in Leases : lease[l].named => lease[l].phase \notin {"Unborn", "Pending"}
    /\ \A w \in LeaseWorkers : worker[w].pc = "retire" =>
          /\ lease[worker[w].b.lease].phase \in Ended
          /\ ~lease[worker[w].b.lease].named

\* A cluster that served a lease is in that lease's hands, or on its way out.
ServedHeld ==
    ~DirectLeaseDelete =>
        \A i \in Insts : \A l \in served[i] :
            /\ inst[i].phase \in {"Leased", "Recycling", "Gone"}
            /\ inst[i].phase = "Leased" =>
                 /\ lease[l].named /\ lease[l].phase \notin {"Unborn", "Pending", "Gone"}
                 /\ lease[l].binding = inst[i].binding

\* Names are not shared by instances that exist.
NamesApart ==
    \A i, j \in Insts : LiveInst(i) /\ LiveInst(j) /\ InstName[i] = InstName[j] => i = j

\* In one process every name has one task at a time.
TasksApart ==
    OneProcess =>
        /\ \A v, x \in InstWorkers : iworker[v].pc # "idle" /\ iworker[x].pc # "idle"
             /\ InstName[iworker[v].i] = InstName[iworker[x].i] => v = x
        /\ \A w, x \in LeaseWorkers : worker[w].pc # "idle" /\ worker[x].pc # "idle"
             /\ LeaseName[worker[w].b.lease] = LeaseName[worker[x].b.lease] => w = x

\* So the instance of a teardown exists until its own task ends it, and what does not
\* exist has no backend.
TeardownOwned ==
    OneProcess =>
        /\ \A v \in InstWorkers : iworker[v].pc \in {"recheck", "destroy", "finish"} =>
              LET o == inst[iworker[v].i] IN
              /\ o.phase \notin {"Unborn", "Gone"} /\ (o.deleting \/ o.phase = "Recycling")
              /\ iworker[v].pc = "finish" => ~o.backend
        /\ \A i \in Insts : inst[i].phase \in {"Unborn", "Gone"} => ~inst[i].backend

\* An instance nobody deletes by hand is deleted only out of Recycling, and is up
\* while it can be offered or is held ...
UpUntilRecycling ==
    OneProcess /\ ~DirectInstanceDelete =>
        \A i \in Insts :
            /\ inst[i].deleting => inst[i].phase \in {"Recycling", "Gone"}
            /\ inst[i].phase \in {"Ready", "Leased"} => inst[i].backend

\* ... as it is while its lease is Bound or about to be.
BoundIsLeased ==
    OneProcess /\ ~DirectInstanceDelete =>
        /\ \A l \in Leases :
             lease[l].phase = "Bound" => inst[lease[l].binding.inst].phase = "Leased"
        /\ \A w \in LeaseWorkers :
             /\ worker[w].pc = "publish" /\ lease[worker[w].b.lease].phase = "Pending"
             /\ lease[worker[w].b.lease].binding = worker[w].b
             => inst[worker[w].b.inst].phase = "Leased"

\* A task that reserves still has its intent on the lease; one that clears it found
\* the instance without the binding, and nobody else can put it there.
IntentOwned ==
    OneProcess =>
        \A w \in LeaseWorkers :
            LET b == worker[w].b IN
            /\ worker[w].pc = "reserve" /\ lease[b.lease].phase = "Pending"
                 => lease[b.lease].binding = b
            /\ worker[w].pc = "clear"
                 => ~(inst[b.inst].phase = "Leased" /\ inst[b.inst].binding = b)

IntentKept == OneProcess => AdoptedIntentKept

ManagedInv ==
    /\ NamedOnce /\ ServedHeld /\ NamesApart /\ TasksApart
    /\ TeardownOwned /\ UpUntilRecycling /\ BoundIsLeased /\ IntentOwned /\ IntentKept
-----------------------------------------------------------------------------
(* What the larger steps write.                                            *)

\* What reserve_binding_instance_after_lease_fence may write.
LEMMA Adopted ==
    ASSUME PairInv, NEW w \in LeaseWorkers, Adopt(w)
    PROVE  LET b == worker[w].b IN
           /\ b \in Bindings /\ b.inst \in Insts /\ b.lease \in Leases
           /\ worker[w].pc = "reserve"
           /\ worker'[w].pc = "finalize" /\ worker'[w].b = b
           /\ \A x \in LeaseWorkers \ {w} : worker'[x] = worker[x]
           /\ \A j \in Insts \ {b.inst} : inst'[j] = inst[j]
           /\ ~inst[b.inst].deleting
           /\ inst'[b.inst].deleting = inst[b.inst].deleting
           /\ inst'[b.inst].backend = inst[b.inst].backend
           /\ inst'[b.inst].phase = "Leased" /\ inst'[b.inst].binding = b
           /\ inst[b.inst].phase \in {"Ready", "Leased"}
           /\ inst[b.inst].phase = "Leased" => inst[b.inst].binding = b
           /\ UNCHANGED <<lease, iworker, served>>
<1> DEFINE b == worker[w].b
<1>1. b \in Bindings /\ b.inst \in Insts /\ b.lease \in Leases
  BY BusyFacts DEF Adopt
<1>2. /\ worker[w].pc = "reserve" /\ UNCHANGED <<lease, iworker, served>>
      /\ ~inst[b.inst].deleting
  BY DEF Adopt
<1>3. /\ worker'[w].pc = "finalize" /\ worker'[w].b = b
      /\ \A x \in LeaseWorkers \ {w} : worker'[x] = worker[x]
  BY WorkerPcWrite DEF Adopt, PairInv
<1>4. CASE AlreadyReserved(b) /\ UNCHANGED inst
  BY <1>1, <1>2, <1>3, <1>4 DEF AlreadyReserved
<1>5. CASE /\ FreeCapacity(b.inst)
           /\ inst' = [inst EXCEPT ![b.inst].phase = "Leased", ![b.inst].binding = b,
                                   ![b.inst].ref = b.lease]
  <2>1. inst \in [Insts -> InstObject] /\ inst[b.inst].phase = "Ready"
    BY <1>5 DEF PairInv, TypeOK, FreeCapacity
  <2>2. /\ \A j \in Insts \ {b.inst} : inst'[j] = inst[j]
        /\ inst'[b.inst].deleting = inst[b.inst].deleting
        /\ inst'[b.inst].backend = inst[b.inst].backend
        /\ inst'[b.inst].phase = "Leased" /\ inst'[b.inst].binding = b
    BY <1>1, <1>5, <2>1 DEF InstObject
  <2> QED
    BY <1>1, <1>2, <1>3, <2>1, <2>2
<1> QED
  BY <1>4, <1>5 DEF Adopt

\* What finalize_binding writes.
LEMMA Published ==
    ASSUME PairInv, NEW w \in LeaseWorkers, PublishBound(w)
    PROVE  LET b == worker[w].b IN
           /\ b \in Bindings /\ b.inst \in Insts /\ b.lease \in Leases
           /\ worker[w].pc = "publish" /\ worker'[w].pc = "idle"
           /\ \A x \in LeaseWorkers \ {w} : worker'[x] = worker[x]
           /\ lease[b.lease].phase = "Pending" /\ lease[b.lease].binding = b
           /\ HoldsPair(b)
           /\ \A m \in Leases \ {b.lease} : lease'[m] = lease[m]
           /\ lease'[b.lease].phase = "Bound" /\ lease'[b.lease].named
           /\ lease'[b.lease].binding = b
           /\ \A j \in Insts \ {b.inst} : served'[j] = served[j]
           /\ served'[b.inst] = served[b.inst] \union {b.lease}
           /\ UNCHANGED <<inst, iworker>>
<1> DEFINE b == worker[w].b
<1>1. b \in Bindings /\ b.inst \in Insts /\ b.lease \in Leases
  BY BusyFacts DEF PublishBound
<1>2. /\ worker[w].pc = "publish" /\ UNCHANGED <<inst, iworker>>
      /\ lease[b.lease].phase = "Pending" /\ lease[b.lease].binding = b
  BY DEF PublishBound
<1>3. HoldsPair(b)
  BY <1>2 DEF PairInv, PublishReady
<1>4. worker'[w].pc = "idle" /\ \A x \in LeaseWorkers \ {w} : worker'[x] = worker[x]
  BY WorkerWrite DEF PublishBound, PairInv, IdleWorker
<1>5. lease \in [Leases -> LeaseObject] /\ served \in [Insts -> SUBSET Leases]
  BY DEF PairInv, TypeOK
<1>6. /\ \A m \in Leases \ {b.lease} : lease'[m] = lease[m]
      /\ lease'[b.lease].phase = "Bound" /\ lease'[b.lease].named
      /\ lease'[b.lease].binding = b
  BY <1>1, <1>2, <1>5 DEF PublishBound, LeaseObject
<1>7. /\ \A j \in Insts \ {b.inst} : served'[j] = served[j]
      /\ served'[b.inst] = served[b.inst] \union {b.lease}
  BY <1>1, <1>5 DEF PublishBound
<1> QED
  BY <1>1, <1>2, <1>3, <1>4, <1>6, <1>7

\* What a recovery of a Leased instance writes.
LEMMA RecoveryWrites ==
    ASSUME PairInv, NEW v \in InstWorkers, ApplyRecovery(v)
    PROVE  LET i == iworker[v].i
               b == iworker[v].b IN
           /\ i \in Insts /\ b \in Bindings /\ b.lease \in Leases
           /\ inst[i].phase = "Leased" /\ inst[i].binding = b
           /\ \A j \in Insts \ {i} : inst'[j] = inst[j]
           /\ inst'[i].deleting = inst[i].deleting /\ inst'[i].backend = inst[i].backend
           /\ \/ inst'[i].phase = "Recycling" /\ lease[b.lease].phase \in Ended
              \/ inst'[i].phase = "Ready" /\ lease[b.lease].phase = "Gone"
           /\ iworker'[v].pc = "idle"
           /\ \A x \in InstWorkers \ {v} : iworker'[x] = iworker[x]
           /\ UNCHANGED <<lease, worker, served>>
<1> DEFINE i == iworker[v].i
           b == iworker[v].b
<1>1. iworker[v].pc \in {"recycle", "orphan"} /\ i \in Insts /\ b \in Bindings /\ b.lease \in Leases
  BY BusyFacts DEF ApplyRecovery
<1>2. inst[i].phase = "Leased" /\ inst[i].binding = b
  BY <1>1 DEF ApplyRecovery, exact_binding_recovery, model_binding_state
<1>3. inst \in [Insts -> InstObject]
  BY DEF PairInv, TypeOK
<1>4. CASE iworker[v].pc = "recycle"
  <2>1. inst' = [inst EXCEPT ![i] = [@ EXCEPT !.phase = "Recycling"]]
    BY <1>4 DEF ApplyRecovery, RecoveryKind, Recovered
  <2>2. lease[b.lease].phase \in Ended
    BY <1>4 DEF PairInv, RecoveryJustified
  <2>3. \A j \in Insts \ {i} : inst'[j] = inst[j]
    BY <2>1, <1>3
  <2>4. inst'[i].deleting = inst[i].deleting /\ inst'[i].backend = inst[i].backend
        /\ inst'[i].phase = "Recycling"
    BY <2>1, <1>1, <1>3 DEF InstObject
  <2>5. iworker'[v].pc = "idle" /\ \A x \in InstWorkers \ {v} : iworker'[x] = iworker[x]
    BY InstWorkerWrite DEF ApplyRecovery, PairInv, IdleInstWorker
  <2> QED
    BY <1>1, <1>2, <2>2, <2>3, <2>4, <2>5 DEF ApplyRecovery
<1>5. CASE iworker[v].pc = "orphan"
  <2>1. inst' = [inst EXCEPT ![i] =
                   [@ EXCEPT !.phase = "Ready", !.binding = NoBinding, !.ref = NoLease]]
    BY <1>5 DEF ApplyRecovery, RecoveryKind, Recovered
  <2>2. lease[b.lease].phase = "Gone"
    BY <1>5 DEF PairInv, RecoveryJustified
  <2>3. \A j \in Insts \ {i} : inst'[j] = inst[j]
    BY <2>1, <1>3
  <2>4. inst'[i].deleting = inst[i].deleting /\ inst'[i].backend = inst[i].backend
        /\ inst'[i].phase = "Ready"
    BY <2>1, <1>1, <1>3 DEF InstObject
  <2>5. iworker'[v].pc = "idle" /\ \A x \in InstWorkers \ {v} : iworker'[x] = iworker[x]
    BY InstWorkerWrite DEF ApplyRecovery, PairInv, IdleInstWorker
  <2> QED
    BY <1>1, <1>2, <2>2, <2>3, <2>4, <2>5 DEF ApplyRecovery
<1> QED
  BY <1>1, <1>4, <1>5

-----------------------------------------------------------------------------
(* Clients.                                                                *)

\* A new lease is named by nothing yet.
LEMMA CreateLeaseStep == ASSUME ManagedInv, PairInv, NEW l \in Leases, CreateLease(l)
                         PROVE  ManagedInv'
<1> USE DEF ManagedInv, CreateLease, LiveLease
<1>1. NamedOnce'
  BY BusyFacts, BindingFacts, TypeFacts DEF NamedOnce, Ended, Terminal, TaskShape, BindingShape,
     PairInv, TypeOK, LeaseObject, InstObject
<1>2. ServedHeld'
  BY BusyFacts, BindingFacts, TypeFacts DEF ServedHeld
<1>3. BoundIsLeased'
  BY BusyFacts, BindingFacts, TypeFacts DEF BoundIsLeased, UpUntilRecycling, TeardownOwned,
     PublishReady, HoldsPair, BoundReciprocal, RecoveryJustified, Ended, Terminal, TaskShape,
     BindingShape, PairInv, TypeOK, LeaseObject, InstObject
<1>4. IntentOwned'
  BY BusyFacts, BindingFacts, TypeFacts DEF IntentOwned, TasksApart, TaskShape, BindingShape,
     FreeCapacity, LiveInst, PairInv, TypeOK, LeaseObject, InstObject
<1>5. IntentKept'
  BY BusyFacts, BindingFacts, TypeFacts DEF IntentKept, AdoptedIntentKept, IntentOwned,
     BindingShape, ReservationShape, TaskShape, FreeCapacity, PairInv, TypeOK, LeaseObject,
     InstObject
<1>6. NamesApart' /\ TasksApart' /\ TeardownOwned' /\ UpUntilRecycling'
  BY DEF NamesApart, LiveInst, TasksApart, TeardownOwned, UpUntilRecycling
<1> QED
  BY <1>1, <1>2, <1>3, <1>4, <1>5, <1>6

LEMMA ReleaseLeaseStep == ASSUME ManagedInv, PairInv, NEW l \in Leases, ReleaseLease(l)
                          PROVE  ManagedInv'
<1> USE DEF ManagedInv, ReleaseLease
<1>1. NamedOnce'
  BY BusyFacts, BindingFacts, TypeFacts DEF NamedOnce, Ended, Terminal, TaskShape, BindingShape,
     PairInv, TypeOK, LeaseObject, InstObject
<1>2. ServedHeld'
  BY BusyFacts, BindingFacts, TypeFacts DEF ServedHeld
<1>3. BoundIsLeased'
  BY BusyFacts, BindingFacts, TypeFacts DEF BoundIsLeased
<1>4. IntentOwned'
  BY BusyFacts, BindingFacts, TypeFacts DEF IntentOwned
<1>5. IntentKept'
  BY BusyFacts, BindingFacts, TypeFacts DEF IntentKept, AdoptedIntentKept
<1>6. NamesApart' /\ TasksApart' /\ TeardownOwned' /\ UpUntilRecycling'
  BY DEF NamesApart, LiveInst, TasksApart, TeardownOwned, UpUntilRecycling
<1> QED
  BY <1>1, <1>2, <1>3, <1>4, <1>5, <1>6

LEMMA TtlElapsesStep == ASSUME ManagedInv, PairInv, NEW l \in Leases, TtlElapses(l)
                        PROVE  ManagedInv'
<1> USE DEF ManagedInv, TtlElapses
<1>1. NamedOnce'
  BY BusyFacts, BindingFacts, TypeFacts DEF NamedOnce
<1>2. ServedHeld'
  BY BusyFacts, BindingFacts, TypeFacts DEF ServedHeld
<1>3. BoundIsLeased'
  BY BusyFacts, BindingFacts, TypeFacts DEF BoundIsLeased
<1>4. IntentOwned'
  BY BusyFacts, BindingFacts, TypeFacts DEF IntentOwned
<1>5. IntentKept'
  BY BusyFacts, BindingFacts, TypeFacts DEF IntentKept, AdoptedIntentKept
<1>6. NamesApart' /\ TasksApart' /\ TeardownOwned' /\ UpUntilRecycling'
  BY DEF NamesApart, LiveInst, TasksApart, TeardownOwned, UpUntilRecycling
<1> QED
  BY <1>1, <1>2, <1>3, <1>4, <1>5, <1>6

LEMMA ExtendLeaseTtlStep == ASSUME ManagedInv, PairInv, NEW l \in Leases, ExtendLeaseTtl(l)
                            PROVE  ManagedInv'
<1> USE DEF ManagedInv, ExtendLeaseTtl
<1>1. NamedOnce'
  BY BusyFacts, BindingFacts, TypeFacts DEF NamedOnce, Ended, Terminal, TaskShape, BindingShape,
     PairInv, TypeOK, LeaseObject, InstObject
<1>2. ServedHeld'
  BY BusyFacts, BindingFacts, TypeFacts DEF ServedHeld, NamedOnce, BindingShape,
     ReservationShape, RecoveryJustified, PublishReady, HoldsPair, FreeCapacity, InstNotFound,
     LiveInst, Ended, Terminal, PairInv, TypeOK, LeaseObject, InstObject
<1>3. BoundIsLeased'
  BY BusyFacts, BindingFacts, TypeFacts DEF BoundIsLeased, UpUntilRecycling, TeardownOwned,
     PublishReady, HoldsPair, BoundReciprocal, RecoveryJustified, Ended, Terminal, TaskShape,
     BindingShape, PairInv, TypeOK, LeaseObject, InstObject
<1>4. IntentOwned'
  BY BusyFacts, BindingFacts, TypeFacts DEF IntentOwned, TasksApart, TaskShape, BindingShape,
     FreeCapacity, LiveInst, PairInv, TypeOK, LeaseObject, InstObject
<1>5. IntentKept'
  BY BusyFacts, BindingFacts, TypeFacts DEF IntentKept, AdoptedIntentKept, IntentOwned,
     BindingShape, ReservationShape, TaskShape, FreeCapacity, PairInv, TypeOK, LeaseObject,
     InstObject
<1>6. NamesApart' /\ TasksApart' /\ TeardownOwned' /\ UpUntilRecycling'
  BY DEF NamesApart, LiveInst, TasksApart, TeardownOwned, UpUntilRecycling
<1> QED
  BY <1>1, <1>2, <1>3, <1>4, <1>5, <1>6

\* Only a client deletes a lease that was named and still holds its cluster.
LEMMA DeleteLeaseObjectStep ==
  ASSUME ManagedInv, PairInv, NEW l \in Leases, DeleteLeaseObject(l)
  PROVE  ManagedInv'
<1> USE DEF ManagedInv, DeleteLeaseObject, LiveLease
<1>1. NamedOnce'
  BY BusyFacts, BindingFacts, TypeFacts DEF NamedOnce, Ended, Terminal, TaskShape, BindingShape,
     PairInv, TypeOK, LeaseObject, InstObject
<1>2. ServedHeld'
  BY BusyFacts, BindingFacts, TypeFacts DEF ServedHeld
<1>3. BoundIsLeased'
  BY BusyFacts, BindingFacts, TypeFacts DEF BoundIsLeased
<1>4. IntentOwned'
  BY BusyFacts, BindingFacts, TypeFacts DEF IntentOwned
<1>5. IntentKept'
  BY BusyFacts, BindingFacts, TypeFacts DEF IntentKept, AdoptedIntentKept
<1>6. NamesApart' /\ TasksApart' /\ TeardownOwned' /\ UpUntilRecycling'
  BY DEF NamesApart, LiveInst, TasksApart, TeardownOwned, UpUntilRecycling
<1> QED
  BY <1>1, <1>2, <1>3, <1>4, <1>5, <1>6

LEMMA DeleteInstanceObjectStep ==
  ASSUME ManagedInv, PairInv, NEW i \in Insts, DeleteInstanceObject(i)
  PROVE  ManagedInv'
<1> USE DEF ManagedInv, DeleteInstanceObject, LiveInst
<1>1. ServedHeld'
  BY BusyFacts, BindingFacts, TypeFacts DEF ServedHeld
<1>2. NamesApart'
  BY BusyFacts, BindingFacts, TypeFacts DEF NamesApart
<1>3. TeardownOwned'
  BY BusyFacts, BindingFacts, TypeFacts DEF TeardownOwned
<1>4. UpUntilRecycling'
  BY BusyFacts, BindingFacts, TypeFacts DEF UpUntilRecycling
<1>5. BoundIsLeased'
  BY BusyFacts, BindingFacts, TypeFacts DEF BoundIsLeased
<1>6. IntentOwned'
  BY BusyFacts, BindingFacts, TypeFacts DEF IntentOwned
<1>7. IntentKept'
  BY BusyFacts, BindingFacts, TypeFacts DEF IntentKept, AdoptedIntentKept
<1>8. NamedOnce' /\ TasksApart'
  BY DEF NamedOnce, TasksApart
<1> QED
  BY <1>1, <1>2, <1>3, <1>4, <1>5, <1>6, <1>7, <1>8

-----------------------------------------------------------------------------
(* The lease controller.                                                   *)

\* An intent is put only on a lease nothing is adopted for.
LEMMA ReserveIntentStep ==
  ASSUME ManagedInv, PairInv, NEW w \in LeaseWorkers, NEW l \in Leases, NEW i \in Insts,
         ReserveIntent(w, l, i)
  PROVE  ManagedInv'
<1> USE DEF ManagedInv, ReserveIntent
<1>1. NamedOnce'
  BY BusyFacts, BindingFacts, TypeFacts DEF NamedOnce
<1>2. ServedHeld'
  BY BusyFacts, BindingFacts, TypeFacts DEF ServedHeld
<1>3. BoundIsLeased'
  BY BusyFacts, BindingFacts, TypeFacts DEF BoundIsLeased, UpUntilRecycling, TeardownOwned,
     PublishReady, HoldsPair, BoundReciprocal, RecoveryJustified, Ended, Terminal, TaskShape,
     BindingShape, PairInv, TypeOK, LeaseObject, InstObject
<1>4. IntentOwned'
  BY BusyFacts, BindingFacts, TypeFacts DEF IntentOwned, TasksApart, TaskShape, BindingShape,
     FreeCapacity, LiveInst, PairInv, TypeOK, LeaseObject, InstObject
<1>5. IntentKept'
  BY BusyFacts, BindingFacts, TypeFacts DEF IntentKept, AdoptedIntentKept, IntentOwned,
     BindingShape, ReservationShape, TaskShape, FreeCapacity, PairInv, TypeOK, LeaseObject,
     InstObject
<1>6. NamesApart' /\ TasksApart' /\ TeardownOwned' /\ UpUntilRecycling'
  BY DEF NamesApart, LiveInst, TasksApart, TeardownOwned, UpUntilRecycling
<1> QED
  BY <1>1, <1>2, <1>3, <1>4, <1>5, <1>6

\* A pass begins on a name that has none.
LEMMA FenceIntentStep ==
  ASSUME ManagedInv, PairInv, NEW w \in LeaseWorkers, NEW l \in Leases, FenceIntent(w, l)
  PROVE  ManagedInv'
<1> USE DEF ManagedInv, FenceIntent
<1>1. NamedOnce'
  BY BusyFacts, BindingFacts, TypeFacts DEF NamedOnce
<1>2. TasksApart'
  BY BusyFacts, BindingFacts, TypeFacts DEF TasksApart, OneProcess, Workers, CanReconcile,
     CanReconcileInst, BindingShape, PairInv, TypeOK, LeaseObject, InstObject
<1>3. BoundIsLeased'
  BY BusyFacts, BindingFacts, TypeFacts DEF BoundIsLeased
<1>4. IntentOwned'
  BY BusyFacts, BindingFacts, TypeFacts DEF IntentOwned, TasksApart, TaskShape, BindingShape,
     FreeCapacity, LiveInst, PairInv, TypeOK, LeaseObject, InstObject
<1>5. ServedHeld' /\ NamesApart' /\ TeardownOwned' /\ UpUntilRecycling' /\ IntentKept'
  BY DEF ServedHeld, NamesApart, LiveInst, TeardownOwned, UpUntilRecycling, IntentKept,
     AdoptedIntentKept
<1> QED
  BY <1>1, <1>2, <1>3, <1>4, <1>5

\* A reservation takes free capacity: it is up, and served nobody.
LEMMA AdoptStep == ASSUME ManagedInv, PairInv, NEW w \in LeaseWorkers, Adopt(w)
                   PROVE  ManagedInv'
<1> USE DEF ManagedInv, Adopt, LiveInst
<1>1. NamedOnce'
  <2> HIDE DEF Adopt
  <2> QED
    BY Adopted, BusyFacts, BindingFacts, TypeFacts DEF NamedOnce
<1>2. ServedHeld'
  <2> HIDE DEF Adopt
  <2> QED
    BY Adopted, BusyFacts, BindingFacts, TypeFacts DEF ServedHeld
<1>3. NamesApart'
  <2> HIDE DEF Adopt
  <2> QED
    BY Adopted, BusyFacts, BindingFacts, TypeFacts DEF NamesApart, LiveInst
<1>4. TasksApart'
  <2> HIDE DEF Adopt
  <2> QED
    BY Adopted, BusyFacts, BindingFacts, TypeFacts DEF TasksApart
<1>5. TeardownOwned'
  <2> HIDE DEF Adopt
  <2> QED
    BY Adopted, BusyFacts, BindingFacts, TypeFacts DEF TeardownOwned
<1>6. UpUntilRecycling'
  <2> HIDE DEF Adopt
  <2> QED
    BY Adopted, BusyFacts, BindingFacts, TypeFacts DEF UpUntilRecycling
<1>7. BoundIsLeased'
  <2>1. \A j \in Insts : inst[j].phase = "Leased" => inst'[j].phase = "Leased"
    BY Adopted
  <2>2. /\ worker'[w].pc = "finalize" /\ UNCHANGED lease
        /\ \A x \in LeaseWorkers \ {w} : worker'[x] = worker[x]
    BY Adopted
  <2> HIDE DEF Adopt
  <2>3. \A l \in Leases : lease[l].phase = "Bound" => lease[l].binding.inst \in Insts
    BY DEF PairInv, BoundReciprocal, Bindings
  <2>4. \A x \in LeaseWorkers : worker[x].pc = "publish" => worker[x].b.inst \in Insts
    BY BusyFacts
  <2> QED
    BY <2>1, <2>2, <2>3, <2>4 DEF BoundIsLeased
<1>8. IntentOwned'
  <2> HIDE DEF Adopt
  <2> QED
    BY Adopted, BusyFacts, BindingFacts, TypeFacts
      DEF IntentOwned, TasksApart, PairInv, BindingShape
<1>9. IntentKept'
  <2> HIDE DEF Adopt
  <2> QED
    BY Adopted, BusyFacts, BindingFacts, TypeFacts
      DEF IntentKept, AdoptedIntentKept, IntentOwned, PairInv, BindingShape
<1> QED
  BY <1>1, <1>2, <1>3, <1>4, <1>5, <1>6, <1>7, <1>8, <1>9

\* An occupied target does not carry the intent, and nobody will make it.
LEMMA ReserveLostStep == ASSUME ManagedInv, PairInv, NEW w \in LeaseWorkers, ReserveLost(w)
                         PROVE  ManagedInv'
<1> USE DEF ManagedInv, ReserveLost, LiveInst
<1>1. NamedOnce'
  BY BusyFacts, BindingFacts, TypeFacts DEF NamedOnce
<1>2. TasksApart'
  BY BusyFacts, BindingFacts, TypeFacts DEF TasksApart
<1>3. BoundIsLeased'
  BY BusyFacts, BindingFacts, TypeFacts DEF BoundIsLeased
<1>4. IntentOwned'
  <2> DEFINE b == worker[w].b
  <2>1. b \in Bindings /\ b.inst \in Insts /\ Occupied(b)
    BY BusyFacts
  <2>2. ~(inst[b.inst].phase = "Leased" /\ inst[b.inst].binding = b)
    BY <2>1 DEF Occupied, Replaced, NamesApart
  <2>3. /\ worker'[w].pc = "clear" /\ worker'[w].b = b /\ UNCHANGED <<lease, inst>>
        /\ \A x \in LeaseWorkers \ {w} : worker'[x] = worker[x]
    BY WorkerPcWrite DEF PairInv
  <2> HIDE DEF ReserveLost
  <2> QED
    BY <2>2, <2>3 DEF IntentOwned
<1>5. ServedHeld' /\ NamesApart' /\ TeardownOwned' /\ UpUntilRecycling' /\ IntentKept'
  BY DEF ServedHeld, NamesApart, TeardownOwned, UpUntilRecycling, IntentKept, AdoptedIntentKept
<1> QED
  BY <1>1, <1>2, <1>3, <1>4, <1>5

\* So the cleared intent strands nothing.
LEMMA ClearIntentStep == ASSUME ManagedInv, PairInv, NEW w \in LeaseWorkers, ClearIntent(w)
                         PROVE  ManagedInv'
<1> USE DEF ManagedInv, ClearIntent, IdleWorker
<1>1. NamedOnce'
  BY BusyFacts, BindingFacts, TypeFacts DEF NamedOnce
<1>2. ServedHeld'
  BY BusyFacts, BindingFacts, TypeFacts DEF ServedHeld
<1>3. TasksApart'
  BY BusyFacts, BindingFacts, TypeFacts DEF TasksApart
<1>4. BoundIsLeased'
  BY BusyFacts, BindingFacts, TypeFacts DEF BoundIsLeased, UpUntilRecycling, TeardownOwned,
     PublishReady, HoldsPair, BoundReciprocal, RecoveryJustified, Ended, Terminal, TaskShape,
     BindingShape, PairInv, TypeOK, LeaseObject, InstObject
<1>5. IntentOwned'
  BY BusyFacts, BindingFacts, TypeFacts DEF IntentOwned, TasksApart, TaskShape, BindingShape,
     FreeCapacity, LiveInst, PairInv, TypeOK, LeaseObject, InstObject
<1>6. IntentKept'
  BY BusyFacts, BindingFacts, TypeFacts DEF IntentKept, AdoptedIntentKept, IntentOwned,
     BindingShape, ReservationShape, TaskShape, FreeCapacity, PairInv, TypeOK, LeaseObject,
     InstObject
<1>7. NamesApart' /\ TeardownOwned' /\ UpUntilRecycling'
  BY DEF NamesApart, LiveInst, TeardownOwned, UpUntilRecycling
<1> QED
  BY <1>1, <1>2, <1>3, <1>4, <1>5, <1>6, <1>7

LEMMA ReadPairStep == ASSUME ManagedInv, PairInv, NEW w \in LeaseWorkers, ReadPair(w)
                      PROVE  ManagedInv'
<1> USE DEF ManagedInv, ReadPair, LiveInst
<1>1. NamedOnce'
  BY BusyFacts, BindingFacts, TypeFacts DEF NamedOnce
<1>2. TasksApart'
  BY BusyFacts, BindingFacts, TypeFacts DEF TasksApart
<1>3. BoundIsLeased'
  <2> DEFINE b == worker[w].b
  <2>1. inst[b.inst].phase = "Leased"
    BY DEF FinalizationDecision, exact_binding_finalization
  <2>2. /\ worker'[w].b = b /\ UNCHANGED <<lease, inst>>
        /\ \A x \in LeaseWorkers \ {w} : worker'[x] = worker[x]
    BY WorkerPcWrite DEF PairInv
  <2> HIDE DEF ReadPair
  <2> QED
    BY <2>1, <2>2 DEF BoundIsLeased
<1>4. IntentOwned'
  BY BusyFacts, BindingFacts, TypeFacts DEF IntentOwned
<1>5. ServedHeld' /\ NamesApart' /\ TeardownOwned' /\ UpUntilRecycling' /\ IntentKept'
  BY DEF ServedHeld, NamesApart, TeardownOwned, UpUntilRecycling, IntentKept, AdoptedIntentKept
<1> QED
  BY <1>1, <1>2, <1>3, <1>4, <1>5

\* The Bound write meets a Leased instance.
LEMMA PublishBoundStep == ASSUME ManagedInv, PairInv, NEW w \in LeaseWorkers, PublishBound(w)
                          PROVE  ManagedInv'
<1> USE DEF ManagedInv, PublishBound, IdleWorker
<1>1. NamedOnce'
  <2> HIDE DEF PublishBound
  <2> QED
    BY Published, BusyFacts, BindingFacts, TypeFacts DEF NamedOnce, Ended, Terminal
<1>2. ServedHeld'
  <2> DEFINE b == worker[w].b
  <2> HIDE DEF PublishBound
  <2> SUFFICES ASSUME ~DirectLeaseDelete, NEW i \in Insts, NEW l \in served'[i]
               PROVE  /\ inst'[i].phase \in {"Leased", "Recycling", "Gone"}
                      /\ inst'[i].phase = "Leased" =>
                           /\ lease'[l].named
                           /\ lease'[l].phase \notin {"Unborn", "Pending", "Gone"}
                           /\ lease'[l].binding = inst'[i].binding
    BY DEF ServedHeld
  <2>1. CASE l \in served[i]
    <3>1. l \in Leases
      BY <2>1 DEF PairInv, TypeOK
    <3>2. inst[i].phase = "Leased" => l # b.lease
      BY <2>1, Published DEF ServedHeld
    <3> QED
      BY <2>1, <3>1, <3>2, Published DEF ServedHeld
  <2>2. CASE l \notin served[i]
    <3>1. i = b.inst /\ l = b.lease
      BY <2>2, Published
    <3> QED
      BY <3>1, Published DEF HoldsPair
  <2> QED
    BY <2>1, <2>2
<1>3. TasksApart'
  <2> HIDE DEF PublishBound
  <2> QED
    BY Published, BusyFacts, BindingFacts, TypeFacts DEF TasksApart
<1>4. BoundIsLeased'
  <2> HIDE DEF PublishBound
  <2> QED
    BY Published, BusyFacts, BindingFacts, TypeFacts DEF BoundIsLeased, PairInv, BindingShape
<1>5. IntentOwned'
  <2> HIDE DEF PublishBound
  <2> QED
    BY Published, BusyFacts, BindingFacts, TypeFacts DEF IntentOwned
<1>6. IntentKept'
  <2> HIDE DEF PublishBound
  <2> QED
    BY Published, BusyFacts, BindingFacts, TypeFacts
      DEF IntentKept, AdoptedIntentKept, PairInv, ReservationShape
<1>7. NamesApart' /\ TeardownOwned' /\ UpUntilRecycling'
  BY DEF NamesApart, LiveInst, TeardownOwned, UpUntilRecycling
<1> QED
  BY <1>1, <1>2, <1>3, <1>4, <1>5, <1>6, <1>7

LEMMA AbandonStep == ASSUME ManagedInv, PairInv, NEW w \in LeaseWorkers, Abandon(w)
                     PROVE  ManagedInv'
<1> USE DEF ManagedInv, Abandon, IdleWorker
<1>1. NamedOnce'
  BY BusyFacts, BindingFacts, TypeFacts DEF NamedOnce
<1>2. TasksApart'
  BY BusyFacts, BindingFacts, TypeFacts DEF TasksApart
<1>3. BoundIsLeased'
  BY BusyFacts, BindingFacts, TypeFacts DEF BoundIsLeased
<1>4. IntentOwned'
  BY BusyFacts, BindingFacts, TypeFacts DEF IntentOwned
<1>5. ServedHeld' /\ NamesApart' /\ TeardownOwned' /\ UpUntilRecycling' /\ IntentKept'
  BY DEF ServedHeld, NamesApart, LiveInst, TeardownOwned, UpUntilRecycling, IntentKept,
     AdoptedIntentKept
<1> QED
  BY <1>1, <1>2, <1>3, <1>4, <1>5

LEMMA ExpireQueuedStep ==
  ASSUME ManagedInv, PairInv, NEW w \in LeaseWorkers, NEW l \in Leases, ExpireQueued(w, l)
  PROVE  ManagedInv'
<1> USE DEF ManagedInv, ExpireQueued
<1>1. NamedOnce'
  BY BusyFacts, BindingFacts, TypeFacts DEF NamedOnce, Ended, Terminal, TaskShape, BindingShape,
     PairInv, TypeOK, LeaseObject, InstObject
<1>2. ServedHeld'
  BY BusyFacts, BindingFacts, TypeFacts DEF ServedHeld
<1>3. BoundIsLeased'
  BY BusyFacts, BindingFacts, TypeFacts DEF BoundIsLeased
<1>4. IntentOwned'
  BY BusyFacts, BindingFacts, TypeFacts DEF IntentOwned
<1>5. IntentKept'
  BY BusyFacts, BindingFacts, TypeFacts DEF IntentKept, AdoptedIntentKept
<1>6. NamesApart' /\ TasksApart' /\ TeardownOwned' /\ UpUntilRecycling'
  BY DEF NamesApart, LiveInst, TasksApart, TeardownOwned, UpUntilRecycling
<1> QED
  BY <1>1, <1>2, <1>3, <1>4, <1>5, <1>6

LEMMA ExpireBoundStep == ASSUME ManagedInv, PairInv, NEW l \in Leases, ExpireBound(l)
                         PROVE  ManagedInv'
<1> USE DEF ManagedInv, ExpireBound
<1>1. NamedOnce'
  BY BusyFacts, BindingFacts, TypeFacts DEF NamedOnce, Ended, Terminal, TaskShape, BindingShape,
     PairInv, TypeOK, LeaseObject, InstObject
<1>2. ServedHeld'
  BY BusyFacts, BindingFacts, TypeFacts DEF ServedHeld
<1>3. BoundIsLeased'
  BY BusyFacts, BindingFacts, TypeFacts DEF BoundIsLeased
<1>4. IntentOwned'
  BY BusyFacts, BindingFacts, TypeFacts DEF IntentOwned
<1>5. IntentKept'
  BY BusyFacts, BindingFacts, TypeFacts DEF IntentKept, AdoptedIntentKept
<1>6. NamesApart' /\ TasksApart' /\ TeardownOwned' /\ UpUntilRecycling'
  BY DEF NamesApart, LiveInst, TasksApart, TeardownOwned, UpUntilRecycling
<1> QED
  BY <1>1, <1>2, <1>3, <1>4, <1>5, <1>6

LEMMA RetireUnboundStep ==
  ASSUME ManagedInv, PairInv, NEW w \in LeaseWorkers, NEW l \in Leases, RetireUnbound(w, l)
  PROVE  ManagedInv'
<1> USE DEF ManagedInv, RetireUnbound, Terminal
<1>1. NamedOnce'
  BY BusyFacts, BindingFacts, TypeFacts DEF NamedOnce, Ended, TaskShape, BindingShape, PairInv,
     TypeOK, LeaseObject, InstObject
<1>2. ServedHeld'
  BY BusyFacts, BindingFacts, TypeFacts DEF ServedHeld
<1>3. BoundIsLeased'
  BY BusyFacts, BindingFacts, TypeFacts DEF BoundIsLeased
<1>4. IntentOwned'
  BY BusyFacts, BindingFacts, TypeFacts DEF IntentOwned
<1>5. IntentKept'
  BY BusyFacts, BindingFacts, TypeFacts DEF IntentKept, AdoptedIntentKept
<1>6. NamesApart' /\ TasksApart' /\ TeardownOwned' /\ UpUntilRecycling'
  BY DEF NamesApart, LiveInst, TasksApart, TeardownOwned, UpUntilRecycling
<1> QED
  BY <1>1, <1>2, <1>3, <1>4, <1>5, <1>6

LEMMA ReadHoldingStep ==
  ASSUME ManagedInv, PairInv, NEW w \in LeaseWorkers, NEW l \in Leases, ReadHolding(w, l)
  PROVE  ManagedInv'
<1> USE DEF ManagedInv, ReadHolding, LiveInst, Terminal
<1>1. NamedOnce'
  BY BusyFacts, BindingFacts, TypeFacts DEF NamedOnce, Ended, TaskShape, BindingShape, PairInv,
     TypeOK, LeaseObject, InstObject
<1>2. TasksApart'
  BY BusyFacts, BindingFacts, TypeFacts DEF TasksApart, OneProcess, Workers, CanReconcile,
     CanReconcileInst, BindingShape, PairInv, TypeOK, LeaseObject, InstObject
<1>3. BoundIsLeased'
  BY BusyFacts, BindingFacts, TypeFacts DEF BoundIsLeased
<1>4. IntentOwned'
  BY BusyFacts, BindingFacts, TypeFacts DEF IntentOwned
<1>5. ServedHeld' /\ NamesApart' /\ TeardownOwned' /\ UpUntilRecycling' /\ IntentKept'
  BY DEF ServedHeld, NamesApart, TeardownOwned, UpUntilRecycling, IntentKept, AdoptedIntentKept
<1> QED
  BY <1>1, <1>2, <1>3, <1>4, <1>5

LEMMA ResolveTerminalStep ==
  ASSUME ManagedInv, PairInv, NEW w \in LeaseWorkers, NEW l \in Leases, ResolveTerminal(w, l)
  PROVE  ManagedInv'
<1> USE DEF ManagedInv, ResolveTerminal, LiveInst, Terminal
<1>1. NamedOnce'
  BY BusyFacts, BindingFacts, TypeFacts DEF NamedOnce
<1>2. TasksApart'
  BY BusyFacts, BindingFacts, TypeFacts DEF TasksApart, OneProcess, Workers, CanReconcile,
     CanReconcileInst, BindingShape, PairInv, TypeOK, LeaseObject, InstObject
<1>3. BoundIsLeased'
  BY BusyFacts, BindingFacts, TypeFacts DEF BoundIsLeased
<1>4. IntentOwned'
  BY BusyFacts, BindingFacts, TypeFacts DEF IntentOwned
<1>5. ServedHeld' /\ NamesApart' /\ TeardownOwned' /\ UpUntilRecycling' /\ IntentKept'
  BY DEF ServedHeld, NamesApart, TeardownOwned, UpUntilRecycling, IntentKept, AdoptedIntentKept
<1> QED
  BY <1>1, <1>2, <1>3, <1>4, <1>5

\* A recycled lease goes only after the instance of its name.
LEMMA RetireRecycledStep ==
  ASSUME ManagedInv, PairInv, NEW w \in LeaseWorkers, NEW l \in Leases, RetireRecycled(w, l)
  PROVE  ManagedInv'
<1> USE DEF ManagedInv, RetireRecycled, LiveInst
<1>1. NamedOnce'
  BY BusyFacts, BindingFacts, TypeFacts DEF NamedOnce, Ended, Terminal, TaskShape, BindingShape,
     PairInv, TypeOK, LeaseObject, InstObject
<1>2. ServedHeld'
  BY BusyFacts, BindingFacts, TypeFacts DEF ServedHeld, NamedOnce, BindingShape,
     ReservationShape, RecoveryJustified, PublishReady, HoldsPair, FreeCapacity, InstNotFound,
     Ended, Terminal, PairInv, TypeOK, LeaseObject, InstObject
<1>3. BoundIsLeased'
  BY BusyFacts, BindingFacts, TypeFacts DEF BoundIsLeased
<1>4. IntentOwned'
  BY BusyFacts, BindingFacts, TypeFacts DEF IntentOwned
<1>5. IntentKept'
  BY BusyFacts, BindingFacts, TypeFacts DEF IntentKept, AdoptedIntentKept
<1>6. NamesApart' /\ TasksApart' /\ TeardownOwned' /\ UpUntilRecycling'
  BY DEF NamesApart, TasksApart, TeardownOwned, UpUntilRecycling
<1> QED
  BY <1>1, <1>2, <1>3, <1>4, <1>5, <1>6

\* A retired lease was never named.
LEMMA DeleteRetiredStep == ASSUME ManagedInv, PairInv, NEW w \in LeaseWorkers, DeleteRetired(w)
                           PROVE  ManagedInv'
<1> USE DEF ManagedInv, DeleteRetired, IdleWorker, Terminal
<1>1. NamedOnce'
  BY BusyFacts, BindingFacts, TypeFacts DEF NamedOnce, Ended, TaskShape, BindingShape, PairInv,
     TypeOK, LeaseObject, InstObject
<1>2. ServedHeld'
  BY BusyFacts, BindingFacts, TypeFacts DEF ServedHeld, NamedOnce, BindingShape,
     ReservationShape, RecoveryJustified, PublishReady, HoldsPair, FreeCapacity, InstNotFound,
     LiveInst, Ended, PairInv, TypeOK, LeaseObject, InstObject
<1>3. TasksApart'
  BY BusyFacts, BindingFacts, TypeFacts DEF TasksApart
<1>4. BoundIsLeased'
  BY BusyFacts, BindingFacts, TypeFacts DEF BoundIsLeased
<1>5. IntentOwned'
  BY BusyFacts, BindingFacts, TypeFacts DEF IntentOwned
<1>6. IntentKept'
  BY BusyFacts, BindingFacts, TypeFacts DEF IntentKept, AdoptedIntentKept
<1>7. NamesApart' /\ TeardownOwned' /\ UpUntilRecycling'
  BY DEF NamesApart, LiveInst, TeardownOwned, UpUntilRecycling
<1> QED
  BY <1>1, <1>2, <1>3, <1>4, <1>5, <1>6, <1>7

\* An instance is recycled only for a lease that ended.
LEMMA MarkRecyclingStep == ASSUME ManagedInv, PairInv, NEW w \in LeaseWorkers, MarkRecycling(w)
                           PROVE  ManagedInv'
<1> USE DEF ManagedInv, MarkRecycling, LiveInst
<1>1. NamedOnce'
  BY BusyFacts, BindingFacts, TypeFacts DEF NamedOnce
<1>2. ServedHeld'
  BY BusyFacts, BindingFacts, TypeFacts DEF ServedHeld
<1>3. NamesApart'
  BY BusyFacts, BindingFacts, TypeFacts DEF NamesApart
<1>4. TasksApart'
  BY BusyFacts, BindingFacts, TypeFacts DEF TasksApart
<1>5. TeardownOwned'
  BY BusyFacts, BindingFacts, TypeFacts DEF TeardownOwned
<1>6. UpUntilRecycling'
  BY BusyFacts, BindingFacts, TypeFacts DEF UpUntilRecycling
<1>7. BoundIsLeased'
  <2> DEFINE b == worker[w].b
  <2>1. b \in Bindings /\ b.inst \in Insts /\ b.lease \in Leases
    BY BusyFacts
  <2>2. lease[b.lease].phase \notin {"Pending", "Bound"} /\ inst[b.inst].binding = b
    BY DEF PairInv, RecoveryJustified, Ended, Terminal
  <2>3. \A j \in Insts \ {b.inst} : inst'[j].phase = inst[j].phase
    BY <2>1, InstPhaseWrite DEF PairInv, SameInst
  <2>4. /\ worker'[w].pc = "advance" /\ UNCHANGED lease
        /\ \A x \in LeaseWorkers \ {w} : worker'[x] = worker[x]
    BY WorkerPcWrite DEF PairInv
  <2> HIDE DEF MarkRecycling
  <2>5. \A l \in Leases : lease[l].phase = "Bound" =>
          lease[l].binding \in Bindings /\ lease[l].binding.inst \in Insts \ {b.inst}
    BY <2>2 DEF PairInv, BoundReciprocal, HoldsPair, Bindings
  <2>6. \A x \in LeaseWorkers :
          /\ worker[x].pc = "publish" /\ lease[worker[x].b.lease].phase = "Pending"
          /\ lease[worker[x].b.lease].binding = worker[x].b
          => worker[x].b.inst \in Insts \ {b.inst}
    BY <2>2, BusyFacts DEF PairInv, PublishReady, HoldsPair
  <2> QED
    BY <2>3, <2>4, <2>5, <2>6 DEF BoundIsLeased
<1>8. IntentOwned'
  BY BusyFacts, BindingFacts, TypeFacts DEF IntentOwned
<1>9. IntentKept'
  BY BusyFacts, BindingFacts, TypeFacts DEF IntentKept, AdoptedIntentKept
<1> QED
  BY <1>1, <1>2, <1>3, <1>4, <1>5, <1>6, <1>7, <1>8, <1>9

LEMMA AdvanceLeaseStep == ASSUME ManagedInv, PairInv, NEW w \in LeaseWorkers, AdvanceLease(w)
                          PROVE  ManagedInv'
<1> USE DEF ManagedInv, AdvanceLease, IdleWorker, Terminal
<1>1. NamedOnce'
  BY BusyFacts, BindingFacts, TypeFacts DEF NamedOnce, Ended, TaskShape, BindingShape, PairInv,
     TypeOK, LeaseObject, InstObject
<1>2. ServedHeld'
  BY BusyFacts, BindingFacts, TypeFacts DEF ServedHeld
<1>3. TasksApart'
  BY BusyFacts, BindingFacts, TypeFacts DEF TasksApart
<1>4. BoundIsLeased'
  BY BusyFacts, BindingFacts, TypeFacts DEF BoundIsLeased
<1>5. IntentOwned'
  BY BusyFacts, BindingFacts, TypeFacts DEF IntentOwned
<1>6. IntentKept'
  BY BusyFacts, BindingFacts, TypeFacts DEF IntentKept, AdoptedIntentKept
<1>7. NamesApart' /\ TeardownOwned' /\ UpUntilRecycling'
  BY DEF NamesApart, LiveInst, TeardownOwned, UpUntilRecycling
<1> QED
  BY <1>1, <1>2, <1>3, <1>4, <1>5, <1>6, <1>7

-----------------------------------------------------------------------------
(* The pool and instance controllers.                                      *)

\* A name is taken again only when no instance has it.
LEMMA CreateInstanceStep == ASSUME ManagedInv, PairInv, NEW i \in Insts, CreateInstance(i)
                            PROVE  ManagedInv'
<1> USE DEF ManagedInv, CreateInstance, LiveInst
<1>1. ServedHeld'
  BY BusyFacts, BindingFacts, TypeFacts DEF ServedHeld
<1>2. NamesApart'
  BY BusyFacts, BindingFacts, TypeFacts DEF NamesApart, InstNotFound, PairInv, TypeOK,
     LeaseObject, InstObject
<1>3. TeardownOwned'
  BY BusyFacts, BindingFacts, TypeFacts DEF TeardownOwned
<1>4. UpUntilRecycling'
  BY BusyFacts, BindingFacts, TypeFacts DEF UpUntilRecycling
<1>5. BoundIsLeased'
  BY BusyFacts, BindingFacts, TypeFacts DEF BoundIsLeased
<1>6. IntentOwned'
  BY BusyFacts, BindingFacts, TypeFacts DEF IntentOwned
<1>7. IntentKept'
  BY BusyFacts, BindingFacts, TypeFacts DEF IntentKept, AdoptedIntentKept
<1>8. NamedOnce' /\ TasksApart'
  BY DEF NamedOnce, TasksApart
<1> QED
  BY <1>1, <1>2, <1>3, <1>4, <1>5, <1>6, <1>7, <1>8

LEMMA ProvisionStep == ASSUME ManagedInv, PairInv, NEW i \in Insts, Provision(i)
                       PROVE  ManagedInv'
<1> USE DEF ManagedInv, Provision
<1>1. ServedHeld'
  BY BusyFacts, BindingFacts, TypeFacts DEF ServedHeld
<1>2. NamesApart'
  BY BusyFacts, BindingFacts, TypeFacts DEF NamesApart, LiveInst
<1>3. TeardownOwned'
  BY BusyFacts, BindingFacts, TypeFacts DEF TeardownOwned
<1>4. UpUntilRecycling'
  BY BusyFacts, BindingFacts, TypeFacts DEF UpUntilRecycling
<1>5. BoundIsLeased'
  BY BusyFacts, BindingFacts, TypeFacts DEF BoundIsLeased
<1>6. IntentOwned'
  BY BusyFacts, BindingFacts, TypeFacts DEF IntentOwned
<1>7. IntentKept'
  BY BusyFacts, BindingFacts, TypeFacts DEF IntentKept, AdoptedIntentKept
<1>8. NamedOnce' /\ TasksApart'
  BY DEF NamedOnce, TasksApart
<1> QED
  BY <1>1, <1>2, <1>3, <1>4, <1>5, <1>6, <1>7, <1>8

LEMMA MarkReadyStep == ASSUME ManagedInv, PairInv, NEW i \in Insts, MarkReady(i)
                       PROVE  ManagedInv'
<1> USE DEF ManagedInv, MarkReady
<1>1. ServedHeld'
  BY BusyFacts, BindingFacts, TypeFacts DEF ServedHeld
<1>2. NamesApart'
  BY BusyFacts, BindingFacts, TypeFacts DEF NamesApart, LiveInst
<1>3. TeardownOwned'
  BY BusyFacts, BindingFacts, TypeFacts DEF TeardownOwned
<1>4. UpUntilRecycling'
  BY BusyFacts, BindingFacts, TypeFacts DEF UpUntilRecycling
<1>5. BoundIsLeased'
  BY BusyFacts, BindingFacts, TypeFacts DEF BoundIsLeased
<1>6. IntentOwned'
  BY BusyFacts, BindingFacts, TypeFacts DEF IntentOwned
<1>7. IntentKept'
  BY BusyFacts, BindingFacts, TypeFacts DEF IntentKept, AdoptedIntentKept
<1>8. NamedOnce' /\ TasksApart'
  BY DEF NamedOnce, TasksApart
<1> QED
  BY <1>1, <1>2, <1>3, <1>4, <1>5, <1>6, <1>7, <1>8

LEMMA FailProvisioningStep == ASSUME ManagedInv, PairInv, NEW i \in Insts, FailProvisioning(i)
                              PROVE  ManagedInv'
<1> USE DEF ManagedInv, FailProvisioning
<1>1. ServedHeld'
  BY BusyFacts, BindingFacts, TypeFacts DEF ServedHeld
<1>2. NamesApart'
  BY BusyFacts, BindingFacts, TypeFacts DEF NamesApart, LiveInst
<1>3. TeardownOwned'
  BY BusyFacts, BindingFacts, TypeFacts DEF TeardownOwned
<1>4. UpUntilRecycling'
  BY BusyFacts, BindingFacts, TypeFacts DEF UpUntilRecycling
<1>5. BoundIsLeased'
  BY BusyFacts, BindingFacts, TypeFacts DEF BoundIsLeased
<1>6. IntentOwned'
  BY BusyFacts, BindingFacts, TypeFacts DEF IntentOwned
<1>7. IntentKept'
  BY BusyFacts, BindingFacts, TypeFacts DEF IntentKept, AdoptedIntentKept
<1>8. NamedOnce' /\ TasksApart'
  BY DEF NamedOnce, TasksApart
<1> QED
  BY <1>1, <1>2, <1>3, <1>4, <1>5, <1>6, <1>7, <1>8

LEMMA HealthRecycleStep == ASSUME ManagedInv, PairInv, NEW i \in Insts, HealthRecycle(i)
                           PROVE  ManagedInv'
<1> USE DEF ManagedInv, HealthRecycle
<1>1. ServedHeld'
  BY BusyFacts, BindingFacts, TypeFacts DEF ServedHeld, NamedOnce, BindingShape,
     ReservationShape, RecoveryJustified, PublishReady, HoldsPair, FreeCapacity, InstNotFound,
     LiveInst, Ended, Terminal, PairInv, TypeOK, LeaseObject, InstObject
<1>2. NamesApart'
  BY BusyFacts, BindingFacts, TypeFacts DEF NamesApart, LiveInst, InstNotFound, PairInv, TypeOK,
     LeaseObject, InstObject
<1>3. TeardownOwned'
  BY BusyFacts, BindingFacts, TypeFacts DEF TeardownOwned, TasksApart, LiveInst,
     ReservationShape, PairInv, TypeOK, LeaseObject, InstObject
<1>4. UpUntilRecycling'
  BY BusyFacts, BindingFacts, TypeFacts DEF UpUntilRecycling, TeardownOwned, NamesApart,
     FreeCapacity, PairInv, TypeOK, LeaseObject, InstObject
<1>5. BoundIsLeased'
  <2>1. \A j \in Insts \ {i} : inst'[j].phase = inst[j].phase
    BY InstPhaseRefWrite DEF PairInv, SameInst
  <2>2. inst[i].phase = "Ready" /\ UNCHANGED <<lease, worker>>
    OBVIOUS
  <2> HIDE DEF HealthRecycle
  <2>3. \A l \in Leases : lease[l].phase = "Bound" => lease[l].binding.inst \in Insts
    BY DEF PairInv, BoundReciprocal, Bindings
  <2>4. \A x \in LeaseWorkers : worker[x].pc = "publish" => worker[x].b.inst \in Insts
    BY BusyFacts
  <2> QED
    BY <2>1, <2>2, <2>3, <2>4 DEF BoundIsLeased
<1>6. IntentOwned'
  BY BusyFacts, BindingFacts, TypeFacts DEF IntentOwned, TasksApart, TaskShape, BindingShape,
     FreeCapacity, LiveInst, PairInv, TypeOK, LeaseObject, InstObject
<1>7. IntentKept'
  BY BusyFacts, BindingFacts, TypeFacts DEF IntentKept, AdoptedIntentKept, IntentOwned,
     BindingShape, ReservationShape, TaskShape, FreeCapacity, PairInv, TypeOK, LeaseObject,
     InstObject
<1>8. NamedOnce' /\ TasksApart'
  BY DEF NamedOnce, TasksApart
<1> QED
  BY <1>1, <1>2, <1>3, <1>4, <1>5, <1>6, <1>7, <1>8

LEMMA PoolRecycleStep == ASSUME ManagedInv, PairInv, NEW i \in Insts, PoolRecycle(i)
                         PROVE  ManagedInv'
<1> USE DEF ManagedInv, PoolRecycle
<1>1. ServedHeld'
  BY BusyFacts, BindingFacts, TypeFacts DEF ServedHeld
<1>2. NamesApart'
  BY BusyFacts, BindingFacts, TypeFacts DEF NamesApart, LiveInst
<1>3. TeardownOwned'
  BY BusyFacts, BindingFacts, TypeFacts DEF TeardownOwned
<1>4. UpUntilRecycling'
  BY BusyFacts, BindingFacts, TypeFacts DEF UpUntilRecycling
<1>5. BoundIsLeased'
  BY BusyFacts, BindingFacts, TypeFacts DEF BoundIsLeased
<1>6. IntentOwned'
  BY BusyFacts, BindingFacts, TypeFacts DEF IntentOwned
<1>7. IntentKept'
  BY BusyFacts, BindingFacts, TypeFacts DEF IntentKept, AdoptedIntentKept
<1>8. NamedOnce' /\ TasksApart'
  BY DEF NamedOnce, TasksApart
<1> QED
  BY <1>1, <1>2, <1>3, <1>4, <1>5, <1>6, <1>7, <1>8

LEMMA ObserveTerminalStep ==
  ASSUME ManagedInv, PairInv, NEW v \in InstWorkers, NEW i \in Insts, ObserveTerminal(v, i)
  PROVE  ManagedInv'
<1> USE DEF ManagedInv, ObserveTerminal, LiveInst, Terminal
<1>1. TasksApart'
  BY BusyFacts, BindingFacts, TypeFacts DEF TasksApart, OneProcess, Workers, CanReconcile,
     CanReconcileInst, BindingShape, PairInv, TypeOK, LeaseObject, InstObject
<1>2. TeardownOwned'
  BY BusyFacts, BindingFacts, TypeFacts DEF TeardownOwned
<1>3. NamedOnce' /\ ServedHeld' /\ NamesApart' /\ UpUntilRecycling'
      /\ BoundIsLeased' /\ IntentOwned' /\ IntentKept'
  BY DEF NamedOnce, ServedHeld, NamesApart, UpUntilRecycling, BoundIsLeased, IntentOwned,
     IntentKept, AdoptedIntentKept
<1> QED
  BY <1>1, <1>2, <1>3

LEMMA ObserveOrphanStep ==
  ASSUME ManagedInv, PairInv, NEW v \in InstWorkers, NEW i \in Insts, ObserveOrphan(v, i)
  PROVE  ManagedInv'
<1> USE DEF ManagedInv, ObserveOrphan, LiveLease
<1>1. TasksApart'
  BY BusyFacts, BindingFacts, TypeFacts DEF TasksApart, OneProcess, Workers, CanReconcile,
     CanReconcileInst, BindingShape, PairInv, TypeOK, LeaseObject, InstObject
<1>2. TeardownOwned'
  BY BusyFacts, BindingFacts, TypeFacts DEF TeardownOwned
<1>3. NamedOnce' /\ ServedHeld' /\ NamesApart' /\ UpUntilRecycling'
      /\ BoundIsLeased' /\ IntentOwned' /\ IntentKept'
  BY DEF NamedOnce, ServedHeld, NamesApart, LiveInst, UpUntilRecycling, BoundIsLeased,
     IntentOwned, IntentKept, AdoptedIntentKept
<1> QED
  BY <1>1, <1>2, <1>3

LEMMA VerifyTeardownStep ==
  ASSUME ManagedInv, PairInv, NEW v \in InstWorkers, NEW i \in Insts, VerifyTeardown(v, i)
  PROVE  ManagedInv'
<1> USE DEF ManagedInv, VerifyTeardown, LiveInst
<1>1. TasksApart'
  BY BusyFacts, BindingFacts, TypeFacts DEF TasksApart, OneProcess, Workers, CanReconcile,
     CanReconcileInst, BindingShape, PairInv, TypeOK, LeaseObject, InstObject
<1>2. TeardownOwned'
  BY BusyFacts, BindingFacts, TypeFacts DEF TeardownOwned
<1>3. NamedOnce' /\ ServedHeld' /\ NamesApart' /\ UpUntilRecycling'
      /\ BoundIsLeased' /\ IntentOwned' /\ IntentKept'
  BY DEF NamedOnce, ServedHeld, NamesApart, UpUntilRecycling, BoundIsLeased, IntentOwned,
     IntentKept, AdoptedIntentKept
<1> QED
  BY <1>1, <1>2, <1>3

\* An orphan goes back to Ready only if it served nobody.
LEMMA ApplyRecoveryStep == ASSUME ManagedInv, PairInv, NEW v \in InstWorkers, ApplyRecovery(v)
                           PROVE  ManagedInv'
<1> USE DEF ManagedInv, ApplyRecovery, LiveInst, IdleInstWorker
<1>1. ServedHeld'
  <2> DEFINE k == iworker[v].i
             b == iworker[v].b
  <2> HIDE DEF ApplyRecovery
  <2>1. ASSUME ~DirectLeaseDelete, NEW l \in served[k]
        PROVE  inst'[k].phase = "Recycling"
    <3>1. l \in Leases /\ k \in Insts
      BY <2>1, RecoveryWrites DEF PairInv, TypeOK
    <3>2. lease[l].binding = b /\ lease[l].phase # "Gone"
      BY <2>1, <3>1, RecoveryWrites DEF ServedHeld
    <3>3. l = b.lease
      BY <3>1, <3>2, RecoveryWrites, BindingAssumption DEF PairInv, BindingShape
    <3> QED
      BY <3>2, <3>3, RecoveryWrites
  <2> QED
    BY <2>1, RecoveryWrites DEF ServedHeld
<1>2. NamesApart'
  <2> HIDE DEF ApplyRecovery
  <2> QED
    BY RecoveryWrites, BusyFacts, BindingFacts, TypeFacts DEF NamesApart, LiveInst
<1>3. TasksApart'
  <2> HIDE DEF ApplyRecovery
  <2> QED
    BY RecoveryWrites, BusyFacts, BindingFacts, TypeFacts DEF TasksApart
<1>4. TeardownOwned'
  <2> HIDE DEF ApplyRecovery
  <2> QED
    BY RecoveryWrites, BusyFacts, BindingFacts, TypeFacts DEF TeardownOwned, TasksApart
<1>5. UpUntilRecycling'
  <2> HIDE DEF ApplyRecovery
  <2> QED
    BY RecoveryWrites, BusyFacts, BindingFacts, TypeFacts DEF UpUntilRecycling
<1>6. BoundIsLeased'
  <2> DEFINE k == iworker[v].i
             b == iworker[v].b
  <2> HIDE DEF ApplyRecovery
  <2>1. /\ lease[b.lease].phase \notin {"Pending", "Bound"} /\ inst[k].binding = b
        /\ \A j \in Insts \ {k} : inst'[j] = inst[j]
        /\ UNCHANGED <<lease, worker>>
    BY RecoveryWrites DEF Ended, Terminal
  <2>2. \A l \in Leases : lease[l].phase = "Bound" => lease[l].binding.inst \in Insts \ {k}
    BY <2>1 DEF PairInv, BoundReciprocal, HoldsPair, Bindings
  <2>3. \A x \in LeaseWorkers :
          /\ worker[x].pc = "publish" /\ lease[worker[x].b.lease].phase = "Pending"
          /\ lease[worker[x].b.lease].binding = worker[x].b
          => worker[x].b.inst \in Insts \ {k}
    BY <2>1, BusyFacts DEF PairInv, PublishReady, HoldsPair
  <2> QED
    BY <2>1, <2>2, <2>3 DEF BoundIsLeased
<1>7. IntentOwned'
  <2> HIDE DEF ApplyRecovery
  <2> QED
    BY RecoveryWrites, BusyFacts, BindingFacts, TypeFacts DEF IntentOwned
<1>8. IntentKept'
  <2> HIDE DEF ApplyRecovery
  <2> QED
    BY RecoveryWrites, BusyFacts, BindingFacts, TypeFacts DEF IntentKept, AdoptedIntentKept
<1>9. NamedOnce'
  BY DEF NamedOnce
<1> QED
  BY <1>1, <1>2, <1>3, <1>4, <1>5, <1>6, <1>7, <1>8, <1>9

LEMMA RecheckUidStep == ASSUME ManagedInv, PairInv, NEW v \in InstWorkers, RecheckUid(v)
                        PROVE  ManagedInv'
<1> USE DEF ManagedInv, RecheckUid, LiveInst
<1>1. TasksApart'
  BY BusyFacts, BindingFacts, TypeFacts DEF TasksApart
<1>2. TeardownOwned'
  BY BusyFacts, BindingFacts, TypeFacts DEF TeardownOwned
<1>3. NamedOnce' /\ ServedHeld' /\ NamesApart' /\ UpUntilRecycling'
      /\ BoundIsLeased' /\ IntentOwned' /\ IntentKept'
  BY DEF NamedOnce, ServedHeld, NamesApart, UpUntilRecycling, BoundIsLeased, IntentOwned,
     IntentKept, AdoptedIntentKept
<1> QED
  BY <1>1, <1>2, <1>3

\* A backend is deleted by name: the one live instance of it is in teardown.
LEMMA DeleteBackendStep == ASSUME ManagedInv, PairInv, NEW v \in InstWorkers, DeleteBackend(v)
                           PROVE  ManagedInv'
<1> USE DEF ManagedInv, DeleteBackend
<1>1. ServedHeld'
  BY BusyFacts, BindingFacts, TypeFacts DEF ServedHeld
<1>2. NamesApart'
  BY BusyFacts, BindingFacts, TypeFacts DEF NamesApart, LiveInst
<1>3. TasksApart'
  BY BusyFacts, BindingFacts, TypeFacts DEF TasksApart
<1>4. TeardownOwned'
  BY BusyFacts, BindingFacts, TypeFacts DEF TeardownOwned
<1>5. UpUntilRecycling'
  <2> DEFINE k == iworker[v].i
  <2>1. k \in Insts
    BY BusyFacts
  <2>2. \A j \in Insts : /\ inst'[j].phase = inst[j].phase
                         /\ inst'[j].deleting => inst[j].deleting
                         /\ InstName[j] # InstName[k] /\ inst[j].backend => inst'[j].backend
    BY DEF PairInv, TypeOK, InstObject
  <2>3. iworker[v].pc = "destroy"
    OBVIOUS
  <2> HIDE DEF DeleteBackend
  <2>4. ASSUME OneProcess, ~DirectInstanceDelete, NEW j \in Insts, InstName[j] = InstName[k]
        PROVE  inst[j].phase \notin {"Ready", "Leased"}
    <3>1. inst[k].phase \in {"Recycling", "Gone"} /\ LiveInst(k)
      BY <2>1, <2>3, <2>4 DEF UpUntilRecycling, TeardownOwned, LiveInst
    <3> QED
      BY <2>1, <2>4, <3>1 DEF NamesApart, LiveInst
  <2> HIDE DEF k, ManagedInv
  <2>5. ASSUME OneProcess, ~DirectInstanceDelete, NEW j \in Insts
        PROVE  /\ inst'[j].deleting => inst'[j].phase \in {"Recycling", "Gone"}
               /\ inst'[j].phase \in {"Ready", "Leased"} => inst'[j].backend
    <3>1. /\ inst[j].deleting => inst[j].phase \in {"Recycling", "Gone"}
          /\ inst[j].phase \in {"Ready", "Leased"} => inst[j].backend
      BY <2>5 DEF UpUntilRecycling, ManagedInv
    <3>2. CASE InstName[j] = InstName[k]
      BY <2>2, <2>4, <2>5, <3>1, <3>2
    <3>3. CASE InstName[j] # InstName[k]
      BY <2>2, <3>1, <3>3
    <3> QED
      BY <3>2, <3>3
  <2> QED
    BY <2>5 DEF UpUntilRecycling
<1>6. BoundIsLeased'
  <2>1. (\A j \in Insts : inst'[j].phase = inst[j].phase) /\ UNCHANGED <<lease, worker>>
    BY DEF PairInv, TypeOK, InstObject
  <2> HIDE DEF DeleteBackend
  <2>2. \A l \in Leases : lease[l].phase = "Bound" => lease[l].binding.inst \in Insts
    BY DEF PairInv, BoundReciprocal, Bindings
  <2>3. \A x \in LeaseWorkers : worker[x].pc = "publish" => worker[x].b.inst \in Insts
    BY BusyFacts
  <2> QED
    BY <2>1, <2>2, <2>3 DEF BoundIsLeased
<1>7. IntentOwned'
  BY BusyFacts, BindingFacts, TypeFacts DEF IntentOwned
<1>8. IntentKept'
  BY BusyFacts, BindingFacts, TypeFacts DEF IntentKept, AdoptedIntentKept
<1>9. NamedOnce'
  BY DEF NamedOnce
<1> QED
  BY <1>1, <1>2, <1>3, <1>4, <1>5, <1>6, <1>7, <1>8, <1>9

\* The object goes after its backend.
LEMMA FinishTeardownStep == ASSUME ManagedInv, PairInv, NEW v \in InstWorkers, FinishTeardown(v)
                            PROVE  ManagedInv'
<1> USE DEF ManagedInv, FinishTeardown, LiveInst, IdleInstWorker
<1>1. ServedHeld'
  BY BusyFacts, BindingFacts, TypeFacts DEF ServedHeld
<1>2. NamesApart'
  BY BusyFacts, BindingFacts, TypeFacts DEF NamesApart
<1>3. TasksApart'
  BY BusyFacts, BindingFacts, TypeFacts DEF TasksApart
<1>4. TeardownOwned'
  BY BusyFacts, BindingFacts, TypeFacts DEF TeardownOwned, TasksApart, ReservationShape,
     PairInv, TypeOK, LeaseObject, InstObject
<1>5. UpUntilRecycling'
  BY BusyFacts, BindingFacts, TypeFacts DEF UpUntilRecycling, TeardownOwned, NamesApart,
     FreeCapacity, PairInv, TypeOK, LeaseObject, InstObject
<1>6. BoundIsLeased'
  BY BusyFacts, BindingFacts, TypeFacts DEF BoundIsLeased, UpUntilRecycling, TeardownOwned,
     PublishReady, HoldsPair, BoundReciprocal, RecoveryJustified, Ended, Terminal, TaskShape,
     BindingShape, PairInv, TypeOK, LeaseObject, InstObject
<1>7. IntentOwned'
  BY BusyFacts, BindingFacts, TypeFacts DEF IntentOwned
<1>8. IntentKept'
  BY BusyFacts, BindingFacts, TypeFacts DEF IntentKept, AdoptedIntentKept
<1>9. NamedOnce'
  BY DEF NamedOnce
<1> QED
  BY <1>1, <1>2, <1>3, <1>4, <1>5, <1>6, <1>7, <1>8, <1>9

LEMMA AbandonInstStep == ASSUME ManagedInv, PairInv, NEW v \in InstWorkers, AbandonInst(v)
                         PROVE  ManagedInv'
<1> USE DEF ManagedInv, AbandonInst, IdleInstWorker
<1>1. TasksApart'
  BY BusyFacts, BindingFacts, TypeFacts DEF TasksApart
<1>2. TeardownOwned'
  BY BusyFacts, BindingFacts, TypeFacts DEF TeardownOwned
<1>3. NamedOnce' /\ ServedHeld' /\ NamesApart' /\ UpUntilRecycling'
      /\ BoundIsLeased' /\ IntentOwned' /\ IntentKept'
  BY DEF NamedOnce, ServedHeld, NamesApart, LiveInst, UpUntilRecycling, BoundIsLeased,
     IntentOwned, IntentKept, AdoptedIntentKept
<1> QED
  BY <1>1, <1>2, <1>3

-----------------------------------------------------------------------------
LEMMA ManagedInit == Init => ManagedInv
<1> SUFFICES ASSUME Init PROVE ManagedInv
  OBVIOUS
<1> USE DEF Init, IdleWorker, IdleInstWorker
<1>1. NamedOnce /\ ServedHeld /\ NamesApart /\ TasksApart
  BY DEF NamedOnce, ServedHeld, NamesApart, TasksApart, LiveInst
<1>2. TeardownOwned /\ UpUntilRecycling /\ BoundIsLeased
  BY DEF TeardownOwned, UpUntilRecycling, BoundIsLeased
<1>3. IntentOwned /\ IntentKept
  BY DEF IntentOwned, IntentKept, AdoptedIntentKept
<1> QED
  BY <1>1, <1>2, <1>3 DEF ManagedInv

LEMMA ManagedStep == PairInv /\ ManagedInv /\ [Next]_vars => ManagedInv'
<1> SUFFICES ASSUME PairInv, ManagedInv, [Next]_vars PROVE ManagedInv'
  OBVIOUS
<1>1. CASE Client
  BY <1>1, CreateLeaseStep, ReleaseLeaseStep, TtlElapsesStep, ExtendLeaseTtlStep,
     DeleteLeaseObjectStep, DeleteInstanceObjectStep
     DEF Client
<1>2. CASE LeaseController
  BY <1>2, ReserveIntentStep, FenceIntentStep, AdoptStep, ReserveLostStep, ClearIntentStep,
     ReadPairStep, PublishBoundStep, AbandonStep, ExpireQueuedStep, ExpireBoundStep,
     RetireUnboundStep, ReadHoldingStep, ResolveTerminalStep, RetireRecycledStep,
     DeleteRetiredStep, MarkRecyclingStep, AdvanceLeaseStep
     DEF LeaseController
<1>3. CASE InstanceController
  BY <1>3, CreateInstanceStep, ProvisionStep, MarkReadyStep, FailProvisioningStep,
     HealthRecycleStep, PoolRecycleStep, ObserveTerminalStep, ObserveOrphanStep,
     VerifyTeardownStep, ApplyRecoveryStep, RecheckUidStep, DeleteBackendStep,
     FinishTeardownStep, AbandonInstStep
     DEF InstanceController
<1>4. CASE UNCHANGED vars
  BY <1>4 DEF vars, ManagedInv, NamedOnce, ServedHeld, NamesApart, LiveInst, TasksApart,
     TeardownOwned, UpUntilRecycling, BoundIsLeased, IntentOwned, IntentKept, AdoptedIntentKept
<1> QED
  BY <1>1, <1>2, <1>3, <1>4 DEF Next

\* Each part of ManagedInv holds in every reachable state under its own premise, for
\* any reuse of names: who serves whom, which task owns a name, which instance is up.
THEOREM ManagedInvariant == Spec => []ManagedInv
<1>1. PairInv /\ ManagedInv /\ [Next]_vars => ManagedInv'
  BY ManagedStep
<1> QED
  BY <1>1, ManagedInit, PairInvariant, PTL DEF Spec

\* Every lease gets a clean environment, with any number of processes and even when
\* clients delete instances: only a client that deletes a lease under its cluster can
\* make release_orphaned_reservation offer a used one.
THEOREM CleanEnvironment == ASSUME ~DirectLeaseDelete PROVE Spec => []UsedNeverOffered
<1>1. PairInv /\ ManagedInv => UsedNeverOffered
  BY ~DirectLeaseDelete DEF ManagedInv, ServedHeld, UsedNeverOffered, FreeCapacity
<1> QED
  BY <1>1, PairInvariant, ManagedInvariant, PTL

\* clear_lease_binding_intent strands no adopted instance while one process runs the
\* lease controller, whatever clients delete.
THEOREM IntentNeverStranded == ASSUME OneProcess PROVE Spec => []AdoptedIntentKept
<1>1. ManagedInv => AdoptedIntentKept
  BY OneProcess DEF ManagedInv, IntentKept
<1> QED
  BY <1>1, ManagedInvariant, PTL

\* A tenant keeps its cluster while the lease is Bound and unexpired, if one process runs
\* and no client deletes instances by hand: no teardown passes verify_instance_teardown
\* before the lease ends, and the name-addressed delete_instance_backend never meets a
\* successor of that name.
THEOREM TenantKept ==
    ASSUME OneProcess, ~DirectInstanceDelete
    PROVE  Spec => []TenantKeepsCluster
<1>1. PairInv /\ ManagedInv => TenantKeepsCluster
  <2> SUFFICES ASSUME PairInv, ManagedInv, NEW l \in Leases, lease[l].phase = "Bound"
               PROVE  inst[lease[l].binding.inst].backend
    BY DEF TenantKeepsCluster
  <2>1. lease[l].binding.inst \in Insts
    BY DEF PairInv, BoundReciprocal, Bindings
  <2>2. inst[lease[l].binding.inst].phase = "Leased"
    BY OneProcess, ~DirectInstanceDelete DEF ManagedInv, BoundIsLeased
  <2> QED
    BY <2>1, <2>2, OneProcess, ~DirectInstanceDelete DEF ManagedInv, UpUntilRecycling
<1> QED
  BY <1>1, PairInvariant, ManagedInvariant, PTL

\* What a destructive step of the Recycling arm does to other instances.
DestroysOwn ==
    \A v \in InstWorkers :
        /\ iworker[v].pc = "destroy"
        /\ ~iworker[v].final
        /\ iworker'[v].pc = "finish"
        => \A j \in Insts \ {iworker[v].i} : inst'[j].backend = inst[j].backend

LEMMA DestroyStep ==
    ASSUME PairInv, ManagedInv, OneProcess, Next
    PROVE  DestroysOwn
<1> SUFFICES ASSUME NEW v \in InstWorkers, iworker[v].pc = "destroy", iworker'[v].pc = "finish",
                    NEW j \in Insts \ {iworker[v].i}
             PROVE  inst'[j].backend = inst[j].backend
  BY DEF DestroysOwn
<1>t. iworker \in [InstWorkers -> InstWorkerRecord] /\ inst \in [Insts -> InstObject]
  BY DEF PairInv, TypeOK, InstWorkerRecord
<1>1. DeleteBackend(v)
  <2>1. iworker' # iworker
    OBVIOUS
  <2>2. PICK x \in InstWorkers :
          \/ ApplyRecovery(x) \/ RecheckUid(x) \/ DeleteBackend(x) \/ FinishTeardown(x)
          \/ AbandonInst(x)
          \/ \E i \in Insts : ObserveTerminal(x, i) \/ ObserveOrphan(x, i) \/ VerifyTeardown(x, i)
    <3>1. CASE Client
      BY <2>1, <3>1 DEF Client, CreateLease, ReleaseLease, TtlElapses, ExtendLeaseTtl,
         DeleteLeaseObject, DeleteInstanceObject
    <3>2. CASE LeaseController
      BY <2>1, <3>2 DEF LeaseController, Adopt, ReserveLost, ClearIntent, ReadPair, PublishBound,
         Abandon, DeleteRetired, MarkRecycling, AdvanceLease, ReserveIntent, FenceIntent,
         ExpireQueued, RetireUnbound, ReadHolding, ResolveTerminal, RetireRecycled, ExpireBound
    <3>3. CASE InstanceController
      BY <2>1, <3>3 DEF InstanceController, CreateInstance, Provision, MarkReady,
         FailProvisioning, HealthRecycle, PoolRecycle
    <3> QED
      BY <3>1, <3>2, <3>3 DEF Next
  <2>3. x = v
    BY <2>2, <1>t DEF ApplyRecovery, RecheckUid, DeleteBackend, FinishTeardown, AbandonInst,
       ObserveTerminal, ObserveOrphan, VerifyTeardown
  <2> QED
    BY <2>2, <2>3, <1>t DEF ApplyRecovery, RecheckUid, FinishTeardown, AbandonInst,
       ObserveTerminal, ObserveOrphan, VerifyTeardown, IdleInstWorker, InstWorkerRecord
<1>2. CASE InstName[j] # InstName[iworker[v].i]
  BY <1>1, <1>2 DEF DeleteBackend
<1>3. CASE InstName[j] = InstName[iworker[v].i]
  <2>1. iworker[v].i \in Insts /\ LiveInst(iworker[v].i)
    BY BusyFacts DEF ManagedInv, TeardownOwned, LiveInst
  <2>2. ~LiveInst(j)
    BY <1>3, <2>1 DEF ManagedInv, NamesApart
  <2>3. inst[j].backend = FALSE
    BY <1>t, <2>2 DEF ManagedInv, TeardownOwned, LiveInst, InstObject
  <2> QED
    BY <1>1, <1>3, <1>t, <2>3 DEF DeleteBackend, InstObject
<1> QED
  BY <1>2, <1>3

\* The Recycling arm deletes a backend by name, and in one process the only backend of
\* that name is its own instance's, whatever clients delete.
THEOREM OwnBackendOnly == ASSUME OneProcess PROVE Spec => RecycleDestroysOnlyItsOwn
<1>1. PairInv /\ ManagedInv /\ [Next]_vars => [DestroysOwn]_vars
  BY OneProcess, DestroyStep
<1> QED
  BY <1>1, PairInvariant, ManagedInvariant, PTL
     DEF Spec, RecycleDestroysOnlyItsOwn, DestroysOwn
=============================================================================
