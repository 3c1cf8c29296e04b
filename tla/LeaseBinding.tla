---------------------------- MODULE LeaseBinding ----------------------------
(***************************************************************************)
(* How a ClusterLease is paired with a ClusterInstance, and how the pair   *)
(* is taken apart: the lease controller (controllers/lease.rs), the        *)
(* instance controller (controllers/instance.rs), the pool controller's    *)
(* recycle write, and the lease API, over the two object stores they share *)
(* through the Kubernetes API server.                                      *)
(*                                                                         *)
(* Every write in the code is conditional on the uid and resourceVersion   *)
(* that were read (a JSON Patch `test`, or delete Preconditions), so a     *)
(* read-check-write of ONE object is atomic at its write.  What is not     *)
(* atomic is a decision over TWO objects: read one, write the other.  Each *)
(* such decision is split into steps of a worker that remembers the        *)
(* binding it is about and nothing else.  A lost race, a failed call, a    *)
(* `Retry` outcome, a crash or lost leadership all end the worker's pass   *)
(* (Abandon); the object is reconciled again later.                        *)
(*                                                                         *)
(* Scope: Standard cleanup mode.  A lease or instance is identified by its *)
(* UID; names may be reused by later objects (LeaseName, InstName).        *)
(***************************************************************************)
EXTENDS ExactBinding, Naturals, FiniteSets

CONSTANTS
    Leases,          \* UIDs of ClusterLease objects
    Insts,           \* UIDs of ClusterInstance objects
    LeaseName,       \* UID -> metadata.name
    InstName,        \* UID -> metadata.name
    LeaseWorkers,    \* reconcile tasks of the lease controller
    InstWorkers,     \* reconcile tasks of the instance controller
    Replica,         \* task -> the operator process it runs in
    NoLease,         \* the absent `status.leaseRef`
    NoInst,          \* an instance task that works on nothing
    MaxBindings,     \* bound on the number of binding ids ever minted
    MaxExtensions,   \* `maxExtensions` of the requester's policy
    DirectLeaseDelete,     \* may a client delete a ClusterLease object?
    DirectInstanceDelete   \* may a client delete a ClusterInstance object?

Workers == LeaseWorkers \union InstWorkers

\* A LeaseBinding: its random binding_id and the two UIDs it pairs.
Bindings == [id : Nat, lease : Leases, inst : Insts]

ASSUME BindingAssumption == NoBinding \notin Bindings
ASSUME LeaseAssumption == NoLease \notin Leases
ASSUME InstAssumption == NoInst \notin Insts
ASSUME BoundsAssumption == MaxBindings \in Nat /\ MaxExtensions \in Nat
ASSUME FlagAssumption == /\ DirectLeaseDelete \in BOOLEAN
                         /\ DirectInstanceDelete \in BOOLEAN
ASSUME WorkerAssumption == /\ LeaseWorkers \intersect InstWorkers = {}
                           /\ DOMAIN Replica = Workers

VARIABLES
    lease,    \* lease[l]: the ClusterLease object of UID l
    inst,     \* inst[i]: the ClusterInstance object of UID i
    minted,   \* binding ids handed out so far
    worker,   \* worker[w]: where a lease task is and the binding it is about
    iworker,  \* iworker[v]: where an instance task is and what it is about
    served    \* history: served[i] = the leases that were ever Bound to i

vars == <<lease, inst, minted, worker, iworker, served>>
-----------------------------------------------------------------------------
Terminal == {"Released", "Expired"}
LeasePhases == {"Unborn", "Pending", "Bound", "Recycling", "Gone"} \union Terminal
InstPhases == {"Unborn", "Creating", "Ready", "Leased", "Recycling",
               "Failed", "Gone"}
WorkerPCs == {"idle", "reserve", "clear", "finalize", "publish",
              "retire", "recycle", "advance"}
InstPCs == {"idle", "recycle", "orphan", "recheck", "destroy", "finish"}

MaybeBinding == Bindings \union {NoBinding}

\* status.{phase, binding, clusterName, expiresAt in the past, extensionsCount}
LeaseObject == [phase : LeasePhases, binding : MaybeBinding, named : BOOLEAN,
                expired : BOOLEAN, ext : Nat]
\* status.{phase, binding, leaseRef}, deletionTimestamp, and whether the
\* backend cluster of this UID is up
InstObject == [phase : InstPhases, binding : MaybeBinding,
               ref : Leases \union {NoLease}, deleting : BOOLEAN,
               backend : BOOLEAN]

TypeOK ==
    /\ lease \in [Leases -> LeaseObject]
    /\ inst \in [Insts -> InstObject]
    /\ minted \in Nat
    /\ worker \in [LeaseWorkers -> [pc : WorkerPCs, b : MaybeBinding]]
    /\ iworker \in [InstWorkers -> [pc : InstPCs, i : Insts \union {NoInst},
                                    b : MaybeBinding, final : BOOLEAN]]
    /\ served \in [Insts -> SUBSET Leases]

IdleWorker == [pc |-> "idle", b |-> NoBinding]
IdleInstWorker == [pc |-> "idle", i |-> NoInst, b |-> NoBinding, final |-> FALSE]

Init ==
    /\ lease = [l \in Leases |-> [phase |-> "Unborn", binding |-> NoBinding,
                                  named |-> FALSE, expired |-> FALSE, ext |-> 0]]
    /\ inst = [i \in Insts |-> [phase |-> "Unborn", binding |-> NoBinding,
                                ref |-> NoLease, deleting |-> FALSE,
                                backend |-> FALSE]]
    /\ minted = 0
    /\ worker = [w \in LeaseWorkers |-> IdleWorker]
    /\ iworker = [v \in InstWorkers |-> IdleInstWorker]
    /\ served = [i \in Insts |-> {}]
-----------------------------------------------------------------------------
(* What the API server answers.                                            *)

LiveLease(l) == lease[l].phase \notin {"Unborn", "Gone"}
LiveInst(i) == inst[i].phase \notin {"Unborn", "Gone"}

\* GET by name answers 404: no object of that name exists, whatever its UID.
LeaseNotFound(l) ==
    \A m \in Leases : LeaseName[m] = LeaseName[l] => ~LiveLease(m)
InstNotFound(i) ==
    \A j \in Insts : InstName[j] = InstName[i] => ~LiveInst(j)

\* GET by name answers an object of another UID.
Replaced(i) ==
    \E j \in Insts \ {i} : InstName[j] = InstName[i] /\ LiveInst(j)

\* resolve_lease_binding in Lifecycle mode, for a lease known to carry b: the
\* exact live instance carries the same binding and names the lease.  A
\* deleting instance is refused (its generation moved on).
Resolves(b) ==
    /\ LiveInst(b.inst)
    /\ ~inst[b.inst].deleting
    /\ inst[b.inst].binding = b
    /\ inst[b.inst].ref = b.lease

\* Mutation: the live-pair resolver used as the teardown fence, which a
\* deleting instance can never pass.
LeaseStillBound_Resolver(i) ==
    inst[i].binding # NoBinding /\ ~Resolves(inst[i].binding)

\* verify_instance_teardown: a teardown is refused only by positive evidence
\* that a live, unexpired Bound lease still holds this exact binding.
LeaseStillBound(i) ==
    LET b == inst[i].binding IN
    /\ b # NoBinding
    /\ lease[b.lease].phase = "Bound"
    /\ ~lease[b.lease].expired
    /\ lease[b.lease].binding = b

\* try_start_reconcile: one reconcile per lease name in each process.
CanReconcile(w, l) ==
    /\ worker[w].pc = "idle"
    /\ \A x \in LeaseWorkers :
          /\ Replica[x] = Replica[w]
          /\ worker[x].pc # "idle"
          => LeaseName[worker[x].b.lease] # LeaseName[l]

\* Mutation: two passes over one instance name in the same process.
CanReconcileInst_Unguarded(v, i) == iworker[v].pc = "idle"

\* The kube controller runtime runs one reconcile per object name and process.
CanReconcileInst(v, i) ==
    /\ iworker[v].pc = "idle"
    /\ \A x \in InstWorkers :
          /\ Replica[x] = Replica[v]
          /\ iworker[x].pc # "idle"
          => InstName[iworker[x].i] # InstName[i]
-----------------------------------------------------------------------------
(* Clients: the lease API and direct writes to the objects.                *)

\* POST /v1/leases: a Pending lease under a name no live lease has.
CreateLease(l) ==
    /\ lease[l].phase = "Unborn"
    /\ LeaseNotFound(l)
    /\ lease' = [lease EXCEPT ![l].phase = "Pending"]
    /\ UNCHANGED <<inst, minted, worker, iworker, served>>

\* release_lease: idempotent on terminal leases, otherwise one fenced write.
ReleaseLease(l) ==
    /\ lease[l].phase \in {"Pending", "Bound"}
    /\ lease' = [lease EXCEPT ![l].phase = "Released"]
    /\ UNCHANGED <<inst, minted, worker, iworker, served>>

\* The clock passes expiresAt.
TtlElapses(l) ==
    /\ lease[l].phase = "Bound"
    /\ ~lease[l].expired
    /\ lease' = [lease EXCEPT ![l].expired = TRUE]
    /\ UNCHANGED <<inst, minted, worker, iworker, served>>

\* extend_lease_ttl: Bound and extensions left; an expiry already in the past
\* is no obstacle, so an overdue lease that is still Bound is revived.
ExtendLeaseTtl(l) ==
    /\ lease[l].phase = "Bound"
    /\ lease[l].ext < MaxExtensions
    /\ lease' = [lease EXCEPT ![l].expired = FALSE,
                              ![l].ext = lease[l].ext + 1]
    /\ UNCHANGED <<inst, minted, worker, iworker, served>>

\* A client deletes the lease object itself; a Standard lease has no finalizer.
DeleteLeaseObject(l) ==
    /\ DirectLeaseDelete
    /\ LiveLease(l)
    /\ lease' = [lease EXCEPT ![l].phase = "Gone"]
    /\ UNCHANGED <<inst, minted, worker, iworker, served>>

\* A client deletes the instance object; the cleanup finalizer holds it.
DeleteInstanceObject(i) ==
    /\ DirectInstanceDelete
    /\ LiveInst(i)
    /\ ~inst[i].deleting
    /\ inst' = [inst EXCEPT ![i].deleting = TRUE]
    /\ UNCHANGED <<lease, minted, worker, iworker, served>>
-----------------------------------------------------------------------------
(* Lease controller, Pending: persist an intent on the lease, reserve the  *)
(* instance, publish Bound on the lease.                                   *)

\* instance_is_free_capacity
FreeCapacity(i) ==
    /\ inst[i].phase = "Ready"
    /\ inst[i].binding = NoBinding
    /\ inst[i].ref = NoLease
    /\ ~inst[i].deleting

\* reserve_ready_instance, up to the fenced write of /status/binding.
ReserveIntent(w, l, i) ==
    /\ CanReconcile(w, l)
    /\ lease[l].phase = "Pending"
    /\ lease[l].binding = NoBinding
    /\ FreeCapacity(i)
    /\ minted < MaxBindings
    /\ minted' = minted + 1
    /\ lease' = [lease EXCEPT ![l].binding =
                    [id |-> minted + 1, lease |-> l, inst |-> i]]
    /\ UNCHANGED <<inst, worker, iworker, served>>

\* reserve_binding_instance: re-read the lease at the last boundary before
\* the instance write; only a Pending lease with this exact intent passes.
FenceIntent(w, l) ==
    /\ CanReconcile(w, l)
    /\ lease[l].phase = "Pending"
    /\ lease[l].binding # NoBinding
    /\ worker' = [worker EXCEPT ![w] = [pc |-> "reserve", b |-> lease[l].binding]]
    /\ UNCHANGED <<lease, inst, minted, iworker, served>>

\* The instance already carries this reservation in full.
AlreadyReserved(b) ==
    /\ inst[b.inst].phase = "Leased"
    /\ inst[b.inst].binding = b
    /\ inst[b.inst].ref = b.lease

\* Mutation: any Leased or Ready instance is taken over.
Adopt_Overwrites(w) ==
    LET b == worker[w].b IN
    /\ worker[w].pc = "reserve"
    /\ inst[b.inst].phase \in {"Leased", "Ready"}
    /\ ~inst[b.inst].deleting
    /\ inst' = [inst EXCEPT ![b.inst].phase = "Leased",
                            ![b.inst].binding = b,
                            ![b.inst].ref = b.lease]
    /\ worker' = [worker EXCEPT ![w].pc = "finalize"]
    /\ UNCHANGED <<lease, minted, iworker, served>>

\* reserve_binding_instance_after_lease_fence -> Reserved
Adopt(w) ==
    LET b == worker[w].b IN
    /\ worker[w].pc = "reserve"
    /\ LiveInst(b.inst)
    /\ ~inst[b.inst].deleting
    /\ \/ /\ AlreadyReserved(b)
          /\ UNCHANGED inst
       \/ /\ FreeCapacity(b.inst)
          /\ inst' = [inst EXCEPT ![b.inst].phase = "Leased",
                                  ![b.inst].binding = b,
                                  ![b.inst].ref = b.lease]
    /\ worker' = [worker EXCEPT ![w].pc = "finalize"]
    /\ UNCHANGED <<lease, minted, iworker, served>>

\* Mutation: a lost race is not re-read; an instance that carries this very
\* binding counts as occupied.
Occupied_OwnAdoption(b) ==
    \/ Replaced(b.inst)
    \/ LiveInst(b.inst) /\ inst[b.inst].binding # NoBinding

\* A fresh read proves the target replaced, or held by somebody else.
Occupied(b) ==
    \/ Replaced(b.inst)
    \/ /\ LiveInst(b.inst)
       /\ inst[b.inst].binding # b
       /\ IF inst[b.inst].deleting
          THEN inst[b.inst].ref # b.lease
          ELSE inst[b.inst].binding # NoBinding \/ inst[b.inst].ref # NoLease

\* reserve_binding_instance_after_lease_fence -> Occupied
ReserveLost(w) ==
    /\ worker[w].pc = "reserve"
    /\ Occupied(worker[w].b)
    /\ worker' = [worker EXCEPT ![w].pc = "clear"]
    /\ UNCHANGED <<lease, inst, minted, iworker, served>>

\* clear_lease_binding_intent
ClearIntent(w) ==
    LET b == worker[w].b IN
    /\ worker[w].pc = "clear"
    /\ lease' = IF /\ lease[b.lease].phase = "Pending"
                   /\ lease[b.lease].binding = b
                THEN [lease EXCEPT ![b.lease].binding = NoBinding]
                ELSE lease
    /\ worker' = [worker EXCEPT ![w] = IdleWorker]
    /\ UNCHANGED <<inst, minted, iworker, served>>

\* What finalize_binding concludes from fresh reads of the pair.
FinalizationDecision(b) ==
    exact_binding_finalization(
        lease[b.lease].phase, model_binding_state(lease[b.lease].binding, b),
        inst[b.inst].phase, model_binding_state(inst[b.inst].binding, b))

\* finalize_binding: read lease and instance, decide.
ReadPair(w) ==
    LET b == worker[w].b IN
    /\ worker[w].pc = "finalize"
    /\ LiveInst(b.inst) /\ ~inst[b.inst].deleting
    /\ FinalizationDecision(b) = "PublishBound"
    /\ worker' = [worker EXCEPT ![w].pc = "publish"]
    /\ UNCHANGED <<lease, inst, minted, iworker, served>>

\* finalize_binding: the fenced Pending -> Bound write on the lease.  The
\* instance is not part of the fence.
PublishBound(w) ==
    LET b == worker[w].b IN
    /\ worker[w].pc = "publish"
    /\ lease[b.lease].phase = "Pending"
    /\ lease[b.lease].binding = b
    /\ lease' = [lease EXCEPT ![b.lease].phase = "Bound",
                              ![b.lease].named = TRUE,
                              ![b.lease].expired = FALSE,
                              ![b.lease].ext = 0]
    /\ worker' = [worker EXCEPT ![w] = IdleWorker]
    /\ served' = [served EXCEPT ![b.inst] = @ \union {b.lease}]
    /\ UNCHANGED <<inst, minted, iworker>>

\* A lost race, a Retry outcome, a failed call, a crash, lost leadership.
Abandon(w) ==
    /\ worker[w].pc # "idle"
    /\ worker' = [worker EXCEPT ![w] = IdleWorker]
    /\ UNCHANGED <<lease, inst, minted, iworker, served>>
-----------------------------------------------------------------------------
(* Lease controller: expiry, termination, retirement.                      *)

\* The Pending arm's queue timeout: expire_lease_fenced keeps the intent.
ExpireQueued(w, l) ==
    /\ CanReconcile(w, l)
    /\ lease[l].phase = "Pending"
    /\ lease' = [lease EXCEPT ![l].phase = "Expired"]
    /\ UNCHANGED <<inst, minted, worker, iworker, served>>

\* The Bound arm and run_reaper.
ExpireBound(l) ==
    /\ lease[l].phase = "Bound"
    /\ lease[l].expired
    /\ lease' = [lease EXCEPT ![l].phase = "Expired"]
    /\ UNCHANGED <<inst, minted, worker, iworker, served>>

\* Released/Expired arm: no binding and no clusterName, nothing was ever held.
RetireUnbound(w, l) ==
    /\ CanReconcile(w, l)
    /\ lease[l].phase \in Terminal
    /\ lease[l].binding = NoBinding
    /\ ~lease[l].named
    /\ lease' = [lease EXCEPT ![l].phase = "Gone"]
    /\ UNCHANGED <<inst, minted, worker, iworker, served>>

\* Mutation: only a vanished instance proves that nothing is held.
HoldsNothing_GoneOnly(b) == ~LiveInst(b.inst)

\* exact_instance_holds_nothing_for
HoldsNothing(b) ==
    LiveInst(b.inst) =>
        /\ inst[b.inst].binding # NoBinding => inst[b.inst].binding.lease # b.lease
        /\ inst[b.inst].ref # b.lease

\* retire_orphaned_standard_intent: a terminal lease that never reached Bound
\* and whose exact instance holds nothing for it ...
ReadHolding(w, l) ==
    LET b == lease[l].binding IN
    /\ CanReconcile(w, l)
    /\ lease[l].phase \in Terminal
    /\ b # NoBinding
    /\ ~lease[l].named
    /\ ~Resolves(b)
    /\ HoldsNothing(b)
    /\ worker' = [worker EXCEPT ![w] = [pc |-> "retire", b |-> b]]
    /\ UNCHANGED <<lease, inst, minted, iworker, served>>

\* ... is deleted, fenced on the lease only.
DeleteRetired(w) ==
    LET b == worker[w].b IN
    /\ worker[w].pc = "retire"
    /\ lease[b.lease].phase \in Terminal
    /\ lease[b.lease].binding = b
    /\ lease' = [lease EXCEPT ![b.lease].phase = "Gone"]
    /\ worker' = [worker EXCEPT ![w] = IdleWorker]
    /\ UNCHANGED <<inst, minted, iworker, served>>

\* Released/Expired arm: the pair resolves, so its instance is recycled ...
ResolveTerminal(w, l) ==
    LET b == lease[l].binding IN
    /\ CanReconcile(w, l)
    /\ lease[l].phase \in Terminal
    /\ b # NoBinding
    /\ Resolves(b)
    /\ worker' = [worker EXCEPT ![w] = [pc |-> "recycle", b |-> b]]
    /\ UNCHANGED <<lease, inst, minted, iworker, served>>

\* ... by mark_instance_recycling (a deleting instance is still marked) ...
MarkRecycling(w) ==
    LET b == worker[w].b IN
    /\ worker[w].pc = "recycle"
    /\ LiveInst(b.inst)
    /\ inst[b.inst].binding = b
    /\ inst[b.inst].ref = b.lease
    /\ inst[b.inst].phase \in {"Leased", "Ready", "Recycling"}
    /\ inst' = [inst EXCEPT ![b.inst].phase = "Recycling"]
    /\ worker' = [worker EXCEPT ![w].pc = "advance"]
    /\ UNCHANGED <<lease, minted, iworker, served>>

\* ... and the lease follows.
AdvanceLease(w) ==
    LET b == worker[w].b IN
    /\ worker[w].pc = "advance"
    /\ lease[b.lease].phase \in Terminal
    /\ lease[b.lease].binding = b
    /\ lease' = [lease EXCEPT ![b.lease].phase = "Recycling"]
    /\ worker' = [worker EXCEPT ![w] = IdleWorker]
    /\ UNCHANGED <<inst, minted, iworker, served>>

\* Recycling arm: complete only when the instance NAME is gone; a same-named
\* replacement is not completion.
RetireRecycled(w, l) ==
    /\ CanReconcile(w, l)
    /\ lease[l].phase = "Recycling"
    /\ InstNotFound(lease[l].binding.inst)
    /\ lease' = [lease EXCEPT ![l].phase = "Gone"]
    /\ UNCHANGED <<inst, minted, worker, iworker, served>>
-----------------------------------------------------------------------------
(* Pool and instance controllers: capacity.                                *)

\* ensure_cluster_instance: a new object under a name no live instance has.
CreateInstance(i) ==
    /\ inst[i].phase = "Unborn"
    /\ InstNotFound(i)
    /\ inst' = [inst EXCEPT ![i].phase = "Creating"]
    /\ UNCHANGED <<lease, minted, worker, iworker, served>>

\* The backend cluster comes up (external) while the instance is Creating.
Provision(i) ==
    /\ inst[i].phase = "Creating" /\ ~inst[i].deleting
    /\ ~inst[i].backend
    /\ inst' = [inst EXCEPT ![i].backend = TRUE]
    /\ UNCHANGED <<lease, minted, worker, iworker, served>>

MarkReady(i) ==
    /\ inst[i].phase = "Creating" /\ ~inst[i].deleting
    /\ inst[i].backend
    /\ inst' = [inst EXCEPT ![i].phase = "Ready"]
    /\ UNCHANGED <<lease, minted, worker, iworker, served>>

FailProvisioning(i) ==
    /\ inst[i].phase = "Creating" /\ ~inst[i].deleting
    /\ inst' = [inst EXCEPT ![i].phase = "Failed"]
    /\ UNCHANGED <<lease, minted, worker, iworker, served>>

\* Mutation: Leased instances are health-probed too.
HealthRecycle_ProbesLeased(i) ==
    /\ inst[i].phase \in {"Ready", "Leased"} /\ ~inst[i].deleting
    /\ inst' = [inst EXCEPT ![i].phase = "Recycling", ![i].ref = NoLease]
    /\ UNCHANGED <<lease, minted, worker, iworker, served>>

\* evaluate_ready_instance at the failure threshold: leaseRef is cleared, the
\* binding is preserved (preserve_omitted_status_fields).
HealthRecycle(i) ==
    /\ inst[i].phase = "Ready" /\ ~inst[i].deleting
    /\ inst' = [inst EXCEPT ![i].phase = "Recycling", ![i].ref = NoLease]
    /\ UNCHANGED <<lease, minted, worker, iworker, served>>

\* The pool controller's mark_instance_recycling: never a held instance.
PoolRecycle(i) ==
    /\ inst[i].phase \in {"Ready", "Failed"}
    /\ inst[i].binding = NoBinding
    /\ inst[i].ref = NoLease
    /\ inst' = [inst EXCEPT ![i].phase = "Recycling"]
    /\ UNCHANGED <<lease, minted, worker, iworker, served>>
-----------------------------------------------------------------------------
(* Instance controller: a Leased instance whose lease ended or vanished.   *)

\* evaluate_leased_instance, resolved: the exact lease is terminating.
ObserveTerminal(v, i) ==
    LET b == inst[i].binding IN
    /\ CanReconcileInst(v, i)
    /\ inst[i].phase = "Leased"
    /\ b # NoBinding
    /\ Resolves(b)
    /\ lease[b.lease].binding = b
    /\ lease[b.lease].phase \in Terminal \union {"Recycling"}
    /\ iworker' = [iworker EXCEPT ![v] =
                     [pc |-> "recycle", i |-> i, b |-> b, final |-> FALSE]]
    /\ UNCHANGED <<lease, inst, minted, worker, served>>

\* Mutation: past the grace the reservation is released without a lookup.
ObserveOrphan_NoLookup(v, i) ==
    LET b == inst[i].binding IN
    /\ CanReconcileInst(v, i)
    /\ inst[i].phase = "Leased" /\ ~inst[i].deleting
    /\ b # NoBinding
    /\ iworker' = [iworker EXCEPT ![v] =
                     [pc |-> "orphan", i |-> i, b |-> b, final |-> FALSE]]
    /\ UNCHANGED <<lease, inst, minted, worker, served>>

\* Mutation: a lease that is gone proves nothing; only a terminal one does.
ObserveOrphan_TerminalOnly(v, i) ==
    LET b == inst[i].binding IN
    /\ CanReconcileInst(v, i)
    /\ inst[i].phase = "Leased" /\ ~inst[i].deleting
    /\ b # NoBinding
    /\ lease[b.lease].phase \in Terminal
    /\ iworker' = [iworker EXCEPT ![v] =
                     [pc |-> "orphan", i |-> i, b |-> b, final |-> FALSE]]
    /\ UNCHANGED <<lease, inst, minted, worker, served>>

\* evaluate_leased_instance, LeaseNotFound past the two-minute grace.
ObserveOrphan(v, i) ==
    LET b == inst[i].binding IN
    /\ CanReconcileInst(v, i)
    /\ inst[i].phase = "Leased" /\ ~inst[i].deleting
    /\ b # NoBinding
    /\ inst[i].ref = b.lease
    /\ LeaseNotFound(b.lease)
    /\ iworker' = [iworker EXCEPT ![v] =
                     [pc |-> "orphan", i |-> i, b |-> b, final |-> FALSE]]
    /\ UNCHANGED <<lease, inst, minted, worker, served>>

\* Mutation: the instance of a terminal lease goes back to the pool.
RecoveryKind_AlwaysRelease(pc) == "ReleaseOrphan"

\* ExactBindingTransition::kind
RecoveryKind(pc) ==
    IF pc = "recycle" THEN "RecycleTerminalLease" ELSE "ReleaseOrphan"

\* ExactBindingTransition::apply
Recovered(o, kind) ==
    IF kind = "RecycleTerminalLease"
    THEN [o EXCEPT !.phase = "Recycling"]
    ELSE [o EXCEPT !.phase = "Ready", !.binding = NoBinding, !.ref = NoLease]

\* patch_exact_binding_transition: decide on the current object, then write.
ApplyRecovery(v) ==
    LET i == iworker[v].i
        kind == RecoveryKind(iworker[v].pc)
    IN
    /\ iworker[v].pc \in {"recycle", "orphan"}
    /\ LiveInst(i)
    /\ exact_binding_recovery(
           inst[i].phase, model_binding_state(inst[i].binding, iworker[v].b),
           inst[i].ref = NoLease, kind) = "Apply"
    /\ inst' = [inst EXCEPT ![i] = Recovered(@, kind)]
    /\ iworker' = [iworker EXCEPT ![v] = IdleInstWorker]
    /\ UNCHANGED <<lease, minted, worker, served>>
-----------------------------------------------------------------------------
(* Instance controller: teardown.                                          *)

\* The Recycling arm, and the arm of a deleting instance in any phase: pass
\* the lease fence.  Only the Recycling arm re-reads the instance afterwards.
VerifyTeardown(v, i) ==
    /\ CanReconcileInst(v, i)
    /\ LiveInst(i)
    /\ inst[i].deleting \/ inst[i].phase = "Recycling"
    /\ ~LeaseStillBound(i)
    /\ iworker' = [iworker EXCEPT ![v] =
                     [pc |-> IF inst[i].deleting THEN "destroy" ELSE "recheck",
                      i |-> i, b |-> NoBinding, final |-> inst[i].deleting]]
    /\ UNCHANGED <<lease, inst, minted, worker, served>>

\* Recycling arm: the name must still belong to the same UID.
RecheckUid(v) ==
    /\ iworker[v].pc = "recheck"
    /\ LiveInst(iworker[v].i)
    /\ iworker' = [iworker EXCEPT ![v].pc = "destroy"]
    /\ UNCHANGED <<lease, inst, minted, worker, served>>

\* delete_instance_backend: addresses the backend by name, not by UID.
DeleteBackend(v) ==
    /\ iworker[v].pc = "destroy"
    /\ inst' = [j \in Insts |->
                  IF InstName[j] = InstName[iworker[v].i]
                  THEN [inst[j] EXCEPT !.backend = FALSE] ELSE inst[j]]
    /\ iworker' = [iworker EXCEPT ![v].pc = "finish"]
    /\ UNCHANGED <<lease, minted, worker, served>>

\* Recycling arm: fenced delete, which stamps deletionTimestamp.
\* Deleting arm: the finalizer is removed and the object is gone.
FinishTeardown(v) ==
    LET i == iworker[v].i IN
    /\ iworker[v].pc = "finish"
    /\ LiveInst(i)
    /\ inst[i].deleting = iworker[v].final
    /\ inst' = IF iworker[v].final
               THEN [inst EXCEPT ![i].phase = "Gone"]
               ELSE [inst EXCEPT ![i].deleting = TRUE]
    /\ iworker' = [iworker EXCEPT ![v] = IdleInstWorker]
    /\ UNCHANGED <<lease, minted, worker, served>>

\* A lost race, a Superseded decision, a failed call, a crash.
AbandonInst(v) ==
    /\ iworker[v].pc # "idle"
    /\ iworker' = [iworker EXCEPT ![v] = IdleInstWorker]
    /\ UNCHANGED <<lease, inst, minted, worker, served>>
-----------------------------------------------------------------------------
Client ==
    \/ \E l \in Leases : \/ CreateLease(l)
                         \/ ReleaseLease(l)
                         \/ TtlElapses(l)
                         \/ ExtendLeaseTtl(l)
                         \/ DeleteLeaseObject(l)
    \/ \E i \in Insts : DeleteInstanceObject(i)

LeaseController ==
    \/ \E w \in LeaseWorkers :
         \/ Adopt(w) \/ ReserveLost(w) \/ ClearIntent(w)
         \/ ReadPair(w) \/ PublishBound(w) \/ Abandon(w)
         \/ DeleteRetired(w) \/ MarkRecycling(w) \/ AdvanceLease(w)
    \/ \E w \in LeaseWorkers, l \in Leases :
         \/ \E i \in Insts : ReserveIntent(w, l, i)
         \/ FenceIntent(w, l)
         \/ ExpireQueued(w, l) \/ RetireUnbound(w, l)
         \/ ReadHolding(w, l) \/ ResolveTerminal(w, l) \/ RetireRecycled(w, l)
    \/ \E l \in Leases : ExpireBound(l)

InstanceController ==
    \/ \E i \in Insts : \/ CreateInstance(i)
                        \/ Provision(i) \/ MarkReady(i) \/ FailProvisioning(i)
                        \/ HealthRecycle(i) \/ PoolRecycle(i)
    \/ \E v \in InstWorkers :
         \/ ApplyRecovery(v)
         \/ RecheckUid(v) \/ DeleteBackend(v) \/ FinishTeardown(v)
         \/ AbandonInst(v)
    \/ \E v \in InstWorkers, i \in Insts :
         \/ ObserveTerminal(v, i) \/ ObserveOrphan(v, i)
         \/ VerifyTeardown(v, i)

Next == Client \/ LeaseController \/ InstanceController

Spec == Init /\ [][Next]_vars
-----------------------------------------------------------------------------
(* The inductive invariant behind the pairing properties.                  *)

\* A binding on a lease names that lease, one on an instance that instance;
\* an object that does not exist yet carries none.
BindingShape ==
    /\ \A l \in Leases : lease[l].binding # NoBinding =>
          /\ lease[l].binding.lease = l
          /\ lease[l].phase # "Unborn"
    /\ \A i \in Insts : inst[i].binding # NoBinding =>
          /\ inst[i].binding.inst = i
          /\ lease[inst[i].binding.lease].phase # "Unborn"

\* A reservation is on the instance in full or not at all.
ReservationShape ==
    \A i \in Insts :
        /\ inst[i].phase \in {"Unborn", "Creating", "Ready", "Failed"} =>
              inst[i].binding = NoBinding /\ inst[i].ref = NoLease
        /\ inst[i].phase = "Leased" =>
              inst[i].binding # NoBinding /\ inst[i].ref = inst[i].binding.lease

\* A busy task knows what it is about, and its binding id was minted before
\* any id still to come.
TaskShape ==
    /\ \A w \in LeaseWorkers : worker[w].pc # "idle" =>
          /\ worker[w].b # NoBinding
          /\ worker[w].b.id <= minted
          /\ lease[worker[w].b.lease].phase # "Unborn"
    /\ \A l \in Leases : lease[l].binding # NoBinding => lease[l].binding.id <= minted
    /\ \A v \in InstWorkers :
          /\ iworker[v].pc # "idle" => iworker[v].i # NoInst
          /\ iworker[v].pc \in {"recycle", "orphan"} => iworker[v].b # NoBinding

\* The pair stays reciprocal while b's lease waits for its Bound write.
HoldsPair(b) ==
    /\ inst[b.inst].binding = b
    /\ inst[b.inst].ref = b.lease
    /\ inst[b.inst].phase \in {"Leased", "Gone"}

\* Between finalize_binding's read of the pair and its write to the lease no
\* other actor takes the instance, as long as the write can still succeed.
PublishReady ==
    \A w \in LeaseWorkers :
        /\ worker[w].pc = "publish"
        /\ lease[worker[w].b.lease].phase = "Pending"
        /\ lease[worker[w].b.lease].binding = worker[w].b
        => HoldsPair(worker[w].b)

Ended == {"Recycling", "Gone"} \union Terminal

\* What an unwritten recovery or recycle rests on stays true until it writes:
\* the lease ended, or is gone for good.
RecoveryJustified ==
    /\ \A w \in LeaseWorkers : worker[w].pc \in {"recycle", "advance"} =>
          lease[worker[w].b.lease].phase \in Ended
    /\ \A v \in InstWorkers :
          /\ iworker[v].pc = "recycle" => lease[iworker[v].b.lease].phase \in Ended
          /\ iworker[v].pc = "orphan" => lease[iworker[v].b.lease].phase = "Gone"
-----------------------------------------------------------------------------
(* Properties.                                                             *)

\* Two Bound leases never share an instance: finalize_binding publishes Bound
\* after reading the instance, and its write fences the lease alone.
ExclusiveBinding ==
    \A l, m \in Leases :
        /\ lease[l].phase = "Bound"
        /\ lease[m].phase = "Bound"
        /\ lease[l].binding.inst = lease[m].binding.inst
        => l = m

\* The pair stays reciprocal: while a lease is Bound, the instance it names
\* carries the very same binding and leaseRef and is Leased, or its object was
\* deleted by hand; no recovery, recycle or reservation write of either
\* controller takes it away.
BoundReciprocal ==
    \A l \in Leases : lease[l].phase = "Bound" =>
        /\ lease[l].binding \in Bindings
        /\ lease[l].binding.lease = l
        /\ HoldsPair(lease[l].binding)

\* The inductive invariant: what every pass in flight relies on when it
\* writes one object on the strength of an earlier read of the other.
PairInv ==
    /\ TypeOK
    /\ BindingShape
    /\ ReservationShape
    /\ TaskShape
    /\ PublishReady
    /\ RecoveryJustified
    /\ BoundReciprocal

\* A reservation never rolls a teardown back: an instance that entered
\* Recycling or is being deleted is never offered or leased again.
TeardownNeverReopened ==
    [][\A i \in Insts :
         /\ inst[i].phase = "Recycling" => inst'[i].phase \in {"Recycling", "Gone"}
         /\ inst[i].deleting => inst'[i].deleting]_vars

\* While a lease is Bound and unexpired its cluster's backend is up.
TenantKeepsCluster ==
    \A l \in Leases :
        lease[l].phase = "Bound" /\ ~lease[l].expired
            => inst[lease[l].binding.inst].backend

\* Every lease gets a clean environment: a cluster that ever served a lease is
\* never offered as free capacity again.
UsedNeverOffered ==
    \A i \in Insts : FreeCapacity(i) => served[i] = {}

\* Clearing an intent never strands an adopted instance: a Leased instance
\* whose exact lease is still Pending is the one that lease intends.
AdoptedIntentKept ==
    \A i \in Insts :
        LET b == inst[i].binding IN
        /\ inst[i].phase = "Leased"
        /\ lease[b.lease].phase = "Pending"
        => lease[b.lease].binding = b

\* The Recycling arm destroys the backend of its own instance and no other,
\* even when a replacement of the same name exists.
RecycleDestroysOnlyItsOwn ==
    [][\A v \in InstWorkers :
         /\ iworker[v].pc = "destroy"
         /\ ~iworker[v].final
         /\ iworker'[v].pc = "finish"
         => \A j \in Insts \ {iworker[v].i} : inst'[j].backend = inst[j].backend]_vars
=============================================================================
