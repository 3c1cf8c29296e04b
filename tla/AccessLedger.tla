------------------------------ MODULE AccessLedger ------------------------------
(***************************************************************************)
(* The distributed access ledger of Sandbox leases                         *)
(* (src/src/sandbox_access_ledger.rs) with the replica-local stream        *)
(* registry in front of it (src/src/api/sandbox_streams.rs) and the        *)
(* handler that goes through both (register_live_stream, api/sandbox.rs).  *)
(*                                                                         *)
(* Every Sandbox lease owns one gate object; every principal owns one      *)
(* ledger object.  An operation (exec, attach, port-forward, log stream)   *)
(* may run only while it has an entry in both, so the gate is a barrier    *)
(* the release path closes and waits on, and the two entry counts are      *)
(* limits that hold across all API replicas.                               *)
(*                                                                         *)
(* Each object is changed by JSON patches that test its resourceVersion.   *)
(* A PATCH in flight is kept in "patch" for as long as the API server      *)
(* would still accept it: every write to the object makes the other        *)
(* PATCHes in flight on it void.                                           *)
(***************************************************************************)
EXTENDS Naturals, FiniteSets

CONSTANTS
  Leases, Principals, Ops,
  Pods,               \* API Pods, one per Pod UID
  NameOf,             \* Pod name; a replacement Pod may reuse one
  LeaseOf, PrincipalOf, PodOf, BootOf,   \* what an operation's entries record
  StreamsPerLease, StreamsPerPrincipal,  \* sandbox_limits
  MaxBoot,            \* bound: process starts per Pod
  LateCommits         \* may the API server apply a PATCH whose client is gone?

ASSUME OpsAssumption ==
  /\ IsFiniteSet(Ops)
  /\ LeaseOf \in [Ops -> Leases]
  /\ PrincipalOf \in [Ops -> Principals]
  /\ PodOf \in [Ops -> Pods]
  /\ BootOf \in [Ops -> Nat]

ASSUME LimitAssumption ==
  /\ StreamsPerLease \in Nat
  /\ StreamsPerPrincipal \in Nat
  /\ MaxBoot \in Nat
  /\ LateCommits \in BOOLEAN

VARIABLES
  lease,      \* the SandboxLease: see LeaseStates
  gate,       \* the gate object: "none", "open", "closed" or "deleted"
  gateE,      \* operations with an entry in the lease's gate
  ledger,     \* does the principal's ledger object exist?
  prinE,      \* operations with an entry in the principal's ledger
  patch,      \* the acquisition PATCH in flight that would still apply
  pc,         \* where the operation's handler is
  cancelled,  \* operations whose cancellation token has fired
  pod,        \* the API Pod and its process
  boot,       \* the number of the process running (or last run) in the Pod
  listed,     \* stale gate entries found by the start-up LIST of the Pod
  seen,       \* ended leases whose watch event the Pod has handled
  cleaned,    \* entries whose principal half a cleaner has removed
  drained,    \* leases whose gate the release path has seen Drained
  late        \* history: operations with a PATCH applied after its client left

ledgers == <<gate, gateE, ledger, prinE, patch>>
vars == <<lease, ledgers, pc, cancelled, pod, boot, listed, seen, cleaned, drained, late>>

\* Unadmitted, Ready, release requested or expired, Released/Expired with its
\* absence conditions, deleted.
LeaseStates == {"new", "ready", "ending", "clean", "absent"}
\* Acquiring: no complete registration yet.  Holding: both entries are in.
Acquiring == {"want", "gatePatch", "gateHeld", "prinPatch"}
Holding == {"held", "registered", "active"}
Releasing == {"settling", "relPrincipal", "relGate"}
InProcess == Acquiring \cup Holding \cup Releasing
PodStates == {"unborn", "starting", "serving", "down", "gone"}

TypeOK ==
  /\ lease \in [Leases -> LeaseStates]
  /\ gate \in [Leases -> {"none", "open", "closed", "deleted"}]
  /\ gateE \in [Leases -> SUBSET Ops]
  /\ ledger \in [Principals -> BOOLEAN]
  /\ prinE \in [Principals -> SUBSET Ops]
  /\ patch \in [Ops -> {"none", "gate", "principal"}]
  /\ pc \in [Ops -> InProcess \cup {"idle", "done", "dead"}]
  /\ cancelled \subseteq Ops
  /\ pod \in [Pods -> PodStates]
  /\ boot \in [Pods -> Nat]
  /\ listed \in [Pods -> SUBSET Ops]
  /\ seen \in [Pods -> SUBSET Leases]
  /\ cleaned \subseteq Ops
  /\ drained \subseteq Leases
  /\ late \subseteq Ops

Init ==
  /\ lease = [l \in Leases |-> "new"]
  /\ gate = [l \in Leases |-> "none"]
  /\ gateE = [l \in Leases |-> {}]
  /\ ledger = [p \in Principals |-> FALSE]
  /\ prinE = [p \in Principals |-> {}]
  /\ patch = [o \in Ops |-> "none"]
  /\ pc = [o \in Ops |-> "idle"]
  /\ cancelled = {}
  /\ pod = [q \in Pods |-> "unborn"]
  /\ boot = [q \in Pods |-> 0]
  /\ listed = [q \in Pods |-> {}]
  /\ seen = [q \in Pods |-> {}]
  /\ cleaned = {}
  /\ drained = {}
  /\ late = {}

\* Writing an object bumps its resourceVersion: PATCHes on it no longer apply.
VoidGate(l) ==
  [o \in Ops |-> IF patch[o] = "gate" /\ LeaseOf[o] = l THEN "none" ELSE patch[o]]
VoidPrincipal(p) ==
  [o \in Ops |-> IF patch[o] = "principal" /\ PrincipalOf[o] = p THEN "none" ELSE patch[o]]

\* CAS removal of one exact entry; an absent entry is already removed.
RemoveGateEntry(o) ==
  LET l == LeaseOf[o] IN
  /\ gateE' = [gateE EXCEPT ![l] = @ \ {o}]
  /\ patch' = IF o \in gateE[l] THEN VoidGate(l) ELSE patch
RemovePrincipalEntry(o) ==
  LET p == PrincipalOf[o] IN
  /\ prinE' = [prinE EXCEPT ![p] = @ \ {o}]
  /\ patch' = IF o \in prinE[p] THEN VoidPrincipal(p) ELSE patch

-----------------------------------------------------------------------------
(* The lease, as far as the ledger is concerned.                           *)

LeaseUnch == <<pc, cancelled, pod, boot, listed, seen, cleaned, drained, late>>

\* Admission: the gate is created (or an open empty one found) while the lease
\* is not admitted yet.  The lease may vanish meanwhile.
PrepareOpenGate(l) ==
  /\ gate[l] = "none"
  /\ lease[l] \in {"new", "absent"}
  /\ gate' = [gate EXCEPT ![l] = "open"]
  /\ UNCHANGED <<lease, gateE, ledger, prinE, patch, LeaseUnch>>

\* Admitted with the gate's UID, placed after verify_open_admitted_gate, Ready.
AdmitLease(l) ==
  /\ lease[l] = "new" /\ gate[l] = "open"
  /\ lease' = [lease EXCEPT ![l] = "ready"]
  /\ UNCHANGED <<ledgers, LeaseUnch>>

\* Failed admission deletes the lease, proves it absent, then removes the gate.
AbandonAdmission(l) ==
  /\ lease[l] = "new"
  /\ lease' = [lease EXCEPT ![l] = "absent"]
  /\ UNCHANGED <<ledgers, LeaseUnch>>

\* Mutation: the object is forgotten without the state the model keeps for it.
DropGate_Untyped(l) ==
  /\ gate' = [gate EXCEPT ![l] = "gone"]
  /\ patch' = VoidGate(l)
  /\ UNCHANGED <<lease, gateE, ledger, prinE, LeaseUnch>>

DropGate(l) ==
  /\ gate' = [gate EXCEPT ![l] = "deleted"]
  /\ patch' = VoidGate(l)
  /\ UNCHANGED <<lease, gateE, ledger, prinE, LeaseUnch>>

RemovePreAdmissionGate(l) ==
  /\ lease[l] = "absent"
  /\ gate[l] = "open" /\ gateE[l] = {}
  /\ DropGate(l)

\* Release request, expiry or deletion of a Ready lease.
EndLease(l) ==
  /\ lease[l] = "ready"
  /\ lease' = [lease EXCEPT ![l] = "ending"]
  /\ UNCHANGED <<ledgers, LeaseUnch>>

\* Mutation: the close does not test or bump the resourceVersion.
CloseGate_NoCas(l) ==
  /\ lease[l] = "ending" /\ gate[l] = "open"
  /\ gate' = [gate EXCEPT ![l] = "closed"]
  /\ UNCHANGED <<lease, gateE, ledger, prinE, patch, LeaseUnch>>

\* close_and_drain on an open gate: checkpoint the closure.
CloseGate(l) ==
  /\ lease[l] = "ending" /\ gate[l] = "open"
  /\ gate' = [gate EXCEPT ![l] = "closed"]
  /\ patch' = VoidGate(l)
  /\ UNCHANGED <<lease, gateE, ledger, prinE, LeaseUnch>>

\* close_and_drain on a closed gate without entries.
Drained(l) ==
  /\ lease[l] = "ending" /\ gate[l] = "closed" /\ gateE[l] = {}
  /\ drained' = drained \cup {l}
  /\ UNCHANGED <<lease, ledgers, pc, cancelled, pod, boot, listed, seen, cleaned, late>>

\* Teardown goes on only past Drained and ends Released or Expired, verified.
FinishRelease(l) ==
  /\ lease[l] = "ending" /\ l \in drained
  /\ lease' = [lease EXCEPT ![l] = "clean"]
  /\ UNCHANGED <<ledgers, LeaseUnch>>

DeleteLease(l) ==
  /\ lease[l] = "clean"
  /\ lease' = [lease EXCEPT ![l] = "absent"]
  /\ UNCHANGED <<ledgers, LeaseUnch>>

-----------------------------------------------------------------------------
(* One operation, in the process that serves it.                           *)

Goto(o, where) == pc' = [pc EXCEPT ![o] = where]
OpRest == <<lease, cancelled, pod, boot, listed, seen, cleaned, drained>>
OpUnch == <<OpRest, late>>

\* The handler has read a Ready lease; what it read may be stale from here on.
Begin(o) ==
  /\ pc[o] = "idle"
  /\ pod[PodOf[o]] = "serving" /\ boot[PodOf[o]] = BootOf[o]
  /\ lease[LeaseOf[o]] = "ready"
  /\ Goto(o, "want")
  /\ UNCHANGED <<ledgers, OpUnch>>

\* add_gate_entry: read, check state and limit, send the PATCH.
SendGatePatch(o) ==
  LET l == LeaseOf[o] IN
  /\ pc[o] = "want"
  /\ IF gate[l] = "open" /\ Cardinality(gateE[l]) < StreamsPerLease
       THEN patch' = [patch EXCEPT ![o] = "gate"] /\ Goto(o, "gatePatch")
       ELSE patch' = patch /\ Goto(o, "done")
  /\ UNCHANGED <<gate, gateE, ledger, prinE, OpUnch>>

\* Mutation: the limit is compared with the count before the insertion.
SendPrincipalPatch_OffByOne(o) ==
  LET p == PrincipalOf[o] IN
  /\ pc[o] = "gateHeld"
  /\ ledger' = [ledger EXCEPT ![p] = TRUE]
  /\ IF Cardinality(prinE[p]) <= StreamsPerPrincipal
       THEN patch' = [patch EXCEPT ![o] = "principal"] /\ Goto(o, "prinPatch")
       ELSE patch' = patch /\ Goto(o, "relGate")
  /\ UNCHANGED <<gate, gateE, prinE, OpUnch>>

\* add_principal_entry; at the limit the gate entry is taken back.
SendPrincipalPatch(o) ==
  LET p == PrincipalOf[o] IN
  /\ pc[o] = "gateHeld"
  /\ ledger' = [ledger EXCEPT ![p] = TRUE]
  /\ IF Cardinality(prinE[p]) < StreamsPerPrincipal
       THEN patch' = [patch EXCEPT ![o] = "principal"] /\ Goto(o, "prinPatch")
       ELSE patch' = patch /\ Goto(o, "relGate")
  /\ UNCHANGED <<gate, gateE, prinE, OpUnch>>

\* The API server applies a PATCH whose resourceVersion still matches.
CommitPatch(o) ==
  /\ \/ /\ patch[o] = "gate"
        /\ gateE' = [gateE EXCEPT ![LeaseOf[o]] = @ \cup {o}]
        /\ patch' = VoidGate(LeaseOf[o])
        /\ UNCHANGED prinE
     \/ /\ patch[o] = "principal"
        /\ prinE' = [prinE EXCEPT ![PrincipalOf[o]] = @ \cup {o}]
        /\ patch' = VoidPrincipal(PrincipalOf[o])
        /\ UNCHANGED gateE
  /\ late' = IF pc[o] \in {"gatePatch", "prinPatch", "settling"} THEN late ELSE late \cup {o}
  /\ UNCHANGED <<gate, ledger, pc, OpRest>>

\* The request never reaches the API server: its client gets an error.
LosePatch(o) ==
  /\ patch[o] # "none"
  /\ patch' = [patch EXCEPT ![o] = "none"]
  /\ IF pc[o] \in {"gatePatch", "prinPatch"} THEN Goto(o, "settling") ELSE UNCHANGED pc
  /\ UNCHANGED <<gate, gateE, ledger, prinE, OpUnch>>

\* The PATCH's answer: applied; a conflict, retried from the read; or 404.
GateReply(o) ==
  /\ pc[o] = "gatePatch" /\ patch[o] = "none"
  /\ Goto(o, IF o \in gateE[LeaseOf[o]] THEN "gateHeld" ELSE "want")
  /\ UNCHANGED <<ledgers, OpUnch>>
PrincipalReply(o) ==
  LET p == PrincipalOf[o] IN
  /\ pc[o] = "prinPatch" /\ patch[o] = "none"
  /\ Goto(o, CASE o \in prinE[p] -> "held"
               [] o \notin prinE[p] /\ ledger[p] -> "gateHeld"
               [] OTHER -> "settling")
  /\ UNCHANGED <<ledgers, OpUnch>>

\* register_confirmed: the local registration first ...
Register(o) ==
  /\ pc[o] = "held"
  /\ Goto(o, "registered")
  /\ UNCHANGED <<ledgers, OpUnch>>

\* Mutation: the stream starts on the lease read before registration.
Confirm_NoReread(o) ==
  /\ pc[o] = "registered"
  /\ Goto(o, IF o \notin cancelled THEN "active" ELSE "settling")
  /\ UNCHANGED <<ledgers, OpUnch>>

\* ... then a strong read of the lease decides.
Confirm(o) ==
  /\ pc[o] = "registered"
  /\ Goto(o, IF lease[LeaseOf[o]] = "ready" /\ o \notin cancelled
               THEN "active" ELSE "settling")
  /\ UNCHANGED <<ledgers, OpUnch>>

\* The revoker's watch: an ended lease cancels what this replica registered.
Revoke(q, l) ==
  /\ pod[q] = "serving"
  /\ lease[l] \notin {"new", "ready"} /\ l \notin seen[q]
  /\ seen' = [seen EXCEPT ![q] = @ \cup {l}]
  /\ cancelled' = cancelled \cup
       {o \in Ops : PodOf[o] = q /\ LeaseOf[o] = l /\ pc[o] \in {"registered", "active"}}
  /\ UNCHANGED <<lease, ledgers, pc, pod, boot, listed, cleaned, drained, late>>

\* The guard is dropped: an error, a cancelled request, the end of the stream.
Drop(o) ==
  /\ pc[o] \in Acquiring \cup Holding
  /\ Goto(o, "settling")
  /\ UNCHANGED <<ledgers, OpUnch>>

\* Drop waits for its own PATCH to be answered.  An error answer does not say
\* what the API server still does with it.
Settle(o) ==
  /\ pc[o] = "settling"
  /\ LateCommits \/ patch[o] = "none"
  /\ Goto(o, "relPrincipal")
  /\ UNCHANGED <<ledgers, OpUnch>>

\* release_exact: principal entry first, gate entry second.
ReleasePrincipal(o) ==
  /\ pc[o] = "relPrincipal"
  /\ RemovePrincipalEntry(o)
  /\ Goto(o, "relGate")
  /\ UNCHANGED <<gate, gateE, ledger, OpUnch>>
ReleaseGate(o) ==
  /\ pc[o] = "relGate"
  /\ RemoveGateEntry(o)
  /\ Goto(o, "done")
  /\ UNCHANGED <<gate, ledger, prinE, OpUnch>>

-----------------------------------------------------------------------------
(* Processes and Pods.                                                     *)

\* Mutation: only a replaced Pod makes an entry stale, not a restarted process.
Stale_UidOnly(o, q, b) == NameOf[PodOf[o]] = NameOf[q] /\ PodOf[o] # q

\* stale_for_current_replica: an entry of an earlier process in this slot.
Stale(o, q, b) == NameOf[PodOf[o]] = NameOf[q] /\ (PodOf[o] # q \/ BootOf[o] # b)

\* A process starts in Pod q: its LIST of the gates comes before it serves.
StartProcess(q) ==
  /\ \/ pod[q] = "unborn" /\ \A r \in Pods \ {q} : NameOf[r] = NameOf[q] => pod[r] \in {"unborn", "gone"}
     \/ pod[q] = "down"
  /\ boot[q] < MaxBoot
  /\ LateCommits \/ \A o \in Ops : Stale(o, q, boot[q] + 1) => patch[o] = "none"
  /\ pod' = [pod EXCEPT ![q] = "starting"]
  /\ boot' = [boot EXCEPT ![q] = @ + 1]
  /\ listed' = [listed EXCEPT ![q] =
       {o \in Ops : Stale(o, q, boot[q] + 1) /\ o \in gateE[LeaseOf[o]]}]
  /\ seen' = [seen EXCEPT ![q] = {l \in Leases : lease[l] \notin {"new", "ready"}}]
  /\ UNCHANGED <<lease, ledgers, pc, cancelled, cleaned, drained, late>>

\* recover_replica has retired every entry it listed: the routes serve.
Serve(q) ==
  /\ pod[q] = "starting"
  /\ \A o \in listed[q] : o \notin gateE[LeaseOf[o]]
  /\ pod' = [pod EXCEPT ![q] = "serving"]
  /\ listed' = [listed EXCEPT ![q] = {}]
  /\ UNCHANGED <<lease, ledgers, pc, cancelled, boot, seen, cleaned, drained, late>>

Kill(q, after) ==
  /\ pod' = [pod EXCEPT ![q] = after]
  /\ listed' = [listed EXCEPT ![q] = {}]
  /\ pc' = [o \in Ops |->
       IF PodOf[o] = q /\ (pc[o] \in InProcess \/ (pc[o] = "idle" /\ BootOf[o] <= boot[q]))
         THEN "dead" ELSE pc[o]]
  /\ UNCHANGED <<lease, ledgers, cancelled, boot, seen, cleaned, drained, late>>

\* The container dies; the Pod object stays and restarts it.
CrashProcess(q) ==
  /\ pod[q] \in {"starting", "serving"} /\ boot[q] < MaxBoot
  /\ Kill(q, "down")

DeletePod(q) ==
  /\ pod[q] \in {"starting", "serving", "down"}
  /\ Kill(q, "gone")

-----------------------------------------------------------------------------
(* Cleaning up after dead processes.                                       *)

CleanUnch == <<lease, pc, cancelled, pod, boot, listed, seen, drained, late>>

\* replica_is_live looks at the Pod only; start-up knows its own predecessors.
ReplicaGone(o) == pod[PodOf[o]] = "gone"
Dead(o) == ReplicaGone(o) \/ \E q \in Pods : pod[q] = "starting" /\ o \in listed[q]

\* close_and_drain, recover_replica and reap_dead_replica_entries retire one
\* listed gate entry: its principal entry first ...
CleanPrincipal(o) ==
  /\ o \in gateE[LeaseOf[o]] /\ Dead(o) /\ o \notin cleaned
  /\ RemovePrincipalEntry(o)
  /\ cleaned' = cleaned \cup {o}
  /\ UNCHANGED <<gate, gateE, ledger, CleanUnch>>
\* ... then the gate entry itself.
CleanGate(o) ==
  /\ o \in cleaned
  /\ RemoveGateEntry(o)
  /\ cleaned' = cleaned \ {o}
  /\ UNCHANGED <<gate, ledger, prinE, CleanUnch>>

\* reap_dead_principal_entries: entries no gate entry is paired with.
ReapUnpaired(o) ==
  /\ o \in prinE[PrincipalOf[o]] /\ o \notin gateE[LeaseOf[o]]
  /\ ReplicaGone(o)
  /\ RemovePrincipalEntry(o)
  /\ UNCHANGED <<gate, gateE, ledger, cleaned, CleanUnch>>

\* reap_empty: delete an empty principal ledger ...
ReapPrincipal(p) ==
  /\ ledger[p] /\ prinE[p] = {}
  /\ ledger' = [ledger EXCEPT ![p] = FALSE]
  /\ patch' = VoidPrincipal(p)
  /\ UNCHANGED <<gate, gateE, prinE, cleaned, CleanUnch>>
\* Mutation: an empty gate is garbage whatever its lease says.
ReapGate_Empty(l) ==
  /\ gate[l] \in {"open", "closed"} /\ gateE[l] = {}
  /\ DropGate(l)

\* ... and an empty gate whose lease is gone or verifiably finished.
ReapGate(l) ==
  /\ gate[l] \in {"open", "closed"} /\ gateE[l] = {}
  /\ lease[l] \in {"clean", "absent"}
  /\ DropGate(l)

-----------------------------------------------------------------------------
OpStep(o) ==
  \/ Begin(o) \/ SendGatePatch(o) \/ SendPrincipalPatch(o)
  \/ GateReply(o) \/ PrincipalReply(o) \/ Register(o) \/ Confirm(o)
  \/ Drop(o) \/ Settle(o) \/ ReleasePrincipal(o) \/ ReleaseGate(o)
PatchStep(o) == CommitPatch(o) \/ LosePatch(o)
CleanStep(o) == CleanPrincipal(o) \/ CleanGate(o) \/ ReapUnpaired(o)
LeaseStep(l) ==
  \/ PrepareOpenGate(l) \/ AdmitLease(l) \/ AbandonAdmission(l)
  \/ RemovePreAdmissionGate(l) \/ EndLease(l) \/ CloseGate(l) \/ Drained(l)
  \/ FinishRelease(l) \/ DeleteLease(l) \/ ReapGate(l)
PodStep(q) ==
  \/ StartProcess(q) \/ Serve(q) \/ CrashProcess(q) \/ DeletePod(q)
  \/ \E l \in Leases : Revoke(q, l)

Next ==
  \/ \E o \in Ops : OpStep(o) \/ PatchStep(o) \/ CleanStep(o)
  \/ \E l \in Leases : LeaseStep(l)
  \/ \E q \in Pods : PodStep(q)
  \/ \E p \in Principals : ReapPrincipal(p)

Spec == Init /\ [][Next]_vars

-----------------------------------------------------------------------------
(* What a running system guarantees: a live process goes on with what it    *)
(* started, its PATCHes are answered, cancelled streams end, the controller *)
(* requeues a lease that is not drained, the reaper ticks, and the kubelet  *)
(* restarts a container.  Nothing forces a caller to close a stream, a lease*)
(* to end or a Pod to go.                                                   *)

CancelledDrop(o) == o \in cancelled /\ Drop(o)
\* MAX_CAS_ATTEMPTS: the loop that re-reads after a conflict gives up.
Contended(o) == pc[o] \in {"want", "gateHeld"} /\ Drop(o)

Fairness ==
  /\ \A o \in Ops :
       /\ WF_vars(SendGatePatch(o)) /\ WF_vars(SendPrincipalPatch(o))
       /\ WF_vars(PatchStep(o)) /\ WF_vars(GateReply(o)) /\ WF_vars(PrincipalReply(o))
       /\ WF_vars(Register(o)) /\ WF_vars(Confirm(o)) /\ WF_vars(CancelledDrop(o))
       /\ SF_vars(Contended(o))
       /\ WF_vars(Settle(o)) /\ WF_vars(ReleasePrincipal(o)) /\ WF_vars(ReleaseGate(o))
       /\ WF_vars(CleanPrincipal(o)) /\ WF_vars(CleanGate(o)) /\ WF_vars(ReapUnpaired(o))
  /\ \A l \in Leases : WF_vars(CloseGate(l)) /\ WF_vars(Drained(l))
  /\ \A q \in Pods :
       /\ WF_vars(pod[q] = "down" /\ StartProcess(q)) /\ WF_vars(Serve(q))
       /\ \A l \in Leases : WF_vars(Revoke(q, l))

LiveSpec == Spec /\ Fairness

-----------------------------------------------------------------------------
(* The inductive invariant behind the safety properties.                   *)

\* A handler runs in the process that minted the operation id.
OwnerServes ==
  \A o \in Ops : pc[o] \in InProcess =>
    pod[PodOf[o]] = "serving" /\ boot[PodOf[o]] = BootOf[o]

\* What a handler believes it registered is still there.
EntriesHeld ==
  \A o \in Ops :
    /\ pc[o] \in {"gateHeld", "prinPatch"} \cup Holding => o \in gateE[LeaseOf[o]]
    /\ pc[o] \in Holding => o \in prinE[PrincipalOf[o]]

\* An operation that never began has left nothing anywhere.
IdleUnregistered ==
  \A o \in Ops : pc[o] = "idle" =>
    /\ patch[o] = "none"
    /\ o \notin gateE[LeaseOf[o]] /\ o \notin prinE[PrincipalOf[o]]

\* A PATCH that would still apply was computed from the current object.
PatchCurrent ==
  \A o \in Ops :
    /\ patch[o] = "gate" =>
         gate[LeaseOf[o]] = "open" /\ Cardinality(gateE[LeaseOf[o]]) < StreamsPerLease
    /\ patch[o] = "principal" => Cardinality(prinE[PrincipalOf[o]]) < StreamsPerPrincipal

WithinLimits ==
  /\ \A l \in Leases : Cardinality(gateE[l]) <= StreamsPerLease
  /\ \A p \in Principals : Cardinality(prinE[p]) <= StreamsPerPrincipal

\* Cleaners act on operations whose handler is over.
CleanersExact ==
  /\ \A o \in cleaned : pc[o] \in {"done", "dead"}
  /\ \A q \in Pods : \A o \in listed[q] : pc[o] \in {"done", "dead"}

\* One Pod at a time has a name.
NamesUnique ==
  \A q, r \in Pods : q # r /\ NameOf[q] = NameOf[r] =>
    pod[q] \in {"unborn", "gone"} \/ pod[r] \in {"unborn", "gone"}

DrainedStays ==
  \A l \in drained : gate[l] \in {"closed", "deleted"} /\ gateE[l] = {}

-----------------------------------------------------------------------------
(* Properties.                                                             *)

\* The release barrier: once the release path has seen a lease's gate drained
\* and gone on to destroy the target, no process serves an operation on that
\* lease and none is about to (a handler still acquiring cannot finish).
AccessBarrier ==
  \A o \in Ops : LeaseOf[o] \in drained => pc[o] \notin Holding

\* The limits of sandbox_limits hold over all replicas: what really runs, not
\* only what the ledgers list, stays within them, whoever crashed or whose
\* PATCH was answered when.
StreamLimits ==
  /\ \A l \in Leases :
       Cardinality({o \in Ops : LeaseOf[o] = l /\ pc[o] \in Holding}) <= StreamsPerLease
  /\ \A p \in Principals :
       Cardinality({o \in Ops : PrincipalOf[o] = p /\ pc[o] \in Holding}) <= StreamsPerPrincipal

\* The reaper never deletes the gate of a lease that still has to be released:
\* close_and_drain fails on a missing gate and the release would never end.
GateOutlivesLease ==
  \A l \in Leases : lease[l] \in {"ready", "ending"} => gate[l] \in {"open", "closed"}

LedgerInv ==
  /\ TypeOK /\ OwnerServes /\ EntriesHeld /\ IdleUnregistered /\ PatchCurrent
  /\ WithinLimits /\ CleanersExact /\ NamesUnique /\ DrainedStays /\ GateOutlivesLease

\* An entry committed after its client was gone, in a Pod that is still there:
\* no cleaner may touch it before the Pod goes or its next process starts.
Orphan(o) == o \in late /\ pod[PodOf[o]] # "gone"

\* A release gets past its barrier: streams are revoked on every replica, also
\* those that registered while the watch event passed, and what a crashed
\* process left in the gate is retired.  It waits for ever only on an orphan.
ReleaseDrains ==
  \A l \in Leases : lease[l] = "ending" ~>
    \/ l \in drained
    \/ [](\E o \in gateE[l] : Orphan(o))

\* A finished or killed operation gives its principal's slot back, or its entry
\* stays as an orphan until the Pod goes.
SlotsReturn ==
  \A o \in Ops : pc[o] \in {"done", "dead"} ~>
    \/ o \notin prinE[PrincipalOf[o]]
    \/ []Orphan(o)

=============================================================================
