----------------------------- MODULE SandboxLease -----------------------------
(***************************************************************************)
(* One admitted SandboxLease of the management placement, from admission   *)
(* to the removal of its finalizer, as src/src/controllers/sandbox.rs      *)
(* drives it.  A worker is the reconcile pass of one controller replica:   *)
(* the leader's, and one that outlived its leadership.  A pass works on    *)
(* the lease it was handed, reads the other objects as it goes, and makes  *)
(* at most one status write, fenced by the lease's resourceVersion.        *)
(*                                                                         *)
(* The CREATE of a SandboxClaim is a request that the API server may       *)
(* commit long after the pass that sent it gave up.  Release therefore     *)
(* never frees the Claim's name: it turns the Claim into an expired        *)
(* "Retain" tombstone, or creates the tombstone under the same name.       *)
(***************************************************************************)
EXTENDS Naturals, Sequences, FiniteSets

CONSTANTS Workers,   \* reconcile passes that may be in progress at once
          MaxUid     \* how many Claim objects the API server may create

ASSUME SandboxLeaseAssumption == MaxUid \in Nat \ {0}

VARIABLES lease,     \* the SandboxLease: status, request annotation, finalizer
          signals,   \* the order in which the deadlines and the request fell
          drained,   \* access closed and drained, executions and credentials gone
          fence,     \* the allocation fence object exists
          claim,     \* the object under the lease's Claim name, or NoClaim
          uids,      \* Claim UIDs handed out so far
          posts,     \* CREATE requests for the Claim name in flight
          workload,  \* per Claim UID, what the upstream controller runs for it
          ended,     \* the Pod reached a terminal phase by itself
          quota,     \* the admission reservations are held
          pass       \* per worker, the pass it is in

vars == <<lease, signals, drained, fence, claim, uids, posts, workload, ended, quota, pass>>
objects == <<drained, fence, claim, uids, posts, workload, ended, quota>>

-----------------------------------------------------------------------------
Uids   == 1 .. MaxUid
NoUid  == 0
NoClaim == [uid |-> NoUid, shape |-> "none", until |-> "none"]
Claims == [uid : Uids, shape : {"active", "deleting", "tomb"},
           until : {"provisioning", "ttl", "past"}]
Posts  == [by : Workers, shape : {"active", "tomb"}]

Phases  == {"Pending", "Provisioning", "Ready", "Releasing", "Quarantined", "Released", "Expired"}
Causes  == {"request", "provisioning", "ttl", "lost", "disabled", "unverifiable"}
Leases  == [exists : BOOLEAN, phase : Phases, cause : Causes \cup {"none"}, requested : BOOLEAN,
            finalizer : BOOLEAN, placed : BOOLEAN, pool : BOOLEAN, ready : BOOLEAN,
            canary : BOOLEAN, cleanup : {"none", "AdmissionOnly", "PreCreate", "Finalizer"},
            claim : Uids \cup {NoUid}, sandbox : BOOLEAN, tomb : Uids \cup {NoUid},
            fenced : BOOLEAN, absent : BOOLEAN]
Pcs == {"idle", "gated", "posted", "claimed", "stamped", "ensure", "standing",
        "nosandbox", "proved", "freed"}
Admitted == [exists |-> TRUE, phase |-> "Pending", cause |-> "none", requested |-> FALSE,
             finalizer |-> TRUE, placed |-> FALSE, pool |-> FALSE, ready |-> FALSE,
             canary |-> FALSE, cleanup |-> "none", claim |-> NoUid, sandbox |-> FALSE,
             tomb |-> NoUid, fenced |-> FALSE, absent |-> FALSE]
Idle == [pc |-> "idle", snap |-> Admitted, obs |-> NoClaim]

Done(l)    == l.phase \in {"Released", "Expired"}
Live(u)    == workload[u] # {}

-----------------------------------------------------------------------------
(* release_reason: a persisted cause wins; otherwise the earlier of the    *)
(* deadline that applies and the request the object carries.               *)
Applies(l, s) == CASE s = "request"      -> l.requested
                   [] s = "provisioning" -> ~l.ready
                   [] s = "ttl"          -> l.ready

release_reason(l) ==
    LET found == {i \in DOMAIN signals : Applies(l, signals[i])}
    IN  IF Done(l) THEN "none"
        ELSE IF l.cause # "none" THEN l.cause
        ELSE IF found = {} THEN "none"
        ELSE signals[CHOOSE i \in found : \A j \in found : i <= j]

terminal_phase(cause) == IF cause \in {"ttl", "provisioning"} THEN "Expired" ELSE "Released"

(* A status write lands only on the object version the pass was handed,    *)
(* and ends the pass.  A pass that touches nothing but the lease between   *)
(* its read and its write is therefore one step, and needs no worker.      *)
Write(w, new) ==
    /\ lease' = IF lease = pass[w].snap THEN new ELSE lease
    /\ pass' = [pass EXCEPT ![w] = Idle]
    /\ UNCHANGED <<signals, objects>>

Leave(w) == pass' = [pass EXCEPT ![w] = Idle]
Goto(w, pc) == pass' = [pass EXCEPT ![w].pc = pc]

Checkpoint(new) ==
    /\ lease' = new
    /\ UNCHANGED <<signals, objects, pass>>

Snap(w) == pass[w].snap
At(w, pc) == pass[w].pc = pc
Enter(w, pc, obs) == pass' = [pass EXCEPT ![w] = [pc |-> pc, snap |-> lease, obs |-> obs]]

Placing   == lease.exists /\ ~Done(lease) /\ lease.finalizer /\ release_reason(lease) = "none"
Releasing == lease.exists /\ ~Done(lease) /\ release_reason(lease) # "none"
Passed(s) == \E i \in DOMAIN signals : signals[i] = s

-----------------------------------------------------------------------------
(* The environment: the caller, time, the API server, Agent Sandbox.       *)

Request ==
    /\ lease.exists /\ ~lease.requested /\ ~Done(lease)
    /\ lease' = [lease EXCEPT !.requested = TRUE]
    /\ signals' = Append(signals, "request")
    /\ UNCHANGED <<objects, pass>>

Elapse(s) ==
    /\ ~Passed(s)
    /\ (s = "ttl") = lease.ready
    /\ lease.exists /\ ~Done(lease)
    /\ signals' = Append(signals, s)
    /\ UNCHANGED <<lease, objects, pass>>

\* What AccessLedger and SandboxExecution show of a lease that left Ready.
DrainAccess ==
    /\ lease.phase = "Releasing" /\ ~drained
    /\ drained' = TRUE
    /\ UNCHANGED <<lease, signals, fence, claim, uids, posts, workload, ended, quota, pass>>

LandCreate(p) ==
    /\ p \in posts
    /\ posts' = posts \ {p}
    /\ IF claim = NoClaim /\ uids < MaxUid
         THEN /\ uids' = uids + 1
              /\ claim' = [uid |-> uids + 1, shape |-> p.shape,
                           until |-> IF p.shape = "tomb" THEN "past" ELSE "provisioning"]
         ELSE UNCHANGED <<claim, uids>>
    /\ UNCHANGED <<lease, signals, drained, fence, workload, ended, quota, pass>>

LoseCreate(p) ==
    /\ p \in posts
    /\ posts' = posts \ {p}
    /\ UNCHANGED <<lease, signals, drained, fence, claim, uids, workload, ended, quota, pass>>

\* Agent Sandbox: a live Claim gets a Sandbox, the Sandbox a Pod.
Expired(c) == c.until = "past" \/ Passed(c.until)

RunWorkload ==
    /\ claim.shape = "active" /\ ~Expired(claim) /\ ~ended
    /\ \/ workload[claim.uid] = {} /\ workload' = [workload EXCEPT ![claim.uid] = {"sandbox"}]
       \/ workload[claim.uid] = {"sandbox"} /\ workload' = [workload EXCEPT ![claim.uid] = {"sandbox", "pod"}]
    /\ UNCHANGED <<lease, signals, drained, fence, claim, uids, posts, ended, quota, pass>>

\* An expired Claim that is not a tombstone is deleted; Kobe's finalizer keeps it.
ExpireClaim ==
    /\ claim.shape = "active" /\ Expired(claim)
    /\ claim' = [claim EXCEPT !.shape = "deleting"]
    /\ UNCHANGED <<lease, signals, drained, fence, uids, posts, workload, ended, quota, pass>>

\* The Sandbox of an expired, deleted or swept Claim goes, and its Pod, in either order.
StopWorkload(u) ==
    /\ Live(u)
    /\ claim.uid # u \/ claim.shape # "active" \/ Expired(claim)
    /\ \E part \in workload[u] : workload' = [workload EXCEPT ![u] = @ \ {part}]
    /\ UNCHANGED <<lease, signals, drained, fence, claim, uids, posts, ended, quota, pass>>

EndPod ==
    /\ ~ended /\ claim.shape = "active" /\ "pod" \in workload[claim.uid]
    /\ ended' = TRUE
    /\ UNCHANGED <<lease, signals, drained, fence, claim, uids, posts, workload, quota, pass>>

-----------------------------------------------------------------------------
(* A pass may end anywhere: an error, a timeout, the death of its process. *)

Abandon(w) ==
    /\ ~At(w, "idle")
    /\ Leave(w)
    /\ UNCHANGED <<lease, signals, objects>>

\* What a pass cannot do yet it leaves to a later one.
Requeue(w) ==
    /\ \/ At(w, "posted")
       \/ At(w, "claimed") /\ (workload[pass[w].obs.uid] # {"sandbox", "pod"} \/ ended)
       \/ At(w, "standing") /\ \E u \in Uids : "sandbox" \in workload[u]
       \/ At(w, "nosandbox") /\ \E u \in Uids : "pod" \in workload[u]
    /\ Leave(w)
    /\ UNCHANGED <<lease, signals, objects>>

-----------------------------------------------------------------------------
(* Placement: every checkpoint precedes the step it makes recoverable.     *)

RecordPlacement ==
    /\ Placing /\ ~lease.placed
    /\ Checkpoint([lease EXCEPT !.placed = TRUE])

BeginProvisioning ==
    /\ Placing /\ lease.placed /\ lease.phase = "Pending"
    /\ Checkpoint([lease EXCEPT !.phase = "Provisioning"])

RecordPool ==
    /\ Placing /\ lease.phase = "Provisioning" /\ ~lease.pool
    /\ Checkpoint([lease EXCEPT !.pool = TRUE])

RecordCleanupFence ==
    /\ Placing /\ lease.pool /\ lease.cleanup = "none"
    /\ Checkpoint([lease EXCEPT !.cleanup = "Finalizer"])

\* verify_open_admitted_gate could not be answered: 401, 403 or a foreign gate.
QuarantineGate ==
    /\ Placing
    /\ Checkpoint([lease EXCEPT !.phase = "Quarantined", !.cause = "unverifiable"])

(* create_sandbox_claim_fenced: a fresh read of the lease, then of the     *)
(* fence, then the POST.                                                   *)
sandbox_lease_authorizes_allocation(l) ==
    /\ l.exists /\ l.finalizer
    /\ l.phase = "Provisioning"
    /\ ~l.fenced /\ ~l.absent
    /\ release_reason(l) = "none"

GateLease(w) ==
    /\ At(w, "idle") /\ Placing /\ lease.cleanup = "Finalizer" /\ lease.claim = NoUid
    /\ sandbox_lease_authorizes_allocation(lease)
    /\ Enter(w, "gated", NoClaim)
    /\ UNCHANGED <<lease, signals, objects>>

GateFence(w) ==
    /\ At(w, "gated")
    /\ IF fence THEN Leave(w) /\ UNCHANGED posts
       ELSE Goto(w, "posted") /\ posts' = posts \cup {[by |-> w, shape |-> "active"]}
    /\ UNCHANGED <<lease, signals, drained, fence, claim, uids, workload, ended, quota>>

(* The Claim is read, after the CREATE or as the recorded one: it must     *)
(* carry no deletion and no tombstone shape.                               *)
ReadCreated(w) ==
    /\ At(w, "posted") /\ [by |-> w, shape |-> "active"] \notin posts
    /\ IF claim.shape = "active"
         THEN pass' = [pass EXCEPT ![w].pc = "claimed", ![w].obs = claim]
         ELSE Leave(w)
    /\ UNCHANGED <<lease, signals, objects>>

GetClaim(w) ==
    /\ At(w, "idle") /\ Placing /\ lease.claim # NoUid
    /\ claim.shape = "active" /\ lease.claim = claim.uid
    /\ Enter(w, "claimed", claim)
    /\ UNCHANGED <<lease, signals, objects>>

RecordClaim(w) ==
    /\ At(w, "claimed") /\ Snap(w).claim = NoUid
    /\ Write(w, [Snap(w) EXCEPT !.claim = pass[w].obs.uid])

Serving(u) == workload[u] = {"sandbox", "pod"} /\ ~ended

RecordCanary(w) ==
    /\ At(w, "claimed") /\ Snap(w).claim # NoUid /\ ~Snap(w).canary
    /\ Serving(pass[w].obs.uid)
    /\ Write(w, [Snap(w) EXCEPT !.canary = TRUE])

RecordProvenance(w) ==
    /\ At(w, "claimed") /\ Snap(w).canary /\ ~Snap(w).sandbox
    /\ Serving(pass[w].obs.uid)
    /\ Write(w, [Snap(w) EXCEPT !.sandbox = TRUE])

\* Mutation: the lifecycle PATCH without the Claim's resourceVersion.
StampShutdown_Unfenced(w) ==
    /\ At(w, "claimed") /\ Snap(w).sandbox /\ Serving(pass[w].obs.uid)
    /\ Snap(w).ready \/ ~Passed("provisioning")
    /\ IF claim # NoClaim
         THEN claim' = [pass[w].obs EXCEPT !.until = "ttl"] /\ Goto(w, "stamped")
         ELSE Leave(w) /\ UNCHANGED claim
    /\ UNCHANGED <<lease, signals, drained, fence, uids, posts, workload, ended, quota>>

\* stamp_upstream_shutdown carries the resourceVersion of the Claim that was read.
StampShutdown(w) ==
    /\ At(w, "claimed") /\ Snap(w).sandbox /\ Serving(pass[w].obs.uid)
    /\ Snap(w).ready \/ ~Passed("provisioning")
    /\ IF claim = pass[w].obs
         THEN claim' = [claim EXCEPT !.until = "ttl"] /\ Goto(w, "stamped")
         ELSE Leave(w) /\ UNCHANGED claim
    /\ UNCHANGED <<lease, signals, drained, fence, uids, posts, workload, ended, quota>>

MarkReady(w) ==
    /\ At(w, "stamped")
    /\ Write(w, [Snap(w) EXCEPT !.phase = "Ready", !.ready = TRUE])

-----------------------------------------------------------------------------
(* Release.  The first write persists the phase with its cause, and with   *)
(* what the status of that very version proves was never started.          *)

admitted_pending_is_allocation_free(l) ==
    l.phase = "Pending" /\ ~l.placed /\ ~l.pool /\ l.cleanup = "none" /\ l.cause = "none"

pre_create_is_allocation_free(l) ==
    l.phase \in {"Pending", "Provisioning"} /\ ~l.ready /\ ~l.pool
       /\ l.cleanup = "none" /\ l.cause = "none"

\* Mutation: a lease that has not recorded a Claim counts as never started.
ToReleasing_Unnamed(l, cause) ==
    [l EXCEPT !.phase = "Releasing", !.cause = cause,
              !.cleanup = IF admitted_pending_is_allocation_free(l) THEN "AdmissionOnly"
                          ELSE IF l.claim = NoUid /\ l.phase = "Provisioning" THEN "PreCreate" ELSE @]

ToReleasing(l, cause) ==
    [l EXCEPT !.phase = "Releasing", !.cause = cause,
              !.cleanup = IF admitted_pending_is_allocation_free(l) THEN "AdmissionOnly"
                          ELSE IF pre_create_is_allocation_free(l) THEN "PreCreate" ELSE @]

BeginRelease ==
    /\ Releasing /\ lease.phase # "Releasing"
    /\ Checkpoint(ToReleasing(lease, release_reason(lease)))

\* A deadline that passed after the pass had read its lease as placeable.
BeginLateRelease(w) ==
    /\ At(w, "claimed") /\ Snap(w).sandbox /\ ~Snap(w).ready
    /\ Passed("provisioning")
    /\ Write(w, ToReleasing(Snap(w), "provisioning"))

\* placement_enabled is off: placed and unplaced leases alike are drained.
DisableMode ==
    /\ Placing
    /\ Checkpoint(ToReleasing(lease, "disabled"))

\* The Claim reports Finished and the recorded Pod confirms it.
ReleaseLost(w) ==
    /\ At(w, "claimed") /\ Snap(w).sandbox /\ ended
    /\ "pod" \in workload[pass[w].obs.uid]
    /\ Write(w, ToReleasing(Snap(w), "lost"))

\* Evidence that cannot be read: 401, 403, or a reference of the wrong shape.
Quarantine(w) ==
    /\ ~Snap(w).absent
    /\ Write(w, [Snap(w) EXCEPT !.phase = "Quarantined"])

Forbidden ==
    /\ Releasing /\ lease.phase = "Releasing" /\ ~lease.absent
    /\ Checkpoint([lease EXCEPT !.phase = "Quarantined"])

(* ensure_allocation_fence: the object first, then its record in status.   *)
Fencing == Releasing /\ lease.phase = "Releasing" /\ drained

CreateFence ==
    /\ Fencing /\ ~lease.fenced /\ ~fence
    /\ fence' = TRUE
    /\ UNCHANGED <<lease, signals, drained, claim, uids, posts, workload, ended, quota, pass>>

RecordFence ==
    /\ Fencing /\ ~lease.fenced /\ fence
    /\ Checkpoint([lease EXCEPT !.fenced = TRUE])

Tearing == Fencing /\ lease.fenced /\ fence

(* The Claim name is read.  A live Claim nobody recorded is recovered; an  *)
(* empty name, or a tombstone, goes on to the tombstone helper.            *)
TombstoneSeen == claim = NoClaim \/ lease.tomb # NoUid \/ claim.shape = "tomb"

RecoverClaim ==
    /\ Tearing /\ ~lease.absent /\ lease.claim = NoUid /\ ~TombstoneSeen
    /\ Checkpoint([lease EXCEPT !.claim = claim.uid, !.pool = TRUE])

\* checkpoint_management_descendants, while the Claim can still name them.
Unrecorded == claim.uid = lease.claim /\ "sandbox" \in workload[claim.uid] /\ ~lease.sandbox

CheckpointDescendants ==
    /\ Tearing /\ ~lease.absent /\ lease.claim # NoUid /\ Unrecorded
    /\ Checkpoint([lease EXCEPT !.sandbox = TRUE])

BeginEnsure(w) ==
    /\ At(w, "idle") /\ Tearing /\ ~lease.absent
    /\ IF lease.claim = NoUid THEN TombstoneSeen ELSE ~Unrecorded
    /\ Enter(w, "ensure", NoClaim)
    /\ UNCHANGED <<lease, signals, objects>>

(* ensure_management_claim_tombstone: its own read of the name, then one   *)
(* effect, after which the pass ends unless the tombstone already stands.  *)
CreateTombstone(w) ==
    /\ At(w, "ensure") /\ claim = NoClaim /\ Snap(w).tomb = NoUid
    /\ posts' = posts \cup {[by |-> w, shape |-> "tomb"]}
    /\ Leave(w)
    /\ UNCHANGED <<lease, signals, drained, fence, claim, uids, workload, ended, quota>>

RecordTombstone(w) ==
    /\ At(w, "ensure") /\ claim # NoClaim /\ Snap(w).tomb = NoUid
    /\ Write(w, [Snap(w) EXCEPT !.tomb = claim.uid])

ConvertClaim(w) ==
    /\ At(w, "ensure") /\ Snap(w).tomb = claim.uid /\ claim # NoClaim /\ claim.shape # "tomb"
    /\ claim' = [claim EXCEPT !.shape = "tomb", !.until = "past"]
    /\ Leave(w)
    /\ UNCHANGED <<lease, signals, drained, fence, uids, posts, workload, ended, quota>>

Standing(w) ==
    /\ At(w, "ensure") /\ Snap(w).tomb = claim.uid /\ claim.shape = "tomb"
    /\ Goto(w, "standing")
    /\ UNCHANGED <<lease, signals, objects>>

(* checkpoint_never_started_management_claim.                              *)
NeverStarted(w) ==
    /\ At(w, "standing") /\ Snap(w).claim = NoUid
    /\ Snap(w).cleanup = "Finalizer" /\ Snap(w).pool
    /\ Write(w, [Snap(w) EXCEPT !.claim = Snap(w).tomb])

ProvenanceMissing(w) ==
    /\ At(w, "standing") /\ Snap(w).claim = NoUid /\ Snap(w).cleanup = "none"
    /\ Quarantine(w)

(* management_target_footprint_absent and its two never-named forms: the   *)
(* Sandboxes are listed before the Pods, so that none can be added behind  *)
(* the second listing.                                                     *)
Named(w) == {Snap(w).claim, Snap(w).tomb} \ {NoUid}

\* Mutation: only a lease that recorded its Sandbox can be proven absent.
Provable_Recorded(w) == Snap(w).claim # NoUid /\ Snap(w).sandbox

Provable(w) == Snap(w).claim # NoUid \/ Snap(w).cleanup \in {"AdmissionOnly", "PreCreate"}

CheckSandboxes(w) ==
    /\ At(w, "standing") /\ Provable(w)
    /\ \A u \in Named(w) : "sandbox" \notin workload[u]
    /\ Goto(w, "nosandbox")
    /\ UNCHANGED <<lease, signals, objects>>

SandboxUnrecorded(w) ==
    /\ At(w, "standing") /\ Provable(w) /\ ~Snap(w).sandbox
    /\ \E u \in Named(w) : "sandbox" \in workload[u]
    /\ Quarantine(w)

\* Mutation: the listing of the Pods is skipped when no Sandbox was recorded.
CheckPods_Recorded(w) ==
    /\ At(w, "nosandbox")
    /\ Snap(w).sandbox => \A u \in Named(w) : "pod" \notin workload[u]
    /\ Goto(w, "proved")
    /\ UNCHANGED <<lease, signals, objects>>

CheckPods(w) ==
    /\ At(w, "nosandbox")
    /\ \A u \in Named(w) : "pod" \notin workload[u]
    /\ Goto(w, "proved")
    /\ UNCHANGED <<lease, signals, objects>>

(* finish_release: the proof, the reservations, the terminal phase.        *)
CheckpointAbsence(w) ==
    /\ At(w, "proved")
    /\ Write(w, [Snap(w) EXCEPT !.absent = TRUE])

\* Mutation: the reservations are given back with the proof still unwritten.
ReleaseReservations_Early(w) ==
    /\ At(w, "idle") /\ Tearing
    /\ quota' = FALSE
    /\ IF lease.absent THEN Enter(w, "freed", NoClaim) ELSE UNCHANGED pass
    /\ UNCHANGED <<lease, signals, drained, fence, claim, uids, posts, workload, ended>>

ReleaseReservations(w) ==
    /\ At(w, "idle") /\ Tearing /\ lease.absent
    /\ quota' = FALSE
    /\ Enter(w, "freed", NoClaim)
    /\ UNCHANGED <<lease, signals, drained, fence, claim, uids, posts, workload, ended>>

Terminate(w) ==
    /\ At(w, "freed")
    /\ Write(w, [Snap(w) EXCEPT !.phase = terminal_phase(Snap(w).cause)])

RemoveFinalizer ==
    /\ lease.exists /\ Done(lease) /\ lease.finalizer /\ lease.absent
    /\ Checkpoint([lease EXCEPT !.finalizer = FALSE])

-----------------------------------------------------------------------------
(* Retention.  The lease is kept for audit, then deleted; tombstone and    *)
(* fence follow it after their own deadline, which outlives every bounded  *)
(* create: no request and no gated pass is older than it.                  *)

DeleteLease ==
    /\ lease.exists /\ Done(lease) /\ ~lease.finalizer
    /\ lease' = [lease EXCEPT !.exists = FALSE]
    /\ UNCHANGED <<signals, objects, pass>>

Outlived == posts = {} /\ \A w \in Workers : ~At(w, "gated")

SweepTombstone ==
    /\ ~lease.exists /\ Outlived /\ claim.shape = "tomb"
    /\ claim' = NoClaim
    /\ UNCHANGED <<lease, signals, drained, fence, uids, posts, workload, ended, quota, pass>>

SweepFence ==
    /\ ~lease.exists /\ Outlived /\ fence
    /\ fence' = FALSE
    /\ UNCHANGED <<lease, signals, drained, claim, uids, posts, workload, ended, quota, pass>>

-----------------------------------------------------------------------------
Init ==
    /\ lease = Admitted
    /\ signals = <<>>
    /\ drained = FALSE /\ fence = FALSE /\ ended = FALSE /\ quota = TRUE
    /\ claim = NoClaim /\ uids = 0 /\ posts = {}
    /\ workload = [u \in Uids |-> {}]
    /\ pass = [w \in Workers |-> Idle]

Controller ==
    \/ RecordPlacement \/ BeginProvisioning \/ RecordPool \/ RecordCleanupFence
    \/ BeginRelease \/ CreateFence \/ RecordFence \/ RecoverClaim \/ CheckpointDescendants
    \/ RemoveFinalizer

Place(w) ==
    \/ GateLease(w) \/ GateFence(w) \/ ReadCreated(w) \/ GetClaim(w) \/ RecordClaim(w)
    \/ RecordCanary(w) \/ RecordProvenance(w) \/ StampShutdown(w) \/ MarkReady(w)

Release(w) ==
    \/ BeginLateRelease(w) \/ ReleaseLost(w) \/ BeginEnsure(w)
    \/ CreateTombstone(w) \/ RecordTombstone(w)
    \/ ConvertClaim(w) \/ Standing(w) \/ NeverStarted(w) \/ ProvenanceMissing(w)
    \/ CheckSandboxes(w) \/ SandboxUnrecorded(w) \/ CheckPods(w) \/ CheckpointAbsence(w)
    \/ ReleaseReservations(w) \/ Terminate(w)

Upstream == RunWorkload \/ ExpireClaim \/ (\E u \in Uids : StopWorkload(u))
Network  == \E p \in Posts : LandCreate(p)
Sweep    == DeleteLease \/ SweepTombstone \/ SweepFence

Sound ==
    \/ Request \/ QuarantineGate \/ DisableMode
    \/ \E s \in {"provisioning", "ttl"} : Elapse(s)
    \/ DrainAccess \/ Network \/ Upstream \/ EndPod \/ Sweep \/ Controller
    \/ \E w \in Workers : Requeue(w) \/ Place(w) \/ Release(w)

Fault ==
    \/ Forbidden \/ (\E p \in Posts : LoseCreate(p)) \/ (\E w \in Workers : Abandon(w))

Next == Sound \/ Fault

Spec == Init /\ [][Next]_vars

-----------------------------------------------------------------------------
(* Every variable stays in its set.                                        *)
TypeOK ==
    /\ lease \in Leases /\ claim \in Claims \cup {NoClaim}
    /\ signals \in Seq({"request", "provisioning", "ttl"})
    /\ {drained, fence, ended, quota} \subseteq BOOLEAN
    /\ uids \in 0 .. MaxUid /\ posts \subseteq Posts
    /\ workload \in [Uids -> SUBSET {"sandbox", "pod"}]
    /\ pass \in [Workers -> [pc : Pcs, snap : Leases, obs : Claims \cup {NoClaim}]]

Nothing == claim.shape \in {"none", "tomb"} /\ \A u \in Uids : ~Live(u)

(* finish_release: once FootprintAbsent is in the status, and after the    *)
(* lease is gone, neither a late CREATE nor a pass of a deposed leader     *)
(* brings the workload back.                                               *)
NoWorkloadAfterProof == lease.absent => Nothing

(* finish_release: the reservations, and the finalizer that guards them,   *)
(* are given back only when nothing runs any more.                         *)
QuotaCoversWorkload == ~quota \/ ~lease.finalizer => Nothing

(* admitted_pending_is_allocation_free, pre_create_is_allocation_free: a   *)
(* release that says nothing was ever named has no Claim, no CREATE on its *)
(* way and no pass beyond the create gate.                                 *)
NeverNamedIsEmpty ==
    lease.cleanup \in {"AdmissionOnly", "PreCreate"} =>
       /\ Nothing /\ \A p \in posts : p.shape = "tomb"
       /\ \A w \in Workers : pass[w].pc \notin {"gated", "posted"}

(* ensure_management_claim_tombstone: while the lease exists its Claim     *)
(* name holds one object only, and that object is the one status names.    *)
NameHeld ==
    lease.exists => /\ uids <= 1
                    /\ lease.claim \in {NoUid, claim.uid}
                    /\ lease.tomb \in {NoUid, claim.uid}

(* A tombstone that status has recorded stays one until its lease is gone: *)
(* no stale pass turns it back into a live Claim.                          *)
TombstoneStays ==
    [][claim.shape = "tomb" /\ lease.exists => claim' = claim]_vars

(* drive_release: the first cause that is written decides the outcome.     *)
FirstCauseWins ==
    [][lease.cause # "none" => lease'.cause = lease.cause]_vars

-----------------------------------------------------------------------------
(* Fairness: passes are requeued and run, the API server answers, Agent    *)
(* Sandbox acts, time goes on; errors and lost requests end eventually.    *)
Fairness ==
    /\ \A w \in Workers : WF_vars(Requeue(w) \/ Place(w) \/ Release(w))
    /\ WF_vars(Controller) /\ WF_vars(Network) /\ WF_vars(DrainAccess)
    /\ WF_vars(ExpireClaim) /\ WF_vars(\E u \in Uids : StopWorkload(u))
    /\ WF_vars(Elapse("provisioning")) /\ WF_vars(Elapse("ttl"))
    /\ <>[][Sound]_vars

LiveSpec == Spec /\ Fairness

Ended == Done(lease) /\ ~lease.finalizer

(* pre_create_is_allocation_free: an early cancel can be proven harmless   *)
(* in the whole window before a Claim is created, so every lease comes to  *)
(* an end and gives its capacity back.                                     *)
LeaseEnds == <>Ended

\* The release began with no cleanup fence in status, and took none.
HeldUnproven == lease.cause # "none" /\ lease.cleanup = "none"

(* Every lease comes to an end: it is Ready and expires, or it is released *)
(* or times out, and its finalizer is removed; unless its release began    *)
(* with no cleanup fence in status.                                        *)
LeaseEndsUnlessHeld == <>(Ended \/ HeldUnproven)
=============================================================================
