-------------------------- MODULE VerifiedTeardown --------------------------
(***************************************************************************)
(* A VerifiedDestroy lease and the one instance its intent names: the      *)
(* connect-token creation protocol, the reservation, and the teardown that *)
(* releases the capacity only against evidence (src/controllers/lease.rs,  *)
(* src/controllers/instance.rs, src/api/connect.rs).                       *)
(*                                                                         *)
(* Writes to a Kubernetes object are fenced on its resourceVersion, so a   *)
(* read of one object and a write to it are one step, which only happens   *)
(* if the object has not moved; what a pass does to a second object in     *)
(* between makes separate steps.  Two replicas of the instance controller  *)
(* may overlap around a change of leader.                                  *)
(***************************************************************************)
EXTENDS Naturals, FiniteSets

CONSTANTS
    leader, deposed,    \* the replicas that run the instance controller
    MaxRetry            \* bound on teardown attempts that end Unknown

ASSUME RetryAssumption == MaxRetry \in Nat
ASSUME ReplicaAssumption == leader # deposed

VARIABLES
    separate,   \* whether the receipt authority is a process of its own
    lease,      \* the ClusterLease
    expired,    \* whether the TTL of a Bound lease has passed
    inst,       \* the ClusterInstance its binding intent names
    secret,     \* whether the connect-token Secret exists
    post,       \* whether the one permitted POST of that Secret is under way
    backend,    \* whether any resource of the sealed manifest is left
    evidence,   \* retryCount in the VerifiedTeardownEvidence object, or NoEvidence
    binder,     \* a reservation past its lease fence, not yet at the instance
    marker,     \* the lease a terminal pass read before it recycled the instance
    gate,       \* each replica's pass through verified_teardown_gate
    authority   \* the isolated authority's pass

vars == <<separate, lease, expired, inst, secret, post, backend, evidence, binder, marker, gate, authority>>

Replicas == {leader, deposed}

\* One attempt nonce is opened in a lease's life and every receipt reuses it, so
\* receipts differ in their retryCount (and in startedAt, which changes with it).
NoReceipt == [outcome |-> "none", retry |-> 0]
NoEvidence == MaxRetry + 1
Receipts == [outcome : {"none", "InProgress", "Unknown", "Verified"}, retry : 0..MaxRetry]

\* token is the phase of connectTokenCreation; it is "none" exactly while the lease
\* has no binding intent.  identity says whether the Secret's UID is in the binding.
LeaseStates ==
    [phase : {"Pending", "Bound", "Released", "Recycling", "Quarantined", "gone"},
     token : {"none", "Prepared", "Creating", "Reserved", "Ready", "Closing", "Closed"},
     identity : BOOLEAN, attempt : BOOLEAN, receipt : Receipts,
     proof : BOOLEAN, ack : BOOLEAN]

\* phase "Foreign" is an instance another lease reserved first.
InstanceStates ==
    [phase : {"Ready", "Foreign", "Leased", "Recycling", "Quarantined", "gone"},
     bound : BOOLEAN, deleting : BOOLEAN, override : BOOLEAN]

\* A pass keeps the objects it read, the outcome of its checks, and where it is.
IdlePass == [pc |-> "idle"]

\* A deposed leader makes no second pass.
PassOver(w) == IF w = leader THEN IdlePass ELSE [pc |-> "over"]

Init ==
    /\ separate \in BOOLEAN
    /\ lease = [phase |-> "Pending", token |-> "none", identity |-> FALSE,
                attempt |-> FALSE, receipt |-> NoReceipt, proof |-> FALSE, ack |-> FALSE]
    /\ expired = FALSE
    /\ inst = [phase |-> "Ready", bound |-> FALSE, deleting |-> FALSE, override |-> FALSE]
    /\ secret = FALSE /\ post = FALSE /\ backend = TRUE /\ evidence = NoEvidence
    /\ binder = FALSE /\ marker = IdlePass
    /\ gate = [w \in Replicas |-> IdlePass] /\ authority = IdlePass

\* instance_is_free_capacity and instance_matches_binding_subject: an instance that
\* is being deleted reads one generation ahead of the binding and does not match.
Free(i) == i.phase = "Ready" /\ ~i.bound /\ ~i.deleting

\* ReservationOutcome::Occupied
Occupied(i) == i.phase = "Foreign" \/ (i.phase = "Ready" /\ i.deleting)

passes == <<binder, marker, gate, authority>>
objects == <<inst, secret, post, backend, evidence>>
-----------------------------------------------------------------------------
(* Binding: the intent and the connect-token creation protocol *)

\* reserve_ready_instance: the intent and the Prepared attempt are one write.
PrepareIntent ==
    /\ lease.phase = "Pending" /\ lease.token = "none" /\ Free(inst)
    /\ lease' = [lease EXCEPT !.token = "Prepared"]
    /\ UNCHANGED <<separate, expired, objects, passes>>

\* complete_connect_token_creation, Prepared: Creating is durable before the only POST.
DispatchCreate ==
    /\ lease.phase = "Pending" /\ lease.token = "Prepared"
    /\ lease' = [lease EXCEPT !.token = "Creating"]
    /\ post' = TRUE
    /\ UNCHANGED <<separate, expired, inst, secret, backend, evidence, passes>>

PostLands ==
    /\ post /\ post' = FALSE /\ secret' = TRUE
    /\ UNCHANGED <<separate, expired, lease, inst, backend, evidence, passes>>

\* The process dies between the write and the POST, or the request never arrives.
PostLost ==
    /\ post /\ post' = FALSE
    /\ UNCHANGED <<separate, expired, lease, inst, secret, backend, evidence, passes>>

\* persist_reserved_connect_token, from the POST's answer or from a later observation.
SealToken ==
    /\ lease.phase = "Pending" /\ lease.token = "Creating" /\ secret
    /\ lease' = [lease EXCEPT !.token = "Reserved", !.identity = TRUE]
    /\ UNCHANGED <<separate, expired, objects, passes>>

\* activate_reserved_lease_connect_token, then Ready.
ActivateToken ==
    /\ lease.phase = "Pending" /\ lease.token = "Reserved" /\ secret
    /\ lease' = [lease EXCEPT !.token = "Ready"]
    /\ UNCHANGED <<separate, expired, objects, passes>>

\* reserve_binding_instance: the lease fence is read here ...
StartReserve ==
    /\ lease.phase = "Pending" /\ lease.token = "Ready" /\ ~binder
    /\ binder' = TRUE
    /\ UNCHANGED <<separate, expired, lease, objects, marker, gate, authority>>

\* ... and the instance is written some time later, whatever the lease is by then.
LandReserve ==
    /\ binder /\ binder' = FALSE
    /\ inst' = IF Free(inst) THEN [inst EXCEPT !.phase = "Leased", !.bound = TRUE] ELSE inst
    /\ UNCHANGED <<separate, expired, lease, secret, post, backend, evidence, marker, gate, authority>>

\* clear_lease_binding_intent, close_abandoned_pending_binding: the candidate is lost.
AbandonIntent ==
    /\ lease.phase = "Pending" /\ lease.token = "Ready" /\ Occupied(inst)
    /\ lease' = [lease EXCEPT !.token = "Closing"]
    /\ UNCHANGED <<separate, expired, objects, passes>>

\* finalize_binding
FinalizeBinding ==
    /\ lease.phase = "Pending" /\ lease.token = "Ready" /\ secret
    /\ inst.bound /\ inst.phase = "Leased" /\ ~inst.deleting
    /\ lease' = [lease EXCEPT !.phase = "Bound"]
    /\ UNCHANGED <<separate, expired, objects, passes>>

\* The lease's TTL passes; the write of Expired comes later.
TtlElapses ==
    /\ lease.phase = "Bound" /\ ~expired
    /\ expired' = TRUE
    /\ UNCHANGED <<separate, lease, objects, passes>>

\* A release through the API, or the expiry; Released and Expired take the same arm.
Release ==
    /\ lease.phase \in {"Pending", "Bound"}
    /\ lease' = [lease EXCEPT !.phase = "Released"] /\ expired' = FALSE
    /\ UNCHANGED <<separate, objects, passes>>
-----------------------------------------------------------------------------
(* The terminal arm of the lease controller *)

\* ensure_unbound_release_attempt, or reconcile_release_authority when the authority
\* is separate: the nonce is durable before anything is deleted or looked up.
OpenAttempt ==
    /\ lease.phase = "Released" /\ ~lease.attempt
    /\ lease' = [lease EXCEPT !.attempt = TRUE]
    /\ UNCHANGED <<separate, expired, objects, passes>>

Terminal == lease.phase = "Released" /\ lease.attempt

\* Mutation: a Secret that is not there after Creating is taken for one never made.
NextToken_AbsentIsClosed(l, s) ==
    CASE l.token = "Prepared" -> [l EXCEPT !.token = "Closed"]
      [] l.token = "Creating" /\ s -> [l EXCEPT !.token = "Closing", !.identity = TRUE]
      [] l.token = "Creating" /\ ~s -> [l EXCEPT !.token = "Closed"]
      [] l.token \in {"Reserved", "Ready"} -> [l EXCEPT !.token = "Closing"]
      [] OTHER -> l

\* close_terminal_connect_token_creation: a 404 in Creating is ambiguous and waits.
NextToken(l, s) ==
    CASE l.token = "Prepared" -> [l EXCEPT !.token = "Closed"]
      [] l.token = "Creating" /\ s -> [l EXCEPT !.token = "Closing", !.identity = TRUE]
      [] l.token \in {"Reserved", "Ready"} -> [l EXCEPT !.token = "Closing"]
      [] OTHER -> l

CloseCreation ==
    /\ Terminal /\ NextToken(lease, secret) # lease
    /\ lease' = NextToken(lease, secret)
    /\ UNCHANGED <<separate, expired, objects, passes>>

\* delete_lease_connect_token_verified on the exact UID, in Closing.
RevokeToken ==
    /\ lease.token = "Closing" /\ (lease.phase = "Pending" \/ Terminal)
    /\ secret /\ secret' = FALSE
    /\ UNCHANGED <<separate, expired, lease, inst, post, backend, evidence, passes>>

\* The Secret was observed absent.
ConfirmRevoked ==
    /\ lease.token = "Closing" /\ (lease.phase = "Pending" \/ Terminal) /\ ~secret
    /\ lease' = [lease EXCEPT !.token = "Closed"]
    /\ UNCHANGED <<separate, expired, objects, passes>>

\* retained_unstarted_binding_is_closed
Unstarted == lease.token = "Closed" /\ ~lease.identity

\* reserve_binding_instance_after_lease_fence from the terminal arm.
AdoptIntent ==
    /\ Terminal /\ lease.token = "Closed" /\ lease.identity /\ Free(inst)
    /\ inst' = [inst EXCEPT !.phase = "Leased", !.bound = TRUE]
    /\ UNCHANGED <<separate, expired, lease, secret, post, backend, evidence, passes>>

\* authority_never_bound_observation and record_unbound_release_proof.
ProveNeverBound ==
    /\ Terminal /\ (lease.token = "none" \/ Unstarted) /\ ~lease.proof
    /\ lease.receipt.outcome = "none"
    /\ ~secret /\ ~inst.bound
    /\ lease' = [lease EXCEPT !.proof = TRUE]
    /\ UNCHANGED <<separate, expired, objects, passes>>

\* resolve_lease_binding (Lifecycle) and mark_instance_recycling.  Only an instance
\* that is still Leased gets here: the reservation above answers Retry for one that
\* is Recycling already, and the pass ends.
RecycleInstance ==
    /\ Terminal /\ lease.token = "Closed" /\ lease.identity
    /\ inst.bound /\ inst.phase = "Leased" /\ ~inst.deleting
    /\ inst' = [inst EXCEPT !.phase = "Recycling"]
    /\ marker' = [pc |-> "marked", lease |-> lease]
    /\ UNCHANGED <<separate, expired, lease, secret, post, backend, evidence, binder, gate, authority>>

\* The same pass writes the lease, if it has not moved.
RecycleLease ==
    /\ marker.pc = "marked" /\ marker' = IdlePass
    /\ lease' = IF lease = marker.lease THEN [lease EXCEPT !.phase = "Recycling"] ELSE lease
    /\ UNCHANGED <<separate, expired, objects, binder, gate, authority>>

\* The Recycling arm while the instance exists.
RecycleAgain ==
    /\ lease.phase = "Recycling" /\ inst.bound /\ inst.phase = "Leased"
    /\ inst' = [inst EXCEPT !.phase = "Recycling"]
    /\ UNCHANGED <<separate, expired, lease, secret, post, backend, evidence, passes>>

\* The consumer takes the proof over: validated_child_receipt_token and the
\* acknowledgement it writes, as an annotation or through the authority.
Acknowledge ==
    /\ lease.phase # "gone" /\ ~lease.ack
    /\ lease.proof \/ lease.receipt.outcome = "Verified"
    /\ lease' = [lease EXCEPT !.ack = TRUE]
    /\ UNCHANGED <<separate, expired, objects, passes>>

\* Retention ends: teardown_receipt_acknowledged or unbound_release_proof_acknowledged.
RetireLease ==
    /\ lease.ack
    /\ \/ Terminal /\ lease.proof
       \/ lease.phase = "Recycling" /\ inst.phase = "gone"
    /\ lease' = [lease EXCEPT !.phase = "gone"]
    /\ UNCHANGED <<separate, expired, objects, passes>>
-----------------------------------------------------------------------------
(* verified_teardown_gate *)

Goto(w, p) == gate' = [gate EXCEPT ![w] = p]

\* verify_instance_teardown: an unexpired Bound lease still serves a tenant.
Serving == lease.phase = "Bound" /\ ~expired

\* Mutation: quarantine is final.
GateRuns_NoRetry ==
    /\ inst.bound /\ inst.phase \notin {"gone", "Quarantined"}
    /\ inst.deleting \/ inst.phase = "Recycling"
    /\ ~Serving

\* The arms that enter the gate: a deletion, Recycling, and Quarantined again and
\* again.  An operator override of a Quarantined instance goes around it.
GateRuns ==
    /\ inst.bound /\ inst.phase # "gone"
    /\ \/ inst.deleting /\ ~Serving
       \/ inst.phase = "Recycling" /\ ~Serving
       \/ inst.phase = "Quarantined" /\ ~inst.deleting
    /\ ~(inst.phase = "Quarantined" /\ inst.override)

CanRun(w) == gate[w].pc = "idle" /\ GateRuns

\* record_teardown_receipt for a new attempt
InProgress(l) ==
    [l EXCEPT !.attempt = TRUE,
              !.receipt = [outcome |-> "InProgress",
                           retry |-> IF @.outcome = "none" THEN 0 ELSE @.retry + 1]]

\* Mutation: the attempt is written with its outcome, after the deletes.
BeginAttempt_Later(w) ==
    /\ CanRun(w) /\ lease.phase # "gone" /\ ~separate
    /\ lease.receipt.outcome \in {"none", "Unknown"}
    /\ Goto(w, [pc |-> "token", lease |-> lease, inst |-> inst])
    /\ UNCHANGED <<separate, expired, lease, objects, binder, marker, authority>>

\* The attempt is durable before the first DELETE.
BeginAttempt(w) ==
    /\ CanRun(w) /\ lease.phase # "gone" /\ ~separate
    /\ lease.receipt.outcome \in {"none", "Unknown"}
    /\ lease' = InProgress(lease)
    /\ Goto(w, [pc |-> "token", lease |-> lease', inst |-> inst])
    /\ UNCHANGED <<separate, expired, objects, binder, marker, authority>>

\* A pending attempt is resumed, by its own nonce.
ResumeAttempt(w) ==
    /\ CanRun(w) /\ lease.phase # "gone" /\ lease.receipt.outcome = "InProgress"
    /\ Goto(w, [pc |-> "token", lease |-> lease, inst |-> inst])
    /\ UNCHANGED <<separate, expired, lease, objects, binder, marker, authority>>

\* A Verified receipt left by an earlier pass is consumed.
ResumeVerified(w) ==
    /\ CanRun(w) /\ lease.phase # "gone" /\ lease.receipt.outcome = "Verified"
    /\ Goto(w, [pc |-> "consume", lease |-> lease, inst |-> inst])
    /\ UNCHANGED <<separate, expired, lease, objects, binder, marker, authority>>

\* The lease is gone or cannot be read.
LeaseUnreadable(w) ==
    /\ CanRun(w)
    /\ Goto(w, [pc |-> "quarantine", inst |-> inst])
    /\ UNCHANGED <<separate, expired, lease, objects, binder, marker, authority>>

\* The bound: an attempt that would need a retry past MaxRetry does not fail.
MayBe(ok, w) == ok \/ separate \/ gate[w].lease.receipt.retry < MaxRetry

\* A check that stays Unknown says nothing of what the delete did.
AfterDelete(there, ok) == IF ok THEN {FALSE} ELSE {FALSE, there}

\* delete_lease_connect_token_verified; the check may stay Unknown.
DeleteToken(w, ok) ==
    /\ gate[w].pc = "token" /\ MayBe(ok, w)
    /\ secret' \in AfterDelete(secret, ok)
    /\ Goto(w, [pc |-> "backend", lease |-> gate[w].lease, inst |-> gate[w].inst, ok |-> ok])
    /\ UNCHANGED <<separate, expired, lease, inst, post, backend, evidence, binder, marker, authority>>

\* Mutation: the token's check does not count.
AllAbsent_BackendOnly(p, ok) == ok

\* TeardownReceipt::outcome_for: Verified only if every check is Absent.
AllAbsent(p, ok) == p.ok /\ ok

\* delete_verified_manifest.  With a separate authority the pass ends here; a backend
\* that cannot be resolved or has no such operation quarantines.
DeleteBackend(w, ok) ==
    /\ gate[w].pc = "backend" /\ MayBe(ok, w)
    /\ backend' \in AfterDelete(backend, ok)
    /\ IF separate THEN Goto(w, PassOver(w))
       ELSE LET p == gate[w] IN
            Goto(w, [pc |-> IF AllAbsent(p, ok) THEN "evidence" ELSE "record",
                     lease |-> p.lease, inst |-> p.inst,
                     outcome |-> IF AllAbsent(p, ok) THEN "Verified" ELSE "Unknown"])
    /\ UNCHANGED <<separate, expired, lease, inst, secret, post, evidence, binder, marker, authority>>

BackendUnsupported(w) ==
    /\ gate[w].pc = "backend"
    /\ Goto(w, [pc |-> "quarantine", inst |-> gate[w].inst])
    /\ UNCHANGED <<separate, expired, lease, objects, binder, marker, authority>>

\* persist_verified_teardown_evidence: the object's name is the lease UID and the
\* attempt, and one that exists is adopted only if its receipt is the same.
Adoptable(r) == evidence \in {NoEvidence, r.retry}

PersistEvidence(w) ==
    /\ gate[w].pc = "evidence"
    /\ LET p == gate[w] IN
       IF Adoptable(p.lease.receipt)
       THEN evidence' = p.lease.receipt.retry /\ Goto(w, [p EXCEPT !.pc = "record"])
       ELSE Goto(w, PassOver(w)) /\ UNCHANGED evidence
    /\ UNCHANGED <<separate, expired, lease, inst, secret, post, backend, binder, marker, authority>>

\* record_teardown_receipt for the outcome.
RecordOutcome(w) ==
    /\ gate[w].pc = "record"
    /\ LET p == gate[w] IN
       IF lease = p.lease
       THEN /\ lease' = [lease EXCEPT !.receipt.outcome = p.outcome]
            /\ Goto(w, [pc |-> IF p.outcome = "Verified" THEN "consume" ELSE "quarantine",
                        lease |-> lease', inst |-> p.inst])
       ELSE Goto(w, PassOver(w)) /\ UNCHANGED lease
    /\ UNCHANGED <<separate, expired, objects, binder, marker, authority>>

\* mark_exact_lease_recycling_after_verified
ConsumeReceipt(w) ==
    /\ gate[w].pc = "consume"
    /\ LET p == gate[w] IN
       IF p.lease.phase = "Recycling"
       THEN Goto(w, [pc |-> "advance", inst |-> p.inst]) /\ UNCHANGED lease
       ELSE IF lease = p.lease
       THEN lease' = [lease EXCEPT !.phase = "Recycling"] /\ Goto(w, [pc |-> "advance", inst |-> p.inst])
       ELSE Goto(w, PassOver(w)) /\ UNCHANGED lease
    /\ UNCHANGED <<separate, expired, objects, binder, marker, authority>>

\* advance_verified_instance_deletion: the fenced DELETE, then the finalizer.
AdvanceDeletion(w) ==
    /\ gate[w].pc = "advance" /\ Goto(w, PassOver(w))
    /\ inst' = IF inst # gate[w].inst THEN inst
               ELSE IF inst.deleting THEN [inst EXCEPT !.phase = "gone"]
               ELSE [inst EXCEPT !.deleting = TRUE]
    /\ UNCHANGED <<separate, expired, lease, secret, post, backend, evidence, binder, marker, authority>>

\* quarantine_instance: the fenced instance write ...
QuarantineInstance(w) ==
    /\ gate[w].pc = "quarantine"
    /\ IF inst = gate[w].inst
       THEN inst' = [inst EXCEPT !.phase = "Quarantined"] /\ Goto(w, [pc |-> "surface"])
       ELSE Goto(w, PassOver(w)) /\ UNCHANGED inst
    /\ UNCHANGED <<separate, expired, lease, secret, post, backend, evidence, binder, marker, authority>>

\* ... then mark_exact_lease_quarantined, which reads the lease afresh.
QuarantineLease(w) ==
    /\ gate[w].pc = "surface" /\ Goto(w, PassOver(w))
    /\ lease' = IF lease.phase = "gone" THEN lease ELSE [lease EXCEPT !.phase = "Quarantined"]
    /\ UNCHANGED <<separate, expired, objects, binder, marker, authority>>
-----------------------------------------------------------------------------
(* The isolated receipt authority *)

\* receipt_authority_reciprocal_binding_matches.  The generation is the one the
\* binding recorded, so an instance that is being deleted never matches.
Reciprocal ==
    /\ separate
    /\ inst.bound /\ inst.phase \in {"Recycling", "Quarantined"} /\ ~inst.deleting
    /\ lease.phase \in {"Released", "Recycling", "Quarantined"}

\* reconcile_receipt_authority, no receipt yet.
AuthorityBegins ==
    /\ Reciprocal /\ lease.receipt.outcome = "none"
    /\ lease' = InProgress(lease)
    /\ UNCHANGED <<separate, expired, objects, passes>>

\* verify_absent_manifest and observe_lease_connect_token_absent: read only.
AuthorityObserves ==
    /\ Reciprocal /\ authority.pc = "idle" /\ lease.receipt.outcome = "InProgress"
    /\ ~backend /\ ~secret
    /\ authority' = [pc |-> "evidence", lease |-> lease]
    /\ UNCHANGED <<separate, expired, lease, objects, binder, marker, gate>>

AuthorityPersists ==
    /\ authority.pc = "evidence"
    /\ IF Adoptable(authority.lease.receipt)
       THEN /\ evidence' = authority.lease.receipt.retry
            /\ authority' = [authority EXCEPT !.pc = "record"]
       ELSE authority' = IdlePass /\ UNCHANGED evidence
    /\ UNCHANGED <<separate, expired, lease, inst, secret, post, backend, binder, marker, gate>>

AuthorityRecords ==
    /\ authority.pc = "record" /\ authority' = IdlePass
    /\ lease' = IF lease = authority.lease
                THEN [lease EXCEPT !.receipt.outcome = "Verified"] ELSE lease
    /\ UNCHANGED <<separate, expired, objects, binder, marker, gate>>
-----------------------------------------------------------------------------
(* Operators, the pool, and faults *)

\* Another lease reserves the candidate, or the pool recycles it.
LoseCandidate ==
    /\ Free(inst)
    /\ \E p \in {"Foreign", "gone"} : inst' = [inst EXCEPT !.phase = p]
    /\ UNCHANGED <<separate, expired, lease, secret, post, backend, evidence, passes>>

\* kubectl delete clusterinstance, or the cascade of a ClusterPool's deletion.
DeleteInstance ==
    /\ inst.phase \in {"Ready", "Leased", "Recycling", "Quarantined"} /\ ~inst.deleting
    /\ inst' = [inst EXCEPT !.deleting = TRUE]
    /\ UNCHANGED <<separate, expired, lease, secret, post, backend, evidence, passes>>

\* An unbound instance has no receipt to wait for.
FinalizeFree ==
    /\ inst.phase = "Ready" /\ inst.deleting
    /\ inst' = [inst EXCEPT !.phase = "gone"] /\ backend' = FALSE
    /\ UNCHANGED <<separate, expired, lease, secret, post, evidence, passes>>

\* release_quarantined_lease: access is revoked first.  A Sandbox composition's
\* lease is refused; this one may be either.
OverrideLease ==
    /\ lease.phase = "Quarantined"
    /\ secret' = FALSE /\ lease' = [lease EXCEPT !.phase = "gone"]
    /\ UNCHANGED <<separate, expired, inst, post, backend, evidence, passes>>

\* An operator names the UID of a Quarantined instance: DELETE ...
OverrideInstance ==
    /\ inst.phase = "Quarantined" /\ ~inst.override
    /\ inst' = [inst EXCEPT !.override = TRUE, !.deleting = TRUE]
    /\ UNCHANGED <<separate, expired, lease, secret, post, backend, evidence, passes>>

\* ... and release_quarantined_instance_finalizer, on absence or after its timeout.
OverrideFinalizer ==
    /\ inst.phase = "Quarantined" /\ inst.override /\ inst.deleting /\ ~Serving
    /\ inst' = [inst EXCEPT !.phase = "gone"]
    /\ backend' \in {FALSE, backend}
    /\ UNCHANGED <<separate, expired, lease, secret, post, evidence, passes>>

\* A crash, a lost answer or an error ends a pass between two of its steps.  (The
\* pass of the deposed leader may simply take no further step.)
AbandonGate ==
    /\ gate[leader].pc # "idle" /\ Goto(leader, IdlePass)
    /\ UNCHANGED <<separate, expired, lease, objects, binder, marker, authority>>

AbandonMarker ==
    /\ marker.pc # "idle" /\ marker' = IdlePass
    /\ UNCHANGED <<separate, expired, lease, objects, binder, gate, authority>>

AbandonAuthority ==
    /\ authority.pc # "idle" /\ authority' = IdlePass
    /\ UNCHANGED <<separate, expired, lease, objects, binder, marker, gate>>
-----------------------------------------------------------------------------
BindSteps ==
    \/ PrepareIntent \/ DispatchCreate \/ SealToken \/ ActivateToken
    \/ StartReserve \/ LandReserve \/ AbandonIntent \/ FinalizeBinding

TerminalSteps ==
    \/ OpenAttempt \/ CloseCreation \/ RevokeToken \/ ConfirmRevoked \/ AdoptIntent
    \/ ProveNeverBound \/ RecycleInstance \/ RecycleLease \/ RecycleAgain
    \/ Acknowledge \/ RetireLease

GateSteps(w) ==
    \/ BeginAttempt(w) \/ ResumeAttempt(w) \/ ResumeVerified(w)
    \/ DeleteToken(w, TRUE) \/ DeleteBackend(w, TRUE) \/ PersistEvidence(w) \/ RecordOutcome(w)
    \/ ConsumeReceipt(w) \/ AdvanceDeletion(w) \/ QuarantineInstance(w) \/ QuarantineLease(w)

AuthoritySteps ==
    AuthorityBegins \/ AuthorityObserves \/ AuthorityPersists \/ AuthorityRecords

Environment ==
    \/ PostLands \/ PostLost \/ TtlElapses \/ Release
    \/ LoseCandidate \/ DeleteInstance \/ FinalizeFree
    \/ OverrideLease \/ OverrideInstance \/ OverrideFinalizer

Faults ==
    \/ \E w \in Replicas : \/ LeaseUnreadable(w) \/ BackendUnsupported(w)
                           \/ DeleteToken(w, FALSE) \/ DeleteBackend(w, FALSE)
    \/ AbandonGate \/ AbandonMarker \/ AbandonAuthority

Sound ==
    \/ BindSteps \/ TerminalSteps \/ (\E w \in Replicas : GateSteps(w))
    \/ AuthoritySteps \/ Environment

Next == Sound \/ Faults

Spec == Init /\ [][Next]_vars

\* Reconciles are requeued and served; faults do not go on for ever.
LiveSpec ==
    /\ Spec
    /\ WF_vars(TerminalSteps) /\ WF_vars(AuthoritySteps)
    /\ WF_vars(GateSteps(leader) \/ OverrideFinalizer)
    /\ <>[][Sound]_vars
-----------------------------------------------------------------------------
\* Type correctness of the objects.
TypeOK ==
    /\ separate \in BOOLEAN
    /\ expired \in BOOLEAN /\ lease \in LeaseStates /\ inst \in InstanceStates
    /\ secret \in BOOLEAN /\ post \in BOOLEAN /\ backend \in BOOLEAN /\ binder \in BOOLEAN
    /\ evidence \in 0..NoEvidence

\* ReleasedOnProof: the instance loses its last cleanup handle only against evidence:
\* when a bound instance is gone without an operator's override, the whole manifest
\* and the token are absent and the immutable evidence object exists; and a Verified
\* receipt on the lease is always the one in that object.
ReleasedOnProof ==
    /\ inst.bound /\ inst.phase = "gone" /\ ~inst.override =>
         ~backend /\ ~secret /\ evidence # NoEvidence
    /\ lease.receipt.outcome = "Verified" => ~backend /\ ~secret /\ evidence = lease.receipt.retry

\* NeverBoundSound: a NeverBound proof stays true: no token exists or is still on its
\* way, and no reservation, however late, ever gives the lease an instance.
NeverBoundSound == lease.proof => ~secret /\ ~post /\ ~binder /\ ~inst.bound

\* DestroyAfterAttempt: nothing a tenant had is destroyed before the attempt that
\* accounts for it is durable: the cluster only under an InProgress receipt, the
\* token of a terminal lease only under the attempt nonce, overrides aside.
DestroyAfterAttempt ==
    [][/\ inst.bound /\ backend /\ ~backend' =>
            lease.receipt.outcome # "none" \/ inst.override
       /\ secret /\ ~secret' =>
            lease.attempt \/ lease.phase = "Pending" \/ lease'.phase = "gone"]_vars

\* TeardownEnds: the teardown of a leased instance ends, through failed deletes,
\* quarantine and lost answers, unless the lease itself was overridden away, or the
\* evidence is of an earlier try than the receipt (a 409 for ever), or a separate
\* authority can no longer match an instance that was deleted before its receipt.
Ending == inst.bound /\ lease.phase \in {"Released", "Recycling", "Quarantined"}
StaleEvidence == evidence # NoEvidence /\ evidence # lease.receipt.retry
Unattestable == separate /\ inst.deleting /\ lease.receipt.outcome # "Verified"
TeardownEnds ==
    Ending ~> (inst.phase = "gone" \/ lease.phase = "gone" \/ StaleEvidence \/ Unattestable)
=============================================================================
