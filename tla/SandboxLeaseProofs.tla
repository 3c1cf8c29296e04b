-------------------------- MODULE SandboxLeaseProofs --------------------------
(***************************************************************************)
(* Proofs about SandboxLease, for any number of concurrent passes and of   *)
(* Claim objects: LeaseInv is inductive, and the safety and the action     *)
(* properties of a release follow from it.                                 *)
(***************************************************************************)
EXTENDS SandboxLease, WellFoundedInduction, TLAPS

\* A pass was handed a lease that existed, and goes on only with a live Claim.
Passes ==
    \A w \in Workers :
        /\ pass[w].snap.exists
        /\ pass[w].pc \in {"gated", "posted", "claimed", "stamped"} => pass[w].snap.cause = "none"
        /\ pass[w].pc \in {"claimed", "stamped"} =>
             /\ pass[w].obs.shape = "active"
             /\ lease.exists => pass[w].obs.uid = claim.uid

\* While the lease exists its name is taken once, by the only Claim that ever
\* had a workload.
NameTaken ==
    lease.exists =>
        /\ uids <= 1 /\ claim.uid = uids
        /\ \A u \in Uids : Live(u) => u = uids

ActivePosts == {p \in posts : p.shape = "active"}

\* Before the cleanup fence is in the status nothing of the Claim is under way.
FenceFirst ==
    lease.cleanup # "Finalizer" =>
        /\ Nothing /\ ActivePosts = {}
        /\ \A w \in Workers : pass[w].pc \notin {"gated", "posted", "claimed", "stamped"}

\* A proof of absence in progress stands on the tombstone it names, and what it
\* has not found cannot come back.
ProofGrows ==
    \A w \in Workers :
        lease.exists /\ pass[w].pc \in {"standing", "nosandbox", "proved"} =>
            /\ claim.shape = "tomb" /\ pass[w].snap.tomb = claim.uid
            /\ pass[w].pc # "standing" => \A u \in Uids : "sandbox" \notin workload[u]
            /\ pass[w].pc = "proved" => \A u \in Uids : ~Live(u)

\* Reservations, finalizer and lease outlive the proof; after it nothing runs, and
\* when the name comes free no CREATE is left that could take it.
AbsenceHolds ==
    /\ ~quota \/ ~lease.finalizer \/ ~lease.exists => lease.absent
    /\ lease.absent => Nothing
    /\ lease.absent /\ claim = NoClaim =>
         ActivePosts = {} /\ \A w \in Workers : pass[w].pc # "gated"

LeaseInv ==
    /\ TypeOK /\ Passes /\ NameTaken /\ NameHeld
    /\ FenceFirst /\ ProofGrows /\ AbsenceHolds

-----------------------------------------------------------------------------
(* What the variables and the operators are made of.                       *)

LEMMA LeaseTyped ==
    ASSUME TypeOK
    PROVE  /\ lease \in Leases /\ claim \in Claims \cup {NoClaim}
           /\ pass \in [Workers -> [pc : Pcs, snap : Leases, obs : Claims \cup {NoClaim}]]
           /\ uids \in Nat
           /\ workload \in [Uids -> SUBSET {"sandbox", "pod"}]
BY DEF TypeOK

LEMMA SnapTyped ==
    ASSUME TypeOK
    PROVE  /\ lease \in Leases /\ claim \in Claims \cup {NoClaim}
           /\ \A w \in Workers :
                pass[w].snap \in Leases /\ pass[w].obs \in Claims \cup {NoClaim}
BY DEF TypeOK

\* A set of positions has a first one, which is the one release_reason takes.
LEMMA FirstSignal ==
    ASSUME NEW T \in SUBSET Nat, T # {}
    PROVE  (CHOOSE i \in T : \A j \in T : i <= j) \in T
<1>1. PICK x \in T : \A y \in T : ~(<<y, x>> \in OpToRel(<, Nat))
  BY NatLessThanWellFounded, WFMin
<1>2. \A y \in T : x <= y
  <2> SUFFICES ASSUME NEW y \in T, ~(x <= y) PROVE FALSE
    OBVIOUS
  <2>1. <<y, x>> \in Nat \X Nat /\ <<y, x>>[1] < <<y, x>>[2]
    OBVIOUS
  <2>2. <<y, x>> \in OpToRel(<, Nat)
    BY <2>1, Zenon DEF OpToRel
  <2> QED
    BY <1>1, <2>2
<1> QED
  BY <1>2

LEMMA ReasonTyped ==
    ASSUME TypeOK, NEW l \in Leases
    PROVE  release_reason(l) \in Causes \cup {"none"}
<1> DEFINE found == {i \in DOMAIN signals : Applies(l, signals[i])}
           first == CHOOSE i \in found : \A j \in found : i <= j
<1>1. found \subseteq DOMAIN signals /\ DOMAIN signals \subseteq Nat
  BY DEF TypeOK
<1>2. found # {} => signals[first] \in {"request", "provisioning", "ttl"}
  <2>1. found # {} => first \in found
    BY <1>1, FirstSignal
  <2> QED
    BY <1>1, <2>1 DEF TypeOK
<1> QED
  BY <1>2 DEF release_reason, Leases, Causes

\* No reason means no cause yet; a cause that was written is the reason.
LEMMA ReasonNone ==
    ASSUME NEW l, ~Done(l)
    PROVE  /\ release_reason(l) = "none" => l.cause = "none"
           /\ l.cause # "none" => release_reason(l) = l.cause
BY DEF release_reason

LEMMA IdleTyped == Idle \in [pc : Pcs, snap : Leases, obs : Claims \cup {NoClaim}]
BY DEF Idle, Admitted, Pcs, Leases, Phases, Causes, NoUid, NoClaim

LEMMA ClaimTyped ==
    ASSUME TypeOK
    PROVE  /\ claim = NoClaim => claim.uid = 0 /\ claim.shape = "none"
           /\ claim # NoClaim =>
                /\ claim \in Claims /\ claim.uid \in Uids /\ claim.uid # 0
                /\ claim.shape \in {"active", "deleting", "tomb"}
           /\ \A w \in Workers : pass[w].obs.shape = "active" =>
                pass[w].obs.uid \in Uids /\ pass[w].obs.uid # 0
BY DEF TypeOK, Claims, NoClaim, NoUid, Uids

LEMMA ToReleasingTyped ==
    ASSUME NEW l \in Leases, NEW c \in Causes
    PROVE  ToReleasing(l, c) \in Leases
BY DEF ToReleasing, Leases, Phases

\* The PATCH changes a live Claim into a live Claim of the same UID, or nothing.
LEMMA StampedClaim ==
    ASSUME LeaseInv, NEW w \in Workers, StampShutdown(w)
    PROVE  /\ \/ claim' = claim
              \/ /\ claim' \in Claims /\ claim'.uid = claim.uid
                 /\ claim'.shape = "active" /\ claim.shape = "active"
           /\ pass'[w].pc \in {"idle", "stamped"}
           /\ pass'[w].pc = "stamped" => pass'[w].snap = pass[w].snap /\ pass'[w].obs = pass[w].obs
<1>1. CASE claim = pass[w].obs
  <2>1. claim.shape = "active" /\ claim # NoClaim
    BY <1>1 DEF LeaseInv, Passes, StampShutdown, At, NoClaim
  <2>2. claim \in Claims
    BY <2>1, LeaseTyped DEF LeaseInv
  <2>3. claim' = [claim EXCEPT !.until = "ttl"] /\ pass' = [pass EXCEPT ![w].pc = "stamped"]
    BY <1>1 DEF StampShutdown, Goto
  <2>4. claim' \in Claims /\ claim'.uid = claim.uid /\ claim'.shape = "active"
    BY <2>1, <2>2, <2>3 DEF Claims
  <2> QED
    BY <2>1, <2>3, <2>4, LeaseTyped DEF LeaseInv
<1>2. CASE claim # pass[w].obs
  <2>1. claim' = claim /\ pass' = [pass EXCEPT ![w] = Idle]
    BY <1>2 DEF StampShutdown, Leave
  <2>2. pass'[w] = Idle
    BY <2>1, LeaseTyped DEF LeaseInv
  <2>3. pass'[w].pc = "idle"
    BY <2>2 DEF Idle
  <2> QED
    BY <2>1, <2>3
<1> QED
  BY <1>1, <1>2

-----------------------------------------------------------------------------
(* The environment and the steps that touch the lease alone.                *)

\* The caller asks for the release.
LEMMA RequestStep == ASSUME LeaseInv, Request
                     PROVE  LeaseInv'
<1> USE DEF LeaseInv, Request, objects
<1>1. TypeOK'
  <2>1. lease' \in Leases
    BY LeaseTyped, ReasonTyped DEF Leases, Phases, Causes, Claims, NoClaim, NoUid
  <2>2. signals' \in Seq({"request", "provisioning", "ttl"})
    BY DEF TypeOK
  <2> QED
    BY <2>1, <2>2 DEF TypeOK
<1>2. Passes' /\ ProofGrows'
  BY DEF Passes, ProofGrows, Live, TypeOK, Leases
<1>3. NameTaken' /\ NameHeld'
  BY DEF NameTaken, Live, NameHeld, TypeOK, Leases
<1>4. FenceFirst' /\ AbsenceHolds'
  BY DEF FenceFirst, Nothing, ActivePosts, Live, AbsenceHolds, TypeOK, Leases
<1> QED
  BY <1>1, <1>2, <1>3, <1>4

LEMMA DrainAccessStep == ASSUME LeaseInv, DrainAccess
                         PROVE  LeaseInv'
<1> USE DEF LeaseInv, DrainAccess
<1>1. TypeOK'
  BY DEF TypeOK
<1>2. Passes' /\ NameTaken' /\ NameHeld' /\ FenceFirst' /\ ProofGrows' /\ AbsenceHolds'
  BY DEF Passes, NameTaken, Live, NameHeld, FenceFirst, Nothing, ActivePosts, ProofGrows,
     AbsenceHolds
<1> QED
  BY <1>1, <1>2

\* Agent Sandbox runs only what the one live Claim of the lease asks for.
LEMMA RunWorkloadStep == ASSUME LeaseInv, RunWorkload
                         PROVE  LeaseInv'
<1> USE DEF LeaseInv, RunWorkload, Expired, Passed
<1>1. TypeOK'
  BY DEF TypeOK
<1>2. ProofGrows'
  BY DEF ProofGrows, Live, TypeOK
<1>3. NameTaken'
  BY LeaseTyped, ClaimTyped DEF NameTaken, Live, TypeOK
<1>4. FenceFirst' /\ AbsenceHolds'
  BY DEF FenceFirst, Nothing, ActivePosts, Live, AbsenceHolds, TypeOK
<1>5. Passes' /\ NameHeld'
  BY DEF Passes, NameHeld
<1> QED
  BY <1>1, <1>2, <1>3, <1>4, <1>5

LEMMA ExpireClaimStep == ASSUME LeaseInv, ExpireClaim
                         PROVE  LeaseInv'
<1> USE DEF LeaseInv, ExpireClaim, Expired, Passed
<1>1. TypeOK'
  BY DEF TypeOK, Claims, NoClaim
<1>2. Passes' /\ ProofGrows'
  BY DEF Passes, ProofGrows, Live, TypeOK, Claims, NoClaim
<1>3. NameTaken' /\ NameHeld'
  BY DEF NameTaken, Live, NameHeld, TypeOK, Claims, NoClaim
<1>4. FenceFirst' /\ AbsenceHolds'
  BY DEF FenceFirst, Nothing, ActivePosts, Live, AbsenceHolds, TypeOK, Claims, NoClaim
<1> QED
  BY <1>1, <1>2, <1>3, <1>4

LEMMA EndPodStep == ASSUME LeaseInv, EndPod
                    PROVE  LeaseInv'
<1> USE DEF LeaseInv, EndPod
<1>1. TypeOK'
  BY DEF TypeOK
<1>2. Passes' /\ NameTaken' /\ NameHeld' /\ FenceFirst' /\ ProofGrows' /\ AbsenceHolds'
  BY DEF Passes, NameTaken, Live, NameHeld, FenceFirst, Nothing, ActivePosts, ProofGrows,
     AbsenceHolds
<1> QED
  BY <1>1, <1>2

LEMMA QuarantineGateStep == ASSUME LeaseInv, QuarantineGate
                            PROVE  LeaseInv'
<1> USE DEF LeaseInv, QuarantineGate, Placing, Checkpoint, objects
<1>1. TypeOK'
  BY ReasonTyped, LeaseTyped DEF TypeOK, Leases, Claims, Posts, Uids, Phases, Pcs, Causes, Idle,
     Admitted, NoClaim, NoUid
<1>2. Passes' /\ ProofGrows'
  BY DEF Passes, ProofGrows, Live, TypeOK, Leases
<1>3. NameTaken' /\ NameHeld'
  BY DEF NameTaken, Live, NameHeld, TypeOK, Leases
<1>4. FenceFirst' /\ AbsenceHolds'
  BY DEF FenceFirst, Nothing, ActivePosts, Live, AbsenceHolds, TypeOK, Leases
<1> QED
  BY <1>1, <1>2, <1>3, <1>4

\* The mode is switched off: the same write, whatever was placed.
LEMMA DisableModeStep == ASSUME LeaseInv, DisableMode
                         PROVE  LeaseInv'
<1> USE DEF LeaseInv, DisableMode, Placing, Checkpoint, objects, ToReleasing
<1>1. TypeOK'
  BY ReasonTyped, LeaseTyped DEF TypeOK, Leases, Claims, Posts, Uids, Phases, Pcs, Causes, Idle,
     Admitted, NoClaim, NoUid
<1>2. Passes' /\ ProofGrows'
  BY DEF Passes, ProofGrows, Live, TypeOK, Leases
<1>3. NameTaken' /\ NameHeld'
  BY DEF NameTaken, Live, NameHeld, TypeOK, Leases
<1>4. FenceFirst' /\ AbsenceHolds'
  BY LeaseTyped DEF FenceFirst, Nothing, ActivePosts, Live, NoClaim, Idle,
     admitted_pending_is_allocation_free, pre_create_is_allocation_free, Posts, AbsenceHolds,
     ProofGrows, Passes, NoUid
<1> QED
  BY <1>1, <1>2, <1>3, <1>4

LEMMA RecordPlacementStep == ASSUME LeaseInv, RecordPlacement
                             PROVE  LeaseInv'
<1> USE DEF LeaseInv, RecordPlacement, Placing, Checkpoint, objects
<1>1. TypeOK'
  BY DEF TypeOK, Leases
<1>2. Passes' /\ ProofGrows'
  BY DEF Passes, ProofGrows, Live, TypeOK, Leases
<1>3. NameTaken' /\ NameHeld'
  BY DEF NameTaken, Live, NameHeld, TypeOK, Leases
<1>4. FenceFirst' /\ AbsenceHolds'
  BY DEF FenceFirst, Nothing, ActivePosts, Live, AbsenceHolds, TypeOK, Leases
<1> QED
  BY <1>1, <1>2, <1>3, <1>4

LEMMA BeginProvisioningStep == ASSUME LeaseInv, BeginProvisioning
                               PROVE  LeaseInv'
<1> USE DEF LeaseInv, BeginProvisioning, Placing, Checkpoint, objects
<1>1. TypeOK'
  BY ReasonTyped, LeaseTyped DEF TypeOK, Leases, Claims, Posts, Uids, Phases, Pcs, Causes, Idle,
     Admitted, NoClaim, NoUid
<1>2. Passes' /\ ProofGrows'
  BY DEF Passes, ProofGrows, Live, TypeOK, Leases
<1>3. NameTaken' /\ NameHeld'
  BY DEF NameTaken, Live, NameHeld, TypeOK, Leases
<1>4. FenceFirst' /\ AbsenceHolds'
  BY DEF FenceFirst, Nothing, ActivePosts, Live, AbsenceHolds, TypeOK, Leases
<1> QED
  BY <1>1, <1>2, <1>3, <1>4

LEMMA RecordPoolStep == ASSUME LeaseInv, RecordPool
                        PROVE  LeaseInv'
<1> USE DEF LeaseInv, RecordPool, Placing, Checkpoint, objects
<1>1. TypeOK'
  BY DEF TypeOK, Leases
<1>2. Passes' /\ ProofGrows'
  BY DEF Passes, ProofGrows, Live, TypeOK, Leases
<1>3. NameTaken' /\ NameHeld'
  BY DEF NameTaken, Live, NameHeld, TypeOK, Leases
<1>4. FenceFirst' /\ AbsenceHolds'
  BY DEF FenceFirst, Nothing, ActivePosts, Live, AbsenceHolds, TypeOK, Leases
<1> QED
  BY <1>1, <1>2, <1>3, <1>4

\* From here on a Claim may be created; nothing was before.
LEMMA RecordCleanupFenceStep == ASSUME LeaseInv, RecordCleanupFence
                                PROVE  LeaseInv'
<1> USE DEF LeaseInv, RecordCleanupFence, Placing, Checkpoint, objects
<1>1. TypeOK'
  BY DEF TypeOK, Leases
<1>2. Passes' /\ ProofGrows'
  BY DEF Passes, ProofGrows, Live, TypeOK, Leases
<1>3. NameTaken' /\ NameHeld'
  BY DEF NameTaken, Live, NameHeld, TypeOK, Leases
<1>4. FenceFirst' /\ AbsenceHolds'
  BY DEF FenceFirst, Nothing, ActivePosts, Live, AbsenceHolds, TypeOK, Leases
<1> QED
  BY <1>1, <1>2, <1>3, <1>4

\* The release, with what this version of the status proves was never started.
LEMMA BeginReleaseStep == ASSUME LeaseInv, BeginRelease
                          PROVE  LeaseInv'
<1> USE DEF LeaseInv, BeginRelease, Releasing, Checkpoint, objects, ToReleasing
<1>1. TypeOK'
  <2> HIDE DEF ToReleasing
  <2>1. lease' \in Leases
    BY LeaseTyped, ReasonTyped, ToReleasingTyped
  <2> QED
    BY <2>1 DEF TypeOK
<1>2. Passes' /\ ProofGrows'
  BY DEF Passes, ProofGrows, Live, TypeOK, Leases
<1>3. NameTaken' /\ NameHeld'
  BY DEF NameTaken, Live, NameHeld, TypeOK, Leases
<1>4. FenceFirst' /\ AbsenceHolds'
  BY LeaseTyped DEF FenceFirst, Nothing, ActivePosts, Live, NoClaim, Idle,
     admitted_pending_is_allocation_free, pre_create_is_allocation_free, Posts, AbsenceHolds,
     ProofGrows, Passes, NoUid
<1> QED
  BY <1>1, <1>2, <1>3, <1>4

LEMMA CreateFenceStep == ASSUME LeaseInv, CreateFence
                         PROVE  LeaseInv'
<1> USE DEF LeaseInv, CreateFence, Fencing, Releasing
<1>1. TypeOK'
  BY DEF TypeOK
<1>2. Passes' /\ NameTaken' /\ NameHeld' /\ FenceFirst' /\ ProofGrows' /\ AbsenceHolds'
  BY DEF Passes, NameTaken, Live, NameHeld, FenceFirst, Nothing, ActivePosts, ProofGrows,
     AbsenceHolds
<1> QED
  BY <1>1, <1>2

LEMMA RecordFenceStep == ASSUME LeaseInv, RecordFence
                         PROVE  LeaseInv'
<1> USE DEF LeaseInv, RecordFence, Checkpoint, objects, Fencing, Releasing
<1>1. TypeOK'
  BY DEF TypeOK, Leases
<1>2. Passes' /\ ProofGrows'
  BY DEF Passes, ProofGrows, Live, TypeOK, Leases
<1>3. NameTaken' /\ NameHeld'
  BY DEF NameTaken, Live, NameHeld, TypeOK, Leases
<1>4. FenceFirst' /\ AbsenceHolds'
  BY DEF FenceFirst, Nothing, ActivePosts, Live, AbsenceHolds, TypeOK, Leases
<1> QED
  BY <1>1, <1>2, <1>3, <1>4

LEMMA RecoverClaimStep == ASSUME LeaseInv, RecoverClaim
                          PROVE  LeaseInv'
<1> USE DEF LeaseInv, RecoverClaim, Checkpoint, objects, Tearing, Fencing, Releasing,
        TombstoneSeen
<1>1. TypeOK'
  <2>1. lease' \in Leases
    BY LeaseTyped, ReasonTyped DEF Leases, Phases, Causes, Claims, NoClaim, NoUid
  <2> QED
    BY <2>1 DEF TypeOK
<1>2. Passes' /\ ProofGrows'
  BY DEF Passes, ProofGrows, Live, TypeOK, Leases
<1>3. NameTaken' /\ NameHeld'
  BY DEF NameTaken, Live, NameHeld, TypeOK, Leases
<1>4. FenceFirst' /\ AbsenceHolds'
  BY DEF FenceFirst, Nothing, ActivePosts, Live, AbsenceHolds, TypeOK, Leases
<1> QED
  BY <1>1, <1>2, <1>3, <1>4

LEMMA CheckpointDescendantsStep == ASSUME LeaseInv, CheckpointDescendants
                                   PROVE  LeaseInv'
<1> USE DEF LeaseInv, CheckpointDescendants, Checkpoint, objects, Tearing, Fencing, Releasing,
        Unrecorded
<1>1. TypeOK'
  BY DEF TypeOK, Leases
<1>2. Passes' /\ ProofGrows'
  BY DEF Passes, ProofGrows, Live, TypeOK, Leases
<1>3. NameTaken' /\ NameHeld'
  BY DEF NameTaken, Live, NameHeld, TypeOK, Leases
<1>4. FenceFirst' /\ AbsenceHolds'
  BY DEF FenceFirst, Nothing, ActivePosts, Live, AbsenceHolds, TypeOK, Leases
<1> QED
  BY <1>1, <1>2, <1>3, <1>4

LEMMA RemoveFinalizerStep == ASSUME LeaseInv, RemoveFinalizer
                             PROVE  LeaseInv'
<1> USE DEF LeaseInv, RemoveFinalizer, Checkpoint, objects
<1>1. TypeOK'
  BY DEF TypeOK, Leases
<1>2. Passes' /\ ProofGrows'
  BY DEF Passes, ProofGrows, Live, TypeOK, Leases
<1>3. NameTaken' /\ NameHeld'
  BY DEF NameTaken, Live, NameHeld, TypeOK, Leases
<1>4. FenceFirst' /\ AbsenceHolds'
  BY DEF FenceFirst, Nothing, ActivePosts, Live, AbsenceHolds, TypeOK, Leases
<1> QED
  BY <1>1, <1>2, <1>3, <1>4

LEMMA DeleteLeaseStep == ASSUME LeaseInv, DeleteLease
                         PROVE  LeaseInv'
<1> USE DEF LeaseInv, DeleteLease, objects
<1>1. TypeOK'
  BY DEF TypeOK, Leases
<1>2. Passes' /\ ProofGrows'
  BY DEF Passes, ProofGrows, Live, TypeOK, Leases
<1>3. NameTaken' /\ NameHeld'
  BY DEF NameTaken, Live, NameHeld, TypeOK, Leases
<1>4. FenceFirst' /\ AbsenceHolds'
  BY DEF FenceFirst, Nothing, ActivePosts, Live, AbsenceHolds, TypeOK, Leases
<1> QED
  BY <1>1, <1>2, <1>3, <1>4

\* The name comes free only when no CREATE is left for it.
LEMMA SweepTombstoneStep == ASSUME LeaseInv, SweepTombstone
                            PROVE  LeaseInv'
<1> USE DEF LeaseInv, SweepTombstone, Outlived, At
<1>1. TypeOK'
  BY DEF TypeOK, Claims, NoClaim
<1>2. Passes' /\ ProofGrows'
  BY DEF Passes, ProofGrows, Live, TypeOK, Claims, NoClaim
<1>3. NameTaken' /\ NameHeld'
  BY DEF NameTaken, Live, NameHeld, TypeOK, Claims, NoClaim
<1>4. FenceFirst' /\ AbsenceHolds'
  BY DEF FenceFirst, Nothing, ActivePosts, Live, AbsenceHolds, TypeOK, Claims, NoClaim
<1> QED
  BY <1>1, <1>2, <1>3, <1>4

\* The fence goes after the lease, with nothing left in flight.
LEMMA SweepFenceStep == ASSUME LeaseInv, SweepFence
                        PROVE  LeaseInv'
<1> USE DEF LeaseInv, SweepFence, Outlived, At
<1>1. TypeOK'
  BY DEF TypeOK
<1>2. Passes' /\ NameTaken' /\ NameHeld' /\ FenceFirst' /\ ProofGrows' /\ AbsenceHolds'
  BY DEF Passes, NameTaken, Live, NameHeld, FenceFirst, Nothing, ActivePosts, ProofGrows,
     AbsenceHolds
<1> QED
  BY <1>1, <1>2

LEMMA ForbiddenStep == ASSUME LeaseInv, Forbidden
                       PROVE  LeaseInv'
<1> USE DEF LeaseInv, Forbidden, Releasing, Checkpoint, objects
<1>1. TypeOK'
  BY ReasonTyped, LeaseTyped DEF TypeOK, Leases, Claims, Posts, Uids, Phases, Pcs, Causes, Idle,
     Admitted, NoClaim, NoUid
<1>2. Passes' /\ ProofGrows'
  BY DEF Passes, ProofGrows, Live, TypeOK, Leases
<1>3. NameTaken' /\ NameHeld'
  BY DEF NameTaken, Live, NameHeld, TypeOK, Leases
<1>4. FenceFirst' /\ AbsenceHolds'
  BY DEF FenceFirst, Nothing, ActivePosts, Live, AbsenceHolds, TypeOK, Leases
<1> QED
  BY <1>1, <1>2, <1>3, <1>4

-----------------------------------------------------------------------------
(* Deadlines, requests in flight, the running workload.                    *)

LEMMA ElapseStep == ASSUME LeaseInv, NEW s \in {"provisioning", "ttl"}, Elapse(s)
                    PROVE  LeaseInv'
<1> USE DEF LeaseInv, Elapse, Passed, objects
<1>1. TypeOK'
  BY DEF TypeOK
<1>2. Passes' /\ NameTaken' /\ NameHeld' /\ FenceFirst' /\ ProofGrows' /\ AbsenceHolds'
  BY DEF Passes, NameTaken, Live, NameHeld, FenceFirst, Nothing, ActivePosts, ProofGrows,
     AbsenceHolds
<1> QED
  BY <1>1, <1>2

LEMMA StopWorkloadStep == ASSUME LeaseInv, NEW u \in Uids, StopWorkload(u)
                          PROVE  LeaseInv'
<1> USE DEF LeaseInv, StopWorkload, Expired, Passed
<1>1. TypeOK'
  BY DEF TypeOK
<1>2. ProofGrows'
  BY DEF ProofGrows, Live, TypeOK
<1>3. NameTaken'
  BY DEF NameTaken, Live, TypeOK
<1>4. FenceFirst' /\ AbsenceHolds'
  BY DEF FenceFirst, Nothing, ActivePosts, Live, AbsenceHolds, TypeOK
<1>5. Passes' /\ NameHeld'
  BY DEF Passes, NameHeld
<1> QED
  BY <1>1, <1>2, <1>3, <1>4, <1>5

\* A CREATE lands, perhaps long after its pass ended: a fenced name holds a tombstone.
LEMMA LandCreateStep == ASSUME LeaseInv, NEW p \in Posts, LandCreate(p)
                        PROVE  LeaseInv'
<1> USE DEF LeaseInv, LandCreate
<1>1. TypeOK'
  <2>1. claim' \in Claims \cup {NoClaim} /\ uids' \in 0 .. MaxUid
    BY LeaseTyped, ClaimTyped, SandboxLeaseAssumption DEF TypeOK, Claims, Posts, Uids
  <2>2. posts' \subseteq Posts
    BY DEF TypeOK, Posts
  <2> QED
    BY <2>1, <2>2 DEF TypeOK
<1>2. Passes' /\ ProofGrows'
  BY ReasonNone, LeaseTyped, ClaimTyped DEF Passes, ProofGrows, Live, TypeOK, Claims, NoClaim
<1>3. NameTaken' /\ NameHeld'
  BY LeaseTyped DEF NameTaken, AbsenceHolds, Nothing, Live, Uids, NoUid, NoClaim, NameHeld,
     Passes
<1>4. FenceFirst' /\ AbsenceHolds'
  BY LeaseTyped, ClaimTyped DEF FenceFirst, Nothing, ActivePosts, Live, NoClaim, Idle,
     admitted_pending_is_allocation_free, pre_create_is_allocation_free, Posts, AbsenceHolds,
     ProofGrows, Passes, NoUid
<1> QED
  BY <1>1, <1>2, <1>3, <1>4

LEMMA LoseCreateStep == ASSUME LeaseInv, NEW p \in Posts, LoseCreate(p)
                        PROVE  LeaseInv'
<1> USE DEF LeaseInv, LoseCreate
<1>1. TypeOK'
  BY DEF TypeOK
<1>2. FenceFirst' /\ AbsenceHolds'
  BY DEF FenceFirst, Nothing, ActivePosts, Live, AbsenceHolds
<1>3. Passes' /\ NameTaken' /\ NameHeld' /\ ProofGrows'
  BY DEF Passes, NameTaken, Live, NameHeld, ProofGrows
<1> QED
  BY <1>1, <1>2, <1>3

-----------------------------------------------------------------------------
(* The steps of a pass.                                                    *)

LEMMA RequeueStep == ASSUME LeaseInv, NEW w \in Workers, Requeue(w)
                     PROVE  LeaseInv'
<1> USE DEF LeaseInv, Requeue, Leave, Idle, At, objects
<1>1. TypeOK'
  BY ReasonTyped, LeaseTyped DEF TypeOK, Leases, Claims, Posts, Uids, Phases, Pcs, Causes,
     Admitted, NoClaim, NoUid
<1>2. Passes' /\ ProofGrows'
  BY DEF Passes, ProofGrows, Live, TypeOK, Admitted
<1>3. FenceFirst' /\ AbsenceHolds'
  BY DEF FenceFirst, Nothing, ActivePosts, Live, AbsenceHolds, TypeOK, Admitted
<1>4. NameTaken' /\ NameHeld'
  BY DEF NameTaken, Live, NameHeld
<1> QED
  BY <1>1, <1>2, <1>3, <1>4

LEMMA AbandonStep == ASSUME LeaseInv, NEW w \in Workers, Abandon(w)
                     PROVE  LeaseInv'
<1> USE DEF LeaseInv, Abandon, Leave, Idle, At, objects
<1>1. TypeOK'
  BY ReasonTyped, LeaseTyped DEF TypeOK, Leases, Claims, Posts, Uids, Phases, Pcs, Causes,
     Admitted, NoClaim, NoUid
<1>2. Passes' /\ ProofGrows'
  BY DEF Passes, ProofGrows, Live, TypeOK, Admitted
<1>3. FenceFirst' /\ AbsenceHolds'
  BY DEF FenceFirst, Nothing, ActivePosts, Live, AbsenceHolds, TypeOK, Admitted
<1>4. NameTaken' /\ NameHeld'
  BY DEF NameTaken, Live, NameHeld
<1> QED
  BY <1>1, <1>2, <1>3, <1>4

\* The pass is past the create gate only with the cleanup fence in status.
LEMMA GateLeaseStep == ASSUME LeaseInv, NEW w \in Workers, GateLease(w)
                       PROVE  LeaseInv'
<1> USE DEF LeaseInv, GateLease, Placing, At, Enter, objects,
        sandbox_lease_authorizes_allocation
<1>1. TypeOK'
  BY ReasonTyped, LeaseTyped DEF TypeOK, Leases, Claims, Posts, Uids, Phases, Pcs, Causes, Idle,
     Admitted, NoClaim, NoUid
<1>2. Passes' /\ ProofGrows'
  BY ReasonNone, LeaseTyped DEF Passes, NameTaken, Idle, Admitted, NoClaim, NoUid, ProofGrows,
     Live, Uids
<1>3. FenceFirst' /\ AbsenceHolds'
  BY DEF FenceFirst, Nothing, ActivePosts, Live, AbsenceHolds, TypeOK, Idle, Admitted
<1>4. NameTaken' /\ NameHeld'
  BY DEF NameTaken, Live, NameHeld
<1> QED
  BY <1>1, <1>2, <1>3, <1>4

LEMMA GateFenceStep == ASSUME LeaseInv, NEW w \in Workers, GateFence(w)
                       PROVE  LeaseInv'
<1> USE DEF LeaseInv, GateFence, Leave, Idle, Goto, At
<1>1. TypeOK'
  <2>1. pass' \in [Workers -> [pc : Pcs, snap : Leases, obs : Claims \cup {NoClaim}]]
    BY LeaseTyped, IdleTyped DEF Pcs, NoUid, NoClaim
  <2>2. posts' \subseteq Posts
    BY DEF TypeOK, Posts
  <2> QED
    BY <2>1, <2>2 DEF TypeOK
<1>2. Passes' /\ ProofGrows'
  BY DEF Passes, ProofGrows, Live, TypeOK, Admitted
<1>3. FenceFirst' /\ AbsenceHolds'
  BY DEF FenceFirst, Nothing, ActivePosts, Live, AbsenceHolds, TypeOK, Admitted
<1>4. NameTaken' /\ NameHeld'
  BY DEF NameTaken, Live, NameHeld
<1> QED
  BY <1>1, <1>2, <1>3, <1>4

LEMMA ReadCreatedStep == ASSUME LeaseInv, NEW w \in Workers, ReadCreated(w)
                         PROVE  LeaseInv'
<1> USE DEF LeaseInv, ReadCreated, Leave, Idle, At, objects
<1>1. TypeOK'
  <2>1. pass' \in [Workers -> [pc : Pcs, snap : Leases, obs : Claims \cup {NoClaim}]]
    BY LeaseTyped, IdleTyped DEF Pcs, NoUid, NoClaim
  <2> QED
    BY <2>1 DEF TypeOK
<1>2. Passes' /\ ProofGrows'
  BY ReasonNone, LeaseTyped DEF Passes, NameTaken, Admitted, NoClaim, NoUid, ProofGrows, Live,
     Uids
<1>3. FenceFirst' /\ AbsenceHolds'
  BY DEF FenceFirst, Nothing, ActivePosts, Live, AbsenceHolds, TypeOK, Admitted
<1>4. NameTaken' /\ NameHeld'
  BY DEF NameTaken, Live, NameHeld
<1> QED
  BY <1>1, <1>2, <1>3, <1>4

LEMMA GetClaimStep == ASSUME LeaseInv, NEW w \in Workers, GetClaim(w)
                      PROVE  LeaseInv'
<1> USE DEF LeaseInv, GetClaim, Placing, At, Enter, objects
<1>1. TypeOK'
  BY ReasonTyped, LeaseTyped DEF TypeOK, Leases, Claims, Posts, Uids, Phases, Pcs, Causes, Idle,
     Admitted, NoClaim, NoUid
<1>2. Passes' /\ ProofGrows'
  BY ReasonNone, LeaseTyped DEF Passes, NameTaken, Idle, Admitted, NoClaim, NoUid, ProofGrows,
     Live, Uids
<1>3. FenceFirst' /\ AbsenceHolds'
  BY DEF FenceFirst, Nothing, ActivePosts, Live, AbsenceHolds, TypeOK, Idle, Admitted
<1>4. NameTaken' /\ NameHeld'
  BY DEF NameTaken, Live, NameHeld
<1> QED
  BY <1>1, <1>2, <1>3, <1>4

LEMMA RecordClaimStep == ASSUME LeaseInv, NEW w \in Workers, RecordClaim(w)
                         PROVE  LeaseInv'
<1> USE DEF LeaseInv, RecordClaim, Write, objects, Idle, Snap, At
<1>1. TypeOK'
  <2>1. lease' \in Leases
    BY SnapTyped DEF Leases, Phases, Causes, Claims, NoClaim, NoUid
  <2>2. pass' \in [Workers -> [pc : Pcs, snap : Leases, obs : Claims \cup {NoClaim}]]
    BY LeaseTyped, IdleTyped DEF Pcs, NoUid, NoClaim
  <2> QED
    BY <2>1, <2>2 DEF TypeOK
<1>2. Passes' /\ ProofGrows'
  BY DEF Passes, ProofGrows, Live, TypeOK, Leases, Admitted
<1>3. NameTaken' /\ NameHeld'
  BY LeaseTyped DEF NameTaken, AbsenceHolds, Nothing, Live, Uids, NoUid, NoClaim, NameHeld,
     Passes
<1>4. FenceFirst' /\ AbsenceHolds'
  BY DEF FenceFirst, Nothing, ActivePosts, Live, AbsenceHolds, TypeOK, Leases, Admitted
<1> QED
  BY <1>1, <1>2, <1>3, <1>4

LEMMA RecordCanaryStep == ASSUME LeaseInv, NEW w \in Workers, RecordCanary(w)
                          PROVE  LeaseInv'
<1> USE DEF LeaseInv, RecordCanary, Write, objects, Idle, Snap, At, Serving
<1>1. TypeOK'
  BY ReasonTyped, LeaseTyped DEF TypeOK, Leases, Claims, Posts, Uids, Phases, Pcs, Causes,
     Admitted, NoClaim, NoUid
<1>2. Passes' /\ ProofGrows'
  BY DEF Passes, ProofGrows, Live, TypeOK, Leases, Admitted
<1>3. NameTaken' /\ NameHeld'
  BY DEF NameTaken, Live, NameHeld, TypeOK, Leases
<1>4. FenceFirst' /\ AbsenceHolds'
  BY DEF FenceFirst, Nothing, ActivePosts, Live, AbsenceHolds, TypeOK, Leases, Admitted
<1> QED
  BY <1>1, <1>2, <1>3, <1>4

LEMMA RecordProvenanceStep == ASSUME LeaseInv, NEW w \in Workers, RecordProvenance(w)
                              PROVE  LeaseInv'
<1> USE DEF LeaseInv, RecordProvenance, Write, objects, Idle, Snap, At, Serving
<1>1. TypeOK'
  <2>1. lease' \in Leases
    BY SnapTyped DEF Leases, Phases, Causes, Claims, NoClaim, NoUid
  <2>2. pass' \in [Workers -> [pc : Pcs, snap : Leases, obs : Claims \cup {NoClaim}]]
    BY LeaseTyped, IdleTyped DEF Pcs, NoUid, NoClaim
  <2> QED
    BY <2>1, <2>2 DEF TypeOK
<1>2. Passes' /\ ProofGrows'
  BY DEF Passes, ProofGrows, Live, TypeOK, Leases, Admitted
<1>3. NameTaken' /\ NameHeld'
  BY DEF NameTaken, Live, NameHeld, TypeOK, Leases
<1>4. FenceFirst' /\ AbsenceHolds'
  BY DEF FenceFirst, Nothing, ActivePosts, Live, AbsenceHolds, TypeOK, Leases, Admitted
<1> QED
  BY <1>1, <1>2, <1>3, <1>4

\* The lifecycle PATCH names the version of the Claim that was read.
LEMMA StampShutdownStep == ASSUME LeaseInv, NEW w \in Workers, StampShutdown(w)
                           PROVE  LeaseInv'
<1> USE DEF LeaseInv, StampShutdown, Passed, Leave, Idle, Goto, Snap, At, Serving
<1>1. TypeOK'
  <2>1. pass' \in [Workers -> [pc : Pcs, snap : Leases, obs : Claims \cup {NoClaim}]]
    BY LeaseTyped, IdleTyped DEF Pcs, NoUid, NoClaim
  <2>2. claim' \in Claims \cup {NoClaim} /\ uids' \in 0 .. MaxUid
    BY LeaseTyped, StampedClaim DEF TypeOK
  <2> QED
    BY <2>1, <2>2 DEF TypeOK
<1>2. Passes' /\ ProofGrows'
  BY LeaseTyped, StampedClaim DEF Passes, NameTaken, Admitted, NoClaim, NoUid, ProofGrows, Live,
     Uids
<1>3. NameTaken' /\ NameHeld'
  BY LeaseTyped, StampedClaim DEF NameTaken, Live, NameHeld, TypeOK, Claims, NoClaim
<1>4. FenceFirst' /\ AbsenceHolds'
  BY DEF FenceFirst, Nothing, ActivePosts, Live, AbsenceHolds, TypeOK, Claims, NoClaim, Admitted
<1> QED
  BY <1>1, <1>2, <1>3, <1>4

LEMMA MarkReadyStep == ASSUME LeaseInv, NEW w \in Workers, MarkReady(w)
                       PROVE  LeaseInv'
<1> USE DEF LeaseInv, MarkReady, Write, objects, Idle, Snap, At
<1>1. TypeOK'
  BY ReasonTyped, LeaseTyped DEF TypeOK, Leases, Claims, Posts, Uids, Phases, Pcs, Causes,
     Admitted, NoClaim, NoUid
<1>2. Passes' /\ ProofGrows'
  BY DEF Passes, ProofGrows, Live, TypeOK, Leases, Admitted
<1>3. NameTaken' /\ NameHeld'
  BY DEF NameTaken, Live, NameHeld, TypeOK, Leases
<1>4. FenceFirst' /\ AbsenceHolds'
  BY DEF FenceFirst, Nothing, ActivePosts, Live, AbsenceHolds, TypeOK, Leases, Admitted
<1> QED
  BY <1>1, <1>2, <1>3, <1>4

LEMMA BeginLateReleaseStep == ASSUME LeaseInv, NEW w \in Workers, BeginLateRelease(w)
                              PROVE  LeaseInv'
<1> USE DEF LeaseInv, BeginLateRelease, Passed, Write, objects, Idle, Snap, At, ToReleasing
<1>1. TypeOK'
  <2> HIDE DEF ToReleasing, Leases
  <2>1. lease' \in Leases
    BY LeaseTyped, ToReleasingTyped DEF Causes
  <2>2. pass' \in [Workers -> [pc : Pcs, snap : Leases, obs : Claims \cup {NoClaim}]]
    BY LeaseTyped, IdleTyped DEF Pcs, NoUid, NoClaim
  <2> QED
    BY <2>1, <2>2 DEF TypeOK
<1>2. Passes' /\ ProofGrows'
  BY DEF Passes, ProofGrows, Live, TypeOK, Leases, Admitted
<1>3. NameTaken' /\ NameHeld'
  BY DEF NameTaken, Live, NameHeld, TypeOK, Leases
<1>4. FenceFirst' /\ AbsenceHolds'
  BY LeaseTyped DEF FenceFirst, Nothing, ActivePosts, Live, NoClaim,
     admitted_pending_is_allocation_free, pre_create_is_allocation_free, Posts, AbsenceHolds,
     ProofGrows, Passes, NoUid
<1> QED
  BY <1>1, <1>2, <1>3, <1>4

LEMMA ReleaseLostStep == ASSUME LeaseInv, NEW w \in Workers, ReleaseLost(w)
                         PROVE  LeaseInv'
<1> USE DEF LeaseInv, ReleaseLost, Write, objects, Idle, Snap, At, ToReleasing
<1>1. TypeOK'
  <2> HIDE DEF ToReleasing, Leases
  <2>1. lease' \in Leases
    BY LeaseTyped, ToReleasingTyped DEF Causes
  <2>2. pass' \in [Workers -> [pc : Pcs, snap : Leases, obs : Claims \cup {NoClaim}]]
    BY LeaseTyped, IdleTyped DEF Pcs, NoUid, NoClaim
  <2> QED
    BY <2>1, <2>2 DEF TypeOK
<1>2. Passes' /\ ProofGrows'
  BY DEF Passes, ProofGrows, Live, TypeOK, Leases, Admitted
<1>3. NameTaken' /\ NameHeld'
  BY DEF NameTaken, Live, NameHeld, TypeOK, Leases
<1>4. FenceFirst' /\ AbsenceHolds'
  BY LeaseTyped DEF FenceFirst, Nothing, ActivePosts, Live, NoClaim,
     admitted_pending_is_allocation_free, pre_create_is_allocation_free, Posts, AbsenceHolds,
     ProofGrows, Passes, NoUid
<1> QED
  BY <1>1, <1>2, <1>3, <1>4

LEMMA BeginEnsureStep == ASSUME LeaseInv, NEW w \in Workers, BeginEnsure(w)
                         PROVE  LeaseInv'
<1> USE DEF LeaseInv, BeginEnsure, At, Enter, Tearing, Fencing, Releasing, TombstoneSeen,
        Unrecorded, objects
<1>1. TypeOK'
  BY ReasonTyped, LeaseTyped DEF TypeOK, Leases, Claims, Posts, Uids, Phases, Pcs, Causes, Idle,
     Admitted, NoClaim, NoUid
<1>2. Passes' /\ ProofGrows'
  BY DEF Passes, ProofGrows, Live, TypeOK, Idle, Admitted
<1>3. FenceFirst' /\ AbsenceHolds'
  BY DEF FenceFirst, Nothing, ActivePosts, Live, AbsenceHolds, TypeOK, Idle, Admitted
<1>4. NameTaken' /\ NameHeld'
  BY DEF NameTaken, Live, NameHeld
<1> QED
  BY <1>1, <1>2, <1>3, <1>4

LEMMA CreateTombstoneStep == ASSUME LeaseInv, NEW w \in Workers, CreateTombstone(w)
                             PROVE  LeaseInv'
<1> USE DEF LeaseInv, CreateTombstone, Leave, Idle, Snap, At
<1>1. TypeOK'
  BY ReasonTyped, LeaseTyped DEF TypeOK, Leases, Claims, Posts, Uids, Phases, Pcs, Causes,
     Admitted, NoClaim, NoUid
<1>2. Passes' /\ ProofGrows'
  BY DEF Passes, ProofGrows, Live, TypeOK, Admitted
<1>3. FenceFirst' /\ AbsenceHolds'
  BY DEF FenceFirst, Nothing, ActivePosts, Live, AbsenceHolds, TypeOK, Admitted
<1>4. NameTaken' /\ NameHeld'
  BY DEF NameTaken, Live, NameHeld
<1> QED
  BY <1>1, <1>2, <1>3, <1>4

LEMMA RecordTombstoneStep == ASSUME LeaseInv, NEW w \in Workers, RecordTombstone(w)
                             PROVE  LeaseInv'
<1> USE DEF LeaseInv, RecordTombstone, Write, objects, Idle, Snap, At
<1>1. TypeOK'
  <2>1. lease' \in Leases
    BY SnapTyped DEF Leases, Phases, Causes, Claims, NoClaim, NoUid
  <2>2. pass' \in [Workers -> [pc : Pcs, snap : Leases, obs : Claims \cup {NoClaim}]]
    BY LeaseTyped, IdleTyped DEF Pcs, NoUid, NoClaim
  <2> QED
    BY <2>1, <2>2 DEF TypeOK
<1>2. Passes' /\ ProofGrows'
  BY DEF Passes, ProofGrows, Live, TypeOK, Leases, Admitted
<1>3. NameTaken' /\ NameHeld'
  BY DEF NameTaken, Live, NameHeld, TypeOK, Leases
<1>4. FenceFirst' /\ AbsenceHolds'
  BY DEF FenceFirst, Nothing, ActivePosts, Live, AbsenceHolds, TypeOK, Leases, Admitted
<1> QED
  BY <1>1, <1>2, <1>3, <1>4

\* The Claim becomes its own tombstone.
LEMMA ConvertClaimStep == ASSUME LeaseInv, NEW w \in Workers, ConvertClaim(w)
                          PROVE  LeaseInv'
<1> USE DEF LeaseInv, ConvertClaim, Leave, Idle, Snap, At
<1>1. TypeOK'
  <2>1. pass' \in [Workers -> [pc : Pcs, snap : Leases, obs : Claims \cup {NoClaim}]]
    BY LeaseTyped, IdleTyped DEF Pcs, NoUid, NoClaim
  <2>2. claim' \in Claims \cup {NoClaim} /\ uids' \in 0 .. MaxUid
    BY LeaseTyped, ClaimTyped, SandboxLeaseAssumption DEF TypeOK, Claims, Posts, Uids
  <2> QED
    BY <2>1, <2>2 DEF TypeOK
<1>2. Passes' /\ ProofGrows'
  BY DEF Passes, ProofGrows, Live, TypeOK, Claims, NoClaim, Admitted
<1>3. NameTaken' /\ NameHeld'
  BY DEF NameTaken, Live, NameHeld, TypeOK, Claims, NoClaim
<1>4. FenceFirst' /\ AbsenceHolds'
  BY LeaseTyped, ClaimTyped DEF FenceFirst, Nothing, ActivePosts, Live, AbsenceHolds, TypeOK,
     Claims, NoClaim, Admitted
<1> QED
  BY <1>1, <1>2, <1>3, <1>4

\* The tombstone that status names stands: the proof begins.
LEMMA StandingStep == ASSUME LeaseInv, NEW w \in Workers, Standing(w)
                      PROVE  LeaseInv'
<1> USE DEF LeaseInv, Standing, Goto, Snap, At, objects
<1>1. TypeOK'
  BY ReasonTyped, LeaseTyped DEF TypeOK, Leases, Claims, Posts, Uids, Phases, Pcs, Causes, Idle,
     Admitted, NoClaim, NoUid
<1>2. Passes' /\ ProofGrows'
  BY DEF Passes, ProofGrows, Live, TypeOK, Idle, Admitted
<1>3. FenceFirst' /\ AbsenceHolds'
  BY DEF FenceFirst, Nothing, ActivePosts, Live, AbsenceHolds, TypeOK, Idle, Admitted
<1>4. NameTaken' /\ NameHeld'
  BY DEF NameTaken, Live, NameHeld
<1> QED
  BY <1>1, <1>2, <1>3, <1>4

LEMMA NeverStartedStep == ASSUME LeaseInv, NEW w \in Workers, NeverStarted(w)
                          PROVE  LeaseInv'
<1> USE DEF LeaseInv, NeverStarted, Write, objects, Idle, Snap, At
<1>1. TypeOK'
  <2>1. lease' \in Leases
    BY LeaseTyped, ReasonTyped DEF Leases, Phases, Causes, Claims, NoClaim, NoUid
  <2>2. pass' \in [Workers -> [pc : Pcs, snap : Leases, obs : Claims \cup {NoClaim}]]
    BY LeaseTyped, IdleTyped DEF Pcs, NoUid, NoClaim
  <2> QED
    BY <2>1, <2>2 DEF TypeOK
<1>2. Passes' /\ ProofGrows'
  BY DEF Passes, ProofGrows, Live, TypeOK, Leases, Admitted
<1>3. NameTaken' /\ NameHeld'
  BY DEF NameTaken, Live, NameHeld, TypeOK, Leases
<1>4. FenceFirst' /\ AbsenceHolds'
  BY DEF FenceFirst, Nothing, ActivePosts, Live, AbsenceHolds, TypeOK, Leases, Admitted
<1> QED
  BY <1>1, <1>2, <1>3, <1>4

LEMMA ProvenanceMissingStep == ASSUME LeaseInv, NEW w \in Workers, ProvenanceMissing(w)
                               PROVE  LeaseInv'
<1> USE DEF LeaseInv, ProvenanceMissing, Snap, At, Quarantine, Write, objects, Idle
<1>1. TypeOK'
  BY ReasonTyped, LeaseTyped DEF TypeOK, Leases, Claims, Posts, Uids, Phases, Pcs, Causes,
     Admitted, NoClaim, NoUid
<1>2. Passes' /\ ProofGrows'
  BY DEF Passes, ProofGrows, Live, TypeOK, Leases, Admitted
<1>3. NameTaken' /\ NameHeld'
  BY DEF NameTaken, Live, NameHeld, TypeOK, Leases
<1>4. FenceFirst' /\ AbsenceHolds'
  BY DEF FenceFirst, Nothing, ActivePosts, Live, AbsenceHolds, TypeOK, Leases, Admitted
<1> QED
  BY <1>1, <1>2, <1>3, <1>4

\* The first listing: no Sandbox of any Claim the lease named.
LEMMA CheckSandboxesStep == ASSUME LeaseInv, NEW w \in Workers, CheckSandboxes(w)
                            PROVE  LeaseInv'
<1> USE DEF LeaseInv, CheckSandboxes, Goto, At, Named, Snap, Provable, objects
<1>1. TypeOK'
  BY ReasonTyped, LeaseTyped DEF TypeOK, Leases, Claims, Posts, Uids, Phases, Pcs, Causes, Idle,
     Admitted, NoClaim, NoUid
<1>2. Passes' /\ ProofGrows'
  BY ReasonNone, LeaseTyped DEF Passes, NameTaken, Idle, Admitted, NoClaim, NoUid, ProofGrows,
     Live, Uids
<1>3. FenceFirst' /\ AbsenceHolds'
  BY DEF FenceFirst, Nothing, ActivePosts, Live, AbsenceHolds, TypeOK, Idle, Admitted
<1>4. NameTaken' /\ NameHeld'
  BY DEF NameTaken, Live, NameHeld
<1> QED
  BY <1>1, <1>2, <1>3, <1>4

LEMMA SandboxUnrecordedStep == ASSUME LeaseInv, NEW w \in Workers, SandboxUnrecorded(w)
                               PROVE  LeaseInv'
<1> USE DEF LeaseInv, SandboxUnrecorded, Snap, At, Quarantine, Write, objects, Idle, Named,
        Provable
<1>1. TypeOK'
  BY ReasonTyped, LeaseTyped DEF TypeOK, Leases, Claims, Posts, Uids, Phases, Pcs, Causes,
     Admitted, NoClaim, NoUid
<1>2. Passes' /\ ProofGrows'
  BY DEF Passes, ProofGrows, Live, TypeOK, Leases, Admitted
<1>3. NameTaken' /\ NameHeld'
  BY DEF NameTaken, Live, NameHeld, TypeOK, Leases
<1>4. FenceFirst' /\ AbsenceHolds'
  BY DEF FenceFirst, Nothing, ActivePosts, Live, AbsenceHolds, TypeOK, Leases, Admitted
<1> QED
  BY <1>1, <1>2, <1>3, <1>4

\* The second listing: no Pod either, and no Sandbox is left to make one.
LEMMA CheckPodsStep == ASSUME LeaseInv, NEW w \in Workers, CheckPods(w)
                       PROVE  LeaseInv'
<1> USE DEF LeaseInv, CheckPods, Goto, At, Named, Snap, objects
<1>1. TypeOK'
  BY ReasonTyped, LeaseTyped DEF TypeOK, Leases, Claims, Posts, Uids, Phases, Pcs, Causes, Idle,
     Admitted, NoClaim, NoUid
<1>2. Passes' /\ ProofGrows'
  BY ReasonNone, LeaseTyped, ClaimTyped DEF Passes, NameTaken, Idle, Admitted, NoClaim, NoUid,
     ProofGrows, Live, Uids
<1>3. FenceFirst' /\ AbsenceHolds'
  BY DEF FenceFirst, Nothing, ActivePosts, Live, AbsenceHolds, TypeOK, Idle, Admitted
<1>4. NameTaken' /\ NameHeld'
  BY DEF NameTaken, Live, NameHeld
<1> QED
  BY <1>1, <1>2, <1>3, <1>4

\* The proof is written, if the lease is still the one it is about.
LEMMA CheckpointAbsenceStep == ASSUME LeaseInv, NEW w \in Workers, CheckpointAbsence(w)
                               PROVE  LeaseInv'
<1> USE DEF LeaseInv, CheckpointAbsence, Write, objects, Idle, Snap, At
<1>1. TypeOK'
  BY ReasonTyped, LeaseTyped DEF TypeOK, Leases, Claims, Posts, Uids, Phases, Pcs, Causes,
     Admitted, NoClaim, NoUid
<1>2. Passes' /\ ProofGrows'
  BY DEF Passes, ProofGrows, Live, TypeOK, Leases, Admitted
<1>3. NameTaken' /\ NameHeld'
  BY DEF NameTaken, Live, NameHeld, TypeOK, Leases
<1>4. FenceFirst' /\ AbsenceHolds'
  BY LeaseTyped DEF FenceFirst, Nothing, ActivePosts, Live, NoClaim,
     admitted_pending_is_allocation_free, pre_create_is_allocation_free, Posts, AbsenceHolds,
     ProofGrows, Passes, NoUid
<1> QED
  BY <1>1, <1>2, <1>3, <1>4

\* The reservations go, after the proof.
LEMMA ReleaseReservationsStep == ASSUME LeaseInv, NEW w \in Workers, ReleaseReservations(w)
                                 PROVE  LeaseInv'
<1> USE DEF LeaseInv, ReleaseReservations, At, Enter, Tearing, Fencing, Releasing
<1>1. TypeOK'
  <2>1. pass' \in [Workers -> [pc : Pcs, snap : Leases, obs : Claims \cup {NoClaim}]]
    BY LeaseTyped, IdleTyped DEF Pcs, NoUid, NoClaim
  <2> QED
    BY <2>1 DEF TypeOK
<1>2. Passes' /\ ProofGrows'
  BY DEF Passes, ProofGrows, Live, TypeOK, Idle, Admitted
<1>3. FenceFirst' /\ AbsenceHolds'
  BY DEF FenceFirst, Nothing, ActivePosts, Live, AbsenceHolds, TypeOK, Idle, Admitted
<1>4. NameTaken' /\ NameHeld'
  BY DEF NameTaken, Live, NameHeld
<1> QED
  BY <1>1, <1>2, <1>3, <1>4

LEMMA TerminateStep == ASSUME LeaseInv, NEW w \in Workers, Terminate(w)
                       PROVE  LeaseInv'
<1> USE DEF LeaseInv, Terminate, Write, objects, Idle, Snap, At, terminal_phase
<1>1. TypeOK'
  <2>1. lease' \in Leases
    BY LeaseTyped, ReasonTyped DEF Leases, Phases, Causes, Claims, NoClaim, NoUid
  <2>2. pass' \in [Workers -> [pc : Pcs, snap : Leases, obs : Claims \cup {NoClaim}]]
    BY LeaseTyped, IdleTyped DEF Pcs, NoUid, NoClaim
  <2> QED
    BY <2>1, <2>2 DEF TypeOK
<1>2. Passes' /\ ProofGrows'
  BY DEF Passes, ProofGrows, Live, TypeOK, Leases, Admitted
<1>3. NameTaken' /\ NameHeld'
  BY DEF NameTaken, Live, NameHeld, TypeOK, Leases
<1>4. FenceFirst' /\ AbsenceHolds'
  BY DEF FenceFirst, Nothing, ActivePosts, Live, AbsenceHolds, TypeOK, Leases, Admitted
<1> QED
  BY <1>1, <1>2, <1>3, <1>4

-----------------------------------------------------------------------------
(* The theorems.                                                           *)

LEMMA Initially == Init => LeaseInv
<1> SUFFICES ASSUME Init PROVE LeaseInv
  OBVIOUS
<1>1. \A w \in Workers : pass[w] = Idle
  BY DEF Init
<1>2. TypeOK
  <2>1. lease \in Leases
    BY DEF Init, Admitted, Leases, Phases, Causes, NoUid
  <2>2. pass \in [Workers -> [pc : Pcs, snap : Leases, obs : Claims \cup {NoClaim}]]
    BY IdleTyped DEF Init
  <2>3. uids \in 0 .. MaxUid
    BY SandboxLeaseAssumption DEF Init
  <2>4. signals \in Seq({"request", "provisioning", "ttl"})
    BY DEF Init
  <2>5. workload \in [Uids -> SUBSET {"sandbox", "pod"}]
    BY DEF Init
  <2> QED
    BY <2>1, <2>2, <2>3, <2>4, <2>5 DEF Init, TypeOK
<1>3. Passes /\ ProofGrows
  BY <1>1 DEF Passes, ProofGrows, Idle, Admitted
<1>4. NameTaken /\ NameHeld
  BY DEF Init, NameTaken, NameHeld, Live, Admitted, NoClaim, NoUid
<1>5. FenceFirst
  BY <1>1 DEF Init, FenceFirst, Nothing, ActivePosts, Live, NoClaim, Idle
<1>6. AbsenceHolds
  BY DEF Init, AbsenceHolds, Admitted
<1> QED
  BY <1>2, <1>3, <1>4, <1>5, <1>6 DEF LeaseInv

LEMMA Stuttering == LeaseInv /\ UNCHANGED vars => LeaseInv'
<1> SUFFICES ASSUME LeaseInv, UNCHANGED vars PROVE LeaseInv'
  OBVIOUS
<1> USE DEF LeaseInv, vars
<1>1. TypeOK'
  BY DEF TypeOK
<1>2. Passes' /\ NameTaken' /\ NameHeld'
  BY DEF Passes, NameTaken, NameHeld, Live
<1>3. FenceFirst' /\ ProofGrows' /\ AbsenceHolds'
  BY DEF FenceFirst, ProofGrows, AbsenceHolds, ActivePosts, Nothing, Live
<1> QED
  BY <1>1, <1>2, <1>3

LEMMA NextStep == LeaseInv /\ [Next]_vars => LeaseInv'
<1> SUFFICES ASSUME LeaseInv, [Next]_vars PROVE LeaseInv'
  OBVIOUS
<1>1. CASE Controller
  BY <1>1, RecordPlacementStep, BeginProvisioningStep, RecordPoolStep, RecordCleanupFenceStep,
     BeginReleaseStep, CreateFenceStep, RecordFenceStep, RecoverClaimStep,
     CheckpointDescendantsStep, RemoveFinalizerStep
     DEF Controller
<1>2. CASE \E w \in Workers : Place(w)
  BY <1>2, GateLeaseStep, GateFenceStep, ReadCreatedStep, GetClaimStep, RecordClaimStep,
     RecordCanaryStep, RecordProvenanceStep, StampShutdownStep, MarkReadyStep
     DEF Place
<1>3. CASE \E w \in Workers : Release(w)
  BY <1>3, BeginLateReleaseStep, ReleaseLostStep, BeginEnsureStep, CreateTombstoneStep,
     RecordTombstoneStep, ConvertClaimStep, StandingStep, NeverStartedStep,
     ProvenanceMissingStep, CheckSandboxesStep, SandboxUnrecordedStep, CheckPodsStep,
     CheckpointAbsenceStep, ReleaseReservationsStep, TerminateStep
     DEF Release
<1>4. CASE \/ Request \/ QuarantineGate \/ DisableMode \/ DrainAccess \/ EndPod
           \/ \E s \in {"provisioning", "ttl"} : Elapse(s)
           \/ \E w \in Workers : Requeue(w)
  BY <1>4, RequestStep, QuarantineGateStep, DisableModeStep, DrainAccessStep, EndPodStep,
     ElapseStep, RequeueStep
<1>5. CASE Network \/ Upstream \/ Sweep
  BY <1>5, LandCreateStep, RunWorkloadStep, ExpireClaimStep, StopWorkloadStep,
     DeleteLeaseStep, SweepTombstoneStep, SweepFenceStep DEF Network, Upstream, Sweep
<1>6. CASE Fault
  BY <1>6, ForbiddenStep, LoseCreateStep, AbandonStep DEF Fault
<1>7. CASE UNCHANGED vars
  BY <1>7, Stuttering
<1> QED
  BY <1>1, <1>2, <1>3, <1>4, <1>5, <1>6, <1>7 DEF Next, Sound

(* LeaseInv holds in every reachable state, for every set of passes and    *)
(* every number of Claim objects the API server may create.                *)
THEOREM LeaseInvariant == Spec => []LeaseInv
BY Initially, NextStep, PTL DEF Spec

(* Every variable stays in its set.                                        *)
THEOREM LeaseTypes == Spec => []TypeOK
<1>1. LeaseInv => TypeOK
  BY DEF LeaseInv
<1> QED
  BY <1>1, LeaseInvariant, PTL

(* finish_release: after FootprintAbsent is written, whatever a deposed    *)
(* leader still does and however late a CREATE lands, the workload does    *)
(* not come back.                                                          *)
THEOREM ProofIsFinal == Spec => []NoWorkloadAfterProof
<1>1. LeaseInv => NoWorkloadAfterProof
  BY DEF LeaseInv, AbsenceHolds, NoWorkloadAfterProof
<1> QED
  BY <1>1, LeaseInvariant, PTL

(* finish_release: reservations and finalizer are given back only when     *)
(* nothing runs.                                                           *)
THEOREM QuotaCovers == Spec => []QuotaCoversWorkload
<1>1. LeaseInv => QuotaCoversWorkload
  BY DEF LeaseInv, AbsenceHolds, QuotaCoversWorkload
<1> QED
  BY <1>1, LeaseInvariant, PTL

(* A release that records AdmissionOnly or PreCreate really has nothing    *)
(* under way: no Claim, no CREATE of one, no pass beyond the gate.         *)
THEOREM NeverNamed == Spec => []NeverNamedIsEmpty
<1>1. LeaseInv => NeverNamedIsEmpty
  <2> SUFFICES ASSUME LeaseInv, lease.cleanup \in {"AdmissionOnly", "PreCreate"}
               PROVE  /\ Nothing /\ \A p \in posts : p.shape = "tomb"
                      /\ \A w \in Workers : pass[w].pc \notin {"gated", "posted"}
    BY DEF NeverNamedIsEmpty
  <2>1. posts \subseteq Posts
    BY DEF LeaseInv, TypeOK
  <2> QED
    BY <2>1 DEF LeaseInv, FenceFirst, ActivePosts, Posts
<1> QED
  BY <1>1, LeaseInvariant, PTL

(* While the lease exists its Claim name holds one object only, the one    *)
(* the status names.                                                       *)
THEOREM NameIsHeld == Spec => []NameHeld
<1>1. LeaseInv => NameHeld
  BY DEF LeaseInv
<1> QED
  BY <1>1, LeaseInvariant, PTL

-----------------------------------------------------------------------------
(* What a step may never do.                                               *)

LEMMA TombstoneKept ==
    ASSUME LeaseInv, Next, claim.shape = "tomb", lease.exists
    PROVE  claim' = claim
<1> USE DEF LeaseInv
<1>1. CASE Request \/ DrainAccess \/ RunWorkload \/ EndPod \/ QuarantineGate
           \/ DisableMode \/ RecordPlacement \/ BeginProvisioning \/ RecordPool
  BY <1>1 DEF Request, objects, DrainAccess, RunWorkload, EndPod, QuarantineGate,
     Checkpoint, DisableMode, RecordPlacement, BeginProvisioning, RecordPool
<1>2. CASE RecordCleanupFence \/ BeginRelease \/ CreateFence \/ RecordFence
           \/ RecoverClaim \/ CheckpointDescendants \/ RemoveFinalizer \/ DeleteLease
           \/ SweepFence
  BY <1>2 DEF RecordCleanupFence, Checkpoint, objects, BeginRelease, CreateFence,
     RecordFence, RecoverClaim, CheckpointDescendants, RemoveFinalizer, DeleteLease,
     SweepFence
<1>3. CASE Forbidden \/ (\E s \in {"provisioning", "ttl"} : Elapse(s))
           \/ (\E u \in Uids : StopWorkload(u)) \/ (\E p \in Posts : LoseCreate(p))
  BY <1>3 DEF Forbidden, Checkpoint, objects, Elapse, StopWorkload, LoseCreate
<1>4. CASE ExpireClaim
  BY <1>4, ClaimTyped DEF ExpireClaim
<1>5. CASE SweepTombstone
  BY <1>5, ClaimTyped DEF SweepTombstone
<1>6. CASE \E p \in Posts : LandCreate(p)
  BY <1>6, ClaimTyped DEF LandCreate
<1>7. CASE \E w \in Workers : Requeue(w) \/ Abandon(w) \/ GateLease(w) \/ GateFence(w)
           \/ ReadCreated(w) \/ GetClaim(w) \/ RecordClaim(w) \/ RecordCanary(w)
           \/ RecordProvenance(w)
  BY <1>7 DEF Requeue, objects, Abandon, GateLease, GateFence, ReadCreated, GetClaim,
     RecordClaim, Write, Snap, RecordCanary, RecordProvenance
<1>8. CASE \E w \in Workers : MarkReady(w) \/ BeginLateRelease(w) \/ ReleaseLost(w)
           \/ BeginEnsure(w) \/ CreateTombstone(w) \/ RecordTombstone(w) \/ Standing(w)
           \/ NeverStarted(w) \/ ProvenanceMissing(w)
  BY <1>8 DEF MarkReady, Write, objects, Snap, BeginLateRelease, ReleaseLost, BeginEnsure,
     CreateTombstone, RecordTombstone, Standing, NeverStarted, ProvenanceMissing, Quarantine
<1>9. CASE \E w \in Workers : CheckSandboxes(w) \/ SandboxUnrecorded(w) \/ CheckPods(w)
           \/ CheckpointAbsence(w) \/ ReleaseReservations(w) \/ Terminate(w)
  BY <1>9 DEF CheckSandboxes, Snap, objects, SandboxUnrecorded, Quarantine, Write,
     CheckPods, CheckpointAbsence, ReleaseReservations, Terminate
<1>10. CASE \E w \in Workers : StampShutdown(w)
  BY <1>10, StampedClaim
<1>11. CASE \E w \in Workers : ConvertClaim(w)
  BY <1>11 DEF ConvertClaim, Snap
<1> QED
  BY <1>1, <1>2, <1>3, <1>4, <1>5, <1>6, <1>7, <1>8, <1>9, <1>10,
     <1>11
     DEF Next, Sound, Fault, Controller, Place, Release, Upstream, Network, Sweep

LEMMA CauseTyped ==
    ASSUME TypeOK
    PROVE  "cause" \in DOMAIN lease /\ \A w \in Workers : "cause" \in DOMAIN pass[w].snap
BY DEF TypeOK, Leases

LEMMA CauseKept ==
    ASSUME LeaseInv, Next, lease.cause # "none"
    PROVE  lease'.cause = lease.cause
<1> USE DEF LeaseInv
<1>1. CASE Request \/ RecordPlacement \/ BeginProvisioning \/ RecordPool
  BY <1>1, CauseTyped DEF Request, objects, RecordPlacement, Checkpoint, BeginProvisioning,
     RecordPool
<1>2. CASE RecordCleanupFence \/ RecordFence \/ RecoverClaim \/ CheckpointDescendants
  BY <1>2, CauseTyped DEF RecordCleanupFence, Checkpoint, objects, RecordFence,
     RecoverClaim, CheckpointDescendants
<1>3. CASE RemoveFinalizer \/ DeleteLease \/ Forbidden
  BY <1>3, CauseTyped DEF RemoveFinalizer, Checkpoint, objects, DeleteLease, Forbidden
<1>4. CASE DrainAccess \/ RunWorkload \/ ExpireClaim \/ EndPod \/ CreateFence
           \/ SweepTombstone \/ SweepFence
           \/ (\E s \in {"provisioning", "ttl"} : Elapse(s))
           \/ (\E u \in Uids : StopWorkload(u))
  BY <1>4, CauseTyped DEF DrainAccess, RunWorkload, ExpireClaim, EndPod, CreateFence,
     SweepTombstone, SweepFence, Elapse, objects, StopWorkload
<1>5. CASE (\E p \in Posts : LandCreate(p)) \/ (\E p \in Posts : LoseCreate(p))
  BY <1>5, CauseTyped DEF LandCreate, LoseCreate
<1>6. CASE QuarantineGate
  BY <1>6, ReasonNone DEF QuarantineGate, Placing, Checkpoint, objects
<1>7. CASE DisableMode
  BY <1>7, ReasonNone DEF DisableMode, Placing, Checkpoint, objects
<1>8. CASE BeginRelease
  BY <1>8, CauseTyped, ReasonNone DEF BeginRelease, Releasing, Checkpoint, objects,
     ToReleasing
<1>9. CASE \E w \in Workers : Requeue(w) \/ Abandon(w) \/ GateLease(w) \/ GateFence(w)
           \/ ReadCreated(w) \/ GetClaim(w) \/ StampShutdown(w) \/ BeginEnsure(w)
           \/ CreateTombstone(w)
  BY <1>9, CauseTyped DEF Requeue, objects, Abandon, GateLease, GateFence, ReadCreated,
     GetClaim, StampShutdown, Snap, BeginEnsure, CreateTombstone
<1>10. CASE \E w \in Workers : ConvertClaim(w) \/ Standing(w) \/ CheckSandboxes(w)
            \/ CheckPods(w) \/ ReleaseReservations(w)
  BY <1>10, CauseTyped DEF ConvertClaim, Snap, Standing, objects, CheckSandboxes, CheckPods,
     ReleaseReservations
<1>11. CASE \E w \in Workers : RecordClaim(w) \/ RecordCanary(w) \/ RecordProvenance(w)
            \/ MarkReady(w)
  BY <1>11, CauseTyped DEF RecordClaim, Write, objects, Snap, RecordCanary,
     RecordProvenance, MarkReady
<1>12. CASE \E w \in Workers : RecordTombstone(w) \/ NeverStarted(w)
            \/ ProvenanceMissing(w) \/ SandboxUnrecorded(w)
  BY <1>12, CauseTyped DEF RecordTombstone, Write, objects, Snap, NeverStarted,
     ProvenanceMissing, Quarantine, SandboxUnrecorded
<1>13. CASE \E w \in Workers : CheckpointAbsence(w) \/ Terminate(w)
  BY <1>13, CauseTyped DEF CheckpointAbsence, Write, objects, Snap, Terminate
<1>14. CASE \E w \in Workers : BeginLateRelease(w)
  BY <1>14, CauseTyped DEF BeginLateRelease, Write, objects, Snap, At, Passes
<1>15. CASE \E w \in Workers : ReleaseLost(w)
  BY <1>15, CauseTyped DEF ReleaseLost, Write, objects, Snap, At, Passes
<1> QED
  BY <1>1, <1>2, <1>3, <1>4, <1>5, <1>6, <1>7, <1>8, <1>9, <1>10,
     <1>11, <1>12, <1>13, <1>14, <1>15
     DEF Next, Sound, Fault, Controller, Place, Release, Upstream, Network, Sweep

(* A tombstone stays one until its lease is gone: no stale pass turns it   *)
(* back into a live Claim, and no late CREATE takes its name.              *)
THEOREM TombstoneIsFinal == Spec => TombstoneStays
<1>1. LeaseInv /\ [Next]_vars =>
        [claim.shape = "tomb" /\ lease.exists => claim' = claim]_vars
  BY TombstoneKept
<1> QED
  BY <1>1, LeaseInvariant, PTL DEF Spec, TombstoneStays

(* drive_release: the first cause that is written decides the outcome; a   *)
(* later signal, a late pass or a retry does not replace it.               *)
THEOREM CauseIsFinal == Spec => FirstCauseWins
<1>1. LeaseInv /\ [Next]_vars =>
        [lease.cause # "none" => lease'.cause = lease.cause]_vars
  BY CauseKept
<1> QED
  BY <1>1, LeaseInvariant, PTL DEF Spec, FirstCauseWins
=============================================================================
