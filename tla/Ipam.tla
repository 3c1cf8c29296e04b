-------------------------------- MODULE Ipam --------------------------------
(***************************************************************************)
(* Address ranges for guest clusters: the IPAM controller                  *)
(* (src/src/controllers/ipam.rs), the slot arithmetic under it             *)
(* (src/src/pool/cidr_alloc.rs) and the part of the instance controller    *)
(* that asks for a range and copies it (src/src/controllers/instance.rs).  *)
(*                                                                         *)
(* A CIDRClaim is the allocation: there is no other book.  A claim has the *)
(* name of its instance and is removed by the garbage collector some time  *)
(* after the instance, so a successor of the same name may meet its        *)
(* predecessor's claim.  The controller reconciles one claim at a time,    *)
(* but its two LISTs and its unfenced status PATCH interleave with         *)
(* instances, users and the collector.                                     *)
(*                                                                         *)
(* An Option is a set of at most one element.  A CIDR carries its          *)
(* spelling, since the code compares ranges in use as strings.             *)
(***************************************************************************)
EXTENDS Integers, FiniteSets, FiniteSetsExt

CONSTANTS
    Width,          \* bits of an address (32)
    Members,        \* names of ClusterInstances
    Legacy,         \* those that may be older than IPAM
    Pinned,         \* names of claims a user makes
    Requests,       \* the ranges a user may pin: [svc, cls], each an Option
    BuiltIn,        \* ipam_plan()
    Plans,          \* the plans a start may find: built in, CIDRPool/default
    MaxUid,         \* bound: instances that ever have a given name
    MaxStarts       \* bound: restarts of the operator

Claims == Members \cup Pinned

CIDR == [addr: 0..(2^Width - 1), prefix: 0..Width, text: {"canonical", "padded"}]

Option(S) == {{}} \cup {{x} : x \in S}

VARIABLES
    plan,       \* IpamContext.plan
    blocked,    \* IpamContext.blocked: CIDRPool/default is invalid
    claim,      \* the CIDRClaims, by name
    inst,       \* the ClusterInstances, by name
    copying,    \* the network an instance pass has read and is about to write
    pass,       \* the one claim reconcile in flight
    starts      \* restarts so far (bounds the run)

vars == <<plan, blocked, claim, inst, copying, pass, starts>>
-----------------------------------------------------------------------------
(* cidr_alloc.rs: a block cut into equal slots. *)

Size(prefix) == 2^(Width - prefix)

\* addr & block_mask(prefix)
Masked(addr, prefix) == addr - (addr % Size(prefix))

\* 1u32 << (32 - prefix): the shift count wraps.
Stride(prefix) == 2^((Width - prefix) % Width)

\* Block::parse: what it accepts.
ValidBlock(b) ==
    /\ b.slot_prefix >= b.block_prefix
    /\ Masked(b.network, b.block_prefix) = b.network

BlockCapacity(b) ==
    LET bits == b.slot_prefix - b.block_prefix
    IN IF bits >= Width THEN 2^Width - 1 ELSE 2^bits

cidr_at(b, slot) ==
    [addr |-> (b.network + slot * Stride(b.slot_prefix)) % 2^Width,
     prefix |-> b.slot_prefix, text |-> "canonical"]

Offset(b, c) == (c.addr - b.network) % 2^Width

\* slot_of is Some: c is a slot of b, however it is spelled.
HasSlot(b, c) ==
    /\ c.prefix = b.slot_prefix
    /\ Masked(c.addr, b.block_prefix) = b.network
    /\ Offset(b, c) % Stride(b.slot_prefix) = 0

slot_of(b, c) == Offset(b, c) \div Stride(b.slot_prefix)

\* Block::overlaps
Overlaps(a, b) ==
    /\ a.network < b.network + Size(b.block_prefix)
    /\ b.network < a.network + Size(a.block_prefix)

\* PoolPlan::new: what it accepts.
ValidPlan(p) ==
    ValidBlock(p.service) /\ ValidBlock(p.cluster) /\ ~Overlaps(p.service, p.cluster)

Capacity(p) == Min({BlockCapacity(p.service), BlockCapacity(p.cluster)})

\* The slots whose two CIDRs are, as strings, not in use.
FreeSlots(p, used) ==
    {s \in 0..(Capacity(p) - 1) :
        cidr_at(p.service, s) \notin used.svc /\ cidr_at(p.cluster, s) \notin used.cls}

\* pick_first_free
pick_first_free(p, used) ==
    LET s == Min(FreeSlots(p, used))
    IN [svc |-> cidr_at(p.service, s), cls |-> cidr_at(p.cluster, s)]

ASSUME IpamAssumption ==
    /\ Width \in Nat \ {0} /\ MaxUid \in [Members -> Nat] /\ MaxStarts \in Nat
    /\ Legacy \subseteq Members /\ Members \cap Pinned = {}
    /\ BuiltIn \in Plans /\ \A p \in Plans : ValidPlan(p)
    /\ \A r \in Requests : r.svc \in Option(CIDR) /\ r.cls \in Option(CIDR)

\* What PlanSound says of the plans in use: each has a slot, and slot_of knows the
\* CIDRs that cidr_at makes.
ASSUME SlotAssumption ==
    \A p \in Plans :
        /\ 0 \in 0..(Capacity(p) - 1)
        /\ \A s \in 0..(Capacity(p) - 1) :
             HasSlot(p.service, cidr_at(p.service, s)) /\ HasSlot(p.cluster, cidr_at(p.cluster, s))
-----------------------------------------------------------------------------
NoRequest == [svc |-> {}, cls |-> {}]

NoClaim == [phase |-> "Absent", owner |-> 0, req |-> NoRequest, svc |-> {}, cls |-> {}]

Phases == {"Pending", "Bound", "Conflict"}

Exists(n) == claim[n].phase \in Phases

NoPass == [pc |-> "idle", name |-> "", req |-> NoRequest, had |-> NoRequest,
           used |-> NoRequest, cidrs |-> {}]

\* A member may be a leftover of the allocator before IPAM: a network and no claim.
Init ==
    /\ plan = BuiltIn /\ blocked = FALSE
    /\ claim = [n \in Claims |-> NoClaim]
    /\ \E old \in Option(Legacy) :
         inst = [n \in Members |->
             IF n \in old
             THEN [uid |-> 1, phase |-> "Live", unbacked |-> FALSE,
                   network |-> {[svc |-> cidr_at(BuiltIn.service, 0),
                                 cls |-> cidr_at(BuiltIn.cluster, 0)]}]
             ELSE [uid |-> 0, phase |-> "None", unbacked |-> FALSE, network |-> {}]]
    /\ copying = [n \in Members |-> {}]
    /\ pass = NoPass /\ starts = 0
-----------------------------------------------------------------------------
(* The IPAM controller: reconcile_claim, one claim at a time. *)

\* The arms that end in Conflict without a LIST.
validate_static(req) ==
    \A s \in req.svc, c \in req.cls :
        /\ HasSlot(plan.service, s) /\ HasSlot(plan.cluster, c)
        /\ slot_of(plan.service, s) = slot_of(plan.cluster, c)

OneSided(req) == Cardinality(req.svc) # Cardinality(req.cls)

\* A Bound claim whose CIDRs are slots of the current plan is left alone.
StillFits(c) ==
    \E s \in c.svc, k \in c.cls : HasSlot(plan.service, s) /\ HasSlot(plan.cluster, k)

Refused(c) ==
    \/ blocked
    \/ c.phase = "Bound"
    \/ OneSided(c.req) \/ ~validate_static(c.req)

\* Mutation: a Conflict is final.
Reconcilable_NoRetry(c) ==
    c.phase = "Pending" \/ (c.phase = "Bound" /\ (blocked \/ ~StillFits(c)))

Reconcilable(c) == c.phase = "Bound" => blocked \/ ~StillFits(c)

\* Mutation: a Conflict claim holds nothing.
HeldByClaims_BoundOnly(n) ==
    LET others == {m \in Claims \ {n} : claim[m].phase = "Bound"}
    IN [svc |-> UNION {claim[m].svc : m \in others}, cls |-> UNION {claim[m].cls : m \in others}]

\* Every other claim that carries CIDRs, in any phase.
HeldByClaims(n) ==
    LET others == {m \in Claims \ {n} : Exists(m)}
    IN [svc |-> UNION {claim[m].svc : m \in others}, cls |-> UNION {claim[m].cls : m \in others}]

\* The networks recorded on instances, as far as they are slots of the plan.
HeldByInstances ==
    LET nets == UNION {inst[n].network : n \in {m \in Members : inst[m].phase # "None"}}
    IN [svc |-> {c \in {net.svc : net \in nets} : HasSlot(plan.service, c)},
        cls |-> {c \in {net.cls : net \in nets} : HasSlot(plan.cluster, c)}]

Both(a, b) == [svc |-> a.svc \cup b.svc, cls |-> a.cls \cup b.cls]

\* Mutation: the two LISTs swapped.
compute_used_Swapped(n) == <<HeldByInstances, HeldByClaims(n)>>

\* compute_used: the first LIST is of claims, the second of instances.
compute_used(n) == <<HeldByClaims(n), HeldByInstances>>

\* A pass starts from the watch cache, which is taken to be up to date, and gives its
\* verdict at once or LISTs the claims.
ReconcileClaim(n) ==
    /\ pass.pc = "idle" /\ Exists(n) /\ Reconcilable(claim[n])
    /\ LET begun == [NoPass EXCEPT !.name = n,
                        !.had = [svc |-> claim[n].svc, cls |-> claim[n].cls]]
       IN pass' = IF Refused(claim[n])
                  THEN [begun EXCEPT !.pc = "write"]
                  ELSE [begun EXCEPT !.pc = "listed", !.req = claim[n].req,
                                     !.used = compute_used(n)[1]]
    /\ UNCHANGED <<plan, blocked, claim, inst, copying, starts>>

\* The pinned range if it is free, else the first free slot, else Conflict.
Allocated(req, used) ==
    IF req # NoRequest
    THEN {[svc |-> s, cls |-> c] : s \in req.svc \ used.svc, c \in req.cls \ used.cls}
    ELSE IF FreeSlots(plan, used) = {} THEN {} ELSE {pick_first_free(plan, used)}

ListInstances ==
    /\ pass.pc = "listed"
    /\ LET used == Both(pass.used, compute_used(pass.name)[2])
       IN pass' = [NoPass EXCEPT !.pc = "write", !.name = pass.name, !.had = pass.had,
                                 !.cidrs = Allocated(pass.req, used)]
    /\ UNCHANGED <<plan, blocked, claim, inst, copying, starts>>

\* set_conflict: a merge PATCH by name; what the pass read is written back, and an
\* absent field leaves the stored one alone.
Conflicted(c) ==
    [c EXCEPT !.phase = "Conflict",
              !.svc = IF pass.had.svc = {} THEN @ ELSE pass.had.svc,
              !.cls = IF pass.had.cls = {} THEN @ ELSE pass.had.cls]

\* set_bound
BoundTo(c, net) == [c EXCEPT !.phase = "Bound", !.svc = {net.svc}, !.cls = {net.cls}]

\* The PATCH lands on whatever has the name now, and fails if nothing has.
PatchClaim ==
    /\ pass.pc = "write"
    /\ claim' = [claim EXCEPT ![pass.name] =
           IF ~Exists(pass.name) THEN @
           ELSE IF pass.cidrs = {} THEN Conflicted(@)
           ELSE BoundTo(@, CHOOSE net \in pass.cidrs : TRUE)]
    /\ pass' = NoPass
    /\ UNCHANGED <<plan, blocked, inst, copying, starts>>

\* A LIST or the PATCH fails: error_policy tries again later.
AbandonPass ==
    /\ pass.pc # "idle"
    /\ pass' = NoPass
    /\ UNCHANGED <<plan, blocked, claim, inst, copying, starts>>

\* run_ipam_controller: the plan is resolved once, at the start of the process.  A
\* failed read of CIDRPool/default is taken for its absence; an invalid one blocks.
Restart ==
    /\ starts < MaxStarts /\ starts' = starts + 1
    /\ \/ plan' \in Plans /\ blocked' = FALSE
       \/ plan' = BuiltIn /\ blocked' = TRUE
    /\ pass' = NoPass
    /\ copying' = [n \in Members |-> {}]
    /\ UNCHANGED <<claim, inst>>
-----------------------------------------------------------------------------
(* The instance controller. *)

Waiting(n) == inst[n].phase = "Live" /\ inst[n].network = {}

\* ensure_claim_bound, no claim of that name: create one, owned by this instance.
CreateClaim(n) ==
    /\ Waiting(n) /\ copying[n] = {} /\ ~Exists(n)
    /\ claim' = [claim EXCEPT ![n] = [NoClaim EXCEPT !.phase = "Pending", !.owner = inst[n].uid]]
    /\ UNCHANGED <<plan, blocked, inst, copying, pass, starts>>

\* ensure_claim_bound, claim_resolution = Bound: nobody asks whose claim it is.
ReadClaim(n) ==
    /\ Waiting(n) /\ copying[n] = {} /\ claim[n].phase = "Bound"
    /\ copying' = [copying EXCEPT ![n] =
           {[svc |-> s, cls |-> c] : s \in claim[n].svc, c \in claim[n].cls}]
    /\ UNCHANGED <<plan, blocked, claim, inst, pass, starts>>

Holds(c, net) == c.phase \in Phases /\ net.svc \in c.svc /\ net.cls \in c.cls

\* patch_instance_status with the network; unbacked is history: by now no claim of
\* that name holds the network any more.
WriteNetwork(n) ==
    /\ copying[n] # {}
    /\ inst' = [inst EXCEPT ![n].network = copying[n],
                            ![n].unbacked = \A net \in copying[n] : ~Holds(claim[n], net)]
    /\ copying' = [copying EXCEPT ![n] = {}]
    /\ UNCHANGED <<plan, blocked, claim, pass, starts>>

\* The status write fails or its fence is lost.
LoseWrite(n) ==
    /\ copying[n] # {}
    /\ copying' = [copying EXCEPT ![n] = {}]
    /\ UNCHANGED <<plan, blocked, claim, inst, pass, starts>>
-----------------------------------------------------------------------------
(* The pool, users and the garbage collector. *)

CreateInstance(n) ==
    /\ inst[n].phase = "None" /\ inst[n].uid < MaxUid[n]
    /\ inst' = [inst EXCEPT ![n] = [uid |-> @.uid + 1, phase |-> "Live", unbacked |-> FALSE,
                                    network |-> {}]]
    /\ UNCHANGED <<plan, blocked, claim, copying, pass, starts>>

\* The backend is deleted, in a pass of the same instance, so no other is under way.
\* The k3s backend deletes the claim itself; the others leave it to the collector.
DeleteBackend(n) ==
    /\ inst[n].phase = "Live" /\ copying[n] = {}
    /\ inst' = [inst EXCEPT ![n].phase = "Ending"]
    /\ claim' = [claim EXCEPT ![n] = NoClaim] \/ UNCHANGED claim
    /\ UNCHANGED <<plan, blocked, copying, pass, starts>>

\* The finalizer goes.
RemoveInstance(n) ==
    /\ inst[n].phase = "Ending"
    /\ inst' = [inst EXCEPT ![n].phase = "None", ![n].network = {}, ![n].unbacked = FALSE]
    /\ UNCHANGED <<plan, blocked, claim, copying, pass, starts>>

CollectClaim(n) ==
    /\ Exists(n) /\ ~(inst[n].phase # "None" /\ inst[n].uid = claim[n].owner)
    /\ claim' = [claim EXCEPT ![n] = NoClaim]
    /\ UNCHANGED <<plan, blocked, inst, copying, pass, starts>>

PinRange(n) ==
    /\ ~Exists(n)
    /\ \E r \in Requests :
         claim' = [claim EXCEPT ![n] = [NoClaim EXCEPT !.phase = "Pending", !.req = r]]
    /\ UNCHANGED <<plan, blocked, inst, copying, pass, starts>>

UnpinRange(n) ==
    /\ Exists(n)
    /\ claim' = [claim EXCEPT ![n] = NoClaim]
    /\ UNCHANGED <<plan, blocked, inst, copying, pass, starts>>
-----------------------------------------------------------------------------
Allocate == ListInstances \/ PatchClaim

Ensure(n) == CreateClaim(n) \/ ReadClaim(n) \/ WriteNetwork(n)

Sound ==
    \/ Allocate
    \/ \E n \in Claims : ReconcileClaim(n)
    \/ \E n \in Members : Ensure(n) \/ CreateInstance(n) \/ DeleteBackend(n)
                           \/ RemoveInstance(n) \/ CollectClaim(n)
    \/ \E n \in Pinned : PinRange(n) \/ UnpinRange(n)

Next == Sound \/ AbandonPass \/ Restart \/ \E n \in Members : LoseWrite(n)

Spec == Init /\ [][Next]_vars

\* The reconciler's queue is served in order and a Conflict comes back after 60 s
\* (SF: the one slot is busy in between); instance passes are requeued, the
\* collector runs; failures do not go on for ever.
Fairness ==
    /\ WF_vars(Allocate) /\ \A n \in Claims : SF_vars(ReconcileClaim(n))
    /\ \A n \in Members : WF_vars(Ensure(n)) /\ WF_vars(CollectClaim(n))
    /\ <>[][Sound]_vars

LiveSpec == Spec /\ Fairness
-----------------------------------------------------------------------------
OptionalRange(S) == Cardinality(S) <= 1 /\ S \subseteq CIDR

OptionalNetwork(S) == Cardinality(S) <= 1 /\ \A net \in S : {net.svc, net.cls} \subseteq CIDR

\* Type correctness of the claims, the instances and the passes over them.
TypeOK ==
    /\ plan \in Plans /\ blocked \in BOOLEAN /\ starts \in 0..MaxStarts
    /\ \A n \in Claims :
         /\ claim[n].phase \in Phases \cup {"Absent"}
         /\ claim[n].req \in Requests \cup {NoRequest}
         /\ OptionalRange(claim[n].svc) /\ OptionalRange(claim[n].cls)
    /\ \A n \in Members :
         /\ inst[n].uid \in 0..MaxUid[n] /\ inst[n].phase \in {"None", "Live", "Ending"}
         /\ OptionalNetwork(inst[n].network) /\ OptionalNetwork(copying[n])
    /\ pass.pc \in {"idle", "listed", "write"} /\ OptionalNetwork(pass.cidrs)

\* Two CIDRs have an address in common.
Meet(c, d) ==
    LET from(x) == Masked(x.addr, x.prefix)
    IN from(c) < from(d) + Size(d.prefix) /\ from(d) < from(c) + Size(c.prefix)

\* PlanSound: in every plan PoolPlan::new accepts, the slots of a block lie inside it
\* and are disjoint, slot_of undoes cidr_at, no service slot meets a cluster slot, and
\* neither the shift nor the wrapping arithmetic of cidr_at is ever off.
PlanSound ==
    LET blocks == {b \in [network: 0..(2^Width - 1), block_prefix: 0..Width,
                          slot_prefix: 0..Width] : ValidBlock(b)}
    IN \A a, b \in blocks : ~Overlaps(a, b) =>
         /\ \A s \in 0..(BlockCapacity(a) - 1) :
              HasSlot(a, cidr_at(a, s)) /\ slot_of(a, cidr_at(a, s)) = s
         /\ \A s, t \in 0..(BlockCapacity(a) - 1) :
              Meet(cidr_at(a, s), cidr_at(a, t)) => s = t
         /\ \A s \in 0..(BlockCapacity(a) - 1), t \in 0..(BlockCapacity(b) - 1) :
              ~Meet(cidr_at(a, s), cidr_at(b, t))

\* What the operator may ever hand out: the slots of its plans, and the pins.
Slots(p) == 0..(Capacity(p) - 1)

ServiceRanges ==
    (UNION {{cidr_at(p.service, s) : s \in Slots(p)} : p \in Plans}) \cup (UNION {r.svc : r \in Requests})

ClusterRanges ==
    (UNION {{cidr_at(p.cluster, s) : s \in Slots(p)} : p \in Plans}) \cup (UNION {r.cls : r \in Requests})

\* The plans cut the address space alike and every pin is spelled canonically, so that
\* two ranges with an address in common are the same string.
OneGrid ==
    /\ \A c, d \in ServiceRanges : Meet(c, d) => c = d
    /\ \A c, d \in ClusterRanges : Meet(c, d) => c = d

\* ClaimsDisjoint: no two claims carry CIDRs with an address in common, over restarts,
\* plan changes, released names and PATCHes that land on a successor; a claim in
\* Conflict keeps what it once had.
ClaimsDisjoint ==
    \A m, n \in Claims : m # n /\ Exists(m) /\ Exists(n) =>
        /\ \A c \in claim[m].svc, d \in claim[n].svc : ~Meet(c, d)
        /\ \A c \in claim[m].cls, d \in claim[n].cls : ~Meet(c, d)

\* NetworksDisjoint: no two guests that exist have addresses in common, unless one of
\* them wrote its network when its claim no longer held it.
NetworksDisjoint ==
    \A m, n \in Members :
        m # n /\ ~inst[m].unbacked /\ ~inst[n].unbacked
          => \A a \in inst[m].network, b \in inst[n].network :
                ~Meet(a.svc, b.svc) /\ ~Meet(a.cls, b.cls)

\* A slot is left that no other claim and no instance takes up.
RoomFor(n) == FreeSlots(plan, Both(HeldByClaims(n), HeldByInstances)) # {}

\* NetworkServed: while the plan is valid and has room, an instance waiting for its
\* network gets it, whatever claim it found under its name and whatever Conflict that
\* claim had been in.
NetworkServed ==
    \A n \in Members : <>[](~blocked /\ RoomFor(n)) => (Waiting(n) ~> ~Waiting(n))
=============================================================================
