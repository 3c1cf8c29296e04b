------------------------------ MODULE IpamProofs ------------------------------
(***************************************************************************)
(* Proofs about Ipam, for any set of instances, claims, pins and plans:    *)
(* IpamInv is inductive, no range is ever in two claims or in two guests   *)
(* as a string, and, when the ranges lie on one grid, none has an address  *)
(* in common with another.                                                 *)
(***************************************************************************)
EXTENDS Ipam, WellFoundedInduction, TLAPS

\* A network is a pair of ranges.
Networks == [svc : ServiceRanges, cls : ClusterRanges]

ClaimRecord == [phase : Phases \cup {"Absent"}, owner : Nat, req : Requests \cup {NoRequest},
                svc : SUBSET ServiceRanges, cls : SUBSET ClusterRanges]

InstRecord == [uid : Nat, phase : {"None", "Live", "Ending"}, unbacked : BOOLEAN,
               network : SUBSET Networks]

Typed ==
    /\ plan \in Plans
    /\ claim \in [Claims -> ClaimRecord] /\ inst \in [Members -> InstRecord]
    /\ copying \in [Members -> SUBSET Networks]

PassTyped ==
    /\ pass.pc \in {"idle", "listed", "write"}
    /\ pass.req \in Requests \cup {NoRequest} /\ pass.cidrs \subseteq Networks
    /\ pass.had.svc \subseteq ServiceRanges /\ pass.had.cls \subseteq ClusterRanges

\* A claim has one range of each kind at most, and one that is not there has none; an
\* instance writes one network at most, and only while it exists.
Single(S) == \A x, y \in S : x = y

OneRange ==
    /\ \A n \in Claims :
         /\ Single(claim[n].svc) /\ Single(claim[n].cls)
         /\ ~Exists(n) => claim[n].svc = {} /\ claim[n].cls = {}
    /\ Single(pass.had.svc) /\ Single(pass.had.cls)
    /\ \A n \in Members :
         /\ Single(copying[n]) /\ (copying[n] # {} => inst[n].phase = "Live")
         /\ inst[n].phase = "None" => inst[n].network = {}

\* No range is in two claims.
ClaimsUnique ==
    \A m, n \in Claims : m # n =>
        /\ \A c \in claim[m].svc : c \notin claim[n].svc
        /\ \A c \in claim[m].cls : c \notin claim[n].cls

\* The range of a claim is in no other guest that wrote its network with its claim
\* behind it.
ClaimsApart ==
    \A n \in Claims, m \in Members : m # n /\ ~inst[m].unbacked =>
        \A b \in inst[m].network : b.svc \notin claim[n].svc /\ b.cls \notin claim[n].cls

\* No range is in two such guests.
NetworksUnique ==
    \A m, n \in Members : m # n /\ ~inst[m].unbacked /\ ~inst[n].unbacked =>
        \A a \in inst[m].network, b \in inst[n].network : a.svc # b.svc /\ a.cls # b.cls

\* What the pass in flight may write is in no other claim ...
PassUnique ==
    pass.pc # "idle" =>
        /\ pass.name \in Claims
        /\ \A m \in Claims \ {pass.name} :
             /\ \A c \in pass.had.svc : c \notin claim[m].svc
             /\ \A c \in pass.had.cls : c \notin claim[m].cls
             /\ \A net \in pass.cidrs : net.svc \notin claim[m].svc /\ net.cls \notin claim[m].cls

\* ... and in no other guest.
PassApart ==
    pass.pc # "idle" =>
        \A m \in Members \ {pass.name} : ~inst[m].unbacked =>
            \A b \in inst[m].network :
                /\ b.svc \notin pass.had.svc /\ b.cls \notin pass.had.cls
                /\ \A net \in pass.cidrs : net.svc # b.svc /\ net.cls # b.cls

\* Between the two LISTs the pass knows the range of every other claim, and its pin is
\* one that the plan has.
PassKnows ==
    pass.pc = "listed" =>
        /\ \A m \in Claims \ {pass.name} :
             claim[m].svc \subseteq pass.used.svc /\ claim[m].cls \subseteq pass.used.cls
        /\ \A s \in pass.req.svc, c \in pass.req.cls :
             HasSlot(plan.service, s) /\ HasSlot(plan.cluster, c)

IpamInv ==
    /\ Typed /\ PassTyped /\ OneRange /\ ClaimsUnique /\ ClaimsApart /\ NetworksUnique
    /\ PassUnique /\ PassApart /\ PassKnows

-----------------------------------------------------------------------------
(* What is handed out is free.                                             *)

\* pick_first_free takes a free slot.
LEMMA LeastOf ==
    ASSUME NEW T \in SUBSET Nat, T # {}
    PROVE  Min(T) \in T
<1>1. PICK x \in T : \A y \in T : ~(<<y, x>> \in OpToRel(<, Nat))
  BY NatLessThanWellFounded, WFMin
<1>2. \A y \in T : x <= y
  <2> SUFFICES ASSUME NEW y \in T, ~(x <= y) PROVE FALSE
    OBVIOUS
  <2>1. <<y, x>> \in Nat \X Nat /\ <<y, x>>[1] < <<y, x>>[2]
    OBVIOUS
  <2>2. <<y, x>> \in OpToRel(<, Nat)
    BY <2>1, Zenon DEF OpToRel
  <2> QED
    BY <1>1, <2>2
<1> QED
  BY <1>2 DEF Min

\* A slot of a plan is a range the operator may hand out, and slot_of knows it.
LEMMA SlotRanges ==
    ASSUME NEW p \in Plans, NEW s \in Slots(p)
    PROVE  /\ cidr_at(p.service, s) \in ServiceRanges /\ cidr_at(p.cluster, s) \in ClusterRanges
           /\ HasSlot(p.service, cidr_at(p.service, s)) /\ HasSlot(p.cluster, cidr_at(p.cluster, s))
<1> DEFINE S(q) == {cidr_at(q.service, t) : t \in Slots(q)}
           C(q) == {cidr_at(q.cluster, t) : t \in Slots(q)}
<1>1. cidr_at(p.service, s) \in S(p) /\ cidr_at(p.cluster, s) \in C(p)
  OBVIOUS
<1>2. ServiceRanges = (UNION {S(q) : q \in Plans}) \cup (UNION {r.svc : r \in Requests})
  BY DEF ServiceRanges
<1>3. ClusterRanges = (UNION {C(q) : q \in Plans}) \cup (UNION {r.cls : r \in Requests})
  BY DEF ClusterRanges
<1> HIDE DEF S, C
<1>4. cidr_at(p.service, s) \in ServiceRanges /\ cidr_at(p.cluster, s) \in ClusterRanges
  BY <1>1, <1>2, <1>3
<1> QED
  BY <1>4, SlotAssumption DEF Slots

\* So is a pin.
LEMMA PinRanges ==
    ASSUME NEW r \in Requests \cup {NoRequest}
    PROVE  r.svc \subseteq ServiceRanges /\ r.cls \subseteq ClusterRanges
<1>1. CASE r \in Requests
  <2> DEFINE svc == UNION {q.svc : q \in Requests}
             cls == UNION {q.cls : q \in Requests}
  <2>1. r.svc \subseteq svc /\ r.cls \subseteq cls
    BY <1>1
  <2> DEFINE S == UNION {{cidr_at(p.service, s) : s \in Slots(p)} : p \in Plans}
             C == UNION {{cidr_at(p.cluster, s) : s \in Slots(p)} : p \in Plans}
  <2>2. ServiceRanges = S \cup svc /\ ClusterRanges = C \cup cls
    BY DEF ServiceRanges, ClusterRanges
  <2> HIDE DEF S, C, svc, cls
  <2> QED
    BY <2>1, <2>2
<1>2. CASE r = NoRequest
  BY <1>2 DEF NoRequest
<1> QED
  BY <1>1, <1>2

\* Allocated answers with a range of the plan that is not in use.
LEMMA AllocatedFree ==
    ASSUME plan \in Plans, NEW req \in Requests \cup {NoRequest}, NEW used,
           \A s \in req.svc, c \in req.cls : HasSlot(plan.service, s) /\ HasSlot(plan.cluster, c),
           NEW net \in Allocated(req, used)
    PROVE  /\ net \in Networks /\ net.svc \notin used.svc /\ net.cls \notin used.cls
           /\ HasSlot(plan.service, net.svc) /\ HasSlot(plan.cluster, net.cls)
<1>1. CASE req # NoRequest
  <2>1. PICK s \in req.svc \ used.svc, c \in req.cls \ used.cls : net = [svc |-> s, cls |-> c]
    BY <1>1 DEF Allocated
  <2> QED
    BY <2>1, PinRanges DEF Networks
<1>2. CASE req = NoRequest
  <2> DEFINE s == Min(FreeSlots(plan, used))
  <2>1. FreeSlots(plan, used) # {}
        /\ net = [svc |-> cidr_at(plan.service, s), cls |-> cidr_at(plan.cluster, s)]
    BY <1>2 DEF Allocated, pick_first_free
  <2>2. s \in FreeSlots(plan, used)
    <3>1. FreeSlots(plan, used) \in SUBSET Nat
      BY DEF FreeSlots
    <3> QED
      BY <2>1, <3>1, LeastOf
  <2> HIDE DEF s
  <2>3. /\ s \in Slots(plan)
        /\ cidr_at(plan.service, s) \notin used.svc /\ cidr_at(plan.cluster, s) \notin used.cls
    BY <2>2 DEF FreeSlots, Slots
  <2> QED
    BY <2>1, <2>3, SlotRanges DEF Networks
<1> QED
  BY <1>1, <1>2

\* The first LIST misses no other claim ...
LEMMA UsedByClaims ==
    ASSUME OneRange, NEW n \in Claims, NEW m \in Claims \ {n}
    PROVE  claim[m].svc \subseteq HeldByClaims(n).svc /\ claim[m].cls \subseteq HeldByClaims(n).cls
BY DEF OneRange, HeldByClaims

\* ... and the second no guest, as far as the plan can hand out its range.
LEMMA UsedByInstances ==
    ASSUME OneRange, NEW m \in Members, NEW b \in inst[m].network
    PROVE  /\ HasSlot(plan.service, b.svc) => b.svc \in HeldByInstances.svc
           /\ HasSlot(plan.cluster, b.cls) => b.cls \in HeldByInstances.cls
BY DEF OneRange, HeldByInstances

-----------------------------------------------------------------------------
(* What the larger steps write.                                            *)

LEMMA NoClaimTyped == NoClaim \in ClaimRecord /\ NoClaim.svc = {} /\ NoClaim.cls = {}
BY DEF NoClaim, ClaimRecord, NoRequest

\* A pass begins with the ranges its claim has, and the LIST of the others.
LEMMA Begun ==
    ASSUME NEW n \in Claims, ReconcileClaim(n)
    PROVE  /\ pass'.pc \in {"listed", "write"} /\ pass'.name = n /\ pass'.cidrs = {}
           /\ pass'.had = [svc |-> claim[n].svc, cls |-> claim[n].cls]
           /\ pass'.req \in {claim[n].req, NoRequest}
           /\ pass'.pc = "listed" =>
                pass'.used = HeldByClaims(n) /\ pass'.req = claim[n].req /\ ~Refused(claim[n])
<1>1. compute_used(n)[1] = HeldByClaims(n)
  BY DEF compute_used
<1> QED
  BY <1>1 DEF ReconcileClaim, NoPass

\* The PATCH touches the claim of its name only, and writes what the pass holds.
LEMMA Patched ==
    ASSUME IpamInv, PatchClaim
    PROVE  /\ pass.name \in Claims /\ claim' \in [Claims -> ClaimRecord]
           /\ \A m \in Claims \ {pass.name} : claim'[m] = claim[m]
           /\ \/ claim'[pass.name] = claim[pass.name]
              \/ /\ claim'[pass.name].phase \in Phases
                 /\ Single(claim'[pass.name].svc) /\ Single(claim'[pass.name].cls)
                 /\ \A c \in claim'[pass.name].svc :
                      \/ c \in claim[pass.name].svc \/ c \in pass.had.svc
                      \/ \E net \in pass.cidrs : c = net.svc
                 /\ \A c \in claim'[pass.name].cls :
                      \/ c \in claim[pass.name].cls \/ c \in pass.had.cls
                      \/ \E net \in pass.cidrs : c = net.cls
<1> DEFINE n == pass.name
           old == claim[n]
           new == IF ~Exists(n) THEN old
                  ELSE IF pass.cidrs = {} THEN Conflicted(old)
                  ELSE BoundTo(old, CHOOSE net \in pass.cidrs : TRUE)
<1>1. n \in Claims /\ old \in ClaimRecord /\ claim \in [Claims -> ClaimRecord]
  BY DEF IpamInv, PassUnique, PatchClaim, Typed
<1>2. claim' = [claim EXCEPT ![n] = new]
  BY DEF PatchClaim
<1>3. claim'[n] = new /\ \A m \in Claims \ {n} : claim'[m] = claim[m]
  BY <1>1, <1>2
<1>4. CASE ~Exists(n)
  BY <1>1, <1>2, <1>3, <1>4
<1>5. CASE Exists(n) /\ pass.cidrs = {}
  <2>1. new = Conflicted(old)
    BY <1>5
  <2>2. Conflicted(old) \in ClaimRecord /\ Conflicted(old).phase = "Conflict"
    BY <1>1 DEF Conflicted, ClaimRecord, Phases, IpamInv, PassTyped
  <2>3. Conflicted(old).svc \in {old.svc, pass.had.svc} /\ Conflicted(old).cls \in {old.cls, pass.had.cls}
    BY <1>1 DEF Conflicted, ClaimRecord
  <2>4. /\ Single(old.svc) /\ Single(old.cls)
        /\ Single(pass.had.svc) /\ Single(pass.had.cls)
    BY <1>1 DEF IpamInv, OneRange
  <2> HIDE DEF new, old
  <2>5. claim' \in [Claims -> ClaimRecord]
    BY <1>1, <1>2, <2>1, <2>2
  <2> QED
    BY <1>1, <1>3, <2>1, <2>2, <2>3, <2>4, <2>5 DEF Phases, old
<1>6. CASE Exists(n) /\ pass.cidrs # {}
  <2> DEFINE net == CHOOSE x \in pass.cidrs : TRUE
  <2>1. net \in pass.cidrs /\ new = BoundTo(old, net)
    BY <1>6
  <2> HIDE DEF net, new
  <2>2. net.svc \in ServiceRanges /\ net.cls \in ClusterRanges
    BY <2>1 DEF IpamInv, PassTyped, Networks
  <2>3. /\ BoundTo(old, net) \in ClaimRecord /\ BoundTo(old, net).phase = "Bound"
        /\ BoundTo(old, net).svc = {net.svc} /\ BoundTo(old, net).cls = {net.cls}
    BY <1>1, <2>2 DEF BoundTo, ClaimRecord, Phases
  <2>4. claim' \in [Claims -> ClaimRecord]
    BY <1>1, <1>2, <2>1, <2>3
  <2> QED
    BY <1>1, <1>3, <2>1, <2>3, <2>4 DEF Phases, Single
<1> QED
  BY <1>4, <1>5, <1>6

\* A network that is not unbacked is the range its claim still holds.
LEMMA Written ==
    ASSUME IpamInv, NEW n \in Members, WriteNetwork(n)
    PROVE  /\ \A m \in Members \ {n} : inst'[m] = inst[m]
           /\ inst'[n].network = copying[n]
           /\ ~inst'[n].unbacked =>
                \A b \in copying[n] : b.svc \in claim[n].svc /\ b.cls \in claim[n].cls
<1>1. inst \in [Members -> InstRecord] /\ Single(copying[n])
  BY DEF IpamInv, Typed, OneRange
<1>2. /\ \A m \in Members \ {n} : inst'[m] = inst[m]
      /\ inst'[n].network = copying[n]
      /\ inst'[n].unbacked = \A net \in copying[n] : ~Holds(claim[n], net)
  BY <1>1 DEF WriteNetwork, InstRecord
<1> QED
  BY <1>1, <1>2 DEF Single, Holds

\* The claim is deleted with its backend, or left to the collector.
LEMMA Dropped ==
    ASSUME IpamInv, NEW n \in Members, DeleteBackend(n)
    PROVE  /\ claim' \in [Claims -> ClaimRecord] /\ inst' \in [Members -> InstRecord]
           /\ \A m \in Claims : claim'[m] \in {claim[m], NoClaim}
           /\ copying[n] = {} /\ inst'[n].phase = "Ending" /\ inst'[n].network = inst[n].network
           /\ inst'[n].unbacked = inst[n].unbacked
           /\ \A m \in Members \ {n} : inst'[m] = inst[m]
           /\ UNCHANGED <<plan, blocked, copying, pass, starts>>
<1> USE DEF IpamInv, Typed
<1>1. CASE claim' = [claim EXCEPT ![n] = NoClaim]
  <2>1. claim' \in [Claims -> ClaimRecord] /\ \A m \in Claims : claim'[m] \in {claim[m], NoClaim}
    BY <1>1, NoClaimTyped
  <2> QED
    BY <2>1 DEF DeleteBackend, InstRecord
<1>2. CASE claim' = claim
  BY <1>2 DEF DeleteBackend, InstRecord
<1> QED
  BY <1>1, <1>2 DEF DeleteBackend

\* The second LIST ends in ranges that are in neither.
LEMMA Listed ==
    ASSUME IpamInv, ListInstances
    PROVE  /\ pass'.pc = "write" /\ pass'.name = pass.name /\ pass'.had = pass.had
           /\ pass'.req = NoRequest
           /\ \A net \in pass'.cidrs :
                /\ net \in Networks
                /\ net.svc \notin pass.used.svc /\ net.cls \notin pass.used.cls
                /\ \A m \in Members : \A b \in inst[m].network : net.svc # b.svc /\ net.cls # b.cls
<1> DEFINE used == Both(pass.used, HeldByInstances)
<1>1. compute_used(pass.name)[2] = HeldByInstances
  BY DEF compute_used
<1>2. /\ pass'.pc = "write" /\ pass'.name = pass.name /\ pass'.had = pass.had
      /\ pass'.req = NoRequest /\ pass'.cidrs = Allocated(pass.req, used)
  BY <1>1 DEF ListInstances, NoPass
<1>3. used.svc = pass.used.svc \cup HeldByInstances.svc /\ used.cls = pass.used.cls \cup HeldByInstances.cls
  BY DEF Both
<1> HIDE DEF used
<1>4. ASSUME NEW net \in Allocated(pass.req, used)
      PROVE  /\ net \in Networks /\ net.svc \notin used.svc /\ net.cls \notin used.cls
             /\ HasSlot(plan.service, net.svc) /\ HasSlot(plan.cluster, net.cls)
  BY AllocatedFree DEF IpamInv, Typed, PassTyped, PassKnows, ListInstances
<1>5. ASSUME NEW net \in Allocated(pass.req, used), NEW m \in Members, NEW b \in inst[m].network
      PROVE  net.svc # b.svc /\ net.cls # b.cls
  BY <1>3, <1>4, UsedByInstances DEF IpamInv
<1> QED
  BY <1>2, <1>3, <1>4, <1>5

-----------------------------------------------------------------------------
(* The IPAM controller.                                                    *)

\* A pass begins: what it had is its own claim's.
LEMMA ReconcileClaimStep == ASSUME IpamInv, NEW n \in Claims, ReconcileClaim(n)
                            PROVE  IpamInv'
<1> USE DEF IpamInv, ReconcileClaim, Exists, Phases, NoPass, NoRequest
<1>1. PassTyped'
  <2>1. claim[n] \in ClaimRecord
    BY DEF Typed
  <2> QED
    BY <2>1, Begun DEF PassTyped, ClaimRecord
<1>2. OneRange'
  <2>1. Single(pass'.had.svc) /\ Single(pass'.had.cls)
    BY Begun DEF OneRange
  <2> QED
    BY <2>1 DEF OneRange, Exists
<1>3. PassUnique'
  <2>1. pass'.name = n /\ pass'.cidrs = {} /\ claim' = claim
        /\ pass'.had = [svc |-> claim[n].svc, cls |-> claim[n].cls]
    BY Begun
  <2>2. \A m \in Claims \ {n} :
          /\ \A c \in claim[n].svc : c \notin claim[m].svc
          /\ \A c \in claim[n].cls : c \notin claim[m].cls
    BY DEF ClaimsUnique
  <2> HIDE DEF ReconcileClaim
  <2> QED
    BY <2>1, <2>2 DEF PassUnique
<1>4. PassApart'
  BY Begun DEF PassApart, ClaimsApart
<1>5. PassKnows'
  <2>1. ASSUME pass'.pc = "listed"
        PROVE  \A s \in pass'.req.svc, c \in pass'.req.cls :
                  HasSlot(plan.service, s) /\ HasSlot(plan.cluster, c)
    <3>1. pass'.req = claim[n].req /\ validate_static(claim[n].req)
      BY <2>1, Begun DEF Refused
    <3> QED
      BY <3>1 DEF validate_static
  <2>2. UNCHANGED <<plan, claim>>
    OBVIOUS
  <2> HIDE DEF ReconcileClaim
  <2> QED
    BY <2>1, <2>2, Begun, UsedByClaims DEF PassKnows
<1>6. Typed' /\ ClaimsUnique' /\ ClaimsApart' /\ NetworksUnique'
  BY DEF Typed, ClaimsUnique, ClaimsApart, NetworksUnique
<1> QED
  BY <1>1, <1>2, <1>3, <1>4, <1>5, <1>6

\* The second LIST completes what is in use, and the pass picks from the rest.
LEMMA ListInstancesStep == ASSUME IpamInv, ListInstances
                           PROVE  IpamInv'
<1> USE DEF IpamInv, ListInstances, NoPass, NoRequest
<1>1. PassTyped'
  BY Listed DEF PassTyped
<1>2. OneRange'
  BY Listed DEF OneRange, Exists
<1>3. PassUnique'
  BY Listed DEF PassUnique, PassKnows
<1>4. PassApart'
  BY Listed DEF PassApart
<1>5. PassKnows'
  BY Listed DEF PassKnows
<1>6. Typed' /\ ClaimsUnique' /\ ClaimsApart' /\ NetworksUnique'
  BY DEF Typed, ClaimsUnique, ClaimsApart, NetworksUnique
<1> QED
  BY <1>1, <1>2, <1>3, <1>4, <1>5, <1>6

\* The PATCH writes ranges that no other claim and no guest has.
LEMMA PatchClaimStep == ASSUME IpamInv, PatchClaim
                        PROVE  IpamInv'
<1> USE DEF IpamInv, PatchClaim, Exists, Phases, NoPass, NoRequest
<1>1. Typed'
  BY Patched DEF Typed
<1>2. PassTyped'
  BY DEF PassTyped
<1>3. OneRange'
  <2>1. \A m \in Claims :
          /\ Single(claim'[m].svc) /\ Single(claim'[m].cls)
          /\ claim'[m].phase \notin Phases => claim'[m].svc = {} /\ claim'[m].cls = {}
    BY Patched DEF OneRange, Exists
  <2> QED
    BY <2>1 DEF OneRange, Exists, NoPass, NoRequest, Single
<1>4. ClaimsUnique'
  <2>1. pass.pc # "idle"
    OBVIOUS
  <2> HIDE DEF PatchClaim
  <2> QED
    BY <2>1, Patched DEF ClaimsUnique, PassUnique
<1>5. ClaimsApart'
  <2>1. inst' = inst /\ pass.pc # "idle"
    OBVIOUS
  <2> HIDE DEF PatchClaim
  <2> QED
    BY <2>1, Patched DEF ClaimsApart, PassApart
<1>6. PassUnique' /\ PassApart'
  BY DEF PassUnique, PassApart, Typed, ClaimRecord, Claims
<1>7. PassKnows'
  BY DEF PassKnows, Typed, ClaimRecord, Claims
<1>8. NetworksUnique'
  BY DEF NetworksUnique
<1> QED
  BY <1>1, <1>2, <1>3, <1>4, <1>5, <1>6, <1>7, <1>8

\* A failed pass holds nothing.
LEMMA AbandonPassStep == ASSUME IpamInv, AbandonPass
                         PROVE  IpamInv'
<1> USE DEF IpamInv, AbandonPass, NoPass, NoRequest
<1>1. PassTyped'
  BY DEF PassTyped
<1>2. OneRange'
  BY DEF OneRange, Single, Exists
<1>3. PassUnique' /\ PassApart'
  BY DEF PassUnique, PassApart
<1>4. PassKnows'
  BY DEF PassKnows
<1>5. Typed' /\ ClaimsUnique' /\ ClaimsApart' /\ NetworksUnique'
  BY DEF Typed, ClaimsUnique, ClaimsApart, NetworksUnique
<1> QED
  BY <1>1, <1>2, <1>3, <1>4, <1>5

\* A new plan changes no claim.
LEMMA RestartStep == ASSUME IpamInv, Restart
                     PROVE  IpamInv'
<1> USE DEF IpamInv, Restart, NoPass, NoRequest
<1>1. Typed'
  <2>1. plan' \in Plans
    BY IpamAssumption
  <2>2. copying' \in [Members -> SUBSET Networks] /\ UNCHANGED <<claim, inst>>
    OBVIOUS
  <2> HIDE DEF Restart
  <2> QED
    BY <2>1, <2>2 DEF Typed
<1>2. PassTyped'
  BY DEF PassTyped
<1>3. OneRange'
  BY DEF OneRange, Single, Exists, Typed
<1>4. ClaimsUnique'
  <2>1. UNCHANGED <<claim, inst>>
    OBVIOUS
  <2> HIDE DEF Restart
  <2> QED
    BY <2>1 DEF ClaimsUnique
<1>5. ClaimsApart'
  <2>1. UNCHANGED <<claim, inst>>
    OBVIOUS
  <2> HIDE DEF Restart
  <2> QED
    BY <2>1 DEF ClaimsApart
<1>6. NetworksUnique'
  <2>1. UNCHANGED <<claim, inst>>
    OBVIOUS
  <2> HIDE DEF Restart
  <2> QED
    BY <2>1 DEF NetworksUnique
<1>7. PassUnique' /\ PassApart'
  BY DEF PassUnique, PassApart
<1>8. PassKnows'
  BY DEF PassKnows
<1> QED
  BY <1>1, <1>2, <1>3, <1>4, <1>5, <1>6, <1>7, <1>8

-----------------------------------------------------------------------------
(* The instance controller.                                                *)

\* A new claim has no range yet.
LEMMA CreateClaimStep == ASSUME IpamInv, NEW n \in Members, CreateClaim(n)
                         PROVE  IpamInv'
<1> USE DEF IpamInv, CreateClaim, NoClaim, NoRequest, Exists, Phases, Waiting
<1>1. Typed'
  BY DEF Typed, ClaimRecord, InstRecord, Single, NoPass, Claims, OneRange, PassTyped, PassUnique
<1>2. OneRange'
  BY DEF OneRange, Single, Typed, ClaimRecord, Claims
<1>3. ClaimsUnique'
  BY DEF ClaimsUnique, Typed, ClaimRecord, Claims
<1>4. ClaimsApart'
  BY DEF ClaimsApart, Typed, ClaimRecord, Claims
<1>5. PassUnique'
  BY DEF PassUnique, Typed, ClaimRecord, Claims
<1>6. PassKnows'
  BY DEF PassKnows, Typed, ClaimRecord, Claims
<1>7. PassTyped' /\ NetworksUnique' /\ PassApart'
  BY DEF PassTyped, NetworksUnique, PassApart
<1> QED
  BY <1>1, <1>2, <1>3, <1>4, <1>5, <1>6, <1>7

LEMMA ReadClaimStep == ASSUME IpamInv, NEW n \in Members, ReadClaim(n)
                       PROVE  IpamInv'
<1> USE DEF IpamInv, ReadClaim, Waiting
<1>1. Typed'
  <2>1. claim[n].svc \subseteq ServiceRanges /\ claim[n].cls \subseteq ClusterRanges
    BY DEF Typed, ClaimRecord, Claims
  <2>2. {[svc |-> s, cls |-> c] : s \in claim[n].svc, c \in claim[n].cls} \subseteq Networks
    BY <2>1 DEF Networks
  <2> QED
    BY <2>2 DEF Typed
<1>2. OneRange'
  BY DEF OneRange, Typed, ClaimRecord, InstRecord, Single, Exists, NoPass, NoClaim, NoRequest,
     Phases, Claims, PassTyped, PassUnique
<1>3. PassTyped' /\ ClaimsUnique' /\ ClaimsApart' /\ NetworksUnique' /\ PassUnique' /\ PassApart' /\ PassKnows'
  BY DEF PassTyped, ClaimsUnique, ClaimsApart, NetworksUnique, PassUnique, PassApart, PassKnows
<1> QED
  BY <1>1, <1>2, <1>3

\* A network is written with its claim behind it, or is unbacked.
LEMMA WriteNetworkStep == ASSUME IpamInv, NEW n \in Members, WriteNetwork(n)
                          PROVE  IpamInv'
<1> USE DEF IpamInv, WriteNetwork, Holds, Phases
<1>1. Typed'
  <2> DEFINE lost == \A net \in copying[n] : ~Holds(claim[n], net)
  <2>1. inst' = [inst EXCEPT ![n].network = copying[n], ![n].unbacked = lost]
        /\ copying' = [copying EXCEPT ![n] = {}] /\ UNCHANGED <<plan, claim>>
    OBVIOUS
  <2>2. lost \in BOOLEAN
    BY Zenon
  <2> HIDE DEF lost, WriteNetwork
  <2>3. inst[n] \in InstRecord /\ copying[n] \subseteq Networks
    BY DEF Typed
  <2>4. [inst[n] EXCEPT !.network = copying[n], !.unbacked = lost] \in InstRecord
    BY <2>2, <2>3 DEF InstRecord
  <2>5. inst' = [inst EXCEPT ![n] = [inst[n] EXCEPT !.network = copying[n], !.unbacked = lost]]
    BY <2>1, <2>3 DEF InstRecord
  <2> QED
    BY <2>1, <2>4, <2>5 DEF Typed
<1>2. OneRange'
  BY DEF OneRange, Single, Exists, Typed, InstRecord
<1>3. ClaimsApart'
  <2>1. claim' = claim /\ n \in Claims
    BY DEF Claims
  <2> HIDE DEF WriteNetwork
  <2> QED
    BY <2>1, Written DEF ClaimsApart, ClaimsUnique
<1>4. NetworksUnique'
  <2>1. n \in Claims
    BY DEF Claims
  <2> HIDE DEF WriteNetwork
  <2> QED
    BY <2>1, Written DEF ClaimsApart, NetworksUnique
<1>5. PassApart'
  <2>1. pass' = pass /\ n \in Claims
    BY DEF Claims
  <2> HIDE DEF WriteNetwork
  <2> QED
    BY <2>1, Written DEF PassApart, PassUnique
<1>6. PassTyped' /\ ClaimsUnique' /\ PassUnique' /\ PassKnows'
  BY DEF PassTyped, ClaimsUnique, PassUnique, PassKnows
<1> QED
  BY <1>1, <1>2, <1>3, <1>4, <1>5, <1>6

LEMMA LoseWriteStep == ASSUME IpamInv, NEW n \in Members, LoseWrite(n)
                       PROVE  IpamInv'
<1> USE DEF IpamInv, LoseWrite
<1>1. Typed'
  BY DEF Typed
<1>2. OneRange'
  BY DEF OneRange, Single, Exists, Typed
<1>3. PassTyped' /\ ClaimsUnique' /\ ClaimsApart' /\ NetworksUnique' /\ PassUnique' /\ PassApart' /\ PassKnows'
  BY DEF PassTyped, ClaimsUnique, ClaimsApart, NetworksUnique, PassUnique, PassApart, PassKnows
<1> QED
  BY <1>1, <1>2, <1>3

-----------------------------------------------------------------------------
(* The pool, the collector and users.                                      *)

LEMMA CreateInstanceStep == ASSUME IpamInv, NEW n \in Members, CreateInstance(n)
                            PROVE  IpamInv'
<1> USE DEF IpamInv, CreateInstance
<1>1. Typed'
  BY DEF Typed, InstRecord
<1>2. OneRange'
  BY DEF OneRange, Single, Exists, Typed, InstRecord
<1>3. ClaimsApart'
  BY DEF ClaimsApart, Typed, InstRecord
<1>4. NetworksUnique'
  BY DEF NetworksUnique, Typed, InstRecord
<1>5. PassApart'
  BY DEF PassApart, Typed, InstRecord
<1>6. PassTyped' /\ ClaimsUnique' /\ PassUnique' /\ PassKnows'
  BY DEF PassTyped, ClaimsUnique, PassUnique, PassKnows
<1> QED
  BY <1>1, <1>2, <1>3, <1>4, <1>5, <1>6

\* A claim goes: ranges are only given back.
LEMMA DeleteBackendStep == ASSUME IpamInv, NEW n \in Members, DeleteBackend(n)
                           PROVE  IpamInv'
<1> USE DEF IpamInv, DeleteBackend, NoClaim, NoRequest
<1>1. Typed'
  <2> HIDE DEF DeleteBackend
  <2> QED
    BY Dropped, NoClaimTyped DEF Typed
<1>2. OneRange'
  <2> HIDE DEF DeleteBackend
  <2> QED
    BY Dropped, NoClaimTyped DEF OneRange, Exists, Single
<1>3. ClaimsUnique'
  <2> HIDE DEF DeleteBackend
  <2> QED
    BY Dropped, NoClaimTyped DEF ClaimsUnique
<1>4. ClaimsApart'
  <2> HIDE DEF DeleteBackend
  <2> QED
    BY Dropped, NoClaimTyped DEF ClaimsApart
<1>5. NetworksUnique'
  <2> HIDE DEF DeleteBackend
  <2> QED
    BY Dropped, NoClaimTyped DEF NetworksUnique
<1>6. PassUnique'
  <2> HIDE DEF DeleteBackend
  <2> QED
    BY Dropped, NoClaimTyped DEF PassUnique
<1>7. PassApart'
  <2> HIDE DEF DeleteBackend
  <2> QED
    BY Dropped, NoClaimTyped DEF PassApart
<1>8. PassKnows'
  <2> HIDE DEF DeleteBackend
  <2> QED
    BY Dropped, NoClaimTyped DEF PassKnows
<1>9. PassTyped'
  BY DEF PassTyped
<1> QED
  BY <1>1, <1>2, <1>3, <1>4, <1>5, <1>6, <1>7, <1>8, <1>9

LEMMA RemoveInstanceStep == ASSUME IpamInv, NEW n \in Members, RemoveInstance(n)
                            PROVE  IpamInv'
<1> USE DEF IpamInv, RemoveInstance
<1>1. Typed'
  BY DEF Typed, InstRecord
<1>2. OneRange'
  BY DEF OneRange, Single, Exists, Typed, InstRecord
<1>3. ClaimsApart'
  BY DEF ClaimsApart, Typed, InstRecord
<1>4. NetworksUnique'
  BY DEF NetworksUnique, Typed, InstRecord
<1>5. PassApart'
  BY DEF PassApart, Typed, InstRecord
<1>6. PassTyped' /\ ClaimsUnique' /\ PassUnique' /\ PassKnows'
  BY DEF PassTyped, ClaimsUnique, PassUnique, PassKnows
<1> QED
  BY <1>1, <1>2, <1>3, <1>4, <1>5, <1>6

LEMMA CollectClaimStep == ASSUME IpamInv, NEW n \in Members, CollectClaim(n)
                          PROVE  IpamInv'
<1> USE DEF IpamInv, CollectClaim, NoClaim, NoRequest, Exists, Phases
<1>1. Typed'
  BY DEF Typed, ClaimRecord, Claims
<1>2. OneRange'
  BY DEF OneRange, Single, Typed, ClaimRecord, Claims
<1>3. ClaimsUnique'
  BY DEF ClaimsUnique, Typed, ClaimRecord, Claims
<1>4. ClaimsApart'
  BY DEF ClaimsApart, Typed, ClaimRecord, Claims
<1>5. PassUnique'
  BY DEF PassUnique, Typed, ClaimRecord, Claims
<1>6. PassKnows'
  BY DEF PassKnows, Typed, ClaimRecord, Claims
<1>7. PassTyped' /\ NetworksUnique' /\ PassApart'
  BY DEF PassTyped, NetworksUnique, PassApart
<1> QED
  BY <1>1, <1>2, <1>3, <1>4, <1>5, <1>6, <1>7

LEMMA PinRangeStep == ASSUME IpamInv, NEW n \in Pinned, PinRange(n)
                      PROVE  IpamInv'
<1> USE DEF IpamInv, PinRange, NoClaim, NoRequest, Exists, Phases
<1>1. Typed'
  <2>1. PICK r \in Requests :
          claim' = [claim EXCEPT ![n] = [NoClaim EXCEPT !.phase = "Pending", !.req = r]]
    OBVIOUS
  <2>2. [NoClaim EXCEPT !.phase = "Pending", !.req = r] \in ClaimRecord
    BY DEF ClaimRecord
  <2> QED
    BY <2>1, <2>2 DEF Typed
<1>2. OneRange'
  BY DEF OneRange, Single, Typed, ClaimRecord, Claims
<1>3. ClaimsUnique'
  BY DEF ClaimsUnique, Typed, ClaimRecord, Claims
<1>4. ClaimsApart'
  BY DEF ClaimsApart, Typed, ClaimRecord, Claims
<1>5. PassUnique'
  BY DEF PassUnique, Typed, ClaimRecord, Claims
<1>6. PassKnows'
  BY DEF PassKnows, Typed, ClaimRecord, Claims
<1>7. PassTyped' /\ NetworksUnique' /\ PassApart'
  BY DEF PassTyped, NetworksUnique, PassApart
<1> QED
  BY <1>1, <1>2, <1>3, <1>4, <1>5, <1>6, <1>7

LEMMA UnpinRangeStep == ASSUME IpamInv, NEW n \in Pinned, UnpinRange(n)
                        PROVE  IpamInv'
<1> USE DEF IpamInv, UnpinRange, NoClaim, NoRequest, Exists, Phases
<1>1. Typed'
  BY DEF Typed, ClaimRecord, Claims
<1>2. OneRange'
  BY DEF OneRange, Single, Typed, ClaimRecord, Claims
<1>3. ClaimsUnique'
  BY DEF ClaimsUnique, Typed, ClaimRecord, Claims
<1>4. ClaimsApart'
  BY DEF ClaimsApart, Typed, ClaimRecord, Claims
<1>5. PassUnique'
  BY DEF PassUnique, Typed, ClaimRecord, Claims
<1>6. PassKnows'
  BY DEF PassKnows, Typed, ClaimRecord, Claims
<1>7. PassTyped' /\ NetworksUnique' /\ PassApart'
  BY DEF PassTyped, NetworksUnique, PassApart
<1> QED
  BY <1>1, <1>2, <1>3, <1>4, <1>5, <1>6, <1>7

-----------------------------------------------------------------------------
(* The theorems.                                                           *)

LEMMA Initially == Init => IpamInv
<1> SUFFICES ASSUME Init PROVE IpamInv
  OBVIOUS
<1> DEFINE first == [svc |-> cidr_at(BuiltIn.service, 0), cls |-> cidr_at(BuiltIn.cluster, 0)]
           none  == [uid |-> 0, phase |-> "None", unbacked |-> FALSE, network |-> {}]
           left  == [uid |-> 1, phase |-> "Live", unbacked |-> FALSE, network |-> {first}]
<1>1. PICK old \in Option(Legacy) : inst = [n \in Members |-> IF n \in old THEN left ELSE none]
  BY DEF Init
<1>2. \A m, n \in old : m = n
  BY DEF Option
<1>3. first \in Networks
  <2>1. BuiltIn \in Plans /\ 0 \in Slots(BuiltIn)
    BY IpamAssumption, SlotAssumption DEF Slots
  <2>2. cidr_at(BuiltIn.service, 0) \in ServiceRanges /\ cidr_at(BuiltIn.cluster, 0) \in ClusterRanges
    BY <2>1, SlotRanges
  <2> HIDE DEF Slots
  <2> QED
    BY <2>2 DEF Networks
<1> HIDE DEF first
<1>4. left \in InstRecord /\ none \in InstRecord
  BY <1>3 DEF InstRecord
<1>5. claim = [n \in Claims |-> NoClaim] /\ copying = [n \in Members |-> {}] /\ pass = NoPass
      /\ plan = BuiltIn
  BY DEF Init
<1>6. Typed
  <2>1. inst \in [Members -> InstRecord]
    BY <1>1, <1>4
  <2> QED
    BY <1>5, <2>1, NoClaimTyped, IpamAssumption DEF Typed
<1>7. PassTyped /\ PassUnique /\ PassApart /\ PassKnows
  BY <1>5 DEF PassTyped, PassUnique, PassApart, PassKnows, NoPass, NoRequest
<1>8. \A n \in Members : inst[n] = left \/ inst[n] = none
  BY <1>1
<1>9. OneRange
  <2>1. \A n \in Claims : claim[n].svc = {} /\ claim[n].cls = {}
    BY <1>5 DEF NoClaim
  <2>2. pass.had.svc = {} /\ pass.had.cls = {}
    BY <1>5 DEF NoPass, NoRequest
  <2>3. \A n \in Members : copying[n] = {} /\ (inst[n].phase = "None" => inst[n].network = {})
    BY <1>5, <1>8
  <2> QED
    BY <2>1, <2>2, <2>3 DEF OneRange, Single
<1>10. ClaimsUnique /\ ClaimsApart
  BY <1>5 DEF ClaimsUnique, ClaimsApart, NoClaim
<1>11. NetworksUnique
  <2>1. \A n \in Members : inst[n].network # {} => n \in old
    BY <1>1
  <2> QED
    BY <1>2, <2>1 DEF NetworksUnique
<1> QED
  BY <1>6, <1>7, <1>9, <1>10, <1>11 DEF IpamInv

LEMMA Stuttering == IpamInv /\ UNCHANGED vars => IpamInv'
BY DEF IpamInv, vars, Typed, PassTyped, OneRange, Exists, ClaimsUnique, ClaimsApart, NetworksUnique,
   PassUnique, PassApart, PassKnows

LEMMA NextStep == IpamInv /\ [Next]_vars => IpamInv'
<1> SUFFICES ASSUME IpamInv, [Next]_vars PROVE IpamInv'
  OBVIOUS
<1>1. CASE Allocate \/ \E n \in Claims : ReconcileClaim(n)
  BY <1>1, ListInstancesStep, PatchClaimStep, ReconcileClaimStep DEF Allocate
<1>2. CASE \E n \in Members : Ensure(n)
  BY <1>2, CreateClaimStep, ReadClaimStep, WriteNetworkStep DEF Ensure
<1>3. CASE \E n \in Members : CreateInstance(n) \/ DeleteBackend(n) \/ RemoveInstance(n)
                               \/ CollectClaim(n)
  BY <1>3, CreateInstanceStep, DeleteBackendStep, RemoveInstanceStep, CollectClaimStep
<1>4. CASE \E n \in Pinned : PinRange(n) \/ UnpinRange(n)
  BY <1>4, PinRangeStep, UnpinRangeStep
<1>5. CASE AbandonPass \/ Restart \/ \E n \in Members : LoseWrite(n)
  BY <1>5, AbandonPassStep, RestartStep, LoseWriteStep
<1>6. CASE UNCHANGED vars
  BY <1>6, Stuttering
<1> QED
  BY <1>1, <1>2, <1>3, <1>4, <1>5, <1>6 DEF Next, Sound

(* reconcile_claim: whatever interleaves with its two LISTs and its        *)
(* unfenced PATCH, no string is in two claims, in a claim and another      *)
(* guest, or in two guests whose claims stood behind them.  This needs     *)
(* nothing of the pins or of how plans cut the space.                      *)
THEOREM IpamInvariant == Spec => []IpamInv
BY Initially, NextStep, PTL DEF Spec

(* No two claims carry CIDRs with an address in common, when the ranges    *)
(* the operator may hand out lie on one grid: compute_used compares        *)
(* strings, and would not see an overlap of two spellings or slot sizes.   *)
THEOREM ClaimsStayDisjoint == ASSUME OneGrid PROVE Spec => []ClaimsDisjoint
<1>1. IpamInv => ClaimsDisjoint
  <2> SUFFICES ASSUME IpamInv PROVE ClaimsDisjoint
    OBVIOUS
  <2>1. \A n \in Claims : claim[n].svc \subseteq ServiceRanges /\ claim[n].cls \subseteq ClusterRanges
    BY DEF IpamInv, Typed, ClaimRecord
  <2>2. \A m, n \in Claims : m # n =>
          /\ \A c \in claim[m].svc, d \in claim[n].svc : c # d
          /\ \A c \in claim[m].cls, d \in claim[n].cls : c # d
    BY DEF IpamInv, ClaimsUnique
  <2> QED
    BY <2>1, <2>2, OneGrid DEF OneGrid, ClaimsDisjoint
<1> QED
  BY <1>1, IpamInvariant, PTL

(* No two guests have addresses in common, on one grid again, unless one   *)
(* wrote its network when its claim no longer held it.                     *)
THEOREM NetworksStayDisjoint == ASSUME OneGrid PROVE Spec => []NetworksDisjoint
<1>1. IpamInv => NetworksDisjoint
  <2> SUFFICES ASSUME IpamInv PROVE NetworksDisjoint
    OBVIOUS
  <2>1. \A n \in Members : \A a \in inst[n].network : a.svc \in ServiceRanges /\ a.cls \in ClusterRanges
    BY DEF IpamInv, Typed, InstRecord, Networks
  <2>2. \A m, n \in Members : m # n /\ ~inst[m].unbacked /\ ~inst[n].unbacked =>
          \A a \in inst[m].network, b \in inst[n].network : a.svc # b.svc /\ a.cls # b.cls
    BY DEF IpamInv, NetworksUnique
  <2> QED
    BY <2>1, <2>2, OneGrid DEF OneGrid, NetworksDisjoint
<1> QED
  BY <1>1, IpamInvariant, PTL
=============================================================================
