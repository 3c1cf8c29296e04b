---------------------------- MODULE PoolManager ----------------------------
(***************************************************************************)
(* The pool controller: reconcile_profile (src/src/controllers/profile.rs) *)
(* and compute_pool_actions (src/src/pool/manager.rs).  One pass lists the *)
(* pool's members, then its queued claims, plans recycles and creates from *)
(* that view, writes them one by one, and publishes the pool status.  The  *)
(* instance and lease controllers move members under it all the while.     *)
(*                                                                         *)
(* A member is named by the index of its name pool-{profile}-{index}; its  *)
(* timestamps are kept as an age: past the unstamped-recycle grace, past   *)
(* creatingTimeout or scaleDownAfter.  Of the members the code takes       *)
(* oldest first, the model takes any.                                      *)
(***************************************************************************)
EXTENDS Integers, FiniteSets, FiniteSetsExt

CONSTANTS
    MinReady,       \* scaling.minReady, or size for a fixed pool
    MaxClusters,    \* pool_capacity
    MaxSurge,       \* upgradePolicy.maxSurge
    MaxRecycling,   \* upgradePolicy.maxRecycling
    Floor,          \* upgradePolicy.minReadyDuringUpgrade, resolved
    Autoscaled,     \* the pool has a scaling block
    Unsupported,    \* the spec revisions that set a field the backend ignores
    ListMayFail,    \* the API server may fail a LIST of ClusterInstances
    MaxHash,        \* bound: revisions of the pool spec
    MaxClaims,      \* bound: claims that ever arrive
    MaxFaults       \* bound: failures of any kind

ASSUME PoolAssumption ==
    /\ MinReady \in Nat /\ MaxClusters \in Nat
    /\ MaxSurge \in Nat /\ MaxRecycling \in Nat /\ Floor \in Nat
    /\ Autoscaled \in BOOLEAN /\ ListMayFail \in BOOLEAN
    /\ MaxHash \in Nat \ {0} /\ MaxClaims \in Nat /\ MaxFaults \in Nat
    /\ Unsupported \subseteq 1..MaxHash

VARIABLES
    members,    \* the pool's ClusterInstances, by index
    hash,       \* the pool's current spec hash
    queue,      \* Pending claims nothing has been reserved for
    status,     \* the ClusterPool status fields the next pass reads back
    window,     \* status.nextAttemptAt: none, in the future, or past
    pass,       \* the reconcile pass in flight
    arrived,    \* claims that have arrived (history, bounds the run)
    faults,     \* failures so far (history, bounds the run)
    failedRow   \* provision failures since a member last became Ready (history)

world == <<hash, queue, arrived, faults, failedRow>>
vars == <<members, hash, queue, status, window, pass, arrived, faults, failedRow>>

MAX_BURST == 2
FAILING_THRESHOLD == 3

Unstamped == 0      \* a member whose initial status write was lost

States == {"Creating", "Ready", "Leased", "Unhealthy", "Recycling", "Quarantined"}

ClusterEntry == [state: States, hash: 0..MaxHash,
                 age: {"fresh", "grace", "stale"}, scheduling_blocked: BOOLEAN]

NoMembers == [n \in {} |-> n]

In(S, st) == {n \in DOMAIN S : S[n].state = st}

Count(S, st) == Cardinality(In(S, st))

IdlePass == [pc |-> "idle", seen |-> NoMembers, idle |-> {}, hash |-> 0,
             queue |-> 0, drops |-> {}, creates |-> {}, trims |-> {}]

PoolStatus == [consecutive_failures: Nat, max_attempted_index: Nat,
               last_ready_max_index: Nat,
               phase: {"None", "Failing", "Backoff", "Idle", "Quarantined", "ScalingDown",
                       "Healthy", "Exhausted", "ScalingUp"}]

Init ==
    /\ members = NoMembers /\ hash = 1 /\ queue = 0
    /\ status = [consecutive_failures |-> 0, max_attempted_index |-> 0,
                 last_ready_max_index |-> 0, phase |-> "None"]
    /\ window = "none" /\ pass = IdlePass
    /\ arrived = 0 /\ faults = 0 /\ failedRow = 0

Fault == faults < MaxFaults /\ faults' = faults + 1
-----------------------------------------------------------------------------
(* compute_pool_actions: what one pass decides from its view S of the pool. *)

\* A stamped member drifts when its hash differs; an unstamped one once it is
\* past its grace.
entry_drift_eligible(m, h) ==
    IF m.hash = Unstamped THEN m.age # "fresh" ELSE m.hash # h

DriftedReady(S, h) == {n \in In(S, "Ready") : entry_drift_eligible(S[n], h)}

DriftedCreating(S, h) ==
    {n \in In(S, "Creating") : S[n].hash # Unstamped /\ S[n].hash # h}

\* Past creatingTimeout and not held by the host scheduler.
StuckCreating(S) ==
    {n \in In(S, "Creating") : S[n].age = "stale" /\ ~S[n].scheduling_blocked}

\* Mutation: unstamped members count as clean, as count_states has them.
RecycleCandidates_HashOnly(S, h) ==
    IF MaxRecycling = 0 THEN 0
    ELSE Cardinality({n \in In(S, "Ready") : S[n].hash # Unstamped /\ S[n].hash # h})

\* How many Ready members the pass wants to roll; none while paused.
RecycleCandidates(S, h) ==
    IF MaxRecycling = 0 THEN 0 ELSE Cardinality(DriftedReady(S, h))

\* Mutation: the floor itself may be recycled.
RollCount_BelowFloor(S, h) ==
    Min({MaxRecycling, Cardinality(DriftedReady(S, h)), Max({0, Count(S, "Ready") - Floor + 1})})

\* The rolling loop: up to maxRecycling, while more than the floor is Ready.
RollCount(S, h) ==
    Min({MaxRecycling, Cardinality(DriftedReady(S, h)), Max({0, Count(S, "Ready") - Floor})})

QueueDemand(q) == IF Autoscaled THEN q ELSE 0

\* Mutation: queued claims do not raise the target.
WarmTarget_NoDemand(S, h, q) == MinReady + Min({MaxSurge, RecycleCandidates(S, h)})

WarmTarget(S, h, q) ==
    MinReady + Min({MaxSurge, RecycleCandidates(S, h)}) + QueueDemand(q)

\* Mutation: members on their way out take no room.
Room_SkipsRecycling(S) ==
    Max({0, MaxClusters - Cardinality(DOMAIN S \ In(S, "Recycling"))})

\* Members in every state, Recycling and Quarantined included, count toward the ceiling.
Room(S) == Max({0, MaxClusters - Cardinality(DOMAIN S)})

CreateCount(S, h, q) ==
    Min({Max({0, WarmTarget(S, h, q) - Count(S, "Ready") - Count(S, "Creating")}),
         Room(S), MAX_BURST})

max_existing_index(S) == Max(DOMAIN S \cup {0})

\* The indexes after the highest one in use.
Creates(S, h, q) ==
    (max_existing_index(S) + 1)..(max_existing_index(S) + CreateCount(S, h, q))

\* Scale-down: none for a fixed pool or while an upgrade is in progress.
TrimCount(S, h, q) ==
    IF Autoscaled /\ RecycleCandidates(S, h) = 0 /\ DriftedCreating(S, h) = {}
    THEN Max({0, Count(S, "Ready") - MinReady - QueueDemand(q)})
    ELSE 0

\* Any set of exactly Min(k, |S|) elements: the code's take over a sorted list.
Take(k, S) == kSubset(Min({k, Cardinality(S)}), S)

\* The plans a pass may come to.  While backing off it only clears away broken
\* members.  hold_unsupported_config: with an unsupported spec nothing is created
\* and nothing is recycled for drift.
compute_pool_actions(S, h, q, backoff_active) ==
    LET broken == In(S, "Unhealthy") \cup StuckCreating(S)
        idle == {n \in In(S, "Ready") : S[n].age = "stale"}
        rolls == Take(RollCount(S, h), DriftedReady(S, h))
        trims == Take(TrimCount(S, h, q), idle)
    IN IF backoff_active
       THEN [drops: {broken}, creates: {{}}, trims: {{}}]
       ELSE IF h \in Unsupported
       THEN [drops: {broken \ DriftedCreating(S, h)}, creates: {{}}, trims: trims]
       ELSE [drops: {broken \cup DriftedCreating(S, h) \cup rolled : rolled \in rolls},
             creates: {Creates(S, h, q)}, trims: trims]
-----------------------------------------------------------------------------
(* The pass: reconcile_profile, one action per API call. *)

With(S, n, e) == [k \in DOMAIN S \cup {n} |-> IF k = n THEN e ELSE S[k]]

\* build_pool_state, first half.  A failed LIST reads as an empty pool with no
\* demand, and the pass goes on.
ListMembers ==
    /\ pass.pc = "idle"
    /\ \/ /\ pass' = [IdlePass EXCEPT !.pc = "listed", !.seen = members, !.hash = hash,
                                      !.idle = In(members, "Ready")]
          /\ UNCHANGED faults
       \/ /\ ListMayFail /\ Fault
          /\ pass' = [IdlePass EXCEPT !.pc = "unlisted", !.hash = hash]
    /\ UNCHANGED <<members, hash, queue, status, window, arrived, failedRow>>

\* count_pending_claims (a failed LIST counts 0), then the plan; creates are
\* dropped while the backend datastore is degraded.
PlanActions ==
    /\ pass.pc \in {"listed", "unlisted"}
    /\ \E q \in {0, queue}, degraded \in BOOLEAN :
         /\ \/ q = (IF pass.pc = "listed" THEN queue ELSE 0) /\ ~degraded /\ UNCHANGED faults
            \/ (pass.pc = "unlisted" => q = 0) /\ Fault
         /\ \E todo \in compute_pool_actions(pass.seen, pass.hash, q, window = "open") :
              pass' = [pass EXCEPT !.pc = "run", !.queue = q,
                                   !.drops = todo.drops, !.trims = todo.trims,
                                   !.creates = IF degraded THEN {} ELSE todo.creates]
    /\ UNCHANGED <<members, hash, queue, status, window, arrived, failedRow>>

\* Mutation: the status write does not compare with the planned state.
StillAsSeen_Unchecked(n) == n \in DOMAIN members

\* mark_instance_recycling: the write lands only on the state the plan saw.
StillAsSeen(n) == n \in DOMAIN members /\ members[n].state = pass.seen[n].state

Recycled(m) == [m EXCEPT !.state = "Recycling", !.age = "fresh", !.scheduling_blocked = FALSE]

RecycleMember(n) ==
    IF StillAsSeen(n)
    THEN /\ members' = [members EXCEPT ![n] = Recycled(@)]
         /\ pass' = [pass EXCEPT !.drops = @ \ {n}, !.trims = @ \ {n},
                                 !.seen[n].state = "Recycling"]
    ELSE /\ pass' = [pass EXCEPT !.drops = @ \ {n}, !.trims = @ \ {n}]
         /\ UNCHANGED members

\* The recycles come first, the creates next, idle scale-down last.
DropMember(n) ==
    /\ pass.pc = "run" /\ n \in pass.drops
    /\ RecycleMember(n)
    /\ UNCHANGED <<world, status, window>>

TrimMember(n) ==
    /\ pass.pc = "run" /\ pass.drops = {} /\ pass.creates = {} /\ n \in pass.trims
    /\ RecycleMember(n)
    /\ UNCHANGED <<world, status, window>>

\* A failed recycle write is logged and left to the next pass.
LoseRecycle(n) ==
    /\ pass.pc = "run" /\ n \in pass.drops \cup pass.trims
    /\ Fault
    /\ pass' = [pass EXCEPT !.drops = @ \ {n}, !.trims = @ \ {n}]
    /\ UNCHANGED <<members, hash, queue, status, window, arrived, failedRow>>

\* ensure_cluster_instance: an existing name (409) counts as created; the hash
\* is missing when the status write after the create and its backfill are lost.
CreateMember ==
    /\ pass.pc = "run" /\ pass.drops = {} /\ pass.creates # {}
    /\ LET n == Min(pass.creates)
           fresh(h) == [state |-> "Creating", hash |-> h, age |-> "fresh",
                        scheduling_blocked |-> FALSE]
       IN /\ \/ /\ n \notin DOMAIN members /\ UNCHANGED faults
                /\ members' = With(members, n, fresh(pass.hash))
             \/ /\ n \notin DOMAIN members /\ Fault
                /\ members' = With(members, n, fresh(Unstamped))
             \/ /\ n \in DOMAIN members /\ UNCHANGED <<members, faults>>
          /\ pass' = [pass EXCEPT !.creates = @ \ {n},
                                  !.seen = With(@, n, fresh(pass.hash))]
    /\ UNCHANGED <<hash, queue, status, window, arrived, failedRow>>

\* compute_backoff_state: failures are the gap between the highest index ever
\* attempted and the highest that ever became Ready.
compute_backoff_state(S, idle) ==
    LET blocked == \E n \in DOMAIN S : S[n].scheduling_blocked
        attempted == Max(DOMAIN S \cup {status.max_attempted_index})
        ready == Max(idle \cup In(S, "Ready") \cup In(S, "Leased")
                          \cup {status.last_ready_max_index})
        caught_up == ready > 0 /\ ready >= attempted /\ ~blocked
        failures == IF caught_up THEN 0
                    ELSE Max({attempted - ready, IF blocked THEN 1 ELSE 0})
    IN [failures |-> failures, attempted |-> attempted, ready |-> ready,
        window |-> CASE failures = 0 -> "none"
                     [] failures > status.consecutive_failures -> "open"
                     [] OTHER -> IF blocked /\ window = "none" THEN "open" ELSE window]

compute_pool_phase(S, h, q, backoff) ==
    LET n == [st \in States |-> Count(S, st)]
        total == Cardinality(DOMAIN S)
        held == n["Quarantined"] > 0
    IN CASE h \in Unsupported \/ backoff.failures >= FAILING_THRESHOLD -> "Failing"
         [] backoff.failures > 0 /\ backoff.window = "open" -> "Backoff"
         [] total = n["Quarantined"] /\ MinReady = 0 ->
              IF held THEN "Quarantined" ELSE "Idle"
         [] n["Ready"] > MinReady /\ n["Recycling"] > 0 -> "ScalingDown"
         [] \/ n["Ready"] >= Max({MinReady, 1})
            \/ n["Leased"] > 0 /\ n["Ready"] >= MinReady /\ q = 0 ->
              IF held THEN "Quarantined" ELSE "Healthy"
         [] /\ n["Ready"] = 0 /\ n["Creating"] = 0 /\ ~held
            /\ q > 0 /\ n["Leased"] > 0 /\ total >= MaxClusters -> "Exhausted"
         [] OTHER -> "ScalingUp"

PublishStatus ==
    /\ pass.pc = "run" /\ pass.drops = {} /\ pass.creates = {} /\ pass.trims = {}
    /\ LET backoff == compute_backoff_state(pass.seen, pass.idle)
       IN /\ status' = [consecutive_failures |-> backoff.failures,
                        max_attempted_index |-> backoff.attempted,
                        last_ready_max_index |-> backoff.ready,
                        phase |-> compute_pool_phase(pass.seen, pass.hash, pass.queue, backoff)]
          /\ window' = backoff.window
    /\ pass' = IdlePass
    /\ UNCHANGED <<members, world>>

\* A create or the status write fails, or the operator dies.
AbandonPass ==
    /\ pass.pc # "idle" /\ Fault
    /\ pass' = IdlePass
    /\ UNCHANGED <<members, hash, queue, status, window, arrived, failedRow>>
-----------------------------------------------------------------------------
(* The instance controller, the lease controller, clients and time. *)

Becomes(n, st) == members' = [members EXCEPT ![n].state = st, ![n].age = "fresh",
                                             ![n].scheduling_blocked = FALSE]

Provisioned(n) ==
    /\ n \in In(members, "Creating")
    /\ Becomes(n, "Ready") /\ failedRow' = 0
    /\ UNCHANGED <<hash, queue, status, window, pass, arrived, faults>>

\* The bootstrap fails: phase Failed, which the pool counts as Unhealthy.
ProvisionFails(n) ==
    /\ n \in In(members, "Creating") /\ Fault
    /\ Becomes(n, "Unhealthy") /\ failedRow' = failedRow + 1
    /\ UNCHANGED <<hash, queue, status, window, pass, arrived>>

\* The guest pods cannot be scheduled.
SchedulingBlocked(n) ==
    /\ n \in In(members, "Creating") /\ ~members[n].scheduling_blocked /\ Fault
    /\ members' = [members EXCEPT ![n].scheduling_blocked = TRUE]
    /\ UNCHANGED <<hash, queue, status, window, pass, arrived, failedRow>>

\* The block clears: a neutral message and a new creating window.
SchedulingCleared(n) ==
    /\ n \in In(members, "Creating") /\ members[n].scheduling_blocked
    /\ Becomes(n, "Creating")
    /\ UNCHANGED <<world, status, window, pass>>

HealthFails(n) ==
    /\ n \in In(members, "Ready") /\ Fault
    /\ Becomes(n, "Recycling")
    /\ UNCHANGED <<hash, queue, status, window, pass, arrived, failedRow>>

\* A Recycling member's backend and object are deleted; its index is free again.
TornDown(n) ==
    /\ n \in In(members, "Recycling")
    /\ members' = Restrict(members, DOMAIN members \ {n})
    /\ UNCHANGED <<world, status, window, pass>>

\* Its teardown cannot be proven complete.
TeardownUnproven(n) ==
    /\ n \in In(members, "Recycling") /\ Fault
    /\ Becomes(n, "Quarantined")
    /\ UNCHANGED <<hash, queue, status, window, pass, arrived, failedRow>>

ClaimArrives ==
    /\ arrived < MaxClaims
    /\ arrived' = arrived + 1 /\ queue' = queue + 1
    /\ UNCHANGED <<members, hash, status, window, pass, faults, failedRow>>

\* A queued claim takes a Ready member.
Bind(n) ==
    /\ queue > 0 /\ n \in In(members, "Ready")
    /\ Becomes(n, "Leased") /\ queue' = queue - 1
    /\ UNCHANGED <<hash, status, window, pass, arrived, faults, failedRow>>

LeaseEnds(n) ==
    /\ n \in In(members, "Leased")
    /\ Becomes(n, "Recycling")
    /\ UNCHANGED <<world, status, window, pass>>

EditSpec ==
    /\ hash < MaxHash
    /\ hash' = hash + 1
    /\ UNCHANGED <<members, queue, status, window, pass, arrived, faults, failedRow>>

\* A Ready member stays idle past scaleDownAfter, an unstamped one past its grace
\* first.
IdlesOn(n) ==
    /\ n \in In(members, "Ready") /\ members[n].age # "stale"
    /\ members' = [members EXCEPT ![n].age =
           IF members[n].hash = Unstamped /\ @ = "fresh" THEN "grace" ELSE "stale"]
    /\ UNCHANGED <<world, status, window, pass>>

\* Provisioning outlasts creatingTimeout.
CreatingTimesOut(n) ==
    /\ n \in In(members, "Creating") /\ members[n].age # "stale" /\ Fault
    /\ members' = [members EXCEPT ![n].age = "stale"]
    /\ UNCHANGED <<hash, queue, status, window, pass, arrived, failedRow>>

\* A pass reads the clock once, when it plans.
WindowElapses ==
    /\ window = "open" /\ pass.pc # "run"
    /\ window' = "past"
    /\ UNCHANGED <<members, world, status, pass>>
-----------------------------------------------------------------------------
Reconcile ==
    \/ ListMembers \/ PlanActions \/ CreateMember \/ PublishStatus
    \/ \E n \in pass.drops : DropMember(n)
    \/ \E n \in pass.trims : TrimMember(n)

PassFaults == AbandonPass \/ \E n \in pass.drops \cup pass.trims : LoseRecycle(n)

Environment ==
    \/ ClaimArrives \/ EditSpec \/ WindowElapses
    \/ \E n \in DOMAIN members :
         \/ Provisioned(n) \/ ProvisionFails(n) \/ SchedulingBlocked(n) \/ SchedulingCleared(n)
         \/ HealthFails(n) \/ TornDown(n) \/ TeardownUnproven(n)
         \/ Bind(n) \/ LeaseEnds(n) \/ IdlesOn(n) \/ CreatingTimesOut(n)

Next == Reconcile \/ PassFaults \/ Environment

Spec == Init /\ [][Next]_vars

\* Passes are requeued (30 s, 60 s after an error), time passes, and the other
\* controllers get their work done; failures may happen but need not.  The window
\* elapses between passes (SF), since WindowElapses waits for a running one.
Fairness ==
    /\ WF_vars(Reconcile) /\ SF_vars(WindowElapses)
    /\ WF_vars(\E n \in DOMAIN members : Provisioned(n))
    /\ WF_vars(\E n \in DOMAIN members : TornDown(n))
    /\ WF_vars(\E n \in DOMAIN members : Bind(n))
    /\ WF_vars(\E n \in DOMAIN members : LeaseEnds(n))
    /\ WF_vars(\E n \in DOMAIN members : IdlesOn(n))

LiveSpec == Spec /\ Fairness
-----------------------------------------------------------------------------
\* A view of the pool: finitely many entries, indexed from 1.
PoolState(S) ==
    /\ IsFiniteSet(DOMAIN S) /\ DOMAIN S \in SUBSET (Nat \ {0})
    /\ \A n \in DOMAIN S : S[n] \in ClusterEntry

\* Type correctness of the pool controller's state.
TypeOK ==
    /\ PoolState(members) /\ PoolState(pass.seen) /\ IsFiniteSet(pass.idle)
    /\ hash \in 1..MaxHash /\ queue \in Nat /\ arrived \in Nat
    /\ faults \in 0..MaxFaults /\ failedRow \in Nat
    /\ status \in PoolStatus /\ window \in {"none", "open", "past"}
    /\ pass \in [pc: {"idle", "listed", "unlisted", "run"}, seen: {pass.seen},
                 idle: SUBSET (Nat \ {0}), hash: 0..MaxHash, queue: Nat,
                 drops: SUBSET (Nat \ {0}), creates: SUBSET (Nat \ {0}),
                 trims: SUBSET (Nat \ {0})]

\* The inductive invariant behind WithinCapacity and CreateIsFresh: what a pass sees
\* covers every member, and what it sees and is about to create fits the ceiling.
CapacityInv ==
    /\ pass.pc # "unlisted"
    /\ pass.pc \in {"listed", "run"} =>
         /\ DOMAIN members \subseteq DOMAIN pass.seen
         /\ pass.creates \cap DOMAIN pass.seen = {}
         /\ IsFiniteSet(pass.creates)
         /\ Cardinality(DOMAIN pass.seen \cup pass.creates) <= MaxClusters
    /\ Cardinality(DOMAIN members) <= MaxClusters

\* The Ready members, in the pass's own view, it is still going to roll.
ReadyDrops == pass.drops \cap In(pass.seen, "Ready")

\* The inductive invariant behind PoolNeverTakesHeld and RollKeepsFloor: whatever a
\* pass still means to recycle is a Creating, Ready or Unhealthy member of its view,
\* and rolling all of the Ready ones leaves it the floor.
PlanInv ==
    pass.pc = "run" =>
        /\ \A n \in pass.drops \cup pass.trims :
             n \in DOMAIN pass.seen /\ pass.seen[n].state \in {"Creating", "Ready", "Unhealthy"}
        /\ ReadyDrops # {} => Count(pass.seen, "Ready") - Cardinality(ReadyDrops) >= Floor

\* WithinCapacity: the pool never holds more members than pool_capacity, whatever
\* moves between a pass's LIST and its creates: the plan leaves room for every
\* member it saw, Quarantined ones included.
WithinCapacity == Cardinality(DOMAIN members) <= MaxClusters

\* CreateIsFresh: a pass never creates an index that exists, so the 409 that
\* ensure_cluster_instance reads as success never swallows a create.
CreateIsFresh == [][CreateMember => Min(pass.creates) \notin DOMAIN members]_vars

\* PoolNeverTakesHeld: no step of a pass changes a Leased or Quarantined member,
\* although the plan was made on an older view.
PoolNeverTakesHeld ==
    [][Reconcile => \A n \in In(members, "Leased") \cup In(members, "Quarantined") :
                       n \in DOMAIN members' /\ members'[n] = members[n]]_vars

\* RollKeepsFloor: a drift recycle never takes the Ready members the pass knows of
\* below minReadyDuringUpgrade.
RollKeepsFloor ==
    [][\A n \in pass.drops :
         DropMember(n) /\ members' # members /\ pass.seen[n].state = "Ready"
           => Count(pass.seen', "Ready") >= Floor]_vars

\* FailingNeedsFailures: a pool with a supported spec is reported Failing only after
\* three provision failures in a row.
FailingNeedsFailures ==
    [][PublishStatus /\ status'.phase = "Failing" /\ pass.hash \notin Unsupported
         => failedRow >= FAILING_THRESHOLD]_vars

\* FailuresCounted: consecutiveFailures is no less than the provision failures since
\* a member last became Ready, so that the backoff grows with them.  Members the pass
\* saw as Creating may have failed behind its back and are not held against it.
FailuresCounted ==
    [][PublishStatus => status'.consecutive_failures + Count(pass.seen, "Creating")
                          >= failedRow]_vars

\* BlockHoldsWindow: while a member is scheduling-blocked the published nextAttemptAt
\* lies in the future, so that scale-up stays suppressed.
BlockHoldsWindow ==
    [][PublishStatus /\ (\E n \in DOMAIN pass.seen : pass.seen[n].scheduling_blocked)
         => window' = "open"]_vars

\* UpgradeCompletes: once the spec stops changing, every drifted or never-stamped
\* Ready member is eventually rolled, surge and floor permitting; a spec the backend
\* does not support holds the roll back.
UpgradeCompletes ==
    <>[](hash \in Unsupported \/ DriftedReady(members, hash) = {})

\* ClaimServed: a queued claim eventually gets a member, also from a pool that had
\* scaled to zero or whose creates failed.
ClaimServed == queue > 0 ~> queue = 0
=============================================================================
