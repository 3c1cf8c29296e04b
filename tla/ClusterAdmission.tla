--------------------------- MODULE ClusterAdmission ---------------------------
(***************************************************************************)
(* Admission of ClusterLease creates of one principal on several API       *)
(* replicas (api/cluster_admission.rs, create_lease of api/routes.rs): a   *)
(* lock object that is never renewed, taken over once it looks expired on  *)
(* the contender's own clock, and under it LIST, decision and CREATE.      *)
(*                                                                         *)
(* A request takes the lock at most once, so the lock object's uid and     *)
(* resourceVersion are the request that wrote it.  Times are kept as ages, *)
(* which saturate at MaxAge; an age is 0 while nothing reads it.           *)
(***************************************************************************)
EXTENDS Integers, FiniteSets

CONSTANTS
    Requests,        \* create requests of the principal
    KeyOf, AliasOf,  \* idempotency key and alias of a request
    NoKey, NoAlias, NoLock,
    MaxConcurrent,   \* policy.max_concurrent_leases
    Offset,          \* how far the clock of a request's replica is ahead
    MaxSkew,         \* bound on the difference of two offsets
    Duration,        \* LOCK_DURATION
    SafeWindow,      \* LOCK_SAFE_WINDOW
    CreateTimeout,   \* LEASE_CREATE_TIMEOUT
    MaxAge           \* ages above this are not told apart

ASSUME RequestsAssumption == IsFiniteSet(Requests) /\ NoLock \notin Requests

ASSUME NumbersAssumption ==
    /\ MaxConcurrent \in Nat /\ MaxSkew \in Nat /\ Duration \in Nat
    /\ SafeWindow \in Nat /\ CreateTimeout \in Nat /\ MaxAge \in Nat
    /\ MaxAge > CreateTimeout

ASSUME SkewAssumption ==
    /\ Offset \in [Requests -> Nat]
    /\ \A q, r \in Requests : Offset[q] <= Offset[r] + MaxSkew

\* The margin the constants of the code leave for clock skew.
ASSUME MarginAssumption == SafeWindow + CreateTimeout + MaxSkew <= Duration

VARIABLES
    lock,     \* the request that wrote the lock object, or NoLock
    held,     \* age of its renewTime
    pc,       \* where each request is
    alive,    \* requests whose task has not stopped half-way
    elapsed,  \* time since the attempt of a request read its clocks
    seen,     \* the version of the lock that was read as expired
    sent,     \* time since the lease CREATE was sent
    flight,   \* lease CREATEs neither committed nor refused
    lease,    \* the lease of each request
    late      \* leases committed after their own CREATE had timed out

vars == <<lock, held, pc, alive, elapsed, seen, sent, flight, lease, late>>

Waiting == {"wait", "post", "take"}
Points == {"list", "safe", "create", "release", "done"} \cup Waiting
Ages == 0 .. MaxAge

TypeOK ==
    /\ lock \in Requests \cup {NoLock}
    /\ held \in Ages
    /\ pc \in [Requests -> Points]
    /\ alive \in SUBSET Requests
    /\ elapsed \in [Requests -> Ages]
    /\ seen \in [Requests -> Requests \cup {NoLock}]
    /\ sent \in [Requests -> Ages]
    /\ flight \in SUBSET Requests
    /\ lease \in [Requests -> {"none", "active", "ended"}]
    /\ late \in SUBSET Requests

Init ==
    /\ lock = NoLock
    /\ held = 0
    /\ pc = [r \in Requests |-> "wait"]
    /\ alive = Requests
    /\ elapsed = [r \in Requests |-> 0]
    /\ seen = [r \in Requests |-> NoLock]
    /\ sent = [r \in Requests |-> 0]
    /\ flight = {}
    /\ lease = [r \in Requests |-> "none"]
    /\ late = {}

Goto(r, p) == pc' = [pc EXCEPT ![r] = p]
StopClock(r) == elapsed' = [elapsed EXCEPT ![r] = 0]

-----------------------------------------------------------------------------
(* The lock. *)

\* try_acquire reads both clocks first.
BeginAttempt(r) ==
    /\ pc[r] = "wait"
    /\ Goto(r, "post")
    /\ UNCHANGED <<lock, held, alive, elapsed, seen, sent, flight, lease, late>>

\* guard_for: the holder counts from the clock it read before the write, the one
\* that renewTime was read with.
acquired_at(r) == elapsed[r]

\* The write of the lock object takes effect; without its request nobody holds it.
WriteLock(r) ==
    /\ lock' = r
    /\ held' = elapsed[r]
    /\ Goto(r, IF r \in alive THEN "list" ELSE "done")
    /\ elapsed' = [elapsed EXCEPT ![r] = IF r \in alive THEN acquired_at(r) ELSE 0]

\* Mutation: the clocks are read once, before the first attempt.
Miss_ClockKept(r) ==
    /\ Goto(r, IF r \in alive THEN "wait" ELSE "done")
    /\ UNCHANGED <<lock, held, elapsed>>

\* The attempt is over without the lock.
Miss(r) ==
    /\ Goto(r, IF r \in alive THEN "wait" ELSE "done")
    /\ StopClock(r)
    /\ UNCHANGED <<lock, held>>

\* renewTime + duration, on the writer's clock, is not after the time at which
\* the attempt of r began, on the clock of r.
lock_expired(r) == held - elapsed[r] >= Duration + Offset[lock] - Offset[r]

\* The API server decides the lock CREATE.  One that answers 409 changes nothing;
\* the GET that follows finds the lock expired or the attempt is over.
PostLock(r) ==
    /\ pc[r] = "post"
    /\ IF lock = NoLock THEN WriteLock(r) /\ UNCHANGED seen
       ELSE IF r \in alive /\ lock_expired(r)
       THEN /\ seen' = [seen EXCEPT ![r] = lock]
            /\ Goto(r, "take")
            /\ UNCHANGED <<lock, held, elapsed>>
       ELSE Miss(r) /\ UNCHANGED seen
    /\ UNCHANGED <<alive, sent, flight, lease, late>>

\* The replace is fenced on the resourceVersion that was read.
TakeFence(r) == lock = seen[r]

TakeLock(r) ==
    /\ pc[r] = "take"
    /\ IF TakeFence(r) THEN WriteLock(r) ELSE Miss(r)
    /\ seen' = [seen EXCEPT ![r] = NoLock]
    /\ UNCHANGED <<alive, sent, flight, lease, late>>

\* The delete is fenced on the uid and resourceVersion this request wrote.
ReleaseFence(r) == lock = r

\* The delete may fail, which leaves the lock to expire.
Release(r) ==
    /\ pc[r] = "release"
    /\ \/ ReleaseFence(r) /\ lock' = NoLock /\ held' = 0
       \/ UNCHANGED <<lock, held>>
    /\ Goto(r, "done")
    /\ UNCHANGED <<alive, elapsed, seen, sent, flight, lease, late>>

-----------------------------------------------------------------------------
(* Under the lock. *)

\* list_owned_leases: a consistent LIST of the leases that exist, in any phase.
Owned(q) == lease[q] # "none"

UnderQuota == Cardinality({q \in Requests : lease[q] = "active"}) < MaxConcurrent

\* admission_decision answers Admit: no lease has the key, the quota has room,
\* no active lease has the alias.
Admits(r) ==
    /\ KeyOf[r] # NoKey => \A q \in Requests : KeyOf[q] = KeyOf[r] => ~Owned(q)
    /\ UnderQuota
    /\ AliasOf[r] # NoAlias =>
         \A q \in Requests : AliasOf[q] = AliasOf[r] => lease[q] # "active"

\* A failed LIST, a replay, a deferred pre-flight refusal and every decision but
\* Admit release the lock.
ListOwned(r) ==
    /\ pc[r] = "list"
    /\ \/ Admits(r) /\ Goto(r, "safe") /\ UNCHANGED elapsed
       \/ Goto(r, "release") /\ StopClock(r)
    /\ UNCHANGED <<lock, held, alive, seen, sent, flight, lease, late>>

\* Mutation: the create starts however long the LIST took.
still_safe_Always(r) == TRUE

still_safe(r) == elapsed[r] < SafeWindow

SendCreate(r) ==
    /\ pc[r] = "safe"
    /\ IF still_safe(r)
       THEN Goto(r, "create") /\ flight' = flight \cup {r}
       ELSE Goto(r, "release") /\ UNCHANGED flight
    /\ StopClock(r)
    /\ UNCHANGED <<lock, held, alive, seen, sent, lease, late>>

\* A commit is late once the CREATE's own bound is past or its request has
\* given it up.
InTime(r) == pc[r] = "create" /\ sent[r] <= CreateTimeout

CommitCreate(r) ==
    /\ r \in flight
    /\ flight' = flight \ {r}
    /\ lease' = [lease EXCEPT ![r] = "active"]
    /\ late' = IF InTime(r) THEN late ELSE late \cup {r}
    /\ UNCHANGED <<lock, held, pc, alive, elapsed, seen, sent>>

\* Refused, or lost on the way.
RefuseCreate(r) ==
    /\ r \in flight
    /\ flight' = flight \ {r}
    /\ UNCHANGED <<lock, held, pc, alive, elapsed, seen, sent, lease, late>>

\* The CREATE is answered, or times out: recover_timed_out_create then reads the
\* lease back, which only shapes the response.
CreateReturns(r) ==
    /\ pc[r] = "create" /\ r \in alive
    /\ r \notin flight \/ sent[r] >= CreateTimeout
    /\ Goto(r, "release")
    /\ sent' = [sent EXCEPT ![r] = 0]
    /\ UNCHANGED <<lock, held, alive, elapsed, seen, flight, lease, late>>

-----------------------------------------------------------------------------
(* Around it. *)

\* The wait budget is spent, a lock call answers with an error (it may still take
\* effect), the client goes before it has the lock, or the replica stops.
Leave(r) ==
    /\ r \in alive /\ pc[r] # "done"
    /\ IF pc[r] \in {"post", "take", "create"}
       THEN alive' = alive \ {r} /\ UNCHANGED <<pc, elapsed>>
       ELSE alive' = alive /\ Goto(r, "done") /\ StopClock(r)
    /\ UNCHANGED <<lock, held, seen, sent, flight, lease, late>>

\* A lease leaves the active phases.
EndLease(r) ==
    /\ lease[r] = "active"
    /\ lease' = [lease EXCEPT ![r] = "ended"]
    /\ UNCHANGED <<lock, held, pc, alive, elapsed, seen, sent, flight, late>>

Older(age) == IF age < MaxAge THEN age + 1 ELSE age

\* A lock that is MaxAge old is expired on every clock; time stands still until
\* somebody takes it over or deletes it.
Tick ==
    /\ lock # NoLock => held < MaxAge
    /\ held' = IF lock = NoLock THEN held ELSE Older(held)
    /\ elapsed' = [r \in Requests |->
         IF pc[r] \in {"post", "take", "list", "safe"} THEN Older(elapsed[r]) ELSE elapsed[r]]
    /\ sent' = [r \in Requests |-> IF pc[r] = "create" THEN Older(sent[r]) ELSE sent[r]]
    /\ UNCHANGED <<lock, pc, alive, seen, flight, lease, late>>

Step(r) ==
    \/ BeginAttempt(r) \/ PostLock(r) \/ TakeLock(r) \/ ListOwned(r)
    \/ SendCreate(r) \/ CreateReturns(r) \/ Release(r)

Settle(r) == CommitCreate(r) \/ RefuseCreate(r)

Next ==
    \/ \E r \in Requests : Step(r) \/ Settle(r) \/ Leave(r) \/ EndLease(r)
    \/ Tick

Spec == Init /\ [][Next]_vars

\* Live tasks run, the API server settles what it was sent, time passes.
Fairness ==
    /\ \A r \in Requests : WF_vars(r \in alive /\ Step(r)) /\ WF_vars(Settle(r))
    /\ WF_vars(Tick)

LiveSpec == Spec /\ Fairness

-----------------------------------------------------------------------------
\* ImplementsAtomic: leaving out the leases whose CREATE outlived its own
\* timeout, concurrent creates of a principal behave as if each checked quota,
\* key and alias and created its lease in one step, whatever replicas crash,
\* however slow a LIST is and whoever takes the lock over.
Timely == [r \in Requests |-> IF r \in late THEN "none" ELSE lease[r]]

Contract == INSTANCE AtomicAdmission WITH lease <- Timely

ImplementsAtomic == Contract!Spec

\* WaiterPasses: a request that keeps trying gets past the lock, also when the
\* holder died with it or could not delete it.
WaiterPasses == \A r \in Requests : pc[r] = "wait" ~> pc[r] \notin Waiting \/ r \notin alive
=============================================================================
