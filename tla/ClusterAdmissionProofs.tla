----------------------- MODULE ClusterAdmissionProofs -----------------------
(***************************************************************************)
(* Concurrent admissions of one principal implement the atomic one, for    *)
(* any requests, quota, clocks and bounds that leave the margin the code   *)
(* counts on (MarginAssumption).                                           *)
(***************************************************************************)
EXTENDS ClusterAdmission, FiniteSetTheorems, TLAPS

\* The lock is only ever written by requests that then have passed it, and a
\* version read as expired is one of those.
PassedOnce ==
    /\ lock # NoLock => pc[lock] \notin Waiting
    /\ \A r \in Requests : pc[r] = "take" => seen[r] \in Requests /\ pc[seen[r]] \notin Waiting

\* A version that was read as expired is at least Duration - MaxSkew old.
ReadExpired ==
    \A r \in Requests : pc[r] = "take" /\ lock = seen[r] => held + MaxSkew >= Duration

\* Until it has used up what the margin grants, a request that got the lock has it.
HoldsLock ==
    \A r \in Requests :
        pc[r] \in {"list", "safe"} /\ elapsed[r] < SafeWindow + CreateTimeout =>
            lock = r /\ held <= elapsed[r]

\* The same while its CREATE is in time.
HoldsForCreate ==
    \A r \in Requests : InTime(r) => lock = r /\ held < sent[r] + SafeWindow

\* Ages that nothing reads are 0, and a lease exists only after its CREATE.
Bookkeeping ==
    \A r \in Requests :
        /\ pc[r] # "create" => sent[r] = 0
        /\ pc[r] = "wait" => elapsed[r] = 0
        /\ r \in flight \/ lease[r] # "none" => pc[r] \in {"create", "release", "done"}
        /\ r \in flight => lease[r] = "none"
        /\ r \in late => lease[r] # "none"

\* The decision made on the LIST, on the leases that count.
Room(r) ==
    /\ Cardinality({q \in Requests : Timely[q] = "active"}) < MaxConcurrent
    /\ KeyOf[r] # NoKey => \A q \in Requests : KeyOf[q] = KeyOf[r] => Timely[q] = "none"
    /\ AliasOf[r] # NoAlias => \A q \in Requests : AliasOf[q] = AliasOf[r] => Timely[q] # "active"

Deciding(r) ==
    \/ pc[r] = "safe" /\ elapsed[r] < SafeWindow
    \/ r \in flight /\ InTime(r)

\* The decision stands until the CREATE is committed or late.
DecisionStands == \A r \in Requests : Deciding(r) => Room(r)

AdmissionInv ==
    /\ TypeOK /\ PassedOnce /\ ReadExpired /\ HoldsLock /\ HoldsForCreate
    /\ Bookkeeping /\ DecisionStands

-----------------------------------------------------------------------------
(* Facts about the decision. *)

\* A decision is about leases only.
LEMMA RoomFrame == ASSUME NEW r \in Requests, UNCHANGED <<lease, late>>
                   PROVE  Room(r)' <=> Room(r)
BY DEF Room, Timely

\* What the LIST admits has room among the leases that count.
LEMMA AdmitsRoom == ASSUME TypeOK, NEW r \in Requests, Admits(r)
                    PROVE  Room(r)
<1> DEFINE all == {q \in Requests : lease[q] = "active"}
           counted == {q \in Requests : Timely[q] = "active"}
<1>1. counted \subseteq all
  BY DEF Timely
<1>2. IsFiniteSet(all)
  BY RequestsAssumption, FS_Subset
<1>3. Cardinality(counted) <= Cardinality(all) /\ Cardinality(counted) \in Nat /\ Cardinality(all) \in Nat
  BY <1>1, <1>2, FS_Subset, FS_CardinalityType
<1>4. Cardinality(counted) < MaxConcurrent
  BY <1>3, NumbersAssumption DEF Admits, UnderQuota
<1> QED
  BY <1>4 DEF Admits, Owned, Room, Timely

\* A lease that ends leaves the room there was.
LEMMA RoomAfterEnd == ASSUME TypeOK, NEW q \in Requests, EndLease(q), NEW r \in Requests, Room(r)
                      PROVE  Room(r)'
<1> DEFINE before == {x \in Requests : Timely[x] = "active"}
           after == {x \in Requests : Timely'[x] = "active"}
<1>1. after \subseteq before
  BY DEF EndLease, Timely, TypeOK
<1>2. IsFiniteSet(before)
  BY RequestsAssumption, FS_Subset
<1>3. Cardinality(after) <= Cardinality(before) /\ Cardinality(after) \in Nat /\ Cardinality(before) \in Nat
  BY <1>1, <1>2, FS_Subset, FS_CardinalityType
<1>4. Cardinality(after) < MaxConcurrent
  BY <1>3, NumbersAssumption DEF Room
<1>5. \A x \in Requests : /\ Timely[x] = "none" => Timely'[x] = "none"
                          /\ Timely[x] # "active" => Timely'[x] # "active"
  BY DEF EndLease, Timely, TypeOK
<1> QED
  BY <1>4, <1>5 DEF Room

\* A lease committed late does not count.
LEMMA RoomAfterLate == ASSUME TypeOK, Bookkeeping, NEW q \in Requests, CommitCreate(q), ~InTime(q)
                       PROVE  Timely' = Timely
BY DEF CommitCreate, Timely, TypeOK, Bookkeeping

-----------------------------------------------------------------------------
(* Every step keeps the invariant. *)

\* An attempt that begins holds nothing yet.
LEMMA BeginAttemptStep == ASSUME AdmissionInv, NEW p \in Requests, BeginAttempt(p)
                         PROVE  AdmissionInv'
<1> USE DEF AdmissionInv, Goto, StopClock, Waiting, Points, Ages
<1>1. TypeOK'
  BY DEF TypeOK, BeginAttempt
<1>2. PassedOnce'
  BY DEF TypeOK, PassedOnce, BeginAttempt
<1>3. ReadExpired'
  BY DEF TypeOK, PassedOnce, ReadExpired, BeginAttempt
<1>4. HoldsLock'
  BY DEF TypeOK, PassedOnce, ReadExpired, HoldsLock, HoldsForCreate, Bookkeeping, InTime, BeginAttempt
<1>5. HoldsForCreate'
  BY DEF TypeOK, PassedOnce, ReadExpired, HoldsLock, HoldsForCreate, Bookkeeping, InTime, BeginAttempt
<1>6. Bookkeeping'
  BY DEF TypeOK, Bookkeeping, InTime, BeginAttempt
<1>7. DecisionStands'
  <2> SUFFICES ASSUME NEW r \in Requests, Deciding(r)' PROVE Room(r)'
    BY DEF DecisionStands
  <2>1. Deciding(r)
    BY NumbersAssumption DEF Deciding, InTime, TypeOK, Bookkeeping, BeginAttempt
  <2> QED
    BY <2>1, RoomFrame DEF DecisionStands, BeginAttempt
<1> QED
  BY <1>1, <1>2, <1>3, <1>4, <1>5, <1>6, <1>7

\* The lock is created only when nobody has it, or read as expired.
LEMMA PostLockStep == ASSUME AdmissionInv, NEW p \in Requests, PostLock(p)
                     PROVE  AdmissionInv'
<1> USE DEF AdmissionInv, Goto, StopClock, Waiting, Points, Ages
<1>1. TypeOK'
  BY NumbersAssumption DEF TypeOK, PostLock, WriteLock, Miss, lock_expired, acquired_at
<1>2. PassedOnce'
  BY DEF TypeOK, PassedOnce, PostLock, WriteLock, Miss, lock_expired, acquired_at
<1>3. ReadExpired'
  BY NumbersAssumption, SkewAssumption DEF TypeOK, PassedOnce, ReadExpired, PostLock, WriteLock, Miss, lock_expired, acquired_at
<1>4. HoldsLock'
  BY RequestsAssumption DEF TypeOK, PassedOnce, ReadExpired, HoldsLock, HoldsForCreate, Bookkeeping, InTime, PostLock, WriteLock, Miss, lock_expired, acquired_at
<1>5. HoldsForCreate'
  BY RequestsAssumption DEF TypeOK, PassedOnce, ReadExpired, HoldsLock, HoldsForCreate, Bookkeeping, InTime, PostLock, WriteLock, Miss, lock_expired, acquired_at
<1>6. Bookkeeping'
  BY DEF TypeOK, Bookkeeping, InTime, PostLock, WriteLock, Miss, lock_expired, acquired_at
<1>7. DecisionStands'
  <2> SUFFICES ASSUME NEW r \in Requests, Deciding(r)' PROVE Room(r)'
    BY DEF DecisionStands
  <2>1. Deciding(r)
    BY NumbersAssumption DEF Deciding, InTime, TypeOK, Bookkeeping, PostLock, WriteLock, Miss, lock_expired, acquired_at
  <2> QED
    BY <2>1, RoomFrame DEF DecisionStands, PostLock
<1> QED
  BY <1>1, <1>2, <1>3, <1>4, <1>5, <1>6, <1>7

\* A lock that is taken over is too old for anybody to be inside the margin.
LEMMA TakeLockStep == ASSUME AdmissionInv, NEW p \in Requests, TakeLock(p)
                     PROVE  AdmissionInv'
<1> USE DEF AdmissionInv, Goto, StopClock, Waiting, Points, Ages
<1>1. TypeOK'
  BY NumbersAssumption DEF TypeOK, TakeLock, WriteLock, Miss, TakeFence, acquired_at
<1>2. PassedOnce'
  BY DEF TypeOK, PassedOnce, TakeLock, WriteLock, Miss, TakeFence, acquired_at
<1>3. ReadExpired'
  BY DEF TypeOK, PassedOnce, ReadExpired, TakeLock, WriteLock, Miss, TakeFence, acquired_at
<1>4. HoldsLock'
  BY NumbersAssumption, MarginAssumption DEF TypeOK, PassedOnce, ReadExpired, HoldsLock, HoldsForCreate, Bookkeeping, InTime, TakeLock, WriteLock, Miss, TakeFence, acquired_at
<1>5. HoldsForCreate'
  BY NumbersAssumption, MarginAssumption DEF TypeOK, PassedOnce, ReadExpired, HoldsLock, HoldsForCreate, Bookkeeping, InTime, TakeLock, WriteLock, Miss, TakeFence, acquired_at
<1>6. Bookkeeping'
  BY DEF TypeOK, Bookkeeping, InTime, TakeLock, WriteLock, Miss, TakeFence, acquired_at
<1>7. DecisionStands'
  <2> SUFFICES ASSUME NEW r \in Requests, Deciding(r)' PROVE Room(r)'
    BY DEF DecisionStands
  <2>1. Deciding(r)
    BY NumbersAssumption DEF Deciding, InTime, TypeOK, Bookkeeping, TakeLock, WriteLock, Miss, TakeFence, acquired_at
  <2> QED
    BY <2>1, RoomFrame DEF DecisionStands, TakeLock
<1> QED
  BY <1>1, <1>2, <1>3, <1>4, <1>5, <1>6, <1>7

\* Only the request that wrote the lock deletes it, and that one is done.
LEMMA ReleaseStep == ASSUME AdmissionInv, NEW p \in Requests, Release(p)
                    PROVE  AdmissionInv'
<1> USE DEF AdmissionInv, Goto, StopClock, Waiting, Points, Ages
<1>1. TypeOK'
  BY NumbersAssumption DEF TypeOK, Release, ReleaseFence
<1>2. PassedOnce'
  BY DEF TypeOK, PassedOnce, Release, ReleaseFence
<1>3. ReadExpired'
  BY RequestsAssumption DEF TypeOK, PassedOnce, ReadExpired, Release, ReleaseFence
<1>4. HoldsLock'
  BY DEF TypeOK, PassedOnce, ReadExpired, HoldsLock, HoldsForCreate, Bookkeeping, InTime, Release, ReleaseFence
<1>5. HoldsForCreate'
  BY DEF TypeOK, PassedOnce, ReadExpired, HoldsLock, HoldsForCreate, Bookkeeping, InTime, Release, ReleaseFence
<1>6. Bookkeeping'
  BY DEF TypeOK, Bookkeeping, InTime, Release, ReleaseFence
<1>7. DecisionStands'
  <2> SUFFICES ASSUME NEW r \in Requests, Deciding(r)' PROVE Room(r)'
    BY DEF DecisionStands
  <2>1. Deciding(r)
    BY NumbersAssumption DEF Deciding, InTime, TypeOK, Bookkeeping, Release, ReleaseFence
  <2> QED
    BY <2>1, RoomFrame DEF DecisionStands, Release
<1> QED
  BY <1>1, <1>2, <1>3, <1>4, <1>5, <1>6, <1>7

\* The decision is right when it is made.
LEMMA ListOwnedStep == ASSUME AdmissionInv, NEW p \in Requests, ListOwned(p)
                      PROVE  AdmissionInv'
<1> USE DEF AdmissionInv, Goto, StopClock, Waiting, Points, Ages
<1>1. TypeOK'
  BY NumbersAssumption DEF TypeOK, ListOwned
<1>2. PassedOnce'
  BY DEF TypeOK, PassedOnce, ListOwned
<1>3. ReadExpired'
  BY DEF TypeOK, PassedOnce, ReadExpired, ListOwned
<1>4. HoldsLock'
  BY DEF TypeOK, PassedOnce, ReadExpired, HoldsLock, HoldsForCreate, Bookkeeping, InTime, ListOwned
<1>5. HoldsForCreate'
  BY DEF TypeOK, PassedOnce, ReadExpired, HoldsLock, HoldsForCreate, Bookkeeping, InTime, ListOwned
<1>6. Bookkeeping'
  BY DEF TypeOK, Bookkeeping, InTime, ListOwned
<1>7. DecisionStands'
  <2> SUFFICES ASSUME NEW r \in Requests, Deciding(r)' PROVE Room(r)'
    BY DEF DecisionStands
  <2>1. Deciding(r) \/ Admits(r)
    BY DEF Deciding, InTime, ListOwned, TypeOK
  <2>2. Room(r)
    BY <2>1, AdmitsRoom DEF DecisionStands
  <2> QED
    BY <2>2, RoomFrame DEF ListOwned
<1> QED
  BY <1>1, <1>2, <1>3, <1>4, <1>5, <1>6, <1>7

\* The CREATE starts inside the safe window.
LEMMA SendCreateStep == ASSUME AdmissionInv, NEW p \in Requests, SendCreate(p)
                       PROVE  AdmissionInv'
<1> USE DEF AdmissionInv, Goto, StopClock, Waiting, Points, Ages
<1>1. TypeOK'
  BY NumbersAssumption DEF TypeOK, SendCreate, still_safe
<1>2. PassedOnce'
  BY DEF TypeOK, PassedOnce, SendCreate, still_safe
<1>3. ReadExpired'
  BY DEF TypeOK, PassedOnce, ReadExpired, SendCreate, still_safe
<1>4. HoldsLock'
  BY DEF TypeOK, PassedOnce, ReadExpired, HoldsLock, HoldsForCreate, Bookkeeping, InTime, SendCreate, still_safe
<1>5. HoldsForCreate'
  BY NumbersAssumption DEF TypeOK, PassedOnce, ReadExpired, HoldsLock, HoldsForCreate, Bookkeeping, InTime, SendCreate, still_safe
<1>6. Bookkeeping'
  BY DEF TypeOK, Bookkeeping, InTime, SendCreate, still_safe
<1>7. DecisionStands'
  <2> SUFFICES ASSUME NEW r \in Requests, Deciding(r)' PROVE Room(r)'
    BY DEF DecisionStands
  <2>1. Deciding(r)
    BY NumbersAssumption DEF Deciding, InTime, TypeOK, Bookkeeping, SendCreate, still_safe
  <2> QED
    BY <2>1, RoomFrame DEF DecisionStands, SendCreate
<1> QED
  BY <1>1, <1>2, <1>3, <1>4, <1>5, <1>6, <1>7

\* A refused CREATE leaves everything else.
LEMMA RefuseCreateStep == ASSUME AdmissionInv, NEW p \in Requests, RefuseCreate(p)
                         PROVE  AdmissionInv'
<1> USE DEF AdmissionInv, Goto, StopClock, Waiting, Points, Ages
<1>1. TypeOK'
  BY DEF TypeOK, RefuseCreate
<1>2. PassedOnce'
  BY DEF TypeOK, PassedOnce, RefuseCreate
<1>3. ReadExpired'
  BY DEF TypeOK, PassedOnce, ReadExpired, RefuseCreate
<1>4. HoldsLock'
  BY DEF TypeOK, PassedOnce, ReadExpired, HoldsLock, HoldsForCreate, Bookkeeping, InTime, RefuseCreate
<1>5. HoldsForCreate'
  BY DEF TypeOK, PassedOnce, ReadExpired, HoldsLock, HoldsForCreate, Bookkeeping, InTime, RefuseCreate
<1>6. Bookkeeping'
  BY DEF TypeOK, Bookkeeping, InTime, RefuseCreate
<1>7. DecisionStands'
  <2> SUFFICES ASSUME NEW r \in Requests, Deciding(r)' PROVE Room(r)'
    BY DEF DecisionStands
  <2>1. Deciding(r)
    BY NumbersAssumption DEF Deciding, InTime, TypeOK, Bookkeeping, RefuseCreate
  <2> QED
    BY <2>1, RoomFrame DEF DecisionStands, RefuseCreate
<1> QED
  BY <1>1, <1>2, <1>3, <1>4, <1>5, <1>6, <1>7

\* A CREATE that returned decides nothing more.
LEMMA CreateReturnsStep == ASSUME AdmissionInv, NEW p \in Requests, CreateReturns(p)
                          PROVE  AdmissionInv'
<1> USE DEF AdmissionInv, Goto, StopClock, Waiting, Points, Ages
<1>1. TypeOK'
  BY NumbersAssumption DEF TypeOK, CreateReturns
<1>2. PassedOnce'
  BY DEF TypeOK, PassedOnce, CreateReturns
<1>3. ReadExpired'
  BY DEF TypeOK, PassedOnce, ReadExpired, CreateReturns
<1>4. HoldsLock'
  BY DEF TypeOK, PassedOnce, ReadExpired, HoldsLock, HoldsForCreate, Bookkeeping, InTime, CreateReturns
<1>5. HoldsForCreate'
  BY DEF TypeOK, PassedOnce, ReadExpired, HoldsLock, HoldsForCreate, Bookkeeping, InTime, CreateReturns
<1>6. Bookkeeping'
  BY DEF TypeOK, Bookkeeping, InTime, CreateReturns
<1>7. DecisionStands'
  <2> SUFFICES ASSUME NEW r \in Requests, Deciding(r)' PROVE Room(r)'
    BY DEF DecisionStands
  <2>1. Deciding(r)
    BY NumbersAssumption DEF Deciding, InTime, TypeOK, Bookkeeping, CreateReturns
  <2> QED
    BY <2>1, RoomFrame DEF DecisionStands, CreateReturns
<1> QED
  BY <1>1, <1>2, <1>3, <1>4, <1>5, <1>6, <1>7

\* A request that stops half-way leaves its lock and its CREATE behind.
LEMMA LeaveStep == ASSUME AdmissionInv, NEW p \in Requests, Leave(p)
                  PROVE  AdmissionInv'
<1> USE DEF AdmissionInv, Goto, StopClock, Waiting, Points, Ages
<1>1. TypeOK'
  BY NumbersAssumption DEF TypeOK, Leave
<1>2. PassedOnce'
  BY DEF TypeOK, PassedOnce, Leave
<1>3. ReadExpired'
  BY DEF TypeOK, PassedOnce, ReadExpired, Leave
<1>4. HoldsLock'
  BY DEF TypeOK, PassedOnce, ReadExpired, HoldsLock, HoldsForCreate, Bookkeeping, InTime, Leave
<1>5. HoldsForCreate'
  BY DEF TypeOK, PassedOnce, ReadExpired, HoldsLock, HoldsForCreate, Bookkeeping, InTime, Leave
<1>6. Bookkeeping'
  BY DEF TypeOK, Bookkeeping, InTime, Leave
<1>7. DecisionStands'
  <2> SUFFICES ASSUME NEW r \in Requests, Deciding(r)' PROVE Room(r)'
    BY DEF DecisionStands
  <2>1. Deciding(r)
    BY NumbersAssumption DEF Deciding, InTime, TypeOK, Bookkeeping, Leave
  <2> QED
    BY <2>1, RoomFrame DEF DecisionStands, Leave
<1> QED
  BY <1>1, <1>2, <1>3, <1>4, <1>5, <1>6, <1>7

\* A lease that ends only makes room.
LEMMA EndLeaseStep == ASSUME AdmissionInv, NEW p \in Requests, EndLease(p)
                     PROVE  AdmissionInv'
<1> USE DEF AdmissionInv, Goto, StopClock, Waiting, Points, Ages
<1>1. TypeOK'
  BY DEF TypeOK, EndLease
<1>2. PassedOnce'
  BY DEF TypeOK, PassedOnce, EndLease
<1>3. ReadExpired'
  BY DEF TypeOK, PassedOnce, ReadExpired, EndLease
<1>4. HoldsLock'
  BY DEF TypeOK, PassedOnce, ReadExpired, HoldsLock, HoldsForCreate, Bookkeeping, InTime, EndLease
<1>5. HoldsForCreate'
  BY DEF TypeOK, PassedOnce, ReadExpired, HoldsLock, HoldsForCreate, Bookkeeping, InTime, EndLease
<1>6. Bookkeeping'
  BY DEF TypeOK, Bookkeeping, InTime, EndLease
<1>7. DecisionStands'
  <2> SUFFICES ASSUME NEW r \in Requests, Deciding(r)' PROVE Room(r)'
    BY DEF DecisionStands
  <2>1. Deciding(r)
    BY DEF Deciding, InTime, EndLease
  <2> QED
    BY <2>1, RoomAfterEnd DEF DecisionStands
<1> QED
  BY <1>1, <1>2, <1>3, <1>4, <1>5, <1>6, <1>7

\* A commit in time is by the one request inside the margin.
LEMMA CommitCreateStep == ASSUME AdmissionInv, NEW p \in Requests, CommitCreate(p)
                         PROVE  AdmissionInv'
<1> USE DEF AdmissionInv, Goto, StopClock, Waiting, Points, Ages
<1>1. TypeOK'
  BY DEF TypeOK, CommitCreate
<1>2. PassedOnce'
  BY DEF TypeOK, PassedOnce, CommitCreate
<1>3. ReadExpired'
  BY DEF TypeOK, PassedOnce, ReadExpired, CommitCreate
<1>4. HoldsLock'
  BY DEF TypeOK, PassedOnce, ReadExpired, HoldsLock, HoldsForCreate, Bookkeeping, InTime, CommitCreate
<1>5. HoldsForCreate'
  BY DEF TypeOK, PassedOnce, ReadExpired, HoldsLock, HoldsForCreate, Bookkeeping, InTime, CommitCreate
<1>6. Bookkeeping'
  BY DEF TypeOK, Bookkeeping, InTime, CommitCreate
<1>7. DecisionStands'
  <2> SUFFICES ASSUME NEW r \in Requests, Deciding(r)' PROVE Room(r)'
    BY DEF DecisionStands
  <2>1. Deciding(r) /\ r # p
    BY DEF Deciding, InTime, CommitCreate, Bookkeeping, TypeOK
  <2>2. lock = r
    BY <2>1, NumbersAssumption DEF Deciding, HoldsLock, HoldsForCreate, TypeOK
  <2>3. ~InTime(p)
    BY <2>1, <2>2 DEF HoldsForCreate
  <2> QED
    BY <2>1, <2>3, RoomAfterLate DEF DecisionStands, Room
<1> QED
  BY <1>1, <1>2, <1>3, <1>4, <1>5, <1>6, <1>7

\* As time passes the holder runs out of margin before its lock can look expired.
LEMMA TickStep == ASSUME AdmissionInv, Tick
                 PROVE  AdmissionInv'
<1> USE DEF AdmissionInv, Goto, StopClock, Waiting, Points, Ages
<1>1. TypeOK'
  BY NumbersAssumption DEF TypeOK, Tick, Older
<1>2. PassedOnce'
  BY DEF TypeOK, PassedOnce, Tick, Older
<1>3. ReadExpired'
  BY NumbersAssumption DEF TypeOK, PassedOnce, ReadExpired, Tick, Older
<1>4. HoldsLock'
  BY NumbersAssumption DEF TypeOK, PassedOnce, ReadExpired, HoldsLock, HoldsForCreate, Bookkeeping, InTime, Tick, Older
<1>5. HoldsForCreate'
  BY NumbersAssumption DEF TypeOK, PassedOnce, ReadExpired, HoldsLock, HoldsForCreate, Bookkeeping, InTime, Tick, Older
<1>6. Bookkeeping'
  BY DEF TypeOK, Bookkeeping, InTime, Tick, Older
<1>7. DecisionStands'
  <2> SUFFICES ASSUME NEW r \in Requests, Deciding(r)' PROVE Room(r)'
    BY DEF DecisionStands
  <2>1. Deciding(r)
    BY NumbersAssumption DEF Deciding, InTime, TypeOK, Bookkeeping, Tick, Older
  <2> QED
    BY <2>1, RoomFrame DEF DecisionStands, Tick
<1> QED
  BY <1>1, <1>2, <1>3, <1>4, <1>5, <1>6, <1>7

-----------------------------------------------------------------------------
(* The theorems. *)

LEMMA InitInv == Init => AdmissionInv
BY NumbersAssumption DEF Init, AdmissionInv, TypeOK, PassedOnce, ReadExpired, HoldsLock,
      HoldsForCreate, Bookkeeping, DecisionStands, Deciding, InTime, Waiting, Points, Ages

LEMMA NextInv == AdmissionInv /\ [Next]_vars => AdmissionInv'
<1> SUFFICES ASSUME AdmissionInv, [Next]_vars PROVE AdmissionInv'
  OBVIOUS
<1>1. CASE UNCHANGED vars
  <2>1. \A r \in Requests : Room(r) => Room(r)'
    BY <1>1, RoomFrame DEF vars
  <2>2. DecisionStands'
    BY <1>1, <2>1 DEF AdmissionInv, DecisionStands, Deciding, InTime, vars
  <2> QED
    BY <1>1, <2>2 DEF AdmissionInv, TypeOK, PassedOnce, ReadExpired, HoldsLock,
          HoldsForCreate, Bookkeeping, InTime, vars
<1>2. CASE Tick
  BY <1>2, TickStep
<1>3. ASSUME NEW r \in Requests, Step(r) PROVE AdmissionInv'
  BY <1>3, BeginAttemptStep, PostLockStep, TakeLockStep, ListOwnedStep, SendCreateStep,
     CreateReturnsStep, ReleaseStep DEF Step
<1>4. ASSUME NEW r \in Requests, Settle(r) PROVE AdmissionInv'
  BY <1>4, CommitCreateStep, RefuseCreateStep DEF Settle
<1>5. ASSUME NEW r \in Requests, Leave(r) \/ EndLease(r) PROVE AdmissionInv'
  BY <1>5, LeaveStep, EndLeaseStep
<1> QED
  BY <1>1, <1>2, <1>3, <1>4, <1>5 DEF Next

\* AdmissionInvariant: whatever crashes, stalls or takes the lock over, the one
\* request that may still commit in time has the lock and a decision that stands
\* (the lock of cluster_admission.rs with still_safe of admit_cluster_lease).
THEOREM AdmissionInvariant == Spec => []AdmissionInv
BY InitInv, NextInv, PTL DEF Spec

\* A step is a step of the atomic admission, or none.
LEMMA StepSimulates == AdmissionInv /\ [Next]_vars => [Contract!Next]_Timely
<1> SUFFICES ASSUME AdmissionInv, [Next]_vars PROVE [Contract!Next]_Timely
  OBVIOUS
<1> USE DEF AdmissionInv
<1>1. ASSUME UNCHANGED <<lease, late>> PROVE Timely' = Timely
  BY <1>1 DEF Timely
<1>2. CASE UNCHANGED vars
  BY <1>1, <1>2 DEF vars
<1>3. CASE Tick
  BY <1>1, <1>3 DEF Tick
<1>4. ASSUME NEW r \in Requests, Step(r) \/ RefuseCreate(r) \/ Leave(r) PROVE Timely' = Timely
  BY <1>1, <1>4 DEF Step, BeginAttempt, PostLock, TakeLock, ListOwned, SendCreate, CreateReturns,
        Release, RefuseCreate, Leave
<1>5. ASSUME NEW r \in Requests, EndLease(r) PROVE [Contract!Next]_Timely
  <2>1. CASE r \in late
    BY <1>5, <2>1 DEF EndLease, Timely, TypeOK
  <2>2. CASE r \notin late
    <3>1. Contract!End(r)
      BY <1>5, <2>2 DEF EndLease, Timely, TypeOK, Contract!End
    <3> QED
      BY <3>1 DEF Contract!Next
  <2> QED
    BY <2>1, <2>2
<1>6. ASSUME NEW r \in Requests, CommitCreate(r) PROVE [Contract!Next]_Timely
  <2>1. CASE ~InTime(r)
    BY <1>6, <2>1, RoomAfterLate
  <2>2. CASE InTime(r)
    <3>1. Room(r)
      BY <1>6, <2>2 DEF DecisionStands, Deciding, CommitCreate
    <3>2. Timely[r] = "none" /\ Timely' = [Timely EXCEPT ![r] = "active"]
      BY <1>6, <2>2 DEF CommitCreate, Timely, TypeOK, Bookkeeping
    <3>3. Cardinality({q \in Requests : Timely[q] = "active"}) < MaxConcurrent
      BY <3>1 DEF Room
    <3>4. KeyOf[r] # NoKey => \A q \in Requests : KeyOf[q] = KeyOf[r] => Timely[q] = "none"
      BY <3>1 DEF Room
    <3>5. AliasOf[r] # NoAlias =>
            \A q \in Requests : AliasOf[q] = AliasOf[r] => Timely[q] # "active"
      BY <3>1 DEF Room
    <3>6. Contract!Create(r)
      BY <3>2, <3>3, <3>4, <3>5 DEF Contract!Create, Contract!Cardinality, Cardinality
    <3> QED
      BY <3>6 DEF Contract!Next
  <2> QED
    BY <2>1, <2>2
<1> QED
  BY <1>2, <1>3, <1>4, <1>5, <1>6 DEF Next, Settle

\* Implements: the lock, the safe window and the bounded CREATE implement atomic
\* admission for any number of requests, any quota and any clocks within the
\* margin: quota, key and alias are as if checked at the moment of the create.
THEOREM Implements == Spec => ImplementsAtomic
<1>1. Init => Contract!Init
  BY DEF Init, Contract!Init, Timely
<1> QED
  BY <1>1, StepSimulates, AdmissionInvariant, PTL DEF Spec, ImplementsAtomic, Contract!Spec
=============================================================================
