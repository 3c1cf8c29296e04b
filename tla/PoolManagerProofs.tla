------------------------- MODULE PoolManagerProofs -------------------------
(***************************************************************************)
(* Machine-checked proofs about PoolManager, for any pool size, surge,     *)
(* floor, number of revisions, claims and failures.                        *)
(***************************************************************************)
EXTENDS PoolManager, FiniteSetTheorems, WellFoundedInduction, TLAPS

-----------------------------------------------------------------------------
(* Least and greatest elements.                                            *)

\* A nonempty set of naturals has a least element.
LEMMA LeastNat ==
    ASSUME NEW S \in SUBSET Nat, S # {}
    PROVE  /\ \E x \in S : \A y \in S : x <= y
           /\ Min(S) \in S
<1> DEFINE LT == {ss \in Nat \X Nat : ss[1] < ss[2]}
<1>0. IsWellFoundedOn(LT, Nat)
  BY NatLessThanWellFounded, Zenon DEF OpToRel
<1>1. PICK x \in S : \A y \in S : ~ (<<y, x>> \in LT)
  BY <1>0, WFMin
<1>2. ASSUME NEW y \in S PROVE x <= y
  <2>1. y < x => <<y, x>> \in LT
    OBVIOUS
  <2>2. ~ (y < x)
    BY <1>1, <2>1
  <2> QED
    BY <2>2
<1> QED
  BY <1>2 DEF Min

\* A finite set of naturals is bounded.
LEMMA FiniteNatBounded ==
    ASSUME NEW S \in SUBSET Nat, IsFiniteSet(S)
    PROVE  \E b \in Nat : \A y \in S : y <= b
<1> DEFINE Unbounded(T) == \A b \in Nat : \E y \in T : ~(y <= b)
           Bad == {k \in Nat : \E T \in SUBSET Nat : /\ IsFiniteSet(T)
                                                     /\ Cardinality(T) = k
                                                     /\ Unbounded(T)}
<1> SUFFICES ASSUME Bad # {} PROVE FALSE
  BY FS_CardinalityType
<1>1. PICK k \in Bad : \A j \in Bad : k <= j
  BY LeastNat
<1>2. PICK T \in SUBSET Nat : IsFiniteSet(T) /\ Cardinality(T) = k /\ Unbounded(T)
  BY <1>1
<1>3. PICK x \in T : TRUE
  BY <1>2
<1>4. IsFiniteSet(T \ {x}) /\ Cardinality(T \ {x}) = k - 1
  BY <1>2, <1>3, FS_RemoveElement
<1>5. k - 1 \in Nat
  BY <1>4, FS_CardinalityType
<1>6. ~ Unbounded(T \ {x})
  BY <1>1, <1>4, <1>5
<1>7. PICK b \in Nat : \A y \in T \ {x} : y <= b
  BY <1>6
<1>8. \A y \in T : y <= b + x
  BY <1>3, <1>7
<1>9. b + x \in Nat
  BY <1>3, <1>7
<1> QED
  BY <1>2, <1>8, <1>9

\* Max of a finite nonempty set of naturals is its greatest element.
LEMMA MaxNat ==
    ASSUME NEW S \in SUBSET Nat, IsFiniteSet(S), S # {}
    PROVE  Max(S) \in S /\ \A y \in S : y <= Max(S)
<1> DEFINE Bounds == {b \in Nat : \A y \in S : y <= b}
<1>1. PICK b \in Bounds : \A c \in Bounds : b <= c
  BY FiniteNatBounded, LeastNat
<1>2. b \in S
  <2> SUFFICES ASSUME b \notin S PROVE FALSE
    OBVIOUS
  <2>1. PICK x \in S : TRUE
    OBVIOUS
  <2>2. \A y \in S : y < b
    BY <1>1
  <2>3. b - 1 \in Bounds
    BY <1>1, <2>1, <2>2
  <2> QED
    BY <1>1, <2>3
<1>3. \A y \in S : b >= y
  BY <1>1
<1> QED
  BY <1>1, <1>2, <1>3 DEF Max

\* Max and Min of two and three integers.
LEMMA MaxPair ==
    ASSUME NEW a \in Int, NEW b \in Int
    PROVE  Max({a, b}) \in {a, b} /\ Max({a, b}) >= a /\ Max({a, b}) >= b
<1>1. \E x \in {a, b} : \A y \in {a, b} : x >= y
  <2>1. CASE a >= b
    BY <2>1
  <2>2. CASE b >= a
    BY <2>2
  <2> QED
    BY <2>1, <2>2
<1> QED
  BY <1>1 DEF Max

\* Max({0, x}) is the code's saturating subtraction.
LEMMA Clamp ==
    ASSUME NEW x \in Int
    PROVE  Max({0, x}) = IF x >= 0 THEN x ELSE 0
<1>1. Max({0, x}) \in {0, x} /\ Max({0, x}) >= 0 /\ Max({0, x}) >= x
  BY MaxPair
<1> QED
  BY <1>1

LEMMA MinPair ==
    ASSUME NEW a \in Int, NEW b \in Int
    PROVE  Min({a, b}) \in {a, b} /\ Min({a, b}) <= a /\ Min({a, b}) <= b
<1>1. \E x \in {a, b} : \A y \in {a, b} : x <= y
  <2>1. CASE a <= b
    BY <2>1
  <2>2. CASE b <= a
    BY <2>2
  <2> QED
    BY <2>1, <2>2
<1> QED
  BY <1>1 DEF Min

LEMMA MinTriple ==
    ASSUME NEW a \in Int, NEW b \in Int, NEW c \in Int
    PROVE  /\ Min({a, b, c}) \in {a, b, c}
           /\ Min({a, b, c}) <= a /\ Min({a, b, c}) <= b /\ Min({a, b, c}) <= c
<1>1. \E x \in {a, b, c} : \A y \in {a, b, c} : x <= y
  <2>1. CASE a <= b /\ a <= c
    BY <2>1
  <2>2. CASE b <= a /\ b <= c
    BY <2>2
  <2>3. CASE c <= a /\ c <= b
    BY <2>3
  <2> QED
    BY <2>1, <2>2, <2>3
<1> QED
  BY <1>1 DEF Min
-----------------------------------------------------------------------------
(* What a pass computes from a view of the pool.                           *)

View(S) == IsFiniteSet(DOMAIN S) /\ DOMAIN S \in SUBSET (Nat \ {0})

\* The members of a view in one state are finitely many.
LEMMA CountType ==
    ASSUME NEW S, View(S), NEW st
    PROVE  /\ In(S, st) \subseteq DOMAIN S
           /\ IsFiniteSet(In(S, st))
           /\ Count(S, st) \in Nat
<1>1. In(S, st) \in SUBSET DOMAIN S
  BY DEF In
<1>2. IsFiniteSet(In(S, st))
  BY <1>1, FS_Subset DEF View
<1> QED
  BY <1>1, <1>2, FS_CardinalityType DEF Count

\* max_existing_index is an upper bound of the indexes in use.
LEMMA MaxIndex ==
    ASSUME NEW S, View(S)
    PROVE  /\ max_existing_index(S) \in Nat
           /\ \A n \in DOMAIN S : n <= max_existing_index(S)
<1> DEFINE D == DOMAIN S \cup {0}
<1>1. IsFiniteSet(D) /\ D \in SUBSET Nat /\ D # {}
  BY FS_AddElement DEF View
<1> QED
  BY <1>1, MaxNat DEF max_existing_index

\* The recycle loops never want more than the drifted Ready members.
LEMMA CandidatesType ==
    ASSUME NEW S, View(S), NEW h
    PROVE  /\ IsFiniteSet(DriftedReady(S, h)) /\ Cardinality(DriftedReady(S, h)) \in Nat
           /\ RecycleCandidates(S, h) \in Nat
<1>1. DriftedReady(S, h) \in SUBSET In(S, "Ready")
  BY DEF DriftedReady
<1>2. IsFiniteSet(DriftedReady(S, h))
  BY <1>1, CountType, FS_Subset
<1> QED
  BY <1>2, FS_CardinalityType DEF RecycleCandidates

\* A pass never plans more creates than there is room for.
LEMMA CreateCountBound ==
    ASSUME NEW S, View(S), NEW h, NEW q \in Nat
    PROVE  /\ CreateCount(S, h, q) \in Nat
           /\ Cardinality(DOMAIN S) \in Nat
           /\ Room(S) = IF Cardinality(DOMAIN S) >= MaxClusters THEN 0
                        ELSE MaxClusters - Cardinality(DOMAIN S)
           /\ CreateCount(S, h, q) <= Room(S)
<1> USE PoolAssumption
<1>1. Cardinality(DOMAIN S) \in Nat
  BY FS_CardinalityType DEF View
<1>2. Room(S) = IF Cardinality(DOMAIN S) >= MaxClusters THEN 0
                ELSE MaxClusters - Cardinality(DOMAIN S)
  <2> DEFINE x == MaxClusters - Cardinality(DOMAIN S)
  <2>1. x \in Int
    BY <1>1
  <2>2. Room(S) = Max({0, x})
    BY DEF Room
  <2> HIDE DEF x
  <2>3. Room(S) = IF x >= 0 THEN x ELSE 0
    BY <2>1, <2>2, Clamp, Zenon
  <2> QED
    BY <1>1, <2>1, <2>3 DEF x
<1>3. WarmTarget(S, h, q) \in Int
  <2> DEFINE rc == RecycleCandidates(S, h)
  <2>1. rc \in Int /\ MaxSurge \in Int
    BY CandidatesType
  <2> HIDE DEF rc
  <2>2. Min({MaxSurge, rc}) \in {MaxSurge, rc}
    BY <2>1, MinPair, Zenon
  <2>3. Min({MaxSurge, rc}) \in Int
    BY <2>1, <2>2
  <2>4. WarmTarget(S, h, q) = MinReady + Min({MaxSurge, rc}) + QueueDemand(q)
    BY DEF WarmTarget, rc
  <2> QED
    BY <2>3, <2>4 DEF QueueDemand
<1> DEFINE short == WarmTarget(S, h, q) - Count(S, "Ready") - Count(S, "Creating")
<1>4. short \in Int
  BY <1>3, CountType
<1>5. Max({0, short}) \in Nat
  <2> HIDE DEF short
  <2>1. Max({0, short}) = IF short >= 0 THEN short ELSE 0
    BY <1>4, Clamp, Zenon
  <2> QED
    BY <1>4, <2>1
<1>6. Room(S) \in Nat
  BY <1>1, <1>2
<1>7. /\ Min({Max({0, short}), Room(S), MAX_BURST}) \in {Max({0, short}), Room(S), MAX_BURST}
      /\ Min({Max({0, short}), Room(S), MAX_BURST}) <= Room(S)
  <2> DEFINE want == Max({0, short})
             room == Room(S)
  <2>1. want \in Int /\ room \in Int /\ MAX_BURST \in Int
    BY <1>5, <1>6 DEF MAX_BURST
  <2> HIDE DEF want, room
  <2>2. /\ Min({want, room, MAX_BURST}) \in {want, room, MAX_BURST}
        /\ Min({want, room, MAX_BURST}) <= room
    BY <2>1, MinTriple, Zenon
  <2> QED
    BY <2>2, Zenon DEF want, room
<1> HIDE DEF short
<1>8. CreateCount(S, h, q) = Min({Max({0, short}), Room(S), MAX_BURST})
  BY DEF CreateCount, short
<1> QED
  BY <1>1, <1>2, <1>5, <1>6, <1>7, <1>8 DEF MAX_BURST

\* The planned creates are new indexes, and with the members of the view they fit
\* the ceiling.
LEMMA CreatesFit ==
    ASSUME NEW S, View(S), NEW h, NEW q \in Nat
    PROVE  /\ Creates(S, h, q) \in SUBSET (Nat \ {0})
           /\ IsFiniteSet(Creates(S, h, q))
           /\ Creates(S, h, q) \cap DOMAIN S = {}
           /\ Cardinality(DOMAIN S) <= MaxClusters =>
                Cardinality(DOMAIN S \cup Creates(S, h, q)) <= MaxClusters
<1> USE PoolAssumption
<1> DEFINE m == max_existing_index(S)
           c == CreateCount(S, h, q)
           C == (m + 1)..(m + c)
<1>1. m \in Nat /\ c \in Nat /\ \A n \in DOMAIN S : n <= m
  BY MaxIndex, CreateCountBound
<1>2. c <= Room(S) /\ Cardinality(DOMAIN S) \in Nat
  BY CreateCountBound
<1>3. Creates(S, h, q) = C
  BY DEF Creates
<1> HIDE DEF m, c
<1>4. IsFiniteSet(C) /\ Cardinality(C) = c
  BY <1>1, FS_Interval
<1>5. C \in SUBSET (Nat \ {0})
  BY <1>1
<1>6. C \cap DOMAIN S = {}
  BY <1>1 DEF View
<1>7. Cardinality(DOMAIN S \cup C) = Cardinality(DOMAIN S) + c
  <2>1. Cardinality(DOMAIN S \cup C)
          = Cardinality(DOMAIN S) + Cardinality(C) - Cardinality(DOMAIN S \cap C)
    BY <1>4, FS_Union DEF View
  <2>2. Cardinality(DOMAIN S \cap C) = 0
    BY <1>6, FS_EmptySet
  <2> QED
    BY <1>1, <1>2, <1>4, <2>1, <2>2
<1>8. Cardinality(DOMAIN S) <= MaxClusters => Cardinality(DOMAIN S) + c <= MaxClusters
  BY <1>1, <1>2, CreateCountBound
<1> QED
  BY <1>3, <1>4, <1>5, <1>6, <1>7, <1>8

\* What a plan may hold: members of the view in a state the pool may recycle, the
\* creates of CreatesFit or none, and Ready recycles that leave the floor.
LEMMA PlanShape ==
    ASSUME NEW S, View(S), NEW h, NEW q \in Nat, NEW w,
           NEW todo \in compute_pool_actions(S, h, q, w = "open")
    PROVE  /\ todo.drops \subseteq In(S, "Unhealthy") \cup In(S, "Creating") \cup In(S, "Ready")
           /\ todo.trims \subseteq In(S, "Ready")
           /\ todo.creates \in {{}, Creates(S, h, q)}
           /\ todo.drops \cap In(S, "Ready") # {} =>
                Count(S, "Ready") - Cardinality(todo.drops \cap In(S, "Ready")) >= Floor
<1> USE PoolAssumption
<1> DEFINE R == In(S, "Ready")
           others == In(S, "Unhealthy") \cup In(S, "Creating")
           broken == In(S, "Unhealthy") \cup StuckCreating(S)
           rolls == Take(RollCount(S, h), DriftedReady(S, h))
           trims == Take(TrimCount(S, h, q), {n \in R : S[n].age = "stale"})
<1>1. others \cap R = {}
  BY DEF In
<1>2. /\ StuckCreating(S) \subseteq others
      /\ DriftedCreating(S, h) \subseteq others
      /\ In(S, "Unhealthy") \subseteq others
      /\ DriftedReady(S, h) \subseteq R
  BY DEF StuckCreating, DriftedCreating, DriftedReady
<1>3. ASSUME NEW rolled \in rolls PROVE rolled # {} => Count(S, "Ready") - Cardinality(rolled) >= Floor
  <2>0. /\ rolled \subseteq DriftedReady(S, h)
        /\ Cardinality(rolled) = Min({RollCount(S, h), Cardinality(DriftedReady(S, h))})
    BY DEF Take, kSubset
  <2> SUFFICES ASSUME rolled # {} PROVE Count(S, "Ready") - Cardinality(rolled) >= Floor
    OBVIOUS
  <2>1. IsFiniteSet(rolled)
    BY <2>0, CandidatesType, FS_Subset
  <2>2. Cardinality(rolled) \in Nat /\ Cardinality(rolled) # 0
    BY <2>1, FS_CardinalityType, FS_EmptySet
  <2>3. Count(S, "Ready") \in Nat /\ Cardinality(DriftedReady(S, h)) \in Nat
    BY CountType, CandidatesType
  <2> DEFINE x == Count(S, "Ready") - Floor
             spare == Max({0, x})
             d == Cardinality(DriftedReady(S, h))
             r == RollCount(S, h)
  <2>4. x \in Int /\ d \in Int /\ MaxRecycling \in Int
    BY <2>3
  <2>5. r = Min({MaxRecycling, d, spare}) /\ Cardinality(rolled) = Min({r, d})
    BY <2>0 DEF RollCount
  <2> HIDE DEF x, d, r
  <2>6. spare = IF x >= 0 THEN x ELSE 0
    BY <2>4, Clamp, Zenon
  <2>7. spare \in Int
    BY <2>4, <2>6
  <2> HIDE DEF spare
  <2>8. r \in {MaxRecycling, d, spare} /\ r <= spare
    BY <2>4, <2>5, <2>7, MinTriple, Zenon
  <2>9. r \in Int
    BY <2>4, <2>7, <2>8
  <2>10. Cardinality(rolled) <= r
    BY <2>4, <2>5, <2>9, MinPair, Zenon
  <2> QED
    BY <2>2, <2>3, <2>6, <2>7, <2>8, <2>9, <2>10 DEF x
<1>4. ASSUME NEW t \in trims PROVE t \subseteq R
  BY DEF Take, kSubset
<1> HIDE DEF others, R, rolls, trims
<1>5. \/ todo.drops = broken /\ todo.creates = {} /\ todo.trims = {}
      \/ todo.drops = broken \ DriftedCreating(S, h) /\ todo.creates = {} /\ todo.trims \in trims
      \/ /\ \E rolled \in rolls : todo.drops = broken \cup DriftedCreating(S, h) \cup rolled
         /\ todo.creates = Creates(S, h, q) /\ todo.trims \in trims
  BY DEF compute_pool_actions, rolls, trims, R
<1>6. broken \subseteq others /\ \A rolled \in rolls : rolled \subseteq R
  BY <1>2 DEF rolls, Take, kSubset
<1>7. todo.drops \subseteq others \cup R /\ todo.drops \cap R \in {{}} \cup rolls
  <2> HIDE DEF broken
  <2>1. CASE todo.drops \subseteq others
    BY <1>1, <2>1
  <2>2. ASSUME NEW rolled \in rolls,
               todo.drops = broken \cup DriftedCreating(S, h) \cup rolled
        PROVE  todo.drops \subseteq others \cup R /\ todo.drops \cap R = rolled
    BY <1>1, <1>2, <1>6, <2>2
  <2> QED
    BY <1>5, <1>6, <2>1, <2>2
<1>8. todo.trims \subseteq R /\ todo.creates \in {{}, Creates(S, h, q)}
  BY <1>4, <1>5
<1>9. todo.drops \cap R # {} => Count(S, "Ready") - Cardinality(todo.drops \cap R) >= Floor
  BY <1>3, <1>7
<1> QED
  BY <1>7, <1>8, <1>9 DEF others, R
-----------------------------------------------------------------------------
(* Type correctness.                                                       *)

Entries(S) == \A n \in DOMAIN S : S[n] \in ClusterEntry

MembersOK == View(members) /\ Entries(members)

PassRecord == [pc: {"idle", "listed", "unlisted", "run"}, seen: {pass.seen},
               idle: SUBSET (Nat \ {0}), hash: 0..MaxHash, queue: Nat,
               drops: SUBSET (Nat \ {0}), creates: SUBSET (Nat \ {0}),
               trims: SUBSET (Nat \ {0})]

PassOK == pass \in PassRecord /\ View(pass.seen) /\ Entries(pass.seen) /\ IsFiniteSet(pass.idle)

WorldOK == /\ hash \in 1..MaxHash /\ queue \in Nat /\ arrived \in Nat
           /\ faults \in 0..MaxFaults /\ failedRow \in Nat

StatusOK == status \in PoolStatus /\ window \in {"none", "open", "past"}

\* TypeOK in the groups the proof works with.
LEMMA TypeParts == TypeOK <=> MembersOK /\ PassOK /\ WorldOK /\ StatusOK
  BY DEF TypeOK, MembersOK, PassOK, PassRecord, WorldOK, StatusOK, View, Entries, PoolState

LEMMA TypePartsNext == TypeOK' <=> MembersOK' /\ PassOK' /\ WorldOK' /\ StatusOK'
  BY DEF TypeOK, MembersOK, PassOK, PassRecord, WorldOK, StatusOK, View, Entries, PoolState

\* A status write to one member keeps the members well typed.
LEMMA EntryWrite ==
    ASSUME MembersOK, NEW n \in DOMAIN members, NEW e \in ClusterEntry,
           members' = [members EXCEPT ![n] = e]
    PROVE  MembersOK' /\ DOMAIN members' = DOMAIN members
<1>1. DOMAIN members' = DOMAIN members
  OBVIOUS
<1>2. \A k \in DOMAIN members' : members'[k] \in ClusterEntry
  BY DEF MembersOK, Entries
<1> QED
  BY <1>1, <1>2 DEF MembersOK, Entries, View

LEMMA BecomesType ==
    ASSUME MembersOK, NEW n \in DOMAIN members, NEW st \in States, Becomes(n, st)
    PROVE  MembersOK' /\ DOMAIN members' = DOMAIN members
<1> DEFINE e == [members[n] EXCEPT !.state = st, !.age = "fresh", !.scheduling_blocked = FALSE]
<1>1. members[n] \in ClusterEntry
  BY DEF MembersOK, Entries
<1>2. e \in ClusterEntry
  BY <1>1 DEF ClusterEntry
<1>3. members' = [members EXCEPT ![n] = e]
  BY <1>1 DEF Becomes, ClusterEntry
<1> QED
  BY <1>2, <1>3, EntryWrite

\* The pool's own recycle write.
LEMMA RecycleType ==
    ASSUME MembersOK, NEW n, RecycleMember(n)
    PROVE  MembersOK' /\ DOMAIN members' = DOMAIN members
<1>1. CASE StillAsSeen(n)
  <2>1. n \in DOMAIN members /\ members' = [members EXCEPT ![n] = Recycled(members[n])]
    BY <1>1 DEF RecycleMember, StillAsSeen
  <2>2. Recycled(members[n]) \in ClusterEntry
    BY <2>1 DEF MembersOK, Entries, Recycled, ClusterEntry, States
  <2> QED
    BY <2>1, <2>2, EntryWrite
<1>2. CASE ~ StillAsSeen(n)
  BY <1>2 DEF RecycleMember, MembersOK, Entries, View
<1> QED
  BY <1>1, <1>2

\* A new member at a fresh index.
LEMMA WithType ==
    ASSUME NEW S, View(S), NEW n \in Nat \ {0}, NEW e
    PROVE  View(With(S, n, e)) /\ DOMAIN With(S, n, e) = DOMAIN S \cup {n}
<1>1. DOMAIN With(S, n, e) = DOMAIN S \cup {n}
  BY DEF With
<1> QED
  BY <1>1, FS_AddElement DEF View

\* The index CreateMember takes.
LEMMA CreateIndex ==
    ASSUME PassOK, pass.creates # {}
    PROVE  Min(pass.creates) \in pass.creates /\ Min(pass.creates) \in Nat \ {0}
<1>1. pass.creates \in SUBSET (Nat \ {0})
  BY DEF PassOK, PassRecord
<1>2. pass.creates \in SUBSET Nat
  BY <1>1
<1> QED
  BY <1>1, <1>2, LeastNat

\* Every step keeps the members well typed, and only CreateMember adds one.
LEMMA MembersStep ==
    ASSUME TypeOK, Next
    PROVE  MembersOK' /\ (CreateMember \/ DOMAIN members' \subseteq DOMAIN members)
<1> USE PoolAssumption
<1>0. MembersOK /\ PassOK /\ WorldOK
  BY TypeParts
<1>1. ASSUME UNCHANGED members PROVE MembersOK' /\ DOMAIN members' \subseteq DOMAIN members
  BY <1>0, <1>1 DEF MembersOK, Entries, View
<1>2. CASE CreateMember
  <2> DEFINE n == Min(pass.creates)
             fresh(h) == [state |-> "Creating", hash |-> h, age |-> "fresh",
                          scheduling_blocked |-> FALSE]
  <2>1. n \in Nat \ {0}
    BY <1>0, <1>2, CreateIndex DEF CreateMember
  <2>2. \/ members' = members
        \/ \E h \in {pass.hash, Unstamped} : members' = With(members, n, fresh(h))
    BY <1>2 DEF CreateMember
  <2>3. ASSUME NEW h \in {pass.hash, Unstamped}, members' = With(members, n, fresh(h))
        PROVE  MembersOK'
    <3>1. pass.hash \in 0..MaxHash
      BY <1>0 DEF PassOK, PassRecord
    <3>2. fresh(h) \in ClusterEntry
      BY <3>1 DEF ClusterEntry, States, Unstamped
    <3> HIDE DEF n, fresh
    <3>3. View(members)'
      BY <1>0, <2>1, <2>3, WithType DEF MembersOK, Entries, View
    <3>4. \A k \in DOMAIN members' : members'[k] \in ClusterEntry
      BY <1>0, <2>3, <3>2 DEF MembersOK, Entries, With
    <3> QED
      BY <3>3, <3>4 DEF MembersOK, Entries
  <2> QED
    BY <1>1, <1>2, <2>2, <2>3
<1>3. ASSUME NEW n, DropMember(n) \/ TrimMember(n)
      PROVE  MembersOK' /\ DOMAIN members' \subseteq DOMAIN members
  BY <1>0, <1>3, RecycleType DEF DropMember, TrimMember
<1>4. ASSUME NEW n \in DOMAIN members, NEW st \in States, Becomes(n, st)
      PROVE  MembersOK' /\ DOMAIN members' \subseteq DOMAIN members
  BY <1>0, <1>4, BecomesType
<1>5. ASSUME NEW n \in DOMAIN members,
             \/ SchedulingBlocked(n) \/ IdlesOn(n) \/ CreatingTimesOut(n)
      PROVE  MembersOK' /\ DOMAIN members' \subseteq DOMAIN members
  <2>1. members[n] \in ClusterEntry
    BY <1>0 DEF MembersOK, Entries
  <2>2. CASE SchedulingBlocked(n)
    <3>1. members' = [members EXCEPT ![n] = [members[n] EXCEPT !.scheduling_blocked = TRUE]]
      BY <2>2 DEF SchedulingBlocked
    <3>2. [members[n] EXCEPT !.scheduling_blocked = TRUE] \in ClusterEntry
      BY <2>1 DEF ClusterEntry
    <3> QED
      BY <1>0, <3>1, <3>2, EntryWrite
  <2>3. CASE IdlesOn(n)
    <3>1. PICK a \in {"grace", "stale"} :
            members' = [members EXCEPT ![n] = [members[n] EXCEPT !.age = a]]
      BY <2>1, <2>3 DEF IdlesOn, ClusterEntry
    <3>2. [members[n] EXCEPT !.age = a] \in ClusterEntry
      BY <2>1 DEF ClusterEntry
    <3> QED
      BY <1>0, <3>1, <3>2, EntryWrite
  <2>4. CASE CreatingTimesOut(n)
    <3>1. members' = [members EXCEPT ![n] = [members[n] EXCEPT !.age = "stale"]]
      BY <2>4 DEF CreatingTimesOut
    <3>2. [members[n] EXCEPT !.age = "stale"] \in ClusterEntry
      BY <2>1 DEF ClusterEntry
    <3> QED
      BY <1>0, <3>1, <3>2, EntryWrite
  <2> QED
    BY <1>5, <2>2, <2>3, <2>4
<1>6. ASSUME NEW n \in DOMAIN members, TornDown(n)
      PROVE  MembersOK' /\ DOMAIN members' \subseteq DOMAIN members
  <2>1. /\ DOMAIN members' = DOMAIN members \ {n}
        /\ \A k \in DOMAIN members' : members'[k] = members[k]
    BY <1>6 DEF TornDown, Restrict
  <2>2. IsFiniteSet(DOMAIN members')
    BY <1>0, <2>1, FS_RemoveElement DEF MembersOK, Entries, View
  <2> QED
    BY <1>0, <2>1, <2>2 DEF MembersOK, Entries, View
<1>7. ASSUME NEW n \in DOMAIN members,
             \/ Provisioned(n) \/ ProvisionFails(n) \/ SchedulingCleared(n) \/ HealthFails(n)
             \/ TeardownUnproven(n) \/ Bind(n) \/ LeaseEnds(n)
      PROVE  \E st \in States : Becomes(n, st)
  BY <1>7 DEF States, Provisioned, ProvisionFails, SchedulingCleared, HealthFails,
              TeardownUnproven, Bind, LeaseEnds
<1>8. CASE Environment
  BY <1>1, <1>4, <1>5, <1>6, <1>7, <1>8
     DEF Environment, ClaimArrives, EditSpec, WindowElapses, world
<1>9. CASE PassFaults
  BY <1>1, <1>9 DEF PassFaults, AbandonPass, LoseRecycle
<1>10. CASE Reconcile
  BY <1>1, <1>2, <1>3, <1>10 DEF Reconcile, ListMembers, PlanActions, PublishStatus, world
<1> QED
  BY <1>8, <1>9, <1>10 DEF Next

\* Between passes nothing is remembered.
LEMMA IdlePassType ==
    ASSUME pass' = IdlePass
    PROVE  PassOK' /\ pass'.pc = "idle"
<1> USE PoolAssumption
<1>1. DOMAIN NoMembers = {}
  BY DEF NoMembers
<1>2. View(NoMembers) /\ Entries(NoMembers) /\ IsFiniteSet({})
  BY <1>1, FS_EmptySet DEF View, Entries
<1> QED
  BY <1>2 DEF PassOK, PassRecord, IdlePass, View, Entries

\* The pool's own recycle write, seen from the pass.
LEMMA RecyclePass ==
    ASSUME PassOK, NEW n, RecycleMember(n)
    PROVE  /\ PassOK'
           /\ pass'.pc = pass.pc /\ pass'.creates = pass.creates
           /\ pass'.drops = pass.drops \ {n} /\ pass'.trims = pass.trims \ {n}
           /\ DOMAIN pass'.seen = DOMAIN pass.seen
           /\ \A k \in DOMAIN pass.seen \ {n} : pass'.seen[k] = pass.seen[k]
           /\ \/ pass'.seen = pass.seen /\ members' = members
              \/ /\ StillAsSeen(n) /\ members' = [members EXCEPT ![n] = Recycled(members[n])]
                 /\ n \in DOMAIN pass.seen => pass'.seen[n].state = "Recycling"
<1> USE DEF PassOK, PassRecord
<1>1. CASE StillAsSeen(n)
  <2> DEFINE seen == [pass.seen EXCEPT ![n].state = "Recycling"]
  <2>1. pass' = [pass EXCEPT !.drops = @ \ {n}, !.trims = @ \ {n}, !.seen = seen]
    BY <1>1 DEF RecycleMember
  <2>2. DOMAIN seen = DOMAIN pass.seen /\ \A k \in DOMAIN pass.seen \ {n} : seen[k] = pass.seen[k]
    OBVIOUS
  <2>3. n \in DOMAIN pass.seen => seen[n] = [pass.seen[n] EXCEPT !.state = "Recycling"]
    OBVIOUS
  <2>4. n \in DOMAIN pass.seen => seen[n] \in ClusterEntry /\ seen[n].state = "Recycling"
    BY <2>3 DEF Entries, ClusterEntry, States
  <2> HIDE DEF seen
  <2>5. pass'.seen = seen
    BY <2>1
  <2>6. View(pass'.seen) /\ Entries(pass'.seen)
    BY <2>2, <2>4, <2>5 DEF View, Entries
  <2>7. PassOK'
    BY <2>1, <2>5, <2>6 DEF View, Entries
  <2> QED
    BY <1>1, <2>1, <2>2, <2>4, <2>5, <2>7 DEF RecycleMember
<1>2. CASE ~ StillAsSeen(n)
  <2>1. members' = members /\ pass' = [pass EXCEPT !.drops = @ \ {n}, !.trims = @ \ {n}]
    BY <1>2 DEF RecycleMember
  <2>2. /\ pass'.seen = pass.seen /\ pass'.pc = pass.pc /\ pass'.creates = pass.creates
        /\ pass'.drops = pass.drops \ {n} /\ pass'.trims = pass.trims \ {n}
    BY <2>1
  <2>3. PassOK'
    BY <2>1, <2>2 DEF View, Entries
  <2> QED
    BY <2>1, <2>2, <2>3
<1> QED
  BY <1>1, <1>2

\* What CreateMember does to the pass: the new index moves from the creates to the view.
LEMMA CreatePass ==
    ASSUME PassOK, CreateMember
    PROVE  LET n == Min(pass.creates) IN
           /\ PassOK' /\ n \in pass.creates
           /\ pass'.pc = pass.pc /\ pass'.creates = pass.creates \ {n}
           /\ pass'.drops = pass.drops /\ pass'.trims = pass.trims
           /\ DOMAIN pass'.seen = DOMAIN pass.seen \cup {n}
           /\ \A k \in DOMAIN pass.seen \ {n} : pass'.seen[k] = pass.seen[k]
           /\ pass'.seen[n].state = "Creating"
<1> DEFINE n == Min(pass.creates)
           e == [state |-> "Creating", hash |-> pass.hash, age |-> "fresh",
                 scheduling_blocked |-> FALSE]
           seen == With(pass.seen, n, e)
<1>1. n \in pass.creates /\ n \in Nat \ {0}
  BY CreateIndex DEF CreateMember
<1>2. pass' = [pass EXCEPT !.creates = @ \ {n}, !.seen = seen]
  BY DEF CreateMember
<1>3. pass.hash \in 0..MaxHash
  BY DEF PassOK, PassRecord
<1>4. e \in ClusterEntry /\ e.state = "Creating"
  BY <1>3 DEF ClusterEntry, States
<1> HIDE DEF n, e
<1>5. View(seen) /\ DOMAIN seen = DOMAIN pass.seen \cup {n}
  BY <1>1, WithType DEF PassOK
<1>6. /\ \A k \in DOMAIN pass.seen \ {n} : seen[k] = pass.seen[k]
      /\ seen[n] = e
  BY DEF With
<1>7. Entries(seen)
  BY <1>4, <1>5, <1>6 DEF Entries, PassOK
<1> HIDE DEF seen
<1>8. /\ pass'.seen = seen /\ pass'.pc = pass.pc /\ pass'.creates = pass.creates \ {n}
      /\ pass'.drops = pass.drops /\ pass'.trims = pass.trims
  BY <1>2 DEF PassOK, PassRecord
<1>9. PassOK'
  BY <1>2, <1>5, <1>7, <1>8 DEF PassOK, PassRecord, View, Entries
<1> QED
  BY <1>1, <1>4, <1>5, <1>6, <1>8, <1>9 DEF n

\* What PlanActions puts into the pass.
LEMMA PlanPass ==
    ASSUME TypeOK, PlanActions
    PROVE  /\ PassOK' /\ pass'.pc = "run" /\ pass'.seen = pass.seen
           /\ \A n \in pass'.drops \cup pass'.trims :
                n \in DOMAIN pass.seen /\ pass.seen[n].state \in {"Creating", "Ready", "Unhealthy"}
           /\ pass'.drops \cap In(pass.seen, "Ready") # {} =>
                Count(pass.seen, "Ready") - Cardinality(pass'.drops \cap In(pass.seen, "Ready"))
                  >= Floor
           /\ \E h, q \in Nat : pass'.creates \in {{}, Creates(pass.seen, h, q)}
<1>0. PassOK /\ WorldOK
  BY TypeParts
<1>1. PICK q \in {0, queue}, degraded \in BOOLEAN :
        \E todo \in compute_pool_actions(pass.seen, pass.hash, q, window = "open") :
          pass' = [pass EXCEPT !.pc = "run", !.queue = q,
                               !.drops = todo.drops, !.trims = todo.trims,
                               !.creates = IF degraded THEN {} ELSE todo.creates]
  BY DEF PlanActions
<1>2. PICK todo \in compute_pool_actions(pass.seen, pass.hash, q, window = "open") :
          pass' = [pass EXCEPT !.pc = "run", !.queue = q,
                               !.drops = todo.drops, !.trims = todo.trims,
                               !.creates = IF degraded THEN {} ELSE todo.creates]
  BY <1>1
<1> DEFINE S == pass.seen
           h == pass.hash
<1>3. View(S) /\ q \in Nat /\ h \in Nat
  BY <1>0 DEF PassOK, PassRecord, WorldOK
<1>4. /\ todo.drops \subseteq In(S, "Unhealthy") \cup In(S, "Creating") \cup In(S, "Ready")
      /\ todo.trims \subseteq In(S, "Ready")
      /\ todo.creates \in {{}, Creates(S, h, q)}
      /\ todo.drops \cap In(S, "Ready") # {} =>
           Count(S, "Ready") - Cardinality(todo.drops \cap In(S, "Ready")) >= Floor
  BY <1>3, PlanShape
<1>5. /\ pass'.pc = "run" /\ pass'.seen = S /\ pass'.queue = q
      /\ pass'.drops = todo.drops /\ pass'.trims = todo.trims
      /\ pass'.creates \in {{}, todo.creates}
      /\ pass'.idle = pass.idle /\ pass'.hash = h
  BY <1>0, <1>2 DEF PassOK, PassRecord
<1>6. Creates(S, h, q) \in SUBSET (Nat \ {0})
  BY <1>3, CreatesFit
<1>7. \A n \in todo.drops \cup todo.trims :
        n \in DOMAIN S /\ S[n].state \in {"Creating", "Ready", "Unhealthy"}
  BY <1>4 DEF In
<1>8. PassOK'
  <2>1. /\ todo.drops \in SUBSET (Nat \ {0}) /\ todo.trims \in SUBSET (Nat \ {0})
        /\ pass'.creates \in SUBSET (Nat \ {0})
    BY <1>3, <1>4, <1>5, <1>6, <1>7 DEF View
  <2>2. pass' \in PassRecord'
    BY <1>0, <1>2, <1>3, <1>5, <2>1 DEF PassOK, PassRecord
  <2> QED
    BY <1>0, <1>5, <2>2 DEF PassOK, View, Entries
<1> QED
  BY <1>3, <1>4, <1>5, <1>7, <1>8

\* A pass starts from the LIST: it sees the pool as it is, or nothing if that failed.
LEMMA ListPass ==
    ASSUME TypeOK, ListMembers
    PROVE  /\ PassOK' /\ pass'.creates = {}
           /\ \/ pass'.pc = "listed" /\ pass'.seen = members
              \/ pass'.pc = "unlisted" /\ ListMayFail
           /\ UNCHANGED members
<1> USE PoolAssumption
<1>0. MembersOK /\ WorldOK
  BY TypeParts
<1>1. CASE pass' = [IdlePass EXCEPT !.pc = "listed", !.seen = members, !.hash = hash,
                                    !.idle = In(members, "Ready")]
  <2>1. In(members, "Ready") \in SUBSET (Nat \ {0}) /\ IsFiniteSet(In(members, "Ready"))
    BY <1>0, CountType DEF MembersOK, View
  <2>2. pass' = [pc |-> "listed", seen |-> members, idle |-> In(members, "Ready"),
                 hash |-> hash, queue |-> 0, drops |-> {}, creates |-> {}, trims |-> {}]
    BY <1>1 DEF IdlePass
  <2>3. pass' \in PassRecord'
    BY <1>0, <2>1, <2>2 DEF PassRecord, WorldOK
  <2>4. /\ pass'.seen = members /\ pass'.idle = In(members, "Ready")
        /\ pass'.pc = "listed" /\ pass'.creates = {}
    BY <2>2
  <2> QED
    BY <1>0, <2>1, <2>3, <2>4 DEF PassOK, MembersOK, View, Entries, ListMembers
<1>2. CASE ListMayFail /\ pass' = [IdlePass EXCEPT !.pc = "unlisted", !.hash = hash]
  <2>1. pass' = [pc |-> "unlisted", seen |-> NoMembers, idle |-> {},
                 hash |-> hash, queue |-> 0, drops |-> {}, creates |-> {}, trims |-> {}]
    BY <1>2 DEF IdlePass
  <2>2. DOMAIN NoMembers = {}
    BY DEF NoMembers
  <2>3. View(NoMembers) /\ Entries(NoMembers) /\ IsFiniteSet({})
    BY <2>2, FS_EmptySet DEF View, Entries
  <2>4. pass' \in PassRecord'
    BY <1>0, <2>1 DEF PassRecord, WorldOK
  <2>5. /\ pass'.seen = NoMembers /\ pass'.idle = {}
        /\ pass'.pc = "unlisted" /\ pass'.creates = {}
    BY <2>1
  <2> QED
    BY <1>2, <2>3, <2>4, <2>5 DEF PassOK, View, Entries, ListMembers
<1> QED
  BY <1>1, <1>2 DEF ListMembers

\* A recycle write that fails.
LEMMA LosePass ==
    ASSUME PassOK, NEW n, LoseRecycle(n)
    PROVE  /\ PassOK' /\ pass'.pc = pass.pc /\ pass'.seen = pass.seen
           /\ pass'.creates = pass.creates
           /\ pass'.drops = pass.drops \ {n} /\ pass'.trims = pass.trims \ {n}
           /\ UNCHANGED members
<1>1. pass' = [pass EXCEPT !.drops = @ \ {n}, !.trims = @ \ {n}]
  BY DEF LoseRecycle
<1>2. /\ pass'.pc = pass.pc /\ pass'.seen = pass.seen /\ pass'.creates = pass.creates
      /\ pass'.drops = pass.drops \ {n} /\ pass'.trims = pass.trims \ {n}
      /\ pass'.idle = pass.idle
  BY <1>1 DEF PassOK, PassRecord
<1>3. pass' \in PassRecord'
  BY <1>1, <1>2 DEF PassOK, PassRecord
<1> QED
  BY <1>2, <1>3 DEF PassOK, View, Entries, LoseRecycle

\* The environment never touches the pass.
LEMMA EnvironmentPass ==
    ASSUME Environment
    PROVE  UNCHANGED pass /\ UNCHANGED status
  BY DEF Environment, ClaimArrives, EditSpec, WindowElapses, Provisioned, ProvisionFails,
         SchedulingBlocked, SchedulingCleared, HealthFails, TornDown, TeardownUnproven, Bind,
         LeaseEnds, IdlesOn, CreatingTimesOut

\* Every step keeps the pass well typed.
LEMMA PassStep ==
    ASSUME TypeOK, Next
    PROVE  PassOK'
<1>0. PassOK
  BY TypeParts
<1>1. CASE Environment
  BY <1>0, <1>1, EnvironmentPass DEF PassOK, PassRecord, View, Entries
<1>2. CASE PassFaults
  BY <1>0, <1>2, IdlePassType, LosePass DEF PassFaults, AbandonPass
<1>3. CASE Reconcile
  BY <1>0, <1>3, ListPass, PlanPass, CreatePass, IdlePassType, RecyclePass
     DEF Reconcile, PublishStatus, DropMember, TrimMember
<1> QED
  BY <1>1, <1>2, <1>3 DEF Next

\* Clients, claims and failures only count up to their bounds.
LEMMA WorldStep ==
    ASSUME TypeOK, Next
    PROVE  WorldOK'
<1> DEFINE Moves ==
             /\ hash' = hash \/ (hash < MaxHash /\ hash' = hash + 1)
             /\ queue' = queue \/ queue' = queue + 1 \/ (queue > 0 /\ queue' = queue - 1)
             /\ arrived' = arrived \/ arrived' = arrived + 1
             /\ faults' = faults \/ Fault
             /\ failedRow' = failedRow \/ failedRow' = 0 \/ failedRow' = failedRow + 1
<1>1. ASSUME Environment PROVE Moves
  <2>1. ASSUME ClaimArrives \/ EditSpec \/ WindowElapses PROVE Moves
    BY <2>1, Zenon DEF ClaimArrives, EditSpec, WindowElapses, world
  <2>2. ASSUME NEW n, Provisioned(n) \/ ProvisionFails(n) \/ Bind(n)
        PROVE  Moves
    BY <2>2, Zenon DEF Provisioned, ProvisionFails, Bind
  <2>3. ASSUME NEW n, SchedulingBlocked(n) \/ HealthFails(n) \/ TeardownUnproven(n)
                        \/ CreatingTimesOut(n)
        PROVE  Moves
    BY <2>3, Zenon DEF SchedulingBlocked, HealthFails, TeardownUnproven, CreatingTimesOut
  <2>4. ASSUME NEW n, SchedulingCleared(n) \/ TornDown(n) \/ LeaseEnds(n) \/ IdlesOn(n)
        PROVE  Moves
    BY <2>4, Zenon DEF SchedulingCleared, TornDown, LeaseEnds, IdlesOn, world
  <2> HIDE DEF Moves
  <2> QED
    BY <1>1, <2>1, <2>2, <2>3, <2>4 DEF Environment
<1>2. ASSUME PassFaults PROVE Moves
  BY <1>2, Zenon DEF PassFaults, AbandonPass, LoseRecycle
<1>3. ASSUME Reconcile PROVE Moves
  <2>1. ASSUME ListMembers \/ PlanActions \/ CreateMember \/ PublishStatus
        PROVE  Moves
    BY <2>1, Zenon DEF ListMembers, PlanActions, CreateMember, PublishStatus, world
  <2>2. ASSUME NEW n, DropMember(n) \/ TrimMember(n)
        PROVE  Moves
    BY <2>2, Zenon DEF DropMember, TrimMember, world
  <2> HIDE DEF Moves
  <2> QED
    BY <1>3, <2>1, <2>2 DEF Reconcile
<1>4. Moves
  BY <1>1, <1>2, <1>3 DEF Next
<1>5. WorldOK
  BY TypeParts
<1> QED
  BY <1>4, <1>5, PoolAssumption DEF WorldOK, Fault

\* compute_backoff_state yields naturals: the highest index ever Ready may exceed
\* the highest attempted one only when no failure is counted.
LEMMA BackoffType ==
    ASSUME TypeOK
    PROVE  LET backoff == compute_backoff_state(pass.seen, pass.idle) IN
           /\ backoff.failures \in Nat /\ backoff.attempted \in Nat /\ backoff.ready \in Nat
           /\ backoff.window \in {"none", "open", "past"}
<1> DEFINE S == pass.seen
           R == pass.idle \cup In(S, "Ready") \cup In(S, "Leased") \cup {status.last_ready_max_index}
           A == DOMAIN S \cup {status.max_attempted_index}
           blocked == \E n \in DOMAIN S : S[n].scheduling_blocked
           attempted == Max(A)
           ready == Max(R)
           failures == IF ready > 0 /\ ready >= attempted /\ ~blocked THEN 0
                       ELSE Max({attempted - ready, IF blocked THEN 1 ELSE 0})
           win == CASE failures = 0 -> "none"
                    [] failures > status.consecutive_failures -> "open"
                    [] OTHER -> IF blocked /\ window = "none" THEN "open" ELSE window
<1>0. PassOK /\ StatusOK
  BY TypeParts
<1>1. /\ View(S) /\ IsFiniteSet(pass.idle) /\ pass.idle \in SUBSET Nat
      /\ status.last_ready_max_index \in Nat /\ status.max_attempted_index \in Nat
  BY <1>0 DEF PassOK, PassRecord, StatusOK, PoolStatus
<1>2. attempted \in Nat
  <2>1. IsFiniteSet(A) /\ A \in SUBSET Nat /\ A # {}
    BY <1>1, FS_AddElement DEF View
  <2> QED
    BY <2>1, MaxNat
<1>3. ready \in Nat
  <2>1. IsFiniteSet(pass.idle \cup In(S, "Ready"))
    BY <1>1, CountType, FS_Union
  <2>2. IsFiniteSet(pass.idle \cup In(S, "Ready") \cup In(S, "Leased"))
    BY <1>1, <2>1, CountType, FS_Union
  <2>3. IsFiniteSet(R)
    BY <2>2, FS_AddElement
  <2>4. R \in SUBSET Nat /\ R # {}
    BY <1>1, CountType DEF View
  <2> QED
    BY <2>3, <2>4, MaxNat
<1> HIDE DEF attempted, ready, blocked
<1>4. failures \in Nat
  <2> DEFINE gap == attempted - ready
             least == IF blocked THEN 1 ELSE 0
  <2>1. gap \in Int /\ least \in Nat /\ (blocked => least = 1)
    BY <1>2, <1>3
  <2>2. failures = IF ready > 0 /\ ready >= attempted /\ ~blocked THEN 0 ELSE Max({gap, least})
    OBVIOUS
  <2> HIDE DEF gap, least, failures
  <2>3. least \in Int
    BY <2>1
  <2>4. Max({gap, least}) \in {gap, least} /\ Max({gap, least}) >= least
    BY <2>1, <2>3, MaxPair, Zenon
  <2>5. Max({gap, least}) \in Nat
    BY <2>1, <2>3, <2>4
  <2> QED
    BY <2>2, <2>5
<1>5. win \in {"none", "open", "past"}
  <2> HIDE DEF failures
  <2> QED
    BY <1>0 DEF StatusOK
<1>6. compute_backoff_state(S, pass.idle)
        = [failures |-> failures, attempted |-> attempted, ready |-> ready, window |-> win]
  BY Zenon DEF compute_backoff_state, failures, attempted, ready, blocked, win
<1> HIDE DEF failures, win
<1> QED
  BY <1>2, <1>3, <1>4, <1>5, <1>6

LEMMA PhaseType ==
    ASSUME NEW S, NEW h, NEW q, NEW backoff
    PROVE  compute_pool_phase(S, h, q, backoff) \in
             {"None", "Failing", "Backoff", "Idle", "Quarantined", "ScalingDown",
              "Healthy", "Exhausted", "ScalingUp"}
  BY DEF compute_pool_phase

\* The published status is well typed.
LEMMA StatusStep ==
    ASSUME TypeOK, Next
    PROVE  StatusOK'
<1>0. StatusOK
  BY TypeParts
<1>1. CASE PublishStatus
  <2> DEFINE backoff == compute_backoff_state(pass.seen, pass.idle)
             phase == compute_pool_phase(pass.seen, pass.hash, pass.queue, backoff)
  <2>1. /\ status' = [consecutive_failures |-> backoff.failures,
                      max_attempted_index |-> backoff.attempted,
                      last_ready_max_index |-> backoff.ready, phase |-> phase]
        /\ window' = backoff.window
    BY <1>1, Zenon DEF PublishStatus
  <2>2. /\ backoff.failures \in Nat /\ backoff.attempted \in Nat /\ backoff.ready \in Nat
        /\ backoff.window \in {"none", "open", "past"}
    BY BackoffType
  <2>3. phase \in {"None", "Failing", "Backoff", "Idle", "Quarantined", "ScalingDown",
                   "Healthy", "Exhausted", "ScalingUp"}
    BY PhaseType
  <2> HIDE DEF backoff, phase
  <2> QED
    BY <2>1, <2>2, <2>3 DEF StatusOK, PoolStatus
<1>2. CASE Environment
  BY <1>0, <1>2
  DEF StatusOK, Environment, ClaimArrives, EditSpec, WindowElapses, Provisioned, ProvisionFails,
      SchedulingBlocked, SchedulingCleared, HealthFails, TornDown, TeardownUnproven, Bind,
      LeaseEnds, IdlesOn, CreatingTimesOut
<1>3. CASE PassFaults
  BY <1>0, <1>3 DEF StatusOK, PassFaults, AbandonPass, LoseRecycle
<1>4. CASE Reconcile /\ ~PublishStatus
  BY <1>0, <1>4 DEF StatusOK, Reconcile, ListMembers, PlanActions, CreateMember, DropMember,
                    TrimMember
<1> QED
  BY <1>1, <1>2, <1>3, <1>4 DEF Next

\* Type correctness, for every pool: what the pass's LIST, plan, writes and status
\* publication leave behind is a well-formed pool state.
THEOREM TypeCorrect == Spec => []TypeOK
<1>1. Init => TypeOK
  <2> SUFFICES ASSUME Init PROVE TypeOK
    OBVIOUS
  <2>1. DOMAIN NoMembers = {}
    BY DEF NoMembers
  <2>2. PoolState(NoMembers) /\ IsFiniteSet({})
    BY <2>1, FS_EmptySet DEF PoolState
  <2>3. /\ members = NoMembers
        /\ pass = [pc |-> "idle", seen |-> NoMembers, idle |-> {}, hash |-> 0,
                   queue |-> 0, drops |-> {}, creates |-> {}, trims |-> {}]
    BY DEF Init, IdlePass
  <2>4. pass.seen = NoMembers /\ pass.idle = {}
    BY <2>3
  <2>5. PoolState(members) /\ PoolState(pass.seen) /\ IsFiniteSet(pass.idle)
    BY <2>2, <2>3, <2>4
  <2>6. status \in PoolStatus
    BY DEF Init, PoolStatus
  <2> HIDE DEF Init
  <2>7. pass \in [pc: {"idle", "listed", "unlisted", "run"}, seen: {pass.seen},
                  idle: SUBSET (Nat \ {0}), hash: 0..MaxHash, queue: Nat,
                  drops: SUBSET (Nat \ {0}), creates: SUBSET (Nat \ {0}),
                  trims: SUBSET (Nat \ {0})]
    BY <2>3, <2>4, PoolAssumption
  <2> QED
    BY <2>5, <2>6, <2>7, PoolAssumption DEF TypeOK, Init
<1>2. ASSUME TypeOK, [Next]_vars PROVE TypeOK'
  <2>1. CASE Next
    BY <1>2, <2>1, MembersStep, PassStep, WorldStep, StatusStep, TypePartsNext
  <2>2. CASE UNCHANGED vars
    BY <1>2, <2>2 DEF vars, TypeOK, PoolState
  <2> QED
    BY <1>2, <2>1, <2>2
<1> QED
  BY <1>1, <1>2, PTL DEF Spec
-----------------------------------------------------------------------------
(* Capacity.  Between the LIST and the creates members can only disappear, *)
(* so what the pass saw covers the pool until the pass itself adds to it.  *)

\* A step that adds no member and leaves the pass's view and creates alone, or
\* enlarges neither.
LEMMA CapacityKept ==
    ASSUME TypeOK, CapacityInv, DOMAIN members' \subseteq DOMAIN members,
           pass'.pc = pass.pc, DOMAIN pass'.seen = DOMAIN pass.seen,
           pass'.creates = pass.creates
    PROVE  CapacityInv'
<1>1. IsFiniteSet(DOMAIN members)
  BY DEF TypeOK, PoolState
<1>2. Cardinality(DOMAIN members') <= Cardinality(DOMAIN members)
      /\ Cardinality(DOMAIN members') \in Nat /\ Cardinality(DOMAIN members) \in Nat
  BY <1>1, FS_Subset, FS_CardinalityType
<1>3. Cardinality(DOMAIN members') <= MaxClusters
  BY <1>2, PoolAssumption DEF CapacityInv
<1> QED
  BY <1>3 DEF CapacityInv

\* Every step preserves CapacityInv.
LEMMA CapacityStep ==
    ASSUME ~ ListMayFail, TypeOK, CapacityInv, Next
    PROVE  CapacityInv'
<1> USE PoolAssumption
<1>0. MembersOK /\ PassOK
  BY TypeParts
<1>1. CASE Environment
  <2>1. UNCHANGED pass
    BY <1>1, EnvironmentPass
  <2>2. DOMAIN members' \subseteq DOMAIN members
    <3>1. CreateMember => pass' # pass
      <4> SUFFICES ASSUME CreateMember, pass' = pass PROVE FALSE
        OBVIOUS
      <4> QED
        BY <1>0, CreatePass
    <3> QED
      BY <2>1, <3>1, MembersStep
  <2> QED
    BY <2>1, <2>2, CapacityKept
<1>2. ASSUME pass' = IdlePass, UNCHANGED members PROVE CapacityInv'
  <2>1. pass'.pc = "idle"
    BY <1>2 DEF IdlePass
  <2> QED
    BY <1>2, <2>1 DEF CapacityInv
<1>3. CASE PassFaults
  <2>1. ASSUME NEW n, LoseRecycle(n) PROVE CapacityInv'
    BY <1>0, <2>1, LosePass, CapacityKept
  <2> QED
    BY <1>2, <1>3, <2>1 DEF PassFaults, AbandonPass
<1>4. CASE ListMembers
  <2>1. /\ pass'.pc = "listed" /\ pass'.seen = members /\ pass'.creates = {}
        /\ members' = members
    BY <1>4, ListPass
  <2>2. DOMAIN members \cup {} = DOMAIN members /\ IsFiniteSet({})
    BY FS_EmptySet
  <2> QED
    BY <2>1, <2>2 DEF CapacityInv
<1>5. CASE PlanActions
  <2> DEFINE S == pass.seen
  <2>1. /\ pass'.pc = "run" /\ pass'.seen = S
        /\ \E h, q \in Nat : pass'.creates \in {{}, Creates(S, h, q)}
    BY <1>5, PlanPass
  <2>2. pass.pc = "listed" /\ members' = members
    BY <1>5 DEF PlanActions, CapacityInv
  <2>3. View(S) /\ DOMAIN members \subseteq DOMAIN S
    BY <1>0, <2>2 DEF PassOK, CapacityInv
  <2>4. Cardinality(DOMAIN S) <= MaxClusters
    <3>1. IsFiniteSet(DOMAIN S \cup pass.creates)
      BY <2>2, <2>3, FS_Union DEF CapacityInv, View
    <3>2. DOMAIN S \in SUBSET (DOMAIN S \cup pass.creates)
      OBVIOUS
    <3>3. Cardinality(DOMAIN S) <= Cardinality(DOMAIN S \cup pass.creates)
          /\ Cardinality(DOMAIN S) \in Nat /\ Cardinality(DOMAIN S \cup pass.creates) \in Nat
      BY <2>3, <3>1, <3>2, FS_Subset, FS_CardinalityType DEF View
    <3> QED
      BY <2>2, <3>3 DEF CapacityInv
  <2>5. PICK h, q \in Nat : pass'.creates \in {{}, Creates(S, h, q)}
    BY <2>1
  <2> HIDE DEF S
  <2>6. /\ pass'.creates \cap DOMAIN S = {} /\ IsFiniteSet(pass'.creates)
        /\ Cardinality(DOMAIN S \cup pass'.creates) <= MaxClusters
    <3>1. CASE pass'.creates = {}
      <4>1. DOMAIN S \cup pass'.creates = DOMAIN S
        BY <3>1
      <4> QED
        BY <2>4, <3>1, <4>1, FS_EmptySet
    <3>2. CASE pass'.creates = Creates(S, h, q)
      BY <2>3, <2>4, <3>2, CreatesFit
    <3> QED
      BY <2>5, <3>1, <3>2
  <2> QED
    BY <2>1, <2>2, <2>3, <2>6 DEF CapacityInv
<1>6. CASE CreateMember
  <2> DEFINE n == Min(pass.creates)
  <2>1. /\ n \in pass.creates
        /\ pass'.pc = pass.pc /\ pass'.creates = pass.creates \ {n}
        /\ DOMAIN pass'.seen = DOMAIN pass.seen \cup {n}
    BY <1>0, <1>6, CreatePass
  <2>2. pass.pc = "run"
    BY <1>6 DEF CreateMember
  <2>3. /\ DOMAIN members \subseteq DOMAIN pass.seen
        /\ pass.creates \cap DOMAIN pass.seen = {}
        /\ IsFiniteSet(pass.creates)
        /\ Cardinality(DOMAIN pass.seen \cup pass.creates) <= MaxClusters
    BY <2>2 DEF CapacityInv
  <2>4. DOMAIN members' \subseteq DOMAIN members \cup {n}
    <3>1. \/ members' = members
          \/ \E e : members' = With(members, n, e)
      BY <1>6 DEF CreateMember
    <3>2. \A e : DOMAIN With(members, n, e) = DOMAIN members \cup {n}
      BY DEF With
    <3> HIDE DEF n
    <3> QED
      BY <3>1, <3>2
  <2> HIDE DEF n
  <2>5. DOMAIN pass'.seen \cup pass'.creates = DOMAIN pass.seen \cup pass.creates
    BY <2>1
  <2>6. /\ DOMAIN members' \subseteq DOMAIN pass'.seen
        /\ pass'.creates \cap DOMAIN pass'.seen = {}
    BY <2>1, <2>3, <2>4
  <2>7. IsFiniteSet(pass'.creates)
    BY <2>1, <2>3, FS_RemoveElement
  <2>8. Cardinality(DOMAIN members') <= MaxClusters
    <3>1. IsFiniteSet(DOMAIN pass.seen \cup pass.creates)
      BY <1>0, <2>3, FS_Union DEF PassOK, View
    <3>2. DOMAIN members' \in SUBSET (DOMAIN pass.seen \cup pass.creates)
      BY <2>1, <2>3, <2>4
    <3>3. /\ Cardinality(DOMAIN members') <= Cardinality(DOMAIN pass.seen \cup pass.creates)
          /\ Cardinality(DOMAIN members') \in Nat
          /\ Cardinality(DOMAIN pass.seen \cup pass.creates) \in Nat
      BY <3>1, <3>2, FS_Subset, FS_CardinalityType
    <3> QED
      BY <2>3, <3>3
  <2> QED
    BY <2>1, <2>2, <2>3, <2>5, <2>6, <2>7, <2>8 DEF CapacityInv
<1>7. ASSUME NEW n, DropMember(n) \/ TrimMember(n) PROVE CapacityInv'
  <2>1. RecycleMember(n)
    BY <1>7 DEF DropMember, TrimMember
  <2>2. DOMAIN members' \subseteq DOMAIN members
    BY <1>0, <2>1, RecycleType
  <2> QED
    BY <1>0, <2>1, <2>2, RecyclePass, CapacityKept
<1>8. CASE PublishStatus
  BY <1>2, <1>8 DEF PublishStatus
<1> QED
  BY <1>1, <1>3, <1>4, <1>5, <1>6, <1>7, <1>8 DEF Next, Reconcile

\* Unless a LIST fails, CapacityInv holds of every pass that reconcile_profile runs.
THEOREM CapacityInvariant ==
    ASSUME ~ ListMayFail
    PROVE  Spec => []CapacityInv
<1>1. Init => CapacityInv
  <2> SUFFICES ASSUME Init PROVE CapacityInv
    OBVIOUS
  <2>1. DOMAIN members = {}
    BY DEF Init, NoMembers
  <2>2. pass.pc = "idle"
    BY DEF Init, IdlePass
  <2> QED
    BY <2>1, <2>2, FS_EmptySet, PoolAssumption DEF CapacityInv
<1>2. ASSUME TypeOK, CapacityInv, [Next]_vars PROVE CapacityInv'
  <2>1. CASE UNCHANGED vars
    BY <1>2, <2>1 DEF vars, CapacityInv
  <2> QED
    BY <1>2, <2>1, CapacityStep
<1> QED
  BY <1>1, <1>2, TypeCorrect, PTL DEF Spec

\* The pool never holds more members than pool_capacity, for any limits, surge and
\* demand, as long as every LIST of the pool's instances succeeds.
THEOREM Capacity ==
    ASSUME ~ ListMayFail
    PROVE  Spec => []WithinCapacity
<1>1. CapacityInv => WithinCapacity
  BY DEF CapacityInv, WithinCapacity
<1> QED
  BY <1>1, CapacityInvariant, PTL

\* ensure_cluster_instance never meets an existing name, so it never counts another
\* member as the one it was to create.
THEOREM CreateFresh ==
    ASSUME ~ ListMayFail
    PROVE  Spec => CreateIsFresh
<1>1. TypeOK /\ CapacityInv => (CreateMember => Min(pass.creates) \notin DOMAIN members)
  <2> SUFFICES ASSUME TypeOK, CapacityInv, CreateMember
               PROVE  Min(pass.creates) \notin DOMAIN members
    OBVIOUS
  <2>1. PassOK
    BY TypeParts
  <2>2. pass.pc = "run" /\ pass.creates # {}
    BY DEF CreateMember
  <2>3. Min(pass.creates) \in pass.creates
    BY <2>1, <2>2, CreateIndex
  <2> QED
    BY <2>2, <2>3 DEF CapacityInv
<1> QED
  BY <1>1, TypeCorrect, CapacityInvariant, PTL DEF CreateIsFresh
-----------------------------------------------------------------------------
(* What a pass may recycle.  Its plan is checked against the state it saw, *)
(* member by member, when the write lands.                                 *)

\* Recycles taken off a plan: by a write that lands (the member leaves Ready in the
\* pass's view), or by one that does not.
LEMMA DropsShrink ==
    ASSUME NEW D, NEW R, NEW n, IsFiniteSet(R), D \cap R # {} =>
             Cardinality(R) - Cardinality(D \cap R) >= Floor
    PROVE  /\ (D \ {n}) \cap R # {} => Cardinality(R) - Cardinality((D \ {n}) \cap R) >= Floor
           /\ n \in D /\ n \in R => Cardinality(R \ {n}) - Cardinality((D \ {n}) \cap (R \ {n})) >= Floor
           /\ n \in D /\ n \in R => Cardinality(R \ {n}) >= Floor
<1> USE PoolAssumption
<1> DEFINE X == D \cap R
<1>1. IsFiniteSet(X) /\ Cardinality(X) \in Nat /\ Cardinality(R) \in Nat
  BY FS_Subset, FS_CardinalityType
<1>2. (D \ {n}) \cap R = X \ {n} /\ (D \ {n}) \cap (R \ {n}) = X \ {n}
  OBVIOUS
<1>3. /\ Cardinality(X \ {n}) = IF n \in X THEN Cardinality(X) - 1 ELSE Cardinality(X)
      /\ Cardinality(R \ {n}) = IF n \in R THEN Cardinality(R) - 1 ELSE Cardinality(R)
      /\ Cardinality(X \ {n}) \in Nat
  BY <1>1, FS_RemoveElement, FS_CardinalityType
<1>4. X \ {n} # {} => X # {}
  OBVIOUS
<1>5. n \in D /\ n \in R => n \in X /\ X # {}
  OBVIOUS
<1>6. X # {} => Cardinality(R) - Cardinality(X) >= Floor
  OBVIOUS
<1> HIDE DEF X
<1> QED
  BY <1>1, <1>2, <1>3, <1>4, <1>5, <1>6

\* A drift recycle that lands.
LEMMA DropFloor ==
    ASSUME TypeOK, PlanInv, NEW n \in pass.drops, DropMember(n)
    PROVE  /\ PlanInv'
           /\ members' # members /\ pass.seen[n].state = "Ready"
                => Count(pass.seen', "Ready") >= Floor
<1> DEFINE S == pass.seen
           T == pass'.seen
<1>0. PassOK /\ RecycleMember(n) /\ pass.pc = "run"
  BY TypeParts DEF DropMember
<1>1. /\ pass'.drops = pass.drops \ {n} /\ pass'.trims = pass.trims \ {n}
      /\ DOMAIN T = DOMAIN S /\ \A k \in DOMAIN S \ {n} : T[k] = S[k]
      /\ \/ T = S /\ members' = members
         \/ n \in DOMAIN S => T[n].state = "Recycling"
  BY <1>0, RecyclePass
<1>2. \A k \in pass.drops \cup pass.trims :
        k \in DOMAIN S /\ S[k].state \in {"Creating", "Ready", "Unhealthy"}
  BY <1>0 DEF PlanInv
<1>3. IsFiniteSet(In(S, "Ready"))
  BY <1>0, CountType DEF PassOK
<1>4. pass.drops \cap In(S, "Ready") # {} =>
        Cardinality(In(S, "Ready")) - Cardinality(pass.drops \cap In(S, "Ready")) >= Floor
  BY <1>0 DEF PlanInv, ReadyDrops, Count
<1>5. \A k \in pass'.drops \cup pass'.trims :
        k \in DOMAIN T /\ T[k].state \in {"Creating", "Ready", "Unhealthy"}
  BY <1>1, <1>2
<1>6. CASE T = S /\ members' = members
  <2>1. (pass.drops \ {n}) \cap In(S, "Ready") # {} =>
          Cardinality(In(S, "Ready")) - Cardinality((pass.drops \ {n}) \cap In(S, "Ready")) >= Floor
    BY <1>3, <1>4, DropsShrink
  <2> QED
    BY <1>1, <1>5, <1>6, <2>1 DEF PlanInv, ReadyDrops, Count
<1>7. CASE T[n].state = "Recycling"
  <2>1. In(T, "Ready") = In(S, "Ready") \ {n}
    BY <1>1, <1>7 DEF In
  <2>2. CASE n \in In(S, "Ready")
    <3>1. /\ Cardinality(In(S, "Ready") \ {n})
               - Cardinality((pass.drops \ {n}) \cap (In(S, "Ready") \ {n})) >= Floor
          /\ Cardinality(In(S, "Ready") \ {n}) >= Floor
      BY <1>3, <1>4, <2>2, DropsShrink
    <3> QED
      BY <1>1, <1>5, <2>1, <3>1 DEF PlanInv, ReadyDrops, Count
  <2>3. CASE n \notin In(S, "Ready")
    <3>1. In(T, "Ready") = In(S, "Ready") /\ S[n].state # "Ready"
      BY <1>2, <2>1, <2>3 DEF In
    <3>2. (pass.drops \ {n}) \cap In(S, "Ready") # {} =>
            Cardinality(In(S, "Ready")) - Cardinality((pass.drops \ {n}) \cap In(S, "Ready"))
              >= Floor
      BY <1>3, <1>4, DropsShrink
    <3> QED
      BY <1>1, <1>5, <3>1, <3>2 DEF PlanInv, ReadyDrops, Count
  <2> QED
    BY <2>2, <2>3
<1> QED
  BY <1>1, <1>2, <1>6, <1>7

\* Every step preserves PlanInv.
LEMMA PlanStep ==
    ASSUME TypeOK, PlanInv, Next
    PROVE  PlanInv'
<1>0. PassOK
  BY TypeParts
<1>1. CASE Environment
  BY <1>1, EnvironmentPass DEF PlanInv, ReadyDrops, Count, In
<1>2. ASSUME pass' = IdlePass PROVE PlanInv'
  BY <1>2 DEF PlanInv, IdlePass
<1>3. ASSUME NEW n, LoseRecycle(n) PROVE PlanInv'
  <2>1. /\ pass.pc = "run" /\ pass'.pc = "run" /\ pass'.seen = pass.seen
        /\ pass'.drops = pass.drops \ {n} /\ pass'.trims = pass.trims \ {n}
    BY <1>0, <1>3, LosePass DEF LoseRecycle
  <2> DEFINE R == In(pass.seen, "Ready")
  <2>2. IsFiniteSet(R)
    BY <1>0, CountType DEF PassOK
  <2>3. pass.drops \cap R # {} => Cardinality(R) - Cardinality(pass.drops \cap R) >= Floor
    BY <2>1 DEF PlanInv, ReadyDrops, Count
  <2>4. (pass.drops \ {n}) \cap R # {} =>
          Cardinality(R) - Cardinality((pass.drops \ {n}) \cap R) >= Floor
    BY <2>2, <2>3, DropsShrink
  <2> QED
    BY <2>1, <2>4 DEF PlanInv, ReadyDrops, Count
<1>4. CASE ListMembers
  <2>1. pass'.pc # "run"
    BY <1>4, ListPass
  <2> QED
    BY <2>1 DEF PlanInv
<1>5. CASE PlanActions
  BY <1>5, PlanPass DEF PlanInv, ReadyDrops
<1>6. CASE CreateMember
  <2> DEFINE n == Min(pass.creates)
  <2>1. /\ pass'.drops = pass.drops /\ pass'.trims = pass.trims
        /\ DOMAIN pass'.seen = DOMAIN pass.seen \cup {n}
        /\ \A k \in DOMAIN pass.seen \ {n} : pass'.seen[k] = pass.seen[k]
        /\ pass'.seen[n].state = "Creating"
    BY <1>0, <1>6, CreatePass
  <2>2. pass.pc = "run" /\ pass.drops = {}
    BY <1>6 DEF CreateMember
  <2> HIDE DEF n
  <2>3. \A k \in pass'.drops \cup pass'.trims :
          k \in DOMAIN pass'.seen /\ pass'.seen[k].state \in {"Creating", "Ready", "Unhealthy"}
    BY <2>1, <2>2 DEF PlanInv
  <2> QED
    BY <2>1, <2>2, <2>3 DEF PlanInv, ReadyDrops
<1>7. ASSUME NEW n \in pass.drops, DropMember(n) PROVE PlanInv'
  BY <1>7, DropFloor
<1>8. ASSUME NEW n, TrimMember(n) PROVE PlanInv'
  <2>1. RecycleMember(n) /\ pass.pc = "run" /\ pass.drops = {}
    BY <1>8 DEF TrimMember
  <2>2. /\ pass'.drops = pass.drops \ {n} /\ pass'.trims = pass.trims \ {n}
        /\ DOMAIN pass'.seen = DOMAIN pass.seen
        /\ \A k \in DOMAIN pass.seen \ {n} : pass'.seen[k] = pass.seen[k]
    BY <1>0, <2>1, RecyclePass
  <2> QED
    BY <2>1, <2>2 DEF PlanInv, ReadyDrops
<1> QED
  BY <1>1, <1>2, <1>3, <1>4, <1>5, <1>6, <1>7, <1>8
     DEF Next, Reconcile, PassFaults, AbandonPass, PublishStatus

\* PlanInv holds of every pass, also of one whose LIST failed.
THEOREM PlanInvariant == Spec => []PlanInv
<1>1. Init => PlanInv
  BY DEF Init, IdlePass, PlanInv
<1>2. ASSUME TypeOK, PlanInv, [Next]_vars PROVE PlanInv'
  <2>1. CASE UNCHANGED vars
    BY <1>2, <2>1 DEF vars, PlanInv, ReadyDrops, Count, In
  <2> QED
    BY <1>2, <2>1, PlanStep
<1> QED
  BY <1>1, <1>2, TypeCorrect, PTL DEF Spec

\* The compare-and-set of mark_instance_recycling: a pass never recycles, overwrites
\* or removes a member that is Leased or Quarantined when its write lands.
THEOREM HeldUntouched == Spec => PoolNeverTakesHeld
<1> DEFINE Held == In(members, "Leased") \cup In(members, "Quarantined")
           Kept == \A n \in Held : n \in DOMAIN members' /\ members'[n] = members[n]
<1>1. ASSUME PlanInv, Reconcile PROVE Kept
  <2>1. ASSUME UNCHANGED members PROVE Kept
    BY <2>1 DEF In
  <2>2. ASSUME CreateMember PROVE Kept
    <3>1. \/ members' = members
          \/ \E n, e : n \notin DOMAIN members /\ members' = With(members, n, e)
      BY <2>2 DEF CreateMember
    <3> QED
      BY <3>1 DEF With, In
  <2>3. ASSUME NEW m \in pass.drops \cup pass.trims, RecycleMember(m), pass.pc = "run"
        PROVE  Kept
    <3>1. CASE StillAsSeen(m)
      <4>1. m \in DOMAIN members /\ members[m].state \in {"Creating", "Ready", "Unhealthy"}
        BY <1>1, <2>3, <3>1 DEF StillAsSeen, PlanInv
      <4>2. members' = [members EXCEPT ![m] = Recycled(members[m])]
        BY <2>3, <3>1 DEF RecycleMember
      <4> QED
        BY <4>1, <4>2 DEF In
    <3>2. CASE ~ StillAsSeen(m)
      BY <2>1, <2>3, <3>2 DEF RecycleMember
    <3> QED
      BY <3>1, <3>2
  <2> HIDE DEF Kept
  <2> QED
    BY <1>1, <2>1, <2>2, <2>3
       DEF Reconcile, ListMembers, PlanActions, PublishStatus, DropMember, TrimMember, world
<1>2. PlanInv => (Reconcile => Kept)
  BY <1>1
<1> QED
  BY <1>2, PlanInvariant, PTL DEF PoolNeverTakesHeld

\* A rolling upgrade leaves minReadyDuringUpgrade Ready members in the view it was
\* planned on, whatever maxRecycling and maxSurge are.
THEOREM FloorKept == Spec => RollKeepsFloor
<1>1. TypeOK /\ PlanInv =>
        \A n \in pass.drops :
          DropMember(n) /\ members' # members /\ pass.seen[n].state = "Ready"
            => Count(pass.seen', "Ready") >= Floor
  BY DropFloor
<1> QED
  BY <1>1, TypeCorrect, PlanInvariant, PTL DEF RollKeepsFloor
=============================================================================
