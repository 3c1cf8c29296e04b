--------------------------- MODULE AccessLedgerProofs ---------------------------
(***************************************************************************)
(* Proofs about AccessLedger, for every set of leases, principals,         *)
(* operations and Pods, every assignment of operations to them and every   *)
(* limit: LedgerInv is inductive, and the release barrier, the stream      *)
(* limits and the lifetime of the gate follow from it.                     *)
(***************************************************************************)
EXTENDS AccessLedger, FiniteSetTheorems, TLAPS

\* Finite entry sets: adding, removing and comparing them (used for the limits).
LEMMA EntryCounts ==
  ASSUME NEW S \in SUBSET Ops, NEW o \in Ops
  PROVE  /\ Cardinality(S) \in Nat
         /\ Cardinality(S \cup {o}) \in Nat
         /\ Cardinality(S \cup {o}) <= Cardinality(S) + 1
         /\ Cardinality(S \ {o}) \in Nat
         /\ Cardinality(S \ {o}) <= Cardinality(S)
         /\ o \notin S => S \ {o} = S
         /\ \A T \in SUBSET S : Cardinality(T) \in Nat /\ Cardinality(T) <= Cardinality(S)
<1>1. IsFiniteSet(S)
  BY OpsAssumption, FS_Subset
<1>2. Cardinality(S) \in Nat
  BY <1>1, FS_CardinalityType
<1>3. /\ IsFiniteSet(S \cup {o})
      /\ Cardinality(S \cup {o}) = IF o \in S THEN Cardinality(S) ELSE Cardinality(S) + 1
  BY <1>1, FS_AddElement
<1>4. \A T \in SUBSET S : IsFiniteSet(T) /\ Cardinality(T) <= Cardinality(S)
  BY <1>1, FS_Subset
<1>5. \A T \in SUBSET S : Cardinality(T) \in Nat
  BY <1>4, FS_CardinalityType
<1>6. S \ {o} \in SUBSET S
  OBVIOUS
<1> QED
  BY <1>2, <1>3, <1>4, <1>5, <1>6

LEMMA EmptyCount == Cardinality({}) = 0
BY FS_EmptySet

\* Voiding the PATCHes in flight on an object leaves the others as they are.
LEMMA VoidFacts ==
  ASSUME TypeOK
  PROVE  /\ \A l \in Leases : VoidGate(l) \in [Ops -> {"none", "gate", "principal"}]
         /\ \A p \in Principals : VoidPrincipal(p) \in [Ops -> {"none", "gate", "principal"}]
         /\ \A l \in Leases, x \in Ops :
              /\ VoidGate(l)[x] = "gate" => patch[x] = "gate" /\ LeaseOf[x] # l
              /\ VoidGate(l)[x] = "principal" => patch[x] = "principal"
              /\ patch[x] = "none" => VoidGate(l)[x] = "none"
         /\ \A p \in Principals, x \in Ops :
              /\ VoidPrincipal(p)[x] = "principal" => patch[x] = "principal" /\ PrincipalOf[x] # p
              /\ VoidPrincipal(p)[x] = "gate" => patch[x] = "gate"
              /\ patch[x] = "none" => VoidPrincipal(p)[x] = "none"
BY DEF TypeOK, VoidGate, VoidPrincipal

LEMMA InitInv == Init => LedgerInv
<1> SUFFICES ASSUME Init PROVE LedgerInv
  OBVIOUS
<1> USE OpsAssumption, LimitAssumption, EmptyCount
<1> QED
  BY DEF Init, LedgerInv, TypeOK, OwnerServes, EntriesHeld, IdleUnregistered, PatchCurrent,
         WithinLimits, CleanersExact, NamesUnique, DrainedStays, GateOutlivesLease,
         Acquiring, Holding, Releasing, InProcess, PodStates, LeaseStates

\* Removing one entry disturbs no other entry, never grows a count, and keeps
\* only PATCHes computed from an object that did not change.
LEMMA RemoveGateFacts ==
  ASSUME TypeOK, NEW o \in Ops, RemoveGateEntry(o)
  PROVE  /\ gateE' \in [Leases -> SUBSET Ops]
         /\ patch' \in [Ops -> {"none", "gate", "principal"}]
         /\ \A l \in Leases : /\ gateE'[l] \subseteq gateE[l]
                              /\ Cardinality(gateE'[l]) \in Nat
                              /\ Cardinality(gateE[l]) \in Nat
                              /\ Cardinality(gateE'[l]) <= Cardinality(gateE[l])
                              /\ \A x \in gateE[l] : x # o => x \in gateE'[l]
         /\ \A x \in Ops : /\ patch[x] = "none" => patch'[x] = "none"
                           /\ patch'[x] = "principal" => patch[x] = "principal"
                           /\ patch'[x] = "gate" => patch[x] = "gate"
<1> DEFINE l == LeaseOf[o]
<1>1. l \in Leases /\ gateE' = [gateE EXCEPT ![l] = @ \ {o}] /\ gateE[l] \in SUBSET Ops
  BY OpsAssumption DEF TypeOK, RemoveGateEntry
<1>2. patch' = patch \/ patch' = VoidGate(l)
  BY DEF RemoveGateEntry
<1>3. /\ patch' \in [Ops -> {"none", "gate", "principal"}]
      /\ \A x \in Ops : /\ patch[x] = "none" => patch'[x] = "none"
                        /\ patch'[x] = "principal" => patch[x] = "principal"
                        /\ patch'[x] = "gate" => patch[x] = "gate"
  <2>1. CASE patch' = patch
    BY <2>1 DEF TypeOK
  <2>2. CASE patch' = VoidGate(l)
    BY <1>1, <2>2, VoidFacts
  <2> QED
    BY <1>2, <2>1, <2>2
<1>4. \A m \in Leases : /\ Cardinality(gateE'[m]) \in Nat
                        /\ Cardinality(gateE[m]) \in Nat
                        /\ Cardinality(gateE'[m]) <= Cardinality(gateE[m])
  <2> SUFFICES ASSUME NEW m \in Leases
               PROVE  /\ Cardinality(gateE'[m]) \in Nat
                      /\ Cardinality(gateE[m]) \in Nat
                      /\ Cardinality(gateE'[m]) <= Cardinality(gateE[m])
    OBVIOUS
  <2>1. gateE[m] \in SUBSET Ops
    BY DEF TypeOK
  <2>2. gateE'[m] = gateE[m] \/ gateE'[m] = gateE[m] \ {o}
    BY <1>1 DEF TypeOK
  <2> QED
    BY <2>1, <2>2, EntryCounts
<1> QED
  BY <1>1, <1>3, <1>4 DEF TypeOK

LEMMA RemovePrincipalFacts ==
  ASSUME TypeOK, NEW o \in Ops, RemovePrincipalEntry(o)
  PROVE  /\ prinE' \in [Principals -> SUBSET Ops]
         /\ patch' \in [Ops -> {"none", "gate", "principal"}]
         /\ \A p \in Principals : /\ prinE'[p] \subseteq prinE[p]
                              /\ Cardinality(prinE'[p]) \in Nat
                              /\ Cardinality(prinE[p]) \in Nat
                              /\ Cardinality(prinE'[p]) <= Cardinality(prinE[p])
                              /\ \A x \in prinE[p] : x # o => x \in prinE'[p]
         /\ \A x \in Ops : /\ patch[x] = "none" => patch'[x] = "none"
                           /\ patch'[x] = "principal" => patch[x] = "principal"
                           /\ patch'[x] = "gate" => patch[x] = "gate"
<1> DEFINE p == PrincipalOf[o]
<1>1. p \in Principals /\ prinE' = [prinE EXCEPT ![p] = @ \ {o}] /\ prinE[p] \in SUBSET Ops
  BY OpsAssumption DEF TypeOK, RemovePrincipalEntry
<1>2. patch' = patch \/ patch' = VoidPrincipal(p)
  BY DEF RemovePrincipalEntry
<1>3. /\ patch' \in [Ops -> {"none", "gate", "principal"}]
      /\ \A x \in Ops : /\ patch[x] = "none" => patch'[x] = "none"
                        /\ patch'[x] = "principal" => patch[x] = "principal"
                        /\ patch'[x] = "gate" => patch[x] = "gate"
  <2>1. CASE patch' = patch
    BY <2>1 DEF TypeOK
  <2>2. CASE patch' = VoidPrincipal(p)
    BY <1>1, <2>2, VoidFacts
  <2> QED
    BY <1>2, <2>1, <2>2
<1>4. \A m \in Principals : /\ Cardinality(prinE'[m]) \in Nat
                        /\ Cardinality(prinE[m]) \in Nat
                        /\ Cardinality(prinE'[m]) <= Cardinality(prinE[m])
  <2> SUFFICES ASSUME NEW m \in Principals
               PROVE  /\ Cardinality(prinE'[m]) \in Nat
                      /\ Cardinality(prinE[m]) \in Nat
                      /\ Cardinality(prinE'[m]) <= Cardinality(prinE[m])
    OBVIOUS
  <2>1. prinE[m] \in SUBSET Ops
    BY DEF TypeOK
  <2>2. prinE'[m] = prinE[m] \/ prinE'[m] = prinE[m] \ {o}
    BY <1>1 DEF TypeOK
  <2> QED
    BY <2>1, <2>2, EntryCounts
<1> QED
  BY <1>1, <1>3, <1>4 DEF TypeOK

\* A gate PATCH that survives an entry's removal is on an unchanged gate.
LEMMA SurvivingPatches ==
  ASSUME TypeOK, NEW o \in Ops
  PROVE  /\ RemoveGateEntry(o) => \A x \in Ops : patch'[x] = "gate" =>
              gateE'[LeaseOf[x]] = gateE[LeaseOf[x]]
         /\ RemovePrincipalEntry(o) => \A x \in Ops : patch'[x] = "principal" =>
              prinE'[PrincipalOf[x]] = prinE[PrincipalOf[x]]
<1>1. ASSUME RemoveGateEntry(o), NEW x \in Ops, patch'[x] = "gate"
      PROVE  gateE'[LeaseOf[x]] = gateE[LeaseOf[x]]
  <2>1. CASE o \in gateE[LeaseOf[o]]
    <3>1. VoidGate(LeaseOf[o])[x] = "gate"
      BY <1>1, <2>1 DEF RemoveGateEntry
    <3>2. LeaseOf[x] # LeaseOf[o]
      BY <3>1, OpsAssumption, VoidFacts
    <3> QED
      BY <1>1, <3>2, OpsAssumption DEF RemoveGateEntry, TypeOK
  <2>2. CASE o \notin gateE[LeaseOf[o]]
    BY <1>1, <2>2, OpsAssumption DEF RemoveGateEntry, TypeOK
  <2> QED
    BY <2>1, <2>2
<1>2. ASSUME RemovePrincipalEntry(o), NEW x \in Ops, patch'[x] = "principal"
      PROVE  prinE'[PrincipalOf[x]] = prinE[PrincipalOf[x]]
  <2>1. CASE o \in prinE[PrincipalOf[o]]
    <3>1. VoidPrincipal(PrincipalOf[o])[x] = "principal"
      BY <1>2, <2>1 DEF RemovePrincipalEntry
    <3>2. PrincipalOf[x] # PrincipalOf[o]
      BY <3>1, OpsAssumption, VoidFacts
    <3> QED
      BY <1>2, <3>2, OpsAssumption DEF RemovePrincipalEntry, TypeOK
  <2>2. CASE o \notin prinE[PrincipalOf[o]]
    BY <1>2, <2>2, OpsAssumption DEF RemovePrincipalEntry, TypeOK
  <2> QED
    BY <2>1, <2>2
<1> QED
  BY <1>1, <1>2

\* A fresh gate has no entries and no PATCH in flight.
LEMMA PrepareOpenGateInv ==
  ASSUME LedgerInv, NEW l \in Leases, PrepareOpenGate(l)
  PROVE  LedgerInv'
<1> USE OpsAssumption, LimitAssumption DEF LedgerInv
<1>1. TypeOK'
  BY DEF PrepareOpenGate, LeaseUnch, TypeOK,
         Acquiring, Holding, Releasing, InProcess, PodStates, LeaseStates
<1>2. PatchCurrent'
  BY DEF PrepareOpenGate, LeaseUnch, PatchCurrent, TypeOK,
         Acquiring, Holding, Releasing, InProcess, PodStates, LeaseStates
<1>3. DrainedStays'
  BY DEF PrepareOpenGate, LeaseUnch, DrainedStays, TypeOK,
         Acquiring, Holding, Releasing, InProcess, PodStates, LeaseStates
<1>4. GateOutlivesLease'
  BY DEF PrepareOpenGate, LeaseUnch, GateOutlivesLease, TypeOK,
         Acquiring, Holding, Releasing, InProcess, PodStates, LeaseStates
<1>5. (OwnerServes /\ EntriesHeld /\ IdleUnregistered /\ WithinLimits /\ CleanersExact /\ NamesUnique)'
  BY DEF PrepareOpenGate, LeaseUnch, OwnerServes, EntriesHeld, IdleUnregistered, WithinLimits, CleanersExact, NamesUnique
<1> QED
  BY <1>1, <1>2, <1>3, <1>4, <1>5

LEMMA AdmitLeaseInv ==
  ASSUME LedgerInv, NEW l \in Leases, AdmitLease(l)
  PROVE  LedgerInv'
<1> USE OpsAssumption, LimitAssumption DEF LedgerInv
<1>1. TypeOK'
  BY DEF AdmitLease, LeaseUnch, ledgers, TypeOK,
         Acquiring, Holding, Releasing, InProcess, PodStates, LeaseStates
<1>2. GateOutlivesLease'
  BY DEF AdmitLease, LeaseUnch, ledgers, GateOutlivesLease, TypeOK,
         Acquiring, Holding, Releasing, InProcess, PodStates, LeaseStates
<1>3. (OwnerServes /\ EntriesHeld /\ IdleUnregistered /\ PatchCurrent /\ WithinLimits /\ CleanersExact /\ NamesUnique /\ DrainedStays)'
  BY DEF AdmitLease, LeaseUnch, ledgers, OwnerServes, EntriesHeld, IdleUnregistered, PatchCurrent, WithinLimits, CleanersExact, NamesUnique, DrainedStays
<1> QED
  BY <1>1, <1>2, <1>3

LEMMA AbandonAdmissionInv ==
  ASSUME LedgerInv, NEW l \in Leases, AbandonAdmission(l)
  PROVE  LedgerInv'
<1> USE OpsAssumption, LimitAssumption DEF LedgerInv
<1>1. TypeOK'
  BY DEF AbandonAdmission, LeaseUnch, ledgers, TypeOK,
         Acquiring, Holding, Releasing, InProcess, PodStates, LeaseStates
<1>2. GateOutlivesLease'
  BY DEF AbandonAdmission, LeaseUnch, ledgers, GateOutlivesLease, TypeOK,
         Acquiring, Holding, Releasing, InProcess, PodStates, LeaseStates
<1>3. (OwnerServes /\ EntriesHeld /\ IdleUnregistered /\ PatchCurrent /\ WithinLimits /\ CleanersExact /\ NamesUnique /\ DrainedStays)'
  BY DEF AbandonAdmission, LeaseUnch, ledgers, OwnerServes, EntriesHeld, IdleUnregistered, PatchCurrent, WithinLimits, CleanersExact, NamesUnique, DrainedStays
<1> QED
  BY <1>1, <1>2, <1>3

LEMMA RemovePreAdmissionGateInv ==
  ASSUME LedgerInv, NEW l \in Leases, RemovePreAdmissionGate(l)
  PROVE  LedgerInv'
<1> USE OpsAssumption, LimitAssumption, VoidFacts DEF LedgerInv
<1>1. TypeOK'
  BY DEF RemovePreAdmissionGate, LeaseUnch, DropGate, TypeOK,
         Acquiring, Holding, Releasing, InProcess, PodStates, LeaseStates
<1>2. IdleUnregistered'
  BY DEF RemovePreAdmissionGate, LeaseUnch, DropGate, IdleUnregistered, TypeOK,
         Acquiring, Holding, Releasing, InProcess, PodStates, LeaseStates
<1>3. PatchCurrent'
  BY DEF RemovePreAdmissionGate, LeaseUnch, DropGate, PatchCurrent, TypeOK,
         Acquiring, Holding, Releasing, InProcess, PodStates, LeaseStates
<1>4. DrainedStays'
  BY DEF RemovePreAdmissionGate, LeaseUnch, DropGate, DrainedStays, TypeOK,
         Acquiring, Holding, Releasing, InProcess, PodStates, LeaseStates
<1>5. GateOutlivesLease'
  BY DEF RemovePreAdmissionGate, LeaseUnch, DropGate, GateOutlivesLease, TypeOK,
         Acquiring, Holding, Releasing, InProcess, PodStates, LeaseStates
<1>6. (OwnerServes /\ EntriesHeld /\ WithinLimits /\ CleanersExact /\ NamesUnique)'
  BY DEF RemovePreAdmissionGate, LeaseUnch, DropGate, OwnerServes, EntriesHeld, WithinLimits, CleanersExact, NamesUnique
<1> QED
  BY <1>1, <1>2, <1>3, <1>4, <1>5, <1>6

LEMMA EndLeaseInv ==
  ASSUME LedgerInv, NEW l \in Leases, EndLease(l)
  PROVE  LedgerInv'
<1> USE OpsAssumption, LimitAssumption DEF LedgerInv
<1>1. TypeOK'
  BY DEF EndLease, LeaseUnch, ledgers, TypeOK,
         Acquiring, Holding, Releasing, InProcess, PodStates, LeaseStates
<1>2. GateOutlivesLease'
  BY DEF EndLease, LeaseUnch, ledgers, GateOutlivesLease, TypeOK,
         Acquiring, Holding, Releasing, InProcess, PodStates, LeaseStates
<1>3. (OwnerServes /\ EntriesHeld /\ IdleUnregistered /\ PatchCurrent /\ WithinLimits /\ CleanersExact /\ NamesUnique /\ DrainedStays)'
  BY DEF EndLease, LeaseUnch, ledgers, OwnerServes, EntriesHeld, IdleUnregistered, PatchCurrent, WithinLimits, CleanersExact, NamesUnique, DrainedStays
<1> QED
  BY <1>1, <1>2, <1>3

\* Closing voids every PATCH in flight on the gate.
LEMMA CloseGateInv ==
  ASSUME LedgerInv, NEW l \in Leases, CloseGate(l)
  PROVE  LedgerInv'
<1> USE OpsAssumption, LimitAssumption, VoidFacts DEF LedgerInv
<1>1. TypeOK'
  BY DEF CloseGate, LeaseUnch, TypeOK,
         Acquiring, Holding, Releasing, InProcess, PodStates, LeaseStates
<1>2. IdleUnregistered'
  BY DEF CloseGate, LeaseUnch, IdleUnregistered, TypeOK,
         Acquiring, Holding, Releasing, InProcess, PodStates, LeaseStates
<1>3. PatchCurrent'
  BY DEF CloseGate, LeaseUnch, PatchCurrent, TypeOK,
         Acquiring, Holding, Releasing, InProcess, PodStates, LeaseStates
<1>4. DrainedStays'
  BY DEF CloseGate, LeaseUnch, DrainedStays, TypeOK,
         Acquiring, Holding, Releasing, InProcess, PodStates, LeaseStates
<1>5. GateOutlivesLease'
  BY DEF CloseGate, LeaseUnch, GateOutlivesLease, TypeOK,
         Acquiring, Holding, Releasing, InProcess, PodStates, LeaseStates
<1>6. (OwnerServes /\ EntriesHeld /\ WithinLimits /\ CleanersExact /\ NamesUnique)'
  BY DEF CloseGate, LeaseUnch, OwnerServes, EntriesHeld, WithinLimits, CleanersExact, NamesUnique
<1> QED
  BY <1>1, <1>2, <1>3, <1>4, <1>5, <1>6

\* The barrier is recorded on a closed, empty gate.
LEMMA DrainedInv ==
  ASSUME LedgerInv, NEW l \in Leases, Drained(l)
  PROVE  LedgerInv'
<1> USE OpsAssumption, LimitAssumption DEF LedgerInv
<1>1. TypeOK'
  BY DEF Drained, ledgers, TypeOK,
         Acquiring, Holding, Releasing, InProcess, PodStates, LeaseStates
<1>2. DrainedStays'
  BY DEF Drained, ledgers, DrainedStays, TypeOK,
         Acquiring, Holding, Releasing, InProcess, PodStates, LeaseStates
<1>3. (OwnerServes /\ EntriesHeld /\ IdleUnregistered /\ PatchCurrent /\ WithinLimits /\ CleanersExact /\ NamesUnique /\ GateOutlivesLease)'
  BY DEF Drained, ledgers, OwnerServes, EntriesHeld, IdleUnregistered, PatchCurrent, WithinLimits, CleanersExact, NamesUnique, GateOutlivesLease
<1> QED
  BY <1>1, <1>2, <1>3

LEMMA FinishReleaseInv ==
  ASSUME LedgerInv, NEW l \in Leases, FinishRelease(l)
  PROVE  LedgerInv'
<1> USE OpsAssumption, LimitAssumption DEF LedgerInv
<1>1. TypeOK'
  BY DEF FinishRelease, LeaseUnch, ledgers, TypeOK,
         Acquiring, Holding, Releasing, InProcess, PodStates, LeaseStates
<1>2. GateOutlivesLease'
  BY DEF FinishRelease, LeaseUnch, ledgers, GateOutlivesLease, TypeOK,
         Acquiring, Holding, Releasing, InProcess, PodStates, LeaseStates
<1>3. (OwnerServes /\ EntriesHeld /\ IdleUnregistered /\ PatchCurrent /\ WithinLimits /\ CleanersExact /\ NamesUnique /\ DrainedStays)'
  BY DEF FinishRelease, LeaseUnch, ledgers, OwnerServes, EntriesHeld, IdleUnregistered, PatchCurrent, WithinLimits, CleanersExact, NamesUnique, DrainedStays
<1> QED
  BY <1>1, <1>2, <1>3

LEMMA DeleteLeaseInv ==
  ASSUME LedgerInv, NEW l \in Leases, DeleteLease(l)
  PROVE  LedgerInv'
<1> USE OpsAssumption, LimitAssumption DEF LedgerInv
<1>1. TypeOK'
  BY DEF DeleteLease, LeaseUnch, ledgers, TypeOK,
         Acquiring, Holding, Releasing, InProcess, PodStates, LeaseStates
<1>2. GateOutlivesLease'
  BY DEF DeleteLease, LeaseUnch, ledgers, GateOutlivesLease, TypeOK,
         Acquiring, Holding, Releasing, InProcess, PodStates, LeaseStates
<1>3. (OwnerServes /\ EntriesHeld /\ IdleUnregistered /\ PatchCurrent /\ WithinLimits /\ CleanersExact /\ NamesUnique /\ DrainedStays)'
  BY DEF DeleteLease, LeaseUnch, ledgers, OwnerServes, EntriesHeld, IdleUnregistered, PatchCurrent, WithinLimits, CleanersExact, NamesUnique, DrainedStays
<1> QED
  BY <1>1, <1>2, <1>3

LEMMA ReapGateInv ==
  ASSUME LedgerInv, NEW l \in Leases, ReapGate(l)
  PROVE  LedgerInv'
<1> USE OpsAssumption, LimitAssumption, VoidFacts DEF LedgerInv
<1>1. TypeOK'
  BY DEF ReapGate, LeaseUnch, DropGate, TypeOK,
         Acquiring, Holding, Releasing, InProcess, PodStates, LeaseStates
<1>2. IdleUnregistered'
  BY DEF ReapGate, LeaseUnch, DropGate, IdleUnregistered, TypeOK,
         Acquiring, Holding, Releasing, InProcess, PodStates, LeaseStates
<1>3. PatchCurrent'
  BY DEF ReapGate, LeaseUnch, DropGate, PatchCurrent, TypeOK,
         Acquiring, Holding, Releasing, InProcess, PodStates, LeaseStates
<1>4. DrainedStays'
  BY DEF ReapGate, LeaseUnch, DropGate, DrainedStays, TypeOK,
         Acquiring, Holding, Releasing, InProcess, PodStates, LeaseStates
<1>5. GateOutlivesLease'
  BY DEF ReapGate, LeaseUnch, DropGate, GateOutlivesLease, TypeOK,
         Acquiring, Holding, Releasing, InProcess, PodStates, LeaseStates
<1>6. (OwnerServes /\ EntriesHeld /\ WithinLimits /\ CleanersExact /\ NamesUnique)'
  BY DEF ReapGate, LeaseUnch, DropGate, OwnerServes, EntriesHeld, WithinLimits, CleanersExact, NamesUnique
<1> QED
  BY <1>1, <1>2, <1>3, <1>4, <1>5, <1>6

LEMMA BeginInv ==
  ASSUME LedgerInv, NEW o \in Ops, Begin(o)
  PROVE  LedgerInv'
<1> USE OpsAssumption, LimitAssumption DEF LedgerInv
<1>1. TypeOK'
  BY DEF Begin, OpUnch, OpRest, Goto, ledgers, TypeOK,
         Acquiring, Holding, Releasing, InProcess, PodStates, LeaseStates
<1>2. OwnerServes'
  BY DEF Begin, OpUnch, OpRest, Goto, ledgers, OwnerServes, TypeOK,
         Acquiring, Holding, Releasing, InProcess, PodStates, LeaseStates
<1>3. EntriesHeld'
  BY DEF Begin, OpUnch, OpRest, Goto, ledgers, EntriesHeld, TypeOK,
         Acquiring, Holding, Releasing, InProcess, PodStates, LeaseStates
<1>4. IdleUnregistered'
  BY DEF Begin, OpUnch, OpRest, Goto, ledgers, IdleUnregistered, TypeOK,
         Acquiring, Holding, Releasing, InProcess, PodStates, LeaseStates
<1>5. CleanersExact'
  BY DEF Begin, OpUnch, OpRest, Goto, ledgers, CleanersExact, TypeOK,
         Acquiring, Holding, Releasing, InProcess, PodStates, LeaseStates
<1>6. (PatchCurrent /\ WithinLimits /\ NamesUnique /\ DrainedStays /\ GateOutlivesLease)'
  BY DEF Begin, OpUnch, OpRest, Goto, ledgers, PatchCurrent, WithinLimits, NamesUnique, DrainedStays, GateOutlivesLease
<1> QED
  BY <1>1, <1>2, <1>3, <1>4, <1>5, <1>6

\* The PATCH is computed from the gate just read.
LEMMA SendGatePatchInv ==
  ASSUME LedgerInv, NEW o \in Ops, SendGatePatch(o)
  PROVE  LedgerInv'
<1> USE OpsAssumption, LimitAssumption DEF LedgerInv
<1>a. /\ pc' = [pc EXCEPT ![o] = "gatePatch"] \/ pc' = [pc EXCEPT ![o] = "done"]
      /\ patch' = patch \/ patch' = [patch EXCEPT ![o] = "gate"]
      /\ pc[o] = "want"
      /\ UNCHANGED <<lease, gate, gateE, ledger, prinE, cancelled, pod, boot, listed, seen, cleaned, drained, late>>
  BY DEF SendGatePatch, Goto, OpUnch, OpRest
<1>1. TypeOK'
  BY <1>a DEF TypeOK,
         Acquiring, Holding, Releasing, InProcess, PodStates, LeaseStates
<1>2. OwnerServes'
  BY DEF SendGatePatch, OpUnch, OpRest, Goto, OwnerServes, TypeOK,
         Acquiring, Holding, Releasing, InProcess, PodStates, LeaseStates
<1>3. EntriesHeld'
  BY DEF SendGatePatch, OpUnch, OpRest, Goto, EntriesHeld, TypeOK,
         Acquiring, Holding, Releasing, InProcess, PodStates, LeaseStates
<1>4. IdleUnregistered'
  BY DEF SendGatePatch, OpUnch, OpRest, Goto, IdleUnregistered, TypeOK,
         Acquiring, Holding, Releasing, InProcess, PodStates, LeaseStates
<1>5. PatchCurrent'
  BY DEF SendGatePatch, OpUnch, OpRest, Goto, PatchCurrent, TypeOK,
         Acquiring, Holding, Releasing, InProcess, PodStates, LeaseStates
<1>6. CleanersExact'
  BY <1>a DEF CleanersExact, TypeOK,
         Acquiring, Holding, Releasing, InProcess, PodStates, LeaseStates
<1>7. (WithinLimits /\ NamesUnique /\ DrainedStays /\ GateOutlivesLease)'
  BY DEF SendGatePatch, OpUnch, OpRest, Goto, WithinLimits, NamesUnique, DrainedStays, GateOutlivesLease
<1> QED
  BY <1>1, <1>2, <1>3, <1>4, <1>5, <1>6, <1>7

LEMMA SendPrincipalPatchInv ==
  ASSUME LedgerInv, NEW o \in Ops, SendPrincipalPatch(o)
  PROVE  LedgerInv'
<1> USE OpsAssumption, LimitAssumption DEF LedgerInv
<1>a. /\ pc' = [pc EXCEPT ![o] = "prinPatch"] \/ pc' = [pc EXCEPT ![o] = "relGate"]
      /\ patch' = patch \/ patch' = [patch EXCEPT ![o] = "principal"]
      /\ pc[o] = "gateHeld" /\ ledger' = [ledger EXCEPT ![PrincipalOf[o]] = TRUE]
      /\ UNCHANGED <<lease, gate, gateE, prinE, cancelled, pod, boot, listed, seen, cleaned, drained, late>>
  BY DEF SendPrincipalPatch, Goto, OpUnch, OpRest
<1>1. TypeOK'
  BY <1>a DEF TypeOK,
         Acquiring, Holding, Releasing, InProcess, PodStates, LeaseStates
<1>2. OwnerServes'
  BY DEF SendPrincipalPatch, OpUnch, OpRest, Goto, OwnerServes, TypeOK,
         Acquiring, Holding, Releasing, InProcess, PodStates, LeaseStates
<1>3. EntriesHeld'
  BY DEF SendPrincipalPatch, OpUnch, OpRest, Goto, EntriesHeld, TypeOK,
         Acquiring, Holding, Releasing, InProcess, PodStates, LeaseStates
<1>4. IdleUnregistered'
  BY DEF SendPrincipalPatch, OpUnch, OpRest, Goto, IdleUnregistered, TypeOK,
         Acquiring, Holding, Releasing, InProcess, PodStates, LeaseStates
<1>5. PatchCurrent'
  BY DEF SendPrincipalPatch, OpUnch, OpRest, Goto, PatchCurrent, TypeOK,
         Acquiring, Holding, Releasing, InProcess, PodStates, LeaseStates
<1>6. CleanersExact'
  BY <1>a DEF CleanersExact, TypeOK,
         Acquiring, Holding, Releasing, InProcess, PodStates, LeaseStates
<1>7. (WithinLimits /\ NamesUnique /\ DrainedStays /\ GateOutlivesLease)'
  BY DEF SendPrincipalPatch, OpUnch, OpRest, Goto, WithinLimits, NamesUnique, DrainedStays, GateOutlivesLease
<1> QED
  BY <1>1, <1>2, <1>3, <1>4, <1>5, <1>6, <1>7

\* A PATCH that still applies was counted on the current entries, its gate is
\* open and its operation has begun.
LEMMA CommitGateInv ==
  ASSUME LedgerInv, NEW o \in Ops, CommitPatch(o), patch[o] = "gate"
  PROVE  LedgerInv'
<1> USE OpsAssumption, LimitAssumption DEF LedgerInv
<1> DEFINE m == LeaseOf[o]
<1>1. /\ m \in Leases /\ gateE[m] \in SUBSET Ops
      /\ gateE' = [gateE EXCEPT ![m] = @ \cup {o}]
      /\ patch' = VoidGate(m)
      /\ UNCHANGED <<lease, gate, ledger, prinE, pc, cancelled, pod, boot, listed, seen, cleaned, drained>>
      /\ late' \in SUBSET Ops
  BY DEF CommitPatch, OpRest, TypeOK
<1>2. pc[o] # "idle" /\ gate[m] = "open" /\ Cardinality(gateE[m]) < StreamsPerLease
  BY DEF IdleUnregistered, PatchCurrent
<1>3. /\ Cardinality(gateE[m]) \in Nat /\ Cardinality(gateE[m] \cup {o}) \in Nat
      /\ Cardinality(gateE[m] \cup {o}) <= Cardinality(gateE[m]) + 1
  BY <1>1, EntryCounts
<1>4. TypeOK'
  BY <1>1, VoidFacts DEF TypeOK
<1>5. (OwnerServes /\ CleanersExact /\ NamesUnique /\ GateOutlivesLease)'
  BY <1>1 DEF OwnerServes, CleanersExact, NamesUnique, GateOutlivesLease
<1>6. EntriesHeld'
  BY <1>1 DEF EntriesHeld, TypeOK
<1>7. IdleUnregistered'
  BY <1>1, <1>2, VoidFacts DEF IdleUnregistered, TypeOK
<1>8. PatchCurrent'
  BY <1>1, VoidFacts DEF PatchCurrent, TypeOK
<1>9. WithinLimits'
  BY <1>1, <1>2, <1>3 DEF WithinLimits, TypeOK
<1>10. DrainedStays'
  BY <1>1, <1>2 DEF DrainedStays, TypeOK
<1> QED
  BY <1>4, <1>5, <1>6, <1>7, <1>8, <1>9, <1>10

LEMMA CommitPrincipalInv ==
  ASSUME LedgerInv, NEW o \in Ops, CommitPatch(o), patch[o] = "principal"
  PROVE  LedgerInv'
<1> USE OpsAssumption, LimitAssumption DEF LedgerInv
<1> DEFINE m == PrincipalOf[o]
<1>1. /\ m \in Principals /\ prinE[m] \in SUBSET Ops
      /\ prinE' = [prinE EXCEPT ![m] = @ \cup {o}]
      /\ patch' = VoidPrincipal(m)
      /\ UNCHANGED <<lease, gate, ledger, gateE, pc, cancelled, pod, boot, listed, seen, cleaned, drained>>
      /\ late' \in SUBSET Ops
  BY DEF CommitPatch, OpRest, TypeOK
<1>2. pc[o] # "idle" /\ Cardinality(prinE[m]) < StreamsPerPrincipal
  BY DEF IdleUnregistered, PatchCurrent
<1>3. /\ Cardinality(prinE[m]) \in Nat /\ Cardinality(prinE[m] \cup {o}) \in Nat
      /\ Cardinality(prinE[m] \cup {o}) <= Cardinality(prinE[m]) + 1
  BY <1>1, EntryCounts
<1>4. TypeOK'
  BY <1>1, VoidFacts DEF TypeOK
<1>5. (OwnerServes /\ CleanersExact /\ NamesUnique /\ DrainedStays /\ GateOutlivesLease)'
  BY <1>1 DEF OwnerServes, CleanersExact, NamesUnique, DrainedStays, GateOutlivesLease
<1>6. EntriesHeld'
  BY <1>1 DEF EntriesHeld, TypeOK
<1>7. IdleUnregistered'
  BY <1>1, <1>2, VoidFacts DEF IdleUnregistered, TypeOK
<1>8. PatchCurrent'
  BY <1>1, VoidFacts DEF PatchCurrent, TypeOK
<1>9. WithinLimits'
  BY <1>1, <1>2, <1>3 DEF WithinLimits, TypeOK
<1> QED
  BY <1>4, <1>5, <1>6, <1>7, <1>8, <1>9

LEMMA LosePatchInv ==
  ASSUME LedgerInv, NEW o \in Ops, LosePatch(o)
  PROVE  LedgerInv'
<1> USE OpsAssumption, LimitAssumption DEF LedgerInv
<1>a. /\ pc' = pc \/ (pc' = [pc EXCEPT ![o] = "settling"] /\ pc[o] \in {"gatePatch", "prinPatch"})
      /\ patch' = [patch EXCEPT ![o] = "none"]
      /\ UNCHANGED <<lease, gate, gateE, ledger, prinE, cancelled, pod, boot, listed, seen, cleaned, drained, late>>
  BY DEF LosePatch, Goto, OpUnch, OpRest
<1>1. TypeOK'
  BY <1>a DEF TypeOK,
         Acquiring, Holding, Releasing, InProcess, PodStates, LeaseStates
<1>2. OwnerServes'
  BY DEF LosePatch, OpUnch, OpRest, Goto, OwnerServes, TypeOK,
         Acquiring, Holding, Releasing, InProcess, PodStates, LeaseStates
<1>3. EntriesHeld'
  BY DEF LosePatch, OpUnch, OpRest, Goto, EntriesHeld, TypeOK,
         Acquiring, Holding, Releasing, InProcess, PodStates, LeaseStates
<1>4. IdleUnregistered'
  BY DEF LosePatch, OpUnch, OpRest, Goto, IdleUnregistered, TypeOK,
         Acquiring, Holding, Releasing, InProcess, PodStates, LeaseStates
<1>5. PatchCurrent'
  BY DEF LosePatch, OpUnch, OpRest, Goto, PatchCurrent, TypeOK,
         Acquiring, Holding, Releasing, InProcess, PodStates, LeaseStates
<1>6. CleanersExact'
  BY <1>a DEF CleanersExact, TypeOK,
         Acquiring, Holding, Releasing, InProcess, PodStates, LeaseStates
<1>7. (WithinLimits /\ NamesUnique /\ DrainedStays /\ GateOutlivesLease)'
  BY DEF LosePatch, OpUnch, OpRest, Goto, WithinLimits, NamesUnique, DrainedStays, GateOutlivesLease
<1> QED
  BY <1>1, <1>2, <1>3, <1>4, <1>5, <1>6, <1>7

LEMMA GateReplyInv ==
  ASSUME LedgerInv, NEW o \in Ops, GateReply(o)
  PROVE  LedgerInv'
<1> USE OpsAssumption, LimitAssumption DEF LedgerInv
<1>1. TypeOK'
  BY DEF GateReply, OpUnch, OpRest, Goto, ledgers, TypeOK,
         Acquiring, Holding, Releasing, InProcess, PodStates, LeaseStates
<1>2. OwnerServes'
  BY DEF GateReply, OpUnch, OpRest, Goto, ledgers, OwnerServes, TypeOK,
         Acquiring, Holding, Releasing, InProcess, PodStates, LeaseStates
<1>3. EntriesHeld'
  BY DEF GateReply, OpUnch, OpRest, Goto, ledgers, EntriesHeld, TypeOK,
         Acquiring, Holding, Releasing, InProcess, PodStates, LeaseStates
<1>4. IdleUnregistered'
  BY DEF GateReply, OpUnch, OpRest, Goto, ledgers, IdleUnregistered, TypeOK,
         Acquiring, Holding, Releasing, InProcess, PodStates, LeaseStates
<1>5. CleanersExact'
  BY DEF GateReply, OpUnch, OpRest, Goto, ledgers, CleanersExact, TypeOK,
         Acquiring, Holding, Releasing, InProcess, PodStates, LeaseStates
<1>6. (PatchCurrent /\ WithinLimits /\ NamesUnique /\ DrainedStays /\ GateOutlivesLease)'
  BY DEF GateReply, OpUnch, OpRest, Goto, ledgers, PatchCurrent, WithinLimits, NamesUnique, DrainedStays, GateOutlivesLease
<1> QED
  BY <1>1, <1>2, <1>3, <1>4, <1>5, <1>6

LEMMA PrincipalReplyInv ==
  ASSUME LedgerInv, NEW o \in Ops, PrincipalReply(o)
  PROVE  LedgerInv'
<1> USE OpsAssumption, LimitAssumption DEF LedgerInv
<1>1. TypeOK'
  BY DEF PrincipalReply, OpUnch, OpRest, Goto, ledgers, TypeOK,
         Acquiring, Holding, Releasing, InProcess, PodStates, LeaseStates
<1>2. OwnerServes'
  BY DEF PrincipalReply, OpUnch, OpRest, Goto, ledgers, OwnerServes, TypeOK,
         Acquiring, Holding, Releasing, InProcess, PodStates, LeaseStates
<1>3. EntriesHeld'
  BY DEF PrincipalReply, OpUnch, OpRest, Goto, ledgers, EntriesHeld, TypeOK,
         Acquiring, Holding, Releasing, InProcess, PodStates, LeaseStates
<1>4. IdleUnregistered'
  BY DEF PrincipalReply, OpUnch, OpRest, Goto, ledgers, IdleUnregistered, TypeOK,
         Acquiring, Holding, Releasing, InProcess, PodStates, LeaseStates
<1>5. CleanersExact'
  BY DEF PrincipalReply, OpUnch, OpRest, Goto, ledgers, CleanersExact, TypeOK,
         Acquiring, Holding, Releasing, InProcess, PodStates, LeaseStates
<1>6. (PatchCurrent /\ WithinLimits /\ NamesUnique /\ DrainedStays /\ GateOutlivesLease)'
  BY DEF PrincipalReply, OpUnch, OpRest, Goto, ledgers, PatchCurrent, WithinLimits, NamesUnique, DrainedStays, GateOutlivesLease
<1> QED
  BY <1>1, <1>2, <1>3, <1>4, <1>5, <1>6

LEMMA RegisterInv ==
  ASSUME LedgerInv, NEW o \in Ops, Register(o)
  PROVE  LedgerInv'
<1> USE OpsAssumption, LimitAssumption DEF LedgerInv
<1>1. TypeOK'
  BY DEF Register, OpUnch, OpRest, Goto, ledgers, TypeOK,
         Acquiring, Holding, Releasing, InProcess, PodStates, LeaseStates
<1>2. OwnerServes'
  BY DEF Register, OpUnch, OpRest, Goto, ledgers, OwnerServes, TypeOK,
         Acquiring, Holding, Releasing, InProcess, PodStates, LeaseStates
<1>3. EntriesHeld'
  BY DEF Register, OpUnch, OpRest, Goto, ledgers, EntriesHeld, TypeOK,
         Acquiring, Holding, Releasing, InProcess, PodStates, LeaseStates
<1>4. IdleUnregistered'
  BY DEF Register, OpUnch, OpRest, Goto, ledgers, IdleUnregistered, TypeOK,
         Acquiring, Holding, Releasing, InProcess, PodStates, LeaseStates
<1>5. CleanersExact'
  BY DEF Register, OpUnch, OpRest, Goto, ledgers, CleanersExact, TypeOK,
         Acquiring, Holding, Releasing, InProcess, PodStates, LeaseStates
<1>6. (PatchCurrent /\ WithinLimits /\ NamesUnique /\ DrainedStays /\ GateOutlivesLease)'
  BY DEF Register, OpUnch, OpRest, Goto, ledgers, PatchCurrent, WithinLimits, NamesUnique, DrainedStays, GateOutlivesLease
<1> QED
  BY <1>1, <1>2, <1>3, <1>4, <1>5, <1>6

LEMMA ConfirmInv ==
  ASSUME LedgerInv, NEW o \in Ops, Confirm(o)
  PROVE  LedgerInv'
<1> USE OpsAssumption, LimitAssumption DEF LedgerInv
<1>1. TypeOK'
  BY DEF Confirm, OpUnch, OpRest, Goto, ledgers, TypeOK,
         Acquiring, Holding, Releasing, InProcess, PodStates, LeaseStates
<1>2. OwnerServes'
  BY DEF Confirm, OpUnch, OpRest, Goto, ledgers, OwnerServes, TypeOK,
         Acquiring, Holding, Releasing, InProcess, PodStates, LeaseStates
<1>3. EntriesHeld'
  BY DEF Confirm, OpUnch, OpRest, Goto, ledgers, EntriesHeld, TypeOK,
         Acquiring, Holding, Releasing, InProcess, PodStates, LeaseStates
<1>4. IdleUnregistered'
  BY DEF Confirm, OpUnch, OpRest, Goto, ledgers, IdleUnregistered, TypeOK,
         Acquiring, Holding, Releasing, InProcess, PodStates, LeaseStates
<1>5. CleanersExact'
  BY DEF Confirm, OpUnch, OpRest, Goto, ledgers, CleanersExact, TypeOK,
         Acquiring, Holding, Releasing, InProcess, PodStates, LeaseStates
<1>6. (PatchCurrent /\ WithinLimits /\ NamesUnique /\ DrainedStays /\ GateOutlivesLease)'
  BY DEF Confirm, OpUnch, OpRest, Goto, ledgers, PatchCurrent, WithinLimits, NamesUnique, DrainedStays, GateOutlivesLease
<1> QED
  BY <1>1, <1>2, <1>3, <1>4, <1>5, <1>6

LEMMA DropInv ==
  ASSUME LedgerInv, NEW o \in Ops, Drop(o)
  PROVE  LedgerInv'
<1> USE OpsAssumption, LimitAssumption DEF LedgerInv
<1>1. TypeOK'
  BY DEF Drop, OpUnch, OpRest, Goto, ledgers, TypeOK,
         Acquiring, Holding, Releasing, InProcess, PodStates, LeaseStates
<1>2. OwnerServes'
  BY DEF Drop, OpUnch, OpRest, Goto, ledgers, OwnerServes, TypeOK,
         Acquiring, Holding, Releasing, InProcess, PodStates, LeaseStates
<1>3. EntriesHeld'
  BY DEF Drop, OpUnch, OpRest, Goto, ledgers, EntriesHeld, TypeOK,
         Acquiring, Holding, Releasing, InProcess, PodStates, LeaseStates
<1>4. IdleUnregistered'
  BY DEF Drop, OpUnch, OpRest, Goto, ledgers, IdleUnregistered, TypeOK,
         Acquiring, Holding, Releasing, InProcess, PodStates, LeaseStates
<1>5. CleanersExact'
  BY DEF Drop, OpUnch, OpRest, Goto, ledgers, CleanersExact, TypeOK,
         Acquiring, Holding, Releasing, InProcess, PodStates, LeaseStates
<1>6. (PatchCurrent /\ WithinLimits /\ NamesUnique /\ DrainedStays /\ GateOutlivesLease)'
  BY DEF Drop, OpUnch, OpRest, Goto, ledgers, PatchCurrent, WithinLimits, NamesUnique, DrainedStays, GateOutlivesLease
<1> QED
  BY <1>1, <1>2, <1>3, <1>4, <1>5, <1>6

LEMMA SettleInv ==
  ASSUME LedgerInv, NEW o \in Ops, Settle(o)
  PROVE  LedgerInv'
<1> USE OpsAssumption, LimitAssumption DEF LedgerInv
<1>1. TypeOK'
  BY DEF Settle, OpUnch, OpRest, Goto, ledgers, TypeOK,
         Acquiring, Holding, Releasing, InProcess, PodStates, LeaseStates
<1>2. OwnerServes'
  BY DEF Settle, OpUnch, OpRest, Goto, ledgers, OwnerServes, TypeOK,
         Acquiring, Holding, Releasing, InProcess, PodStates, LeaseStates
<1>3. EntriesHeld'
  BY DEF Settle, OpUnch, OpRest, Goto, ledgers, EntriesHeld, TypeOK,
         Acquiring, Holding, Releasing, InProcess, PodStates, LeaseStates
<1>4. IdleUnregistered'
  BY DEF Settle, OpUnch, OpRest, Goto, ledgers, IdleUnregistered, TypeOK,
         Acquiring, Holding, Releasing, InProcess, PodStates, LeaseStates
<1>5. CleanersExact'
  BY DEF Settle, OpUnch, OpRest, Goto, ledgers, CleanersExact, TypeOK,
         Acquiring, Holding, Releasing, InProcess, PodStates, LeaseStates
<1>6. (PatchCurrent /\ WithinLimits /\ NamesUnique /\ DrainedStays /\ GateOutlivesLease)'
  BY DEF Settle, OpUnch, OpRest, Goto, ledgers, PatchCurrent, WithinLimits, NamesUnique, DrainedStays, GateOutlivesLease
<1> QED
  BY <1>1, <1>2, <1>3, <1>4, <1>5, <1>6

LEMMA ReleasePrincipalInv ==
  ASSUME LedgerInv, NEW o \in Ops, ReleasePrincipal(o)
  PROVE  LedgerInv'
<1> USE OpsAssumption, LimitAssumption DEF LedgerInv
<1>r. RemovePrincipalEntry(o)
  BY DEF ReleasePrincipal
<1>f. \A x \in Ops :
        /\ patch[x] = "none" => patch'[x] = "none"
        /\ x \in prinE'[PrincipalOf[x]] => x \in prinE[PrincipalOf[x]]
        /\ x # o /\ x \in prinE[PrincipalOf[x]] => x \in prinE'[PrincipalOf[x]]
  BY <1>r, RemovePrincipalFacts
<1>g. /\ gateE' = gateE /\ pc[o] = "relPrincipal" /\ pc'[o] = "relGate"
      /\ \A x \in Ops : x # o => pc'[x] = pc[x]
  BY DEF ReleasePrincipal, Goto, OpUnch, OpRest, TypeOK
<1>1. TypeOK'
  BY <1>r, RemovePrincipalFacts, SurvivingPatches DEF ReleasePrincipal, OpUnch, OpRest, Goto, TypeOK,
         Acquiring, Holding, Releasing, InProcess, PodStates, LeaseStates
<1>2. OwnerServes'
  BY <1>r, RemovePrincipalFacts, SurvivingPatches DEF ReleasePrincipal, OpUnch, OpRest, Goto, OwnerServes, TypeOK,
         Acquiring, Holding, Releasing, InProcess, PodStates, LeaseStates
<1>3. EntriesHeld'
  BY <1>f, <1>g DEF EntriesHeld, TypeOK,
         Acquiring, Holding, Releasing, InProcess, PodStates, LeaseStates
<1>4. IdleUnregistered'
  BY <1>f, <1>g DEF IdleUnregistered, TypeOK,
         Acquiring, Holding, Releasing, InProcess, PodStates, LeaseStates
<1>5. PatchCurrent'
  BY <1>r, RemovePrincipalFacts, SurvivingPatches DEF ReleasePrincipal, OpUnch, OpRest, Goto, PatchCurrent, TypeOK,
         Acquiring, Holding, Releasing, InProcess, PodStates, LeaseStates
<1>6. WithinLimits'
  BY <1>r, RemovePrincipalFacts, SurvivingPatches DEF ReleasePrincipal, OpUnch, OpRest, Goto, WithinLimits, TypeOK,
         Acquiring, Holding, Releasing, InProcess, PodStates, LeaseStates
<1>7. CleanersExact'
  BY <1>r, RemovePrincipalFacts, SurvivingPatches DEF ReleasePrincipal, OpUnch, OpRest, Goto, CleanersExact, TypeOK,
         Acquiring, Holding, Releasing, InProcess, PodStates, LeaseStates
<1>8. (NamesUnique /\ DrainedStays /\ GateOutlivesLease)'
  BY DEF ReleasePrincipal, OpUnch, OpRest, Goto, NamesUnique, DrainedStays, GateOutlivesLease
<1> QED
  BY <1>1, <1>2, <1>3, <1>4, <1>5, <1>6, <1>7, <1>8

LEMMA ReleaseGateInv ==
  ASSUME LedgerInv, NEW o \in Ops, ReleaseGate(o)
  PROVE  LedgerInv'
<1> USE OpsAssumption, LimitAssumption DEF LedgerInv
<1>r. RemoveGateEntry(o)
  BY DEF ReleaseGate
<1>f. \A x \in Ops :
        /\ patch[x] = "none" => patch'[x] = "none"
        /\ x \in gateE'[LeaseOf[x]] => x \in gateE[LeaseOf[x]]
        /\ x # o /\ x \in gateE[LeaseOf[x]] => x \in gateE'[LeaseOf[x]]
  BY <1>r, RemoveGateFacts
<1>g. /\ prinE' = prinE /\ pc[o] = "relGate" /\ pc'[o] = "done"
      /\ \A x \in Ops : x # o => pc'[x] = pc[x]
  BY DEF ReleaseGate, Goto, OpUnch, OpRest, TypeOK
<1>1. TypeOK'
  BY <1>r, RemoveGateFacts, SurvivingPatches DEF ReleaseGate, OpUnch, OpRest, Goto, TypeOK,
         Acquiring, Holding, Releasing, InProcess, PodStates, LeaseStates
<1>2. OwnerServes'
  BY <1>r, RemoveGateFacts, SurvivingPatches DEF ReleaseGate, OpUnch, OpRest, Goto, OwnerServes, TypeOK,
         Acquiring, Holding, Releasing, InProcess, PodStates, LeaseStates
<1>3. EntriesHeld'
  BY <1>f, <1>g DEF EntriesHeld, TypeOK,
         Acquiring, Holding, Releasing, InProcess, PodStates, LeaseStates
<1>4. IdleUnregistered'
  BY <1>f, <1>g DEF IdleUnregistered, TypeOK,
         Acquiring, Holding, Releasing, InProcess, PodStates, LeaseStates
<1>5. PatchCurrent'
  BY <1>r, RemoveGateFacts, SurvivingPatches DEF ReleaseGate, OpUnch, OpRest, Goto, PatchCurrent, TypeOK,
         Acquiring, Holding, Releasing, InProcess, PodStates, LeaseStates
<1>6. WithinLimits'
  BY <1>r, RemoveGateFacts, SurvivingPatches DEF ReleaseGate, OpUnch, OpRest, Goto, WithinLimits, TypeOK,
         Acquiring, Holding, Releasing, InProcess, PodStates, LeaseStates
<1>7. CleanersExact'
  BY <1>r, RemoveGateFacts, SurvivingPatches DEF ReleaseGate, OpUnch, OpRest, Goto, CleanersExact, TypeOK,
         Acquiring, Holding, Releasing, InProcess, PodStates, LeaseStates
<1>8. DrainedStays'
  BY <1>r, RemoveGateFacts, SurvivingPatches DEF ReleaseGate, OpUnch, OpRest, Goto, DrainedStays, TypeOK,
         Acquiring, Holding, Releasing, InProcess, PodStates, LeaseStates
<1>9. (NamesUnique /\ GateOutlivesLease)'
  BY DEF ReleaseGate, OpUnch, OpRest, Goto, NamesUnique, GateOutlivesLease
<1> QED
  BY <1>1, <1>2, <1>3, <1>4, <1>5, <1>6, <1>7, <1>8, <1>9

\* The entry's operation is over: its Pod is gone, or it is of an earlier process.
LEMMA CleanPrincipalInv ==
  ASSUME LedgerInv, NEW o \in Ops, CleanPrincipal(o)
  PROVE  LedgerInv'
<1> USE OpsAssumption, LimitAssumption, VoidFacts DEF LedgerInv
<1>a. pc[o] \in {"done", "dead"}
  <2>1. CASE ReplicaGone(o)
    BY <2>1 DEF CleanPrincipal, ReplicaGone, OwnerServes, IdleUnregistered, TypeOK, InProcess
  <2>2. CASE \E q \in Pods : pod[q] = "starting" /\ o \in listed[q]
    BY <2>2 DEF CleanersExact
  <2> QED
    BY <2>1, <2>2 DEF CleanPrincipal, Dead
<1>r. RemovePrincipalEntry(o)
  BY DEF CleanPrincipal
<1>1. TypeOK'
  BY <1>a, <1>r, RemovePrincipalFacts, SurvivingPatches DEF CleanPrincipal, CleanUnch, Dead, ReplicaGone, TypeOK,
         Acquiring, Holding, Releasing, InProcess, PodStates, LeaseStates
<1>2. EntriesHeld'
  BY <1>a, <1>r, RemovePrincipalFacts, SurvivingPatches DEF CleanPrincipal, CleanUnch, Dead, ReplicaGone, EntriesHeld, TypeOK,
         Acquiring, Holding, Releasing, InProcess, PodStates, LeaseStates
<1>3. IdleUnregistered'
  BY <1>a, <1>r, RemovePrincipalFacts, SurvivingPatches DEF CleanPrincipal, CleanUnch, Dead, ReplicaGone, IdleUnregistered, TypeOK,
         Acquiring, Holding, Releasing, InProcess, PodStates, LeaseStates
<1>4. PatchCurrent'
  BY <1>a, <1>r, RemovePrincipalFacts, SurvivingPatches DEF CleanPrincipal, CleanUnch, Dead, ReplicaGone, PatchCurrent, TypeOK,
         Acquiring, Holding, Releasing, InProcess, PodStates, LeaseStates
<1>5. WithinLimits'
  BY <1>a, <1>r, RemovePrincipalFacts, SurvivingPatches DEF CleanPrincipal, CleanUnch, Dead, ReplicaGone, WithinLimits, TypeOK,
         Acquiring, Holding, Releasing, InProcess, PodStates, LeaseStates
<1>6. CleanersExact'
  BY <1>a, <1>r, RemovePrincipalFacts, SurvivingPatches DEF CleanPrincipal, CleanUnch, Dead, ReplicaGone, CleanersExact, TypeOK,
         Acquiring, Holding, Releasing, InProcess, PodStates, LeaseStates
<1>7. (OwnerServes /\ NamesUnique /\ DrainedStays /\ GateOutlivesLease)'
  BY DEF CleanPrincipal, CleanUnch, Dead, ReplicaGone, OwnerServes, NamesUnique, DrainedStays, GateOutlivesLease
<1> QED
  BY <1>1, <1>2, <1>3, <1>4, <1>5, <1>6, <1>7

LEMMA CleanGateInv ==
  ASSUME LedgerInv, NEW o \in Ops, CleanGate(o)
  PROVE  LedgerInv'
<1> USE OpsAssumption, LimitAssumption, VoidFacts DEF LedgerInv
<1>a. pc[o] \in {"done", "dead"}
  BY DEF CleanGate, CleanersExact
<1>r. RemoveGateEntry(o)
  BY DEF CleanGate
<1>1. TypeOK'
  BY <1>a, <1>r, RemoveGateFacts, SurvivingPatches DEF CleanGate, CleanUnch, TypeOK,
         Acquiring, Holding, Releasing, InProcess, PodStates, LeaseStates
<1>2. EntriesHeld'
  BY <1>a, <1>r, RemoveGateFacts, SurvivingPatches DEF CleanGate, CleanUnch, EntriesHeld, TypeOK,
         Acquiring, Holding, Releasing, InProcess, PodStates, LeaseStates
<1>3. IdleUnregistered'
  BY <1>a, <1>r, RemoveGateFacts, SurvivingPatches DEF CleanGate, CleanUnch, IdleUnregistered, TypeOK,
         Acquiring, Holding, Releasing, InProcess, PodStates, LeaseStates
<1>4. PatchCurrent'
  BY <1>a, <1>r, RemoveGateFacts, SurvivingPatches DEF CleanGate, CleanUnch, PatchCurrent, TypeOK,
         Acquiring, Holding, Releasing, InProcess, PodStates, LeaseStates
<1>5. WithinLimits'
  BY <1>a, <1>r, RemoveGateFacts, SurvivingPatches DEF CleanGate, CleanUnch, WithinLimits, TypeOK,
         Acquiring, Holding, Releasing, InProcess, PodStates, LeaseStates
<1>6. CleanersExact'
  BY <1>a, <1>r, RemoveGateFacts, SurvivingPatches DEF CleanGate, CleanUnch, CleanersExact, TypeOK,
         Acquiring, Holding, Releasing, InProcess, PodStates, LeaseStates
<1>7. DrainedStays'
  BY <1>a, <1>r, RemoveGateFacts, SurvivingPatches DEF CleanGate, CleanUnch, DrainedStays, TypeOK,
         Acquiring, Holding, Releasing, InProcess, PodStates, LeaseStates
<1>8. (OwnerServes /\ NamesUnique /\ GateOutlivesLease)'
  BY DEF CleanGate, CleanUnch, OwnerServes, NamesUnique, GateOutlivesLease
<1> QED
  BY <1>1, <1>2, <1>3, <1>4, <1>5, <1>6, <1>7, <1>8

LEMMA ReapUnpairedInv ==
  ASSUME LedgerInv, NEW o \in Ops, ReapUnpaired(o)
  PROVE  LedgerInv'
<1> USE OpsAssumption, LimitAssumption, VoidFacts DEF LedgerInv
<1>a. pc[o] \in {"done", "dead"}
  <2>1. o \in prinE[PrincipalOf[o]] /\ pod[PodOf[o]] = "gone"
    BY DEF ReapUnpaired, ReplicaGone
  <2>2. pc[o] \notin InProcess /\ pc[o] # "idle"
    BY <2>1 DEF OwnerServes, IdleUnregistered
  <2> QED
    BY <2>2 DEF TypeOK
<1>r. RemovePrincipalEntry(o)
  BY DEF ReapUnpaired
<1>1. TypeOK'
  BY <1>a, <1>r, RemovePrincipalFacts, SurvivingPatches DEF ReapUnpaired, CleanUnch, ReplicaGone, TypeOK,
         Acquiring, Holding, Releasing, InProcess, PodStates, LeaseStates
<1>2. EntriesHeld'
  BY <1>a, <1>r, RemovePrincipalFacts, SurvivingPatches DEF ReapUnpaired, CleanUnch, ReplicaGone, EntriesHeld, TypeOK,
         Acquiring, Holding, Releasing, InProcess, PodStates, LeaseStates
<1>3. IdleUnregistered'
  BY <1>a, <1>r, RemovePrincipalFacts, SurvivingPatches DEF ReapUnpaired, CleanUnch, ReplicaGone, IdleUnregistered, TypeOK,
         Acquiring, Holding, Releasing, InProcess, PodStates, LeaseStates
<1>4. PatchCurrent'
  BY <1>a, <1>r, RemovePrincipalFacts, SurvivingPatches DEF ReapUnpaired, CleanUnch, ReplicaGone, PatchCurrent, TypeOK,
         Acquiring, Holding, Releasing, InProcess, PodStates, LeaseStates
<1>5. WithinLimits'
  BY <1>a, <1>r, RemovePrincipalFacts, SurvivingPatches DEF ReapUnpaired, CleanUnch, ReplicaGone, WithinLimits, TypeOK,
         Acquiring, Holding, Releasing, InProcess, PodStates, LeaseStates
<1>6. (OwnerServes /\ CleanersExact /\ NamesUnique /\ DrainedStays /\ GateOutlivesLease)'
  BY DEF ReapUnpaired, CleanUnch, ReplicaGone, OwnerServes, CleanersExact, NamesUnique, DrainedStays, GateOutlivesLease
<1> QED
  BY <1>1, <1>2, <1>3, <1>4, <1>5, <1>6

LEMMA ReapPrincipalInv ==
  ASSUME LedgerInv, NEW p \in Principals, ReapPrincipal(p)
  PROVE  LedgerInv'
<1> USE OpsAssumption, LimitAssumption, VoidFacts DEF LedgerInv
<1>1. TypeOK'
  BY DEF ReapPrincipal, CleanUnch, TypeOK,
         Acquiring, Holding, Releasing, InProcess, PodStates, LeaseStates
<1>2. IdleUnregistered'
  BY DEF ReapPrincipal, CleanUnch, IdleUnregistered, TypeOK,
         Acquiring, Holding, Releasing, InProcess, PodStates, LeaseStates
<1>3. PatchCurrent'
  BY DEF ReapPrincipal, CleanUnch, PatchCurrent, TypeOK,
         Acquiring, Holding, Releasing, InProcess, PodStates, LeaseStates
<1>4. (OwnerServes /\ EntriesHeld /\ WithinLimits /\ CleanersExact /\ NamesUnique /\ DrainedStays /\ GateOutlivesLease)'
  BY DEF ReapPrincipal, CleanUnch, OwnerServes, EntriesHeld, WithinLimits, CleanersExact, NamesUnique, DrainedStays, GateOutlivesLease
<1> QED
  BY <1>1, <1>2, <1>3, <1>4

\* What the start-up LIST finds stale has no running handler: Pod names are unique.
LEMMA StartProcessInv ==
  ASSUME LedgerInv, NEW q \in Pods, StartProcess(q)
  PROVE  LedgerInv'
<1> USE OpsAssumption, LimitAssumption DEF LedgerInv
<1>a. \A x \in Ops : Stale(x, q, boot[q] + 1) /\ x \in gateE[LeaseOf[x]] => pc[x] \in {"done", "dead"}
  <2> SUFFICES ASSUME NEW x \in Ops, Stale(x, q, boot[q] + 1), x \in gateE[LeaseOf[x]],
                      pc[x] \in InProcess
               PROVE  FALSE
    BY DEF TypeOK, IdleUnregistered
  <2>1. PodOf[x] \in Pods /\ pod[PodOf[x]] = "serving"
    BY DEF OwnerServes
  <2>2. PodOf[x] # q /\ NameOf[PodOf[x]] = NameOf[q]
    BY <2>1 DEF StartProcess, Stale
  <2> QED
    BY <2>1, <2>2 DEF StartProcess, NamesUnique
<1>1. TypeOK'
  BY DEF StartProcess, ledgers, Stale, TypeOK,
         Acquiring, Holding, Releasing, InProcess, PodStates, LeaseStates
<1>2. OwnerServes'
  BY DEF StartProcess, ledgers, Stale, OwnerServes, TypeOK,
         Acquiring, Holding, Releasing, InProcess, PodStates, LeaseStates
<1>3. CleanersExact'
  BY <1>a DEF StartProcess, ledgers, Stale, CleanersExact, TypeOK,
         Acquiring, Holding, Releasing, InProcess, PodStates, LeaseStates
<1>4. NamesUnique'
  BY DEF StartProcess, ledgers, Stale, NamesUnique, TypeOK,
         Acquiring, Holding, Releasing, InProcess, PodStates, LeaseStates
<1>5. (EntriesHeld /\ IdleUnregistered /\ PatchCurrent /\ WithinLimits /\ DrainedStays /\ GateOutlivesLease)'
  BY DEF StartProcess, ledgers, Stale, EntriesHeld, IdleUnregistered, PatchCurrent, WithinLimits, DrainedStays, GateOutlivesLease
<1> QED
  BY <1>1, <1>2, <1>3, <1>4, <1>5

LEMMA ServeInv ==
  ASSUME LedgerInv, NEW q \in Pods, Serve(q)
  PROVE  LedgerInv'
<1> USE OpsAssumption, LimitAssumption DEF LedgerInv
<1>1. TypeOK'
  BY DEF Serve, ledgers, TypeOK,
         Acquiring, Holding, Releasing, InProcess, PodStates, LeaseStates
<1>2. OwnerServes'
  BY DEF Serve, ledgers, OwnerServes, TypeOK,
         Acquiring, Holding, Releasing, InProcess, PodStates, LeaseStates
<1>3. CleanersExact'
  BY DEF Serve, ledgers, CleanersExact, TypeOK,
         Acquiring, Holding, Releasing, InProcess, PodStates, LeaseStates
<1>4. NamesUnique'
  BY DEF Serve, ledgers, NamesUnique, TypeOK,
         Acquiring, Holding, Releasing, InProcess, PodStates, LeaseStates
<1>5. (EntriesHeld /\ IdleUnregistered /\ PatchCurrent /\ WithinLimits /\ DrainedStays /\ GateOutlivesLease)'
  BY DEF Serve, ledgers, EntriesHeld, IdleUnregistered, PatchCurrent, WithinLimits, DrainedStays, GateOutlivesLease
<1> QED
  BY <1>1, <1>2, <1>3, <1>4, <1>5

LEMMA CrashProcessInv ==
  ASSUME LedgerInv, NEW q \in Pods, CrashProcess(q)
  PROVE  LedgerInv'
<1> USE OpsAssumption, LimitAssumption DEF LedgerInv
<1>1. TypeOK'
  BY DEF CrashProcess, ledgers, Kill, TypeOK,
         Acquiring, Holding, Releasing, InProcess, PodStates, LeaseStates
<1>2. OwnerServes'
  BY DEF CrashProcess, ledgers, Kill, OwnerServes, TypeOK,
         Acquiring, Holding, Releasing, InProcess, PodStates, LeaseStates
<1>3. EntriesHeld'
  BY DEF CrashProcess, ledgers, Kill, EntriesHeld, TypeOK,
         Acquiring, Holding, Releasing, InProcess, PodStates, LeaseStates
<1>4. IdleUnregistered'
  BY DEF CrashProcess, ledgers, Kill, IdleUnregistered, TypeOK,
         Acquiring, Holding, Releasing, InProcess, PodStates, LeaseStates
<1>5. CleanersExact'
  BY DEF CrashProcess, ledgers, Kill, CleanersExact, TypeOK,
         Acquiring, Holding, Releasing, InProcess, PodStates, LeaseStates
<1>6. NamesUnique'
  BY DEF CrashProcess, ledgers, Kill, NamesUnique, TypeOK,
         Acquiring, Holding, Releasing, InProcess, PodStates, LeaseStates
<1>7. (PatchCurrent /\ WithinLimits /\ DrainedStays /\ GateOutlivesLease)'
  BY DEF CrashProcess, ledgers, Kill, PatchCurrent, WithinLimits, DrainedStays, GateOutlivesLease
<1> QED
  BY <1>1, <1>2, <1>3, <1>4, <1>5, <1>6, <1>7

LEMMA DeletePodInv ==
  ASSUME LedgerInv, NEW q \in Pods, DeletePod(q)
  PROVE  LedgerInv'
<1> USE OpsAssumption, LimitAssumption DEF LedgerInv
<1>1. TypeOK'
  BY DEF DeletePod, ledgers, Kill, TypeOK,
         Acquiring, Holding, Releasing, InProcess, PodStates, LeaseStates
<1>2. OwnerServes'
  BY DEF DeletePod, ledgers, Kill, OwnerServes, TypeOK,
         Acquiring, Holding, Releasing, InProcess, PodStates, LeaseStates
<1>3. EntriesHeld'
  BY DEF DeletePod, ledgers, Kill, EntriesHeld, TypeOK,
         Acquiring, Holding, Releasing, InProcess, PodStates, LeaseStates
<1>4. IdleUnregistered'
  BY DEF DeletePod, ledgers, Kill, IdleUnregistered, TypeOK,
         Acquiring, Holding, Releasing, InProcess, PodStates, LeaseStates
<1>5. CleanersExact'
  BY DEF DeletePod, ledgers, Kill, CleanersExact, TypeOK,
         Acquiring, Holding, Releasing, InProcess, PodStates, LeaseStates
<1>6. NamesUnique'
  BY DEF DeletePod, ledgers, Kill, NamesUnique, TypeOK,
         Acquiring, Holding, Releasing, InProcess, PodStates, LeaseStates
<1>7. (PatchCurrent /\ WithinLimits /\ DrainedStays /\ GateOutlivesLease)'
  BY DEF DeletePod, ledgers, Kill, PatchCurrent, WithinLimits, DrainedStays, GateOutlivesLease
<1> QED
  BY <1>1, <1>2, <1>3, <1>4, <1>5, <1>6, <1>7

\* A watch event only fires tokens.
LEMMA RevokeInv ==
  ASSUME LedgerInv, NEW q \in Pods, NEW l \in Leases, Revoke(q, l)
  PROVE  LedgerInv'
<1> USE DEF LedgerInv
<1>1. TypeOK'
  BY DEF Revoke, ledgers, TypeOK
<1>2. (/\ OwnerServes /\ EntriesHeld /\ IdleUnregistered /\ PatchCurrent /\ WithinLimits
       /\ CleanersExact /\ NamesUnique /\ DrainedStays /\ GateOutlivesLease)'
  BY DEF Revoke, ledgers, OwnerServes, EntriesHeld, IdleUnregistered, PatchCurrent, WithinLimits,
         CleanersExact, NamesUnique, DrainedStays, GateOutlivesLease
<1> QED
  BY <1>1, <1>2

LEMMA StutterInv ==
  ASSUME LedgerInv, UNCHANGED vars
  PROVE  LedgerInv'
BY DEF LedgerInv, vars, ledgers, TypeOK, OwnerServes, EntriesHeld, IdleUnregistered, PatchCurrent,
       WithinLimits, CleanersExact, NamesUnique, DrainedStays, GateOutlivesLease

LEMMA StepInv ==
  ASSUME LedgerInv, [Next]_vars
  PROVE  LedgerInv'
<1>1. CASE UNCHANGED vars
  BY <1>1, StutterInv
<1>2. ASSUME NEW o \in Ops, OpStep(o) PROVE LedgerInv'
  BY <1>2, BeginInv, SendGatePatchInv, SendPrincipalPatchInv, GateReplyInv, PrincipalReplyInv,
     RegisterInv, ConfirmInv, DropInv, SettleInv, ReleasePrincipalInv, ReleaseGateInv DEF OpStep
<1>3. ASSUME NEW o \in Ops, PatchStep(o) PROVE LedgerInv'
  <2>1. CASE CommitPatch(o)
    <3>1. patch[o] = "gate" \/ patch[o] = "principal"
      BY <2>1 DEF CommitPatch
    <3> QED
      BY <2>1, <3>1, CommitGateInv, CommitPrincipalInv
  <2>2. CASE LosePatch(o)
    BY <2>2, LosePatchInv
  <2> QED
    BY <1>3, <2>1, <2>2 DEF PatchStep
<1>4. ASSUME NEW o \in Ops, CleanStep(o) PROVE LedgerInv'
  BY <1>4, CleanPrincipalInv, CleanGateInv, ReapUnpairedInv DEF CleanStep
<1>5. ASSUME NEW l \in Leases, LeaseStep(l) PROVE LedgerInv'
  BY <1>5, PrepareOpenGateInv, AdmitLeaseInv, AbandonAdmissionInv, RemovePreAdmissionGateInv,
     EndLeaseInv, CloseGateInv, DrainedInv, FinishReleaseInv, DeleteLeaseInv, ReapGateInv
     DEF LeaseStep
<1>6. ASSUME NEW q \in Pods, PodStep(q) PROVE LedgerInv'
  BY <1>6, StartProcessInv, ServeInv, CrashProcessInv, DeletePodInv, RevokeInv DEF PodStep
<1>7. ASSUME NEW p \in Principals, ReapPrincipal(p) PROVE LedgerInv'
  BY <1>7, ReapPrincipalInv
<1> QED
  BY <1>1, <1>2, <1>3, <1>4, <1>5, <1>6, <1>7 DEF Next

\* The ledger's inductive invariant holds for every instance.
THEOREM LedgerInvariant == Spec => []LedgerInv
<1>1. Init => LedgerInv
  BY InitInv
<1>2. LedgerInv /\ [Next]_vars => LedgerInv'
  BY StepInv
<1> QED
  BY <1>1, <1>2, PTL DEF Spec

\* The release barrier of close_and_drain: no handler serves an operation on a
\* lease whose gate was seen drained.
THEOREM Barrier == Spec => []AccessBarrier
<1>1. LedgerInv => AccessBarrier
  BY OpsAssumption DEF LedgerInv, AccessBarrier, DrainedStays, EntriesHeld
<1> QED
  BY <1>1, LedgerInvariant, PTL

\* The per-lease and per-principal limits bound what runs on all replicas.
THEOREM Limits == Spec => []StreamLimits
<1>1. LedgerInv => StreamLimits
  <2> SUFFICES ASSUME LedgerInv PROVE StreamLimits
    OBVIOUS
  <2> USE OpsAssumption, LimitAssumption DEF LedgerInv
  <2>1. ASSUME NEW l \in Leases
        PROVE  Cardinality({o \in Ops : LeaseOf[o] = l /\ pc[o] \in Holding}) <= StreamsPerLease
    <3> DEFINE T == {o \in Ops : LeaseOf[o] = l /\ pc[o] \in Holding}
    <3>1. T \in SUBSET gateE[l] /\ gateE[l] \in SUBSET Ops
      BY DEF EntriesHeld, TypeOK
    <3>2. Cardinality(gateE[l]) <= StreamsPerLease
      BY DEF WithinLimits
    <3>3. CASE T = {}
      BY <3>3, EmptyCount
    <3>4. ASSUME NEW x \in T PROVE Cardinality(T) <= StreamsPerLease
      <4> HIDE DEF T
      <4>1. x \in Ops
        BY <3>1, <3>4
      <4>2. Cardinality(T) \in Nat /\ Cardinality(T) <= Cardinality(gateE[l]) /\ Cardinality(gateE[l]) \in Nat
        BY <3>1, <4>1, EntryCounts
      <4> QED
        BY <3>2, <4>2
    <3> QED
      BY <3>3, <3>4
  <2>2. ASSUME NEW p \in Principals
        PROVE  Cardinality({o \in Ops : PrincipalOf[o] = p /\ pc[o] \in Holding}) <= StreamsPerPrincipal
    <3> DEFINE T == {o \in Ops : PrincipalOf[o] = p /\ pc[o] \in Holding}
    <3>1. T \in SUBSET prinE[p] /\ prinE[p] \in SUBSET Ops
      BY DEF EntriesHeld, TypeOK
    <3>2. Cardinality(prinE[p]) <= StreamsPerPrincipal
      BY DEF WithinLimits
    <3>3. CASE T = {}
      BY <3>3, EmptyCount
    <3>4. ASSUME NEW x \in T PROVE Cardinality(T) <= StreamsPerPrincipal
      <4> HIDE DEF T
      <4>1. x \in Ops
        BY <3>1, <3>4
      <4>2. Cardinality(T) \in Nat /\ Cardinality(T) <= Cardinality(prinE[p]) /\ Cardinality(prinE[p]) \in Nat
        BY <3>1, <4>1, EntryCounts
      <4> QED
        BY <3>2, <4>2
    <3> QED
      BY <3>3, <3>4
  <2> QED
    BY <2>1, <2>2 DEF StreamLimits
<1> QED
  BY <1>1, LedgerInvariant, PTL

\* The reaper never takes the gate of a lease that still has to be released.
THEOREM GateLives == Spec => []GateOutlivesLease
<1>1. LedgerInv => GateOutlivesLease
  BY DEF LedgerInv
<1> QED
  BY <1>1, LedgerInvariant, PTL

=============================================================================
