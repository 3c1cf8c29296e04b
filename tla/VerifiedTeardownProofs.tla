------------------------ MODULE VerifiedTeardownProofs ------------------------
(***************************************************************************)
(* Proofs about VerifiedTeardown, for any bound on retries: TeardownInv is *)
(* inductive, and what a teardown promises of evidence, of a NeverBound    *)
(* proof and of the order of its destructive steps follows from it.        *)
(***************************************************************************)
EXTENDS VerifiedTeardown, TLAPS

\* What a replica's pass through the gate carries, by where it is.
GateTyped ==
    /\ gate \in [Replicas -> {gate[w] : w \in Replicas}]
    /\ \A w \in Replicas :
         /\ gate[w].pc \in {"idle", "over", "surface", "token", "backend", "evidence",
                            "record", "consume", "advance", "quarantine"}
         /\ gate[w].pc \in {"token", "backend", "evidence", "record", "consume"} =>
              gate[w].lease \in LeaseStates
         /\ gate[w].pc = "backend" => gate[w].ok \in BOOLEAN
         /\ gate[w].pc \in {"evidence", "record"} =>
              gate[w] \in [pc : {"evidence", "record"}, lease : LeaseStates,
                           inst : {gate[w].inst}, outcome : {"Verified", "Unknown"}]

AuthorityTyped ==
    \/ authority.pc = "idle"
    \/ authority \in [pc : {"evidence", "record"}, lease : LeaseStates]

\* The Secret is created by the one POST of Creating, and its UID is in the binding
\* from the moment the protocol leaves Creating with a Secret.
TokenOrder ==
    /\ post => lease.token = "Creating" /\ ~secret
    /\ lease.token \in {"none", "Prepared"} => ~secret
    /\ lease.token \in {"Reserved", "Ready", "Closing"} => lease.identity
    /\ lease.token \in {"none", "Prepared", "Creating"} => ~lease.identity

\* The instance is bound, or about to be, only to an intent whose token was made.
BoundToToken ==
    /\ binder \/ inst.bound => lease.identity /\ lease.token \in {"Ready", "Closing", "Closed"}
    /\ inst.phase \in {"Ready", "Foreign"} => ~inst.bound

\* A receipt is of a bound instance and an open attempt, and a retry is left for Unknown.
ReceiptHonest ==
    /\ lease.receipt.outcome # "none" => lease.attempt /\ inst.bound
    /\ lease.receipt.outcome = "Unknown" => lease.receipt.retry < MaxRetry

\* A pass through the gate works on a bound instance under a receipt that is on the
\* lease; what its checks found absent stays absent, and the evidence is written once.
GateSafe ==
    \A w \in Replicas : LET p == gate[w] IN
        /\ p.pc \notin {"idle", "over"} => inst.bound
        /\ p.pc \in {"token", "backend", "evidence", "record"} =>
             p.lease.receipt.outcome = "InProgress" /\ lease.receipt.outcome # "none"
        /\ p.pc = "backend" => IF p.ok THEN ~secret
                               ELSE separate \/ p.lease.receipt.retry < MaxRetry
        /\ p.pc = "evidence" => p.outcome = "Verified"
        /\ p.pc \in {"evidence", "record"} /\ p.outcome = "Verified" => ~backend /\ ~secret
        /\ p.pc = "record" =>
             IF p.outcome = "Verified" THEN evidence = p.lease.receipt.retry
             ELSE p.lease.receipt.retry < MaxRetry
        /\ p.pc \in {"consume", "advance"} => ~backend /\ ~secret /\ evidence # NoEvidence

\* The authority attests only what it saw absent.
AuthoritySafe ==
    /\ authority.pc \in {"evidence", "record"} =>
         /\ inst.bound /\ ~backend /\ ~secret
         /\ authority.lease.receipt.outcome = "InProgress"
    /\ authority.pc = "record" => evidence = authority.lease.receipt.retry

\* A NeverBound proof is of an intent that never had a token, on a lease that can
\* begin none.
ProofSafe ==
    lease.proof =>
        /\ lease.phase # "Pending" /\ ~lease.identity
        /\ lease.token \in {"none", "Closed"}
        /\ ~secret /\ ~post /\ ~binder /\ ~inst.bound

TeardownInv ==
    /\ TypeOK /\ GateTyped /\ AuthorityTyped /\ TokenOrder /\ BoundToToken
    /\ ReceiptHonest /\ GateSafe /\ AuthoritySafe /\ ProofSafe /\ ReleasedOnProof

-----------------------------------------------------------------------------
(* What a receipt write leaves of a lease.                                 *)

LEMMA InProgressTyped ==
    ASSUME NEW l \in LeaseStates, l.receipt.outcome \in {"none", "Unknown"},
           l.receipt.outcome = "Unknown" => l.receipt.retry < MaxRetry
    PROVE  InProgress(l) \in LeaseStates /\ InProgress(l).receipt.outcome = "InProgress"
<1>1. l.receipt \in Receipts
  BY DEF LeaseStates
<1> DEFINE r == [outcome |-> "InProgress",
                 retry |-> IF l.receipt.outcome = "none" THEN 0 ELSE l.receipt.retry + 1]
<1>2. r \in Receipts
  BY <1>1, RetryAssumption DEF Receipts
<1>3. InProgress(l) = [l EXCEPT !.attempt = TRUE, !.receipt = r]
  BY DEF InProgress
<1> HIDE DEF r
<1>4. InProgress(l) \in LeaseStates /\ InProgress(l).receipt = r
  BY <1>2, <1>3 DEF LeaseStates
<1> QED
  BY <1>4 DEF r

LEMMA OutcomeTyped ==
    ASSUME NEW l \in LeaseStates, NEW o \in {"Verified", "Unknown"},
           NEW m, m = [l EXCEPT !.receipt.outcome = o]
    PROVE  /\ m \in LeaseStates /\ m.receipt.outcome = o /\ m.receipt.retry = l.receipt.retry
           /\ m.attempt = l.attempt
<1>1. l.receipt \in Receipts
  BY DEF LeaseStates
<1>2. [l.receipt EXCEPT !.outcome = o] \in Receipts
  BY <1>1 DEF Receipts
<1> QED
  BY <1>1, <1>2 DEF LeaseStates, Receipts

LEMMA Types ==
    ASSUME TypeOK
    PROVE  lease \in LeaseStates /\ inst \in InstanceStates /\ evidence \in 0 .. NoEvidence
BY DEF TypeOK

\* The outcome lands on the lease the pass began with, or nowhere.
LEMMA RecordedLease ==
    ASSUME TeardownInv, NEW w \in Replicas, RecordOutcome(w)
    PROVE  \/ lease' = lease
           \/ /\ lease = gate[w].lease /\ lease' \in LeaseStates
              /\ lease'.receipt.outcome = gate[w].outcome
              /\ lease'.receipt.retry = lease.receipt.retry /\ lease'.attempt = lease.attempt
<1>1. gate[w].outcome \in {"Verified", "Unknown"}
  BY DEF TeardownInv, GateTyped, RecordOutcome
<1>2. CASE lease = gate[w].lease
  <2>1. lease' = [lease EXCEPT !.receipt.outcome = gate[w].outcome]
    BY <1>2 DEF RecordOutcome
  <2> QED
    BY <1>1, <1>2, <2>1, Types, OutcomeTyped DEF TeardownInv
<1>3. CASE lease # gate[w].lease
  BY <1>3 DEF RecordOutcome
<1> QED
  BY <1>2, <1>3

LEMMA AttestedLease ==
    ASSUME TeardownInv, AuthorityRecords
    PROVE  \/ lease' = lease
           \/ /\ lease = authority.lease /\ lease' \in LeaseStates
              /\ lease'.receipt.outcome = "Verified"
              /\ lease'.receipt.retry = lease.receipt.retry /\ lease'.attempt = lease.attempt
<1>1. CASE lease = authority.lease
  <2>1. lease' = [lease EXCEPT !.receipt.outcome = "Verified"]
    BY <1>1 DEF AuthorityRecords
  <2> QED
    BY <1>1, <2>1, Types, OutcomeTyped DEF TeardownInv
<1>2. CASE lease # authority.lease
  BY <1>2 DEF AuthorityRecords
<1> QED
  BY <1>1, <1>2

-----------------------------------------------------------------------------
(* Binding, and the terminal arm of the lease controller.                  *)

\* The intent is written before anything of it exists.
LEMMA PrepareIntentStep == ASSUME TeardownInv, PrepareIntent
                           PROVE  TeardownInv'
<1> USE RetryAssumption DEF TeardownInv, PrepareIntent, Free, passes, objects
<1>1. TypeOK'
  BY DEF TypeOK, LeaseStates
<1>2. TokenOrder' /\ BoundToToken'
  BY DEF TokenOrder, BoundToToken, TypeOK, LeaseStates
<1>3. ReceiptHonest' /\ ProofSafe'
  BY DEF ReceiptHonest, ProofSafe, TypeOK, LeaseStates
<1>4. GateSafe'
  BY DEF GateSafe, TypeOK, LeaseStates
<1>5. ReleasedOnProof'
  BY DEF ReleasedOnProof, TypeOK, LeaseStates
<1>6. GateTyped' /\ AuthorityTyped' /\ AuthoritySafe'
  BY DEF GateTyped, AuthorityTyped, AuthoritySafe
<1> QED
  BY <1>1, <1>2, <1>3, <1>4, <1>5, <1>6

\* The one POST is sent from Creating.
LEMMA DispatchCreateStep == ASSUME TeardownInv, DispatchCreate
                            PROVE  TeardownInv'
<1> USE RetryAssumption DEF TeardownInv, DispatchCreate, passes
<1>1. TypeOK'
  BY DEF TypeOK, LeaseStates
<1>2. TokenOrder' /\ BoundToToken'
  BY DEF TokenOrder, BoundToToken, TypeOK, LeaseStates
<1>3. ReceiptHonest' /\ ProofSafe'
  BY DEF ReceiptHonest, ProofSafe, TypeOK, LeaseStates
<1>4. GateSafe'
  BY DEF GateSafe, TypeOK, LeaseStates
<1>5. ReleasedOnProof'
  BY DEF ReleasedOnProof, TypeOK, LeaseStates
<1>6. GateTyped' /\ AuthorityTyped' /\ AuthoritySafe'
  BY DEF GateTyped, AuthorityTyped, AuthoritySafe
<1> QED
  BY <1>1, <1>2, <1>3, <1>4, <1>5, <1>6

LEMMA SealTokenStep == ASSUME TeardownInv, SealToken
                       PROVE  TeardownInv'
<1> USE RetryAssumption DEF TeardownInv, SealToken, passes, objects
<1>1. TypeOK'
  BY DEF TypeOK, LeaseStates
<1>2. TokenOrder' /\ BoundToToken'
  BY DEF TokenOrder, BoundToToken, TypeOK, LeaseStates
<1>3. ReceiptHonest' /\ ProofSafe'
  BY DEF ReceiptHonest, ProofSafe, TypeOK, LeaseStates
<1>4. GateSafe'
  BY DEF GateSafe, TypeOK, LeaseStates
<1>5. ReleasedOnProof'
  BY DEF ReleasedOnProof, TypeOK, LeaseStates
<1>6. GateTyped' /\ AuthorityTyped' /\ AuthoritySafe'
  BY DEF GateTyped, AuthorityTyped, AuthoritySafe
<1> QED
  BY <1>1, <1>2, <1>3, <1>4, <1>5, <1>6

LEMMA ActivateTokenStep == ASSUME TeardownInv, ActivateToken
                           PROVE  TeardownInv'
<1> USE RetryAssumption DEF TeardownInv, ActivateToken, passes, objects
<1>1. TypeOK'
  BY DEF TypeOK, LeaseStates
<1>2. TokenOrder' /\ BoundToToken'
  BY DEF TokenOrder, BoundToToken, TypeOK, LeaseStates
<1>3. ReceiptHonest' /\ ProofSafe'
  BY DEF ReceiptHonest, ProofSafe, TypeOK, LeaseStates
<1>4. GateSafe'
  BY DEF GateSafe, TypeOK, LeaseStates
<1>5. ReleasedOnProof'
  BY DEF ReleasedOnProof, TypeOK, LeaseStates
<1>6. GateTyped' /\ AuthorityTyped' /\ AuthoritySafe'
  BY DEF GateTyped, AuthorityTyped, AuthoritySafe
<1> QED
  BY <1>1, <1>2, <1>3, <1>4, <1>5, <1>6

LEMMA StartReserveStep == ASSUME TeardownInv, StartReserve
                          PROVE  TeardownInv'
<1> USE RetryAssumption DEF TeardownInv, StartReserve, objects
<1>1. TypeOK'
  BY DEF TypeOK
<1>2. BoundToToken'
  BY DEF BoundToToken, TypeOK, LeaseStates, InstanceStates, TokenOrder
<1>3. ProofSafe'
  BY DEF ProofSafe
<1>4. GateTyped' /\ AuthorityTyped' /\ TokenOrder' /\ ReceiptHonest' /\ GateSafe' /\ AuthoritySafe' /\ ReleasedOnProof'
  BY DEF GateTyped, AuthorityTyped, TokenOrder, ReceiptHonest, GateSafe, AuthoritySafe,
     ReleasedOnProof
<1> QED
  BY <1>1, <1>2, <1>3, <1>4

\* A reservation lands however late: the token of its intent was made.
LEMMA LandReserveStep == ASSUME TeardownInv, LandReserve
                         PROVE  TeardownInv'
<1> USE RetryAssumption DEF TeardownInv, LandReserve, Free
<1>1. TypeOK'
  <2>1. inst' \in InstanceStates
    BY Types DEF InstanceStates
  <2> QED
    BY <2>1 DEF TypeOK
<1>2. BoundToToken'
  BY DEF BoundToToken, TypeOK, InstanceStates
<1>3. ReceiptHonest' /\ ProofSafe'
  BY DEF ReceiptHonest, ProofSafe, TypeOK, InstanceStates
<1>4. GateSafe'
  BY DEF GateSafe, TypeOK, InstanceStates
<1>5. AuthoritySafe' /\ ReleasedOnProof'
  BY DEF AuthoritySafe, ReleasedOnProof, TypeOK, InstanceStates
<1>6. GateTyped' /\ AuthorityTyped' /\ TokenOrder'
  BY DEF GateTyped, AuthorityTyped, TokenOrder
<1> QED
  BY <1>1, <1>2, <1>3, <1>4, <1>5, <1>6

LEMMA AbandonIntentStep == ASSUME TeardownInv, AbandonIntent
                           PROVE  TeardownInv'
<1> USE RetryAssumption DEF TeardownInv, AbandonIntent, Occupied, passes, objects
<1>1. TypeOK'
  BY DEF TypeOK, LeaseStates
<1>2. TokenOrder' /\ BoundToToken'
  BY DEF TokenOrder, BoundToToken, TypeOK, LeaseStates
<1>3. ReceiptHonest' /\ ProofSafe'
  BY DEF ReceiptHonest, ProofSafe, TypeOK, LeaseStates
<1>4. GateSafe'
  BY DEF GateSafe, TypeOK, LeaseStates
<1>5. ReleasedOnProof'
  BY DEF ReleasedOnProof, TypeOK, LeaseStates
<1>6. GateTyped' /\ AuthorityTyped' /\ AuthoritySafe'
  BY DEF GateTyped, AuthorityTyped, AuthoritySafe
<1> QED
  BY <1>1, <1>2, <1>3, <1>4, <1>5, <1>6

LEMMA FinalizeBindingStep == ASSUME TeardownInv, FinalizeBinding
                             PROVE  TeardownInv'
<1> USE RetryAssumption DEF TeardownInv, FinalizeBinding, passes, objects
<1>1. TypeOK'
  BY DEF TypeOK, LeaseStates
<1>2. TokenOrder' /\ BoundToToken'
  BY DEF TokenOrder, BoundToToken, TypeOK, LeaseStates
<1>3. ReceiptHonest' /\ ProofSafe'
  BY DEF ReceiptHonest, ProofSafe, TypeOK, LeaseStates
<1>4. GateSafe'
  BY DEF GateSafe, TypeOK, LeaseStates
<1>5. ReleasedOnProof'
  BY DEF ReleasedOnProof, TypeOK, LeaseStates
<1>6. GateTyped' /\ AuthorityTyped' /\ AuthoritySafe'
  BY DEF GateTyped, AuthorityTyped, AuthoritySafe
<1> QED
  BY <1>1, <1>2, <1>3, <1>4, <1>5, <1>6

LEMMA OpenAttemptStep == ASSUME TeardownInv, OpenAttempt
                         PROVE  TeardownInv'
<1> USE RetryAssumption DEF TeardownInv, OpenAttempt, passes, objects
<1>1. TypeOK'
  BY DEF TypeOK, LeaseStates
<1>2. TokenOrder' /\ BoundToToken'
  BY DEF TokenOrder, BoundToToken, TypeOK, LeaseStates
<1>3. ReceiptHonest' /\ ProofSafe'
  BY DEF ReceiptHonest, ProofSafe, TypeOK, LeaseStates
<1>4. GateSafe'
  BY DEF GateSafe, TypeOK, LeaseStates
<1>5. ReleasedOnProof'
  BY DEF ReleasedOnProof, TypeOK, LeaseStates
<1>6. GateTyped' /\ AuthorityTyped' /\ AuthoritySafe'
  BY DEF GateTyped, AuthorityTyped, AuthoritySafe
<1> QED
  BY <1>1, <1>2, <1>3, <1>4, <1>5, <1>6

\* A Secret that is absent while Creating closes nothing.
LEMMA CloseCreationStep == ASSUME TeardownInv, CloseCreation
                           PROVE  TeardownInv'
<1> USE RetryAssumption DEF TeardownInv, CloseCreation, passes, objects, Terminal, NextToken
<1>1. TypeOK'
  <2>1. lease' \in LeaseStates
    BY Types DEF LeaseStates
  <2> QED
    BY <2>1 DEF TypeOK
<1>2. TokenOrder' /\ BoundToToken'
  BY DEF TokenOrder, BoundToToken, TypeOK, LeaseStates
<1>3. ReceiptHonest' /\ ProofSafe'
  BY DEF ReceiptHonest, ProofSafe, TypeOK, LeaseStates
<1>4. GateSafe'
  BY DEF GateSafe, TypeOK, LeaseStates
<1>5. ReleasedOnProof'
  BY DEF ReleasedOnProof, TypeOK, LeaseStates
<1>6. GateTyped' /\ AuthorityTyped' /\ AuthoritySafe'
  BY DEF GateTyped, AuthorityTyped, AuthoritySafe
<1> QED
  BY <1>1, <1>2, <1>3, <1>4, <1>5, <1>6

LEMMA RevokeTokenStep == ASSUME TeardownInv, RevokeToken
                         PROVE  TeardownInv'
<1> USE RetryAssumption DEF TeardownInv, RevokeToken, passes, Terminal
<1>1. TypeOK'
  <2>1. secret' \in BOOLEAN
    BY DEF TypeOK
  <2> QED
    BY <2>1 DEF TypeOK
<1>2. TokenOrder'
  BY DEF TokenOrder
<1>3. ProofSafe'
  BY DEF ProofSafe
<1>4. GateSafe'
  BY DEF GateSafe
<1>5. AuthoritySafe' /\ ReleasedOnProof'
  BY DEF AuthoritySafe, ReleasedOnProof
<1>6. GateTyped' /\ AuthorityTyped' /\ BoundToToken' /\ ReceiptHonest'
  BY DEF GateTyped, AuthorityTyped, BoundToToken, ReceiptHonest
<1> QED
  BY <1>1, <1>2, <1>3, <1>4, <1>5, <1>6

LEMMA ConfirmRevokedStep == ASSUME TeardownInv, ConfirmRevoked
                            PROVE  TeardownInv'
<1> USE RetryAssumption DEF TeardownInv, ConfirmRevoked, passes, objects, Terminal
<1>1. TypeOK'
  BY DEF TypeOK, LeaseStates
<1>2. TokenOrder' /\ BoundToToken'
  BY DEF TokenOrder, BoundToToken, TypeOK, LeaseStates
<1>3. ReceiptHonest' /\ ProofSafe'
  BY DEF ReceiptHonest, ProofSafe, TypeOK, LeaseStates
<1>4. GateSafe'
  BY DEF GateSafe, TypeOK, LeaseStates
<1>5. ReleasedOnProof'
  BY DEF ReleasedOnProof, TypeOK, LeaseStates
<1>6. GateTyped' /\ AuthorityTyped' /\ AuthoritySafe'
  BY DEF GateTyped, AuthorityTyped, AuthoritySafe
<1> QED
  BY <1>1, <1>2, <1>3, <1>4, <1>5, <1>6

\* The terminal arm reserves only an intent whose token was made.
LEMMA AdoptIntentStep == ASSUME TeardownInv, AdoptIntent
                         PROVE  TeardownInv'
<1> USE RetryAssumption DEF TeardownInv, AdoptIntent, Free, passes, Terminal
<1>1. TypeOK'
  BY DEF TypeOK, InstanceStates
<1>2. BoundToToken'
  BY DEF BoundToToken, TypeOK, InstanceStates
<1>3. ReceiptHonest' /\ ProofSafe'
  BY DEF ReceiptHonest, ProofSafe, TypeOK, InstanceStates
<1>4. GateSafe'
  BY DEF GateSafe, TypeOK, InstanceStates
<1>5. AuthoritySafe' /\ ReleasedOnProof'
  BY DEF AuthoritySafe, ReleasedOnProof, TypeOK, InstanceStates
<1>6. GateTyped' /\ AuthorityTyped' /\ TokenOrder'
  BY DEF GateTyped, AuthorityTyped, TokenOrder
<1> QED
  BY <1>1, <1>2, <1>3, <1>4, <1>5, <1>6

\* The proof is written of a lease that can begin nothing any more.
LEMMA ProveNeverBoundStep == ASSUME TeardownInv, ProveNeverBound
                             PROVE  TeardownInv'
<1> USE RetryAssumption DEF TeardownInv, ProveNeverBound, passes, objects, Terminal, Unstarted
<1>1. TypeOK'
  BY DEF TypeOK, LeaseStates
<1>2. TokenOrder' /\ BoundToToken'
  BY DEF TokenOrder, BoundToToken, TypeOK, LeaseStates
<1>3. ReceiptHonest' /\ ProofSafe'
  BY DEF ReceiptHonest, TypeOK, LeaseStates, InstanceStates, GateSafe, GateTyped,
     AuthorityTyped, AuthoritySafe, ProofSafe, BoundToToken, TokenOrder
<1>4. GateSafe'
  BY DEF GateSafe, TypeOK, LeaseStates
<1>5. ReleasedOnProof'
  BY DEF ReleasedOnProof, TypeOK, LeaseStates
<1>6. GateTyped' /\ AuthorityTyped' /\ AuthoritySafe'
  BY DEF GateTyped, AuthorityTyped, AuthoritySafe
<1> QED
  BY <1>1, <1>2, <1>3, <1>4, <1>5, <1>6

LEMMA RecycleInstanceStep == ASSUME TeardownInv, RecycleInstance
                             PROVE  TeardownInv'
<1> USE RetryAssumption DEF TeardownInv, RecycleInstance, Terminal
<1>1. TypeOK'
  BY DEF TypeOK, InstanceStates
<1>2. BoundToToken'
  BY DEF BoundToToken, TypeOK, InstanceStates
<1>3. ReceiptHonest' /\ ProofSafe'
  BY DEF ReceiptHonest, ProofSafe, TypeOK, InstanceStates
<1>4. GateSafe'
  BY DEF GateSafe, TypeOK, InstanceStates
<1>5. AuthoritySafe' /\ ReleasedOnProof'
  BY DEF AuthoritySafe, ReleasedOnProof, TypeOK, InstanceStates
<1>6. GateTyped' /\ AuthorityTyped' /\ TokenOrder'
  BY DEF GateTyped, AuthorityTyped, TokenOrder
<1> QED
  BY <1>1, <1>2, <1>3, <1>4, <1>5, <1>6

LEMMA RecycleLeaseStep == ASSUME TeardownInv, RecycleLease
                          PROVE  TeardownInv'
<1> USE RetryAssumption DEF TeardownInv, RecycleLease, IdlePass, objects
<1>1. TypeOK'
  BY DEF TypeOK, LeaseStates
<1>2. TokenOrder' /\ BoundToToken'
  BY DEF TokenOrder, BoundToToken, TypeOK, LeaseStates
<1>3. ReceiptHonest' /\ ProofSafe'
  BY DEF ReceiptHonest, ProofSafe, TypeOK, LeaseStates
<1>4. GateSafe'
  BY DEF GateSafe, TypeOK, LeaseStates
<1>5. ReleasedOnProof'
  BY DEF ReleasedOnProof, TypeOK, LeaseStates
<1>6. GateTyped' /\ AuthorityTyped' /\ AuthoritySafe'
  BY DEF GateTyped, AuthorityTyped, AuthoritySafe
<1> QED
  BY <1>1, <1>2, <1>3, <1>4, <1>5, <1>6

LEMMA RecycleAgainStep == ASSUME TeardownInv, RecycleAgain
                          PROVE  TeardownInv'
<1> USE RetryAssumption DEF TeardownInv, RecycleAgain, passes
<1>1. TypeOK'
  BY DEF TypeOK, InstanceStates
<1>2. BoundToToken'
  BY DEF BoundToToken, TypeOK, InstanceStates
<1>3. ReceiptHonest' /\ ProofSafe'
  BY DEF ReceiptHonest, ProofSafe, TypeOK, InstanceStates
<1>4. GateSafe'
  BY DEF GateSafe, TypeOK, InstanceStates
<1>5. AuthoritySafe' /\ ReleasedOnProof'
  BY DEF AuthoritySafe, ReleasedOnProof, TypeOK, InstanceStates
<1>6. GateTyped' /\ AuthorityTyped' /\ TokenOrder'
  BY DEF GateTyped, AuthorityTyped, TokenOrder
<1> QED
  BY <1>1, <1>2, <1>3, <1>4, <1>5, <1>6

LEMMA AcknowledgeStep == ASSUME TeardownInv, Acknowledge
                         PROVE  TeardownInv'
<1> USE RetryAssumption DEF TeardownInv, Acknowledge, passes, objects
<1>1. TypeOK'
  BY DEF TypeOK, LeaseStates
<1>2. TokenOrder' /\ BoundToToken'
  BY DEF TokenOrder, BoundToToken, TypeOK, LeaseStates
<1>3. ReceiptHonest' /\ ProofSafe'
  BY DEF ReceiptHonest, ProofSafe, TypeOK, LeaseStates
<1>4. GateSafe'
  BY DEF GateSafe, TypeOK, LeaseStates
<1>5. ReleasedOnProof'
  BY DEF ReleasedOnProof, TypeOK, LeaseStates
<1>6. GateTyped' /\ AuthorityTyped' /\ AuthoritySafe'
  BY DEF GateTyped, AuthorityTyped, AuthoritySafe
<1> QED
  BY <1>1, <1>2, <1>3, <1>4, <1>5, <1>6

LEMMA RetireLeaseStep == ASSUME TeardownInv, RetireLease
                         PROVE  TeardownInv'
<1> USE RetryAssumption DEF TeardownInv, RetireLease, passes, objects, Terminal
<1>1. TypeOK'
  BY DEF TypeOK, LeaseStates
<1>2. TokenOrder' /\ BoundToToken'
  BY DEF TokenOrder, BoundToToken, TypeOK, LeaseStates
<1>3. ReceiptHonest' /\ ProofSafe'
  BY DEF ReceiptHonest, ProofSafe, TypeOK, LeaseStates
<1>4. GateSafe'
  BY DEF GateSafe, TypeOK, LeaseStates
<1>5. ReleasedOnProof'
  BY DEF ReleasedOnProof, TypeOK, LeaseStates
<1>6. GateTyped' /\ AuthorityTyped' /\ AuthoritySafe'
  BY DEF GateTyped, AuthorityTyped, AuthoritySafe
<1> QED
  BY <1>1, <1>2, <1>3, <1>4, <1>5, <1>6

-----------------------------------------------------------------------------
(* The gate.                                                               *)

\* The attempt is on the lease before the first DELETE.
LEMMA BeginAttemptStep == ASSUME TeardownInv, NEW w \in Replicas, BeginAttempt(w)
                          PROVE  TeardownInv'
<1> USE RetryAssumption DEF TeardownInv, BeginAttempt, objects, Goto, CanRun, GateRuns, Serving,
        InProgress
<1>1. TypeOK'
  <2> HIDE DEF InProgress
  <2>1. lease' \in LeaseStates
    BY Types, InProgressTyped DEF ReceiptHonest
  <2> QED
    BY <2>1 DEF TypeOK
<1>2. GateTyped'
  <2> HIDE DEF InProgress
  <2>1. lease' \in LeaseStates
    BY Types, InProgressTyped DEF ReceiptHonest
  <2> QED
    BY <2>1 DEF GateTyped
<1>3. TokenOrder' /\ BoundToToken'
  BY DEF TokenOrder, BoundToToken, TypeOK, LeaseStates
<1>4. ReceiptHonest' /\ ProofSafe'
  BY DEF ReceiptHonest, ProofSafe, TypeOK, LeaseStates
<1>5. GateSafe'
  BY DEF GateSafe, TypeOK, LeaseStates, GateTyped
<1>6. ReleasedOnProof'
  BY DEF ReleasedOnProof, TypeOK, LeaseStates
<1>7. AuthorityTyped' /\ AuthoritySafe'
  BY DEF AuthorityTyped, AuthoritySafe
<1> QED
  BY <1>1, <1>2, <1>3, <1>4, <1>5, <1>6, <1>7

LEMMA ResumeAttemptStep == ASSUME TeardownInv, NEW w \in Replicas, ResumeAttempt(w)
                           PROVE  TeardownInv'
<1> USE RetryAssumption DEF TeardownInv, ResumeAttempt, objects, Goto, CanRun, GateRuns, Serving
<1>1. TypeOK'
  BY DEF TypeOK, GateTyped
<1>2. GateTyped'
  BY DEF GateTyped, TypeOK, IdlePass
<1>3. GateSafe'
  BY DEF GateSafe, GateTyped
<1>4. AuthorityTyped' /\ TokenOrder' /\ BoundToToken' /\ ReceiptHonest' /\ AuthoritySafe' /\ ProofSafe' /\ ReleasedOnProof'
  BY DEF AuthorityTyped, TokenOrder, BoundToToken, ReceiptHonest, AuthoritySafe, ProofSafe,
     ReleasedOnProof
<1> QED
  BY <1>1, <1>2, <1>3, <1>4

LEMMA ResumeVerifiedStep == ASSUME TeardownInv, NEW w \in Replicas, ResumeVerified(w)
                            PROVE  TeardownInv'
<1> USE RetryAssumption DEF TeardownInv, ResumeVerified, objects, Goto, CanRun, GateRuns,
        Serving
<1>1. TypeOK'
  BY DEF TypeOK, GateTyped
<1>2. GateTyped'
  BY DEF GateTyped, TypeOK, IdlePass
<1>3. GateSafe'
  BY DEF GateSafe, GateTyped, TypeOK, LeaseStates, InstanceStates, Receipts, NoEvidence,
     ReceiptHonest, ReleasedOnProof, BoundToToken, TokenOrder, IdlePass
<1>4. AuthorityTyped' /\ TokenOrder' /\ BoundToToken' /\ ReceiptHonest' /\ AuthoritySafe' /\ ProofSafe' /\ ReleasedOnProof'
  BY DEF AuthorityTyped, TokenOrder, BoundToToken, ReceiptHonest, AuthoritySafe, ProofSafe,
     ReleasedOnProof
<1> QED
  BY <1>1, <1>2, <1>3, <1>4

\* The token: absent, or Unknown with a retry left.
LEMMA DeleteTokenStep ==
  ASSUME TeardownInv, NEW w \in Replicas, NEW ok \in BOOLEAN, DeleteToken(w, ok)
  PROVE  TeardownInv'
<1> USE RetryAssumption DEF TeardownInv, DeleteToken, Goto, MayBe, AfterDelete
<1>1. TypeOK'
  <2>1. secret' \in BOOLEAN
    BY DEF TypeOK
  <2> QED
    BY <2>1 DEF TypeOK
<1>2. GateTyped'
  BY DEF GateTyped
<1>3. TokenOrder'
  BY DEF TokenOrder
<1>4. ProofSafe'
  BY DEF ProofSafe
<1>5. GateSafe'
  <2>1. (secret' => secret) /\ (ok => ~secret')
    BY DEF TypeOK
  <2>2. gate' = [gate EXCEPT ![w] = [pc |-> "backend", lease |-> gate[w].lease,
                                     inst |-> gate[w].inst, ok |-> ok]]
    OBVIOUS
  <2>3. separate \/ ok \/ gate[w].lease.receipt.retry < MaxRetry
    OBVIOUS
  <2> HIDE DEF AfterDelete, MayBe, DeleteToken, Goto
  <2>4. UNCHANGED <<separate, lease, inst, backend, evidence>> /\ gate[w].pc = "token"
    BY DEF DeleteToken
  <2> QED
    BY <2>1, <2>2, <2>3, <2>4 DEF GateSafe, GateTyped
<1>6. AuthoritySafe' /\ ReleasedOnProof'
  BY DEF AuthoritySafe, ReleasedOnProof
<1>7. AuthorityTyped' /\ BoundToToken' /\ ReceiptHonest'
  BY DEF AuthorityTyped, BoundToToken, ReceiptHonest
<1> QED
  BY <1>1, <1>2, <1>3, <1>4, <1>5, <1>6, <1>7

\* The manifest: Verified only if both checks were.
LEMMA DeleteBackendStep ==
  ASSUME TeardownInv, NEW w \in Replicas, NEW ok \in BOOLEAN, DeleteBackend(w, ok)
  PROVE  TeardownInv'
<1> USE RetryAssumption DEF TeardownInv, DeleteBackend, PassOver, IdlePass, Goto, MayBe,
        AfterDelete, AllAbsent
<1>1. TypeOK'
  <2>1. backend' \in BOOLEAN
    BY DEF TypeOK
  <2> QED
    BY <2>1 DEF TypeOK
<1>2. GateTyped'
  BY DEF GateTyped
<1>3. GateSafe'
  <2>1. (backend' => backend) /\ (ok => ~backend')
    BY DEF TypeOK
  <2>2. separate \/ ok \/ gate[w].lease.receipt.retry < MaxRetry
    OBVIOUS
  <2>3. UNCHANGED <<separate, lease, inst, secret, evidence>> /\ gate[w].pc = "backend"
    OBVIOUS
  <2>4. \A v \in Replicas \ {w} : gate'[v] = gate[v]
    BY DEF GateTyped
  <2>5. \/ gate'[w].pc \in {"idle", "over"}
        \/ /\ gate'[w].lease = gate[w].lease
           /\ \/ gate[w].ok /\ ok /\ gate'[w].pc = "evidence" /\ gate'[w].outcome = "Verified"
              \/ ~separate /\ ~(gate[w].ok /\ ok) /\ gate'[w].pc = "record" /\ gate'[w].outcome = "Unknown"
    BY DEF GateTyped, IdlePass
  <2> HIDE DEF AfterDelete, MayBe, DeleteBackend, Goto, AllAbsent, PassOver
  <2> QED
    BY <2>1, <2>2, <2>3, <2>4, <2>5 DEF GateSafe
<1>4. AuthoritySafe' /\ ReleasedOnProof'
  BY DEF AuthoritySafe, ReleasedOnProof
<1>5. AuthorityTyped' /\ TokenOrder' /\ BoundToToken' /\ ReceiptHonest' /\ ProofSafe'
  BY DEF AuthorityTyped, TokenOrder, BoundToToken, ReceiptHonest, ProofSafe
<1> QED
  BY <1>1, <1>2, <1>3, <1>4, <1>5

\* The evidence object is created once, or adopted as it is.
LEMMA PersistEvidenceStep == ASSUME TeardownInv, NEW w \in Replicas, PersistEvidence(w)
                             PROVE  TeardownInv'
<1> USE RetryAssumption DEF TeardownInv, PersistEvidence, PassOver, IdlePass, Goto, Adoptable
<1>1. TypeOK'
  <2>1. evidence' \in 0 .. NoEvidence
    BY Types DEF GateTyped, AuthorityTyped, LeaseStates, Receipts, NoEvidence
  <2> QED
    BY <2>1 DEF TypeOK
<1>2. GateTyped'
  BY DEF GateTyped
<1>3. GateSafe'
  BY DEF GateSafe, GateTyped, TypeOK, LeaseStates, InstanceStates, Receipts, NoEvidence,
     ReceiptHonest, ReleasedOnProof, BoundToToken, TokenOrder
<1>4. AuthoritySafe' /\ ReleasedOnProof'
  BY DEF AuthoritySafe, AuthorityTyped, TypeOK, LeaseStates, InstanceStates, Receipts,
     NoEvidence, BoundToToken, TokenOrder, ReleasedOnProof, GateSafe, GateTyped, ReceiptHonest
<1>5. AuthorityTyped' /\ TokenOrder' /\ BoundToToken' /\ ReceiptHonest' /\ ProofSafe'
  BY DEF AuthorityTyped, TokenOrder, BoundToToken, ReceiptHonest, ProofSafe
<1> QED
  BY <1>1, <1>2, <1>3, <1>4, <1>5

\* The outcome lands on the lease the pass began with, or nowhere.
LEMMA RecordOutcomeStep == ASSUME TeardownInv, NEW w \in Replicas, RecordOutcome(w)
                           PROVE  TeardownInv'
<1> USE RetryAssumption DEF TeardownInv, RecordOutcome, PassOver, IdlePass, objects, Goto
<1>1. TypeOK'
  <2>1. lease' \in LeaseStates
    BY Types, RecordedLease
  <2> QED
    BY <2>1 DEF TypeOK
<1>2. GateTyped'
  <2>1. lease' \in LeaseStates
    BY Types, RecordedLease
  <2> QED
    BY <2>1 DEF GateTyped, IdlePass
<1>3. TokenOrder' /\ BoundToToken'
  BY DEF TokenOrder, BoundToToken, TypeOK, LeaseStates
<1>4. ReceiptHonest'
  BY RecordedLease DEF ReceiptHonest, GateSafe, GateTyped, objects
<1>5. ProofSafe'
  BY DEF ProofSafe, TypeOK, LeaseStates
<1>6. GateSafe'
  BY DEF GateSafe, GateTyped, TypeOK, LeaseStates, InstanceStates, Receipts, NoEvidence,
     ReceiptHonest, ReleasedOnProof, BoundToToken, TokenOrder
<1>7. ReleasedOnProof'
  BY DEF ReleasedOnProof, TypeOK, LeaseStates, InstanceStates, Receipts, NoEvidence, GateSafe,
     GateTyped, AuthoritySafe, AuthorityTyped, BoundToToken, TokenOrder, ReceiptHonest
<1>8. AuthorityTyped' /\ AuthoritySafe'
  BY DEF AuthorityTyped, AuthoritySafe
<1> QED
  BY <1>1, <1>2, <1>3, <1>4, <1>5, <1>6, <1>7, <1>8

LEMMA ConsumeReceiptStep == ASSUME TeardownInv, NEW w \in Replicas, ConsumeReceipt(w)
                            PROVE  TeardownInv'
<1> USE RetryAssumption DEF TeardownInv, ConsumeReceipt, PassOver, IdlePass, objects, Goto
<1>1. TypeOK'
  BY DEF TypeOK, LeaseStates, GateTyped
<1>2. GateTyped'
  BY DEF GateTyped
<1>3. TokenOrder' /\ BoundToToken'
  BY DEF TokenOrder, BoundToToken, TypeOK, LeaseStates
<1>4. ReceiptHonest' /\ ProofSafe'
  BY DEF ReceiptHonest, ProofSafe, TypeOK, LeaseStates
<1>5. GateSafe'
  BY DEF GateSafe, TypeOK, LeaseStates, GateTyped
<1>6. ReleasedOnProof'
  BY DEF ReleasedOnProof, TypeOK, LeaseStates
<1>7. AuthorityTyped' /\ AuthoritySafe'
  BY DEF AuthorityTyped, AuthoritySafe
<1> QED
  BY <1>1, <1>2, <1>3, <1>4, <1>5, <1>6, <1>7

\* The instance goes only behind a Verified receipt.
LEMMA AdvanceDeletionStep == ASSUME TeardownInv, NEW w \in Replicas, AdvanceDeletion(w)
                             PROVE  TeardownInv'
<1> USE RetryAssumption DEF TeardownInv, AdvanceDeletion, PassOver, IdlePass, Goto
<1>1. TypeOK'
  <2>1. inst' \in InstanceStates
    BY Types DEF InstanceStates
  <2> QED
    BY <2>1 DEF TypeOK
<1>2. GateTyped'
  BY DEF GateTyped
<1>3. BoundToToken'
  BY DEF BoundToToken, TypeOK, InstanceStates
<1>4. ReceiptHonest' /\ ProofSafe'
  BY DEF ReceiptHonest, ProofSafe, TypeOK, InstanceStates
<1>5. GateSafe'
  BY DEF GateSafe, TypeOK, InstanceStates, GateTyped
<1>6. AuthoritySafe' /\ ReleasedOnProof'
  BY DEF AuthoritySafe, AuthorityTyped, TypeOK, LeaseStates, InstanceStates, Receipts,
     NoEvidence, BoundToToken, TokenOrder, ReleasedOnProof, GateSafe, GateTyped, ReceiptHonest
<1>7. AuthorityTyped' /\ TokenOrder'
  BY DEF AuthorityTyped, TokenOrder
<1> QED
  BY <1>1, <1>2, <1>3, <1>4, <1>5, <1>6, <1>7

LEMMA QuarantineInstanceStep == ASSUME TeardownInv, NEW w \in Replicas, QuarantineInstance(w)
                                PROVE  TeardownInv'
<1> USE RetryAssumption DEF TeardownInv, QuarantineInstance, PassOver, IdlePass, Goto
<1>1. TypeOK'
  BY DEF TypeOK, InstanceStates, GateTyped
<1>2. GateTyped'
  BY DEF GateTyped
<1>3. BoundToToken'
  BY DEF BoundToToken, TypeOK, InstanceStates
<1>4. ReceiptHonest' /\ ProofSafe'
  BY DEF ReceiptHonest, ProofSafe, TypeOK, InstanceStates
<1>5. GateSafe'
  BY DEF GateSafe, TypeOK, InstanceStates, GateTyped
<1>6. AuthoritySafe' /\ ReleasedOnProof'
  BY DEF AuthoritySafe, ReleasedOnProof, TypeOK, InstanceStates
<1>7. AuthorityTyped' /\ TokenOrder'
  BY DEF AuthorityTyped, TokenOrder
<1> QED
  BY <1>1, <1>2, <1>3, <1>4, <1>5, <1>6, <1>7

LEMMA QuarantineLeaseStep == ASSUME TeardownInv, NEW w \in Replicas, QuarantineLease(w)
                             PROVE  TeardownInv'
<1> USE RetryAssumption DEF TeardownInv, QuarantineLease, PassOver, IdlePass, objects, Goto
<1>1. TypeOK'
  BY DEF TypeOK, LeaseStates, GateTyped
<1>2. GateTyped'
  BY DEF GateTyped
<1>3. TokenOrder' /\ BoundToToken'
  BY DEF TokenOrder, BoundToToken, TypeOK, LeaseStates
<1>4. ReceiptHonest' /\ ProofSafe'
  BY DEF ReceiptHonest, ProofSafe, TypeOK, LeaseStates
<1>5. GateSafe'
  BY DEF GateSafe, TypeOK, LeaseStates, GateTyped
<1>6. ReleasedOnProof'
  BY DEF ReleasedOnProof, TypeOK, LeaseStates
<1>7. AuthorityTyped' /\ AuthoritySafe'
  BY DEF AuthorityTyped, AuthoritySafe
<1> QED
  BY <1>1, <1>2, <1>3, <1>4, <1>5, <1>6, <1>7

LEMMA LeaseUnreadableStep == ASSUME TeardownInv, NEW w \in Replicas, LeaseUnreadable(w)
                             PROVE  TeardownInv'
<1> USE RetryAssumption DEF TeardownInv, LeaseUnreadable, objects, Goto, CanRun, GateRuns,
        Serving
<1>1. TypeOK'
  BY DEF TypeOK, GateTyped
<1>2. GateTyped'
  BY DEF GateTyped
<1>3. GateSafe'
  BY DEF GateSafe, GateTyped
<1>4. AuthorityTyped' /\ TokenOrder' /\ BoundToToken' /\ ReceiptHonest' /\ AuthoritySafe' /\ ProofSafe' /\ ReleasedOnProof'
  BY DEF AuthorityTyped, TokenOrder, BoundToToken, ReceiptHonest, AuthoritySafe, ProofSafe,
     ReleasedOnProof
<1> QED
  BY <1>1, <1>2, <1>3, <1>4

LEMMA BackendUnsupportedStep == ASSUME TeardownInv, NEW w \in Replicas, BackendUnsupported(w)
                                PROVE  TeardownInv'
<1> USE RetryAssumption DEF TeardownInv, BackendUnsupported, objects, Goto
<1>1. TypeOK'
  BY DEF TypeOK, GateTyped
<1>2. GateTyped'
  BY DEF GateTyped
<1>3. GateSafe'
  BY DEF GateSafe, GateTyped
<1>4. AuthorityTyped' /\ TokenOrder' /\ BoundToToken' /\ ReceiptHonest' /\ AuthoritySafe' /\ ProofSafe' /\ ReleasedOnProof'
  BY DEF AuthorityTyped, TokenOrder, BoundToToken, ReceiptHonest, AuthoritySafe, ProofSafe,
     ReleasedOnProof
<1> QED
  BY <1>1, <1>2, <1>3, <1>4

-----------------------------------------------------------------------------
(* The authority, the environment and faults.                              *)

LEMMA AuthorityBeginsStep == ASSUME TeardownInv, AuthorityBegins
                             PROVE  TeardownInv'
<1> USE RetryAssumption DEF TeardownInv, AuthorityBegins, passes, objects, InProgress,
        Reciprocal
<1>1. TypeOK'
  <2> HIDE DEF InProgress
  <2>1. lease' \in LeaseStates
    BY Types, InProgressTyped DEF ReceiptHonest
  <2> QED
    BY <2>1 DEF TypeOK
<1>2. TokenOrder' /\ BoundToToken'
  BY DEF TokenOrder, BoundToToken, TypeOK, LeaseStates
<1>3. ReceiptHonest' /\ ProofSafe'
  BY DEF ReceiptHonest, ProofSafe, TypeOK, LeaseStates
<1>4. GateSafe'
  BY DEF GateSafe, TypeOK, LeaseStates
<1>5. ReleasedOnProof'
  BY DEF ReleasedOnProof, TypeOK, LeaseStates
<1>6. GateTyped' /\ AuthorityTyped' /\ AuthoritySafe'
  BY DEF GateTyped, AuthorityTyped, AuthoritySafe
<1> QED
  BY <1>1, <1>2, <1>3, <1>4, <1>5, <1>6

\* The authority reads, and deletes nothing.
LEMMA AuthorityObservesStep == ASSUME TeardownInv, AuthorityObserves
                               PROVE  TeardownInv'
<1> USE RetryAssumption DEF TeardownInv, AuthorityObserves, objects, Reciprocal
<1>1. TypeOK'
  BY DEF TypeOK, AuthorityTyped
<1>2. AuthorityTyped'
  BY DEF AuthorityTyped, TypeOK, IdlePass
<1>3. AuthoritySafe'
  BY DEF AuthoritySafe, AuthorityTyped
<1>4. GateTyped' /\ TokenOrder' /\ BoundToToken' /\ ReceiptHonest' /\ GateSafe' /\ ProofSafe' /\ ReleasedOnProof'
  BY DEF GateTyped, TokenOrder, BoundToToken, ReceiptHonest, GateSafe, ProofSafe,
     ReleasedOnProof
<1> QED
  BY <1>1, <1>2, <1>3, <1>4

LEMMA AuthorityPersistsStep == ASSUME TeardownInv, AuthorityPersists
                               PROVE  TeardownInv'
<1> USE RetryAssumption DEF TeardownInv, AuthorityPersists, IdlePass, Adoptable
<1>1. TypeOK'
  <2>1. evidence' \in 0 .. NoEvidence
    BY Types DEF GateTyped, AuthorityTyped, LeaseStates, Receipts, NoEvidence
  <2> QED
    BY <2>1 DEF TypeOK
<1>2. AuthorityTyped'
  BY DEF AuthorityTyped
<1>3. GateSafe'
  BY DEF GateSafe, GateTyped, TypeOK, LeaseStates, InstanceStates, Receipts, NoEvidence,
     ReceiptHonest, ReleasedOnProof, BoundToToken, TokenOrder
<1>4. AuthoritySafe' /\ ReleasedOnProof'
  BY DEF AuthoritySafe, AuthorityTyped, TypeOK, LeaseStates, InstanceStates, Receipts,
     NoEvidence, BoundToToken, TokenOrder, ReleasedOnProof, GateSafe, GateTyped, ReceiptHonest
<1>5. GateTyped' /\ TokenOrder' /\ BoundToToken' /\ ReceiptHonest' /\ ProofSafe'
  BY DEF GateTyped, TokenOrder, BoundToToken, ReceiptHonest, ProofSafe
<1> QED
  BY <1>1, <1>2, <1>3, <1>4, <1>5

LEMMA AuthorityRecordsStep == ASSUME TeardownInv, AuthorityRecords
                              PROVE  TeardownInv'
<1> USE RetryAssumption DEF TeardownInv, AuthorityRecords, IdlePass, objects
<1>1. TypeOK'
  BY DEF TypeOK, LeaseStates, InstanceStates, Receipts, NoEvidence, ReceiptHonest
<1>2. AuthorityTyped'
  BY DEF AuthorityTyped
<1>3. TokenOrder' /\ BoundToToken'
  BY DEF TokenOrder, BoundToToken, TypeOK, LeaseStates
<1>4. ReceiptHonest'
  BY AttestedLease DEF ReceiptHonest, AuthoritySafe, AuthorityTyped, objects
<1>5. ProofSafe'
  BY DEF ProofSafe, TypeOK, LeaseStates
<1>6. GateSafe'
  BY DEF GateSafe, TypeOK, LeaseStates
<1>7. AuthoritySafe' /\ ReleasedOnProof'
  BY DEF AuthoritySafe, ReleasedOnProof, TypeOK, LeaseStates, AuthorityTyped
<1>8. GateTyped'
  BY DEF GateTyped
<1> QED
  BY <1>1, <1>2, <1>3, <1>4, <1>5, <1>6, <1>7, <1>8

\* A late POST meets an unbound instance only.
LEMMA PostLandsStep == ASSUME TeardownInv, PostLands
                       PROVE  TeardownInv'
<1> USE RetryAssumption DEF TeardownInv, PostLands, passes
<1>1. TypeOK'
  <2>1. secret' \in BOOLEAN
    BY DEF TypeOK
  <2>2. post' \in BOOLEAN
    BY DEF TypeOK
  <2> QED
    BY <2>1, <2>2 DEF TypeOK
<1>2. TokenOrder'
  BY DEF TokenOrder
<1>3. ProofSafe'
  BY DEF ProofSafe
<1>4. GateSafe'
  BY DEF GateSafe, GateTyped, TypeOK, LeaseStates, InstanceStates, Receipts, NoEvidence,
     ReceiptHonest, ReleasedOnProof, BoundToToken, TokenOrder, IdlePass
<1>5. AuthoritySafe' /\ ReleasedOnProof'
  BY DEF AuthoritySafe, AuthorityTyped, TypeOK, LeaseStates, InstanceStates, Receipts,
     NoEvidence, BoundToToken, TokenOrder, IdlePass, ReleasedOnProof, GateSafe, GateTyped,
     ReceiptHonest
<1>6. GateTyped' /\ AuthorityTyped' /\ BoundToToken' /\ ReceiptHonest'
  BY DEF GateTyped, AuthorityTyped, BoundToToken, ReceiptHonest
<1> QED
  BY <1>1, <1>2, <1>3, <1>4, <1>5, <1>6

LEMMA PostLostStep == ASSUME TeardownInv, PostLost
                      PROVE  TeardownInv'
<1> USE RetryAssumption DEF TeardownInv, PostLost, passes
<1>1. TypeOK'
  <2>1. post' \in BOOLEAN
    BY DEF TypeOK
  <2> QED
    BY <2>1 DEF TypeOK
<1>2. TokenOrder'
  BY DEF TokenOrder
<1>3. ProofSafe'
  BY DEF ProofSafe
<1>4. GateTyped' /\ AuthorityTyped' /\ BoundToToken' /\ ReceiptHonest' /\ GateSafe' /\ AuthoritySafe' /\ ReleasedOnProof'
  BY DEF GateTyped, AuthorityTyped, BoundToToken, ReceiptHonest, GateSafe, AuthoritySafe,
     ReleasedOnProof
<1> QED
  BY <1>1, <1>2, <1>3, <1>4

LEMMA TtlElapsesStep == ASSUME TeardownInv, TtlElapses
                        PROVE  TeardownInv'
<1> USE RetryAssumption DEF TeardownInv, TtlElapses, passes, objects
<1>1. TypeOK'
  BY DEF TypeOK
<1>2. GateTyped' /\ AuthorityTyped' /\ TokenOrder' /\ BoundToToken' /\ ReceiptHonest' /\ GateSafe' /\ AuthoritySafe' /\ ProofSafe' /\ ReleasedOnProof'
  BY DEF GateTyped, AuthorityTyped, TokenOrder, BoundToToken, ReceiptHonest, GateSafe,
     AuthoritySafe, ProofSafe, ReleasedOnProof
<1> QED
  BY <1>1, <1>2

LEMMA ReleaseStep == ASSUME TeardownInv, Release
                     PROVE  TeardownInv'
<1> USE RetryAssumption DEF TeardownInv, Release, passes, objects
<1>1. TypeOK'
  BY DEF TypeOK, LeaseStates
<1>2. TokenOrder' /\ BoundToToken'
  BY DEF TokenOrder, BoundToToken, TypeOK, LeaseStates
<1>3. ReceiptHonest' /\ ProofSafe'
  BY DEF ReceiptHonest, ProofSafe, TypeOK, LeaseStates
<1>4. GateSafe'
  BY DEF GateSafe, TypeOK, LeaseStates
<1>5. ReleasedOnProof'
  BY DEF ReleasedOnProof, TypeOK, LeaseStates
<1>6. GateTyped' /\ AuthorityTyped' /\ AuthoritySafe'
  BY DEF GateTyped, AuthorityTyped, AuthoritySafe
<1> QED
  BY <1>1, <1>2, <1>3, <1>4, <1>5, <1>6

LEMMA LoseCandidateStep == ASSUME TeardownInv, LoseCandidate
                           PROVE  TeardownInv'
<1> USE RetryAssumption DEF TeardownInv, LoseCandidate, Free, passes
<1>1. TypeOK'
  BY DEF TypeOK, InstanceStates
<1>2. BoundToToken'
  BY DEF BoundToToken, TypeOK, InstanceStates
<1>3. ReceiptHonest' /\ ProofSafe'
  BY DEF ReceiptHonest, ProofSafe, TypeOK, InstanceStates
<1>4. GateSafe'
  BY DEF GateSafe, TypeOK, InstanceStates
<1>5. AuthoritySafe' /\ ReleasedOnProof'
  BY DEF AuthoritySafe, ReleasedOnProof, TypeOK, InstanceStates
<1>6. GateTyped' /\ AuthorityTyped' /\ TokenOrder'
  BY DEF GateTyped, AuthorityTyped, TokenOrder
<1> QED
  BY <1>1, <1>2, <1>3, <1>4, <1>5, <1>6

LEMMA DeleteInstanceStep == ASSUME TeardownInv, DeleteInstance
                            PROVE  TeardownInv'
<1> USE RetryAssumption DEF TeardownInv, DeleteInstance, passes
<1>1. TypeOK'
  <2>1. inst' \in InstanceStates
    BY Types DEF InstanceStates
  <2> QED
    BY <2>1 DEF TypeOK
<1>2. BoundToToken'
  BY DEF BoundToToken, TypeOK, InstanceStates
<1>3. ReceiptHonest' /\ ProofSafe'
  BY DEF ReceiptHonest, ProofSafe, TypeOK, InstanceStates
<1>4. GateSafe'
  BY DEF GateSafe, TypeOK, InstanceStates
<1>5. AuthoritySafe' /\ ReleasedOnProof'
  BY DEF AuthoritySafe, ReleasedOnProof, TypeOK, InstanceStates
<1>6. GateTyped' /\ AuthorityTyped' /\ TokenOrder'
  BY DEF GateTyped, AuthorityTyped, TokenOrder
<1> QED
  BY <1>1, <1>2, <1>3, <1>4, <1>5, <1>6

\* A free instance has no receipt to wait for.
LEMMA FinalizeFreeStep == ASSUME TeardownInv, FinalizeFree
                          PROVE  TeardownInv'
<1> USE RetryAssumption DEF TeardownInv, FinalizeFree, passes
<1>1. TypeOK'
  <2>1. inst' \in InstanceStates
    BY Types DEF InstanceStates
  <2>2. backend' \in BOOLEAN
    BY DEF TypeOK
  <2> QED
    BY <2>1, <2>2 DEF TypeOK
<1>2. BoundToToken'
  BY DEF BoundToToken, TypeOK, InstanceStates
<1>3. ReceiptHonest' /\ ProofSafe'
  BY DEF ReceiptHonest, ProofSafe, TypeOK, InstanceStates
<1>4. GateSafe'
  BY DEF GateSafe, TypeOK, InstanceStates
<1>5. AuthoritySafe' /\ ReleasedOnProof'
  BY DEF AuthoritySafe, AuthorityTyped, TypeOK, LeaseStates, InstanceStates, Receipts,
     NoEvidence, BoundToToken, TokenOrder, IdlePass, ReleasedOnProof, GateSafe, GateTyped,
     ReceiptHonest
<1>6. GateTyped' /\ AuthorityTyped' /\ TokenOrder'
  BY DEF GateTyped, AuthorityTyped, TokenOrder
<1> QED
  BY <1>1, <1>2, <1>3, <1>4, <1>5, <1>6

LEMMA OverrideLeaseStep == ASSUME TeardownInv, OverrideLease
                           PROVE  TeardownInv'
<1> USE RetryAssumption DEF TeardownInv, OverrideLease, passes
<1>1. TypeOK'
  BY DEF TypeOK, LeaseStates
<1>2. TokenOrder' /\ BoundToToken'
  BY DEF TokenOrder, BoundToToken, TypeOK, LeaseStates
<1>3. ReceiptHonest' /\ ProofSafe'
  BY DEF ReceiptHonest, ProofSafe, TypeOK, LeaseStates
<1>4. GateSafe'
  BY DEF GateSafe, TypeOK, LeaseStates
<1>5. AuthoritySafe' /\ ReleasedOnProof'
  BY DEF AuthoritySafe, ReleasedOnProof, TypeOK, LeaseStates
<1>6. GateTyped' /\ AuthorityTyped'
  BY DEF GateTyped, AuthorityTyped
<1> QED
  BY <1>1, <1>2, <1>3, <1>4, <1>5, <1>6

LEMMA OverrideInstanceStep == ASSUME TeardownInv, OverrideInstance
                              PROVE  TeardownInv'
<1> USE RetryAssumption DEF TeardownInv, OverrideInstance, passes
<1>1. TypeOK'
  <2>1. inst' \in InstanceStates
    BY Types DEF InstanceStates
  <2> QED
    BY <2>1 DEF TypeOK
<1>2. BoundToToken'
  BY DEF BoundToToken, TypeOK, InstanceStates
<1>3. ReceiptHonest' /\ ProofSafe'
  BY DEF ReceiptHonest, ProofSafe, TypeOK, InstanceStates
<1>4. GateSafe'
  BY DEF GateSafe, TypeOK, InstanceStates
<1>5. AuthoritySafe' /\ ReleasedOnProof'
  BY DEF AuthoritySafe, ReleasedOnProof, TypeOK, InstanceStates
<1>6. GateTyped' /\ AuthorityTyped' /\ TokenOrder'
  BY DEF GateTyped, AuthorityTyped, TokenOrder
<1> QED
  BY <1>1, <1>2, <1>3, <1>4, <1>5, <1>6

\* An operator goes around the gate, and the instance says so.
LEMMA OverrideFinalizerStep == ASSUME TeardownInv, OverrideFinalizer
                               PROVE  TeardownInv'
<1> USE RetryAssumption DEF TeardownInv, OverrideFinalizer, passes, Serving
<1>1. TypeOK'
  <2>1. inst' \in InstanceStates
    BY Types DEF InstanceStates
  <2>2. backend' \in BOOLEAN
    BY DEF TypeOK
  <2> QED
    BY <2>1, <2>2 DEF TypeOK
<1>2. BoundToToken'
  BY DEF BoundToToken, TypeOK, InstanceStates
<1>3. ReceiptHonest' /\ ProofSafe'
  BY DEF ReceiptHonest, ProofSafe, TypeOK, InstanceStates
<1>4. GateSafe'
  BY DEF GateSafe, TypeOK, InstanceStates
<1>5. AuthoritySafe'
  <2>1. backend' => backend
    BY DEF TypeOK
  <2>2. inst' = [inst EXCEPT !.phase = "gone"] /\ UNCHANGED <<lease, secret, evidence, authority>>
    OBVIOUS
  <2>3. inst.override /\ inst'.override = inst.override /\ inst'.bound = inst.bound
    BY <2>2, Types DEF InstanceStates
  <2> HIDE DEF OverrideFinalizer
  <2> QED
    BY <2>1, <2>2, <2>3 DEF AuthoritySafe
<1>6. ReleasedOnProof'
  <2>1. backend' => backend
    BY DEF TypeOK
  <2>2. inst' = [inst EXCEPT !.phase = "gone"] /\ UNCHANGED <<lease, secret, evidence, authority>>
    OBVIOUS
  <2>3. inst.override /\ inst'.override = inst.override /\ inst'.bound = inst.bound
    BY <2>2, Types DEF InstanceStates
  <2> HIDE DEF OverrideFinalizer
  <2> QED
    BY <2>1, <2>2, <2>3 DEF ReleasedOnProof, InstanceStates
<1>7. GateTyped' /\ AuthorityTyped' /\ TokenOrder'
  BY DEF GateTyped, AuthorityTyped, TokenOrder
<1> QED
  BY <1>1, <1>2, <1>3, <1>4, <1>5, <1>6, <1>7

LEMMA AbandonGateStep == ASSUME TeardownInv, AbandonGate
                         PROVE  TeardownInv'
<1> USE RetryAssumption DEF TeardownInv, AbandonGate, IdlePass, objects, Goto
<1>1. TypeOK'
  BY DEF TypeOK, GateTyped
<1>2. GateTyped'
  BY DEF GateTyped
<1>3. GateSafe'
  BY DEF GateSafe, GateTyped
<1>4. AuthorityTyped' /\ TokenOrder' /\ BoundToToken' /\ ReceiptHonest' /\ AuthoritySafe' /\ ProofSafe' /\ ReleasedOnProof'
  BY DEF AuthorityTyped, TokenOrder, BoundToToken, ReceiptHonest, AuthoritySafe, ProofSafe,
     ReleasedOnProof
<1> QED
  BY <1>1, <1>2, <1>3, <1>4

LEMMA AbandonMarkerStep == ASSUME TeardownInv, AbandonMarker
                           PROVE  TeardownInv'
<1> USE RetryAssumption DEF TeardownInv, AbandonMarker, IdlePass, objects
<1>1. TypeOK'
  BY DEF TypeOK
<1>2. GateTyped' /\ AuthorityTyped' /\ TokenOrder' /\ BoundToToken' /\ ReceiptHonest' /\ GateSafe' /\ AuthoritySafe' /\ ProofSafe' /\ ReleasedOnProof'
  BY DEF GateTyped, AuthorityTyped, TokenOrder, BoundToToken, ReceiptHonest, GateSafe,
     AuthoritySafe, ProofSafe, ReleasedOnProof
<1> QED
  BY <1>1, <1>2

LEMMA AbandonAuthorityStep == ASSUME TeardownInv, AbandonAuthority
                              PROVE  TeardownInv'
<1> USE RetryAssumption DEF TeardownInv, AbandonAuthority, IdlePass, objects
<1>1. TypeOK'
  BY DEF TypeOK, AuthorityTyped
<1>2. AuthorityTyped'
  BY DEF AuthorityTyped
<1>3. AuthoritySafe'
  BY DEF AuthoritySafe, AuthorityTyped
<1>4. GateTyped' /\ TokenOrder' /\ BoundToToken' /\ ReceiptHonest' /\ GateSafe' /\ ProofSafe' /\ ReleasedOnProof'
  BY DEF GateTyped, TokenOrder, BoundToToken, ReceiptHonest, GateSafe, ProofSafe,
     ReleasedOnProof
<1> QED
  BY <1>1, <1>2, <1>3, <1>4

-----------------------------------------------------------------------------
(* The theorems.                                                           *)

LEMMA Initially == Init => TeardownInv
<1> SUFFICES ASSUME Init PROVE TeardownInv
  OBVIOUS
<1> USE RetryAssumption DEF Init
<1>1. TypeOK
  <2>1. NoReceipt \in Receipts
    BY DEF NoReceipt, Receipts
  <2>2. lease \in LeaseStates
    BY <2>1 DEF LeaseStates
  <2>3. inst \in InstanceStates /\ evidence \in 0 .. NoEvidence
    BY DEF InstanceStates, NoEvidence
  <2> QED
    BY <2>2, <2>3 DEF TypeOK
<1>2. GateTyped /\ AuthorityTyped /\ GateSafe /\ AuthoritySafe
  BY DEF GateTyped, AuthorityTyped, GateSafe, AuthoritySafe, IdlePass
<1>3. TokenOrder /\ BoundToToken /\ ReceiptHonest /\ ProofSafe /\ ReleasedOnProof
  BY DEF TokenOrder, BoundToToken, ReceiptHonest, ProofSafe, ReleasedOnProof, NoReceipt
<1> QED
  BY <1>1, <1>2, <1>3 DEF TeardownInv

LEMMA Stuttering == TeardownInv /\ UNCHANGED vars => TeardownInv'
<1> SUFFICES ASSUME TeardownInv, UNCHANGED vars PROVE TeardownInv'
  OBVIOUS
<1> USE DEF TeardownInv, vars
<1>1. TypeOK' /\ TokenOrder' /\ BoundToToken' /\ ReceiptHonest' /\ ProofSafe' /\ ReleasedOnProof'
  BY DEF TypeOK, TokenOrder, BoundToToken, ReceiptHonest, ProofSafe, ReleasedOnProof
<1>2. GateTyped' /\ AuthorityTyped' /\ GateSafe' /\ AuthoritySafe'
  BY DEF GateTyped, AuthorityTyped, GateSafe, AuthoritySafe
<1> QED
  BY <1>1, <1>2

LEMMA NextStep == TeardownInv /\ [Next]_vars => TeardownInv'
<1> SUFFICES ASSUME TeardownInv, [Next]_vars PROVE TeardownInv'
  OBVIOUS
<1>1. CASE BindSteps
  BY <1>1, PrepareIntentStep, DispatchCreateStep, SealTokenStep, ActivateTokenStep,
     StartReserveStep, LandReserveStep, AbandonIntentStep, FinalizeBindingStep
     DEF BindSteps
<1>2. CASE TerminalSteps
  BY <1>2, OpenAttemptStep, CloseCreationStep, RevokeTokenStep, ConfirmRevokedStep,
     AdoptIntentStep, ProveNeverBoundStep, RecycleInstanceStep, RecycleLeaseStep,
     RecycleAgainStep, AcknowledgeStep, RetireLeaseStep
     DEF TerminalSteps
<1>3. CASE \E w \in Replicas : GateSteps(w)
  BY <1>3, BeginAttemptStep, ResumeAttemptStep, ResumeVerifiedStep, DeleteTokenStep,
     DeleteBackendStep, PersistEvidenceStep, RecordOutcomeStep, ConsumeReceiptStep,
     AdvanceDeletionStep, QuarantineInstanceStep, QuarantineLeaseStep
     DEF GateSteps
<1>4. CASE AuthoritySteps
  BY <1>4, AuthorityBeginsStep, AuthorityObservesStep, AuthorityPersistsStep,
     AuthorityRecordsStep
     DEF AuthoritySteps
<1>5. CASE Environment
  BY <1>5, PostLandsStep, PostLostStep, TtlElapsesStep, ReleaseStep, LoseCandidateStep,
     DeleteInstanceStep, FinalizeFreeStep, OverrideLeaseStep, OverrideInstanceStep,
     OverrideFinalizerStep
     DEF Environment
<1>6. CASE Faults
  BY <1>6, LeaseUnreadableStep, BackendUnsupportedStep, DeleteTokenStep, DeleteBackendStep,
     AbandonGateStep, AbandonMarkerStep, AbandonAuthorityStep DEF Faults
<1>7. CASE UNCHANGED vars
  BY <1>7, Stuttering
<1> QED
  BY <1>1, <1>2, <1>3, <1>4, <1>5, <1>6, <1>7 DEF Next, Sound

(* TeardownInv holds in every reachable state: the token protocol, what a  *)
(* pass has found absent, and the receipts stay consistent through every   *)
(* overlap of replicas, crash, override and late request.                  *)
THEOREM TeardownInvariant == Spec => []TeardownInv
BY Initially, NextStep, PTL DEF Spec

(* Every object stays in its set.                                          *)
THEOREM TeardownTypes == Spec => []TypeOK
<1>1. TeardownInv => TypeOK
  BY DEF TeardownInv
<1> QED
  BY <1>1, TeardownInvariant, PTL

(* advance_verified_instance_deletion: the last cleanup handle of a bound  *)
(* instance goes, and a Verified receipt is written, only with manifest    *)
(* and token absent and the immutable evidence in place.                   *)
THEOREM EvidenceBeforeRelease == Spec => []ReleasedOnProof
<1>1. TeardownInv => ReleasedOnProof
  BY DEF TeardownInv
<1> QED
  BY <1>1, TeardownInvariant, PTL

(* record_unbound_release_proof: a NeverBound proof stays true, whatever   *)
(* POST or reservation was still under way.                                *)
THEOREM NeverBoundStays == Spec => []NeverBoundSound
<1>1. TeardownInv => NeverBoundSound
  BY DEF TeardownInv, ProofSafe, NeverBoundSound
<1> QED
  BY <1>1, TeardownInvariant, PTL

\* What the destructive steps of one action may do.
DestroyGuard ==
    /\ inst.bound /\ backend /\ ~backend' => lease.receipt.outcome # "none" \/ inst.override
    /\ secret /\ ~secret' =>
         lease.attempt \/ lease.phase = "Pending" \/ lease'.phase = "gone"

LEMMA DestroyStep == ASSUME TeardownInv, Next PROVE DestroyGuard
<1> USE DEF TeardownInv, DestroyGuard
<1>1. CASE BindSteps
  BY <1>1 DEF BindSteps, PrepareIntent, DispatchCreate, SealToken, ActivateToken, StartReserve,
     LandReserve, AbandonIntent, FinalizeBinding, objects
<1>2. CASE RevokeToken
  BY <1>2 DEF RevokeToken, Terminal
<1>3. CASE TerminalSteps /\ ~RevokeToken
  BY <1>3 DEF TerminalSteps, OpenAttempt, CloseCreation, ConfirmRevoked, AdoptIntent,
     ProveNeverBound, RecycleInstance, RecycleLease, RecycleAgain, Acknowledge, RetireLease, objects
<1>4. CASE \E w \in Replicas, ok \in BOOLEAN : DeleteToken(w, ok)
  BY <1>4 DEF DeleteToken, GateSafe, ReceiptHonest
<1>5. CASE \E w \in Replicas, ok \in BOOLEAN : DeleteBackend(w, ok)
  BY <1>5 DEF DeleteBackend, GateSafe
<1>6. CASE \E w \in Replicas :
             \/ BeginAttempt(w) \/ ResumeAttempt(w) \/ ResumeVerified(w) \/ PersistEvidence(w)
             \/ RecordOutcome(w) \/ ConsumeReceipt(w) \/ AdvanceDeletion(w)
             \/ QuarantineInstance(w) \/ QuarantineLease(w) \/ LeaseUnreadable(w)
             \/ BackendUnsupported(w)
  BY <1>6 DEF BeginAttempt, ResumeAttempt, ResumeVerified, PersistEvidence, RecordOutcome,
     ConsumeReceipt, AdvanceDeletion, QuarantineInstance, QuarantineLease, LeaseUnreadable,
     BackendUnsupported, objects
<1>7. CASE AuthoritySteps \/ AbandonGate \/ AbandonMarker \/ AbandonAuthority
  BY <1>7 DEF AuthoritySteps, AuthorityBegins, AuthorityObserves, AuthorityPersists,
     AuthorityRecords, AbandonGate, AbandonMarker, AbandonAuthority, objects
<1>8. CASE FinalizeFree
  BY <1>8 DEF FinalizeFree, BoundToToken
<1>9. CASE OverrideLease
  BY <1>9, Types DEF OverrideLease, LeaseStates
<1>10. CASE OverrideFinalizer
  BY <1>10 DEF OverrideFinalizer
<1>11. CASE Environment /\ ~FinalizeFree /\ ~OverrideLease /\ ~OverrideFinalizer
  BY <1>11 DEF Environment, PostLands, PostLost, TtlElapses, Release, LoseCandidate,
     DeleteInstance, OverrideInstance, objects
<1> QED
  BY <1>1, <1>2, <1>3, <1>4, <1>5, <1>6, <1>7, <1>8, <1>9, <1>10, <1>11
     DEF Next, Sound, Faults, GateSteps

(* verified_teardown_gate: the cluster is destroyed only under a receipt,  *)
(* the token of a terminal lease only under the attempt nonce, overrides   *)
(* aside; also by a replica that lost its leadership meanwhile.            *)
THEOREM AttemptBeforeDestroy == Spec => DestroyAfterAttempt
<1>1. TeardownInv /\ [Next]_vars => [DestroyGuard]_vars
  BY DestroyStep
<1> QED
  BY <1>1, TeardownInvariant, PTL DEF Spec, DestroyAfterAttempt, DestroyGuard
=============================================================================
