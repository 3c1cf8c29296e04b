--------------------------- MODULE MCLeaseBinding ---------------------------
(* Small instances of LeaseBinding for TLC.                                *)
EXTENDS LeaseBinding, TLC

CONSTANTS l1, l2, i1, i2, w1, w2, v1, v2, r1, r2

\* Two leases and two instances, every object under a name of its own.
DistinctLeaseNames == (l1 :> "la" @@ l2 :> "lb")
DistinctInstNames == (i1 :> "ia" @@ i2 :> "ib")
\* The second instance may reuse the name of the first once that is gone.
SharedInstName == (i1 :> "ia" @@ i2 :> "ia")

\* One operator process, or two that overlap around a change of leader.
OneReplica == [x \in Workers |-> r1]
TwoReplicas == [x \in Workers |-> IF x \in {w1, v1} THEN r1 ELSE r2]
=============================================================================
