------------------------- MODULE MCLeaseBindingLive -------------------------
(* Small instances of LeaseBindingLive for TLC.                            *)
EXTENDS LeaseBindingLive, TLC

CONSTANTS l1, l2, i1, i2, w1, w2, v1, v2, r1, r2

DistinctLeaseNames == (l1 :> "la" @@ l2 :> "lb")
DistinctInstNames == (i1 :> "ia" @@ i2 :> "ib")

OneReplica == [x \in Workers |-> r1]
=============================================================================
