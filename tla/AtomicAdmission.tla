--------------------------- MODULE AtomicAdmission ---------------------------
(***************************************************************************)
(* What Cluster admission promises one principal: creates happen one at a  *)
(* time, each when the quota has room, its idempotency key is unused and   *)
(* its alias is free, all judged at the moment the lease comes to exist.   *)
(* The lease of a request carries the request as its name.                 *)
(***************************************************************************)
EXTENDS Naturals, FiniteSets

CONSTANTS Requests, KeyOf, AliasOf, NoKey, NoAlias, MaxConcurrent

VARIABLE lease   \* "none", "active" or "ended", per request

Init == lease = [r \in Requests |-> "none"]

Create(r) ==
    /\ lease[r] = "none"
    /\ Cardinality({q \in Requests : lease[q] = "active"}) < MaxConcurrent
    /\ KeyOf[r] # NoKey =>
         \A q \in Requests : KeyOf[q] = KeyOf[r] => lease[q] = "none"
    /\ AliasOf[r] # NoAlias =>
         \A q \in Requests : AliasOf[q] = AliasOf[r] => lease[q] # "active"
    /\ lease' = [lease EXCEPT ![r] = "active"]

End(r) == lease[r] = "active" /\ lease' = [lease EXCEPT ![r] = "ended"]

Next == \E r \in Requests : Create(r) \/ End(r)

Spec == Init /\ [][Next]_lease
=============================================================================
