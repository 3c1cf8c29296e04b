------------------------------- MODULE MCIpam -------------------------------
(* A 4-bit address space: two slots, a narrower plan that keeps the first of them, *)
(* and ranges a user may pin.                                                      *)
EXTENDS Ipam

Wide == [service |-> [network |-> 0, block_prefix |-> 2, slot_prefix |-> 3],
         cluster |-> [network |-> 4, block_prefix |-> 2, slot_prefix |-> 4]]

Narrow == [Wide EXCEPT !.service.block_prefix = 3]

BothPlans == {Wide, Narrow}

At(p, s, k) == [svc |-> {cidr_at(p.service, s)}, cls |-> {cidr_at(p.cluster, k)}]

\* The second slot: a range that Wide has and Narrow has not.
SomeRequests == {At(Wide, 1, 1)}

\* One name is reused.
Uids == [n \in Members |-> IF n = "a" THEN 2 ELSE 1]

\* The slot arithmetic, over every plan of this width.
ASSUME PlanArithmetic == PlanSound

\* The plans of this instance cut the space alike; its pin is canonical.
ASSUME PlansAlike == OneGrid
=============================================================================
