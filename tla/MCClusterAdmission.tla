-------------------------- MODULE MCClusterAdmission --------------------------
\* Three requests: two share a key, the third shares an alias with the first;
\* the replica of the second has a fast clock.
EXTENDS ClusterAdmission, TLC

CONSTANTS q1, q2, q3, k, a

MCRequests == {q1, q2, q3}
MCKeyOf == q1 :> k @@ q2 :> k @@ q3 :> NoKey
MCAliasOf == q1 :> a @@ q2 :> NoAlias @@ q3 :> a
MCOffset == q1 :> 0 @@ q2 :> 1 @@ q3 :> 0
=============================================================================
