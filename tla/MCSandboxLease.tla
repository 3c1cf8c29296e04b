---------------------------- MODULE MCSandboxLease ----------------------------
(***************************************************************************)
(* One lease, reconciled by the leader and by a pass of a deposed leader.  *)
(***************************************************************************)
EXTENDS SandboxLease, TLC

CONSTANTS leader, deposed
MCWorkers == {leader, deposed}
Symmetry  == Permutations(MCWorkers)
MCLeader  == {leader}
=============================================================================
