----------------------------- MODULE MCAccessLedger -----------------------------
(* A small instance of AccessLedger: two operations of one principal on one    *)
(* lease, served by two Pods, each in its Pod's first process.                 *)
EXTENDS AccessLedger

CONSTANTS l1, p1, o1, o2, a, b

MCNameOf == [q \in Pods |-> q]
MCLeaseOf == [o \in Ops |-> l1]
MCPrincipalOf == [o \in Ops |-> p1]
MCPodOf == [o \in Ops |-> IF o = o1 THEN a ELSE b]
MCBootOf == [o \in Ops |-> 1]
=============================================================================
