-------------------------- MODULE MCSandboxExecution --------------------------
(* Two requests on two replicas, for one key or for two, and a process that *)
(* can be replaced under the same Pod name.                                 *)
EXTENDS SandboxExecution

MCKeys == {1, 2}
MCHandlers == {"h1", "h2"}
MCKeyChoices == {[h \in MCHandlers |-> 1], [h \in MCHandlers |-> IF h = "h1" THEN 1 ELSE 2]}
MCProcs == {"a1", "a2", "b"}
MCProcOf == [h \in MCHandlers |-> IF h = "h1" THEN "a1" ELSE "b"]
MCSlotOf == [p \in MCProcs |-> IF p = "b" THEN "b" ELSE "a"]
=============================================================================
