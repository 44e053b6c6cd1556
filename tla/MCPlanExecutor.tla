---------------------------- MODULE MCPlanExecutor ----------------------------
\* Two nodes that may run in either order and a third that needs both; and the
\* decomposer's chain of two.
EXTENDS PlanExecutor

Fork == [n \in 1 .. 3 |-> IF n = 3 THEN {1, 2} ELSE {}]
Chain == [n \in 1 .. 2 |-> IF n = 2 THEN {1} ELSE {}]
==============================================================================
