------------------------- MODULE MCWorkflowTaskQueue -------------------------
(* A small instance of WorkflowTaskQueue: two tasks, for two review items.   *)
EXTENDS WorkflowTaskQueue

CONSTANTS t1, item1, item2

MCTwoItems == [t \in Task |-> IF t = t1 THEN item1 ELSE item2]
=============================================================================
