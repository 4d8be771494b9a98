-------------------------- MODULE ParentWorkflowMC --------------------------
(* A small instance of ParentWorkflow: the second item works on the output *)
(* of the first, and only the first one can be cancelled.                  *)
EXTENDS ParentWorkflow

MCKey == {"budget", "evidence"}
MCDependsOn == [i \in 1..NItems |-> IF i = 1 THEN {"budget"} ELSE {"evidence"}]
MCProduces == [i \in 1..NItems |-> IF i = 1 THEN {"evidence"} ELSE {}]
MCChanges == {{"budget"}}
MCCancellable == [i \in 1..NItems |-> i = 1]

=============================================================================
