--------------------------- MODULE OperatorGateMC ---------------------------
(* A small instance of OperatorGate: one policy revision, whose controlled *)
(* recipient every content is addressed to.                                *)
EXTENDS OperatorGate, TLC

MCControlled == [r \in 1..MaxRevision |-> Content]

Symmetric == Permutations(Permit) \cup Permutations(Caller)

=============================================================================
