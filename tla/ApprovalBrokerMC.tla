-------------------------- MODULE ApprovalBrokerMC --------------------------
(* A small instance of ApprovalBroker: one proposal, two concurrent callers, *)
(* two contents of which the policy's second revision controls both.         *)
EXTENDS ApprovalBroker, TLC

CONSTANTS k1, k2, c1, c2, x, y

MCControlled == [r \in 1..MaxRevision |-> IF r = 1 THEN {x} ELSE {x, y}]

Symmetric == Permutations(Permit) \cup Permutations(Caller)

=============================================================================
