SPECIFICATION Spec
CONSTANTS
  Candidates = 2
  Requirement <- MCRequirement
  Priority <- MCPriority
  Weight <- MCWeight
  Criterion <- MCCriterion
  Accepts <- MCAccepts
  Factor <- MCFactor
  Revision = 1
  Pool <- MCPool
  MaxObservations = 3
  MaxTime = 2
  Forever = Forever
  None = None
INVARIANTS TypeOK EligibleIsProven RecommendsBest
PROPERTY OnlyResolutionReverses
\* The list is ranked once.
CHECK_DEADLOCK FALSE
