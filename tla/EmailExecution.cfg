SPECIFICATION FairSpec
CONSTANTS
  Intent = {i1}
  Worker = {w1, w2}
  Window = 1
  MaxAttempts = 3
  MaxCrashes = 1
  MaxTime = 2
  None = None
INVARIANTS
  TypeOK
  OneOwner
  EffectsAudited
PROPERTIES
  ImplementsContract
  ClaimsResolve
\* Once every intent is settled and the clock is at its bound nothing runs.
CHECK_DEADLOCK FALSE
