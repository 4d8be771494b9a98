SPECIFICATION Spec
CONSTANTS
  k1 = k1
  k2 = k2
  c1 = c1
  c2 = c2
  x = x
  y = y
  None = None
  Proposal = {p1}
  Permit = {k1, k2}
  Caller = {c1, c2}
  Content = {x, y}
  Controlled <- MCControlled
  Ttl = 1
  MaxVersion = 2
  MaxRevision = 2
  MaxTime = 2
SYMMETRY Symmetric
INVARIANTS
  PermitsSingleUse
  IntentMatchesApproval
  StatusIsBacked
PROPERTY CommitsOnlyCurrentApproved
\* Once the bounded permits, versions and ticks are used up the broker is idle.
CHECK_DEADLOCK FALSE
