SPECIFICATION GateSpec
CONSTANTS
  Proposal = {p1}
  Permit = {k1, k2}
  Caller = {c1}
  Content = {x}
  Controlled <- MCControlled
  Ttl = 1
  MaxVersion = 2
  MaxRevision = 1
  MaxTime = 0
  MaxAutonomy = 1
  MaxDecisions = 2
  MaxCrashes = 0
  None = None
PROPERTY NoSecondSendUntilReconciled
CHECK_DEADLOCK FALSE
