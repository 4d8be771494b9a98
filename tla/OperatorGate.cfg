SPECIFICATION GateSpec
CONSTANTS
  Proposal = {p1}
  Permit = {k1, k2}
  Caller = {c1, c2}
  Content = {x}
  Controlled <- MCControlled
  Ttl = 1
  MaxVersion = 2
  MaxRevision = 1
  MaxTime = 1
  MaxAutonomy = 2
  MaxDecisions = 3
  MaxCrashes = 1
  None = None
SYMMETRY Symmetric
INVARIANTS
  OneIntentPerVersion
  IntentsWereDecided
  ExecutionsTrue
PROPERTY GateUsesBroker
\* When permits and versions are used up no request can be served.
CHECK_DEADLOCK FALSE
