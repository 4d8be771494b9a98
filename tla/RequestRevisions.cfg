SPECIFICATION FairSpec
CONSTANTS
  c1 = c1
  c2 = c2
  a = a
  b = b
  Command <- MCCommand
  Text <- MCText
  Submission <- MCSubmission
  Original = original
  Caller = {r1, r2}
  MaxSubmissions = 3
  MaxFaults = 1
  None = None
INVARIANTS
  LoadsWhatWasAccepted
PROPERTIES
  ImplementsLineage
  RedirectTakesEffect
\* A run that has ended, with no request left, stands still.
CHECK_DEADLOCK FALSE
