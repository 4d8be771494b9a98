SPECIFICATION Spec
CONSTANTS
  c1 = c1
  c2 = c2
  a = a
  b = b
  Command <- MCCommand
  Text <- MCText
  Submission <- MCSubmission
  Original = original
  Caller = {r1}
  MaxSubmissions = 1
  MaxFaults = 0
  None = None
INVARIANT DecidesOnCurrentRevision
CHECK_DEADLOCK FALSE
