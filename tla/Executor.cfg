SPECIFICATION FairSpec
CONSTANTS
  MaxAttempts = 2
  MaxTries = 2
  MaxPaused = 1
  Sources = {s1, s2}
  FailureSteps = {None, 1}
  None = None
INVARIANTS OneProposalPerAttempt ExecutionIsWhole CompletedByLatestTry JournalAgrees
PROPERTIES AttemptSettles
CHECK_DEADLOCK FALSE
