SPECIFICATION FairSpec
CONSTANTS
  NItems = 2
  Key <- MCKey
  DependsOn <- MCDependsOn
  Produces <- MCProduces
  Changes <- MCChanges
  Cancellable <- MCCancellable
  MaxConcurrency = 2
  MaxCommands = 2
  None = None
INVARIANTS
  WorkAgrees
  EventsFresh
  PauseReaches
  DoneIsSettled
PROPERTIES
  CommandsApplied
  RunSettles
\* A run that has ended stands still.
CHECK_DEADLOCK FALSE
