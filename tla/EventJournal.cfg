SPECIFICATION Spec
CONSTANTS
  Drafts <- AllDrafts
  Created <- RunCreated
  Writers = {w1, w2}
  Consumers = {}
  PageSize = 2
  ClaimLimit = 2
  MaxEvents = 4
  NoKey = NoKey  NoSubject = NoSubject  Nobody = Nobody
INVARIANTS GapFree AnswersStored RaisesExplained ProjectionAgrees ReplayExactly
SYMMETRY WriterSymmetry
CHECK_DEADLOCK FALSE
