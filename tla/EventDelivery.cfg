SPECIFICATION FairSpec
CONSTANTS
  Drafts <- ToolDrafts
  Created <- RunCreated
  Writers = {w1}
  Consumers = {c1, c2}
  PageSize = 1
  ClaimLimit = 2
  MaxEvents = 2
  NoKey = NoKey  NoSubject = NoSubject  Nobody = Nobody
PROPERTIES LeaseRespected SettledByOwner ReaderCatchesUp EveryEventDelivered
CHECK_DEADLOCK FALSE
