SPECIFICATION FairSpec
CONSTANTS
  Id <- MCId
  MaxSent = 2
  MaxPublished = 2
INVARIANTS TypeOK AnswersMatch NeverStalls Watched
PROPERTIES KeepsPromise AnsweredOrClosed SilentDropped
CHECK_DEADLOCK FALSE
