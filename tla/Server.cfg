SPECIFICATION FairSpec
CONSTANTS
  Conn = {1, 2}
  PoolSize = 2
  Topic <- MCTopic
  Token <- MCToken
  TokenOf <- MCTokenOf
  Within <- MCWithin
  NoToken = ""
INVARIANTS TypeOK OpenListed TokensSubscribed TokensKept
PROPERTIES ClosedForgotten SignalEnds
CHECK_DEADLOCK FALSE
