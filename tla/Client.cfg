SPECIFICATION MCSpec
CONSTANTS
  f1 = f1
  c1 = c1
  s1 = s1
  Future <- MCFuture
  Callback <- MCCallback
  Subscription <- MCSubscription
  Nobody = Nobody
  MaxConnects = 2
  MaxFailures = 2
INVARIANTS TypeOK OutboxMoves OneAtATime AssertsHold CalledOnce
PROPERTIES CallsAnswered Recovers SubscriptionsRestored
CHECK_DEADLOCK FALSE
