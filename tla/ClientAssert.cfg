SPECIFICATION Spec
CONSTANTS
  f1 = f1
  c1 = c1
  s1 = s1
  Future <- MCFuture
  Callback <- MCCallback
  Subscription <- MCSubscription
  Nobody = Nobody
  MaxConnects = 2
  MaxFailures = 2
INVARIANT NoAssertFails
CHECK_DEADLOCK FALSE
