CONSTANTS
  n1 = n1
  n2 = n2
SPECIFICATION Spec
INVARIANT TypeOK
INVARIANT PeekAccounting
INVARIANT RxNoOverrun
INVARIANT ResponsesMatchRequests
INVARIANT RefcountBalance
INVARIANT NotifyOncePerPass
INVARIANT NoLostNotification
PROPERTY QueueRestarts
PROPERTY CopyingPacketsReleased
