\* Sinks that call the hub, too; a table and a ring smaller than what comes.
\* Two threads may come to wait for themselves, and for good.
CONSTANTS
  Thread <- TwoThreads
  Sub <- ThreeSubs
  Event <- TwoEvents
  None = "none"
  NSinks = 2
  StoreSize = 2
  Reentrant = TRUE
  MaxDepth = 2
SPECIFICATION FairSpec
CHECK_DEADLOCK FALSE
INVARIANTS NoCallAfterReturn RecentExact
PROPERTIES OutsideUnsubscribeReturns
