SPECIFICATION FairConsumerSpec
CONSTANTS
  Members = {a, b}
  LogEnd = 4
  Rank <- Mixed
  Malformable = {3}
  MaxDisruptions = 3
INVARIANTS CommittedIsHandled
PROPERTIES ImplementsDelivery EveryMessageIsHandled
CHECK_DEADLOCK FALSE
