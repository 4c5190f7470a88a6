SPECIFICATION FairEnrichmentSpec
CONSTANTS
  e1 = e1  e2 = e2  None = None
  Members = {m1, m2}
  Events = {e1, e2}
  Length = 4
  EventOf <- Copies
  MaxDisruptions = 2
INVARIANT PassedOverIsSettled
PROPERTIES GroupOffsetAdvances ImplementsDelivery EveryMessageIsSettled
CHECK_DEADLOCK FALSE
