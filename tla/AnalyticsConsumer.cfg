SPECIFICATION AnalyticsSpec
CONSTANTS
  p1 = p1  p2 = p2  None = None
  Partitions = {p1, p2}
  Length = 2
  KindOf <- Mixed
  BatchSize = 2
  MaxDisruptions = 2
INVARIANTS MarkedIsStored ResolvedIsAccounted
PROPERTY OffsetsOnlyAdvance
CHECK_DEADLOCK FALSE
