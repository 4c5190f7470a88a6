SPECIFICATION FairRecSpec
CONSTANTS
  r1 = r1  None = None
  Recs = {r1}
  Executors = {e1, e2}
  Replicas = {s1, s2}
  WindowOf <- OnePeriod
  MaxTime = 2
  MaxFaults = 1
INVARIANTS PrunedIsSettled StatusIsEarned
PROPERTIES ScanKeepsDecisions OverdueIsSettled
CHECK_DEADLOCK FALSE
