SPECIFICATION FairSpec
CONSTANTS
  e1 = e1  m1 = m1  m2 = m2  r1 = r1  u1 = u1
  NoCall = NoCall
  Executions = {e1}
  ManualCalls = {m1}
  Recs = {r1}
  Users = {u1}
  RecOf <- OneRec
  CustomerOf <- OneCustomer
  Value <- Free
  Monetary = {}
  Overrides = {}
  MaxDailyBudget = 1
  Faults = {"redis"}
INVARIANT RecordsFollowDispatch
PROPERTIES LockEventuallyFree DispatchEventuallyRecorded
CHECK_DEADLOCK FALSE
