SPECIFICATION Spec
CONSTANTS
  e1 = e1  m1 = m1  m2 = m2  r1 = r1  u1 = u1
  NoCall = NoCall
  Executions = {e1}
  ManualCalls = {m1}
  Recs = {r1}
  Users = {u1}
  RecOf <- OneRec
  CustomerOf <- OneCustomer
  Value <- OneUnit
  Monetary = {r1}
  Overrides = {}
  MaxDailyBudget = 1
  Faults = {"crash", "kafka", "db", "outbound"}
INVARIANTS PhaseTwoHoldsLock MutualExclusion LaterCallsAreStopped DispatchesWithinBudget
PROPERTY ImplementsGate
CHECK_DEADLOCK FALSE
