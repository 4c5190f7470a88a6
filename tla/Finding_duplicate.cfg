SPECIFICATION Spec
CONSTANTS
  e1 = e1  m1 = m1  m2 = m2  r1 = r1  u1 = u1
  NoCall = NoCall
  Executions = {}
  ManualCalls = {m1, m2}
  Recs = {}
  Users = {u1}
  RecOf <- OneRec
  CustomerOf <- OneCustomer
  Value <- OneUnit
  Monetary = {}
  Overrides = {}
  MaxDailyBudget = 2
  Faults = {}
INVARIANT OneInterventionPerEpisode
CHECK_DEADLOCK FALSE
