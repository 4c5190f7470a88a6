SPECIFICATION FairQueueSpec
CONSTANTS
  t1 = t1  t2 = t2  c1 = c1  s1 = s1  s2 = s2  u1 = u1
  Ticks = {t1, t2}
  Consumers = {c1}
  Sessions = {s1, s2}
  Users = {u1}
  UserOf <- OneUser
  Limit = 1
  Faults = {"redis", "crash"}
INVARIANTS QueuedIsIndexed
PROPERTIES LeavesToBeEvaluated QueuedIsReevaluated
CHECK_DEADLOCK FALSE
