CONSTANTS
  k1 = k1
  k2 = k2
  k3 = k3
  Conns = {k1, k2, k3}
  Callers = {a, b, c}
  Checks = {h}
  NoConn = NoConn
  MinConnections = 1
  MaxConnections = 1
SPECIFICATION FairPoolSpec
INVARIANTS ExclusiveUse LentIsHeld CountIsPoolSize
PROPERTIES AcquireIsAnswered
CHECK_DEADLOCK FALSE
