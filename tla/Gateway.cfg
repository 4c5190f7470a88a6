SPECIFICATION FairGatewaySpec
CONSTANTS
  p1 = p1  p2 = p2  k1 = k1  k2 = k2  i1 = i1  i2 = i2  r1 = r1  r2 = r2  h1 = h1
  None = None
  Pods = {p1, p2}
  Sockets = {k1, k2}
  Interventions = {i1, i2}
  Pushes = {r1, r2}
  Hops = {h1}
  PodsOf <- AnyOtherPod
  PayloadsOf <- AnyOtherPayload
  RedisFails = TRUE
INVARIANTS MappedSocketIsOpen ResolverIsWaiting AnsweredIsKept
PROPERTIES PushIsAnswered MappedSocketIsRouted
CHECK_DEADLOCK FALSE
