SPECIFICATION IngestionSpec
CONSTANTS
  Requests = {r1, r2}
  Events = {e1, e2}
  None = None
  BufferMax = 2
  MaxFaults = 4
SYMMETRY Symmetry
INVARIANTS AcceptedIsKept SeenIsKept
PROPERTIES DeletedIsUploaded ImplementsDelivery
CHECK_DEADLOCK FALSE
