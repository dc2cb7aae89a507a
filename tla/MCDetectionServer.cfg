SPECIFICATION Spec
CONSTANTS
  Clients = {a, b, c}
  Sockets = {1, 2}
  Workers = {w1, w2, w3}
  InferenceWorkers = 2
  MaxConnections = 4
SYMMETRY Symmetry
INVARIANTS
  TypeOK
  SlotsMatchConnections
  BufferForEverySlot
  ContextOutlivesRequests
PROPERTIES
  BusyIsHonest
