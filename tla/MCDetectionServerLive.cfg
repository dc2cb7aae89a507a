SPECIFICATION LiveSpec
CONSTANTS
  Clients = {a, b}
  Sockets = {1, 2}
  Workers = {w1, w2}
  InferenceWorkers = 1
  MaxConnections = 3
PROPERTIES
  ShutdownEnds
