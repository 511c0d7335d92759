\* A client that loses its sockets and connects again.
SPECIFICATION MCSpec
CONSTANTS
  Cores = {c1, c2, c3}
  Hosts = {h1, h2}
  Ports = {p1, p2}
  DefaultPort = p1
  None = None
  Calls = {r1, r2}
  MaxSockets = 4
  MaxCrashes = 2
INVARIANT NothingIsForgotten
PROPERTIES
  FileIsSpared
  ClientsRecover
SYMMETRY AddressSymmetry
CHECK_DEADLOCK FALSE
