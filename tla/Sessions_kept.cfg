\* Calls, closes and the stop of the core; requests that clients, timers and cancels settle.
SPECIFICATION MCSpec
CONSTANTS
  s1 = s1
  s2 = s2
  r1 = r1
  Calls = {c1, c2}
  Closes = {x1, x2}
  Askers = {a1}
  Clients = {w1, w2}
  Sessions <- MCRefs
  Refs <- MCRefs
  Requests = {r1, r2}
  SessionOf <- MCSessionOf
  Questions = {r2}
  Rejectable = {r1}
  PolicyDecisions = {"allow", "cancelled"}
  None = None
INVARIANTS
  NoProcessIsLeft
  NobodyWaitsForKnown
  OkMeansDecided
PROPERTIES
  CallsReturn
  KeepsPromise
  SessionCancelSettles
  RequestsAreSettled
CHECK_DEADLOCK FALSE
