\* Two messages, a prompt and a task beside each other, all preferences.
SPECIFICATION Spec
CONSTANTS
  m1 = m1
  m2 = m2
  p1 = p1
  t0 = t0
  Messages <- MCMessages
  Prompts <- MCPrompts
  Task = t0
  Delegated = TRUE
  Agents <- SteeringAgents
  Prefs <- AllPrefs
SYMMETRY MessageSymmetry
CHECK_DEADLOCK FALSE
INVARIANTS
  TurnActiveIsExact
  TakenAtMostOnce
  InjectedIsOnItsWay
PROPERTY NothingUncalledFor
