\* Calls return and the queue of a delegated session reaches the agent.
SPECIFICATION FairSpec
CONSTANTS
  m1 = m1
  m2 = m2
  p1 = p1
  t0 = t0
  Messages <- MCMessages
  Prompts <- MCPrompts
  Task = t0
  Delegated = TRUE
  Agents <- LiveAgents
  Prefs <- QueuePrefs
CHECK_DEADLOCK FALSE
PROPERTIES
  DeliverReturns
  DrainedReachesAgent
