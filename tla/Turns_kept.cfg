\* What turns change and how it is undone, and which turns are kept.
SPECIFICATION MCSpec
CONSTANTS
  f1 = f1
  t1 = t1
  t2 = t2
  u1 = u1
  c1 = c1
  Original = original
  Absent = absent
  Files <- OneFile
  Turns <- TwoTurns
  UserContents <- OneEdit
  Calls <- OneCall
  e1 = e1
  e2 = e2
  e3 = e3
  s1 = s1
  s2 = s2
  Paths <- OneFile
  TurnIds <- ThreeTurns
  Sessions <- TwoSessions
  SessionOf <- SessionOfTurn
  Keep = 1
  MaxLosses = 1
CHECK_DEADLOCK FALSE
INVARIANTS
  RevertUndoesTurn
  LedgerIsTrue
PROPERTIES
  RevertStaysInTurn
  HandEditsAreSkipped
  TurnIsAnnounced
