\* Is a path that a revert lists as reverted as it was before the turn?
SPECIFICATION Spec
CONSTANTS
  f1 = f1
  t1 = t1
  t2 = t2
  u1 = u1
  c1 = c1
  Original = original
  Absent = absent
  Files <- OneFile
  Turns <- OneTurn
  UserContents <- OneEdit
  Calls <- OneCall
CHECK_DEADLOCK FALSE
PROPERTY RevertedIsRestored
