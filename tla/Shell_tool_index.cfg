\* A page of older messages moves the cards and not the index.
SPECIFICATION MCSpec
CONSTANTS
  Text = {"assistant"}
  Tools = {c1}
  MaxHeard = 3
  MaxSends = 1
  Loads = {l1}
  BatchSize = 3
  None = None
  Permissions = {p1, p2}
  Questions = {q1}
  MaxLosses = 2
CHECK_DEADLOCK FALSE
INVARIANT ToolIndexPointsAtCard
