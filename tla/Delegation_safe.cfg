\* Two tasks, a crash at any moment, sessions resumed afterwards.
SPECIFICATION FairSpec
CONSTANTS
  t1 = t1
  t2 = t2
  r1 = r1
  Human = human
  Tasks <- MCTasks
  Roots <- MCRoots
  MaxPending = 1
  MaxCrashes = 1
INVARIANTS
  OneLevel
  LiveStatusIsTrue
  FilesAgree
PROPERTIES
  EndIsFinal
  TaskEnds
