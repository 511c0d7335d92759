\* What the core derives from its agents and serves, and what the shell makes of it.
SPECIFICATION MCSpec
CONSTANTS
  Parts = {"transcript", "tracker", "descriptor", "graph", "directory", "diff", "files", "numbers", "views"}
  Clients = {w1, w2}
  MaxMessages = 4
  Limit = 2
  MaxEngines = 2
  NoValue = NoValue
  Lines = {a, b}
  MaxLen = 4
  Paths = {x, y, z}
  MaxCells = 9
  MaxLines = 5
  Context = 1
  MaxFiles = 2
  ToolCalls = {c1, c2}
  MaxUpdates = 3
  Open = {s1, s2}
  Dirs = {d1, d2}
  Revertible = {d1}
  Claims = {"native", "extension", "concurrent"}
  Risks = {0, 1}
  NoDir = NoDir
  Refs = {r1, r2, r3}
  Human = Human
  MaxEdges = 2
  Chats = {s1, s2}
  Threads = {w1, w2}
  MaxCalls = 3
  Tabs = {t1, t2}
  NoTab = NoTab
  MaxItems = 4
  MaxParts = 1
CHECK_DEADLOCK FALSE
INVARIANTS
  PagesJoin
  ReadsSpareEngine
  CountedAreGood
  DescriptorsAreHonest
  StatsAreRight
  ChoiceStands
PROPERTIES
  ReadsReturn
  OneRowEach
  TreesOnlyGrow
