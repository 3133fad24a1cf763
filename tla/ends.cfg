SPECIFICATION EndsSpec
CONSTANTS
  File <- OneFile
  LineId = {"a", "b"}
  Size <- TwoLines
  Depth = 1
  MaxLen = 5
  MaxCuts = 1
  Regrows = FALSE
  MaxExits = 1
  MaxPauses = 1
  MaxFaults = 1
  MaxTroubles = 2
  MayExclude <- OneFile
  Tool = {"Bash", "Edit"}
  Filter = {"any", "Bash", "words"}
  Page = 1
  Screen = 1
  LiveBatch = 1
  MaxBatch = 2
  Courses <- FourCourses
INVARIANT LinesAreWhole
INVARIANT TextsAreKept
PROPERTY Collected
PROPERTY SealersAgree
INVARIANT TimelineInv
PROPERTY NewCallsNoticed
PROPERTY EveryRowDrawn
PROPERTY OneViewOnly
