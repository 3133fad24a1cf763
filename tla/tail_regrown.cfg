SPECIFICATION Spec
CONSTANTS
  File <- OneFile
  LineId = {"a", "b"}
  Size <- TwoLines
  Depth = 1
  MaxLen = 5
  MaxCuts = 1
  Regrows = TRUE
  MaxExits = 0
  MaxPauses = 0
  MaxFaults = 0
  MaxTroubles = 1
  MayExclude <- NoFile
INVARIANT OnlyWholeLines
