SPECIFICATION IntakeSpec
CONSTANTS
  File <- OneFile
  LineId = {"a", "b"}
  Size <- TwoLines
  Depth = 1
  MaxLen = 5
  MaxCuts = 1
  Regrows = FALSE
  MaxExits = 1
  MaxPauses = 1
  MaxFaults = 1
  MaxTroubles = 2
  MayExclude <- OneFile
INVARIANT IsErrorTrusted
