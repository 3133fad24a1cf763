SPECIFICATION Spec
CONSTANTS
  Event <- TwoLanes
  Session <- TwoSessions
  Legacy <- NoLegacy
  Scope <- ByAge
  Resident = TRUE
  Commands = {"backfill", "purge"}
  MaxId = 5
  MaxClock = 1
  MaxPurges = 2
INVARIANT CountedAsRemoved
CHECK_DEADLOCK FALSE
