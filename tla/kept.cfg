SPECIFICATION KeptSpec
CONSTANTS
  Event <- AnyEvent
  Session <- TwoSessions
  Legacy <- TwoLegacy
  Scope <- AnyScope
  Resident = TRUE
  Commands = {"backfill", "purge"}
  MaxId = 5
  MaxClock = 2
  MaxPurges = 2
  Ports <- TwoPorts
  Machines <- EveryMachine
  MaxTime = 2
  Nil = Nil
  Rule = {"r1"}
  Question = {rm, dd}
  Call = {c1, c2}
  Recorded = {c1, c2}
  Thread = {t1, t2}
  MaxEvents = 3
  Path = {"p", "q"}
  Content = {"m1", "m2", "gone"}
  AtFirst <- TwoModels
  Slot = {1, 2}
  Outings <- EveryOuting
INVARIANT StoreInv
PROPERTY SealedOnce
INVARIANT WalksIntact
INVARIANT BreaksOnlyAtHoles
PROPERTY ImplementsTrail
PROPERTY PurgeSeparatesNothing
INVARIANT PurgesAreHonest
INVARIANT BreaksAccountedFor
INVARIANT SettingsHold
PROPERTY TheirsKept
PROPERTY FixedAndUndone
INVARIANT LedgerHonest
INVARIANT ServedUnlessRaced
PROPERTY LedgerKept
INVARIANT PrefsHold
PROPERTY SwitchesLeaveTheModel
CHECK_DEADLOCK FALSE
