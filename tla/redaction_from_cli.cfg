SPECIFICATION PreferencesSpec
CONSTANTS
  Path = {"p", "q"}
  Content = {"m1", "m2", "gone"}
  AtFirst <- TwoFiles
  Slot = {1, 2}
  Outings <- SomeOutings
INVARIANT RedactionHolds
CHECK_DEADLOCK FALSE
