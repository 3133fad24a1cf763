SPECIFICATION SettingsSpec
CONSTANTS
  Ports <- TwoPorts
  Machines <- EveryMachine
  MaxTime = 2
PROPERTY FixWritesInService
CHECK_DEADLOCK FALSE
