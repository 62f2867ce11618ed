SPECIFICATION Spec
CONSTANT Players <- MCPlayers
INVARIANTS WonProperly ScreenCurrent GateKept SpeedMatches OneBattery Unambiguous
CHECK_DEADLOCK FALSE
