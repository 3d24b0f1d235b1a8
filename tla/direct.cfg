SPECIFICATION DirectFairSpec
CONSTANTS
  Workers <- Two
  Relay = FALSE
  MaxUp = 2
  MaxDown = 2
  MaxFaults = 1
INVARIANTS
  TypeOK
  LockStep
PROPERTIES
  ImplementsChannels
  EverySendReturns
  NothingLeftBehind
CHECK_DEADLOCK FALSE
