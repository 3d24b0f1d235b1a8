SPECIFICATION DFairSpec
CONSTANTS
  Workers <- Two
  Relay = TRUE
  MaxUp = 2
  MaxDown = 1
  MaxFaults = 1
  Devices <- Boards
  DeviceOf <- Manifested
  MaxRestarts = 1
  MaxFailedStarts = 1
  SubscribesFirst = TRUE
INVARIANTS
  StartedAreRecorded
  LostOnlyByRestart
PROPERTIES
  ImplementsChannels
  LaunchEnds
CHECK_DEADLOCK FALSE
