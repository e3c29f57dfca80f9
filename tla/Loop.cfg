CONSTANTS
  MaxFd <- TwoSockets
  Size = 3
  Slots = 3
  NumConns = 3
  MaxPending = 2
  RegMayFail = TRUE
SPECIFICATION FairSpec
INVARIANTS CallbackOnLiveClient TableMatchesKernel LiveConnectionsHeard
PROPERTIES InputServed OutputServed ConnectionsAccepted
CHECK_DEADLOCK FALSE
