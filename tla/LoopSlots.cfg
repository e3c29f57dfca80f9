CONSTANTS
  MaxFd <- ThreeSockets
  Size = 4
  Slots = 2
  NumConns = 3
  MaxPending = 1
  RegMayFail = FALSE
SPECIFICATION Spec
INVARIANTS SlotInTable
CHECK_DEADLOCK FALSE
