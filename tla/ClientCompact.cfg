CONSTANTS
  StreamLen = 5
  ElemEnds <- ThreeElements
  CmdEnds <- ThreeCommands
  ReplyLens <- Replies
  CutLens = {1}
  CompactAt = 3
  RecvMax = 2
  TxCap = 1
  AllocMayFail = FALSE
  RegMayFail = FALSE
SPECIFICATION Spec
INVARIANTS PosIsIndex
CHECK_DEADLOCK FALSE
