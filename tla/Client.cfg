CONSTANTS
  StreamLen = 5
  ElemEnds <- ThreeElements
  CmdEnds <- ThreeCommands
  ReplyLens <- Replies
  CutLens = {1}
  CompactAt = 3
  RecvMax = 2
  TxCap = 1
  AllocMayFail = TRUE
  RegMayFail = TRUE
SPECIFICATION FairSpec
INVARIANTS TypeOK ReplyStreamIntact SyncUntilCompaction OneReplyEach WriteInterest LostOnlyBacklog
PROPERTIES RepliesFlushed CommandsAnswered
CHECK_DEADLOCK FALSE
