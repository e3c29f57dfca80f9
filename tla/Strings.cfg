CONSTANTS
  IntMax = 31
  MinAlloc = 2
  Null = Null
  FillChar = 46
  ReadStep = 2
  BufferSize = 4
  StartSize = 2
  FindIndexes = 2
  Gone = Gone
  NoCall = NoCall
  Texts <- MCTexts
  Blocks <- MCBlocks
  Chars = {97}
  Numbers <- MCNumbers
  MaxText = 3
  MaxAlloc = 5
  Closed = Closed
  Sources <- MCSources
  Sizes = {0, 1, 2, 3}
  Terms <- MCTerms
  Unread <- MCUnread
  SplitSize = 2
  MaxStream = 4
SPECIFICATION MCSpec
INVARIANTS SearchesAgree SplitsJoinBack
PROPERTIES CallsAsDocumented ReadsInOrder
