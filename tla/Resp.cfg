CONSTANTS
  Streams <- AllStreams
  Sent <- MCSent
  MaxDepth = 3
  MaxLen = 9
  LLMax = 127
  IntMax = 63
  SizeWrap = 128
SPECIFICATION FairSpec
INVARIANTS TypeOK InBounds StackShape TakesWhatIsThere RoundTrip NumbersRead
PROPERTIES CallEnds
CHECK_DEADLOCK FALSE
