CONSTANTS
  Users = {"app", "cli1"}
  Clis = {"cli1"}
  Items <- AppItems
  Lines <- CliLines
  NoBytes = ""
  Lengths <- MCLengths
  CompactAt = 2
  MaxPos = 4
  MaxRequests = 2
  Keys = {"a"}
  Values = {"a", "b", ""}
  NoValue = NoValue
  Ops <- ServerOps
SPECIFICATION FairSpec
INVARIANTS CliNeverDerails CliRunsOneCommand
PROPERTIES ServiceSpec RequestAnswered
CHECK_DEADLOCK FALSE
