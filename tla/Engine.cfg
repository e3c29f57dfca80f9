CONSTANTS
  Keys = {k1, k2}
  Values = {v1, v2}
  NoValue = NoValue
  DbiFits = FALSE
  Ops <- AllOps
SPECIFICATION FairSpec
INVARIANTS TypeOK LockDiscipline DroppedStaysEmpty
PROPERTIES CallReturns KVSpec
