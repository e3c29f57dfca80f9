CONSTANTS
  Keys = {k1, k2}
  Values = {v1, v2}
  NoValue = NoValue
  DbiFits = TRUE
  Ops <- ServerOps
SPECIFICATION FairSpec
PROPERTIES EveryCallReturns
