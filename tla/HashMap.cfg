CONSTANTS
  Keys = {"k1", "k2", "k3", "k4"}
  Entries = {"e", "f"}
  NoEntry = NoEntry
  Offers <- MCOffers
  Hashes <- MCHashes
  Chain = 2
  Sizes = {0, 1, 3}
  MaxSlots = 16
SPECIFICATION FairSpec
INVARIANTS TypeOK WithinReach HeldOnce GrowsForCause
PROPERTIES MapSpec PutReturns
