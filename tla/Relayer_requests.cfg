SPECIFICATION RelayerSpec
CONSTANTS
  NumChildren = 1
  MaxPending = 2
  MaxSends = 3
  MaxDrops = 0
  MaxCrashes = 1
  Users = {anna, ben}
  Patient = {anna}
  MaxNonce = 1
INVARIANTS RelayerTypeOK ExecutedOnce RowTellsTruth NothingInVain
CHECK_DEADLOCK FALSE
