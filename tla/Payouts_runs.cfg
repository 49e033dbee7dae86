SPECIFICATION Spec
CONSTANTS
  Users = {ann, bob, cyd}
  BatchSizes = {1, 2}
  MaxFaults = 1
  MaxCrashes = 1
INVARIANTS TypeOK PaidTwiceOnlyAfterGivingUp OnePayoutPerUser DistributedMeansPaid
PROPERTIES BatchesGetThrough
CHECK_DEADLOCK FALSE
