SPECIFICATION Spec
CONSTANTS
  Users = {ann, bob}
  BatchSizes = {1}
  MaxFaults = 1
  MaxCrashes = 0
PROPERTIES RetriesGetThrough
CHECK_DEADLOCK FALSE
