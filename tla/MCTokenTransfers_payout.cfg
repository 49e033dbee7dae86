SPECIFICATION FairSpec
CONSTANTS
    Users = {ann}
    Runs = {r1}
    Confirmers = {c1}
    Vests <- LaterVest
    Cancelled <- AfterSecondVest
    Earning <- Bonus
    TransferAmounts = {1, 2}
    LockupAmounts = {1}
    LargeTransferThreshold = 2
    LargeTransferDelay = 2
    TransferTimeout = 1
    LockupTimeout = 1
    LockupDuration = 2
    MaxTransfers = 2
    MaxLockups = 2
    MaxRows = 3
    LastRequest = 1
    MaxNow = 3
    MaxCrashes = 1
    Hangs = TRUE
    Undone = {"included"}
INVARIANTS TypeOK PaidAtMostOnce SpendsOnlyVested OneInFlight GrantVests
PROPERTIES SettledIsFinal EnqueuedSettles OverdrawnOnlyIfLate
CHECK_DEADLOCK FALSE
