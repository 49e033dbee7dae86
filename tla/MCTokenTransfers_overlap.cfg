SPECIFICATION Spec
CONSTANTS
    Users = {ann}
    Runs = {r1, r2}
    Confirmers = {c1}
    Vests <- OneVest
    Cancelled <- Never
    Earning <- Bonus
    TransferAmounts = {1}
    LockupAmounts = {}
    LargeTransferThreshold = 2
    LargeTransferDelay = 2
    TransferTimeout = 1
    LockupTimeout = 1
    LockupDuration = 2
    MaxTransfers = 1
    MaxLockups = 0
    MaxRows = 3
    LastRequest = 1
    MaxNow = 3
    MaxCrashes = 0
    Hangs = FALSE
    Undone = {}
INVARIANTS PaidAtMostOnce
CHECK_DEADLOCK FALSE
