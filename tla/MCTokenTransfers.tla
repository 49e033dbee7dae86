-------------------------- MODULE MCTokenTransfers --------------------------
(***************************************************************************)
(* Instances of TokenTransfers for TLC: grants and their vesting schedules.*)
(***************************************************************************)
EXTENDS TokenTransfers, Vesting

\* An employee's grant of four tokens over three months, the first of which is the
\* cliff: a token vests at once, one a month later and, with the rounding error, two
\* after another month.  A month is a minute here.
Grant == [amount |-> 4, start |-> -1, cliff |-> 0, end |-> 2]

LaterVest == [u \in Users |-> EmployeeVests(Grant)]

\* Two tokens, once.
OneVest == [u \in Users |-> [d \in {0} |-> 2]]

\* No grant is cancelled within the bounds.
Never == [u \in Users |-> MaxNow]

\* Everybody's grants are cancelled after the second vest, which calls off the third.
AfterSecondVest == [u \in Users |-> 1]

Bonus == [a \in LockupAmounts |-> 1]

\* The vests that come after the grant is cancelled.
CalledOff(u) ==
    Total([d \in DOMAIN Vests[u] |-> IF d > Cancelled[u] THEN Vests[u][d] ELSE 0])

\* At no time has a user's grant vested by more than its amount, and when it ends,
\* not a token of it is lost to the rounding of the vests: what vested and what was called
\* off add up to it (vesting.js employeeVestingSchedule, vestedAmount).
GrantVests ==
    \A u \in Users :
        /\ Vested(u) <= Grant.amount
        /\ now >= Grant.end => Vested(u) + CalledOff(u) = Grant.amount
=============================================================================
