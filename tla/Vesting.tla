------------------------------ MODULE Vesting ------------------------------
(***************************************************************************)
(* The vesting schedules of the T3 server,                                 *)
(* infra/token-transfer-server/src/lib/vesting.js.                         *)
(*                                                                         *)
(* A grant has an amount, a start, a cliff and an end, in months, and a    *)
(* schedule is a function from the number of a vest to its amount.         *)
(* Employees vest what has built up at the cliff, then monthly; investors  *)
(* vest 6% at the start and eight times 11.75%, quarterly from the fourth  *)
(* month on.  Shares are rounded down and the last vest makes up for it.   *)
(***************************************************************************)
EXTENDS Integers, FiniteSets, Sums

\* The grants for which the code defines a schedule.
EmployeeGrants ==
    {g \in [amount : Nat, start : Int, cliff : Int, end : Int] :
        g.start <= g.cliff /\ g.cliff <= g.end /\ g.start < g.end}

VestingEventCount(g) == g.end - g.start

CliffVestingCount(g) == g.cliff - g.start

RemainingVestingCount(g) == VestingEventCount(g) - CliffVestingCount(g)

CliffVestAmount(g) == (g.amount * CliffVestingCount(g)) \div VestingEventCount(g)

\* The number of vests is zero when the cliff is at the end: then no vest is of this amount.
VestedPerEvent(g) ==
    IF RemainingVestingCount(g) = 0 THEN 0
    ELSE (g.amount - CliffVestAmount(g)) \div RemainingVestingCount(g)

\* Slip: the rounding error is lost.
EmployeeScheduleRounded(g) ==
    [i \in 0 .. RemainingVestingCount(g) |->
        IF i = 0 THEN CliffVestAmount(g) ELSE VestedPerEvent(g)]

EmployeeRoundingError(g) ==
    g.amount - (CliffVestAmount(g) + RemainingVestingCount(g) * VestedPerEvent(g))

EmployeeSchedule(g) ==
    [i \in 0 .. RemainingVestingCount(g) |->
        (IF i = 0 THEN CliffVestAmount(g) ELSE VestedPerEvent(g))
            + (IF i = RemainingVestingCount(g) THEN EmployeeRoundingError(g) ELSE 0)]

EmployeeVestDate(g, i) == g.cliff + i

InitialVestAmount(amount) == (amount * 6) \div 100

QuarterlyVestAmount(amount) == (amount * 1175) \div 10000

InvestorRoundingError(amount) ==
    amount - (QuarterlyVestAmount(amount) * 8 + InitialVestAmount(amount))

InvestorSchedule(amount) ==
    [i \in 0 .. 8 |->
        IF i = 0 THEN InitialVestAmount(amount)
        ELSE QuarterlyVestAmount(amount) + (IF i = 8 THEN InvestorRoundingError(amount) ELSE 0)]

InvestorVestDate(start, i) == IF i = 0 THEN start ELSE start + 4 + 3 * (i - 1)

\* vestedAmount(): what has vested of a schedule, for any set of vests that count.
VestedAmount(schedule, vested) ==
    Total([i \in DOMAIN schedule |-> IF i \in vested THEN schedule[i] ELSE 0])

\* The vests of a schedule by date, every vest having a date of its own.
ByDate(schedule, date) ==
    [d \in {date[i] : i \in DOMAIN schedule} |->
        schedule[CHOOSE i \in DOMAIN schedule : date[i] = d]]

EmployeeVests(g) ==
    LET schedule == EmployeeSchedule(g)
    IN  ByDate(schedule, [i \in DOMAIN schedule |-> EmployeeVestDate(g, i)])
=============================================================================
