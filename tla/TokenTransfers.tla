--------------------------- MODULE TokenTransfers ---------------------------
(***************************************************************************)
(* The T3 server, infra/token-transfer-server: investors withdraw vested   *)
(* Origin tokens or lock them up for a bonus.                              *)
(*                                                                         *)
(* A withdrawal ("transfer") is requested over HTTP under an in-process    *)
(* lock of the user, confirmed by a link sent by email, picked up by a     *)
(* cron job that sends an Ethereum transaction, and settled by a later run *)
(* of the job when the transaction is confirmed.  Every await of a         *)
(* database or network call is a point where other handlers and other runs *)
(* of the job interleave, so every such call is an action.                 *)
(*                                                                         *)
(* Time is counted in minutes.  Requests before the unlock date and        *)
(* requests with a bad one-time code or token change nothing and are left  *)
(* out, and so are events, emails as such and webhooks.                    *)
(***************************************************************************)
EXTENDS Integers, FiniteSets, Sequences, Sums

CONSTANTS
    Users,
    Runs,               (* runs of the job that can be under way together   *)
    Confirmers,         (* confirmation requests under way together         *)
    Vests,              (* Vests[u][d]: tokens user u vests at minute d     *)
    Cancelled,          (* Cancelled[u]: minute after which no grant of u vests *)
    Earning,            (* Earning[a]: bonus on a lockup of a tokens        *)
    TransferAmounts, LockupAmounts,     (* amounts users ask for            *)
    LargeTransferThreshold, LargeTransferDelay,
    TransferTimeout,    (* transferConfirmationTimeout                      *)
    LockupTimeout,      (* lockupConfirmationTimeout                        *)
    LockupDuration,
    MaxTransfers, MaxLockups,   (* bounds: rows of the tables               *)
    MaxRows,            (* bound: rows of both tables together              *)
    LastRequest,        (* bound: last minute with requests under way       *)
    MaxNow,             (* bound on time                                    *)
    MaxCrashes,         (* bound: restarts of the server                    *)
    Hangs,              (* whether an unanswered send occurs                *)
    Undone              (* mined states that a reorganisation may undo      *)

TransferIds == 1 .. MaxTransfers
LockupIds   == 1 .. MaxLockups

ASSUME TableAssumption ==
    /\ MaxTransfers \in Nat /\ MaxLockups \in Nat /\ MaxRows \in Nat /\ MaxCrashes \in Nat
    /\ TransferAmounts \subseteq Nat \ {0}
    /\ LockupAmounts \subseteq Nat \ {0}
    /\ \A u \in Users : IsFiniteSet(DOMAIN Vests[u])
    /\ \A u \in Users : \A d \in DOMAIN Vests[u] : d \in Nat /\ Vests[u][d] \in Nat
    /\ \A u \in Users : Cancelled[u] \in Nat
    /\ \A a \in LockupAmounts : Earning[a] \in Nat
    /\ LargeTransferThreshold \in Nat /\ LargeTransferDelay \in Nat
    /\ TransferTimeout \in Nat \ {0} /\ LockupTimeout \in Nat \ {0}
    /\ LockupDuration \in Nat /\ LastRequest \in Nat /\ MaxNow \in Nat
    /\ Hangs \in BOOLEAN /\ Undone \subseteq {"included", "reverted"}

VARIABLES
    now,
    transfers,      (* the rows of t3_transfer, in order of their id        *)
    lockups,        (* the rows of t3_lockup                                *)
    openTasks,      (* number of rows of t3_transfer_task without an end    *)
    mailed,         (* transfers and lockups whose confirmation link is out *)
    request,        (* request[u]: the request that holds the lock of u     *)
    confirm,        (* confirm[c]: a confirmation between check and write   *)
    job,            (* job[r]: a run of executeTransfers                    *)
    chain,          (* the transactions sent, in order of their hash        *)
    crashes

tables == <<transfers, lockups, openTasks>>
server == <<mailed, request, confirm, job>>
vars == <<now, tables, server, chain, crashes>>

TransferStatuses ==
    {"WaitingEmailConfirm", "Enqueued", "Processing", "WaitingConfirmation",
     "Success", "Failed", "Expired"}

\* Slip: what has been paid out is forgotten.
PaidForgotten == TransferStatuses \ {"Failed", "Expired", "Success"}

\* What calculateWithdrawn counts, apart from expired waits for confirmation.
PendingOrComplete == TransferStatuses \ {"Failed", "Expired"}

NoRequest == [stage |-> "idle", kind |-> "transfer", amount |-> 0, vest |-> 0]
NoConfirm == [kind |-> "none", id |-> 0]
NoRun     == [pc |-> "idle", todo |-> {}, transfer |-> 0, hash |-> 0]

Init ==
    /\ now = 0
    /\ transfers = << >> /\ lockups = << >> /\ openTasks = 0
    /\ mailed = {}
    /\ request = [u \in Users |-> NoRequest]
    /\ confirm = [c \in Confirmers |-> NoConfirm]
    /\ job = [r \in Runs |-> NoRun]
    /\ chain = << >>
    /\ crashes = 0

-----------------------------------------------------------------------------
(* Balances (shared.js, balance.js) *)

Sum(rows, ids) ==
    Total([i \in DOMAIN rows |-> IF i \in ids THEN rows[i].amount ELSE 0])

TransferHasExpired(t) == now - t.createdAt >= TransferTimeout
LockupHasExpired(k)   == now - k.createdAt >= LockupTimeout

HasVested(u, d) == d <= now /\ d <= Cancelled[u]

Vested(u) ==
    Total([d \in DOMAIN Vests[u] |-> IF HasVested(u, d) THEN Vests[u][d] ELSE 0])

\* Earnings of confirmed lockups that have ended.
UnlockedEarnings(u) ==
    Total([i \in DOMAIN lockups |->
            IF lockups[i].user = u /\ lockups[i].confirmed /\ lockups[i].end <= now
            THEN Earning[lockups[i].amount] ELSE 0])

\* A transfer that does not count has given its amount back to the user.
Counts(t) ==
    /\ t.status \in PendingOrComplete
    /\ ~(t.status = "WaitingEmailConfirm" /\ TransferHasExpired(t))

Withdrawn(u) ==
    Sum(transfers,
        {i \in DOMAIN transfers : transfers[i].user = u /\ Counts(transfers[i])})

\* An early lockup takes tokens of a vest to come; vest = 0 marks any other.
BeforeVest(k) == k.vest > now

\* Whether a lockup was ever confirmed makes no difference to what it locks.
Locked(u) ==
    Sum(lockups, {i \in DOMAIN lockups : lockups[i].user = u
                        /\ ~BeforeVest(lockups[i]) /\ now < lockups[i].end})

NextVestLocked(u) ==
    Sum(lockups, {i \in DOMAIN lockups : lockups[i].user = u /\ BeforeVest(lockups[i])})

Available(u) == Vested(u) + UnlockedEarnings(u) - Withdrawn(u) - Locked(u)

\* The date of the next vest, 0 when there is none.  A vest that a cancellation has
\* called off is one that has not vested, and may be the next one for ever.
NextVest(u) ==
    LET dates == {d \in DOMAIN Vests[u] : ~HasVested(u, d)}
    IN  IF dates = {} THEN 0 ELSE CHOOSE d \in dates : \A e \in dates : d <= e

\* Slip: earlier lockups of the same vest are not deducted.
NextVestWhole(u) == IF NextVest(u) = 0 THEN 0 ELSE Vests[u][NextVest(u)]

NextVestBalance(u) ==
    IF NextVest(u) = 0 THEN 0 ELSE Vests[u][NextVest(u)] - NextVestLocked(u)

-----------------------------------------------------------------------------
(* Adding transfers and lockups, under the lock of the user *)

Stage(u, stage) == request' = [request EXCEPT ![u].stage = stage]

\* The lock is released, with or without a row.
Release(u) == request' = [request EXCEPT ![u] = NoRequest]

\* Rows that requests under way are going to insert.
Coming(kinds) ==
    Cardinality({u \in Users : request[u].kind \in kinds
                    /\ request[u].stage \notin {"idle", "inserted"}})

\* The bound on the rows of both tables together.
MoreRows ==
    Len(transfers) + Len(lockups) + Coming({"transfer", "early", "lockup"}) < MaxRows

CanWithdraw(u, amount) == Available(u) >= 0 /\ amount <= Available(u)

\* POST /transfers: addTransfer up to the balance check.
BeginTransfer(u, amount) ==
    /\ now <= LastRequest
    /\ request[u] = NoRequest
    /\ Len(transfers) + Coming({"transfer"}) < MaxTransfers /\ MoreRows
    /\ CanWithdraw(u, amount)
    /\ request' = [request EXCEPT ![u] =
                    [stage |-> "checked", kind |-> "transfer",
                     amount |-> amount, vest |-> 0]]
    /\ UNCHANGED <<now, tables, mailed, confirm, job, chain, crashes>>

\* Transfer.create, which is not part of the transaction opened for it.
InsertTransfer(u) ==
    /\ request[u].kind = "transfer" /\ request[u].stage = "checked"
    /\ transfers' = Append(transfers,
                        [user |-> u, amount |-> request[u].amount,
                         status |-> "WaitingEmailConfirm", createdAt |-> now,
                         hash |-> 0])
    /\ Stage(u, "inserted")
    /\ UNCHANGED <<now, lockups, openTasks, mailed, confirm, job, chain, crashes>>

\* The event is recorded and the link is mailed, or one of the two fails and the
\* row stays behind without a link.
AnswerTransfer(u) ==
    /\ request[u].kind = "transfer" /\ request[u].stage = "inserted"
    /\ \E t \in DOMAIN transfers :
        /\ transfers[t].user = u
        /\ \A i \in DOMAIN transfers : transfers[i].user = u => i <= t
        /\ mailed' \in {mailed, mailed \cup {<<"transfer", t>>}}
    /\ Release(u)
    /\ UNCHANGED <<now, tables, confirm, job, chain, crashes>>

\* POST /lockups: no unconfirmed lockup of the user may be younger than the timeout.
BeginLockup(u, amount, kind) ==
    /\ now <= LastRequest
    /\ request[u] = NoRequest
    /\ Len(lockups) + Coming({"early", "lockup"}) < MaxLockups /\ MoreRows
    /\ \A i \in DOMAIN lockups :
            lockups[i].user = u /\ ~lockups[i].confirmed
                => now - lockups[i].createdAt > LockupTimeout
    /\ request' = [request EXCEPT ![u] =
                    [stage |-> "listed", kind |-> kind, amount |-> amount,
                     vest |-> 0]]
    /\ UNCHANGED <<now, tables, mailed, confirm, job, chain, crashes>>

CheckLockup(u) ==
    /\ request[u].stage = "listed"
    /\ LET enough == IF request[u].kind = "early"
                     THEN request[u].amount <= NextVestBalance(u)
                     ELSE CanWithdraw(u, request[u].amount)
       IN  IF enough THEN Stage(u, "checked") ELSE Release(u)
    /\ UNCHANGED <<now, tables, mailed, confirm, job, chain, crashes>>

\* An early lockup reads the next vest a second time, to record its date.
DateLockup(u) ==
    /\ request[u].kind = "early" /\ request[u].stage = "checked"
    /\ request' = [request EXCEPT ![u].stage = "dated", ![u].vest = NextVest(u)]
    /\ UNCHANGED <<now, tables, mailed, confirm, job, chain, crashes>>

InsertLockup(u) ==
    /\ \/ request[u].kind = "early" /\ request[u].stage = "dated"
       \/ request[u].kind = "lockup" /\ request[u].stage = "checked"
    /\ lockups' = Append(lockups,
                        [user |-> u, amount |-> request[u].amount,
                         vest |-> request[u].vest, confirmed |-> FALSE,
                         createdAt |-> now, end |-> now + LockupDuration])
    /\ Stage(u, "inserted")
    /\ UNCHANGED <<now, transfers, openTasks, mailed, confirm, job, chain, crashes>>

AnswerLockup(u) ==
    /\ request[u].kind \in {"early", "lockup"} /\ request[u].stage = "inserted"
    /\ \E k \in DOMAIN lockups :
        /\ lockups[k].user = u
        /\ \A i \in DOMAIN lockups : lockups[i].user = u => i <= k
        /\ mailed' \in {mailed, mailed \cup {<<"lockup", k>>}}
    /\ Release(u)
    /\ UNCHANGED <<now, tables, confirm, job, chain, crashes>>

-----------------------------------------------------------------------------
(* Confirmations, under no lock *)

\* Slip: whatever the status of the transfer.
MayConfirmAny(t) == TRUE
MayConfirm(t) == transfers[t].status = "WaitingEmailConfirm"

\* POST /transfers/:id: the row is read and checked, then written in a second step.
CheckConfirm(c, t) ==
    /\ confirm[c] = NoConfirm
    /\ <<"transfer", t>> \in mailed
    /\ MayConfirm(t)
    /\ confirm' = [confirm EXCEPT ![c] =
            [kind |-> IF TransferHasExpired(transfers[t]) THEN "expire" ELSE "enqueue",
             id |-> t]]
    /\ UNCHANGED <<now, tables, mailed, request, job, chain, crashes>>

WriteConfirm(c) ==
    /\ confirm[c].kind \in {"expire", "enqueue"}
    /\ transfers' = [transfers EXCEPT ![confirm[c].id].status =
                        IF confirm[c].kind = "expire" THEN "Expired" ELSE "Enqueued"]
    /\ confirm' = [confirm EXCEPT ![c] = NoConfirm]
    /\ UNCHANGED <<now, lockups, openTasks, mailed, request, job, chain, crashes>>

\* POST /lockups/:id.
CheckConfirmLockup(c, k) ==
    /\ confirm[c] = NoConfirm
    /\ <<"lockup", k>> \in mailed
    /\ ~lockups[k].confirmed
    /\ ~LockupHasExpired(lockups[k])
    /\ confirm' = [confirm EXCEPT ![c] = [kind |-> "lockup", id |-> k]]
    /\ UNCHANGED <<now, tables, mailed, request, job, chain, crashes>>

WriteConfirmLockup(c) ==
    /\ confirm[c].kind = "lockup"
    /\ lockups' = [lockups EXCEPT ![confirm[c].id].confirmed = TRUE]
    /\ confirm' = [confirm EXCEPT ![c] = NoConfirm]
    /\ UNCHANGED <<now, transfers, openTasks, mailed, request, job, chain, crashes>>

-----------------------------------------------------------------------------
(* The job executeTransfers; an exception that escapes it leaves its task open *)

GoOn(r, pc) == job' = [job EXCEPT ![r].pc = pc]
Finish(r)   == job' = [job EXCEPT ![r] = NoRun]

SetStatus(t, status) == transfers' = [transfers EXCEPT ![t].status = status]

\* node-cron starts a run every ten seconds, whatever became of the last one.
StartRun(r) ==
    /\ job[r] = NoRun
    /\ job' = [job EXCEPT ![r] =
            [NoRun EXCEPT !.pc = "confirming",
                          !.todo = {<<t, transfers[t].hash>> : t \in
                              {i \in DOMAIN transfers :
                                  transfers[i].status = "WaitingConfirmation"}}]]
    /\ UNCHANGED <<now, tables, mailed, request, confirm, chain, crashes>>

\* Slip: the other transfers are looked at, and a new one may be sent.
LookAtOthers(r, w) == job' = [job EXCEPT ![r].todo = @ \ {w}]

\* A transfer whose transaction is not confirmed ends the run.
NotConfirmed(r, w) == Finish(r)

\* checkBlockConfirmation: a reverted transaction is reported at once, a good one
\* after NumBlockConfirmation blocks; for any other the run is over.
CheckBlockConfirmation(r) ==
    /\ job[r].pc = "confirming"
    /\ \E w \in job[r].todo :
        \/ /\ chain[w[2]].state = "confirmed"
           /\ SetStatus(w[1], "Success")
           /\ job' = [job EXCEPT ![r].todo = @ \ {w}]
        \/ /\ chain[w[2]].state \in {"reverted", "lost"}
           /\ SetStatus(w[1], "Failed")
           /\ job' = [job EXCEPT ![r].todo = @ \ {w}]
        \/ /\ chain[w[2]].state \in {"pending", "included"}
           /\ NotConfirmed(r, w)
           /\ UNCHANGED transfers
    /\ UNCHANGED <<now, lockups, openTasks, mailed, request, confirm, chain, crashes>>

\* TransferTask.findAll, which is not given the serializable transaction either.
ReadTasks(r) ==
    /\ job[r].pc = "confirming" /\ job[r].todo = {}
    /\ IF openTasks > 0 THEN Finish(r) ELSE GoOn(r, "processing")
    /\ UNCHANGED <<now, tables, mailed, request, confirm, chain, crashes>>

ReadProcessing(r) ==
    /\ job[r].pc = "processing"
    /\ IF \E t \in DOMAIN transfers : transfers[t].status = "Processing"
       THEN Finish(r) ELSE GoOn(r, "create")
    /\ UNCHANGED <<now, tables, mailed, request, confirm, chain, crashes>>

CreateTask(r) ==
    /\ job[r].pc = "create"
    /\ openTasks' = openTasks + 1
    /\ GoOn(r, "pick")
    /\ UNCHANGED <<now, transfers, lockups, mailed, request, confirm, chain, crashes>>

Due(t) ==
    /\ transfers[t].status = "Enqueued"
    /\ \/ transfers[t].amount < LargeTransferThreshold
       \/ now - transfers[t].createdAt >= LargeTransferDelay

\* Transfer.findOne.  The model does not keep updated_at: any due transfer may be
\* the one that has waited longest.
PickTransfer(r) ==
    /\ job[r].pc = "pick"
    /\ IF \E t \in DOMAIN transfers : Due(t)
       THEN \E t \in DOMAIN transfers :
                Due(t) /\ job' = [job EXCEPT ![r].pc = "balance", ![r].transfer = t]
       ELSE GoOn(r, "end")
    /\ UNCHANGED <<now, tables, mailed, request, confirm, chain, crashes>>

\* executeTransfer: getBalance throws when the user is overdrawn.
CheckBalance(r) ==
    /\ job[r].pc = "balance"
    /\ IF Available(transfers[job[r].transfer].user) < 0
       THEN Finish(r) ELSE GoOn(r, "mark")
    /\ UNCHANGED <<now, tables, mailed, request, confirm, chain, crashes>>

MarkProcessing(r) ==
    /\ job[r].pc = "mark"
    /\ SetStatus(job[r].transfer, "Processing")
    /\ GoOn(r, "credit")
    /\ UNCHANGED <<now, lockups, openTasks, mailed, request, confirm, chain, crashes>>

\* token.credit: the supplier is short of tokens, the token is paused or the gas
\* estimate fails, and nothing is sent.
CreditRefused(r) ==
    /\ job[r].pc = "credit"
    /\ GoOn(r, "failed")
    /\ UNCHANGED <<now, tables, mailed, request, confirm, chain, crashes>>

CreditSent(r) ==
    /\ job[r].pc = "credit"
    /\ chain' = Append(chain, [transfer |-> job[r].transfer, state |-> "pending"])
    /\ job' = [job EXCEPT ![r].pc = "sent", ![r].hash = Len(chain) + 1]
    /\ UNCHANGED <<now, tables, mailed, request, confirm, crashes>>

\* sendTx waits for the event "transactionHash" and for nothing else: when web3
\* reports an error instead, the promise is never settled.
CreditUnanswered(r) ==
    /\ Hangs
    /\ job[r].pc = "credit"
    /\ GoOn(r, "hung")
    /\ UNCHANGED <<now, tables, mailed, request, confirm, chain, crashes>>

\* Slip: the run returns without ending its task.
RecordFailedReturns(r) ==
    /\ job[r].pc = "failed"
    /\ SetStatus(job[r].transfer, "Failed")
    /\ Finish(r)
    /\ UNCHANGED <<now, lockups, openTasks, mailed, request, confirm, chain, crashes>>

RecordFailed(r) ==
    /\ job[r].pc = "failed"
    /\ SetStatus(job[r].transfer, "Failed")
    /\ GoOn(r, "end")
    /\ UNCHANGED <<now, lockups, openTasks, mailed, request, confirm, chain, crashes>>

\* Slip: the hash is not recorded.
RecordSentNoHash(r) ==
    /\ job[r].pc = "sent"
    /\ SetStatus(job[r].transfer, "WaitingConfirmation")
    /\ GoOn(r, "end")
    /\ UNCHANGED <<now, lockups, openTasks, mailed, request, confirm, chain, crashes>>

RecordSent(r) ==
    /\ job[r].pc = "sent"
    /\ transfers' = [transfers EXCEPT ![job[r].transfer].status = "WaitingConfirmation",
                                      ![job[r].transfer].hash = job[r].hash]
    /\ GoOn(r, "end")
    /\ UNCHANGED <<now, lockups, openTasks, mailed, request, confirm, chain, crashes>>

EndTask(r) ==
    /\ job[r].pc = "end"
    /\ openTasks' = openTasks - 1
    /\ Finish(r)
    /\ UNCHANGED <<now, transfers, lockups, mailed, request, confirm, chain, crashes>>

-----------------------------------------------------------------------------
(* The chain, the clock and restarts *)

SetState(i, state) ==
    /\ chain' = [chain EXCEPT ![i].state = state]
    /\ UNCHANGED <<now, tables, server, crashes>>

Include(i) == chain[i].state = "pending" /\ \E s \in {"included", "reverted"} : SetState(i, s)

\* Enough blocks on top: the outcome can no longer change.
Bury(i) ==
    \/ chain[i].state = "included" /\ SetState(i, "confirmed")
    \/ chain[i].state = "reverted" /\ SetState(i, "lost")

Reorg(i) == chain[i].state \in Undone /\ SetState(i, "pending")

Tick ==
    /\ now < MaxNow
    /\ now >= LastRequest => \A u \in Users : request[u] = NoRequest
    /\ now' = now + 1
    /\ UNCHANGED <<tables, server, chain, crashes>>

\* The process restarts: locks, requests and runs are gone, the tables stay.
Crash ==
    /\ crashes < MaxCrashes
    /\ crashes' = crashes + 1
    /\ request' = [u \in Users |-> NoRequest]
    /\ confirm' = [c \in Confirmers |-> NoConfirm]
    /\ job' = [r \in Runs |-> NoRun]
    /\ UNCHANGED <<now, tables, mailed, chain>>

-----------------------------------------------------------------------------
RequestStep(u) ==
    \/ InsertTransfer(u) \/ AnswerTransfer(u)
    \/ CheckLockup(u) \/ DateLockup(u) \/ InsertLockup(u) \/ AnswerLockup(u)

ConfirmStep(c) == WriteConfirm(c) \/ WriteConfirmLockup(c)

RunStep(r) ==
    \/ StartRun(r) \/ CheckBlockConfirmation(r)
    \/ ReadTasks(r) \/ ReadProcessing(r) \/ CreateTask(r)
    \/ PickTransfer(r) \/ CheckBalance(r) \/ MarkProcessing(r)
    \/ CreditRefused(r) \/ CreditSent(r) \/ CreditUnanswered(r)
    \/ RecordFailed(r) \/ RecordSent(r) \/ EndTask(r)

ChainStep == \E i \in DOMAIN chain : Include(i) \/ Bury(i)

Next ==
    \/ \E u \in Users :
        \/ \E amount \in TransferAmounts : BeginTransfer(u, amount)
        \/ \E amount \in LockupAmounts, kind \in {"early", "lockup"} :
                BeginLockup(u, amount, kind)
        \/ RequestStep(u)
    \/ \E c \in Confirmers :
        \/ \E t \in DOMAIN transfers : CheckConfirm(c, t)
        \/ \E k \in DOMAIN lockups : CheckConfirmLockup(c, k)
        \/ ConfirmStep(c)
    \/ \E r \in Runs : RunStep(r)
    \/ ChainStep
    \/ \E i \in DOMAIN chain : Reorg(i)
    \/ Tick
    \/ Crash

Spec == Init /\ [][Next]_vars

\* The server answers what it has begun, cron keeps starting runs and runs go
\* on, miners include transactions, reorganisations do not undo one for ever, and
\* time passes; the last minute for requests ends between two of them, although users
\* may ask again and again for what they are refused.
FairSpec ==
    /\ Spec
    /\ \A u \in Users : WF_vars(RequestStep(u))
    /\ \A c \in Confirmers : WF_vars(ConfirmStep(c))
    /\ \A r \in Runs : WF_vars(RunStep(r))
    /\ WF_vars(ChainStep) /\ SF_vars(\E i \in DOMAIN chain : Bury(i))
    /\ SF_vars(Tick)

-----------------------------------------------------------------------------
(* Properties *)

TransferRow ==
    [user : Users, amount : Nat, status : TransferStatuses, createdAt : Nat, hash : Nat]
LockupRow ==
    [user : Users, amount : Nat, vest : Nat, confirmed : BOOLEAN,
     createdAt : Nat, end : Nat]

\* Rows, requests, confirmations, runs and transactions refer to rows that exist.
TypeOK ==
    /\ now \in 0 .. MaxNow
    /\ transfers \in Seq(TransferRow) /\ Len(transfers) <= MaxTransfers
    /\ lockups \in Seq(LockupRow) /\ Len(lockups) <= MaxLockups
    /\ openTasks \in Nat
    /\ mailed \subseteq ({"transfer"} \X (DOMAIN transfers)) \cup ({"lockup"} \X (DOMAIN lockups))
    /\ \A u \in Users :
            /\ request[u].stage \in {"idle", "listed", "checked", "dated", "inserted"}
            /\ request[u].kind \in {"transfer", "early", "lockup"}
            /\ request[u].amount \in Nat /\ request[u].vest \in Nat
    /\ \A c \in Confirmers :
            \/ confirm[c] = NoConfirm
            \/ confirm[c].kind \in {"enqueue", "expire"} /\ confirm[c].id \in DOMAIN transfers
            \/ confirm[c].kind = "lockup" /\ confirm[c].id \in DOMAIN lockups
    /\ \A r \in Runs :
            /\ job[r].todo \subseteq (DOMAIN transfers) \X (DOMAIN chain)
            /\ job[r].transfer \in {0} \cup DOMAIN transfers
            /\ job[r].hash \in {0} \cup DOMAIN chain
    /\ \A i \in DOMAIN chain :
            /\ chain[i].transfer \in DOMAIN transfers
            /\ chain[i].state \in {"pending", "included", "reverted", "confirmed", "lost"}

\* No user ever owes tokens: "Amount of available OGN is below 0" (balance.js) is
\* never thrown.
NeverOverdrawn == \A u \in Users : Available(u) >= 0

\* No confirmation and no run of the job is about to count a transfer again that has
\* given its amount back since it was looked at, by expiring or by failing.
NothingGivenBackHeld ==
    /\ \A c \in Confirmers :
            confirm[c].kind = "enqueue" => Counts(transfers[confirm[c].id])
    /\ \A r \in Runs :
            /\ job[r].pc \in {"mark", "sent"} => Counts(transfers[job[r].transfer])
            /\ \A w \in job[r].todo : Counts(transfers[w[1]])

\* An early lockup that was checked against one vest would pass against the vest that is
\* next by now, if there is one: its date is read in a second step.
EarlyLockupsFit ==
    \A u \in Users :
        request[u].kind = "early" /\ request[u].stage = "checked"
            => NextVest(u) = 0 \/ request[u].amount <= NextVestBalance(u)

\* No tokens are locked up from a vest that a cancellation calls off.
LockedFromVests == \A k \in DOMAIN lockups : lockups[k].vest <= Cancelled[lockups[k].user]

InTime == NothingGivenBackHeld /\ EarlyLockupsFit /\ LockedFromVests

\* The three ways of InTime to be late are all there are for a user to come to owe
\* tokens.  Unless one of them occurs, no user ever does, whatever other expiries, vests,
\* failed payments, restarts and minutes come between a check of the balance and the row
\* that it allows.
OverdrawnOnlyIfLate == []InTime => []NeverOverdrawn

\* Transactions that moved, or may still move, the tokens of a transfer.
Payments(t) == {i \in DOMAIN chain : chain[i].transfer = t
                    /\ chain[i].state \in {"pending", "included", "confirmed"}}

\* A transfer is paid by one transaction at most, in spite of later runs of the
\* job and of restarts between credit and the update that records its hash.
PaidAtMostOnce == \A t \in DOMAIN transfers : Cardinality(Payments(t)) <= 1

\* What has left or may leave for a user, by the chain and not by the tables, is covered
\* by what vested and was earned, also when the user has come to owe tokens.
SpendsOnlyVested ==
    \A u \in Users :
        Sum(transfers, {t \in DOMAIN transfers :
                            transfers[t].user = u /\ Payments(t) # {}})
            <= Vested(u) + UnlockedEarnings(u)

\* "Checks if a transaction is confirmed by checking if a number of blocks has been mined"
\* (token.js): a transfer reported as failed, whose amount the user may spend again, is
\* not paid in the end.
FailedIsUnpaid ==
    \A t \in DOMAIN transfers : transfers[t].status = "Failed" => Payments(t) = {}

\* There is one payment at a time: a transfer is not touched before the last one
\* that was is settled, also when a restart left that one half done.
OneInFlight ==
    Cardinality({t \in DOMAIN transfers :
        transfers[t].status \in {"Processing", "WaitingConfirmation"}}) <= 1

\* "should not confirm a transfer in any state except waiting for email confirmation"
\* (transfer.test.js): no other transfer becomes enqueued.
EnqueuedByConfirmation ==
    [][\A t \in DOMAIN transfers :
        transfers'[t].status = "Enqueued"
            => transfers[t].status \in {"WaitingEmailConfirm", "Enqueued"}]_vars

\* A settled transfer stays settled: what a user was told is final.
SettledIsFinal ==
    [][\A t \in DOMAIN transfers :
        transfers[t].status \in {"Success", "Failed", "Expired"}
            => transfers'[t].status = transfers[t].status]_vars

\* Without a restart, which can leave a transfer half done and its task open, and a
\* send that is never answered, both of which stop the job for good.
Unobstructed == crashes = 0 /\ \A r \in Runs : job[r].pc # "hung"

\* Every confirmed withdrawal is paid in the end, or has failed and gives its amount
\* back, through large-transfer delays, late confirmations, refused sends, reverted
\* transactions and reorganisations: no run leaves a task open that would stop all later
\* runs.  Where a user comes to owe tokens, the balance check leaves one open.
EnqueuedSettles ==
    []NeverOverdrawn =>
        []<>(Unobstructed =>
                \A t \in DOMAIN transfers :
                    transfers[t].status \notin {"Enqueued", "Processing", "WaitingConfirmation"})
=============================================================================
