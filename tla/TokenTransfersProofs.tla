------------------------ MODULE TokenTransfersProofs ------------------------
(***************************************************************************)
(* Proofs about the T3 server, for any users, vests, amounts and timeouts, *)
(* any number of requests, confirmations, runs of the job and restarts.    *)
(*                                                                         *)
(* Types: rows, requests, runs and transactions refer to rows and          *)
(* transactions that exist, and every run that goes on has a task of its   *)
(* own to end.  Payments: each transfer is sent once, as long as no two    *)
(* runs of the job are under way and no transfer is confirmed twice at the *)
(* same time.  Balances: a user comes to owe tokens in three ways only,    *)
(* and by the chain never gets more than has vested and was earned.        *)
(* Vesting schedules: for every grant, an employee's and an investor's     *)
(* vests are natural numbers that add up to the grant, and what has vested *)
(* at any time, whatever was cancelled, is no more than that.              *)
(***************************************************************************)
EXTENDS MCTokenTransfers, FiniteTheorems

Stages == {"idle", "listed", "checked", "dated", "inserted"}
Kinds  == {"transfer", "early", "lockup"}
States == {"pending", "included", "reverted", "confirmed", "lost"}
Pcs    == {"idle", "confirming", "processing", "create", "pick", "balance", "mark",
           "credit", "failed", "sent", "hung", "end"}

Request      == [stage : Stages, kind : Kinds, amount : Nat, vest : Nat]
Confirmation == [kind : {"none", "enqueue", "expire", "lockup"}, id : Nat]
Run          == [pc : Pcs, todo : SUBSET (Nat \X Nat), transfer : Nat, hash : Nat]
Tx           == [transfer : Nat, state : States]

Typed ==
    /\ now \in 0 .. MaxNow /\ openTasks \in Nat
    /\ transfers \in Seq(TransferRow) /\ lockups \in Seq(LockupRow)
    /\ request \in [Users -> Request]
    /\ confirm \in [Confirmers -> Confirmation]
    /\ job \in [Runs -> Run]
    /\ chain \in Seq(Tx)

MailLinked ==
    mailed \subseteq ({"transfer"} \X (DOMAIN transfers)) \cup ({"lockup"} \X (DOMAIN lockups))

ConfirmLinked ==
    \A c \in Confirmers :
        /\ confirm[c].kind = "none" => confirm[c] = NoConfirm
        /\ confirm[c].kind \in {"enqueue", "expire"} => confirm[c].id \in DOMAIN transfers
        /\ confirm[c].kind = "lockup" => confirm[c].id \in DOMAIN lockups

\* What a run, as a record, refers to: its transfer as soon as it has picked one,
\* and its transaction as soon as it has sent one.
RunLinked(run) ==
    /\ run.todo \subseteq (DOMAIN transfers) \X (DOMAIN chain)
    /\ run.transfer \in {0} \cup DOMAIN transfers
    /\ run.hash \in {0} \cup DOMAIN chain
    /\ run.pc \in {"balance", "mark", "credit", "failed", "sent"} => run.transfer # 0
    /\ run.pc = "sent" => run.hash # 0

JobLinked == \A r \in Runs : RunLinked(job[r])

ChainLinked == \A i \in DOMAIN chain : chain[i].transfer \in DOMAIN transfers

HashLinked ==
    \A t \in DOMAIN transfers :
        transfers[t].status = "WaitingConfirmation" => transfers[t].hash \in DOMAIN chain

Linked == MailLinked /\ ConfirmLinked /\ JobLinked /\ ChainLinked /\ HashLinked

\* The requests that are going to add a row have room for it.
IsComing(req, kinds) == req.kind \in kinds /\ req.stage \notin {"idle", "inserted"}
Comers(kinds) == {u \in Users : IsComing(request[u], kinds)}

Room ==
    /\ IsFiniteSet(Comers({"transfer"})) /\ IsFiniteSet(Comers({"early", "lockup"}))
    /\ Len(transfers) + Cardinality(Comers({"transfer"})) <= MaxTransfers
    /\ Len(lockups) + Cardinality(Comers({"early", "lockup"})) <= MaxLockups

\* Every run between the creation and the end of its task has an open one.
HasTask(run) == run.pc \in {"pick", "balance", "mark", "credit", "failed", "sent", "hung", "end"}
TaskOwners == {r \in Runs : HasTask(job[r])}

TasksOpen == IsFiniteSet(TaskOwners) /\ Cardinality(TaskOwners) <= openTasks

TInv == Typed /\ Linked /\ Room /\ TasksOpen

-----------------------------------------------------------------------------
(* Facts about rows and records *)

LEMMA Positions ==
    ASSUME Typed
    PROVE  /\ Len(transfers) \in Nat /\ DOMAIN transfers = 1 .. Len(transfers)
           /\ Len(lockups) \in Nat /\ DOMAIN lockups = 1 .. Len(lockups)
           /\ Len(chain) \in Nat /\ DOMAIN chain = 1 .. Len(chain)
           /\ DOMAIN transfers \subseteq Nat \ {0} /\ DOMAIN lockups \subseteq Nat \ {0}
           /\ DOMAIN chain \subseteq Nat \ {0}
           /\ \A t \in DOMAIN transfers : transfers[t] \in TransferRow
           /\ \A k \in DOMAIN lockups : lockups[k] \in LockupRow
           /\ \A i \in DOMAIN chain : chain[i] \in Tx
<1>1. transfers \in Seq(TransferRow) /\ lockups \in Seq(LockupRow) /\ chain \in Seq(Tx)
  BY DEF Typed
<1> QED
  BY <1>1, Elements

LEMMA NothingTyped ==
    /\ NoRequest \in Request /\ NoRequest.stage = "idle"
    /\ NoConfirm \in Confirmation /\ NoConfirm.kind = "none"
    /\ NoRun \in Run /\ NoRun.pc = "idle" /\ NoRun.todo = {} /\ NoRun.transfer = 0
    /\ NoRun.hash = 0
BY DEF NoRequest, NoConfirm, NoRun, Request, Confirmation, Run, Stages, Kinds, Pcs

\* Tables only grow.
Grown ==
    /\ DOMAIN transfers \subseteq DOMAIN transfers'
    /\ DOMAIN lockups \subseteq DOMAIN lockups'
    /\ DOMAIN chain \subseteq DOMAIN chain'

LEMMA StillLinked ==
    ASSUME Linked, Grown
    PROVE  /\ mailed' = mailed => MailLinked'
           /\ confirm' = confirm => ConfirmLinked'
           /\ \A r \in Runs : job'[r] = job[r] => RunLinked(job[r])' 
           /\ job' = job => JobLinked'
           /\ chain' = chain => ChainLinked'
           /\ transfers' = transfers => HashLinked'
<1>1. mailed' = mailed => MailLinked'
  BY DEF Linked, Grown, MailLinked
<1>2. confirm' = confirm => ConfirmLinked'
  BY DEF Linked, Grown, ConfirmLinked
<1>3. ASSUME NEW r \in Runs, job'[r] = job[r]
      PROVE  RunLinked(job[r])'
  BY <1>3 DEF Linked, Grown, JobLinked, RunLinked
<1>4. job' = job => JobLinked'
  BY <1>3 DEF JobLinked
<1>5. chain' = chain => ChainLinked'
  BY DEF Linked, Grown, ChainLinked
<1>6. transfers' = transfers => HashLinked'
  BY DEF Linked, Grown, HashLinked
<1> QED
  BY <1>1, <1>2, <1>3, <1>4, <1>5, <1>6

-----------------------------------------------------------------------------
(* Requests *)

LEMMA ComingCounts ==
    ASSUME NEW kinds
    PROVE  Coming(kinds) = Cardinality(Comers(kinds))
BY DEF Coming, Comers, IsComing

LEMMA OneRequest ==
    ASSUME Typed, NEW u \in Users, NEW req \in Request,
           request' = [request EXCEPT ![u] = req], NEW kinds
    PROVE  /\ request' \in [Users -> Request]
           /\ Comers(kinds)' \subseteq Comers(kinds) \cup {u}
           /\ ~IsComing(req, kinds) => Comers(kinds)' \subseteq Comers(kinds) \ {u}
           /\ IsComing(request[u], kinds) => Comers(kinds)' \subseteq Comers(kinds)
<1>1. request \in [Users -> Request]
  BY DEF Typed
<1>2. /\ request' \in [Users -> Request]
      /\ \A v \in Users : request'[v] = IF v = u THEN req ELSE request[v]
  BY <1>1
<1> QED
  BY <1>2 DEF Comers

\* Room stays when nobody new is coming and no row is added.
LEMMA RoomStays ==
    ASSUME Room, transfers' = transfers, lockups' = lockups, Typed,
           \A kinds \in {{"transfer"}, {"early", "lockup"}} :
                Comers(kinds)' \subseteq Comers(kinds)
    PROVE  Room'
<1> DEFINE W == Comers({"transfer"})
           L == Comers({"early", "lockup"})
<1>1. W' \subseteq W /\ L' \subseteq L /\ IsFiniteSet(W) /\ IsFiniteSet(L)
  BY DEF Room
<1>2. /\ Len(transfers) + Cardinality(W) <= MaxTransfers
      /\ Len(lockups) + Cardinality(L) <= MaxLockups
  BY DEF Room
<1>3. Len(transfers) \in Nat /\ Len(lockups) \in Nat
  BY Positions
<1> HIDE DEF W, L
<1>4. /\ IsFiniteSet(W') /\ Cardinality(W') \in Nat /\ Cardinality(W') <= Cardinality(W)
      /\ IsFiniteSet(L') /\ Cardinality(L') \in Nat /\ Cardinality(L') <= Cardinality(L)
  BY <1>1, CountSame
<1>5. Cardinality(W) \in Nat /\ Cardinality(L) \in Nat
  BY <1>1, FS_CardinalityType
<1>6. /\ Len(transfers) + Cardinality(W') <= MaxTransfers
      /\ Len(lockups) + Cardinality(L') <= MaxLockups
  BY <1>2, <1>3, <1>4, <1>5, TableAssumption
<1> QED
  BY <1>4, <1>6 DEF Room, W, L

\* The rest of the invariant when only requests change.
LEMMA RequestOnly ==
    ASSUME TInv, UNCHANGED <<now, tables, confirm, job, chain>>,
           request' \in [Users -> Request], MailLinked', Room'
    PROVE  TInv'
<1> USE DEF TInv, tables
<1>1. Typed'
  BY DEF Typed
<1>2. Linked'
  BY StillLinked DEF Grown, Linked
<1>3. TasksOpen'
  BY DEF TasksOpen, TaskOwners
<1> QED
  BY <1>1, <1>2, <1>3

\* A request goes on, or ends.
LEMMA RequestGoesOn ==
    ASSUME TInv, NEW u \in Users, NEW req \in Request,
           request' = [request EXCEPT ![u] = req],
           UNCHANGED <<now, tables, confirm, job, chain>>, MailLinked',
           \A kinds : IsComing(req, kinds) => IsComing(request[u], kinds)
    PROVE  TInv'
<1>1. request' \in [Users -> Request] /\ Typed /\ Room
  BY OneRequest DEF TInv
<1>2. ASSUME NEW kinds
      PROVE  Comers(kinds)' \subseteq Comers(kinds)
  <2>1. CASE IsComing(req, kinds)
    BY <1>1, <2>1, OneRequest
  <2>2. CASE ~IsComing(req, kinds)
    BY <1>1, <2>2, OneRequest
  <2> QED
    BY <2>1, <2>2
<1>3. Room'
  BY <1>1, <1>2, RoomStays DEF tables
<1> QED
  BY <1>1, <1>3, RequestOnly

\* A request begins while there is room for the row it may add.
LEMMA RequestBegins ==
    ASSUME TInv, NEW u \in Users, NEW req \in Request,
           request' = [request EXCEPT ![u] = req],
           UNCHANGED <<now, tables, mailed, confirm, job, chain>>,
           \/ /\ Len(transfers) + Coming({"transfer"}) < MaxTransfers
              /\ ~IsComing(req, {"early", "lockup"})
           \/ /\ Len(lockups) + Coming({"early", "lockup"}) < MaxLockups
              /\ ~IsComing(req, {"transfer"})
    PROVE  TInv'
<1> DEFINE W == Comers({"transfer"})
           L == Comers({"early", "lockup"})
<1>1. /\ Typed /\ IsFiniteSet(W) /\ IsFiniteSet(L)
      /\ Len(transfers) + Cardinality(W) <= MaxTransfers
      /\ Len(lockups) + Cardinality(L) <= MaxLockups
      /\ Len(transfers) \in Nat /\ Len(lockups) \in Nat
  BY Positions DEF TInv, Room
<1>2. /\ request' \in [Users -> Request]
      /\ W' \subseteq W \cup {u} /\ L' \subseteq L \cup {u}
      /\ ~IsComing(req, {"transfer"}) => W' \subseteq W
      /\ ~IsComing(req, {"early", "lockup"}) => L' \subseteq L
  BY <1>1, OneRequest
<1>3. \/ /\ Len(transfers) + Cardinality(W) < MaxTransfers /\ L' \subseteq L
      \/ /\ Len(lockups) + Cardinality(L) < MaxLockups /\ W' \subseteq W
  BY <1>2, ComingCounts
<1> HIDE DEF W, L
<1>4. /\ IsFiniteSet(W') /\ Cardinality(W') \in Nat /\ Cardinality(W') <= Cardinality(W) + 1
      /\ IsFiniteSet(L') /\ Cardinality(L') \in Nat /\ Cardinality(L') <= Cardinality(L) + 1
      /\ W' \subseteq W => Cardinality(W') <= Cardinality(W)
      /\ L' \subseteq L => Cardinality(L') <= Cardinality(L)
  BY <1>1, <1>2, CountUp, CountSame
<1>5. Cardinality(W) \in Nat /\ Cardinality(L) \in Nat
  BY <1>1, FS_CardinalityType
<1>6. /\ Len(transfers) + Cardinality(W') <= MaxTransfers
      /\ Len(lockups) + Cardinality(L') <= MaxLockups
  <2>1. MaxTransfers \in Nat /\ MaxLockups \in Nat
    BY TableAssumption
  <2>2. /\ Len(transfers) + Cardinality(W) <= MaxTransfers
        /\ Len(lockups) + Cardinality(L) <= MaxLockups
        /\ Len(transfers) \in Nat /\ Len(lockups) \in Nat
    BY <1>1
  <2>3. CASE Len(transfers) + Cardinality(W) < MaxTransfers /\ L' \subseteq L
    <3>1. Cardinality(L') <= Cardinality(L)
      BY <1>4, <2>3
    <3> QED
      BY ONLY <1>4, <1>5, <2>1, <2>2, <2>3, <3>1
  <2>4. CASE Len(lockups) + Cardinality(L) < MaxLockups /\ W' \subseteq W
    <3>1. Cardinality(W') <= Cardinality(W)
      BY <1>4, <2>4
    <3> QED
      BY ONLY <1>4, <1>5, <2>1, <2>2, <2>4, <3>1
  <2> QED
    BY <1>3, <2>3, <2>4
<1>7. Room'
  BY <1>4, <1>6 DEF Room, W, L, tables
<1>8. MailLinked'
  BY DEF TInv, Linked, MailLinked, tables
<1> QED
  BY <1>2, <1>7, <1>8, RequestOnly

LEMMA BeginTransferTyped ==
    ASSUME TInv, NEW u \in Users, NEW amount \in TransferAmounts, BeginTransfer(u, amount)
    PROVE  TInv'
<1> DEFINE req == [stage |-> "checked", kind |-> "transfer", amount |-> amount, vest |-> 0]
<1>1. req \in Request /\ ~IsComing(req, {"early", "lockup"})
  BY TableAssumption DEF Request, Stages, Kinds, IsComing
<1>2. /\ request' = [request EXCEPT ![u] = req]
      /\ Len(transfers) + Coming({"transfer"}) < MaxTransfers
      /\ UNCHANGED <<now, tables, mailed, confirm, job, chain>>
  BY DEF BeginTransfer
<1> HIDE DEF req
<1> QED
  BY <1>1, <1>2, RequestBegins

LEMMA BeginLockupTyped ==
    ASSUME TInv, NEW u \in Users, NEW amount \in LockupAmounts,
           NEW kind \in {"early", "lockup"}, BeginLockup(u, amount, kind)
    PROVE  TInv'
<1> DEFINE req == [stage |-> "listed", kind |-> kind, amount |-> amount, vest |-> 0]
<1>1. req \in Request /\ ~IsComing(req, {"transfer"})
  BY TableAssumption DEF Request, Stages, Kinds, IsComing
<1>2. /\ request' = [request EXCEPT ![u] = req]
      /\ Len(lockups) + Coming({"early", "lockup"}) < MaxLockups
      /\ UNCHANGED <<now, tables, mailed, confirm, job, chain>>
  BY DEF BeginLockup
<1> HIDE DEF req
<1> QED
  BY <1>1, <1>2, RequestBegins

LEMMA InsertTransferTyped ==
    ASSUME TInv, NEW u \in Users, InsertTransfer(u)
    PROVE  TInv'
<1> DEFINE W == Comers({"transfer"})
           L == Comers({"early", "lockup"})
           req == [request[u] EXCEPT !.stage = "inserted"]
           row == [user |-> u, amount |-> request[u].amount,
                   status |-> "WaitingEmailConfirm", createdAt |-> now, hash |-> 0]
<1>1. /\ Typed /\ IsFiniteSet(W) /\ IsFiniteSet(L)
      /\ Len(transfers) + Cardinality(W) <= MaxTransfers
      /\ Len(lockups) + Cardinality(L) <= MaxLockups
      /\ Len(transfers) \in Nat /\ Len(lockups) \in Nat
  BY Positions DEF TInv, Room
<1>2. /\ request[u] \in Request /\ request[u].kind = "transfer"
      /\ request[u].stage = "checked" /\ now \in Nat
      /\ request' = [request EXCEPT ![u] = req]
  BY <1>1, TableAssumption DEF Typed, InsertTransfer, Stage
<1>3. /\ req \in Request /\ ~IsComing(req, {"transfer"})
      /\ ~IsComing(req, {"early", "lockup"}) /\ u \in W
  BY <1>2 DEF Request, Stages, IsComing, Comers
<1>4. row \in TransferRow /\ row.status # "WaitingConfirmation"
  BY <1>2 DEF TransferRow, TransferStatuses, Request
<1>5. transfers' = Append(transfers, row) /\ transfers \in Seq(TransferRow)
  BY <1>1 DEF InsertTransfer, Typed
<1> HIDE DEF req, row
<1>6. /\ request' \in [Users -> Request] /\ W' \subseteq W \ {u} /\ L' \subseteq L
  <2>1. /\ request' \in [Users -> Request]
        /\ \A kinds : /\ ~IsComing(req, kinds) => Comers(kinds)' \subseteq Comers(kinds) \ {u}
                      /\ Comers(kinds)' \subseteq Comers(kinds) \cup {u}
    BY ONLY <1>1, <1>2, <1>3, u \in Users, OneRequest
  <2>2. W' \subseteq W \ {u} /\ L' \subseteq L \ {u}
    BY ONLY <1>3, <2>1
  <2> QED
    BY <2>1, <2>2
<1>7. /\ transfers' \in Seq(TransferRow) /\ Len(transfers') = Len(transfers) + 1
      /\ DOMAIN transfers' = DOMAIN transfers \cup {Len(transfers) + 1}
      /\ \A t \in DOMAIN transfers : transfers'[t] = transfers[t]
      /\ transfers'[Len(transfers) + 1] = row
  BY <1>4, <1>5, AddElement
<1> HIDE DEF W, L
<1>8. /\ IsFiniteSet(W') /\ Cardinality(W') \in Nat /\ Cardinality(W') <= Cardinality(W) - 1
      /\ IsFiniteSet(L') /\ Cardinality(L') \in Nat /\ Cardinality(L') <= Cardinality(L)
      /\ Cardinality(W) \in Nat /\ Cardinality(L) \in Nat
  BY <1>1, <1>3, <1>6, CountDown, CountSame, FS_CardinalityType DEF W
<1>9. MaxTransfers \in Nat /\ MaxLockups \in Nat
  BY TableAssumption
<1>10. /\ Len(transfers') + Cardinality(W') <= MaxTransfers
       /\ Len(lockups) + Cardinality(L') <= MaxLockups
  BY ONLY <1>1, <1>7, <1>8, <1>9
<1>11. UNCHANGED <<now, lockups, openTasks, mailed, confirm, job, chain>>
  BY DEF InsertTransfer
<1>12. Room'
  BY <1>8, <1>10, <1>11 DEF Room, W, L
<1>13. Typed'
  BY <1>1, <1>6, <1>7, <1>11 DEF Typed
<1>14. Linked'
  <2>1. Linked /\ Grown
    BY <1>7, <1>11 DEF TInv, Grown
  <2>2. HashLinked'
    BY <1>4, <1>7, <1>11, <2>1 DEF Linked, HashLinked
  <2> QED
    BY <1>11, <2>1, <2>2, StillLinked DEF Linked
<1>15. TasksOpen'
  BY <1>11 DEF TInv, TasksOpen, TaskOwners
<1> QED
  BY <1>12, <1>13, <1>14, <1>15 DEF TInv

LEMMA InsertLockupTyped ==
    ASSUME TInv, NEW u \in Users, InsertLockup(u)
    PROVE  TInv'
<1> DEFINE W == Comers({"transfer"})
           L == Comers({"early", "lockup"})
           req == [request[u] EXCEPT !.stage = "inserted"]
           row == [user |-> u, amount |-> request[u].amount,
                   vest |-> request[u].vest, confirmed |-> FALSE,
                   createdAt |-> now, end |-> now + LockupDuration]
<1>1. /\ Typed /\ IsFiniteSet(W) /\ IsFiniteSet(L)
      /\ Len(transfers) + Cardinality(W) <= MaxTransfers
      /\ Len(lockups) + Cardinality(L) <= MaxLockups
      /\ Len(transfers) \in Nat /\ Len(lockups) \in Nat
  BY Positions DEF TInv, Room
<1>2. /\ request[u] \in Request /\ request[u].kind \in {"early", "lockup"}
      /\ request[u].stage \in {"dated", "checked"} /\ now \in Nat
      /\ request' = [request EXCEPT ![u] = req]
  <2>1. request \in [Users -> Request] /\ now \in Nat
    BY <1>1, TableAssumption DEF Typed
  <2>2. /\ request[u].kind \in {"early", "lockup"}
        /\ request[u].stage \in {"dated", "checked"}
        /\ request' = [request EXCEPT ![u] = req]
    BY DEF InsertLockup, Stage
  <2> QED
    BY ONLY <2>1, <2>2, u \in Users
<1>3. /\ req \in Request /\ ~IsComing(req, {"transfer"})
      /\ ~IsComing(req, {"early", "lockup"}) /\ u \in L
  BY <1>2 DEF Request, Stages, IsComing, Comers
<1>4. row \in LockupRow
  BY <1>2, TableAssumption DEF LockupRow, Request
<1>5. lockups' = Append(lockups, row) /\ lockups \in Seq(LockupRow)
  BY <1>1 DEF InsertLockup, Typed
<1> HIDE DEF req, row
<1>6. /\ request' \in [Users -> Request] /\ L' \subseteq L \ {u} /\ W' \subseteq W
  <2>1. /\ request' \in [Users -> Request]
        /\ \A kinds : /\ ~IsComing(req, kinds) => Comers(kinds)' \subseteq Comers(kinds) \ {u}
                      /\ Comers(kinds)' \subseteq Comers(kinds) \cup {u}
    BY ONLY <1>1, <1>2, <1>3, u \in Users, OneRequest
  <2>2. W' \subseteq W \ {u} /\ L' \subseteq L \ {u}
    BY ONLY <1>3, <2>1
  <2> QED
    BY <2>1, <2>2
<1>7. /\ lockups' \in Seq(LockupRow) /\ Len(lockups') = Len(lockups) + 1
      /\ DOMAIN lockups' = DOMAIN lockups \cup {Len(lockups) + 1}
  BY <1>4, <1>5, AddElement
<1> HIDE DEF W, L
<1>8. /\ IsFiniteSet(L') /\ Cardinality(L') \in Nat /\ Cardinality(L') <= Cardinality(L) - 1
      /\ IsFiniteSet(W') /\ Cardinality(W') \in Nat /\ Cardinality(W') <= Cardinality(W)
      /\ Cardinality(W) \in Nat /\ Cardinality(L) \in Nat
  BY <1>1, <1>3, <1>6, CountDown, CountSame, FS_CardinalityType DEF L
<1>9. MaxTransfers \in Nat /\ MaxLockups \in Nat
  BY TableAssumption
<1>10. /\ Len(lockups') + Cardinality(L') <= MaxLockups
       /\ Len(transfers) + Cardinality(W') <= MaxTransfers
  BY ONLY <1>1, <1>7, <1>8, <1>9
<1>11. UNCHANGED <<now, transfers, openTasks, mailed, confirm, job, chain>>
  BY DEF InsertLockup
<1>12. Room'
  BY <1>8, <1>10, <1>11 DEF Room, W, L
<1>13. Typed'
  BY <1>1, <1>6, <1>7, <1>11 DEF Typed
<1>14. Linked'
  <2>1. Linked /\ Grown
    BY <1>7, <1>11 DEF TInv, Grown
  <2> QED
    BY <1>11, <2>1, StillLinked DEF Linked
<1>15. TasksOpen'
  BY <1>11 DEF TInv, TasksOpen, TaskOwners
<1> QED
  BY <1>12, <1>13, <1>14, <1>15 DEF TInv

LEMMA AnswerTransferTyped ==
    ASSUME TInv, NEW u \in Users, AnswerTransfer(u)
    PROVE  TInv'
<1>1. /\ NoRequest \in Request /\ \A kinds : ~IsComing(NoRequest, kinds)
      /\ request' = [request EXCEPT ![u] = NoRequest]
      /\ UNCHANGED <<now, tables, confirm, job, chain>>
  BY NothingTyped DEF AnswerTransfer, Release, IsComing
<1>2. MailLinked'
  BY DEF AnswerTransfer, tables, TInv, Linked, MailLinked
<1> QED
  BY <1>1, <1>2, RequestGoesOn

LEMMA AnswerLockupTyped ==
    ASSUME TInv, NEW u \in Users, AnswerLockup(u)
    PROVE  TInv'
<1>1. /\ NoRequest \in Request /\ \A kinds : ~IsComing(NoRequest, kinds)
      /\ request' = [request EXCEPT ![u] = NoRequest]
      /\ UNCHANGED <<now, tables, confirm, job, chain>>
  BY NothingTyped DEF AnswerLockup, Release, IsComing
<1>2. MailLinked'
  BY DEF AnswerLockup, tables, TInv, Linked, MailLinked
<1> QED
  BY <1>1, <1>2, RequestGoesOn

LEMMA CheckLockupTyped ==
    ASSUME TInv, NEW u \in Users, CheckLockup(u)
    PROVE  TInv'
<1> DEFINE req == [request[u] EXCEPT !.stage = "checked"]
<1>1. request[u] \in Request /\ request[u].stage = "listed"
  BY DEF TInv, Typed, CheckLockup
<1>2. /\ req \in Request /\ \A kinds : IsComing(req, kinds) => IsComing(request[u], kinds)
      /\ NoRequest \in Request /\ \A kinds : ~IsComing(NoRequest, kinds)
  BY <1>1, NothingTyped DEF Request, Stages, IsComing
<1>3. /\ request' = [request EXCEPT ![u] = req] \/ request' = [request EXCEPT ![u] = NoRequest]
      /\ UNCHANGED <<now, tables, mailed, confirm, job, chain>>
  BY DEF CheckLockup, Stage, Release
<1>4. MailLinked'
  BY <1>3 DEF tables, TInv, Linked, MailLinked
<1> HIDE DEF req
<1>5. CASE request' = [request EXCEPT ![u] = req]
  BY <1>2, <1>3, <1>4, <1>5, RequestGoesOn
<1>6. CASE request' = [request EXCEPT ![u] = NoRequest]
  BY <1>2, <1>3, <1>4, <1>6, RequestGoesOn
<1> QED
  BY <1>3, <1>5, <1>6

\* The next vest is the earliest of those that have not vested.
LEMMA NextVestType ==
    ASSUME NEW u \in Users
    PROVE  NextVest(u) \in Nat
<1> DEFINE dates == {d \in DOMAIN Vests[u] : ~HasVested(u, d)}
<1>1. dates \subseteq Nat
  BY TableAssumption
<1>2. NextVest(u) = IF dates = {} THEN 0 ELSE CHOOSE d \in dates : \A e \in dates : d <= e
  BY DEF NextVest
<1> HIDE DEF dates
<1>3. CASE dates # {}
  <2>1. \E d \in dates : \A e \in dates : d <= e
    BY <1>1, <1>3, SmallestOf
  <2> QED
    BY <1>1, <1>2, <1>3, <2>1
<1> QED
  BY <1>2, <1>3

LEMMA DateLockupTyped ==
    ASSUME TInv, NEW u \in Users, DateLockup(u)
    PROVE  TInv'
<1> DEFINE req == [request[u] EXCEPT !.stage = "dated", !.vest = NextVest(u)]
<1>1. /\ request[u] \in Request /\ request[u].stage = "checked" /\ NextVest(u) \in Nat
      /\ request \in [Users -> Request]
  BY NextVestType DEF TInv, Typed, DateLockup
<1>2. req \in Request /\ \A kinds : IsComing(req, kinds) => IsComing(request[u], kinds)
  BY <1>1 DEF Request, Stages, IsComing
<1>3. /\ request' = [request EXCEPT ![u] = req]
      /\ UNCHANGED <<now, tables, mailed, confirm, job, chain>>
  BY <1>1 DEF DateLockup
<1>4. MailLinked'
  BY <1>3 DEF tables, TInv, Linked, MailLinked
<1> HIDE DEF req
<1> QED
  BY <1>2, <1>3, <1>4, RequestGoesOn

-----------------------------------------------------------------------------
(* Confirmations *)

\* A row is rewritten.
LEMMA RowRewritten ==
    ASSUME TInv, NEW t \in DOMAIN transfers, NEW row \in TransferRow,
           transfers' = [transfers EXCEPT ![t] = row],
           row.status = "WaitingConfirmation" => row.hash \in DOMAIN chain,
           UNCHANGED <<lockups, request, chain>>
    PROVE  /\ transfers' \in Seq(TransferRow) /\ DOMAIN transfers' = DOMAIN transfers
           /\ \A i \in DOMAIN transfers : transfers'[i] = IF i = t THEN row ELSE transfers[i]
           /\ HashLinked' /\ Room' /\ Grown
<1>1. transfers \in Seq(TransferRow)
  BY DEF TInv, Typed
<1>2. /\ transfers' \in Seq(TransferRow) /\ DOMAIN transfers' = DOMAIN transfers
      /\ Len(transfers') = Len(transfers)
      /\ \A i \in DOMAIN transfers : transfers'[i] = IF i = t THEN row ELSE transfers[i]
  BY <1>1, SetElement
<1>3. HashLinked'
  BY <1>2 DEF TInv, Linked, HashLinked
<1>4. Room'
  BY <1>2 DEF TInv, Room, Comers
<1> QED
  BY <1>2, <1>3, <1>4 DEF Grown

\* What becomes of a row whose status is set.
LEMMA StatusSet ==
    ASSUME TInv, NEW t \in DOMAIN transfers, NEW status \in TransferStatuses,
           SetStatus(t, status)
    PROVE  \E row \in TransferRow :
                /\ transfers' = [transfers EXCEPT ![t] = row]
                /\ row.status = status /\ row.hash = transfers[t].hash
<1> DEFINE row == [transfers[t] EXCEPT !.status = status]
<1>1. transfers[t] \in TransferRow
  BY Positions DEF TInv
<1>2. row \in TransferRow /\ row.status = status /\ row.hash = transfers[t].hash
  BY <1>1 DEF TransferRow
<1>3. transfers' = [transfers EXCEPT ![t] = row]
  BY DEF SetStatus
<1> HIDE DEF row
<1> QED
  BY <1>2, <1>3

\* The invariant when a confirmation is checked or written.
LEMMA ConfirmationTyped ==
    ASSUME TInv, NEW c \in Confirmers, NEW conf \in Confirmation,
           confirm' = [confirm EXCEPT ![c] = conf],
           UNCHANGED <<now, openTasks, mailed, request, job, chain>>,
           transfers' \in Seq(TransferRow), DOMAIN transfers' = DOMAIN transfers,
           lockups' \in Seq(LockupRow), DOMAIN lockups' = DOMAIN lockups,
           HashLinked', Room',
           conf = NoConfirm \/ conf.kind \in {"enqueue", "expire", "lockup"},
           conf.kind \in {"enqueue", "expire"} => conf.id \in DOMAIN transfers,
           conf.kind = "lockup" => conf.id \in DOMAIN lockups
    PROVE  TInv'
<1>1. Typed'
  BY DEF TInv, Typed
<1>2. confirm \in [Confirmers -> Confirmation]
  BY DEF TInv, Typed
<1>3. \A d \in Confirmers : confirm'[d] = IF d = c THEN conf ELSE confirm[d]
  BY <1>2
<1>4. ConfirmLinked'
  BY <1>3, NothingTyped DEF TInv, Linked, ConfirmLinked
<1>5. Linked'
  BY <1>4, StillLinked DEF TInv, Linked, Grown
<1>6. TasksOpen'
  BY DEF TInv, TasksOpen, TaskOwners
<1> QED
  BY <1>1, <1>5, <1>6 DEF TInv

LEMMA CheckConfirmTyped ==
    ASSUME TInv, NEW c \in Confirmers, NEW t \in DOMAIN transfers, CheckConfirm(c, t)
    PROVE  TInv'
<1>1. PICK conf : /\ conf \in Confirmation /\ conf.kind \in {"enqueue", "expire"} /\ conf.id = t
                  /\ confirm' = [confirm EXCEPT ![c] = conf]
  <2> DEFINE conf == [kind |-> IF TransferHasExpired(transfers[t]) THEN "expire" ELSE "enqueue",
                      id |-> t]
  <2>1. t \in Nat
    BY Positions DEF TInv
  <2>2. conf \in Confirmation /\ conf.kind \in {"enqueue", "expire"} /\ conf.id = t
    BY <2>1 DEF Confirmation
  <2>3. confirm' = [confirm EXCEPT ![c] = conf]
    BY DEF CheckConfirm
  <2> HIDE DEF conf
  <2> QED
    BY <2>2, <2>3
<1>2. UNCHANGED <<now, openTasks, mailed, request, job, chain, transfers, lockups>>
  BY DEF CheckConfirm, tables
<1>3. /\ transfers' \in Seq(TransferRow) /\ lockups' \in Seq(LockupRow)
      /\ HashLinked' /\ Room'
  BY <1>2 DEF TInv, Typed, Linked, HashLinked, Room, Comers
<1> QED
  BY <1>1, <1>2, <1>3, ConfirmationTyped

LEMMA CheckConfirmLockupTyped ==
    ASSUME TInv, NEW c \in Confirmers, NEW k \in DOMAIN lockups, CheckConfirmLockup(c, k)
    PROVE  TInv'
<1>1. PICK conf : /\ conf \in Confirmation /\ conf.kind = "lockup" /\ conf.id = k
                  /\ confirm' = [confirm EXCEPT ![c] = conf]
  <2>1. k \in Nat
    BY Positions DEF TInv
  <2> QED
    BY <2>1 DEF Confirmation, CheckConfirmLockup
<1>2. UNCHANGED <<now, openTasks, mailed, request, job, chain, transfers, lockups>>
  BY DEF CheckConfirmLockup, tables
<1>3. /\ transfers' \in Seq(TransferRow) /\ lockups' \in Seq(LockupRow)
      /\ HashLinked' /\ Room'
  BY <1>2 DEF TInv, Typed, Linked, HashLinked, Room, Comers
<1> QED
  BY <1>1, <1>2, <1>3, ConfirmationTyped

LEMMA WriteConfirmTyped ==
    ASSUME TInv, NEW c \in Confirmers, WriteConfirm(c)
    PROVE  TInv'
<1>1. PICK status \in {"Expired", "Enqueued"} :
            transfers' = [transfers EXCEPT ![confirm[c].id].status = status]
  BY DEF WriteConfirm
<1>2. PICK t \in DOMAIN transfers : t = confirm[c].id
  BY DEF WriteConfirm, TInv, Linked, ConfirmLinked
<1>3. PICK row \in TransferRow : transfers' = [transfers EXCEPT ![t] = row] /\ row.status = status
  <2>1. status \in TransferStatuses
    BY DEF TransferStatuses
  <2>2. SetStatus(t, status)
    BY <1>1, <1>2 DEF SetStatus
  <2> QED
    BY ONLY <2>1, <2>2, TInv, t \in DOMAIN transfers, StatusSet
<1>4. /\ UNCHANGED <<now, openTasks, mailed, request, job, chain, lockups>>
      /\ confirm' = [confirm EXCEPT ![c] = NoConfirm]
  BY DEF WriteConfirm
<1>5. /\ transfers' \in Seq(TransferRow) /\ DOMAIN transfers' = DOMAIN transfers
      /\ HashLinked' /\ Room'
  BY <1>3, <1>4, RowRewritten
<1>6. lockups' \in Seq(LockupRow)
  BY <1>4 DEF TInv, Typed
<1> QED
  BY <1>4, <1>5, <1>6, NothingTyped, ConfirmationTyped

LEMMA WriteConfirmLockupTyped ==
    ASSUME TInv, NEW c \in Confirmers, WriteConfirmLockup(c)
    PROVE  TInv'
<1>1. PICK k \in DOMAIN lockups : k = confirm[c].id
  BY DEF WriteConfirmLockup, TInv, Linked, ConfirmLinked
<1>2. PICK row : row = [lockups[k] EXCEPT !.confirmed = TRUE]
  OBVIOUS
<1>3. row \in LockupRow /\ lockups \in Seq(LockupRow)
  <2>1. lockups[k] \in LockupRow
    BY Positions DEF TInv
  <2> QED
    BY <1>2, <2>1 DEF LockupRow, TInv, Typed
<1>4. /\ UNCHANGED <<now, openTasks, mailed, request, job, chain, transfers>>
      /\ confirm' = [confirm EXCEPT ![c] = NoConfirm]
      /\ lockups' = [lockups EXCEPT ![k] = row]
  BY <1>1, <1>2 DEF WriteConfirmLockup
<1>5. /\ lockups' \in Seq(LockupRow) /\ DOMAIN lockups' = DOMAIN lockups
      /\ Len(lockups') = Len(lockups)
  BY <1>3, <1>4, SetElement
<1>6. transfers' \in Seq(TransferRow) /\ HashLinked' /\ Room'
  BY <1>4, <1>5 DEF TInv, Typed, Linked, HashLinked, Room, Comers
<1> QED
  BY <1>4, <1>5, <1>6, NothingTyped, ConfirmationTyped

-----------------------------------------------------------------------------
(* Runs of the job *)

LEMMA OneRunMoves ==
    ASSUME TInv, NEW r \in Runs, NEW run \in Run, job' = [job EXCEPT ![r] = run]
    PROVE  /\ job' \in [Runs -> Run]
           /\ \A s \in Runs : job'[s] = IF s = r THEN run ELSE job[s]
           /\ TaskOwners' \subseteq TaskOwners \cup {r}
           /\ ~HasTask(run) => TaskOwners' \subseteq TaskOwners \ {r}
           /\ HasTask(job[r]) => TaskOwners' \subseteq TaskOwners
<1>1. job \in [Runs -> Run]
  BY DEF TInv, Typed
<1>2. \A s \in Runs : job'[s] = IF s = r THEN run ELSE job[s]
  BY <1>1
<1> QED
  BY <1>1, <1>2 DEF TaskOwners

\* The invariant when a run goes on, with what it changes in the tables and on the chain.
LEMMA RunGoesOn ==
    ASSUME TInv, NEW r \in Runs, NEW run \in Run, job' = [job EXCEPT ![r] = run],
           RunLinked(run)',
           UNCHANGED <<now, lockups, mailed, request, confirm>>,
           transfers' \in Seq(TransferRow), DOMAIN transfers' = DOMAIN transfers,
           chain' \in Seq(Tx), DOMAIN chain \subseteq DOMAIN chain',
           ChainLinked', HashLinked', Room', openTasks' \in Nat, TasksOpen'
    PROVE  TInv'
<1>1. job' \in [Runs -> Run] /\ \A s \in Runs : job'[s] = IF s = r THEN run ELSE job[s]
  BY OneRunMoves
<1>2. Typed'
  BY <1>1 DEF TInv, Typed
<1>3. Linked /\ Grown
  BY DEF TInv, Grown
<1>4. JobLinked'
  <2> SUFFICES ASSUME NEW s \in Runs PROVE RunLinked(job[s])'
    BY DEF JobLinked
  <2>1. CASE s = r
    BY <1>1, <2>1 DEF RunLinked
  <2>2. CASE s # r
    BY <1>1, <1>3, <2>2, StillLinked
  <2> QED
    BY <2>1, <2>2
<1>5. Linked'
  BY <1>3, <1>4, StillLinked DEF Linked
<1> QED
  BY <1>2, <1>5 DEF TInv

\* Tasks stay open when no run gets one.
LEMMA TasksStay ==
    ASSUME TInv, NEW r \in Runs, NEW run \in Run, job' = [job EXCEPT ![r] = run],
           HasTask(run) => HasTask(job[r]), openTasks' = openTasks
    PROVE  openTasks' \in Nat /\ TasksOpen'
<1>1. /\ IsFiniteSet(TaskOwners) /\ Cardinality(TaskOwners) <= openTasks /\ openTasks \in Nat
  BY DEF TInv, Typed, TasksOpen
<1>2. TaskOwners' \subseteq TaskOwners
  BY OneRunMoves
<1>3. /\ IsFiniteSet(TaskOwners') /\ Cardinality(TaskOwners') \in Nat
      /\ Cardinality(TaskOwners') <= Cardinality(TaskOwners)
  BY ONLY <1>1, <1>2, CountSame
<1>4. Cardinality(TaskOwners) \in Nat
  BY <1>1, FS_CardinalityType
<1> QED
  BY <1>1, <1>3, <1>4 DEF TasksOpen

\* A run goes on and changes nothing else.
LEMMA RunOnly ==
    ASSUME TInv, NEW r \in Runs, NEW run \in Run, job' = [job EXCEPT ![r] = run],
           RunLinked(run), HasTask(run) => HasTask(job[r]),
           UNCHANGED <<now, tables, mailed, request, confirm, chain>>
    PROVE  TInv'
<1> USE DEF tables
<1>1. openTasks' \in Nat /\ TasksOpen'
  BY TasksStay
<1>2. RunLinked(run)'
  BY DEF RunLinked
<1>3. /\ transfers' \in Seq(TransferRow) /\ chain' \in Seq(Tx)
      /\ ChainLinked' /\ HashLinked' /\ Room'
  BY DEF TInv, Typed, Linked, ChainLinked, HashLinked, Room, Comers
<1> QED
  BY <1>1, <1>2, <1>3, RunGoesOn

LEMMA RunFacts ==
    ASSUME TInv, NEW r \in Runs
    PROVE  /\ job[r] \in Run /\ RunLinked(job[r]) /\ job \in [Runs -> Run]
           /\ NoRun \in Run /\ RunLinked(NoRun) /\ ~HasTask(NoRun)
BY NothingTyped DEF TInv, Typed, Linked, JobLinked, RunLinked, HasTask

\* The run ends.
LEMMA FinishTyped ==
    ASSUME TInv, NEW r \in Runs, Finish(r),
           UNCHANGED <<now, tables, mailed, request, confirm, chain>>
    PROVE  TInv'
BY RunFacts, RunOnly DEF Finish

\* The run goes on to another stage.
LEMMA GoOnTyped ==
    ASSUME TInv, NEW r \in Runs, NEW pc \in Pcs, GoOn(r, pc),
           pc \in {"balance", "mark", "credit", "failed"} =>
                job[r].pc \in {"balance", "mark", "credit", "failed"},
           pc # "sent",
           pc \in {"pick", "balance", "mark", "credit", "failed", "sent", "hung", "end"} =>
                HasTask(job[r])
    PROVE  \E run \in Run :
                /\ job' = [job EXCEPT ![r] = run] /\ RunLinked(run)
                /\ HasTask(run) => HasTask(job[r])
                /\ run.pc = pc /\ run.todo = job[r].todo /\ run.transfer = job[r].transfer
<1> DEFINE run == [job[r] EXCEPT !.pc = pc]
<1>1. job[r] \in Run /\ RunLinked(job[r]) /\ job \in [Runs -> Run]
  BY RunFacts
<1>2. /\ run \in Run /\ run.pc = pc /\ run.todo = job[r].todo
      /\ run.transfer = job[r].transfer /\ run.hash = job[r].hash
  BY <1>1 DEF Run
<1>3. RunLinked(run) /\ (HasTask(run) => HasTask(job[r]))
  BY <1>1, <1>2 DEF RunLinked, HasTask
<1>4. job' = [job EXCEPT ![r] = run]
  BY <1>1 DEF GoOn
<1> HIDE DEF run
<1> QED
  BY <1>2, <1>3, <1>4

LEMMA StartRunTyped ==
    ASSUME TInv, NEW r \in Runs, StartRun(r)
    PROVE  TInv'
<1> DEFINE waiting == {i \in DOMAIN transfers : transfers[i].status = "WaitingConfirmation"}
<1>1. PICK todo : todo = {<<t, transfers[t].hash>> : t \in waiting}
  OBVIOUS
<1>2. todo \subseteq (DOMAIN transfers) \X (DOMAIN chain)
  BY <1>1 DEF TInv, Linked, HashLinked
<1>3. todo \in SUBSET (Nat \X Nat)
  BY <1>2, Positions DEF TInv
<1>4. PICK run : run = [NoRun EXCEPT !.pc = "confirming", !.todo = todo]
  OBVIOUS
<1>5. run \in Run /\ RunLinked(run) /\ ~HasTask(run)
  BY <1>2, <1>3, <1>4, NothingTyped DEF Run, RunLinked, Pcs, HasTask
<1>6. /\ job' = [job EXCEPT ![r] = run]
      /\ UNCHANGED <<now, tables, mailed, request, confirm, chain>>
  BY <1>1, <1>4 DEF StartRun
<1> HIDE DEF waiting
<1> QED
  BY <1>5, <1>6, RunOnly

\* The run sets the status of a row, to anything but a wait for a transaction.
LEMMA RunSetsStatus ==
    ASSUME TInv, NEW r \in Runs, NEW run \in Run, job' = [job EXCEPT ![r] = run],
           RunLinked(run), HasTask(run) => HasTask(job[r]),
           NEW t \in DOMAIN transfers, NEW status \in TransferStatuses,
           SetStatus(t, status), status # "WaitingConfirmation",
           UNCHANGED <<now, lockups, openTasks, mailed, request, confirm, chain>>
    PROVE  TInv'
<1>1. PICK row \in TransferRow : transfers' = [transfers EXCEPT ![t] = row] /\ row.status = status
  BY ONLY TInv, t \in DOMAIN transfers, status \in TransferStatuses, SetStatus(t, status),
          StatusSet
<1>2. /\ transfers' \in Seq(TransferRow) /\ DOMAIN transfers' = DOMAIN transfers
      /\ HashLinked' /\ Room'
  BY <1>1, RowRewritten
<1>3. openTasks' \in Nat /\ TasksOpen'
  BY TasksStay
<1>4. RunLinked(run)' /\ ChainLinked' /\ chain' \in Seq(Tx)
  BY <1>2 DEF RunLinked, TInv, Linked, ChainLinked, Typed
<1> QED
  BY <1>2, <1>3, <1>4, RunGoesOn

\* One transfer less is waited for.
LEMMA OneLess ==
    ASSUME TInv, NEW r \in Runs, NEW w \in job[r].todo,
           job' = [job EXCEPT ![r].todo = @ \ {w}]
    PROVE  \E run \in Run :
                /\ job' = [job EXCEPT ![r] = run] /\ RunLinked(run)
                /\ HasTask(run) => HasTask(job[r])
                /\ run.pc = job[r].pc /\ run.todo = job[r].todo \ {w}
                /\ run.transfer = job[r].transfer
<1> DEFINE run == [job[r] EXCEPT !.todo = job[r].todo \ {w}]
<1>1. job[r] \in Run /\ RunLinked(job[r]) /\ job \in [Runs -> Run]
  BY RunFacts
<1>2. /\ run \in Run /\ run.pc = job[r].pc /\ run.todo = job[r].todo \ {w}
      /\ run.transfer = job[r].transfer /\ run.hash = job[r].hash
  BY <1>1 DEF Run
<1>3. RunLinked(run) /\ (HasTask(run) => HasTask(job[r]))
  BY <1>1, <1>2 DEF RunLinked, HasTask
<1>4. job' = [job EXCEPT ![r] = run]
  BY <1>1
<1> HIDE DEF run
<1> QED
  BY <1>2, <1>3, <1>4

\* The outcomes of a look at a transaction.
LEMMA ConfirmationOutcomes ==
    ASSUME NEW r \in Runs, CheckBlockConfirmation(r)
    PROVE  \E w \in job[r].todo :
              \/ \E status \in {"Success", "Failed"} :
                    SetStatus(w[1], status) /\ job' = [job EXCEPT ![r].todo = @ \ {w}]
              \/ Finish(r) /\ UNCHANGED transfers
BY DEF CheckBlockConfirmation, NotConfirmed

LEMMA CheckBlockConfirmationTyped ==
    ASSUME TInv, NEW r \in Runs, CheckBlockConfirmation(r)
    PROVE  TInv'
<1>1. PICK w \in job[r].todo :
              \/ \E status \in {"Success", "Failed"} :
                    SetStatus(w[1], status) /\ job' = [job EXCEPT ![r].todo = @ \ {w}]
              \/ Finish(r) /\ UNCHANGED transfers
  BY ConfirmationOutcomes
<1>2. UNCHANGED <<now, lockups, openTasks, mailed, request, confirm, chain>>
  BY DEF CheckBlockConfirmation
<1>3. PICK t \in DOMAIN transfers : t = w[1]
  BY RunFacts DEF RunLinked
<1>4. ASSUME NEW status \in {"Success", "Failed"}, SetStatus(w[1], status),
             job' = [job EXCEPT ![r].todo = @ \ {w}]
      PROVE  TInv'
  <2>1. PICK run \in Run : /\ job' = [job EXCEPT ![r] = run] /\ RunLinked(run)
                           /\ HasTask(run) => HasTask(job[r])
    BY <1>4, OneLess
  <2>2. /\ status \in TransferStatuses /\ status # "WaitingConfirmation"
        /\ SetStatus(t, status)
    BY <1>3, <1>4 DEF TransferStatuses
  <2> QED
    BY ONLY TInv, r \in Runs, t \in DOMAIN transfers, run \in Run, <1>2, <2>1, <2>2, RunSetsStatus
<1>5. CASE Finish(r) /\ UNCHANGED transfers
  BY <1>2, <1>5, FinishTyped DEF tables
<1> QED
  BY <1>1, <1>4, <1>5

LEMMA ReadTasksTyped ==
    ASSUME TInv, NEW r \in Runs, ReadTasks(r)
    PROVE  TInv'
<1>1. UNCHANGED <<now, tables, mailed, request, confirm, chain>>
  BY DEF ReadTasks
<1>2. CASE Finish(r)
  BY <1>1, <1>2, FinishTyped
<1>3. CASE GoOn(r, "processing")
  BY <1>1, <1>3, GoOnTyped, RunOnly DEF Pcs
<1> QED
  BY <1>2, <1>3 DEF ReadTasks

LEMMA ReadProcessingTyped ==
    ASSUME TInv, NEW r \in Runs, ReadProcessing(r)
    PROVE  TInv'
<1>1. UNCHANGED <<now, tables, mailed, request, confirm, chain>>
  BY DEF ReadProcessing
<1>2. CASE Finish(r)
  BY <1>1, <1>2, FinishTyped
<1>3. CASE GoOn(r, "create")
  BY <1>1, <1>3, GoOnTyped, RunOnly DEF Pcs
<1> QED
  BY <1>2, <1>3 DEF ReadProcessing

LEMMA CreateTaskTyped ==
    ASSUME TInv, NEW r \in Runs, CreateTask(r)
    PROVE  TInv'
<1> DEFINE A == TaskOwners
<1>1. /\ IsFiniteSet(A) /\ Cardinality(A) <= openTasks /\ openTasks \in Nat
      /\ job[r] \in Run /\ RunLinked(job[r]) /\ job \in [Runs -> Run] /\ job[r].pc = "create"
  BY RunFacts DEF TInv, Typed, TasksOpen, CreateTask
<1>2. PICK run : run = [job[r] EXCEPT !.pc = "pick"]
  OBVIOUS
<1>3. run \in Run /\ RunLinked(run) /\ job' = [job EXCEPT ![r] = run]
  BY <1>1, <1>2 DEF Run, Pcs, RunLinked, CreateTask, GoOn
<1>4. /\ openTasks' = openTasks + 1
      /\ UNCHANGED <<now, transfers, lockups, mailed, request, confirm, chain>>
  BY DEF CreateTask
<1>5. A' \subseteq A \cup {r}
  BY <1>3, OneRunMoves
<1> HIDE DEF A
<1>6. IsFiniteSet(A') /\ Cardinality(A') \in Nat /\ Cardinality(A') <= Cardinality(A) + 1
  BY ONLY <1>1, <1>5, CountUp
<1>7. Cardinality(A) \in Nat
  BY <1>1, FS_CardinalityType
<1>8. openTasks' \in Nat /\ Cardinality(A') <= openTasks'
  BY ONLY <1>1, <1>4, <1>6, <1>7
<1>9. TasksOpen'
  BY <1>6, <1>8 DEF TasksOpen, A
<1>10. /\ RunLinked(run)' /\ transfers' \in Seq(TransferRow) /\ chain' \in Seq(Tx)
       /\ ChainLinked' /\ HashLinked' /\ Room'
  BY <1>3, <1>4 DEF RunLinked, TInv, Typed, Linked, ChainLinked, HashLinked, Room, Comers
<1> QED
  BY <1>3, <1>4, <1>8, <1>9, <1>10, RunGoesOn

LEMMA PickTransferTyped ==
    ASSUME TInv, NEW r \in Runs, PickTransfer(r)
    PROVE  TInv'
<1>1. /\ UNCHANGED <<now, tables, mailed, request, confirm, chain>>
      /\ job[r] \in Run /\ RunLinked(job[r]) /\ job \in [Runs -> Run] /\ job[r].pc = "pick"
  BY RunFacts DEF PickTransfer
<1>2. CASE GoOn(r, "end")
  BY <1>1, <1>2, GoOnTyped, RunOnly DEF Pcs, HasTask
<1>3. ASSUME NEW t \in DOMAIN transfers,
             job' = [job EXCEPT ![r].pc = "balance", ![r].transfer = t]
      PROVE  TInv'
  <2>1. PICK run : run = [job[r] EXCEPT !.pc = "balance", !.transfer = t]
    OBVIOUS
  <2>2. t \in Nat \ {0}
    BY Positions DEF TInv
  <2>3. run \in Run /\ RunLinked(run) /\ HasTask(job[r])
    BY <1>1, <2>1, <2>2 DEF Run, Pcs, RunLinked, HasTask
  <2>4. job' = [job EXCEPT ![r] = run]
    BY <1>1, <1>3, <2>1
  <2> QED
    BY <1>1, <2>3, <2>4, RunOnly
<1> QED
  BY <1>2, <1>3 DEF PickTransfer

LEMMA CheckBalanceTyped ==
    ASSUME TInv, NEW r \in Runs, CheckBalance(r)
    PROVE  TInv'
<1>1. UNCHANGED <<now, tables, mailed, request, confirm, chain>> /\ job[r].pc = "balance"
  BY DEF CheckBalance
<1>2. CASE Finish(r)
  BY <1>1, <1>2, FinishTyped
<1>3. CASE GoOn(r, "mark")
  BY <1>1, <1>3, GoOnTyped, RunOnly DEF Pcs, HasTask
<1> QED
  BY <1>2, <1>3 DEF CheckBalance

\* The transfer a run has picked.
LEMMA PickedTransfer ==
    ASSUME TInv, NEW r \in Runs,
           job[r].pc \in {"balance", "mark", "credit", "failed", "sent"}
    PROVE  job[r].transfer \in DOMAIN transfers /\ HasTask(job[r])
BY RunFacts DEF RunLinked, HasTask

LEMMA MarkProcessingTyped ==
    ASSUME TInv, NEW r \in Runs, MarkProcessing(r)
    PROVE  TInv'
<1>1. /\ job[r].pc = "mark" /\ SetStatus(job[r].transfer, "Processing") /\ GoOn(r, "credit")
      /\ UNCHANGED <<now, lockups, openTasks, mailed, request, confirm, chain>>
  BY DEF MarkProcessing
<1>2. PICK t \in DOMAIN transfers : t = job[r].transfer /\ HasTask(job[r])
  BY <1>1, PickedTransfer
<1>3. PICK run \in Run : /\ job' = [job EXCEPT ![r] = run] /\ RunLinked(run)
                         /\ HasTask(run) => HasTask(job[r])
  BY <1>1, <1>2, GoOnTyped DEF Pcs
<1>4. "Processing" \in TransferStatuses /\ SetStatus(t, "Processing")
  BY <1>1, <1>2 DEF TransferStatuses
<1> QED
  BY <1>1, <1>3, <1>4, RunSetsStatus

LEMMA RecordFailedTyped ==
    ASSUME TInv, NEW r \in Runs, RecordFailed(r)
    PROVE  TInv'
<1>1. /\ job[r].pc = "failed" /\ SetStatus(job[r].transfer, "Failed") /\ GoOn(r, "end")
      /\ UNCHANGED <<now, lockups, openTasks, mailed, request, confirm, chain>>
  BY DEF RecordFailed
<1>2. PICK t \in DOMAIN transfers : t = job[r].transfer /\ HasTask(job[r])
  BY <1>1, PickedTransfer
<1>3. PICK run \in Run : /\ job' = [job EXCEPT ![r] = run] /\ RunLinked(run)
                         /\ HasTask(run) => HasTask(job[r])
  BY <1>1, <1>2, GoOnTyped DEF Pcs
<1>4. "Failed" \in TransferStatuses /\ SetStatus(t, "Failed")
  BY <1>1, <1>2 DEF TransferStatuses
<1> QED
  BY <1>1, <1>3, <1>4, RunSetsStatus

LEMMA CreditRefusedTyped ==
    ASSUME TInv, NEW r \in Runs, CreditRefused(r)
    PROVE  TInv'
<1>1. /\ job[r].pc = "credit" /\ GoOn(r, "failed")
      /\ UNCHANGED <<now, tables, mailed, request, confirm, chain>>
  BY DEF CreditRefused
<1> QED
  BY <1>1, PickedTransfer, GoOnTyped, RunOnly DEF Pcs

LEMMA CreditUnansweredTyped ==
    ASSUME TInv, NEW r \in Runs, CreditUnanswered(r)
    PROVE  TInv'
<1>1. /\ job[r].pc = "credit" /\ GoOn(r, "hung")
      /\ UNCHANGED <<now, tables, mailed, request, confirm, chain>>
  BY DEF CreditUnanswered
<1> QED
  BY <1>1, PickedTransfer, GoOnTyped, RunOnly DEF Pcs

\* What sending adds to the chain.
LEMMA ChainAppended ==
    ASSUME TInv, NEW t \in DOMAIN transfers,
           chain' = Append(chain, [transfer |-> t, state |-> "pending"])
    PROVE  /\ chain' \in Seq(Tx) /\ Len(chain) + 1 \in Nat \ {0}
           /\ Len(chain) + 1 \notin DOMAIN chain
           /\ DOMAIN chain' = DOMAIN chain \cup {Len(chain) + 1}
           /\ \A i \in DOMAIN chain : chain'[i] = chain[i]
           /\ chain'[Len(chain) + 1].transfer = t
<1> DEFINE tx == [transfer |-> t, state |-> "pending"]
<1>1. chain \in Seq(Tx) /\ t \in Nat
  BY Positions DEF TInv, Typed
<1>2. tx \in Tx /\ tx.transfer = t
  BY <1>1 DEF Tx, States
<1>3. chain' = Append(chain, tx)
  OBVIOUS
<1> HIDE DEF tx
<1> QED
  BY <1>1, <1>2, <1>3, AddElement

LEMMA CreditSentTyped ==
    ASSUME TInv, NEW r \in Runs, CreditSent(r)
    PROVE  TInv'
<1>1. /\ job[r].pc = "credit" /\ job[r] \in Run /\ RunLinked(job[r]) /\ job \in [Runs -> Run]
      /\ UNCHANGED <<now, tables, mailed, request, confirm>>
  BY RunFacts DEF CreditSent
<1>2. PICK t \in DOMAIN transfers : t = job[r].transfer /\ HasTask(job[r])
  BY <1>1, PickedTransfer
<1>3. /\ chain' = Append(chain, [transfer |-> t, state |-> "pending"])
      /\ job' = [job EXCEPT ![r].pc = "sent", ![r].hash = Len(chain) + 1]
  BY <1>2 DEF CreditSent
<1>4. /\ chain' \in Seq(Tx) /\ Len(chain) + 1 \in Nat \ {0}
      /\ DOMAIN chain' = DOMAIN chain \cup {Len(chain) + 1}
      /\ \A i \in DOMAIN chain : chain'[i] = chain[i]
      /\ chain'[Len(chain) + 1].transfer = t
  BY <1>3, ChainAppended
<1>5. PICK h \in Nat \ {0} : h = Len(chain) + 1
  BY <1>4
<1>6. PICK run : run = [job[r] EXCEPT !.pc = "sent", !.hash = h]
  OBVIOUS
<1>7. job' = [job EXCEPT ![r] = run]
  BY <1>1, <1>3, <1>5, <1>6
<1>8. /\ run \in Run /\ run.pc = "sent" /\ run.hash = h /\ run.todo = job[r].todo
      /\ run.transfer = job[r].transfer
  BY <1>1, <1>6 DEF Run, Pcs
<1>9. transfers' = transfers /\ lockups' = lockups /\ openTasks' = openTasks
  BY <1>1 DEF tables
<1>10. RunLinked(run)'
  BY <1>1, <1>2, <1>4, <1>5, <1>8, <1>9 DEF RunLinked
<1>11. ChainLinked' /\ HashLinked'
  BY <1>2, <1>4, <1>9 DEF TInv, Linked, ChainLinked, HashLinked
<1>12. Room' /\ transfers' \in Seq(TransferRow)
  BY <1>1, <1>9 DEF TInv, Room, Comers, Typed
<1>13. openTasks' \in Nat /\ TasksOpen'
  BY <1>2, <1>7, <1>8, <1>9, TasksStay
<1> QED
  BY <1>1, <1>4, <1>7, <1>8, <1>9, <1>10, <1>11, <1>12, <1>13, RunGoesOn

LEMMA RecordSentTyped ==
    ASSUME TInv, NEW r \in Runs, RecordSent(r)
    PROVE  TInv'
<1>1. /\ job[r].pc = "sent" /\ GoOn(r, "end")
      /\ transfers' = [transfers EXCEPT ![job[r].transfer].status = "WaitingConfirmation",
                                        ![job[r].transfer].hash = job[r].hash]
      /\ UNCHANGED <<now, lockups, openTasks, mailed, request, confirm, chain>>
  BY DEF RecordSent
<1>2. PICK t \in DOMAIN transfers : t = job[r].transfer /\ HasTask(job[r])
  BY <1>1, PickedTransfer
<1>3. job[r].hash \in DOMAIN chain /\ job[r].hash \in Nat /\ transfers[t] \in TransferRow
  BY <1>1, RunFacts, Positions DEF RunLinked, TInv, Run
<1>4. PICK row : row = [transfers[t] EXCEPT !.status = "WaitingConfirmation",
                                            !.hash = job[r].hash]
  OBVIOUS
<1>5. row \in TransferRow /\ row.hash \in DOMAIN chain
  BY <1>3, <1>4 DEF TransferRow, TransferStatuses
<1>6. transfers' = [transfers EXCEPT ![t] = row]
  BY <1>1, <1>2, <1>4
<1>7. /\ transfers' \in Seq(TransferRow) /\ DOMAIN transfers' = DOMAIN transfers
      /\ HashLinked' /\ Room'
  BY <1>1, <1>5, <1>6, RowRewritten
<1>8. PICK run \in Run : /\ job' = [job EXCEPT ![r] = run] /\ RunLinked(run)
                         /\ HasTask(run) => HasTask(job[r])
  BY <1>1, <1>2, GoOnTyped DEF Pcs
<1>9. openTasks' \in Nat /\ TasksOpen'
  BY <1>1, <1>8, TasksStay
<1>10. RunLinked(run)' /\ ChainLinked' /\ chain' \in Seq(Tx)
  BY <1>1, <1>7, <1>8 DEF RunLinked, TInv, Linked, ChainLinked, Typed
<1> QED
  BY <1>1, <1>7, <1>8, <1>9, <1>10, RunGoesOn

LEMMA EndTaskTyped ==
    ASSUME TInv, NEW r \in Runs, EndTask(r)
    PROVE  TInv'
<1> DEFINE A == TaskOwners
<1>1. /\ IsFiniteSet(A) /\ Cardinality(A) <= openTasks /\ openTasks \in Nat
      /\ r \in A /\ NoRun \in Run /\ RunLinked(NoRun) /\ ~HasTask(NoRun)
  BY RunFacts DEF TInv, Typed, TasksOpen, TaskOwners, HasTask, EndTask
<1>2. /\ openTasks' = openTasks - 1 /\ job' = [job EXCEPT ![r] = NoRun]
      /\ UNCHANGED <<now, transfers, lockups, mailed, request, confirm, chain>>
  BY DEF EndTask, Finish
<1>3. A' \subseteq A \ {r}
  BY <1>1, <1>2, OneRunMoves
<1> HIDE DEF A
<1>4. IsFiniteSet(A') /\ Cardinality(A') \in Nat /\ Cardinality(A') <= Cardinality(A) - 1
  BY ONLY <1>1, <1>3, CountDown
<1>5. Cardinality(A) \in Nat
  BY <1>1, FS_CardinalityType
<1>6. openTasks' \in Nat /\ Cardinality(A') <= openTasks'
  BY ONLY <1>1, <1>2, <1>4, <1>5
<1>7. TasksOpen'
  BY <1>4, <1>6 DEF TasksOpen, A
<1>8. PICK run : run = NoRun
  OBVIOUS
<1>9. /\ RunLinked(run)' /\ transfers' \in Seq(TransferRow) /\ chain' \in Seq(Tx)
      /\ ChainLinked' /\ HashLinked' /\ Room'
  BY <1>1, <1>2, <1>8 DEF RunLinked, TInv, Typed, Linked, ChainLinked, HashLinked, Room, Comers
<1> QED
  BY <1>1, <1>2, <1>6, <1>7, <1>8, <1>9, RunGoesOn

-----------------------------------------------------------------------------
(* The chain, the clock, restarts, and all steps together *)

\* The state of a transaction changes.
LEMMA StateSet ==
    ASSUME TInv, NEW i \in DOMAIN chain, NEW state \in States, SetState(i, state)
    PROVE  /\ chain' \in Seq(Tx) /\ DOMAIN chain' = DOMAIN chain
           /\ \A k \in DOMAIN chain : chain'[k].transfer = chain[k].transfer
<1>1. PICK tx : tx = [chain[i] EXCEPT !.state = state]
  OBVIOUS
<1>2. chain[i] \in Tx /\ chain \in Seq(Tx)
  BY Positions DEF TInv, Typed
<1>3. tx \in Tx /\ tx.transfer = chain[i].transfer
  BY <1>1, <1>2 DEF Tx
<1>4. chain' = [chain EXCEPT ![i] = tx]
  BY <1>1 DEF SetState
<1>5. /\ chain' \in Seq(Tx) /\ DOMAIN chain' = DOMAIN chain
      /\ \A k \in DOMAIN chain : chain'[k] = IF k = i THEN tx ELSE chain[k]
  BY <1>2, <1>3, <1>4, SetElement
<1> QED
  BY <1>3, <1>5

LEMMA ChainMoves ==
    ASSUME NEW i \in DOMAIN chain, Include(i) \/ Bury(i) \/ Reorg(i)
    PROVE  \E state \in States : SetState(i, state)
BY DEF Include, Bury, Reorg, States

LEMMA ChainTyped ==
    ASSUME TInv, NEW i \in DOMAIN chain, Include(i) \/ Bury(i) \/ Reorg(i)
    PROVE  TInv'
<1>1. PICK state \in States : SetState(i, state)
  BY ChainMoves
<1>2. /\ chain' \in Seq(Tx) /\ DOMAIN chain' = DOMAIN chain
      /\ \A k \in DOMAIN chain : chain'[k].transfer = chain[k].transfer
  BY <1>1, StateSet
<1>3. UNCHANGED <<now, transfers, lockups, openTasks, mailed, request, confirm, job>>
  BY <1>1 DEF SetState, tables, server
<1>4. Typed'
  BY <1>2, <1>3 DEF TInv, Typed
<1>5. Linked /\ Grown
  BY <1>2, <1>3 DEF TInv, Grown
<1>6. ChainLinked'
  BY <1>2, <1>3, <1>5 DEF Linked, ChainLinked
<1>7. Linked'
  BY <1>3, <1>5, <1>6, StillLinked DEF Linked
<1>8. Room' /\ TasksOpen'
  BY <1>3 DEF TInv, Room, Comers, TasksOpen, TaskOwners
<1> QED
  BY <1>4, <1>7, <1>8 DEF TInv

LEMMA TickTyped == TInv /\ Tick => TInv'
<1> SUFFICES ASSUME TInv, Tick PROVE TInv'
  OBVIOUS
<1>1. /\ now < MaxNow /\ now' = now + 1
      /\ UNCHANGED <<transfers, lockups, openTasks, mailed, request, confirm, job, chain>>
  BY DEF Tick, tables, server
<1>2. Typed'
  BY <1>1, TableAssumption DEF TInv, Typed
<1>3. Linked /\ Grown
  BY <1>1 DEF TInv, Grown
<1>4. Linked'
  BY <1>1, <1>3, StillLinked DEF Linked
<1>5. Room' /\ TasksOpen'
  BY <1>1 DEF TInv, Room, Comers, TasksOpen, TaskOwners
<1> QED
  BY <1>2, <1>4, <1>5 DEF TInv

LEMMA CrashTyped == TInv /\ Crash => TInv'
<1> SUFFICES ASSUME TInv, Crash PROVE TInv'
  OBVIOUS
<1>1. /\ request' = [u \in Users |-> NoRequest]
      /\ confirm' = [c \in Confirmers |-> NoConfirm]
      /\ job' = [r \in Runs |-> NoRun]
      /\ UNCHANGED <<now, transfers, lockups, openTasks, mailed, chain>>
  BY DEF Crash, tables
<1>2. Typed'
  BY <1>1, NothingTyped DEF TInv, Typed
<1>3. Linked /\ Grown /\ Typed
  BY <1>1 DEF TInv, Grown
<1>4. ConfirmLinked' /\ JobLinked'
  BY <1>1, NothingTyped DEF ConfirmLinked, JobLinked, RunLinked
<1>5. Linked'
  BY <1>1, <1>3, <1>4, StillLinked DEF Linked
<1>6. \A kinds : Comers(kinds)' = {}
  BY <1>1, NothingTyped DEF Comers, IsComing
<1>7. Room'
  BY <1>1, <1>3, <1>6, RoomStays DEF TInv
<1>8. TaskOwners' = {}
  BY <1>1, NothingTyped DEF TaskOwners, HasTask
<1>9. TasksOpen'
  BY <1>1, <1>3, <1>8, FS_EmptySet DEF TasksOpen, Typed
<1> QED
  BY <1>2, <1>5, <1>7, <1>9 DEF TInv

LEMMA InitTyped == Init => TInv
<1> SUFFICES ASSUME Init PROVE TInv
  OBVIOUS
<1> USE DEF Init
<1>1. Typed
  BY NothingTyped, TableAssumption, EmptySeq DEF Typed
<1>2. DOMAIN transfers = {} /\ DOMAIN lockups = {} /\ DOMAIN chain = {}
  OBVIOUS
<1>3. Linked
  BY <1>2, NothingTyped
     DEF Linked, MailLinked, ConfirmLinked, JobLinked, RunLinked, ChainLinked, HashLinked
<1>4. \A kinds : Comers(kinds) = {}
  BY NothingTyped DEF Comers, IsComing
<1>5. Len(transfers) = 0 /\ Len(lockups) = 0
  OBVIOUS
<1>6. Room
  <2>1. Comers({"transfer"}) = {} /\ Comers({"early", "lockup"}) = {}
    BY ONLY <1>4
  <2>2. IsFiniteSet({}) /\ Cardinality({}) = 0
    BY FS_EmptySet
  <2>3. MaxTransfers \in Nat /\ MaxLockups \in Nat
    BY TableAssumption
  <2>4. /\ IsFiniteSet(Comers({"transfer"})) /\ IsFiniteSet(Comers({"early", "lockup"}))
        /\ Cardinality(Comers({"transfer"})) = 0
        /\ Cardinality(Comers({"early", "lockup"})) = 0
    BY ONLY <2>1, <2>2
  <2>5. /\ Len(transfers) + Cardinality(Comers({"transfer"})) <= MaxTransfers
        /\ Len(lockups) + Cardinality(Comers({"early", "lockup"})) <= MaxLockups
    BY ONLY <1>5, <2>3, <2>4
  <2> QED
    BY <2>4, <2>5 DEF Room
<1>7. TaskOwners = {}
  BY NothingTyped DEF TaskOwners, HasTask
<1>8. TasksOpen
  BY <1>7, FS_EmptySet DEF TasksOpen
<1> QED
  BY <1>1, <1>3, <1>6, <1>8 DEF TInv

LEMMA StutterTyped == TInv /\ UNCHANGED vars => TInv'
<1> SUFFICES ASSUME TInv, UNCHANGED vars PROVE TInv'
  OBVIOUS
<1>1. UNCHANGED <<now, transfers, lockups, openTasks, mailed, request, confirm, job, chain>>
  BY DEF vars, tables, server
<1>2. Typed'
  BY <1>1 DEF TInv, Typed
<1>3. Linked /\ Grown
  BY <1>1 DEF TInv, Grown
<1>4. Linked'
  BY <1>1, <1>3, StillLinked DEF Linked
<1>5. Room' /\ TasksOpen'
  BY <1>1 DEF TInv, Room, Comers, TasksOpen, TaskOwners
<1> QED
  BY <1>2, <1>4, <1>5 DEF TInv

LEMMA RunStepTyped ==
    ASSUME TInv, NEW r \in Runs, RunStep(r)
    PROVE  TInv'
BY StartRunTyped, CheckBlockConfirmationTyped, ReadTasksTyped, ReadProcessingTyped,
   CreateTaskTyped, PickTransferTyped, CheckBalanceTyped, MarkProcessingTyped,
   CreditRefusedTyped, CreditSentTyped, CreditUnansweredTyped, RecordFailedTyped,
   RecordSentTyped, EndTaskTyped
   DEF RunStep

LEMMA RequestStepTyped ==
    ASSUME TInv, NEW u \in Users, RequestStep(u)
    PROVE  TInv'
BY InsertTransferTyped, AnswerTransferTyped, CheckLockupTyped, DateLockupTyped,
   InsertLockupTyped, AnswerLockupTyped
   DEF RequestStep

LEMMA ConfirmStepTyped ==
    ASSUME TInv, NEW c \in Confirmers, ConfirmStep(c)
    PROVE  TInv'
BY WriteConfirmTyped, WriteConfirmLockupTyped DEF ConfirmStep

LEMMA StepTyped == TInv /\ [Next]_vars => TInv'
<1> SUFFICES ASSUME TInv, [Next]_vars PROVE TInv'
  OBVIOUS
<1>1. CASE UNCHANGED vars
  BY <1>1, StutterTyped
<1>2. ASSUME NEW u \in Users, NEW amount \in TransferAmounts, BeginTransfer(u, amount)
      PROVE  TInv'
  BY <1>2, BeginTransferTyped
<1>3. ASSUME NEW u \in Users, NEW amount \in LockupAmounts, NEW kind \in {"early", "lockup"},
             BeginLockup(u, amount, kind)
      PROVE  TInv'
  BY <1>3, BeginLockupTyped
<1>4. ASSUME NEW u \in Users, RequestStep(u)
      PROVE  TInv'
  BY <1>4, RequestStepTyped
<1>5. ASSUME NEW c \in Confirmers, NEW t \in DOMAIN transfers, CheckConfirm(c, t)
      PROVE  TInv'
  BY <1>5, CheckConfirmTyped
<1>6. ASSUME NEW c \in Confirmers, NEW k \in DOMAIN lockups, CheckConfirmLockup(c, k)
      PROVE  TInv'
  BY <1>6, CheckConfirmLockupTyped
<1>7. ASSUME NEW c \in Confirmers, ConfirmStep(c)
      PROVE  TInv'
  BY <1>7, ConfirmStepTyped
<1>8. ASSUME NEW r \in Runs, RunStep(r)
      PROVE  TInv'
  BY <1>8, RunStepTyped
<1>9. CASE ChainStep \/ \E i \in DOMAIN chain : Reorg(i)
  BY <1>9, ChainTyped DEF ChainStep
<1>10. CASE Tick \/ Crash
  BY <1>10, TickTyped, CrashTyped
<1> QED
  BY <1>1, <1>2, <1>3, <1>4, <1>5, <1>6, <1>7, <1>8, <1>9, <1>10 DEF Next

LEMMA TypeInvariant == Spec => []TInv
BY InitTyped, StepTyped, PTL DEF Spec

(* Whatever requests, confirmations, runs of the job and restarts come together, links in
   mails, runs and transactions refer to rows that exist, a transfer that waits for a
   transaction names one, no more rows are added than there is room for, and no run
   closes a task it has not opened. *)
THEOREM TypeCorrect == Spec => []TypeOK
<1>1. TInv => TypeOK
  <2> SUFFICES ASSUME TInv PROVE TypeOK
    OBVIOUS
  <2>1. /\ now \in 0 .. MaxNow /\ openTasks \in Nat
        /\ transfers \in Seq(TransferRow) /\ lockups \in Seq(LockupRow)
        /\ mailed \subseteq ({"transfer"} \X (DOMAIN transfers))
                                \cup ({"lockup"} \X (DOMAIN lockups))
    BY DEF TInv, Typed, Linked, MailLinked
  <2>2. Len(transfers) <= MaxTransfers /\ Len(lockups) <= MaxLockups
    <3> DEFINE W == Comers({"transfer"})
               L == Comers({"early", "lockup"})
    <3>1. /\ IsFiniteSet(W) /\ IsFiniteSet(L)
          /\ Len(transfers) + Cardinality(W) <= MaxTransfers
          /\ Len(lockups) + Cardinality(L) <= MaxLockups
      BY DEF TInv, Room
    <3> HIDE DEF W, L
    <3>2. Cardinality(W) \in Nat /\ Cardinality(L) \in Nat
      BY <3>1, FS_CardinalityType
    <3>3. Len(transfers) \in Nat /\ Len(lockups) \in Nat
      BY Positions DEF TInv
    <3> QED
      BY <3>1, <3>2, <3>3, TableAssumption
  <2>3. \A u \in Users :
            /\ request[u].stage \in {"idle", "listed", "checked", "dated", "inserted"}
            /\ request[u].kind \in {"transfer", "early", "lockup"}
            /\ request[u].amount \in Nat /\ request[u].vest \in Nat
    BY DEF TInv, Typed, Request, Stages, Kinds
  <2>4. \A c \in Confirmers :
            \/ confirm[c] = NoConfirm
            \/ confirm[c].kind \in {"enqueue", "expire"} /\ confirm[c].id \in DOMAIN transfers
            \/ confirm[c].kind = "lockup" /\ confirm[c].id \in DOMAIN lockups
    BY DEF TInv, Typed, Confirmation, Linked, ConfirmLinked
  <2>5. \A r \in Runs :
            /\ job[r].todo \subseteq (DOMAIN transfers) \X (DOMAIN chain)
            /\ job[r].transfer \in {0} \cup DOMAIN transfers
            /\ job[r].hash \in {0} \cup DOMAIN chain
    BY DEF TInv, Linked, JobLinked, RunLinked
  <2>6. \A i \in DOMAIN chain :
            /\ chain[i].transfer \in DOMAIN transfers
            /\ chain[i].state \in {"pending", "included", "reverted", "confirmed", "lost"}
    BY Positions DEF TInv, Linked, ChainLinked, Tx, States
  <2> QED
    BY <2>1, <2>2, <2>3, <2>4, <2>5, <2>6 DEF TypeOK
<1> QED
  BY <1>1, TypeInvariant, PTL

-----------------------------------------------------------------------------
(* Payments: each transfer is sent at most once *)

\* A run that has begun, and is not waiting for an answer that never comes.
Active(run) == run.pc \notin {"idle", "hung"}

\* No two runs of the job are under way together ...
OneRun == \A r, s \in Runs : Active(job[r]) /\ Active(job[s]) => r = s

\* ... and no transfer is confirmed by two requests at the same time.
Confirms(conf) == conf.kind \in {"enqueue", "expire"}
OneConfirmation ==
    \A c, d \in Confirmers :
        Confirms(confirm[c]) /\ Confirms(confirm[d]) /\ confirm[c].id = confirm[d].id => c = d

InFlight(t) == transfers[t].status \in {"Processing", "WaitingConfirmation"}
NotSent(t)  == \A i \in DOMAIN chain : chain[i].transfer # t

ConfirmKnown ==
    \A c \in Confirmers :
        Confirms(confirm[c]) => transfers[confirm[c].id].status = "WaitingEmailConfirm"

\* A run that looks at transactions has all of those that are waited for, and nothing
\* is in flight once it has looked at the rows of the transfers itself.
LooksAtAll(run) ==
    /\ \A t \in DOMAIN transfers :
            transfers[t].status = "WaitingConfirmation" => <<t, transfers[t].hash>> \in run.todo
    /\ \A w \in run.todo :
            transfers[w[1]].status = "WaitingConfirmation" /\ transfers[w[1]].hash = w[2]
NoneWaits    == \A t \in DOMAIN transfers : transfers[t].status # "WaitingConfirmation"
NoneInFlight == \A t \in DOMAIN transfers : ~InFlight(t)

RunKnows(run) ==
    /\ run.pc = "confirming" => LooksAtAll(run)
    /\ run.pc = "processing" => NoneWaits
    /\ run.pc \in {"create", "pick", "balance", "mark"} => NoneInFlight
    /\ run.pc \in {"balance", "mark"} => transfers[run.transfer].status = "Enqueued"
    /\ run.pc \in {"credit", "failed", "sent"} => transfers[run.transfer].status = "Processing"
    /\ run.pc = "credit" => NotSent(run.transfer)
JobKnown == \A r \in Runs : RunKnows(job[r])

OneAtATime == \A t, s \in DOMAIN transfers : InFlight(t) /\ InFlight(s) => t = s

\* No two transactions are sent for a transfer, whatever became of the first ...
SentOnce == \A i, j \in DOMAIN chain : chain[i].transfer = chain[j].transfer => i = j

\* ... and none is sent before the transfer is marked.
Unsent ==
    \A t \in DOMAIN transfers :
        transfers[t].status \in {"WaitingEmailConfirm", "Enqueued", "Expired"} => NotSent(t)

PInv == ConfirmKnown /\ JobKnown /\ OneAtATime /\ SentOnce /\ Unsent

\* One run moves.  The others are idle or hung and know nothing, so that only what the
\* moving one knows afterwards counts.
LEMMA NoOneElseKnows ==
    ASSUME TInv, OneRun, NEW r \in Runs, Active(job[r]), NEW run \in Run,
           job' = [job EXCEPT ![r] = run], RunKnows(run)'
    PROVE  JobKnown'
<1>1. \A s \in Runs : job'[s] = IF s = r THEN run ELSE job[s]
  BY OneRunMoves
<1> SUFFICES ASSUME NEW s \in Runs PROVE RunKnows(job[s])'
  BY DEF JobKnown
<1>2. CASE s = r
  BY <1>1, <1>2 DEF RunKnows
<1>3. CASE s # r
  <2>1. job'[s] = job[s] /\ job[s].pc \in {"idle", "hung"}
    BY <1>1, <1>3 DEF OneRun, Active
  <2> QED
    BY <2>1 DEF RunKnows
<1> QED
  BY <1>2, <1>3

\* Runs go on, and rows, transactions and confirmations stay as they are.
LEMMA PaymentsKept ==
    ASSUME PInv, UNCHANGED <<transfers, chain, confirm>>, JobKnown'
    PROVE  PInv'
<1> USE DEF PInv
<1>1. ConfirmKnown'
  BY DEF ConfirmKnown, Confirms
<1>2. OneAtATime'
  BY DEF OneAtATime, InFlight
<1>3. SentOnce' /\ Unsent'
  BY DEF SentOnce, Unsent, NotSent
<1> QED
  BY <1>1, <1>2, <1>3

LEMMA SameKnowledge ==
    ASSUME PInv, UNCHANGED <<transfers, chain, job>>
    PROVE  JobKnown'
BY DEF PInv, JobKnown, RunKnows, LooksAtAll, NoneWaits, NoneInFlight, InFlight, NotSent

\* One run goes on and changes nothing that counts.
LEMMA RunGoesOnKnowing ==
    ASSUME TInv, PInv, OneRun, NEW r \in Runs, Active(job[r]), NEW run \in Run,
           job' = [job EXCEPT ![r] = run], RunKnows(run),
           UNCHANGED <<transfers, chain, confirm>>
    PROVE  PInv'
<1>1. RunKnows(run)'
  BY DEF RunKnows, LooksAtAll, NoneWaits, NoneInFlight, InFlight, NotSent
<1>2. JobKnown'
  BY <1>1, NoOneElseKnows
<1> QED
  BY <1>2, PaymentsKept

\* A transfer that was confirmed moves on to a status that follows the payment.
LEMMA RunMovesRow ==
    ASSUME TInv, PInv, OneRun, NEW r \in Runs, Active(job[r]), NEW run \in Run,
           job' = [job EXCEPT ![r] = run], RunKnows(run)',
           NEW t \in DOMAIN transfers, NEW row \in TransferRow,
           transfers' = [transfers EXCEPT ![t] = row],
           transfers[t].status # "WaitingEmailConfirm",
           row.status \in {"Processing", "WaitingConfirmation", "Success", "Failed"},
           row.status \in {"Processing", "WaitingConfirmation"} => InFlight(t) \/ NoneInFlight,
           UNCHANGED <<chain, confirm>>
    PROVE  PInv'
<1>1. transfers \in Seq(TransferRow)
  BY DEF TInv, Typed
<1>2. /\ DOMAIN transfers' = DOMAIN transfers
      /\ \A i \in DOMAIN transfers : transfers'[i] = IF i = t THEN row ELSE transfers[i]
  BY <1>1, SetElement
<1>3. JobKnown'
  BY NoOneElseKnows
<1>4. ConfirmKnown'
  <2> SUFFICES ASSUME NEW c \in Confirmers, Confirms(confirm[c])
               PROVE  transfers'[confirm[c].id].status = "WaitingEmailConfirm"
    BY DEF ConfirmKnown, Confirms
  <2>1. confirm[c].id \in DOMAIN transfers
    BY DEF TInv, Linked, ConfirmLinked, Confirms
  <2>2. transfers[confirm[c].id].status = "WaitingEmailConfirm"
    BY DEF PInv, ConfirmKnown
  <2> QED
    BY <1>2, <2>1, <2>2
<1>5. OneAtATime'
  BY <1>2 DEF PInv, OneAtATime, NoneInFlight, InFlight
<1>6. SentOnce'
  BY DEF PInv, SentOnce
<1>7. Unsent'
  BY <1>2 DEF PInv, Unsent, NotSent
<1> QED
  BY <1>3, <1>4, <1>5, <1>6, <1>7 DEF PInv

LEMMA NoRunKnows == RunKnows(NoRun) /\ NoRun \in Run
BY NothingTyped DEF RunKnows

LEMMA FinishKnowing ==
    ASSUME TInv, PInv, OneRun, NEW r \in Runs, Active(job[r]), Finish(r),
           UNCHANGED <<transfers, chain, confirm>>
    PROVE  PInv'
BY NoRunKnows, RunGoesOnKnowing DEF Finish

\* Requests, confirmations and the clock: rows are added, or leave the wait for a
\* confirmation, and nothing is sent.
LEMMA OutsideTheJob ==
    ASSUME TInv, PInv, UNCHANGED <<chain, job>>,
           DOMAIN transfers \subseteq DOMAIN transfers',
           \A t \in DOMAIN transfers :
                \/ transfers'[t] = transfers[t]
                \/ /\ transfers[t].status = "WaitingEmailConfirm"
                   /\ transfers'[t].status \in {"Expired", "Enqueued"},
           \A t \in DOMAIN transfers' \ DOMAIN transfers :
                transfers'[t].status = "WaitingEmailConfirm",
           ConfirmKnown'
    PROVE  PInv'
<1>1. \A t \in DOMAIN transfers' : InFlight(t)' =>
            t \in DOMAIN transfers /\ InFlight(t) /\ transfers'[t] = transfers[t]
  BY DEF InFlight
<1>2. ASSUME NEW r \in Runs
      PROVE  RunKnows(job[r])'
  <2>1. RunKnows(job[r]) /\ RunLinked(job[r]) /\ job'[r] = job[r]
    BY RunFacts DEF PInv, JobKnown
  <2>2. job[r].pc = "confirming" => LooksAtAll(job[r])'
    <3>1. CASE job[r].pc = "confirming"
      <4>1. LooksAtAll(job[r]) /\ job[r].todo \subseteq (DOMAIN transfers) \X (DOMAIN chain)
        BY <2>1, <3>1 DEF RunKnows, RunLinked
      <4>2. \A t \in DOMAIN transfers' : transfers'[t].status = "WaitingConfirmation" =>
                t \in DOMAIN transfers /\ transfers'[t] = transfers[t]
        OBVIOUS
      <4>3. \A w \in job[r].todo : w[1] \in DOMAIN transfers
        BY <4>1
      <4>4. \A w \in job[r].todo : transfers'[w[1]] = transfers[w[1]]
        BY <4>1, <4>3 DEF LooksAtAll
      <4> QED
        BY <2>1, <4>1, <4>2, <4>4 DEF LooksAtAll
    <3> QED
      BY <3>1
  <2>3. job[r].pc = "processing" => NoneWaits'
    BY <2>1 DEF RunKnows, NoneWaits
  <2>4. NoneInFlight => NoneInFlight'
    BY <1>1 DEF NoneInFlight
  <2>5. job[r].pc \in {"balance", "mark", "credit", "failed", "sent"} =>
            transfers'[job[r].transfer] = transfers[job[r].transfer]
    BY <2>1, PickedTransfer DEF RunKnows
  <2>6. \A t : NotSent(t) => NotSent(t)'
    BY DEF NotSent
  <2> QED
    BY <2>1, <2>2, <2>3, <2>4, <2>5, <2>6 DEF RunKnows
<1>3. OneAtATime'
  BY <1>1 DEF PInv, OneAtATime
<1>4. SentOnce'
  BY DEF PInv, SentOnce
<1>5. Unsent'
  BY DEF PInv, Unsent, NotSent, TInv, Linked, ChainLinked
<1> QED
  BY <1>2, <1>3, <1>4, <1>5 DEF PInv, JobKnown

\* The rows, the confirmations and the job stay as they are.
LEMMA NothingPaid ==
    ASSUME TInv, PInv, UNCHANGED <<transfers, confirm, chain, job>>
    PROVE  PInv'
<1>1. ConfirmKnown'
  BY DEF PInv, ConfirmKnown, Confirms
<1> QED
  BY <1>1, OutsideTheJob

LEMMA InsertTransferPaid ==
    ASSUME TInv, PInv, NEW u \in Users, InsertTransfer(u)
    PROVE  PInv'
<1> DEFINE row == [user |-> u, amount |-> request[u].amount,
                   status |-> "WaitingEmailConfirm", createdAt |-> now, hash |-> 0]
<1>1. row \in TransferRow /\ row.status = "WaitingEmailConfirm"
  <2>1. request[u] \in Request /\ now \in Nat
    BY TableAssumption DEF TInv, Typed
  <2> QED
    BY <2>1 DEF TransferRow, TransferStatuses, Request
<1>2. transfers' = Append(transfers, row) /\ UNCHANGED <<confirm, chain, job>>
  BY DEF InsertTransfer
<1> HIDE DEF row
<1>3. transfers \in Seq(TransferRow)
  BY DEF TInv, Typed
<1>4. /\ DOMAIN transfers' = DOMAIN transfers \cup {Len(transfers) + 1}
      /\ \A t \in DOMAIN transfers : transfers'[t] = transfers[t]
      /\ transfers'[Len(transfers) + 1] = row
  BY <1>1, <1>2, <1>3, AddElement
<1>5. ConfirmKnown'
  BY <1>2, <1>4 DEF PInv, ConfirmKnown, Confirms, TInv, Linked, ConfirmLinked
<1> QED
  BY <1>1, <1>2, <1>4, <1>5, OutsideTheJob

LEMMA CheckConfirmPaid ==
    ASSUME TInv, PInv, NEW c \in Confirmers, NEW t \in DOMAIN transfers, CheckConfirm(c, t)
    PROVE  PInv'
<1>1. /\ transfers[t].status = "WaitingEmailConfirm"
      /\ UNCHANGED <<transfers, chain, job>>
  BY DEF CheckConfirm, MayConfirm, tables
<1>2. \A d \in Confirmers : d # c => confirm'[d] = confirm[d]
  BY DEF CheckConfirm
<1>3. confirm'[c].id = t
  BY DEF CheckConfirm, TInv, Typed
<1>4. ConfirmKnown'
  BY <1>1, <1>2, <1>3 DEF PInv, ConfirmKnown, Confirms
<1> QED
  BY <1>1, <1>4, OutsideTheJob

LEMMA CheckConfirmLockupPaid ==
    ASSUME TInv, PInv, NEW c \in Confirmers, NEW k \in DOMAIN lockups, CheckConfirmLockup(c, k)
    PROVE  PInv'
<1>1. UNCHANGED <<transfers, chain, job>>
  BY DEF CheckConfirmLockup, tables
<1>2. \A d \in Confirmers : d # c => confirm'[d] = confirm[d]
  BY DEF CheckConfirmLockup
<1>3. confirm'[c].kind = "lockup"
  BY DEF CheckConfirmLockup, TInv, Typed
<1>4. ConfirmKnown'
  BY <1>1, <1>2, <1>3 DEF PInv, ConfirmKnown, Confirms
<1> QED
  BY <1>1, <1>4, OutsideTheJob

\* The row is still the one that was read: nobody else confirms it.
LEMMA WriteConfirmPaid ==
    ASSUME TInv, PInv, OneConfirmation, NEW c \in Confirmers, WriteConfirm(c)
    PROVE  PInv'
<1>1. PICK status \in {"Expired", "Enqueued"} :
            transfers' = [transfers EXCEPT ![confirm[c].id].status = status]
  BY DEF WriteConfirm
<1>2. PICK t \in DOMAIN transfers : t = confirm[c].id
  BY DEF WriteConfirm, TInv, Linked, ConfirmLinked
<1>3. PICK row \in TransferRow : transfers' = [transfers EXCEPT ![t] = row] /\ row.status = status
  <2>1. status \in TransferStatuses
    BY DEF TransferStatuses
  <2>2. SetStatus(t, status)
    BY <1>1, <1>2 DEF SetStatus
  <2> QED
    BY ONLY <2>1, <2>2, TInv, t \in DOMAIN transfers, StatusSet
<1>4. transfers \in Seq(TransferRow) /\ UNCHANGED <<job, chain>> /\ Confirms(confirm[c])
  BY DEF TInv, Typed, WriteConfirm, Confirms
<1>5. /\ DOMAIN transfers' = DOMAIN transfers
      /\ \A i \in DOMAIN transfers : transfers'[i] = IF i = t THEN row ELSE transfers[i]
  BY <1>3, <1>4, SetElement
<1>6. transfers[t].status = "WaitingEmailConfirm"
  BY <1>2, <1>4 DEF PInv, ConfirmKnown
<1>7. ConfirmKnown'
  <2> SUFFICES ASSUME NEW d \in Confirmers, Confirms(confirm'[d])
               PROVE  transfers'[confirm'[d].id].status = "WaitingEmailConfirm"
    BY DEF ConfirmKnown, Confirms
  <2>1. confirm'[d] = confirm[d] /\ d # c
    BY NothingTyped DEF WriteConfirm, Confirms, TInv, Typed
  <2>2. confirm[d].id # t
    BY <1>2, <1>4, <2>1 DEF OneConfirmation
  <2>3. confirm[d].id \in DOMAIN transfers
    BY <2>1 DEF Confirms, TInv, Linked, ConfirmLinked
  <2> QED
    BY <1>5, <2>1, <2>2, <2>3 DEF PInv, ConfirmKnown
<1> QED
  BY <1>3, <1>4, <1>5, <1>6, <1>7, OutsideTheJob

LEMMA WriteConfirmLockupPaid ==
    ASSUME TInv, PInv, NEW c \in Confirmers, WriteConfirmLockup(c)
    PROVE  PInv'
<1>1. UNCHANGED <<transfers, chain, job>>
  BY DEF WriteConfirmLockup
<1>2. \A d \in Confirmers : confirm'[d] = IF d = c THEN NoConfirm ELSE confirm[d]
  BY DEF WriteConfirmLockup, TInv, Typed
<1>3. ConfirmKnown'
  BY <1>1, <1>2, NothingTyped DEF PInv, ConfirmKnown, Confirms
<1> QED
  BY <1>1, <1>3, OutsideTheJob

\* A run that starts has the transactions that are waited for from the rows themselves.
LEMMA StartRunPaid ==
    ASSUME TInv, PInv, NEW r \in Runs, StartRun(r)
    PROVE  PInv'
<1> DEFINE waiting == {i \in DOMAIN transfers : transfers[i].status = "WaitingConfirmation"}
<1>1. PICK todo : todo = {<<t, transfers[t].hash>> : t \in waiting}
  OBVIOUS
<1>2. PICK run : run = [NoRun EXCEPT !.pc = "confirming", !.todo = todo]
  OBVIOUS
<1>3. run.pc = "confirming" /\ run.todo = todo
  BY <1>2 DEF NoRun
<1>4. job' = [job EXCEPT ![r] = run] /\ UNCHANGED <<transfers, chain, confirm>>
  BY <1>1, <1>2 DEF StartRun, tables
<1>5. LooksAtAll(run)
  BY <1>1, <1>3 DEF LooksAtAll
<1>6. RunKnows(run)
  BY <1>3, <1>5 DEF RunKnows
<1>7. \A s \in Runs : job'[s] = IF s = r THEN run ELSE job[s]
  BY <1>4 DEF TInv, Typed
<1>8. \A s \in Runs : RunKnows(job'[s])
  BY <1>6, <1>7 DEF PInv, JobKnown
<1>9. JobKnown'
  BY <1>4, <1>8 DEF JobKnown, RunKnows, LooksAtAll, NoneWaits, NoneInFlight, InFlight, NotSent
<1> QED
  BY <1>4, <1>9, PaymentsKept

LEMMA KnownRun ==
    ASSUME PInv, NEW r \in Runs
    PROVE  RunKnows(job[r])
BY DEF PInv, JobKnown

LEMMA CheckBlockConfirmationPaid ==
    ASSUME TInv, PInv, OneRun, NEW r \in Runs, CheckBlockConfirmation(r)
    PROVE  PInv'
<1>1. PICK w \in job[r].todo :
              \/ \E status \in {"Success", "Failed"} :
                    SetStatus(w[1], status) /\ job' = [job EXCEPT ![r].todo = @ \ {w}]
              \/ Finish(r) /\ UNCHANGED transfers
  BY ConfirmationOutcomes
<1>2. /\ UNCHANGED <<confirm, chain>> /\ job[r].pc = "confirming" /\ Active(job[r])
      /\ LooksAtAll(job[r])
  BY KnownRun DEF CheckBlockConfirmation, Active, RunKnows
<1>3. PICK t \in DOMAIN transfers : t = w[1]
  BY RunFacts DEF RunLinked
<1>4. ASSUME NEW status \in {"Success", "Failed"}, SetStatus(w[1], status),
             job' = [job EXCEPT ![r].todo = @ \ {w}]
      PROVE  PInv'
  <2>1. PICK run \in Run : /\ job' = [job EXCEPT ![r] = run]
                           /\ run.pc = "confirming" /\ run.todo = job[r].todo \ {w}
    <3>1. job[r].pc = "confirming" /\ job' = [job EXCEPT ![r].todo = @ \ {w}]
      BY <1>2, <1>4
    <3>2. \E run \in Run :
                /\ job' = [job EXCEPT ![r] = run] /\ RunLinked(run)
                /\ HasTask(run) => HasTask(job[r])
                /\ run.pc = job[r].pc /\ run.todo = job[r].todo \ {w}
                /\ run.transfer = job[r].transfer
      BY <3>1, OneLess
    <3> QED
      BY <3>1, <3>2
  <2>2. status \in TransferStatuses /\ SetStatus(t, status)
    BY <1>3, <1>4 DEF TransferStatuses
  <2>3. PICK row \in TransferRow :
            transfers' = [transfers EXCEPT ![t] = row] /\ row.status = status
    BY ONLY TInv, t \in DOMAIN transfers, <2>2, StatusSet
  <2>4. transfers \in Seq(TransferRow)
    BY DEF TInv, Typed
  <2>5. /\ DOMAIN transfers' = DOMAIN transfers
        /\ \A i \in DOMAIN transfers : transfers'[i] = IF i = t THEN row ELSE transfers[i]
    BY <2>3, <2>4, SetElement
  <2>6. job[r].todo \subseteq (DOMAIN transfers) \X (DOMAIN chain)
    BY RunFacts DEF RunLinked
  <2>7. \A v \in job[r].todo \ {w} : v[1] \in DOMAIN transfers /\ v[1] # t
    <3> SUFFICES ASSUME NEW v \in job[r].todo \ {w} PROVE v[1] \in DOMAIN transfers /\ v[1] # t
      OBVIOUS
    <3>1. v = <<v[1], v[2]>> /\ w = <<w[1], w[2]>> /\ v[1] \in DOMAIN transfers
      BY <2>6
    <3>2. transfers[v[1]].hash = v[2] /\ transfers[w[1]].hash = w[2]
      BY <1>2 DEF LooksAtAll
    <3> QED
      BY <1>3, <3>1, <3>2
  <2>8. LooksAtAll(run)'
    <3>1. \A i \in DOMAIN transfers' : transfers'[i].status = "WaitingConfirmation" =>
                <<i, transfers'[i].hash>> \in run.todo
      <4> SUFFICES ASSUME NEW i \in DOMAIN transfers,
                          transfers'[i].status = "WaitingConfirmation"
                   PROVE  <<i, transfers'[i].hash>> \in run.todo
        BY <2>5
      <4>1. i # t /\ transfers'[i] = transfers[i]
        BY <1>4, <2>3, <2>5
      <4>2. <<i, transfers[i].hash>> \in job[r].todo
        BY <1>2, <4>1 DEF LooksAtAll
      <4> QED
        BY <1>3, <2>1, <4>1, <4>2
    <3>2. \A v \in run.todo :
                transfers'[v[1]].status = "WaitingConfirmation" /\ transfers'[v[1]].hash = v[2]
      BY <1>2, <2>1, <2>5, <2>7 DEF LooksAtAll
    <3> QED
      BY <3>1, <3>2 DEF LooksAtAll
  <2>9. RunKnows(run)'
    BY <2>1, <2>8 DEF RunKnows
  <2>10. transfers[t].status = "WaitingConfirmation"
    BY <1>2, <1>3 DEF LooksAtAll
  <2> QED
    BY <1>2, <2>1, <2>3, <2>9, <2>10, RunMovesRow
<1>5. CASE Finish(r) /\ UNCHANGED transfers
  BY <1>2, <1>5, FinishKnowing
<1> QED
  BY <1>1, <1>4, <1>5

LEMMA ReadTasksPaid ==
    ASSUME TInv, PInv, OneRun, NEW r \in Runs, ReadTasks(r)
    PROVE  PInv'
<1>1. /\ UNCHANGED <<transfers, confirm, chain>> /\ job[r].pc = "confirming"
      /\ job[r].todo = {} /\ Active(job[r]) /\ LooksAtAll(job[r])
  BY KnownRun DEF ReadTasks, tables, Active, RunKnows
<1>2. CASE Finish(r)
  BY <1>1, <1>2, FinishKnowing
<1>3. CASE GoOn(r, "processing")
  <2>1. PICK run \in Run : job' = [job EXCEPT ![r] = run] /\ run.pc = "processing"
    BY <1>3, GoOnTyped DEF Pcs
  <2>2. NoneWaits
    BY <1>1 DEF LooksAtAll, NoneWaits
  <2>3. RunKnows(run)
    BY <2>1, <2>2 DEF RunKnows
  <2> QED
    BY <1>1, <2>1, <2>3, RunGoesOnKnowing
<1> QED
  BY <1>2, <1>3 DEF ReadTasks

LEMMA ReadProcessingPaid ==
    ASSUME TInv, PInv, OneRun, NEW r \in Runs, ReadProcessing(r)
    PROVE  PInv'
<1>1. /\ UNCHANGED <<transfers, confirm, chain>> /\ job[r].pc = "processing"
      /\ Active(job[r]) /\ NoneWaits
  BY KnownRun DEF ReadProcessing, tables, Active, RunKnows
<1>2. CASE Finish(r)
  BY <1>1, <1>2, FinishKnowing
<1>3. CASE GoOn(r, "create") /\ ~\E t \in DOMAIN transfers : transfers[t].status = "Processing"
  <2>1. PICK run \in Run : job' = [job EXCEPT ![r] = run] /\ run.pc = "create"
    BY <1>3, GoOnTyped DEF Pcs
  <2>2. NoneInFlight
    BY <1>1, <1>3 DEF NoneWaits, NoneInFlight, InFlight
  <2>3. RunKnows(run)
    BY <2>1, <2>2 DEF RunKnows
  <2> QED
    BY <1>1, <2>1, <2>3, RunGoesOnKnowing
<1> QED
  BY <1>2, <1>3 DEF ReadProcessing

LEMMA CreateTaskPaid ==
    ASSUME TInv, PInv, OneRun, NEW r \in Runs, CreateTask(r)
    PROVE  PInv'
<1>1. /\ UNCHANGED <<transfers, confirm, chain>> /\ job[r].pc = "create"
      /\ Active(job[r]) /\ NoneInFlight
  BY KnownRun DEF CreateTask, Active, RunKnows
<1>2. job[r] \in Run /\ job \in [Runs -> Run]
  BY RunFacts
<1>3. PICK run : run = [job[r] EXCEPT !.pc = "pick"]
  OBVIOUS
<1>4. run \in Run /\ run.pc = "pick" /\ job' = [job EXCEPT ![r] = run]
  BY <1>2, <1>3 DEF Run, Pcs, CreateTask, GoOn
<1>5. RunKnows(run)
  BY <1>1, <1>4 DEF RunKnows
<1> QED
  BY <1>1, <1>4, <1>5, RunGoesOnKnowing

LEMMA PickTransferPaid ==
    ASSUME TInv, PInv, OneRun, NEW r \in Runs, PickTransfer(r)
    PROVE  PInv'
<1>1. /\ UNCHANGED <<transfers, confirm, chain>> /\ job[r].pc = "pick" /\ Active(job[r])
      /\ NoneInFlight /\ job[r] \in Run /\ job \in [Runs -> Run] /\ HasTask(job[r])
  BY KnownRun, RunFacts DEF PickTransfer, tables, Active, RunKnows, HasTask
<1>2. CASE GoOn(r, "end")
  <2>1. PICK run \in Run : job' = [job EXCEPT ![r] = run] /\ run.pc = "end"
    BY <1>1, <1>2, GoOnTyped DEF Pcs
  <2>2. RunKnows(run)
    BY <2>1 DEF RunKnows
  <2> QED
    BY <1>1, <2>1, <2>2, RunGoesOnKnowing
<1>3. ASSUME NEW t \in DOMAIN transfers, Due(t),
             job' = [job EXCEPT ![r].pc = "balance", ![r].transfer = t]
      PROVE  PInv'
  <2>1. PICK run : run = [job[r] EXCEPT !.pc = "balance", !.transfer = t]
    OBVIOUS
  <2>2. t \in Nat
    BY Positions DEF TInv
  <2>3. run \in Run /\ run.pc = "balance" /\ run.transfer = t
    BY <1>1, <2>1, <2>2 DEF Run, Pcs
  <2>4. job' = [job EXCEPT ![r] = run]
    BY <1>1, <1>3, <2>1
  <2>5. RunKnows(run)
    BY <1>1, <1>3, <2>3 DEF RunKnows, Due
  <2> QED
    BY <1>1, <2>3, <2>4, <2>5, RunGoesOnKnowing
<1> QED
  BY <1>2, <1>3 DEF PickTransfer

LEMMA CheckBalancePaid ==
    ASSUME TInv, PInv, OneRun, NEW r \in Runs, CheckBalance(r)
    PROVE  PInv'
<1>1. /\ UNCHANGED <<transfers, confirm, chain>> /\ job[r].pc = "balance" /\ Active(job[r])
      /\ NoneInFlight /\ transfers[job[r].transfer].status = "Enqueued" /\ HasTask(job[r])
  BY KnownRun DEF CheckBalance, tables, Active, RunKnows, HasTask
<1>2. CASE Finish(r)
  BY <1>1, <1>2, FinishKnowing
<1>3. CASE GoOn(r, "mark")
  <2>1. PICK run \in Run : /\ job' = [job EXCEPT ![r] = run]
                           /\ run.pc = "mark" /\ run.transfer = job[r].transfer
    BY <1>1, <1>3, GoOnTyped DEF Pcs
  <2>2. RunKnows(run)
    BY <1>1, <2>1 DEF RunKnows
  <2> QED
    BY <1>1, <2>1, <2>2, RunGoesOnKnowing
<1> QED
  BY <1>2, <1>3 DEF CheckBalance

\* Nothing is in flight, and nothing has been sent for a transfer that is still enqueued.
LEMMA MarkProcessingPaid ==
    ASSUME TInv, PInv, OneRun, NEW r \in Runs, MarkProcessing(r)
    PROVE  PInv'
<1>1. /\ job[r].pc = "mark" /\ SetStatus(job[r].transfer, "Processing") /\ GoOn(r, "credit")
      /\ UNCHANGED <<confirm, chain>> /\ Active(job[r]) /\ NoneInFlight
      /\ transfers[job[r].transfer].status = "Enqueued"
  BY KnownRun DEF MarkProcessing, Active, RunKnows
<1>2. PICK t \in DOMAIN transfers : t = job[r].transfer /\ HasTask(job[r])
  BY <1>1, PickedTransfer
<1>3. PICK run \in Run : /\ job' = [job EXCEPT ![r] = run]
                         /\ run.pc = "credit" /\ run.transfer = t
  BY <1>1, <1>2, GoOnTyped DEF Pcs
<1>4. "Processing" \in TransferStatuses /\ SetStatus(t, "Processing")
  BY <1>1, <1>2 DEF TransferStatuses
<1>5. PICK row \in TransferRow :
            transfers' = [transfers EXCEPT ![t] = row] /\ row.status = "Processing"
  BY ONLY TInv, t \in DOMAIN transfers, <1>4, StatusSet
<1>6. transfers'[t] = row
  BY <1>5, SetElement DEF TInv, Typed
<1>7. NotSent(t)
  BY <1>1, <1>2 DEF PInv, Unsent
<1>8. RunKnows(run)'
  BY <1>1, <1>3, <1>5, <1>6, <1>7 DEF RunKnows, NotSent
<1> QED
  BY <1>1, <1>2, <1>3, <1>5, <1>8, RunMovesRow

LEMMA CreditRefusedPaid ==
    ASSUME TInv, PInv, OneRun, NEW r \in Runs, CreditRefused(r)
    PROVE  PInv'
<1>1. /\ UNCHANGED <<transfers, confirm, chain>> /\ job[r].pc = "credit" /\ Active(job[r])
      /\ transfers[job[r].transfer].status = "Processing" /\ HasTask(job[r])
      /\ GoOn(r, "failed")
  BY KnownRun DEF CreditRefused, tables, Active, RunKnows, HasTask
<1>2. PICK run \in Run : /\ job' = [job EXCEPT ![r] = run]
                         /\ run.pc = "failed" /\ run.transfer = job[r].transfer
  BY <1>1, GoOnTyped DEF Pcs
<1>3. RunKnows(run)
  BY <1>1, <1>2 DEF RunKnows
<1> QED
  BY <1>1, <1>2, <1>3, RunGoesOnKnowing

LEMMA CreditUnansweredPaid ==
    ASSUME TInv, PInv, OneRun, NEW r \in Runs, CreditUnanswered(r)
    PROVE  PInv'
<1>1. /\ UNCHANGED <<transfers, confirm, chain>> /\ job[r].pc = "credit" /\ Active(job[r])
      /\ HasTask(job[r]) /\ GoOn(r, "hung")
  BY DEF CreditUnanswered, tables, Active, HasTask
<1>2. PICK run \in Run : job' = [job EXCEPT ![r] = run] /\ run.pc = "hung"
  BY <1>1, GoOnTyped DEF Pcs
<1>3. RunKnows(run)
  BY <1>2 DEF RunKnows
<1> QED
  BY <1>1, <1>2, <1>3, RunGoesOnKnowing

\* The transaction that is sent is the first one for its transfer.
LEMMA CreditSentPaid ==
    ASSUME TInv, PInv, OneRun, NEW r \in Runs, CreditSent(r)
    PROVE  PInv'
<1>1. /\ job[r].pc = "credit" /\ job[r] \in Run /\ RunLinked(job[r]) /\ job \in [Runs -> Run]
      /\ Active(job[r]) /\ transfers' = transfers /\ confirm' = confirm
  BY RunFacts DEF CreditSent, tables, Active
<1>2. PICK t \in DOMAIN transfers : t = job[r].transfer
  BY <1>1, PickedTransfer
<1>3. transfers[t].status = "Processing" /\ NotSent(t)
  BY <1>1, <1>2, KnownRun DEF RunKnows
<1>4. /\ chain' = Append(chain, [transfer |-> t, state |-> "pending"])
      /\ job' = [job EXCEPT ![r].pc = "sent", ![r].hash = Len(chain) + 1]
  BY <1>2 DEF CreditSent
<1>5. /\ Len(chain) + 1 \in Nat \ {0}
      /\ DOMAIN chain' = DOMAIN chain \cup {Len(chain) + 1}
      /\ \A i \in DOMAIN chain : chain'[i] = chain[i]
      /\ chain'[Len(chain) + 1].transfer = t
  BY <1>4, ChainAppended
<1>6. PICK h \in Nat \ {0} : h = Len(chain) + 1
  BY <1>5
<1>7. PICK run : run = [job[r] EXCEPT !.pc = "sent", !.hash = h]
  OBVIOUS
<1>8. job' = [job EXCEPT ![r] = run]
  BY <1>1, <1>4, <1>6, <1>7
<1>9. run \in Run /\ run.pc = "sent" /\ run.transfer = t
  BY <1>1, <1>2, <1>7 DEF Run, Pcs
<1>10. RunKnows(run)'
  BY <1>1, <1>3, <1>9 DEF RunKnows
<1>11. JobKnown'
  BY <1>1, <1>8, <1>9, <1>10, NoOneElseKnows
<1>12. ConfirmKnown' /\ OneAtATime'
  BY <1>1 DEF PInv, ConfirmKnown, Confirms, OneAtATime, InFlight
<1>13. SentOnce'
  <2> SUFFICES ASSUME NEW i \in DOMAIN chain', NEW j \in DOMAIN chain',
                      chain'[i].transfer = chain'[j].transfer
               PROVE  i = j
    BY DEF SentOnce
  <2>1. CASE i \in DOMAIN chain /\ j \in DOMAIN chain
    BY <1>5, <2>1 DEF PInv, SentOnce
  <2>2. CASE i \in DOMAIN chain /\ j \notin DOMAIN chain
    BY <1>3, <1>5, <2>2 DEF NotSent
  <2>3. CASE i \notin DOMAIN chain /\ j \in DOMAIN chain
    BY <1>3, <1>5, <2>3 DEF NotSent
  <2>4. CASE i \notin DOMAIN chain /\ j \notin DOMAIN chain
    BY <1>5, <2>4
  <2> QED
    BY <2>1, <2>2, <2>3, <2>4
<1>14. Unsent'
  BY <1>1, <1>3, <1>5 DEF PInv, Unsent, NotSent
<1> QED
  BY <1>11, <1>12, <1>13, <1>14 DEF PInv

LEMMA RecordFailedPaid ==
    ASSUME TInv, PInv, OneRun, NEW r \in Runs, RecordFailed(r)
    PROVE  PInv'
<1>1. /\ job[r].pc = "failed" /\ SetStatus(job[r].transfer, "Failed") /\ GoOn(r, "end")
      /\ UNCHANGED <<confirm, chain>> /\ Active(job[r])
      /\ transfers[job[r].transfer].status = "Processing"
  BY KnownRun DEF RecordFailed, Active, RunKnows
<1>2. PICK t \in DOMAIN transfers : t = job[r].transfer /\ HasTask(job[r])
  BY <1>1, PickedTransfer
<1>3. PICK run \in Run : job' = [job EXCEPT ![r] = run] /\ run.pc = "end"
  BY <1>1, <1>2, GoOnTyped DEF Pcs
<1>4. "Failed" \in TransferStatuses /\ SetStatus(t, "Failed")
  BY <1>1, <1>2 DEF TransferStatuses
<1>5. PICK row \in TransferRow :
            transfers' = [transfers EXCEPT ![t] = row] /\ row.status = "Failed"
  BY ONLY TInv, t \in DOMAIN transfers, <1>4, StatusSet
<1>6. RunKnows(run)'
  BY <1>3 DEF RunKnows
<1> QED
  BY <1>1, <1>2, <1>3, <1>5, <1>6, RunMovesRow

LEMMA RecordSentPaid ==
    ASSUME TInv, PInv, OneRun, NEW r \in Runs, RecordSent(r)
    PROVE  PInv'
<1>1. /\ job[r].pc = "sent" /\ GoOn(r, "end") /\ Active(job[r])
      /\ transfers' = [transfers EXCEPT ![job[r].transfer].status = "WaitingConfirmation",
                                        ![job[r].transfer].hash = job[r].hash]
      /\ UNCHANGED <<confirm, chain>>
      /\ transfers[job[r].transfer].status = "Processing"
  BY KnownRun DEF RecordSent, Active, RunKnows
<1>2. PICK t \in DOMAIN transfers : t = job[r].transfer /\ HasTask(job[r])
  BY <1>1, PickedTransfer
<1>3. job[r].hash \in Nat /\ transfers[t] \in TransferRow
  BY RunFacts, Positions DEF TInv, Run
<1>4. PICK row : row = [transfers[t] EXCEPT !.status = "WaitingConfirmation",
                                            !.hash = job[r].hash]
  OBVIOUS
<1>5. row \in TransferRow /\ row.status = "WaitingConfirmation"
  BY <1>3, <1>4 DEF TransferRow, TransferStatuses
<1>6. transfers' = [transfers EXCEPT ![t] = row]
  BY <1>1, <1>2, <1>4
<1>7. PICK run \in Run : job' = [job EXCEPT ![r] = run] /\ run.pc = "end"
  BY <1>1, <1>2, GoOnTyped DEF Pcs
<1>8. RunKnows(run)'
  BY <1>7 DEF RunKnows
<1>9. InFlight(t) /\ transfers[t].status # "WaitingEmailConfirm"
  BY <1>1, <1>2 DEF InFlight
<1> QED
  BY <1>1, <1>5, <1>6, <1>7, <1>8, <1>9, RunMovesRow

LEMMA EndTaskPaid ==
    ASSUME TInv, PInv, OneRun, NEW r \in Runs, EndTask(r)
    PROVE  PInv'
<1>1. Finish(r) /\ UNCHANGED <<transfers, chain, confirm>> /\ Active(job[r])
  BY DEF EndTask, Active
<1> QED
  BY <1>1, FinishKnowing

LEMMA ChainPaid ==
    ASSUME TInv, PInv, NEW i \in DOMAIN chain, Include(i) \/ Bury(i) \/ Reorg(i)
    PROVE  PInv'
<1>1. PICK state \in States : SetState(i, state)
  BY ChainMoves
<1>2. /\ DOMAIN chain' = DOMAIN chain
      /\ \A k \in DOMAIN chain : chain'[k].transfer = chain[k].transfer
  BY <1>1, StateSet
<1>3. UNCHANGED <<transfers, confirm, job>>
  BY <1>1 DEF SetState, tables, server
<1>4. \A t : NotSent(t)' <=> NotSent(t)
  BY <1>2 DEF NotSent
<1>5. ConfirmKnown' /\ OneAtATime'
  BY <1>3 DEF PInv, ConfirmKnown, Confirms, OneAtATime, InFlight
<1>6. SentOnce' /\ Unsent'
  BY <1>2, <1>3, <1>4 DEF PInv, SentOnce, Unsent
<1>7. JobKnown'
  <2> SUFFICES ASSUME NEW r \in Runs PROVE RunKnows(job[r])'
    BY DEF JobKnown
  <2>1. RunKnows(job[r]) /\ job'[r] = job[r]
    BY <1>3, KnownRun
  <2> QED
    BY <1>3, <1>4, <2>1 DEF RunKnows, LooksAtAll, NoneWaits, NoneInFlight, InFlight
<1> QED
  BY <1>5, <1>6, <1>7 DEF PInv

\* After a restart no run knows anything, and a transfer that was being paid stays in flight.
LEMMA CrashPaid ==
    ASSUME TInv, PInv, Crash
    PROVE  PInv'
<1>1. /\ UNCHANGED <<transfers, chain>>
      /\ \A c \in Confirmers : confirm'[c] = NoConfirm
      /\ \A r \in Runs : job'[r] = NoRun
  BY DEF Crash, tables
<1>2. ConfirmKnown' /\ JobKnown'
  BY <1>1, NothingTyped DEF ConfirmKnown, Confirms, JobKnown, RunKnows
<1>3. OneAtATime' /\ SentOnce' /\ Unsent'
  BY <1>1 DEF PInv, OneAtATime, InFlight, SentOnce, Unsent, NotSent
<1> QED
  BY <1>2, <1>3 DEF PInv

LEMMA RunStepPaid ==
    ASSUME TInv, PInv, OneRun, NEW r \in Runs, RunStep(r)
    PROVE  PInv'
BY StartRunPaid, CheckBlockConfirmationPaid, ReadTasksPaid, ReadProcessingPaid,
   CreateTaskPaid, PickTransferPaid, CheckBalancePaid, MarkProcessingPaid,
   CreditRefusedPaid, CreditSentPaid, CreditUnansweredPaid, RecordFailedPaid,
   RecordSentPaid, EndTaskPaid
   DEF RunStep

LEMMA RequestStepPaid ==
    ASSUME TInv, PInv, NEW u \in Users, RequestStep(u)
    PROVE  PInv'
<1>1. CASE InsertTransfer(u)
  BY <1>1, InsertTransferPaid
<1>2. CASE ~InsertTransfer(u)
  <2>1. UNCHANGED <<transfers, confirm, chain, job>>
    BY <1>2 DEF RequestStep, AnswerTransfer, CheckLockup, DateLockup, InsertLockup,
                AnswerLockup, tables
  <2> QED
    BY <2>1, NothingPaid
<1> QED
  BY <1>1, <1>2

LEMMA StepPaid == TInv /\ PInv /\ OneRun /\ OneConfirmation /\ [Next]_vars => PInv'
<1> SUFFICES ASSUME TInv, PInv, OneRun, OneConfirmation, [Next]_vars PROVE PInv'
  OBVIOUS
<1>1. CASE UNCHANGED vars \/ Tick
  BY <1>1, NothingPaid DEF vars, tables, server, Tick
<1>2. ASSUME NEW u \in Users, NEW amount \in TransferAmounts, BeginTransfer(u, amount)
      PROVE  PInv'
  BY <1>2, NothingPaid DEF BeginTransfer, tables
<1>3. ASSUME NEW u \in Users, NEW amount \in LockupAmounts, NEW kind \in {"early", "lockup"},
             BeginLockup(u, amount, kind)
      PROVE  PInv'
  BY <1>3, NothingPaid DEF BeginLockup, tables
<1>4. ASSUME NEW u \in Users, RequestStep(u)
      PROVE  PInv'
  BY <1>4, RequestStepPaid
<1>5. ASSUME NEW c \in Confirmers, NEW t \in DOMAIN transfers, CheckConfirm(c, t)
      PROVE  PInv'
  BY <1>5, CheckConfirmPaid
<1>6. ASSUME NEW c \in Confirmers, NEW k \in DOMAIN lockups, CheckConfirmLockup(c, k)
      PROVE  PInv'
  BY <1>6, CheckConfirmLockupPaid
<1>7. ASSUME NEW c \in Confirmers, ConfirmStep(c)
      PROVE  PInv'
  BY <1>7, WriteConfirmPaid, WriteConfirmLockupPaid DEF ConfirmStep
<1>8. ASSUME NEW r \in Runs, RunStep(r)
      PROVE  PInv'
  BY <1>8, RunStepPaid
<1>9. CASE ChainStep \/ \E i \in DOMAIN chain : Reorg(i)
  BY <1>9, ChainPaid DEF ChainStep
<1>10. CASE Crash
  BY <1>10, CrashPaid
<1> QED
  BY <1>1, <1>2, <1>3, <1>4, <1>5, <1>6, <1>7, <1>8, <1>9, <1>10 DEF Next

LEMMA InitPaid == Init => PInv
<1> SUFFICES ASSUME Init PROVE PInv
  OBVIOUS
<1>1. DOMAIN transfers = {} /\ DOMAIN chain = {}
  BY DEF Init
<1>2. /\ \A c \in Confirmers : confirm[c] = NoConfirm
      /\ \A r \in Runs : job[r] = NoRun
  BY DEF Init
<1>3. ConfirmKnown /\ JobKnown
  BY <1>2, NothingTyped DEF ConfirmKnown, Confirms, JobKnown, RunKnows
<1>4. OneAtATime /\ SentOnce /\ Unsent
  BY <1>1 DEF OneAtATime, SentOnce, Unsent
<1> QED
  BY <1>3, <1>4 DEF PInv

LEMMA PaymentsInvariant == Spec /\ []OneRun /\ []OneConfirmation => []PInv
BY InitPaid, StepPaid, TypeInvariant, PTL DEF Spec

(* As long as no two runs of the job are under way together and no transfer is confirmed
   twice at once, one transaction at most is ever sent that may pay a transfer: whatever
   restarts come between the send and the update that records its hash, and whatever
   reorganisations undo a transaction. *)
THEOREM PaidOnce == Spec /\ []OneRun /\ []OneConfirmation => []PaidAtMostOnce
<1>1. TInv /\ PInv => PaidAtMostOnce
  <2> SUFFICES ASSUME TInv, PInv, NEW t \in DOMAIN transfers
               PROVE  Cardinality(Payments(t)) <= 1
    BY DEF PaidAtMostOnce
  <2> DEFINE P == Payments(t)
  <2>1. P \subseteq DOMAIN chain /\ \A i, j \in P : i = j
    BY DEF Payments, PInv, SentOnce
  <2>2. IsFiniteSet(DOMAIN chain)
    BY Positions, FS_Interval DEF TInv
  <2> HIDE DEF P
  <2>3. IsFiniteSet(P) /\ Cardinality(P) \in Nat
    BY <2>1, <2>2, FS_Subset, FS_CardinalityType
  <2>4. ~(Cardinality(P) > 1)
    BY <2>1, <2>3, TwoMembers
  <2>5. Cardinality(P) <= 1
    BY <2>3, <2>4
  <2> QED
    BY <2>5 DEF P
<1> QED
  BY <1>1, TypeInvariant, PaymentsInvariant, PTL

(* Under the same condition there is one payment at a time: no transfer is taken up while
   another is being sent or waits for its transaction, also when a restart left that one
   half done. *)
THEOREM OneAtOnce == Spec /\ []OneRun /\ []OneConfirmation => []OneInFlight
<1>1. TInv /\ PInv => OneInFlight
  <2> SUFFICES ASSUME TInv, PInv PROVE OneInFlight
    OBVIOUS
  <2> DEFINE F == {t \in DOMAIN transfers :
                        transfers[t].status \in {"Processing", "WaitingConfirmation"}}
  <2>1. F \subseteq DOMAIN transfers /\ \A t, s \in F : t = s
    BY DEF PInv, OneAtATime, InFlight
  <2>2. IsFiniteSet(DOMAIN transfers)
    BY Positions, FS_Interval DEF TInv
  <2> HIDE DEF F
  <2>3. IsFiniteSet(F) /\ Cardinality(F) \in Nat
    BY <2>1, <2>2, FS_Subset, FS_CardinalityType
  <2>4. ~(Cardinality(F) > 1)
    BY <2>1, <2>3, TwoMembers
  <2>5. Cardinality(F) <= 1
    BY <2>3, <2>4
  <2> QED
    BY <2>5 DEF F, OneInFlight
<1> QED
  BY <1>1, TypeInvariant, PaymentsInvariant, PTL

-----------------------------------------------------------------------------
(* The statuses a transfer goes through *)

Follows(old, new) ==
    \/ new = old
    \/ old = "WaitingEmailConfirm" /\ new \in {"Expired", "Enqueued"}
    \/ old = "Enqueued" /\ new = "Processing"
    \/ old = "Processing" /\ new \in {"WaitingConfirmation", "Failed"}
    \/ old = "WaitingConfirmation" /\ new \in {"Success", "Failed"}

LifeCycle == \A t \in DOMAIN transfers : Follows(transfers[t].status, transfers'[t].status)

LEMMA SameStatuses ==
    ASSUME transfers' = transfers
    PROVE  LifeCycle
BY DEF LifeCycle, Follows

LEMMA OneStatusMoves ==
    ASSUME TInv, NEW t \in DOMAIN transfers, NEW row \in TransferRow,
           transfers' = [transfers EXCEPT ![t] = row],
           Follows(transfers[t].status, row.status)
    PROVE  LifeCycle
<1>1. transfers \in Seq(TransferRow)
  BY DEF TInv, Typed
<1>2. \A i \in DOMAIN transfers : transfers'[i] = IF i = t THEN row ELSE transfers[i]
  BY <1>1, SetElement
<1> QED
  BY <1>2 DEF LifeCycle, Follows

LEMMA StatusMoves ==
    ASSUME TInv, NEW t \in DOMAIN transfers, NEW status \in TransferStatuses,
           SetStatus(t, status), Follows(transfers[t].status, status)
    PROVE  LifeCycle
<1>1. PICK row \in TransferRow : transfers' = [transfers EXCEPT ![t] = row] /\ row.status = status
  BY ONLY TInv, t \in DOMAIN transfers, status \in TransferStatuses, SetStatus(t, status),
          StatusSet
<1> QED
  BY <1>1, OneStatusMoves

LEMMA InsertTransferLife ==
    ASSUME TInv, NEW u \in Users, InsertTransfer(u)
    PROVE  LifeCycle
<1>1. PICK row : transfers' = Append(transfers, row)
  BY DEF InsertTransfer
<1>2. transfers \in Seq(TransferRow)
  BY DEF TInv, Typed
<1>3. \A t \in DOMAIN transfers : transfers'[t] = transfers[t]
  BY <1>1, <1>2
<1> QED
  BY <1>3 DEF LifeCycle, Follows

LEMMA WriteConfirmLife ==
    ASSUME TInv, PInv, NEW c \in Confirmers, WriteConfirm(c)
    PROVE  LifeCycle
<1>1. PICK status \in {"Expired", "Enqueued"} :
            transfers' = [transfers EXCEPT ![confirm[c].id].status = status]
  BY DEF WriteConfirm
<1>2. PICK t \in DOMAIN transfers : t = confirm[c].id
  BY DEF WriteConfirm, TInv, Linked, ConfirmLinked
<1>3. transfers[t].status = "WaitingEmailConfirm"
  BY <1>2 DEF PInv, ConfirmKnown, Confirms, WriteConfirm
<1>4. /\ status \in TransferStatuses /\ SetStatus(t, status)
      /\ Follows(transfers[t].status, status)
  BY <1>1, <1>2, <1>3 DEF TransferStatuses, SetStatus, Follows
<1> QED
  BY <1>4, StatusMoves

LEMMA CheckBlockConfirmationLife ==
    ASSUME TInv, PInv, NEW r \in Runs, CheckBlockConfirmation(r)
    PROVE  LifeCycle
<1>1. PICK w \in job[r].todo :
              \/ \E status \in {"Success", "Failed"} :
                    SetStatus(w[1], status) /\ job' = [job EXCEPT ![r].todo = @ \ {w}]
              \/ Finish(r) /\ UNCHANGED transfers
  BY ConfirmationOutcomes
<1>2. PICK t \in DOMAIN transfers : t = w[1]
  BY RunFacts DEF RunLinked
<1>3. transfers[t].status = "WaitingConfirmation"
  BY <1>2, KnownRun DEF CheckBlockConfirmation, RunKnows, LooksAtAll
<1>4. ASSUME NEW status \in {"Success", "Failed"}, SetStatus(w[1], status)
      PROVE  LifeCycle
  <2>1. /\ status \in TransferStatuses /\ SetStatus(t, status)
        /\ Follows(transfers[t].status, status)
    BY <1>2, <1>3, <1>4 DEF TransferStatuses, Follows
  <2> QED
    BY <2>1, StatusMoves
<1>5. CASE UNCHANGED transfers
  BY <1>5, SameStatuses
<1> QED
  BY <1>1, <1>4, <1>5

LEMMA MarkProcessingLife ==
    ASSUME TInv, PInv, NEW r \in Runs, MarkProcessing(r)
    PROVE  LifeCycle
<1>1. PICK t \in DOMAIN transfers : t = job[r].transfer
  BY PickedTransfer DEF MarkProcessing
<1>2. SetStatus(t, "Processing") /\ transfers[t].status = "Enqueued"
  BY <1>1, KnownRun DEF MarkProcessing, RunKnows
<1>3. "Processing" \in TransferStatuses /\ Follows(transfers[t].status, "Processing")
  BY <1>2 DEF TransferStatuses, Follows
<1> QED
  BY <1>2, <1>3, StatusMoves

LEMMA RecordFailedLife ==
    ASSUME TInv, PInv, NEW r \in Runs, RecordFailed(r)
    PROVE  LifeCycle
<1>1. PICK t \in DOMAIN transfers : t = job[r].transfer
  BY PickedTransfer DEF RecordFailed
<1>2. SetStatus(t, "Failed") /\ transfers[t].status = "Processing"
  BY <1>1, KnownRun DEF RecordFailed, RunKnows
<1>3. "Failed" \in TransferStatuses /\ Follows(transfers[t].status, "Failed")
  BY <1>2 DEF TransferStatuses, Follows
<1> QED
  BY <1>2, <1>3, StatusMoves

LEMMA RecordSentLife ==
    ASSUME TInv, PInv, NEW r \in Runs, RecordSent(r)
    PROVE  LifeCycle
<1>1. PICK t \in DOMAIN transfers : t = job[r].transfer
  BY PickedTransfer DEF RecordSent
<1>2. job[r].hash \in Nat /\ transfers[t] \in TransferRow
  BY RunFacts, Positions DEF TInv, Run
<1>3. PICK row : row = [transfers[t] EXCEPT !.status = "WaitingConfirmation",
                                            !.hash = job[r].hash]
  OBVIOUS
<1>4. row \in TransferRow /\ row.status = "WaitingConfirmation"
  BY <1>2, <1>3 DEF TransferRow, TransferStatuses
<1>5. transfers' = [transfers EXCEPT ![t] = row]
  BY <1>1, <1>3 DEF RecordSent
<1>6. Follows(transfers[t].status, row.status)
  BY <1>1, <1>4, KnownRun DEF RecordSent, RunKnows, Follows
<1> QED
  BY <1>4, <1>5, <1>6, OneStatusMoves

LEMMA StepLife == TInv /\ PInv /\ [Next]_vars => LifeCycle
<1> SUFFICES ASSUME TInv, PInv, [Next]_vars PROVE LifeCycle
  OBVIOUS
<1>1. CASE UNCHANGED vars
  BY <1>1, SameStatuses DEF vars, tables
<1>2. ASSUME NEW u \in Users, NEW amount \in TransferAmounts, BeginTransfer(u, amount)
      PROVE  LifeCycle
  BY <1>2, SameStatuses DEF BeginTransfer, tables
<1>3. ASSUME NEW u \in Users, NEW amount \in LockupAmounts, NEW kind \in {"early", "lockup"},
             BeginLockup(u, amount, kind)
      PROVE  LifeCycle
  BY <1>3, SameStatuses DEF BeginLockup, tables
<1>4. ASSUME NEW u \in Users, RequestStep(u)
      PROVE  LifeCycle
  BY <1>4, SameStatuses, InsertTransferLife
     DEF RequestStep, AnswerTransfer, CheckLockup, DateLockup, InsertLockup, AnswerLockup,
         tables
<1>5. ASSUME NEW c \in Confirmers, NEW t \in DOMAIN transfers, CheckConfirm(c, t)
      PROVE  LifeCycle
  BY <1>5, SameStatuses DEF CheckConfirm, tables
<1>6. ASSUME NEW c \in Confirmers, NEW k \in DOMAIN lockups, CheckConfirmLockup(c, k)
      PROVE  LifeCycle
  BY <1>6, SameStatuses DEF CheckConfirmLockup, tables
<1>7. ASSUME NEW c \in Confirmers, ConfirmStep(c)
      PROVE  LifeCycle
  BY <1>7, SameStatuses, WriteConfirmLife DEF ConfirmStep, WriteConfirmLockup
<1>8. ASSUME NEW r \in Runs, RunStep(r)
      PROVE  LifeCycle
  BY <1>8, SameStatuses, CheckBlockConfirmationLife, MarkProcessingLife, RecordFailedLife,
     RecordSentLife
     DEF RunStep, StartRun, ReadTasks, ReadProcessing, CreateTask, PickTransfer, CheckBalance,
         CreditRefused, CreditSent, CreditUnanswered, EndTask, tables
<1>9. CASE ChainStep \/ \E i \in DOMAIN chain : Reorg(i)
  BY <1>9, SameStatuses DEF ChainStep, Include, Bury, Reorg, SetState, tables
<1>10. CASE Tick \/ Crash
  BY <1>10, SameStatuses DEF Tick, Crash, tables
<1> QED
  BY <1>1, <1>2, <1>3, <1>4, <1>5, <1>6, <1>7, <1>8, <1>9, <1>10 DEF Next

(* Under the same condition a transfer that has succeeded, failed or expired never changes
   again: no run settles what another has settled, no confirmation revives it. *)
THEOREM SettledStays == Spec /\ []OneRun /\ []OneConfirmation => SettledIsFinal
<1>1. TInv /\ PInv /\ [Next]_vars =>
        [\A t \in DOMAIN transfers :
            transfers[t].status \in {"Success", "Failed", "Expired"}
                => transfers'[t].status = transfers[t].status]_vars
  BY StepLife DEF LifeCycle, Follows
<1> QED
  BY <1>1, TypeInvariant, PaymentsInvariant, PTL DEF Spec, SettledIsFinal

-----------------------------------------------------------------------------
(* Balances: nobody comes to owe tokens unless one of the three ways of InTime is taken *)

\* Only an early lockup has a vest, and every lockup has an amount with a bonus.
RequestInOrder(u) ==
    /\ request[u].kind # "early" => request[u].vest = 0
    /\ request[u].kind # "transfer" => request[u].amount \in LockupAmounts

LockupsInOrder == \A k \in DOMAIN lockups : lockups[k].amount \in LockupAmounts

OInv == LockupsInOrder /\ \A u \in Users : RequestInOrder(u)

LEMMA InitOrdered == Init => OInv
BY DEF Init, OInv, LockupsInOrder, RequestInOrder, NoRequest

LEMMA StepOrdered == TInv /\ OInv /\ [Next]_vars => OInv'
<1> SUFFICES ASSUME TInv, OInv, [Next]_vars
             PROVE  OInv'
  OBVIOUS
<1>1. /\ request \in [Users -> Request] /\ lockups \in Seq(LockupRow)
      /\ \A u \in Users : request[u] \in Request
      /\ \A k \in DOMAIN lockups : lockups[k] \in LockupRow
  BY Positions DEF TInv, Typed
<1>2. ASSUME LockupsInOrder', \A u \in Users : request'[u] \in {request[u], NoRequest}
      PROVE  OInv'
  BY <1>2 DEF OInv, RequestInOrder, NoRequest
<1>3. CASE UNCHANGED <<lockups, request>>
  BY <1>2, <1>3 DEF OInv, LockupsInOrder
<1>4. ASSUME NEW u \in Users, NEW amount \in TransferAmounts, BeginTransfer(u, amount)
      PROVE  OInv'
  BY <1>1, <1>4 DEF BeginTransfer, tables, OInv, LockupsInOrder, RequestInOrder
<1>5. ASSUME NEW u \in Users, NEW amount \in LockupAmounts, NEW kind \in {"early", "lockup"},
             BeginLockup(u, amount, kind)
      PROVE  OInv'
  BY <1>1, <1>5 DEF BeginLockup, tables, OInv, LockupsInOrder, RequestInOrder
<1>6. ASSUME NEW u \in Users, AnswerTransfer(u) \/ AnswerLockup(u) \/ (CheckLockup(u) /\ Release(u))
      PROVE  OInv'
  <2>1. lockups' = lockups /\ Release(u)
    BY <1>6 DEF AnswerTransfer, AnswerLockup, CheckLockup, tables
  <2> QED
    BY <1>1, <1>2, <2>1 DEF Release, OInv, LockupsInOrder
<1>7. ASSUME NEW u \in Users, NEW stage, Stage(u, stage), LockupsInOrder'
      PROVE  OInv'
  BY <1>1, <1>7 DEF Stage, OInv, RequestInOrder, Request
<1>8. ASSUME NEW u \in Users, InsertTransfer(u) \/ (CheckLockup(u) /\ Stage(u, "checked"))
      PROVE  OInv'
  BY <1>7, <1>8 DEF InsertTransfer, CheckLockup, tables, OInv, LockupsInOrder
<1>9. ASSUME NEW u \in Users, DateLockup(u)
      PROVE  OInv'
  BY <1>1, <1>9 DEF DateLockup, tables, OInv, LockupsInOrder, RequestInOrder, Request
<1>10. ASSUME NEW u \in Users, InsertLockup(u)
       PROVE  OInv'
  <2>1. PICK row : /\ lockups' = Append(lockups, row) /\ row.amount = request[u].amount
                   /\ Stage(u, "inserted")
    BY <1>10 DEF InsertLockup
  <2>2. row.amount \in LockupAmounts
    BY <1>10, <2>1 DEF InsertLockup, OInv, RequestInOrder
  <2>3. LockupsInOrder'
    BY <1>1, <2>1, <2>2 DEF OInv, LockupsInOrder
  <2> QED
    BY <1>7, <2>1, <2>3
<1>11. ASSUME NEW c \in Confirmers, WriteConfirmLockup(c)
       PROVE  OInv'
  <2>1. PICK k : lockups' = [lockups EXCEPT ![k] = [lockups[k] EXCEPT !.confirmed = TRUE]]
    BY <1>11 DEF WriteConfirmLockup
  <2>2. LockupsInOrder'
    BY <1>1, <2>1 DEF OInv, LockupsInOrder, LockupRow
  <2> QED
    BY <1>2, <1>11, <2>2 DEF WriteConfirmLockup
<1>12. CASE Crash
  BY <1>1, <1>2, <1>12 DEF Crash, tables, OInv, LockupsInOrder
<1>13. ASSUME \/ \E c \in Confirmers : \/ WriteConfirm(c)
                                       \/ \E t \in DOMAIN transfers : CheckConfirm(c, t)
                                       \/ \E k \in DOMAIN lockups : CheckConfirmLockup(c, k)
              \/ \E r \in Runs : RunStep(r)
              \/ ChainStep \/ (\E i \in DOMAIN chain : Reorg(i)) \/ Tick \/ UNCHANGED vars
       PROVE  OInv'
  <2>1. CASE \E r \in Runs : RunStep(r)
    BY <1>3, <2>1
       DEF RunStep, StartRun, CheckBlockConfirmation, ReadTasks, ReadProcessing, CreateTask,
           PickTransfer, CheckBalance, MarkProcessing, CreditRefused, CreditSent,
           CreditUnanswered, RecordFailed, RecordSent, EndTask, tables
  <2> QED
    BY <1>3, <1>13, <2>1
       DEF WriteConfirm, CheckConfirm, CheckConfirmLockup, ChainStep, Include, Bury, Reorg,
           SetState, Tick, tables, server, vars
<1>14. ASSUME NEW u \in Users, RequestStep(u)
       PROVE  OInv'
  BY <1>6, <1>8, <1>9, <1>10, <1>14 DEF RequestStep, CheckLockup
<1> QED
  BY <1>4, <1>5, <1>11, <1>12, <1>13, <1>14 DEF Next, ConfirmStep

\* The date of the next vest that does come, 0 when there is none, and its tokens.
ComingVest(u) == IF NextVest(u) <= Cancelled[u] THEN NextVest(u) ELSE 0
NextAmount(u) == IF ComingVest(u) = 0 THEN 0 ELSE Vests[u][ComingVest(u)]

\* A request has been granted tokens, and they are not written to a row yet ...
FromBalance(u) ==
    \/ request[u].kind # "early" /\ request[u].stage = "checked"
    \/ request[u].kind = "early" /\ request[u].stage = "checked" /\ NextVest(u) = 0
    \/ /\ request[u].kind = "early" /\ request[u].stage = "dated"
       /\ request[u].vest <= now /\ request[u].vest <= Cancelled[u]
FromVest(u) ==
    \/ request[u].kind = "early" /\ request[u].stage = "checked" /\ ComingVest(u) # 0
    \/ /\ request[u].kind = "early" /\ request[u].stage = "dated"
       /\ request[u].vest > now /\ request[u].vest <= Cancelled[u]

\* ... of the balance, and of the vest to come; a lockup from a vest that came, or was the
\* last one, while it was under way takes its tokens of the balance.
Reserved(u)      == IF FromBalance(u) THEN request[u].amount ELSE 0
EarlyReserved(u) == IF FromVest(u) THEN request[u].amount ELSE 0

\* The balance covers what is granted, and the vest to come covers the early lockups, all
\* of which are of this vest.
BalanceCovers(u) == Available(u) >= Reserved(u)
VestCovers(u)    == NextVestLocked(u) + EarlyReserved(u) <= NextAmount(u)
DatedInOrder(u) ==
    request[u].stage = "dated" /\ request[u].vest > now /\ request[u].vest <= Cancelled[u]
        => request[u].vest = ComingVest(u)
OfNextVest(u) ==
    /\ \A k \in DOMAIN lockups :
            lockups[k].user = u /\ BeforeVest(lockups[k]) => lockups[k].vest = ComingVest(u)
    /\ DatedInOrder(u)

UserCovered(u) == BalanceCovers(u) /\ VestCovers(u) /\ OfNextVest(u)

BInv == \A u \in Users : UserCovered(u)

\* Sums over the rows of a table.
LEMMA SumType ==
    ASSUME NEW S, \A e \in S : e.amount \in Nat, NEW rows \in Seq(S), NEW ids
    PROVE  /\ Sum(rows, ids) \in Nat
           /\ IsFiniteSet(DOMAIN rows)
           /\ [i \in DOMAIN rows |-> IF i \in ids THEN rows[i].amount ELSE 0]
                    \in [DOMAIN rows -> Nat]
<1>1. /\ Len(rows) \in Nat /\ DOMAIN rows = 1 .. Len(rows)
      /\ \A i \in DOMAIN rows : rows[i].amount \in Nat
  BY Elements
<1>2. IsFiniteSet(DOMAIN rows)
  BY <1>1, FS_Interval
<1>3. [i \in DOMAIN rows |-> IF i \in ids THEN rows[i].amount ELSE 0] \in [DOMAIN rows -> Nat]
  BY <1>1
<1> QED
  BY <1>2, <1>3, TotalType DEF Sum

\* Rows rewritten with their amounts: those that count are no more than before.
LEMMA SumCovered ==
    ASSUME NEW S, \A e \in S : e.amount \in Nat, NEW rows \in Seq(S), NEW new \in Seq(S),
           DOMAIN new = DOMAIN rows, \A i \in DOMAIN rows : new[i].amount = rows[i].amount,
           NEW ids, NEW a, NEW b, \A i \in DOMAIN rows : i \in ids => i \in a \/ i \in b
    PROVE  Sum(new, ids) <= Sum(rows, a) + Sum(rows, b)
<1> DEFINE h == [i \in DOMAIN new |-> IF i \in ids THEN new[i].amount ELSE 0]
           f == [i \in DOMAIN rows |-> IF i \in a THEN rows[i].amount ELSE 0]
           g == [i \in DOMAIN rows |-> IF i \in b THEN rows[i].amount ELSE 0]
<1>1. IsFiniteSet(DOMAIN rows) /\ f \in [DOMAIN rows -> Nat] /\ g \in [DOMAIN rows -> Nat]
  BY SumType
<1>2. h \in [DOMAIN rows -> Nat]
  BY SumType
<1>3. \A i \in DOMAIN rows : rows[i].amount \in Nat
  BY Elements
<1>4. \A i \in DOMAIN rows : h[i] <= f[i] \/ h[i] <= g[i]
  BY <1>3
<1>5. Sum(new, ids) = Total(h) /\ Sum(rows, a) = Total(f) /\ Sum(rows, b) = Total(g)
  BY DEF Sum
<1> HIDE DEF h, f, g
<1> QED
  BY <1>1, <1>2, <1>4, <1>5, TotalCovered

LEMMA SumNothing ==
    ASSUME NEW rows
    PROVE  Sum(rows, {}) = 0
<1>1. [i \in DOMAIN rows |-> IF i \in {} THEN rows[i].amount ELSE 0] = [i \in DOMAIN rows |-> 0]
  OBVIOUS
<1> QED
  BY <1>1, TotalZero DEF Sum

LEMMA SumWithin ==
    ASSUME NEW S, \A e \in S : e.amount \in Nat, NEW rows \in Seq(S), NEW new \in Seq(S),
           DOMAIN new = DOMAIN rows, \A i \in DOMAIN rows : new[i].amount = rows[i].amount,
           NEW ids, NEW a, \A i \in DOMAIN rows : i \in ids => i \in a
    PROVE  Sum(new, ids) <= Sum(rows, a)
<1>1. Sum(new, ids) <= Sum(rows, a) + Sum(rows, {})
  BY SumCovered
<1> QED
  BY <1>1, SumNothing, SumType

\* A row added at the end adds its amount if it counts.
LEMMA SumAppended ==
    ASSUME NEW S, \A e \in S : e.amount \in Nat, NEW rows, rows \in Seq(S), NEW row, row \in S,
           NEW ids, NEW a, \A i \in DOMAIN rows : i \in ids => i \in a
    PROVE  Sum(Append(rows, row), ids)
                <= Sum(rows, a) + (IF Len(rows) + 1 \in ids THEN row.amount ELSE 0)
<1>1. PICK new : new = Append(rows, row)
  OBVIOUS
<1>2. PICK x : x = Len(rows) + 1
  OBVIOUS
<1>3. /\ new \in Seq(S) /\ x \notin DOMAIN rows /\ DOMAIN new = DOMAIN rows \cup {x}
      /\ new[x] = row /\ \A i \in DOMAIN rows : new[i] = rows[i]
  BY <1>1, <1>2, AddElement
<1> DEFINE g == [i \in DOMAIN new |-> IF i \in ids THEN new[i].amount ELSE 0]
           f == [i \in DOMAIN rows |-> IF i \in ids THEN rows[i].amount ELSE 0]
<1>4. IsFiniteSet(DOMAIN rows) /\ f \in [DOMAIN rows -> Nat]
  BY SumType
<1>5. g \in [DOMAIN rows \cup {x} -> Nat]
  BY <1>3, SumType
<1>6. \A i \in DOMAIN rows : g[i] = f[i]
  BY <1>3
<1>7. g[x] = IF x \in ids THEN row.amount ELSE 0
  BY <1>3
<1>8. Sum(new, ids) = Total(g) /\ Sum(rows, ids) = Total(f)
  BY DEF Sum
<1> HIDE DEF f, g
<1>9. Total(g) = Total(f) + g[x]
  <2>1. PICK D, T : D = DOMAIN rows /\ T = D \cup {x}
    OBVIOUS
  <2>2. /\ IsFiniteSet(D) /\ x \notin D /\ T = D \cup {x}
        /\ f \in [D -> Nat] /\ g \in [T -> Nat]
        /\ \A i \in D : g[i] = f[i]
    BY ONLY <1>3, <1>4, <1>5, <1>6, <2>1
  <2> QED
    BY ONLY <2>2, TotalExtend
<1>10. Sum(rows, ids) <= Sum(rows, a)
  BY SumWithin
<1>11. Sum(rows, ids) \in Nat /\ Sum(rows, a) \in Nat /\ row.amount \in Nat
  BY SumType
<1> QED
  BY <1>1, <1>2, <1>7, <1>8, <1>9, <1>10, <1>11

LEMMA RowAmounts ==
    /\ \A e \in TransferRow : e.amount \in Nat
    /\ \A e \in LockupRow : e.amount \in Nat
BY DEF TransferRow, LockupRow

\* What a lockup has earned its user.
EarnedBy(u, k) == IF k.user = u /\ k.confirmed /\ k.end <= now THEN Earning[k.amount] ELSE 0

EarningsTyped(u) ==
    /\ IsFiniteSet(DOMAIN lockups)
    /\ [i \in DOMAIN lockups |-> EarnedBy(u, lockups[i])] \in [DOMAIN lockups -> Nat]
    /\ UnlockedEarnings(u) = Total([i \in DOMAIN lockups |-> EarnedBy(u, lockups[i])])

LEMMA Earnings ==
    ASSUME TInv, OInv, NEW u \in Users
    PROVE  EarningsTyped(u)
<1>1. lockups \in Seq(LockupRow)
  BY DEF TInv, Typed
<1>2. IsFiniteSet(DOMAIN lockups)
  BY <1>1, SumType, RowAmounts
<1>3. \A i \in DOMAIN lockups : EarnedBy(u, lockups[i]) \in Nat
  BY TableAssumption DEF OInv, LockupsInOrder, EarnedBy
<1> QED
  BY <1>2, <1>3 DEF UnlockedEarnings, EarnedBy, EarningsTyped

\* What vests at a date, if the date has come.
VestedAt(u) == [d \in DOMAIN Vests[u] |-> IF HasVested(u, d) THEN Vests[u][d] ELSE 0]

LEMMA Vestings ==
    ASSUME NEW u \in Users
    PROVE  /\ IsFiniteSet(DOMAIN Vests[u])
           /\ VestedAt(u) \in [DOMAIN Vests[u] -> Nat]
           /\ Vested(u) = Total(VestedAt(u))
BY TableAssumption DEF Vested, VestedAt

AmountsTyped(u) ==
    /\ Vested(u) \in Nat /\ UnlockedEarnings(u) \in Nat
    /\ Withdrawn(u) \in Nat /\ Locked(u) \in Nat /\ NextVestLocked(u) \in Nat
    /\ Available(u) \in Int

LEMMA Amounts ==
    ASSUME TInv, OInv, NEW u \in Users
    PROVE  AmountsTyped(u)
<1>1. Vested(u) \in Nat
  BY Vestings, TotalType
<1>2. UnlockedEarnings(u) \in Nat
  BY Earnings, TotalType DEF EarningsTyped
<1>3. transfers \in Seq(TransferRow) /\ lockups \in Seq(LockupRow)
  BY DEF TInv, Typed
<1>4. Withdrawn(u) \in Nat
  BY <1>3, SumType, RowAmounts DEF Withdrawn
<1>5. Locked(u) \in Nat /\ NextVestLocked(u) \in Nat
  BY <1>3, SumType, RowAmounts DEF Locked, NextVestLocked
<1> QED
  BY <1>1, <1>2, <1>4, <1>5 DEF Available, AmountsTyped

\* The same in the next state.
LEMMA AmountsNext ==
    TInv' /\ OInv' => \A u \in Users : AmountsTyped(u)' /\ EarningsTyped(u)'
<1>1. TInv /\ OInv => \A u \in Users : AmountsTyped(u) /\ EarningsTyped(u)
  BY Amounts, Earnings
<1>2. (TInv /\ OInv)' => (\A u \in Users : AmountsTyped(u) /\ EarningsTyped(u))'
  BY <1>1, PTL
<1> QED
  BY <1>2

\* The vest to come, if there is one, is still to come, and no other comes before it.
LEMMA NextVestComes ==
    ASSUME NEW u \in Users, now \in Nat
    PROVE  /\ ComingVest(u) # 0 =>
                /\ ComingVest(u) \in DOMAIN Vests[u] /\ ComingVest(u) > now
                /\ ComingVest(u) <= Cancelled[u] /\ ComingVest(u) = NextVest(u)
                /\ NextAmount(u) = Vests[u][ComingVest(u)]
           /\ \A d \in DOMAIN Vests[u] :
                d > now /\ d <= Cancelled[u] => ComingVest(u) # 0 /\ ComingVest(u) <= d
           /\ ComingVest(u) = 0 => NextVest(u) = 0 \/ NextVest(u) > Cancelled[u]
           /\ NextVest(u) \in Nat /\ ComingVest(u) \in Nat /\ NextAmount(u) \in Nat
<1> DEFINE dates == {d \in DOMAIN Vests[u] : ~HasVested(u, d)}
<1>1. /\ dates \subseteq Nat /\ Cancelled[u] \in Nat
      /\ \A d \in DOMAIN Vests[u] : d \in Nat /\ Vests[u][d] \in Nat
  BY TableAssumption
<1>2. NextVest(u) = IF dates = {} THEN 0 ELSE CHOOSE d \in dates : \A e \in dates : d <= e
  BY DEF NextVest
<1>3. \A d \in DOMAIN Vests[u] : d \in dates <=> d > now \/ d > Cancelled[u]
  BY <1>1 DEF HasVested
<1>4. dates \subseteq DOMAIN Vests[u]
  OBVIOUS
<1> HIDE DEF dates
<1>5. CASE dates # {}
  <2>1. \E d \in dates : \A e \in dates : d <= e
    BY <1>1, <1>5, SmallestOf
  <2>2. NextVest(u) \in dates /\ \A e \in dates : NextVest(u) <= e
    BY <1>2, <1>5, <2>1
  <2>3. PICK n : n = NextVest(u)
    OBVIOUS
  <2>4. n \in Nat /\ n \in DOMAIN Vests[u] /\ (n > now \/ n > Cancelled[u])
    BY <1>1, <1>3, <1>4, <2>2, <2>3
  <2>5. ComingVest(u) = IF n <= Cancelled[u] THEN n ELSE 0
    BY <2>3 DEF ComingVest
  <2>6. \A d \in DOMAIN Vests[u] : d > now /\ d <= Cancelled[u] => n # 0 /\ n <= d
    BY <1>1, <1>3, <2>2, <2>3, <2>4
  <2>7. \A d \in DOMAIN Vests[u] :
                d > now /\ d <= Cancelled[u] => ComingVest(u) # 0 /\ ComingVest(u) <= d
    BY <1>1, <2>4, <2>5, <2>6
  <2>8. NextAmount(u) = IF ComingVest(u) = 0 THEN 0 ELSE Vests[u][ComingVest(u)]
    BY DEF NextAmount
  <2> QED
    BY <1>1, <2>3, <2>4, <2>5, <2>7, <2>8
<1>6. CASE dates = {}
  <2>1. NextVest(u) = 0 /\ ComingVest(u) = 0 /\ NextAmount(u) = 0
    BY <1>1, <1>2, <1>6 DEF ComingVest, NextAmount
  <2>2. \A d \in DOMAIN Vests[u] : ~(d > now)
    BY <1>3, <1>6
  <2> QED
    BY <2>1, <2>2
<1> QED
  BY <1>5, <1>6

\* The transfers there are stay, and none counts that did not count before.
RowsKept ==
    /\ DOMAIN transfers' = DOMAIN transfers
    /\ \A i \in DOMAIN transfers :
            /\ transfers'[i].user = transfers[i].user
            /\ transfers'[i].amount = transfers[i].amount
            /\ transfers'[i].createdAt = transfers[i].createdAt
            /\ Counts(transfers[i])' => Counts(transfers[i])

\* The lockups there are stay, and none that was confirmed is not.
LockupsKept ==
    /\ DOMAIN lockups' = DOMAIN lockups
    /\ \A i \in DOMAIN lockups :
            /\ lockups'[i].user = lockups[i].user
            /\ lockups'[i].amount = lockups[i].amount
            /\ lockups'[i].vest = lockups[i].vest
            /\ lockups'[i].end = lockups[i].end
            /\ lockups[i].confirmed => lockups'[i].confirmed

LEMMA NothingMoved ==
    ASSUME now' = now
    PROVE  /\ transfers' = transfers => RowsKept
           /\ lockups' = lockups => LockupsKept
BY DEF RowsKept, LockupsKept, Counts, TransferHasExpired

LEMMA WithdrawnBy ==
    ASSUME NEW u
    PROVE  Withdrawn(u) =
            Sum(transfers, {i \in DOMAIN transfers : transfers[i].user = u /\ Counts(transfers[i])})
BY DEF Withdrawn, Counts

LEMMA WithdrawnNoMore ==
    ASSUME TInv, TInv', RowsKept, NEW u \in Users
    PROVE  Withdrawn(u)' <= Withdrawn(u)
<1> DEFINE ids == {i \in DOMAIN transfers : transfers[i].user = u /\ Counts(transfers[i])}
<1>1. PICK after : after = ids'
  OBVIOUS
<1>2. Withdrawn(u) = Sum(transfers, ids)
  BY WithdrawnBy
<1>3. Withdrawn(u)' = Sum(transfers', after)
  BY <1>1 DEF Withdrawn, Counts
<1>4. transfers \in Seq(TransferRow) /\ transfers' \in Seq(TransferRow)
  BY DEF TInv, Typed
<1>5. \A i \in DOMAIN transfers : i \in after => i \in ids
  BY <1>1 DEF RowsKept
<1>6. /\ DOMAIN transfers' = DOMAIN transfers
      /\ \A i \in DOMAIN transfers : transfers'[i].amount = transfers[i].amount
  BY DEF RowsKept
<1> HIDE DEF ids
<1>7. Sum(transfers', after) <= Sum(transfers, ids)
  BY ONLY <1>4, <1>5, <1>6, RowAmounts, SumWithin
<1> QED
  BY <1>2, <1>3, <1>7

LEMMA LockedNoMore ==
    ASSUME TInv, TInv', now' = now, LockupsKept, NEW u \in Users
    PROVE  Locked(u)' <= Locked(u) /\ NextVestLocked(u)' <= NextVestLocked(u)
<1> DEFINE a == {i \in DOMAIN lockups : /\ lockups[i].user = u
                                        /\ ~BeforeVest(lockups[i]) /\ now < lockups[i].end}
           b == {i \in DOMAIN lockups : lockups[i].user = u /\ BeforeVest(lockups[i])}
<1>1. PICK a2, b2 : a2 = a' /\ b2 = b'
  OBVIOUS
<1>2. Locked(u) = Sum(lockups, a) /\ NextVestLocked(u) = Sum(lockups, b)
  BY DEF Locked, NextVestLocked
<1>3. Locked(u)' = Sum(lockups', a2) /\ NextVestLocked(u)' = Sum(lockups', b2)
  BY <1>1 DEF Locked, NextVestLocked
<1>4. lockups \in Seq(LockupRow) /\ lockups' \in Seq(LockupRow)
  BY DEF TInv, Typed
<1>5. \A i \in DOMAIN lockups : (i \in a2 => i \in a) /\ (i \in b2 => i \in b)
  BY <1>1 DEF LockupsKept, BeforeVest
<1>6. /\ DOMAIN lockups' = DOMAIN lockups
      /\ \A i \in DOMAIN lockups : lockups'[i].amount = lockups[i].amount
  BY DEF LockupsKept
<1> HIDE DEF a, b
<1>7. Sum(lockups', a2) <= Sum(lockups, a) /\ Sum(lockups', b2) <= Sum(lockups, b)
  BY ONLY <1>4, <1>5, <1>6, RowAmounts, SumWithin
<1> QED
  BY <1>2, <1>3, <1>7

LEMMA EarnedNoLess ==
    ASSUME TInv, TInv', now' = now, LockupsKept, OInv, OInv', NEW u \in Users
    PROVE  UnlockedEarnings(u)' >= UnlockedEarnings(u)
<1> DEFINE f == [i \in DOMAIN lockups |-> EarnedBy(u, lockups[i])]
<1>1. PICK g : g = f'
  OBVIOUS
<1>2. /\ IsFiniteSet(DOMAIN lockups) /\ f \in [DOMAIN lockups -> Nat]
      /\ UnlockedEarnings(u) = Total(f)
  BY Earnings DEF EarningsTyped
<1>3. g \in [DOMAIN lockups' -> Nat] /\ UnlockedEarnings(u)' = Total(g)
  BY <1>1, AmountsNext DEF EarningsTyped
<1>4. DOMAIN lockups' = DOMAIN lockups
  BY DEF LockupsKept
<1>5. \A i \in DOMAIN lockups : f[i] <= g[i]
  <2> SUFFICES ASSUME NEW i \in DOMAIN lockups PROVE f[i] <= g[i]
    OBVIOUS
  <2>1. f[i] = EarnedBy(u, lockups[i]) /\ g[i] = EarnedBy(u, lockups[i])'
    BY <1>1, <1>4
  <2>2. f[i] \in Nat /\ g[i] \in Nat
    BY <1>2, <1>3, <1>4
  <2> QED
    BY <2>1, <2>2 DEF LockupsKept, EarnedBy
<1> HIDE DEF f
<1> QED
  BY <1>2, <1>3, <1>4, <1>5, TotalMonotone

LEMMA SameMinute ==
    ASSUME now' = now, NEW u
    PROVE  /\ Vested(u)' = Vested(u) /\ NextVest(u)' = NextVest(u)
           /\ ComingVest(u)' = ComingVest(u) /\ NextAmount(u)' = NextAmount(u)
BY DEF Vested, NextVest, ComingVest, NextAmount, HasVested

\* A step of the minute that adds no row leaves every user covered whose requests ask
\* for what they may.
LEMMA UserStaysCovered ==
    ASSUME TInv, TInv', OInv, OInv', now' = now, RowsKept, LockupsKept,
           NEW u \in Users, UserCovered(u),
           Reserved(u)' <= Available(u),
           NextVestLocked(u) + EarlyReserved(u)' <= NextAmount(u),
           DatedInOrder(u)'
    PROVE  UserCovered(u)'
<1>1. AmountsTyped(u) /\ AmountsTyped(u)'
  BY Amounts, AmountsNext
<1>2. /\ Vested(u)' = Vested(u) /\ NextAmount(u)' = NextAmount(u)
      /\ ComingVest(u)' = ComingVest(u)
  BY SameMinute
<1>3. /\ UnlockedEarnings(u)' >= UnlockedEarnings(u) /\ Withdrawn(u)' <= Withdrawn(u)
      /\ Locked(u)' <= Locked(u) /\ NextVestLocked(u)' <= NextVestLocked(u)
  BY EarnedNoLess, WithdrawnNoMore, LockedNoMore
<1>4. Reserved(u)' \in Nat /\ EarlyReserved(u)' \in Nat
  BY DEF Reserved, EarlyReserved, TInv, Typed, Request
<1>5. NextAmount(u) \in Nat
  BY NextVestComes DEF TInv, Typed
<1>6. BalanceCovers(u)'
  BY <1>1, <1>2, <1>3, <1>4 DEF AmountsTyped, BalanceCovers, Available
<1>7. VestCovers(u)'
  BY <1>1, <1>2, <1>3, <1>4, <1>5 DEF AmountsTyped, VestCovers
<1>8. OfNextVest(u)'
  BY <1>2 DEF UserCovered, OfNextVest, LockupsKept, BeforeVest
<1> QED
  BY <1>6, <1>7, <1>8 DEF UserCovered

\* Most steps leave the request of a user alone, or end it.
LEMMA UserLeftAlone ==
    ASSUME TInv, TInv', OInv, OInv', now' = now, RowsKept, LockupsKept,
           NEW u \in Users, UserCovered(u), request'[u] \in {request[u], NoRequest}
    PROVE  UserCovered(u)'
<1>1. request[u] \in Request
  BY DEF TInv, Typed
<1>2. /\ Available(u) \in Int /\ NextVestLocked(u) \in Nat /\ NextAmount(u) \in Nat
      /\ Reserved(u) \in Nat /\ EarlyReserved(u) \in Nat
  BY <1>1, Amounts, NextVestComes DEF AmountsTyped, TInv, Typed, Reserved, EarlyReserved, Request
<1>3. NextVest(u)' = NextVest(u) /\ ComingVest(u)' = ComingVest(u)
  BY SameMinute
<1>4. /\ Reserved(u)' \in {0, Reserved(u)} /\ EarlyReserved(u)' \in {0, EarlyReserved(u)}
      /\ DatedInOrder(u)'
  <2>1. CASE request'[u] = request[u]
    <3>1. (FromBalance(u)' <=> FromBalance(u)) /\ (FromVest(u)' <=> FromVest(u))
      BY <1>3, <2>1 DEF FromBalance, FromVest
    <3> QED
      BY <1>3, <2>1, <3>1 DEF Reserved, EarlyReserved, UserCovered, OfNextVest, DatedInOrder
  <2>2. CASE request'[u] = NoRequest
    BY <2>2 DEF Reserved, EarlyReserved, FromBalance, FromVest, DatedInOrder, NoRequest
  <2> QED
    BY <2>1, <2>2
<1>5. /\ Available(u) >= Reserved(u)
      /\ NextVestLocked(u) + EarlyReserved(u) <= NextAmount(u)
  BY DEF UserCovered, BalanceCovers, VestCovers
<1>6. /\ Reserved(u)' <= Available(u)
      /\ NextVestLocked(u) + EarlyReserved(u)' <= NextAmount(u)
  BY <1>2, <1>4, <1>5
<1> QED
  BY <1>4, <1>6, UserStaysCovered

\* Steps that begin nothing and add no row.
LEMMA NothingBegun ==
    ASSUME TInv, TInv', OInv, OInv', BInv, now' = now, RowsKept, LockupsKept,
           \A u \in Users : request'[u] \in {request[u], NoRequest}
    PROVE  BInv'
BY UserLeftAlone DEF BInv

\* One request moves on, and asks for what it may.
LEMMA OneRequestMovesOn ==
    ASSUME TInv, TInv', OInv, OInv', BInv, UNCHANGED <<now, transfers, lockups>>,
           NEW u \in Users, \A v \in Users \ {u} : request'[v] = request[v],
           Reserved(u)' <= Available(u),
           NextVestLocked(u) + EarlyReserved(u)' <= NextAmount(u),
           DatedInOrder(u)'
    PROVE  BInv'
<1>1. RowsKept /\ LockupsKept
  BY NothingMoved
<1>2. UserCovered(u)'
  BY <1>1, UserStaysCovered DEF BInv
<1>3. ASSUME NEW v \in Users, v # u
      PROVE  UserCovered(v)'
  BY <1>1, <1>3, UserLeftAlone DEF BInv
<1> QED
  BY <1>2, <1>3 DEF BInv

\* What a user is covered for, in numbers.
LEMMA CoverFacts ==
    ASSUME TInv, OInv, BInv, NEW u \in Users
    PROVE  /\ request \in [Users -> Request] /\ request[u] \in Request
           /\ Available(u) \in Int /\ NextVestLocked(u) \in Nat
           /\ NextVest(u) \in Nat /\ NextAmount(u) \in Nat
           /\ 0 <= Available(u) /\ NextVestLocked(u) <= NextAmount(u)
<1>1. /\ request \in [Users -> Request] /\ request[u] \in Request
      /\ Available(u) \in Int /\ NextVestLocked(u) \in Nat
      /\ NextVest(u) \in Nat /\ NextAmount(u) \in Nat
  BY Amounts, NextVestComes DEF AmountsTyped, TInv, Typed
<1>2. Reserved(u) \in Nat /\ EarlyReserved(u) \in Nat
  BY <1>1 DEF Reserved, EarlyReserved, Request
<1>3. /\ Available(u) >= Reserved(u)
      /\ NextVestLocked(u) + EarlyReserved(u) <= NextAmount(u)
  BY DEF BInv, UserCovered, BalanceCovers, VestCovers
<1> QED
  BY <1>1, <1>2, <1>3

LEMMA BeginTransferCovered ==
    ASSUME TInv, TInv', OInv, OInv', BInv, NEW u \in Users, NEW amount \in TransferAmounts,
           BeginTransfer(u, amount)
    PROVE  BInv'
<1>1. /\ request \in [Users -> Request] /\ Available(u) \in Int
      /\ NextVestLocked(u) \in Nat /\ NextAmount(u) \in Nat /\ NextVestLocked(u) <= NextAmount(u)
  BY CoverFacts
<1>2. /\ UNCHANGED <<now, transfers, lockups>>
      /\ \A v \in Users \ {u} : request'[v] = request[v]
      /\ request'[u] = [stage |-> "checked", kind |-> "transfer", amount |-> amount, vest |-> 0]
      /\ amount <= Available(u)
  BY <1>1 DEF BeginTransfer, tables, CanWithdraw
<1>3. Reserved(u)' = amount /\ EarlyReserved(u)' = 0
  BY <1>2 DEF Reserved, EarlyReserved, FromBalance, FromVest
<1>4. DatedInOrder(u)'
  BY <1>2 DEF DatedInOrder
<1>5. /\ Reserved(u)' <= Available(u)
      /\ NextVestLocked(u) + EarlyReserved(u)' <= NextAmount(u)
  BY <1>1, <1>2, <1>3
<1> QED
  BY <1>2, <1>4, <1>5, OneRequestMovesOn

LEMMA BeginLockupCovered ==
    ASSUME TInv, TInv', OInv, OInv', BInv, NEW u \in Users, NEW amount \in LockupAmounts,
           NEW kind \in {"early", "lockup"}, BeginLockup(u, amount, kind)
    PROVE  BInv'
<1>1. /\ request \in [Users -> Request] /\ Available(u) \in Int /\ 0 <= Available(u)
      /\ NextVestLocked(u) \in Nat /\ NextAmount(u) \in Nat /\ NextVestLocked(u) <= NextAmount(u)
  BY CoverFacts
<1>2. /\ UNCHANGED <<now, transfers, lockups>>
      /\ \A v \in Users \ {u} : request'[v] = request[v]
      /\ request'[u] = [stage |-> "listed", kind |-> kind, amount |-> amount, vest |-> 0]
  BY <1>1 DEF BeginLockup, tables
<1>3. Reserved(u)' = 0 /\ EarlyReserved(u)' = 0
  BY <1>2 DEF Reserved, EarlyReserved, FromBalance, FromVest
<1>4. DatedInOrder(u)'
  BY <1>2 DEF DatedInOrder
<1>5. /\ Reserved(u)' <= Available(u)
      /\ NextVestLocked(u) + EarlyReserved(u)' <= NextAmount(u)
  BY <1>1, <1>3
<1> QED
  BY <1>2, <1>4, <1>5, OneRequestMovesOn

\* A request is given up or answered.
LEMMA ReleaseCovered ==
    ASSUME TInv, TInv', OInv, OInv', BInv, NEW u \in Users, Release(u),
           UNCHANGED <<now, transfers, lockups>>
    PROVE  BInv'
<1>1. request \in [Users -> Request]
  BY DEF TInv, Typed
<1>2. \A v \in Users : request'[v] \in {request[v], NoRequest}
  BY <1>1 DEF Release
<1>3. RowsKept /\ LockupsKept
  BY NothingMoved
<1> QED
  BY <1>2, <1>3, NothingBegun

LEMMA CheckLockupCovered ==
    ASSUME TInv, TInv', OInv, OInv', BInv, NEW u \in Users, CheckLockup(u)
    PROVE  BInv'
<1>1. /\ request \in [Users -> Request] /\ request[u] \in Request
      /\ Available(u) \in Int /\ 0 <= Available(u)
      /\ NextVestLocked(u) \in Nat /\ NextAmount(u) \in Nat /\ NextVestLocked(u) <= NextAmount(u)
  BY CoverFacts
<1>2. UNCHANGED <<now, transfers, lockups>> /\ request[u].stage = "listed"
  BY DEF CheckLockup, tables
<1>3. CASE Release(u)
  BY <1>2, <1>3, ReleaseCovered
<1>4. CASE /\ Stage(u, "checked")
           /\ IF request[u].kind = "early" THEN request[u].amount <= NextVestBalance(u)
              ELSE CanWithdraw(u, request[u].amount)
  <2>1. /\ \A v \in Users \ {u} : request'[v] = request[v]
        /\ request'[u] = [request[u] EXCEPT !.stage = "checked"]
    BY <1>1, <1>4 DEF Stage
  <2>2. /\ request'[u].stage = "checked" /\ request'[u].kind = request[u].kind
        /\ request'[u].amount = request[u].amount /\ request[u].amount \in Nat
    BY <1>1, <2>1 DEF Request
  <2>3. DatedInOrder(u)'
    BY <2>2 DEF DatedInOrder
  <2>4. CASE request[u].kind = "early"
    <3>1. /\ NextVest(u)' = NextVest(u) /\ ComingVest(u)' = ComingVest(u)
          /\ NextVest(u) \in Nat /\ Cancelled[u] \in Nat
      BY <1>1, <1>2, SameMinute, CoverFacts, TableAssumption
    <3>2. CASE NextVest(u) = 0
      <4>1. NextVestBalance(u) = 0 /\ ComingVest(u) = 0
        BY <3>2 DEF NextVestBalance, ComingVest
      <4>2. Reserved(u)' = request[u].amount /\ EarlyReserved(u)' = 0
        BY <2>2, <2>4, <3>1, <3>2, <4>1 DEF Reserved, EarlyReserved, FromBalance, FromVest
      <4>3. request[u].amount <= 0
        BY <1>4, <2>4, <4>1
      <4>4. /\ Reserved(u)' <= Available(u)
            /\ NextVestLocked(u) + EarlyReserved(u)' <= NextAmount(u)
        BY <1>1, <2>2, <4>2, <4>3
      <4> QED
        BY <1>2, <2>1, <2>3, <4>4, OneRequestMovesOn
    <3>3. CASE NextVest(u) # 0 /\ ComingVest(u) = 0
      <4>1. Reserved(u)' = 0 /\ EarlyReserved(u)' = 0
        BY <2>2, <2>4, <3>1, <3>3 DEF Reserved, EarlyReserved, FromBalance, FromVest
      <4>2. /\ Reserved(u)' <= Available(u)
            /\ NextVestLocked(u) + EarlyReserved(u)' <= NextAmount(u)
        BY <1>1, <4>1
      <4> QED
        BY <1>2, <2>1, <2>3, <4>2, OneRequestMovesOn
    <3>4. CASE NextVest(u) # 0 /\ ComingVest(u) # 0
      <4>1. NextVestBalance(u) = NextAmount(u) - NextVestLocked(u)
        BY <3>1, <3>4 DEF NextVestBalance, NextAmount, ComingVest
      <4>2. Reserved(u)' = 0 /\ EarlyReserved(u)' = request[u].amount
        BY <2>2, <2>4, <3>1, <3>4 DEF Reserved, EarlyReserved, FromBalance, FromVest
      <4>3. request[u].amount <= NextAmount(u) - NextVestLocked(u)
        BY <1>4, <2>4, <4>1
      <4>4. /\ Reserved(u)' <= Available(u)
            /\ NextVestLocked(u) + EarlyReserved(u)' <= NextAmount(u)
        BY <1>1, <2>2, <4>2, <4>3
      <4> QED
        BY <1>2, <2>1, <2>3, <4>4, OneRequestMovesOn
    <3> QED
      BY <3>2, <3>3, <3>4
  <2>5. CASE request[u].kind # "early"
    <3>1. Reserved(u)' = request[u].amount /\ EarlyReserved(u)' = 0
      BY <2>2, <2>5 DEF Reserved, EarlyReserved, FromBalance, FromVest
    <3>2. request[u].amount <= Available(u)
      BY <1>4, <2>5 DEF CanWithdraw
    <3>3. /\ Reserved(u)' <= Available(u)
          /\ NextVestLocked(u) + EarlyReserved(u)' <= NextAmount(u)
      BY <1>1, <3>1, <3>2
    <3> QED
      BY <1>2, <2>1, <2>3, <3>3, OneRequestMovesOn
  <2> QED
    BY <2>4, <2>5
<1> QED
  BY <1>3, <1>4 DEF CheckLockup

\* The date that is read is that of the vest the tokens are reserved of.
LEMMA DateLockupCovered ==
    ASSUME TInv, TInv', OInv, OInv', BInv, NEW u \in Users, DateLockup(u)
    PROVE  BInv'
<1>1. /\ request \in [Users -> Request] /\ request[u] \in Request
      /\ Available(u) \in Int /\ 0 <= Available(u)
      /\ NextVestLocked(u) \in Nat /\ NextAmount(u) \in Nat
      /\ NextVest(u) \in Nat /\ Cancelled[u] \in Nat
  BY CoverFacts, TableAssumption
<1>2. /\ UNCHANGED <<now, transfers, lockups>> /\ now \in Nat
      /\ request[u].kind = "early" /\ request[u].stage = "checked"
      /\ request' = [request EXCEPT ![u].stage = "dated", ![u].vest = NextVest(u)]
  BY DEF DateLockup, tables, TInv, Typed
<1>3. /\ \A v \in Users \ {u} : request'[v] = request[v]
      /\ request'[u].stage = "dated" /\ request'[u].kind = "early"
      /\ request'[u].amount = request[u].amount /\ request'[u].vest = NextVest(u)
      /\ request[u].amount \in Nat
  BY <1>1, <1>2 DEF Request
<1>4. ComingVest(u)' = ComingVest(u)
  BY <1>2, SameMinute
<1>5. NextVest(u) <= Cancelled[u] => NextVest(u) = ComingVest(u)
  BY DEF ComingVest
<1>6. ComingVest(u) # 0 => NextVest(u) > now /\ NextVest(u) <= Cancelled[u]
  BY <1>2, NextVestComes
<1>7. DatedInOrder(u)'
  BY <1>3, <1>4, <1>5 DEF DatedInOrder
<1>8. FromBalance(u)' => FromBalance(u)
  BY <1>1, <1>2, <1>3, <1>5, <1>6 DEF FromBalance
<1>9. FromVest(u)' => FromVest(u)
  BY <1>1, <1>2, <1>3, <1>5 DEF FromVest
<1>10. Reserved(u)' <= Reserved(u) /\ EarlyReserved(u)' <= EarlyReserved(u)
  BY <1>3, <1>8, <1>9 DEF Reserved, EarlyReserved
<1>11. /\ Reserved(u)' \in Nat /\ EarlyReserved(u)' \in Nat
       /\ Reserved(u) \in Nat /\ EarlyReserved(u) \in Nat
  BY <1>3 DEF Reserved, EarlyReserved
<1>12. /\ Available(u) >= Reserved(u)
       /\ NextVestLocked(u) + EarlyReserved(u) <= NextAmount(u)
  BY DEF BInv, UserCovered, BalanceCovers, VestCovers
<1>13. /\ Reserved(u)' <= Available(u)
       /\ NextVestLocked(u) + EarlyReserved(u)' <= NextAmount(u)
  BY <1>1, <1>10, <1>11, <1>12
<1> QED
  BY <1>2, <1>3, <1>7, <1>13, OneRequestMovesOn

FieldsKept ==
    /\ DOMAIN transfers' = DOMAIN transfers
    /\ \A i \in DOMAIN transfers :
            /\ transfers'[i].user = transfers[i].user
            /\ transfers'[i].amount = transfers[i].amount
            /\ transfers'[i].createdAt = transfers[i].createdAt

LEMMA StatusKeepsFields ==
    ASSUME TInv, NEW t, NEW status, SetStatus(t, status)
    PROVE  FieldsKept
<1>1. \A i \in DOMAIN transfers : transfers[i] \in TransferRow
  BY Positions DEF TInv
<1>2. transfers' = [transfers EXCEPT ![t] = [transfers[t] EXCEPT !.status = status]]
  BY DEF SetStatus
<1>3. DOMAIN transfers' = DOMAIN transfers
  BY <1>2
<1>4. ASSUME NEW i \in DOMAIN transfers
      PROVE  transfers'[i] \in {transfers[i], [transfers[i] EXCEPT !.status = status]}
  BY <1>2
<1> QED
  BY <1>1, <1>3, <1>4 DEF FieldsKept, TransferRow

LEMMA RunKeepsFields ==
    ASSUME TInv, NEW r \in Runs, RunStep(r)
    PROVE  FieldsKept /\ UNCHANGED <<now, lockups, request, confirm>>
<1>1. UNCHANGED <<now, lockups, request, confirm>>
  BY DEF RunStep, StartRun, CheckBlockConfirmation, ReadTasks, ReadProcessing, CreateTask,
         PickTransfer, CheckBalance, MarkProcessing, CreditRefused, CreditSent,
         CreditUnanswered, RecordFailed, RecordSent, EndTask, tables
<1>2. CASE transfers' = transfers
  BY <1>1, <1>2 DEF FieldsKept
<1>3. CASE \E t, status : SetStatus(t, status)
  BY <1>1, <1>3, StatusKeepsFields
<1>4. CASE RecordSent(r)
  <2>1. \A i \in DOMAIN transfers : transfers[i] \in TransferRow
    BY Positions DEF TInv
  <2>2. PICK t, hash :
            transfers' = [transfers EXCEPT ![t].status = "WaitingConfirmation", ![t].hash = hash]
    BY <1>4 DEF RecordSent
  <2>3. DOMAIN transfers' = DOMAIN transfers
    BY <2>2
  <2>4. ASSUME NEW i \in DOMAIN transfers
        PROVE  transfers'[i] \in
                {transfers[i],
                 [transfers[i] EXCEPT !.status = "WaitingConfirmation", !.hash = hash]}
    BY <2>2
  <2> QED
    BY <1>1, <2>1, <2>3, <2>4 DEF FieldsKept, TransferRow
<1> QED
  BY <1>2, <1>3, <1>4
     DEF RunStep, StartRun, CheckBlockConfirmation, ReadTasks, ReadProcessing, CreateTask,
         PickTransfer, CheckBalance, MarkProcessing, CreditRefused, CreditSent,
         CreditUnanswered, RecordFailed, RecordSent, EndTask, tables

\* A row that a run or a confirmation rewrites counted before, if it is not given up.
LEMMA StatusKeepsRows ==
    ASSUME TInv, now' = now, NEW t \in DOMAIN transfers, NEW status, SetStatus(t, status),
           status \in {"Failed", "Expired"} \/ Counts(transfers[t])
    PROVE  RowsKept
<1>1. FieldsKept
  BY StatusKeepsFields
<1>2. /\ \A i \in DOMAIN transfers : i # t => transfers'[i] = transfers[i]
      /\ transfers'[t].status = status
  <2>1. transfers[t] \in TransferRow
    BY Positions DEF TInv
  <2>2. transfers' = [transfers EXCEPT ![t] = [transfers[t] EXCEPT !.status = status]]
    BY DEF SetStatus
  <2> QED
    BY <2>1, <2>2 DEF TransferRow
<1>3. ASSUME NEW i \in DOMAIN transfers, Counts(transfers[i])'
      PROVE  Counts(transfers[i])
  BY <1>2, <1>3 DEF Counts, TransferHasExpired, PendingOrComplete
<1> QED
  BY <1>1, <1>3 DEF FieldsKept, RowsKept

\* No run makes a transfer count that did not, unless it has given its amount back since
\* the run has looked at it.
LEMMA RunStepCovered ==
    ASSUME TInv, TInv', OInv, OInv', BInv, NothingGivenBackHeld, NEW r \in Runs, RunStep(r)
    PROVE  BInv'
<1>1. FieldsKept /\ UNCHANGED <<now, lockups, request>>
  BY RunKeepsFields
<1>2. RowsKept
  <2>1. CASE transfers' = transfers
    BY <1>1, <2>1, NothingMoved
  <2>2. CASE CheckBlockConfirmation(r)
    <3>1. PICK w \in job[r].todo :
              \/ \E status \in {"Success", "Failed"} : SetStatus(w[1], status)
              \/ UNCHANGED transfers
      BY <2>2 DEF CheckBlockConfirmation
    <3>2. w[1] \in DOMAIN transfers /\ Counts(transfers[w[1]])
      BY RunFacts DEF RunLinked, NothingGivenBackHeld
    <3> QED
      BY <1>1, <2>1, <3>1, <3>2, StatusKeepsRows
  <2>3. CASE MarkProcessing(r) \/ RecordFailed(r)
    <3>1. PICK t \in DOMAIN transfers : t = job[r].transfer
      BY <2>3, PickedTransfer DEF MarkProcessing, RecordFailed
    <3>2. \/ SetStatus(t, "Failed")
          \/ SetStatus(t, "Processing") /\ Counts(transfers[t])
      BY <2>3, <3>1 DEF MarkProcessing, RecordFailed, NothingGivenBackHeld
    <3> QED
      BY <1>1, <3>2, StatusKeepsRows
  <2>4. CASE RecordSent(r)
    <3>1. PICK t \in DOMAIN transfers : t = job[r].transfer
      BY <2>4, PickedTransfer DEF RecordSent
    <3>2. Counts(transfers[t])
      BY <2>4, <3>1 DEF RecordSent, NothingGivenBackHeld
    <3>3. \A i \in DOMAIN transfers : i # t => transfers'[i] = transfers[i]
      BY <2>4, <3>1 DEF RecordSent
    <3>4. ASSUME NEW i \in DOMAIN transfers, Counts(transfers[i])'
          PROVE  Counts(transfers[i])
      BY <1>1, <3>2, <3>3, <3>4 DEF Counts, TransferHasExpired
    <3> QED
      BY <1>1, <3>4 DEF FieldsKept, RowsKept
  <2> QED
    BY <2>1, <2>2, <2>3, <2>4, <1>1, NothingMoved
       DEF RunStep, StartRun, ReadTasks, ReadProcessing, CreateTask, PickTransfer, CheckBalance,
           CreditRefused, CreditSent, CreditUnanswered, EndTask, tables
<1>3. LockupsKept
  BY <1>1, NothingMoved
<1> QED
  BY <1>1, <1>2, <1>3, NothingBegun

\* A confirmation that is written finds its row counting still.
LEMMA WriteConfirmCovered ==
    ASSUME TInv, TInv', OInv, OInv', BInv, NothingGivenBackHeld,
           NEW c \in Confirmers, WriteConfirm(c)
    PROVE  BInv'
<1>1. PICK t \in DOMAIN transfers : t = confirm[c].id
  BY DEF WriteConfirm, TInv, Linked, ConfirmLinked
<1>2. PICK status : status = IF confirm[c].kind = "expire" THEN "Expired" ELSE "Enqueued"
  OBVIOUS
<1>3. SetStatus(t, status) /\ UNCHANGED <<now, lockups, request>>
  BY <1>1, <1>2 DEF WriteConfirm, SetStatus
<1>4. status = "Expired" \/ Counts(transfers[t])
  BY <1>1, <1>2 DEF WriteConfirm, NothingGivenBackHeld
<1>5. RowsKept /\ LockupsKept
  BY <1>3, <1>4, StatusKeepsRows, NothingMoved
<1> QED
  BY <1>3, <1>5, NothingBegun

LEMMA WriteConfirmLockupKeeps ==
    ASSUME TInv, NEW c \in Confirmers, WriteConfirmLockup(c)
    PROVE  LockupsKept
<1>1. \A i \in DOMAIN lockups : lockups[i] \in LockupRow
  BY Positions DEF TInv
<1>2. PICK k : lockups' = [lockups EXCEPT ![k] = [lockups[k] EXCEPT !.confirmed = TRUE]]
  BY DEF WriteConfirmLockup
<1>3. DOMAIN lockups' = DOMAIN lockups
  BY <1>2
<1>4. ASSUME NEW i \in DOMAIN lockups
      PROVE  lockups'[i] \in {lockups[i], [lockups[i] EXCEPT !.confirmed = TRUE]}
  BY <1>2
<1> QED
  BY <1>1, <1>3, <1>4 DEF LockupsKept, LockupRow

LEMMA WriteConfirmLockupCovered ==
    ASSUME TInv, TInv', OInv, OInv', BInv, NEW c \in Confirmers, WriteConfirmLockup(c)
    PROVE  BInv'
<1>1. UNCHANGED <<now, transfers, request>> /\ LockupsKept
  BY WriteConfirmLockupKeeps DEF WriteConfirmLockup
<1> QED
  BY <1>1, NothingMoved, NothingBegun

\* A row takes at most what was reserved for it.
LEMMA RowTakesReserved ==
    ASSUME TInv, TInv', OInv, OInv', BInv, now' = now, NEW u \in Users,
           NEW paid \in Nat, NEW held \in Nat, NEW early \in Nat,
           UnlockedEarnings(u)' >= UnlockedEarnings(u),
           Withdrawn(u)' <= Withdrawn(u) + paid,
           Locked(u)' <= Locked(u) + held,
           NextVestLocked(u)' <= NextVestLocked(u) + early,
           Reserved(u)' + paid + held <= Reserved(u),
           EarlyReserved(u)' + early <= EarlyReserved(u)
    PROVE  BalanceCovers(u)' /\ VestCovers(u)'
<1>1. AmountsTyped(u) /\ AmountsTyped(u)'
  BY Amounts, AmountsNext
<1>2. Vested(u)' = Vested(u) /\ NextAmount(u)' = NextAmount(u) /\ NextAmount(u) \in Nat
  BY SameMinute, CoverFacts
<1>3. /\ Reserved(u) \in Nat /\ EarlyReserved(u) \in Nat
      /\ Reserved(u)' \in Nat /\ EarlyReserved(u)' \in Nat
  BY DEF Reserved, EarlyReserved, TInv, Typed, Request
<1>4. /\ Available(u) >= Reserved(u)
      /\ NextVestLocked(u) + EarlyReserved(u) <= NextAmount(u)
  BY DEF BInv, UserCovered, BalanceCovers, VestCovers
<1>5. BalanceCovers(u)'
  BY <1>1, <1>2, <1>3, <1>4 DEF AmountsTyped, BalanceCovers, Available
<1>6. VestCovers(u)'
  BY <1>1, <1>2, <1>3, <1>4 DEF AmountsTyped, VestCovers
<1> QED
  BY <1>5, <1>6

\* The request whose row is inserted has nothing reserved any more, the others go on.
LEMMA Inserted ==
    ASSUME TInv, now' = now, NEW u \in Users, Stage(u, "inserted")
    PROVE  /\ \A v \in Users \ {u} :
                /\ request'[v] = request[v]
                /\ Reserved(v)' = Reserved(v) /\ EarlyReserved(v)' = EarlyReserved(v)
                /\ DatedInOrder(v) => DatedInOrder(v)'
           /\ Reserved(u)' = 0 /\ EarlyReserved(u)' = 0 /\ DatedInOrder(u)'
<1>1. request \in [Users -> Request] /\ request[u] \in Request
  BY DEF TInv, Typed
<1>2. /\ \A v \in Users \ {u} : request'[v] = request[v]
      /\ request'[u] = [request[u] EXCEPT !.stage = "inserted"]
  BY <1>1 DEF Stage
<1>3. request'[u].stage = "inserted"
  BY <1>1, <1>2 DEF Request
<1>4. \A v \in Users : NextVest(v)' = NextVest(v) /\ ComingVest(v)' = ComingVest(v)
  BY SameMinute
<1> QED
  BY <1>2, <1>3, <1>4 DEF Reserved, EarlyReserved, FromBalance, FromVest, DatedInOrder

LEMMA InsertTransferCovered ==
    ASSUME TInv, TInv', OInv, OInv', BInv, NEW u \in Users, InsertTransfer(u)
    PROVE  BInv'
<1>1. PICK row : row = [user |-> u, amount |-> request[u].amount,
                        status |-> "WaitingEmailConfirm", createdAt |-> now, hash |-> 0]
  OBVIOUS
<1>2. /\ transfers' = Append(transfers, row) /\ Stage(u, "inserted")
      /\ UNCHANGED <<now, lockups>>
      /\ request[u].kind = "transfer" /\ request[u].stage = "checked"
  BY <1>1 DEF InsertTransfer
<1>3. transfers \in Seq(TransferRow) /\ transfers' \in Seq(TransferRow) /\ request[u] \in Request
  BY DEF TInv, Typed
<1>4. row \in TransferRow /\ row.user = u /\ row.amount = request[u].amount /\ row.amount \in Nat
  BY <1>1, <1>3 DEF TInv, Typed, TransferRow, TransferStatuses, Request
<1>5. PICK x : x = Len(transfers) + 1
  OBVIOUS
<1>6. /\ x \notin DOMAIN transfers /\ DOMAIN transfers' = DOMAIN transfers \cup {x}
      /\ transfers'[x] = row /\ \A i \in DOMAIN transfers : transfers'[i] = transfers[i]
  BY <1>2, <1>3, <1>4, <1>5, AddElement
<1>7. LockupsKept
  BY <1>2, NothingMoved
<1>9. ASSUME NEW v \in Users
      PROVE  Withdrawn(v)' <= Withdrawn(v) + (IF v = u THEN row.amount ELSE 0)
  <2> DEFINE ids == {i \in DOMAIN transfers : transfers[i].user = v /\ Counts(transfers[i])}
  <2>1. PICK after : after = ids'
    OBVIOUS
  <2>2. Withdrawn(v) = Sum(transfers, ids)
    BY WithdrawnBy
  <2>3. Withdrawn(v)' = Sum(Append(transfers, row), after)
    BY <1>2, <2>1 DEF Withdrawn, Counts
  <2>4. \A i \in DOMAIN transfers : i \in after => i \in ids
    BY <1>2, <1>6, <2>1 DEF Counts, TransferHasExpired
  <2>5. x \in after => v = u
    BY <1>4, <1>6, <2>1
  <2> HIDE DEF ids
  <2>6. Sum(Append(transfers, row), after)
            <= Sum(transfers, ids) + (IF x \in after THEN row.amount ELSE 0)
    BY ONLY <1>3, <1>4, <1>5, <2>4, RowAmounts, SumAppended
  <2>7. Sum(transfers, ids) \in Nat /\ Sum(Append(transfers, row), after) \in Nat
    BY <1>2, <1>3, RowAmounts, SumType
  <2> QED
    BY <1>4, <2>2, <2>3, <2>5, <2>6, <2>7
<1>10. ASSUME NEW v \in Users
       PROVE  UserCovered(v)'
  <2>1. /\ UnlockedEarnings(v)' >= UnlockedEarnings(v)
        /\ Locked(v)' <= Locked(v) /\ NextVestLocked(v)' <= NextVestLocked(v)
    BY <1>2, <1>7, EarnedNoLess, LockedNoMore
  <2>2. PICK paid : paid = IF v = u THEN row.amount ELSE 0
    OBVIOUS
  <2>3. paid \in Nat /\ Withdrawn(v)' <= Withdrawn(v) + paid
    BY <1>4, <1>9, <2>2
  <2>4. Reserved(v) \in Nat /\ EarlyReserved(v) \in Nat
    BY DEF Reserved, EarlyReserved, TInv, Typed, Request
  <2>5. Reserved(v)' + paid <= Reserved(v) /\ EarlyReserved(v)' <= EarlyReserved(v)
    <3>1. CASE v = u
      <4>1. Reserved(u) = row.amount /\ EarlyReserved(u) = 0
        BY <1>2, <1>4 DEF Reserved, EarlyReserved, FromBalance, FromVest
      <4> QED
        BY <1>2, <1>4, <2>2, <3>1, <4>1, Inserted
    <3>2. CASE v # u
      BY <1>2, <2>2, <2>4, <3>2, Inserted
    <3> QED
      BY <3>1, <3>2
  <2>6. /\ Reserved(v)' \in Nat /\ EarlyReserved(v)' \in Nat
        /\ AmountsTyped(v) /\ AmountsTyped(v)'
    BY Amounts, AmountsNext DEF Reserved, EarlyReserved, TInv, Typed, Request
  <2>7. /\ Locked(v)' <= Locked(v) + 0 /\ NextVestLocked(v)' <= NextVestLocked(v) + 0
        /\ Reserved(v)' + paid + 0 <= Reserved(v) /\ EarlyReserved(v)' + 0 <= EarlyReserved(v)
    BY <2>1, <2>3, <2>4, <2>5, <2>6 DEF AmountsTyped
  <2>8. BalanceCovers(v)' /\ VestCovers(v)'
    BY <1>2, <1>7, <2>1, <2>3, <2>7, RowTakesReserved
  <2>9. OfNextVest(v)
    BY DEF BInv, UserCovered
  <2>10. ComingVest(v)' = ComingVest(v)
    BY <1>2, SameMinute
  <2>11. OfNextVest(v)'
    BY <1>2, <2>9, <2>10, Inserted DEF OfNextVest, BeforeVest
  <2> QED
    BY <2>8, <2>11 DEF UserCovered
<1> QED
  BY <1>10 DEF BInv

\* A lockup is of the tokens of the user, or early and of the vest to come.
LEMMA LockupGranted ==
    ASSUME TInv, OInv, BInv, NEW u \in Users, InsertLockup(u), request[u].vest <= Cancelled[u]
    PROVE  \/ /\ ~(request[u].vest > now)
              /\ Reserved(u) = request[u].amount /\ EarlyReserved(u) = 0
           \/ /\ request[u].vest = ComingVest(u) /\ request[u].vest > now
              /\ EarlyReserved(u) = request[u].amount /\ Reserved(u) = 0
<1>1. request[u] \in Request /\ RequestInOrder(u) /\ now \in Nat /\ request[u].vest \in Nat
  BY CoverFacts DEF OInv, TInv, Typed, Request
<1>2. CASE request[u].kind = "early" /\ request[u].stage = "dated"
  <2>1. CASE request[u].vest > now
    <3>1. FromVest(u) /\ ~FromBalance(u)
      BY <1>1, <1>2, <2>1 DEF FromVest, FromBalance
    <3>2. request[u].vest = ComingVest(u)
      BY <1>2, <2>1 DEF BInv, UserCovered, OfNextVest, DatedInOrder
    <3> QED
      BY <2>1, <3>1, <3>2 DEF EarlyReserved, Reserved
  <2>2. CASE ~(request[u].vest > now)
    <3>1. FromBalance(u) /\ ~FromVest(u)
      BY <1>1, <1>2, <2>2 DEF FromVest, FromBalance
    <3> QED
      BY <2>2, <3>1 DEF EarlyReserved, Reserved
  <2> QED
    BY <2>1, <2>2
<1>3. CASE request[u].kind = "lockup" /\ request[u].stage = "checked"
  <2>1. FromBalance(u) /\ ~FromVest(u) /\ request[u].vest = 0
    BY <1>1, <1>3 DEF FromBalance, FromVest, RequestInOrder
  <2> QED
    BY <1>1, <2>1 DEF EarlyReserved, Reserved
<1> QED
  BY <1>2, <1>3 DEF InsertLockup

\* A lockup that is added, and not confirmed yet, takes away no earnings.
LEMMA InsertLockupEarns ==
    ASSUME TInv, TInv', OInv, OInv', NEW u \in Users, InsertLockup(u), NEW v \in Users
    PROVE  UnlockedEarnings(v)' >= UnlockedEarnings(v)
<1>1. PICK row : lockups' = Append(lockups, row) /\ row = lockups'[Len(lockups) + 1]
  BY DEF InsertLockup, TInv, Typed
<1>2. lockups \in Seq(LockupRow) /\ now' = now
  BY DEF TInv, Typed, InsertLockup
<1>3. PICK x : x = Len(lockups) + 1
  OBVIOUS
<1>4. /\ x \notin DOMAIN lockups /\ DOMAIN lockups' = DOMAIN lockups \cup {x}
      /\ \A i \in DOMAIN lockups : lockups'[i] = lockups[i]
  BY <1>1, <1>2, <1>3
<1>5. PICK D, T : D = DOMAIN lockups /\ T = DOMAIN lockups'
  OBVIOUS
<1>6. PICK f, g : /\ f = [i \in DOMAIN lockups |-> EarnedBy(v, lockups[i])]
                  /\ g = [i \in DOMAIN lockups |-> EarnedBy(v, lockups[i])]'
  OBVIOUS
<1>7. IsFiniteSet(D) /\ f \in [D -> Nat] /\ UnlockedEarnings(v) = Total(f)
  BY <1>5, <1>6, Earnings DEF EarningsTyped
<1>8. g \in [T -> Nat] /\ UnlockedEarnings(v)' = Total(g)
  BY <1>5, <1>6, AmountsNext DEF EarningsTyped
<1>9. x \notin D /\ T = D \cup {x}
  BY <1>4, <1>5
<1>10. \A i \in D : g[i] = f[i]
  BY <1>2, <1>4, <1>5, <1>6 DEF EarnedBy
<1>11. Total(g) = Total(f) + g[x]
  BY ONLY <1>7, <1>8, <1>9, <1>10, TotalExtend
<1>12. Total(f) \in Nat /\ g[x] \in Nat
  BY ONLY <1>7, <1>8, <1>9, TotalType
<1> QED
  BY <1>7, <1>8, <1>11, <1>12

LEMMA InsertLockupCovered ==
    ASSUME TInv, TInv', OInv, OInv', BInv, LockedFromVests', NEW u \in Users, InsertLockup(u)
    PROVE  BInv'
<1>1. PICK row : row = [user |-> u, amount |-> request[u].amount,
                        vest |-> request[u].vest, confirmed |-> FALSE,
                        createdAt |-> now, end |-> now + LockupDuration]
  OBVIOUS
<1>2. /\ lockups' = Append(lockups, row) /\ Stage(u, "inserted")
      /\ UNCHANGED <<now, transfers>>
  BY <1>1 DEF InsertLockup
<1>3. lockups \in Seq(LockupRow) /\ lockups' \in Seq(LockupRow) /\ request[u] \in Request
  BY DEF TInv, Typed
<1>4. /\ row \in LockupRow /\ row.user = u /\ row.amount = request[u].amount /\ row.amount \in Nat
      /\ row.vest = request[u].vest
  <2>1. now \in Nat /\ now + LockupDuration \in Nat
    BY TableAssumption DEF TInv, Typed
  <2> QED
    BY <1>1, <1>3, <2>1 DEF LockupRow, Request
<1>5. PICK x : x = Len(lockups) + 1
  OBVIOUS
<1>6. /\ x \notin DOMAIN lockups /\ DOMAIN lockups' = DOMAIN lockups \cup {x}
      /\ lockups'[x] = row /\ \A i \in DOMAIN lockups : lockups'[i] = lockups[i]
  BY <1>2, <1>3, <1>4, <1>5, AddElement
<1>7. RowsKept
  BY <1>2, NothingMoved
<1>8. request[u].vest <= Cancelled[u]
  BY <1>4, <1>6 DEF LockedFromVests
<1>9. ASSUME NEW v \in Users
      PROVE  /\ Locked(v)' <= Locked(v)
                    + (IF v = u /\ ~BeforeVest(row) THEN row.amount ELSE 0)
             /\ NextVestLocked(v)' <= NextVestLocked(v)
                    + (IF v = u /\ BeforeVest(row) THEN row.amount ELSE 0)
  <2> DEFINE a == {i \in DOMAIN lockups : /\ lockups[i].user = v
                                          /\ ~BeforeVest(lockups[i]) /\ now < lockups[i].end}
             b == {i \in DOMAIN lockups : lockups[i].user = v /\ BeforeVest(lockups[i])}
  <2>1. PICK a2, b2 : a2 = a' /\ b2 = b'
    OBVIOUS
  <2>2. Locked(v) = Sum(lockups, a) /\ NextVestLocked(v) = Sum(lockups, b)
    BY DEF Locked, NextVestLocked
  <2>3. /\ Locked(v)' = Sum(Append(lockups, row), a2)
        /\ NextVestLocked(v)' = Sum(Append(lockups, row), b2)
    BY <1>2, <2>1 DEF Locked, NextVestLocked
  <2>4. \A i \in DOMAIN lockups : (i \in a2 => i \in a) /\ (i \in b2 => i \in b)
    BY <1>2, <1>6, <2>1 DEF BeforeVest
  <2>5. (x \in a2 => v = u /\ ~BeforeVest(row)) /\ (x \in b2 => v = u /\ BeforeVest(row))
    BY <1>2, <1>4, <1>6, <2>1 DEF BeforeVest
  <2> HIDE DEF a, b
  <2>6. /\ Sum(Append(lockups, row), a2)
                <= Sum(lockups, a) + (IF x \in a2 THEN row.amount ELSE 0)
        /\ Sum(Append(lockups, row), b2)
                <= Sum(lockups, b) + (IF x \in b2 THEN row.amount ELSE 0)
    BY ONLY <1>3, <1>4, <1>5, <2>4, RowAmounts, SumAppended
  <2>7. /\ Sum(lockups, a) \in Nat /\ Sum(Append(lockups, row), a2) \in Nat
        /\ Sum(lockups, b) \in Nat /\ Sum(Append(lockups, row), b2) \in Nat
    BY <1>2, <1>3, RowAmounts, SumType
  <2> QED
    BY <1>4, <2>2, <2>3, <2>5, <2>6, <2>7
<1>10. ASSUME NEW v \in Users
       PROVE  UnlockedEarnings(v)' >= UnlockedEarnings(v)
  BY InsertLockupEarns
<1>11. ASSUME NEW v \in Users
       PROVE  UserCovered(v)'
  <2>1. Withdrawn(v)' <= Withdrawn(v)
    BY <1>7, WithdrawnNoMore
  <2>2. PICK held, early :
            /\ held = (IF v = u /\ ~BeforeVest(row) THEN row.amount ELSE 0)
            /\ early = (IF v = u /\ BeforeVest(row) THEN row.amount ELSE 0)
    OBVIOUS
  <2>3. /\ held \in Nat /\ Locked(v)' <= Locked(v) + held
        /\ early \in Nat /\ NextVestLocked(v)' <= NextVestLocked(v) + early
    BY <1>4, <1>9, <2>2
  <2>4. Reserved(v) \in Nat /\ EarlyReserved(v) \in Nat
    BY DEF Reserved, EarlyReserved, TInv, Typed, Request
  <2>5. Reserved(v)' + held <= Reserved(v) /\ EarlyReserved(v)' + early <= EarlyReserved(v)
    <3>1. CASE v = u
      <4>1. Reserved(u)' = 0 /\ EarlyReserved(u)' = 0
        BY <1>2, Inserted
      <4>2. CASE /\ ~(request[u].vest > now)
                 /\ Reserved(u) = request[u].amount /\ EarlyReserved(u) = 0
        <5>1. ~BeforeVest(row)
          BY <1>4, <4>2 DEF BeforeVest
        <5> QED
          BY <1>4, <2>2, <2>4, <3>1, <4>1, <4>2, <5>1
      <4>3. CASE /\ request[u].vest = ComingVest(u) /\ request[u].vest > now
                 /\ EarlyReserved(u) = request[u].amount /\ Reserved(u) = 0
        <5>1. BeforeVest(row)
          BY <1>4, <4>3 DEF BeforeVest
        <5> QED
          BY <1>4, <2>2, <2>4, <3>1, <4>1, <4>3, <5>1
      <4> QED
        BY <1>8, <4>2, <4>3, LockupGranted
    <3>2. CASE v # u
      BY <1>2, <2>2, <2>4, <3>2, Inserted
    <3> QED
      BY <3>1, <3>2
  <2>6. /\ Reserved(v)' \in Nat /\ EarlyReserved(v)' \in Nat
        /\ AmountsTyped(v) /\ AmountsTyped(v)'
    BY Amounts, AmountsNext DEF Reserved, EarlyReserved, TInv, Typed, Request
  <2>7. Withdrawn(v)' <= Withdrawn(v) + 0 /\ Reserved(v)' + 0 + held <= Reserved(v)
    BY <2>1, <2>3, <2>5, <2>6 DEF AmountsTyped
  <2>8. BalanceCovers(v)' /\ VestCovers(v)'
    BY <1>2, <1>10, <2>3, <2>5, <2>7, RowTakesReserved
  <2>9. OfNextVest(v)
    BY DEF BInv, UserCovered
  <2>10. ComingVest(v)' = ComingVest(v)
    BY <1>2, SameMinute
  <2>11. OfNextVest(v)'
    <3>1. DatedInOrder(v)'
      BY <1>2, <2>9, Inserted DEF OfNextVest
    <3>2. ASSUME NEW k \in DOMAIN lockups', lockups'[k].user = v, lockups'[k].vest > now
          PROVE  lockups'[k].vest = ComingVest(v)
      <4>1. CASE k \in DOMAIN lockups
        BY <1>6, <2>9, <3>2, <4>1 DEF OfNextVest, BeforeVest
      <4>2. CASE k = x
        <5>1. v = u /\ request[u].vest > now
          BY <1>4, <1>6, <3>2, <4>2
        <5>2. request[u].vest = ComingVest(u)
          BY <1>8, <5>1, LockupGranted
        <5> QED
          BY <1>4, <1>6, <4>2, <5>1, <5>2
      <4> QED
        BY <1>6, <4>1, <4>2
    <3> QED
      BY <1>2, <2>10, <3>1, <3>2 DEF OfNextVest, BeforeVest
  <2> QED
    BY <2>8, <2>11 DEF UserCovered
<1> QED
  BY <1>11 DEF BInv

\* What has been earned stays so as time passes.
LEMMA TickEarns ==
    ASSUME TInv, TInv', OInv, OInv', Tick, NEW u \in Users
    PROVE  UnlockedEarnings(u)' >= UnlockedEarnings(u)
<1>1. now \in Nat /\ now' = now + 1 /\ UNCHANGED lockups
  BY DEF TInv, Typed, Tick, tables
<1>2. PICK D : D = DOMAIN lockups
  OBVIOUS
<1>3. PICK f, g : /\ f = [i \in DOMAIN lockups |-> EarnedBy(u, lockups[i])]
                  /\ g = [i \in DOMAIN lockups |-> EarnedBy(u, lockups[i])]'
  OBVIOUS
<1>4. IsFiniteSet(D) /\ f \in [D -> Nat] /\ UnlockedEarnings(u) = Total(f)
  BY <1>2, <1>3, Earnings DEF EarningsTyped
<1>5. g \in [D -> Nat] /\ UnlockedEarnings(u)' = Total(g)
  BY <1>1, <1>2, <1>3, AmountsNext DEF EarningsTyped
<1>6. ASSUME NEW i \in D
      PROVE  f[i] <= g[i]
  <2>1. lockups[i].end \in Nat
    BY <1>2, Positions DEF TInv, LockupRow
  <2>2. f[i] = EarnedBy(u, lockups[i]) /\ g[i] = EarnedBy(u, lockups[i])'
    BY <1>1, <1>2, <1>3
  <2>3. f[i] \in Nat /\ g[i] \in Nat
    BY <1>4, <1>5
  <2> QED
    BY <1>1, <2>1, <2>2, <2>3 DEF EarnedBy
<1> QED
  BY <1>4, <1>5, <1>6, TotalMonotone

\* With the minute goes by ...
LEMMA TickFacts ==
    ASSUME TInv, TInv', OInv, OInv', Tick
    PROVE  /\ now \in Nat /\ now' = now + 1 /\ UNCHANGED <<transfers, lockups, request>>
           /\ \A u \in Users :
                /\ Withdrawn(u)' <= Withdrawn(u) /\ UnlockedEarnings(u)' >= UnlockedEarnings(u)
                /\ request[u].vest \in Nat /\ request[u].amount \in Nat
                /\ Cancelled[u] \in Nat
<1>1. now \in Nat /\ now' = now + 1 /\ UNCHANGED <<transfers, lockups, request>>
  BY DEF TInv, Typed, Tick, tables, server
<1>2. RowsKept
  <2>1. \A i \in DOMAIN transfers : transfers[i].createdAt \in Nat
    BY Positions DEF TInv, TransferRow
  <2>2. ASSUME NEW i \in DOMAIN transfers, TransferHasExpired(transfers[i])
        PROVE  TransferHasExpired(transfers[i])'
    BY <1>1, <2>1, <2>2, TableAssumption DEF TransferHasExpired
  <2> QED
    BY <1>1, <2>2 DEF RowsKept, Counts
<1>3. ASSUME NEW u \in Users
      PROVE  /\ Withdrawn(u)' <= Withdrawn(u) /\ UnlockedEarnings(u)' >= UnlockedEarnings(u)
             /\ request[u].vest \in Nat /\ request[u].amount \in Nat
             /\ Cancelled[u] \in Nat
  BY <1>2, WithdrawnNoMore, TickEarns, TableAssumption DEF TInv, Typed, Request
<1> QED
  BY <1>1, <1>3

\* Lockups that hold tokens after a step of the clock held some before or were early ones.
LEMMA LockedAfter ==
    ASSUME TInv, TInv', UNCHANGED lockups, NEW u \in Users, NEW a, NEW b,
           \A i \in DOMAIN lockups :
                lockups[i].user = u /\ ~BeforeVest(lockups[i])' /\ now' < lockups[i].end
                    => i \in a \/ i \in b
    PROVE  Locked(u)' <= Sum(lockups, a) + Sum(lockups, b)
<1>1. PICK after : after = {i \in DOMAIN lockups : /\ lockups[i].user = u
                                /\ ~BeforeVest(lockups[i]) /\ now < lockups[i].end}'
  OBVIOUS
<1>2. Locked(u)' = Sum(lockups', after)
  BY <1>1 DEF Locked
<1>3. \A i \in DOMAIN lockups : i \in after => i \in a \/ i \in b
  BY <1>1
<1>4. /\ lockups \in Seq(LockupRow) /\ lockups' \in Seq(LockupRow)
      /\ DOMAIN lockups' = DOMAIN lockups
      /\ \A i \in DOMAIN lockups : lockups'[i].amount = lockups[i].amount
  BY DEF TInv, Typed
<1>5. Sum(lockups', after) <= Sum(lockups, a) + Sum(lockups, b)
  BY ONLY <1>3, <1>4, RowAmounts, SumCovered
<1> QED
  BY <1>2, <1>5

LEMMA EarlyAfter ==
    ASSUME TInv, TInv', UNCHANGED lockups, NEW u \in Users, NEW b,
           \A i \in DOMAIN lockups :
                lockups[i].user = u /\ BeforeVest(lockups[i])' => i \in b
    PROVE  NextVestLocked(u)' <= Sum(lockups, b)
<1>1. PICK after : after = {i \in DOMAIN lockups : /\ lockups[i].user = u
                                                   /\ BeforeVest(lockups[i])}'
  OBVIOUS
<1>2. NextVestLocked(u)' = Sum(lockups', after)
  BY <1>1 DEF NextVestLocked
<1>3. \A i \in DOMAIN lockups : i \in after => i \in b
  BY <1>1
<1>4. /\ lockups \in Seq(LockupRow) /\ lockups' \in Seq(LockupRow)
      /\ DOMAIN lockups' = DOMAIN lockups
      /\ \A i \in DOMAIN lockups : lockups'[i].amount = lockups[i].amount
  BY DEF TInv, Typed
<1>5. Sum(lockups', after) <= Sum(lockups, b)
  BY ONLY <1>3, <1>4, RowAmounts, SumWithin
<1> QED
  BY <1>2, <1>5

\* ... either the next vest comes, and with it the tokens that early lockups took of it ...
LEMMA VestComes ==
    ASSUME TInv, TInv', OInv, OInv', BInv, Tick, NEW u \in Users, ComingVest(u) = now + 1
    PROVE  /\ Vested(u)' = Vested(u) + NextAmount(u)
           /\ Locked(u)' <= Locked(u) + NextVestLocked(u)
           /\ NextVestLocked(u)' = 0
           /\ OfNextVest(u)'
<1>1. now \in Nat /\ now' = now + 1 /\ UNCHANGED <<lockups, request>> /\ now + 1 # 0
  BY TickFacts
<1>2. /\ now + 1 \in DOMAIN Vests[u] /\ NextAmount(u) = Vests[u][now + 1]
      /\ now + 1 <= Cancelled[u]
      /\ \A d \in DOMAIN Vests[u] : d \in Nat
  BY <1>1, NextVestComes, TableAssumption
<1>3. Vested(u)' = Vested(u) + NextAmount(u)
  <2>1. PICK D, f, g : D = DOMAIN Vests[u] /\ f = VestedAt(u) /\ g = VestedAt(u)'
    OBVIOUS
  <2>2. IsFiniteSet(D) /\ f \in [D -> Nat] /\ Vested(u) = Total(f)
    BY <2>1, Vestings
  <2>3. g \in [D -> Nat] /\ Vested(u)' = Total(g)
    BY <2>1, TableAssumption DEF Vested, VestedAt
  <2>4. PICK d \in D : d = now + 1
    BY <1>2, <2>1
  <2>5. \A k \in D \ {d} : g[k] = f[k]
    BY <1>1, <1>2, <2>1, <2>4 DEF VestedAt, HasVested
  <2>6. f[d] = 0 /\ g[d] = NextAmount(u)
    BY <1>1, <1>2, <2>1, <2>4 DEF VestedAt, HasVested
  <2>7. Total(g) = Total(f) - f[d] + g[d]
    BY ONLY <2>2, <2>3, <2>4, <2>5, TotalChange
  <2>8. Total(f) \in Nat
    BY <2>2, TotalType
  <2> QED
    BY <2>2, <2>3, <2>6, <2>7, <2>8
<1>4. \A i \in DOMAIN lockups : lockups[i].vest \in Nat
  BY Positions DEF TInv, LockupRow
<1>5. \A i \in DOMAIN lockups :
            lockups[i].user = u /\ lockups[i].vest > now => lockups[i].vest = now + 1
  BY DEF BInv, UserCovered, OfNextVest, BeforeVest
<1>6. Locked(u)' <= Locked(u) + NextVestLocked(u)
  <2> DEFINE a == {i \in DOMAIN lockups : /\ lockups[i].user = u
                                          /\ ~BeforeVest(lockups[i]) /\ now < lockups[i].end}
             b == {i \in DOMAIN lockups : lockups[i].user = u /\ BeforeVest(lockups[i])}
  <2>1. Locked(u) = Sum(lockups, a) /\ NextVestLocked(u) = Sum(lockups, b)
    BY DEF Locked, NextVestLocked
  <2>2. \A i \in DOMAIN lockups : lockups[i].end \in Nat
    BY Positions DEF TInv, LockupRow
  <2>3. \A i \in DOMAIN lockups :
                lockups[i].user = u /\ ~BeforeVest(lockups[i])' /\ now' < lockups[i].end
                    => i \in a \/ i \in b
    BY <1>1, <2>2 DEF BeforeVest
  <2> HIDE DEF a, b
  <2>4. Locked(u)' <= Sum(lockups, a) + Sum(lockups, b)
    BY <1>1, <2>3, LockedAfter
  <2> QED
    BY <2>1, <2>4
<1>7. NextVestLocked(u)' = 0
  <2>1. \A i \in DOMAIN lockups :
                lockups[i].user = u /\ BeforeVest(lockups[i])' => i \in {}
    BY <1>1, <1>4, <1>5 DEF BeforeVest
  <2>2. NextVestLocked(u)' <= Sum(lockups, {})
    BY <1>1, <2>1, EarlyAfter
  <2>3. NextVestLocked(u)' \in Nat
    BY AmountsNext DEF AmountsTyped
  <2> QED
    BY <2>2, <2>3, SumNothing
<1>8. OfNextVest(u)'
  <2>1. request[u].vest \in Nat
    BY TickFacts
  <2>2. DatedInOrder(u)'
    BY <1>1, <2>1 DEF BInv, UserCovered, OfNextVest, DatedInOrder
  <2> QED
    BY <1>1, <1>4, <1>5, <2>2 DEF OfNextVest, BeforeVest
<1> QED
  BY <1>3, <1>6, <1>7, <1>8

\* ... or it is still the next one.
LEMMA VestWaits ==
    ASSUME TInv, TInv', OInv, OInv', BInv, Tick, NEW u \in Users, ComingVest(u) # now + 1
    PROVE  /\ Vested(u)' = Vested(u)
           /\ Locked(u)' <= Locked(u)
           /\ NextVestLocked(u)' <= NextVestLocked(u)
           /\ NextVest(u)' = NextVest(u) /\ ComingVest(u)' = ComingVest(u)
           /\ NextAmount(u)' = NextAmount(u)
           /\ OfNextVest(u)'
<1>1. now \in Nat /\ now' = now + 1 /\ UNCHANGED <<lockups, request>> /\ Cancelled[u] \in Nat
  BY TickFacts
<1>2. \A d \in DOMAIN Vests[u] : d \in Nat /\ (d # now + 1 \/ d > Cancelled[u])
  <2>1. \A d \in DOMAIN Vests[u] : d \in Nat
    BY TableAssumption
  <2>2. SUFFICES ASSUME now + 1 \in DOMAIN Vests[u], now + 1 <= Cancelled[u]
                 PROVE  FALSE
    BY <1>1, <2>1
  <2>3. /\ ComingVest(u) # 0 /\ ComingVest(u) <= now + 1 /\ ComingVest(u) > now
        /\ ComingVest(u) \in Nat
    BY <1>1, <2>2, NextVestComes
  <2> QED
    BY <1>1, <2>3
<1>3. \A d \in DOMAIN Vests[u] : HasVested(u, d)' <=> HasVested(u, d)
  BY <1>1, <1>2 DEF HasVested
<1>4. Vested(u)' = Vested(u)
  <2>1. VestedAt(u)' = VestedAt(u)
    BY <1>3 DEF VestedAt
  <2>2. Vested(u) = Total(VestedAt(u)) /\ Vested(u)' = Total(VestedAt(u)')
    BY DEF Vested, VestedAt
  <2> QED
    BY <2>1, <2>2
<1>5. /\ NextVest(u)' = NextVest(u) /\ ComingVest(u)' = ComingVest(u)
      /\ NextAmount(u)' = NextAmount(u)
  <2>1. {d \in DOMAIN Vests[u] : ~HasVested(u, d)}' = {d \in DOMAIN Vests[u] : ~HasVested(u, d)}
    BY <1>3
  <2>2. NextVest(u)' = NextVest(u)
    <3> DEFINE Earliest(S) == IF S = {} THEN 0 ELSE CHOOSE d \in S : \A e \in S : d <= e
               dates == {d \in DOMAIN Vests[u] : ~HasVested(u, d)}
    <3>1. NextVest(u) = Earliest(dates) /\ NextVest(u)' = Earliest(dates')
      BY DEF NextVest
    <3>2. dates' = dates
      BY <2>1
    <3> HIDE DEF Earliest, dates
    <3> QED
      BY <3>1, <3>2
  <2> QED
    BY <2>2 DEF ComingVest, NextAmount
<1>6. \A i \in DOMAIN lockups : lockups[i].vest \in Nat /\ lockups[i].end \in Nat
  BY Positions DEF TInv, LockupRow
<1>7. \A i \in DOMAIN lockups :
            lockups[i].user = u /\ lockups[i].vest > now
                => lockups[i].vest = ComingVest(u) /\ lockups[i].vest # now + 1
  BY DEF BInv, UserCovered, OfNextVest, BeforeVest
<1> DEFINE a == {i \in DOMAIN lockups : /\ lockups[i].user = u
                                        /\ ~BeforeVest(lockups[i]) /\ now < lockups[i].end}
           b == {i \in DOMAIN lockups : lockups[i].user = u /\ BeforeVest(lockups[i])}
<1>8. Locked(u) = Sum(lockups, a) /\ NextVestLocked(u) = Sum(lockups, b)
  BY DEF Locked, NextVestLocked
<1>9. \A i \in DOMAIN lockups :
                /\ lockups[i].user = u /\ ~BeforeVest(lockups[i])' /\ now' < lockups[i].end
                    => i \in a \/ i \in {}
                /\ lockups[i].user = u /\ BeforeVest(lockups[i])' => i \in b
  BY <1>1, <1>6, <1>7 DEF BeforeVest
<1> HIDE DEF a, b
<1>10. Locked(u)' <= Sum(lockups, a) + Sum(lockups, {})
  BY <1>1, <1>9, LockedAfter
<1>11. NextVestLocked(u)' <= NextVestLocked(u)
  BY <1>1, <1>8, <1>9, EarlyAfter
<1>12. Locked(u) \in Nat
  BY Amounts DEF AmountsTyped
<1>13. OfNextVest(u)'
  <2>1. request[u].vest \in Nat
    BY TickFacts
  <2>2. DatedInOrder(u)'
    BY <1>1, <1>5, <2>1 DEF BInv, UserCovered, OfNextVest, DatedInOrder
  <2> QED
    BY <1>1, <1>5, <1>6, <1>7, <2>2 DEF OfNextVest, BeforeVest
<1> QED
  BY <1>4, <1>5, <1>8, <1>10, <1>11, <1>12, <1>13, SumNothing

LEMMA NextAmounts == TInv' => \A u \in Users : NextAmount(u)' \in Nat
<1>1. TInv => \A u \in Users : NextAmount(u) \in Nat
  BY NextVestComes DEF TInv, Typed
<1>2. TInv' => (\A u \in Users : NextAmount(u) \in Nat)'
  BY <1>1, PTL
<1> QED
  BY <1>2

\* When the vest comes, what was reserved of it is of the balance now, or fits the one
\* after it ...
LEMMA ReservedComes ==
    ASSUME TInv, TInv', OInv, OInv', BInv, EarlyLockupsFit', Tick, NEW u \in Users,
           ComingVest(u) = now + 1
    PROVE  /\ Reserved(u)' <= Reserved(u) + EarlyReserved(u)
           /\ EarlyReserved(u)' <= NextAmount(u)'
<1>1. /\ now \in Nat /\ now' = now + 1 /\ UNCHANGED request /\ now + 1 # 0
      /\ request[u].vest \in Nat /\ request[u].amount \in Nat /\ Cancelled[u] \in Nat
  BY TickFacts
<1>2. Reserved(u) \in Nat /\ EarlyReserved(u) \in Nat
  BY <1>1 DEF Reserved, EarlyReserved
<1>3. NextVestLocked(u)' = 0
  BY VestComes
<1>4. NextAmount(u)' \in Nat
  BY NextAmounts
<1>5. DatedInOrder(u)
  BY DEF BInv, UserCovered, OfNextVest
<1>6. FromBalance(u)' => FromBalance(u) \/ FromVest(u)
  BY <1>1 DEF FromBalance, FromVest
<1>7. Reserved(u)' <= Reserved(u) + EarlyReserved(u)
  BY <1>1, <1>2, <1>6 DEF Reserved, EarlyReserved
<1>8. ASSUME FromVest(u)'
      PROVE  request[u].amount <= NextAmount(u)'
  <2>1. request[u].kind = "early" /\ request[u].stage = "checked" /\ ComingVest(u)' # 0
    BY <1>1, <1>5, <1>8 DEF FromVest, DatedInOrder
  <2>2. ComingVest(u)' = NextVest(u)' /\ NextVest(u)' # 0
    BY <2>1 DEF ComingVest
  <2>3. request[u].amount <= NextVestBalance(u)'
    BY <1>1, <2>1, <2>2 DEF EarlyLockupsFit
  <2>4. NextVestBalance(u)' = NextAmount(u)' - NextVestLocked(u)'
    BY <2>2 DEF NextVestBalance, NextAmount
  <2> QED
    BY <1>3, <1>4, <2>3, <2>4
<1>9. EarlyReserved(u)' <= NextAmount(u)'
  BY <1>1, <1>4, <1>8 DEF EarlyReserved
<1> QED
  BY <1>7, <1>9

\* ... and otherwise it stays what it was.
LEMMA ReservedWaits ==
    ASSUME TInv, TInv', OInv, OInv', BInv, Tick, NEW u \in Users, ComingVest(u) # now + 1
    PROVE  Reserved(u)' <= Reserved(u) /\ EarlyReserved(u)' <= EarlyReserved(u)
<1>1. /\ now \in Nat /\ now' = now + 1 /\ UNCHANGED request
      /\ request[u].vest \in Nat /\ request[u].amount \in Nat /\ Cancelled[u] \in Nat
  BY TickFacts
<1>2. NextVest(u)' = NextVest(u) /\ ComingVest(u)' = ComingVest(u)
  BY VestWaits
<1>3. DatedInOrder(u)
  BY DEF BInv, UserCovered, OfNextVest
<1>4. FromBalance(u)' => FromBalance(u)
  BY <1>1, <1>2, <1>3 DEF FromBalance, DatedInOrder
<1>5. FromVest(u)' => FromVest(u)
  BY <1>1, <1>2 DEF FromVest
<1> QED
  BY <1>1, <1>4, <1>5 DEF Reserved, EarlyReserved

LEMMA TickCovered ==
    ASSUME TInv, TInv', OInv, OInv', BInv, EarlyLockupsFit', Tick
    PROVE  BInv'
<1> SUFFICES ASSUME NEW u \in Users
             PROVE  UserCovered(u)'
  BY DEF BInv
<1>1. /\ Withdrawn(u)' <= Withdrawn(u) /\ UnlockedEarnings(u)' >= UnlockedEarnings(u)
      /\ request[u].amount \in Nat /\ UNCHANGED request
  BY TickFacts
<1>2. AmountsTyped(u) /\ AmountsTyped(u)'
  BY Amounts, AmountsNext
<1>3. /\ Reserved(u) \in Nat /\ EarlyReserved(u) \in Nat
      /\ Reserved(u)' \in Nat /\ EarlyReserved(u)' \in Nat
  BY <1>1 DEF Reserved, EarlyReserved
<1>4. NextAmount(u) \in Nat
  BY CoverFacts
<1>5. /\ Available(u) >= Reserved(u)
      /\ NextVestLocked(u) + EarlyReserved(u) <= NextAmount(u)
  BY DEF BInv, UserCovered, BalanceCovers, VestCovers
<1>6. CASE ComingVest(u) = now + 1
  <2>1. /\ Vested(u)' = Vested(u) + NextAmount(u)
        /\ Locked(u)' <= Locked(u) + NextVestLocked(u)
        /\ NextVestLocked(u)' = 0
        /\ OfNextVest(u)'
    BY <1>6, VestComes
  <2>2. /\ Reserved(u)' <= Reserved(u) + EarlyReserved(u)
        /\ EarlyReserved(u)' <= NextAmount(u)'
    BY <1>6, ReservedComes
  <2>3. BalanceCovers(u)'
    BY <1>1, <1>2, <1>3, <1>4, <1>5, <2>1, <2>2 DEF AmountsTyped, BalanceCovers, Available
  <2>4. VestCovers(u)'
    BY <1>3, <2>1, <2>2 DEF VestCovers
  <2> QED
    BY <2>1, <2>3, <2>4 DEF UserCovered
<1>7. CASE ComingVest(u) # now + 1
  <2>1. /\ Vested(u)' = Vested(u) /\ Locked(u)' <= Locked(u)
        /\ NextVestLocked(u)' <= NextVestLocked(u)
        /\ NextAmount(u)' = NextAmount(u) /\ OfNextVest(u)'
    BY <1>7, VestWaits
  <2>2. Reserved(u)' <= Reserved(u) /\ EarlyReserved(u)' <= EarlyReserved(u)
    BY <1>7, ReservedWaits
  <2>3. BalanceCovers(u)'
    BY <1>1, <1>2, <1>3, <1>5, <2>1, <2>2 DEF AmountsTyped, BalanceCovers, Available
  <2>4. VestCovers(u)'
    BY <1>2, <1>3, <1>4, <1>5, <2>1, <2>2 DEF AmountsTyped, VestCovers
  <2> QED
    BY <2>1, <2>3, <2>4 DEF UserCovered
<1> QED
  BY <1>6, <1>7

LEMMA RequestStepCovered ==
    ASSUME TInv, TInv', OInv, OInv', BInv, LockedFromVests', NEW u \in Users, RequestStep(u)
    PROVE  BInv'
<1>1. CASE InsertTransfer(u)
  BY <1>1, InsertTransferCovered
<1>2. CASE InsertLockup(u)
  BY <1>2, InsertLockupCovered
<1>3. CASE CheckLockup(u)
  BY <1>3, CheckLockupCovered
<1>4. CASE DateLockup(u)
  BY <1>4, DateLockupCovered
<1>5. CASE AnswerTransfer(u) \/ AnswerLockup(u)
  BY <1>5, ReleaseCovered DEF AnswerTransfer, AnswerLockup, tables
<1> QED
  BY <1>1, <1>2, <1>3, <1>4, <1>5 DEF RequestStep

\* Checks of a confirmation, the chain, restarts and steps that are not of this server:
\* nothing that counts changes.
LEMMA NothingCounts ==
    ASSUME TInv, TInv', OInv, OInv', BInv,
           \/ UNCHANGED vars
           \/ \E c \in Confirmers :
                \/ \E t \in DOMAIN transfers : CheckConfirm(c, t)
                \/ \E k \in DOMAIN lockups : CheckConfirmLockup(c, k)
           \/ ChainStep
           \/ \E i \in DOMAIN chain : Reorg(i)
           \/ Crash
    PROVE  BInv'
<1>1. UNCHANGED <<now, transfers, lockups>>
  BY DEF vars, tables, server, CheckConfirm, CheckConfirmLockup, ChainStep, Include, Bury, Reorg,
         SetState, Crash
<1>2. RowsKept /\ LockupsKept
  BY <1>1, NothingMoved
<1>3. \A u \in Users : request'[u] \in {request[u], NoRequest}
  BY DEF vars, tables, server, CheckConfirm, CheckConfirmLockup, ChainStep, Include, Bury, Reorg,
         SetState, Crash
<1> QED
  BY <1>1, <1>2, <1>3, NothingBegun

LEMMA StepCovered ==
    TInv /\ OInv /\ BInv /\ InTime /\ InTime' /\ [Next]_vars => BInv'
<1> SUFFICES ASSUME TInv, OInv, BInv, InTime, InTime', [Next]_vars
             PROVE  BInv'
  OBVIOUS
<1>0. TInv' /\ OInv'
  BY StepTyped, StepOrdered
<1>1. NothingGivenBackHeld /\ EarlyLockupsFit' /\ LockedFromVests'
  BY DEF InTime
<1>2. CASE \/ UNCHANGED vars
           \/ \E c \in Confirmers :
                \/ \E t \in DOMAIN transfers : CheckConfirm(c, t)
                \/ \E k \in DOMAIN lockups : CheckConfirmLockup(c, k)
           \/ ChainStep \/ (\E i \in DOMAIN chain : Reorg(i)) \/ Crash
  BY <1>0, <1>2, NothingCounts
<1>3. ASSUME NEW u \in Users, NEW amount \in TransferAmounts, BeginTransfer(u, amount)
      PROVE  BInv'
  BY <1>0, <1>3, BeginTransferCovered
<1>4. ASSUME NEW u \in Users, NEW amount \in LockupAmounts, NEW kind \in {"early", "lockup"},
             BeginLockup(u, amount, kind)
      PROVE  BInv'
  BY <1>0, <1>4, BeginLockupCovered
<1>5. ASSUME NEW u \in Users, RequestStep(u)
      PROVE  BInv'
  BY <1>0, <1>1, <1>5, RequestStepCovered
<1>6. ASSUME NEW c \in Confirmers, ConfirmStep(c)
      PROVE  BInv'
  BY <1>0, <1>1, <1>6, WriteConfirmCovered, WriteConfirmLockupCovered DEF ConfirmStep
<1>7. ASSUME NEW r \in Runs, RunStep(r)
      PROVE  BInv'
  BY <1>0, <1>1, <1>7, RunStepCovered
<1>8. CASE Tick
  BY <1>0, <1>1, <1>8, TickCovered
<1> QED
  BY <1>2, <1>3, <1>4, <1>5, <1>6, <1>7, <1>8 DEF Next

\* In the beginning nobody has spent anything.
LEMMA InitCovered == Init => BInv
<1> SUFFICES ASSUME Init, NEW u \in Users
             PROVE  UserCovered(u)
  BY DEF BInv
<1>1. transfers = << >> /\ lockups = << >> /\ request[u] = NoRequest
  BY DEF Init
<1>2. AmountsTyped(u) /\ TInv
  BY InitTyped, InitOrdered, Amounts
<1>3. Withdrawn(u) = 0 /\ Locked(u) = 0 /\ NextVestLocked(u) = 0
  <2>1. \A ids : Sum(transfers, ids) <= Sum(transfers, {})
              /\ Sum(lockups, ids) <= Sum(lockups, {})
    <3> TAKE ids
    <3>1. transfers \in Seq(TransferRow) /\ lockups \in Seq(LockupRow)
      BY <1>2 DEF TInv, Typed
    <3>2. DOMAIN transfers = {} /\ DOMAIN lockups = {}
      BY <1>1
    <3> QED
      BY ONLY <3>1, <3>2, RowAmounts, SumWithin
  <2> QED
    BY <1>2, <2>1, SumNothing DEF Withdrawn, Locked, NextVestLocked, AmountsTyped
<1>4. Reserved(u) = 0 /\ EarlyReserved(u) = 0 /\ OfNextVest(u)
  BY <1>1 DEF Reserved, EarlyReserved, FromBalance, FromVest, DatedInOrder, OfNextVest, NoRequest
<1>5. NextAmount(u) \in Nat
  BY <1>2, NextVestComes DEF TInv, Typed
<1>6. BalanceCovers(u) /\ VestCovers(u)
  BY <1>2, <1>3, <1>4, <1>5 DEF BalanceCovers, VestCovers, Available, AmountsTyped
<1> QED
  BY <1>4, <1>6 DEF UserCovered

LEMMA OrderInvariant == Spec => []OInv
<1>1. TInv /\ OInv /\ [Next]_vars => OInv'
  BY StepOrdered
<1> QED
  BY <1>1, InitOrdered, TypeInvariant, PTL DEF Spec

(* A user comes to owe tokens, so that getBalance throws and a run of the job leaves its task
   open, only in one of three ways: a confirmation or a run counts a transfer again that has
   given its amount back since it was looked at, an early lockup is dated by a vest that it
   would not have passed against, or tokens of a vest that is called off are locked up.  Unless
   one of them is taken, no other withdrawal, lockup, expiry, vest, cancellation, failed payment
   or restart does it, whatever number of confirmations and runs of the job overlap. *)
THEOREM BalanceNeverBelowZero == Spec => OverdrawnOnlyIfLate
<1>1. TInv /\ OInv /\ BInv => NeverOverdrawn
  BY CoverFacts DEF NeverOverdrawn
<1>2. TInv /\ OInv /\ BInv /\ InTime /\ InTime' /\ [Next]_vars => BInv'
  BY StepCovered
<1> QED
  BY <1>1, <1>2, InitCovered, TypeInvariant, OrderInvariant, PTL DEF Spec, OverdrawnOnlyIfLate

-----------------------------------------------------------------------------
(* What is spent for a user, by the tables and by the chain *)

Paying == {"Processing", "WaitingConfirmation", "Success"}

\* A transfer is spent once a run has found the balance of its user in order, until it is
\* given up.
Spent(t) ==
    \/ transfers[t].status \in Paying
    \/ \E r \in Runs : job[r].pc = "mark" /\ job[r].transfer = t

SpentBy(u) == {t \in DOMAIN transfers : transfers[t].user = u /\ Spent(t)}
SpentWithin(u) == Sum(transfers, SpentBy(u)) <= Vested(u) + UnlockedEarnings(u)
QInv == \A u \in Users : SpentWithin(u)

\* What has vested and was earned stays so: by a confirmation, a new lockup or with time.
LEMMA VestedStays ==
    ASSUME TInv, [Next]_vars, NEW u \in Users
    PROVE  Vested(u)' >= Vested(u)
<1>1. PICK D, f, g : D = DOMAIN Vests[u] /\ f = VestedAt(u) /\ g = VestedAt(u)'
  OBVIOUS
<1>2. IsFiniteSet(D) /\ f \in [D -> Nat] /\ Vested(u) = Total(f)
  BY <1>1, Vestings
<1>3. g \in [D -> Nat] /\ Vested(u)' = Total(g)
  BY <1>1, TableAssumption DEF Vested, VestedAt
<1>4. CASE now' = now
  <2>1. f = g
    BY <1>1, <1>4 DEF VestedAt, HasVested
  <2>2. Vested(u) \in Nat
    BY <1>2, TotalType
  <2> QED
    BY <1>2, <1>3, <2>1, <2>2
<1>5. CASE Tick
  <2>1. now \in Nat /\ now' = now + 1 /\ \A d \in D : d \in Nat
    BY <1>1, <1>5, TableAssumption DEF TInv, Typed, Tick
  <2>2. \A d \in D : HasVested(u, d) => HasVested(u, d)'
    BY <2>1 DEF HasVested
  <2>3. ASSUME NEW d \in D
        PROVE  f[d] <= g[d]
    <3>1. /\ f[d] = IF HasVested(u, d) THEN Vests[u][d] ELSE 0
          /\ g[d] = IF HasVested(u, d)' THEN Vests[u][d] ELSE 0
      BY <1>1 DEF VestedAt
    <3>2. Vests[u][d] \in Nat
      BY <1>1, TableAssumption
    <3> QED
      BY <2>2, <3>1, <3>2
  <2>4. Total(f) <= Total(g)
    BY ONLY <1>2, <1>3, <2>3, TotalMonotone
  <2>5. Total(f) \in Nat /\ Total(g) \in Nat
    BY ONLY <1>2, <1>3, TotalType
  <2> QED
    BY <1>2, <1>3, <2>4, <2>5
<1> QED
  BY <1>4, <1>5, RunKeepsFields
     DEF Next, RequestStep, ConfirmStep, BeginTransfer, BeginLockup, InsertTransfer,
         AnswerTransfer, CheckLockup, DateLockup, InsertLockup, AnswerLockup, CheckConfirm,
         CheckConfirmLockup, WriteConfirm, WriteConfirmLockup, ChainStep, Include, Bury, Reorg,
         SetState, Crash, vars

LEMMA EarnedStays ==
    ASSUME TInv, TInv', OInv, OInv', [Next]_vars, NEW u \in Users
    PROVE  UnlockedEarnings(u)' >= UnlockedEarnings(u)
<1>1. CASE Tick
  BY <1>1, TickEarns
<1>2. CASE \E v \in Users : InsertLockup(v)
  BY <1>2, InsertLockupEarns
<1>3. CASE UNCHANGED <<now, lockups>>
  BY <1>3, NothingMoved, EarnedNoLess
<1>4. ASSUME NEW c \in Confirmers, WriteConfirmLockup(c)
      PROVE  UnlockedEarnings(u)' >= UnlockedEarnings(u)
  BY <1>4, WriteConfirmLockupKeeps, EarnedNoLess DEF WriteConfirmLockup
<1> QED
  BY <1>1, <1>2, <1>3, <1>4, RunKeepsFields
     DEF Next, RequestStep, ConfirmStep, BeginTransfer, BeginLockup, InsertTransfer,
         AnswerTransfer, CheckLockup, DateLockup, AnswerLockup, CheckConfirm,
         CheckConfirmLockup, WriteConfirm, ChainStep, Include, Bury, Reorg,
         SetState, Crash, vars, tables, server

LEMMA SpentTyped ==
    ASSUME TInv, OInv, NEW u \in Users
    PROVE  Sum(transfers, SpentBy(u)) \in Nat /\ AmountsTyped(u)
<1>1. transfers \in Seq(TransferRow)
  BY DEF TInv, Typed
<1> QED
  BY <1>1, RowAmounts, SumType, Amounts

\* Rows stay, and none becomes spent.
LEMMA NoneSpent ==
    ASSUME TInv, TInv', OInv, OInv', QInv, [Next]_vars, FieldsKept,
           \A t \in DOMAIN transfers : Spent(t)' => Spent(t)
    PROVE  QInv'
<1> SUFFICES ASSUME NEW u \in Users
             PROVE  SpentWithin(u)'
  BY DEF QInv
<1>1. PICK before, after : before = SpentBy(u) /\ after = SpentBy(u)'
  OBVIOUS
<1>2. \A t \in DOMAIN transfers : t \in after => t \in before
  BY <1>1 DEF SpentBy, FieldsKept
<1>3. /\ transfers \in Seq(TransferRow) /\ transfers' \in Seq(TransferRow)
      /\ DOMAIN transfers' = DOMAIN transfers
      /\ \A i \in DOMAIN transfers : transfers'[i].amount = transfers[i].amount
  BY DEF TInv, Typed, FieldsKept
<1>4. Sum(transfers', after) <= Sum(transfers, before)
  BY ONLY <1>2, <1>3, RowAmounts, SumWithin
<1>5. Sum(transfers, before) <= Vested(u) + UnlockedEarnings(u)
  BY <1>1 DEF QInv, SpentWithin
<1>6. Vested(u)' >= Vested(u) /\ UnlockedEarnings(u)' >= UnlockedEarnings(u)
  BY VestedStays, EarnedStays
<1>7. AmountsTyped(u) /\ AmountsTyped(u)' /\ Sum(transfers, before) \in Nat
  BY <1>1, SpentTyped, AmountsNext
<1>8. Sum(transfers', after) \in Nat
  BY <1>3, RowAmounts, SumType
<1>9. Sum(transfers', after) <= Vested(u)' + UnlockedEarnings(u)'
  BY <1>4, <1>5, <1>6, <1>7, <1>8 DEF AmountsTyped
<1> QED
  BY <1>1, <1>9 DEF SpentWithin

LEMMA InsertTransferSpends ==
    ASSUME TInv, TInv', OInv, OInv', QInv, NEW v \in Users, InsertTransfer(v)
    PROVE  QInv'
<1> SUFFICES ASSUME NEW u \in Users
             PROVE  SpentWithin(u)'
  BY DEF QInv
<1>1. PICK row : /\ transfers' = Append(transfers, row) /\ row = transfers'[Len(transfers) + 1]
                 /\ row.status = "WaitingEmailConfirm"
                 /\ UNCHANGED <<now, job, lockups>>
  BY DEF InsertTransfer, TInv, Typed
<1>2. PICK before, after : before = SpentBy(u) /\ after = SpentBy(u)'
  OBVIOUS
<1>3. PICK x : x = Len(transfers) + 1
  OBVIOUS
<1>4. transfers \in Seq(TransferRow) /\ transfers' \in Seq(TransferRow)
  BY DEF TInv, Typed
<1>5. /\ x \notin DOMAIN transfers /\ DOMAIN transfers' = DOMAIN transfers \cup {x} /\ x # 0
      /\ transfers'[x] = row /\ \A i \in DOMAIN transfers : transfers'[i] = transfers[i]
  BY <1>1, <1>3, <1>4
<1>6. \A t \in DOMAIN transfers : t \in after => t \in before
  BY <1>1, <1>2, <1>5 DEF SpentBy, Spent
<1>7. x \notin after
  <2>1. \A r \in Runs : job[r].transfer # x
    BY <1>5, RunFacts DEF RunLinked
  <2> QED
    BY <1>1, <1>2, <1>5, <2>1 DEF SpentBy, Spent, Paying
<1>8. row \in TransferRow
  BY <1>4, <1>5
<1>9. Sum(Append(transfers, row), after)
            <= Sum(transfers, before) + (IF Len(transfers) + 1 \in after THEN row.amount ELSE 0)
  BY ONLY <1>4, <1>6, <1>8, RowAmounts, SumAppended
<1>10. Sum(transfers, before) \in Nat /\ AmountsTyped(u)
  BY <1>2, SpentTyped
<1>11. Sum(transfers', after) <= Sum(transfers, before)
  BY <1>1, <1>3, <1>7, <1>9, <1>10
<1>12. Vested(u)' = Vested(u) /\ UnlockedEarnings(u)' = UnlockedEarnings(u)
  BY <1>1 DEF Vested, HasVested, UnlockedEarnings
<1>13. Sum(transfers, before) <= Vested(u) + UnlockedEarnings(u)
  BY <1>2 DEF QInv, SpentWithin
<1>14. Sum(transfers', after) \in Nat
  BY <1>4, RowAmounts, SumType
<1> QED
  BY <1>2, <1>10, <1>11, <1>12, <1>13, <1>14 DEF SpentWithin, AmountsTyped

\* The balance that the run has found covers the transfer it is going to send.
LEMMA CheckBalanceSpends ==
    ASSUME TInv, TInv', OInv, OInv', PInv, QInv, OneRun, NEW r \in Runs, CheckBalance(r)
    PROVE  QInv'
<1>1. /\ job \in [Runs -> Run] /\ job[r] \in Run /\ job[r].pc = "balance"
      /\ UNCHANGED <<now, transfers, lockups, request, confirm>>
  BY RunFacts, RunKeepsFields DEF CheckBalance, RunStep, tables
<1>2. PICK t \in DOMAIN transfers : t = job[r].transfer
  BY <1>1, PickedTransfer
<1>3. transfers[t].status = "Enqueued"
  BY <1>1, <1>2, KnownRun DEF RunKnows
<1>4. \A s \in Runs \ {r} : job[s].pc # "mark"
  BY <1>1 DEF OneRun, Active
<1>5. FieldsKept /\ [Next]_vars
  BY <1>1 DEF FieldsKept, RunStep, Next
<1>6. CASE Finish(r)
  <2>1. \A s \in Runs : job'[s] \in {job[s], NoRun}
    BY <1>1, <1>6 DEF Finish
  <2> QED
    BY <1>1, <1>5, <2>1, NoneSpent DEF Spent, NoRun
<1>7. CASE ~(Available(transfers[t].user) < 0) /\ GoOn(r, "mark")
  <2>1. /\ \A s \in Runs \ {r} : job'[s] = job[s]
        /\ job'[r].pc = "mark" /\ job'[r].transfer = t
    BY <1>1, <1>2, <1>7 DEF GoOn, Run
  <2>2. \A s \in DOMAIN transfers : Spent(s)' => Spent(s) \/ s = t
    BY <1>1, <1>4, <2>1 DEF Spent
  <2> SUFFICES ASSUME NEW u \in Users
               PROVE  SpentWithin(u)'
    BY DEF QInv
  <2>3. Vested(u)' = Vested(u) /\ UnlockedEarnings(u)' = UnlockedEarnings(u)
    BY <1>1 DEF Vested, HasVested, UnlockedEarnings
  <2>4. transfers \in Seq(TransferRow)
    BY DEF TInv, Typed
  <2>5. PICK before, after, counted :
            /\ before = SpentBy(u) /\ after = SpentBy(u)'
            /\ counted = {i \in DOMAIN transfers : transfers[i].user = u /\ Counts(transfers[i])}
    OBVIOUS
  <2>6. Sum(transfers, after) \in Nat /\ Sum(transfers, before) \in Nat /\ AmountsTyped(u)
    BY <2>4, RowAmounts, SumType, Amounts
  <2>7. CASE transfers[t].user = u
    <3>1. \A s \in DOMAIN transfers : s \in after => s \in counted
      BY <1>1, <1>3, <1>4, <2>1, <2>5
         DEF SpentBy, Spent, Counts, Paying, PendingOrComplete, TransferStatuses
    <3>2. Sum(transfers, after) <= Sum(transfers, counted)
      BY ONLY <2>4, <3>1, RowAmounts, SumWithin
    <3>3. Withdrawn(u) = Sum(transfers, counted)
      BY <2>5, WithdrawnBy
    <3>4. Available(u) >= 0
      BY <1>7, <2>6, <2>7 DEF AmountsTyped
    <3>5. Sum(transfers, after) <= Vested(u) + UnlockedEarnings(u)
      BY <2>6, <3>2, <3>3, <3>4 DEF AmountsTyped, Available
    <3> QED
      BY <1>1, <2>3, <2>5, <3>5 DEF SpentWithin
  <2>8. CASE transfers[t].user # u
    <3>1. \A s \in DOMAIN transfers : s \in after => s \in before
      BY <1>1, <2>2, <2>5, <2>8 DEF SpentBy
    <3>2. Sum(transfers, after) <= Sum(transfers, before)
      BY ONLY <2>4, <3>1, RowAmounts, SumWithin
    <3>3. Sum(transfers, before) <= Vested(u) + UnlockedEarnings(u)
      BY <2>5 DEF QInv, SpentWithin
    <3>4. Sum(transfers, after) <= Vested(u) + UnlockedEarnings(u)
      BY <2>6, <3>2, <3>3 DEF AmountsTyped
    <3> QED
      BY <1>1, <2>3, <2>5, <3>4 DEF SpentWithin
  <2> QED
    BY <2>7, <2>8
<1> QED
  BY <1>2, <1>6, <1>7 DEF CheckBalance

\* No other step of a run makes a transfer spent: the one it marks was when it was checked.
LEMMA RunStepSpends ==
    ASSUME TInv, TInv', OInv, OInv', PInv, QInv, OneRun, NEW r \in Runs, RunStep(r)
    PROVE  QInv'
<1>1. job \in [Runs -> Run] /\ job[r] \in Run
  BY RunFacts
<1>2. FieldsKept /\ [Next]_vars /\ LifeCycle
  BY RunKeepsFields, StepLife DEF Next
<1>3. CASE CheckBalance(r)
  BY <1>3, CheckBalanceSpends
<1>4. CASE MarkProcessing(r)
  <2>1. /\ \A s \in Runs \ {r} : job'[s] = job[s]
        /\ job'[r].pc = "credit" /\ job[r].pc = "mark"
        /\ SetStatus(job[r].transfer, "Processing")
    BY <1>1, <1>4 DEF MarkProcessing, GoOn, Run
  <2>2. \A t \in DOMAIN transfers : t # job[r].transfer => transfers'[t] = transfers[t]
    BY <2>1 DEF SetStatus
  <2>3. \A t \in DOMAIN transfers : Spent(t)' => Spent(t)
    BY <2>1, <2>2 DEF Spent
  <2> QED
    BY <1>2, <2>3, NoneSpent
<1>5. CASE ~CheckBalance(r) /\ ~MarkProcessing(r)
  <2>1. (\A s \in Runs \ {r} : job'[s] = job[s]) /\ job'[r].pc # "mark"
    <3>1. CASE Finish(r)
      BY <1>1, <3>1 DEF Finish, NoRun
    <3>2. CASE \E pc \in {"processing", "create", "pick", "failed", "hung", "end"} : GoOn(r, pc)
      BY <1>1, <3>2 DEF GoOn, Run
    <3>3. CASE StartRun(r)
      BY <1>1, <3>3 DEF StartRun, NoRun
    <3>4. CASE \E t : job' = [job EXCEPT ![r].pc = "balance", ![r].transfer = t]
      BY <1>1, <3>4 DEF Run
    <3>5. CASE /\ job[r].pc = "confirming"
               /\ \E w : job' = [job EXCEPT ![r].todo = @ \ {w}]
      BY <1>1, <3>5 DEF Run
    <3>6. CASE \E h : job' = [job EXCEPT ![r].pc = "sent", ![r].hash = h]
      BY <1>1, <3>6 DEF Run
    <3> QED
      BY <1>5, <3>1, <3>2, <3>3, <3>4, <3>5, <3>6
         DEF RunStep, CheckBlockConfirmation, NotConfirmed, ReadTasks, ReadProcessing, CreateTask,
             PickTransfer, CreditRefused, CreditSent, CreditUnanswered, RecordFailed, RecordSent,
             EndTask
  <2>2. ASSUME NEW t \in DOMAIN transfers, transfers'[t].status = "Processing"
        PROVE  transfers[t].status = "Processing"
    <3>1. \A i \in DOMAIN transfers : transfers[i] \in TransferRow
      BY Positions DEF TInv
    <3>2. CASE transfers' = transfers
      BY <2>2, <3>2
    <3>3. CASE \E s \in DOMAIN transfers, status \in {"Success", "Failed"} : SetStatus(s, status)
      BY <2>2, <3>1, <3>3 DEF SetStatus, TransferRow
    <3>4. CASE RecordSent(r)
      BY <2>2, <3>1, <3>4 DEF RecordSent, TransferRow
    <3>5. \A w \in job[r].todo : w[1] \in DOMAIN transfers
      BY RunFacts DEF RunLinked
    <3>6. job[r].pc = "failed" => job[r].transfer \in DOMAIN transfers
      BY PickedTransfer
    <3> QED
      BY <1>5, <3>2, <3>3, <3>4, <3>5, <3>6
         DEF RunStep, StartRun, CheckBlockConfirmation, ReadTasks, ReadProcessing, CreateTask,
             PickTransfer, CreditRefused, CreditSent, CreditUnanswered, RecordFailed, EndTask,
             tables
  <2>3. ASSUME NEW t \in DOMAIN transfers, Spent(t)'
        PROVE  Spent(t)
    <3>1. Follows(transfers[t].status, transfers'[t].status)
      BY <1>2 DEF LifeCycle
    <3>2. CASE transfers'[t].status \in Paying
      BY <2>2, <3>1, <3>2 DEF Follows, Paying, Spent
    <3>3. CASE transfers'[t].status \notin Paying
      BY <2>1, <2>3, <3>3 DEF Spent
    <3> QED
      BY <3>2, <3>3
  <2> QED
    BY <1>2, <2>3, NoneSpent
<1> QED
  BY <1>3, <1>4, <1>5

LEMMA StepSpends ==
    TInv /\ OInv /\ PInv /\ QInv /\ OneRun /\ [Next]_vars => QInv'
<1> SUFFICES ASSUME TInv, OInv, PInv, QInv, OneRun, [Next]_vars
             PROVE  QInv'
  OBVIOUS
<1>0. TInv' /\ OInv'
  BY StepTyped, StepOrdered
<1>1. ASSUME transfers' = transfers, \A r \in Runs : job'[r] \in {job[r], NoRun}
      PROVE  QInv'
  BY <1>0, <1>1, NoneSpent DEF FieldsKept, Spent, NoRun
<1>2. CASE UNCHANGED vars \/ Tick \/ Crash \/ ChainStep \/ \E i \in DOMAIN chain : Reorg(i)
  BY <1>1, <1>2
     DEF vars, tables, server, Tick, Crash, ChainStep, Include, Bury, Reorg, SetState
<1>3. ASSUME NEW u \in Users,
             \/ \E amount \in TransferAmounts : BeginTransfer(u, amount)
             \/ \E amount \in LockupAmounts, kind \in {"early", "lockup"} :
                    BeginLockup(u, amount, kind)
             \/ AnswerTransfer(u) \/ CheckLockup(u) \/ DateLockup(u)
             \/ InsertLockup(u) \/ AnswerLockup(u)
      PROVE  QInv'
  BY <1>1, <1>3 DEF BeginTransfer, BeginLockup, AnswerTransfer, CheckLockup, DateLockup,
                    InsertLockup, AnswerLockup, tables
<1>4. ASSUME NEW u \in Users, InsertTransfer(u)
      PROVE  QInv'
  BY <1>0, <1>4, InsertTransferSpends
<1>5. ASSUME NEW c \in Confirmers,
             \/ \E t \in DOMAIN transfers : CheckConfirm(c, t)
             \/ \E k \in DOMAIN lockups : CheckConfirmLockup(c, k)
             \/ WriteConfirmLockup(c)
      PROVE  QInv'
  BY <1>1, <1>5 DEF CheckConfirm, CheckConfirmLockup, WriteConfirmLockup, tables
<1>6. ASSUME NEW c \in Confirmers, WriteConfirm(c)
      PROVE  QInv'
  <2>1. PICK t \in DOMAIN transfers : t = confirm[c].id
    BY <1>6 DEF WriteConfirm, TInv, Linked, ConfirmLinked
  <2>2. PICK status \in {"Expired", "Enqueued"} : SetStatus(t, status)
    <3>1. PICK status : status = IF confirm[c].kind = "expire" THEN "Expired" ELSE "Enqueued"
      OBVIOUS
    <3> QED
      BY <1>6, <2>1, <3>1 DEF WriteConfirm, SetStatus
  <2>3. transfers[t] \in TransferRow /\ UNCHANGED job
    BY <1>6, Positions DEF TInv, WriteConfirm
  <2>4. /\ \A i \in DOMAIN transfers : i # t => transfers'[i] = transfers[i]
        /\ transfers'[t].status = status
    BY <2>2, <2>3 DEF SetStatus, TransferRow
  <2>5. \A i \in DOMAIN transfers : Spent(i)' => Spent(i)
    BY <2>3, <2>4 DEF Spent, Paying
  <2>6. FieldsKept
    BY <2>2, StatusKeepsFields
  <2> QED
    BY <1>0, <2>5, <2>6, NoneSpent
<1>7. ASSUME NEW r \in Runs, RunStep(r)
      PROVE  QInv'
  BY <1>0, <1>7, RunStepSpends
<1> QED
  BY <1>2, <1>3, <1>4, <1>5, <1>6, <1>7 DEF Next, RequestStep, ConfirmStep

LEMMA InitSpends == Init => QInv
<1> SUFFICES ASSUME Init, NEW u \in Users
             PROVE  SpentWithin(u)
  BY DEF QInv
<1>1. TInv /\ OInv
  BY InitTyped, InitOrdered
<1>2. SpentBy(u) = {}
  BY DEF Init, SpentBy
<1>3. AmountsTyped(u)
  BY <1>1, Amounts
<1> QED
  BY <1>2, <1>3, SumNothing DEF SpentWithin, AmountsTyped

\* What the chain has taken is spent by the tables.
LEMMA PaidIsSpent ==
    ASSUME TInv, OInv, PInv, QInv, FailedIsUnpaid
    PROVE  SpendsOnlyVested
<1> SUFFICES ASSUME NEW u \in Users
             PROVE  Sum(transfers, {t \in DOMAIN transfers :
                                        transfers[t].user = u /\ Payments(t) # {}})
                        <= Vested(u) + UnlockedEarnings(u)
  BY DEF SpendsOnlyVested
<1>1. PICK paid, spent :
        /\ paid = {t \in DOMAIN transfers : transfers[t].user = u /\ Payments(t) # {}}
        /\ spent = SpentBy(u)
  OBVIOUS
<1>2. transfers \in Seq(TransferRow)
  BY DEF TInv, Typed
<1>3. ASSUME NEW t \in DOMAIN transfers, Payments(t) # {}
      PROVE  transfers[t].status \in Paying
  <2>1. transfers[t].status \in TransferStatuses
    BY Positions DEF TInv, TransferRow
  <2>2. ~NotSent(t)
    BY <1>3 DEF Payments, NotSent
  <2> QED
    BY <1>3, <2>1, <2>2 DEF FailedIsUnpaid, PInv, Unsent, TransferStatuses, Paying
<1>4. \A t \in DOMAIN transfers : t \in paid => t \in spent
  BY <1>1, <1>3 DEF SpentBy, Spent
<1>5. Sum(transfers, paid) <= Sum(transfers, spent)
  BY ONLY <1>2, <1>4, RowAmounts, SumWithin
<1>6. Sum(transfers, spent) <= Vested(u) + UnlockedEarnings(u)
  BY <1>1 DEF QInv, SpentWithin
<1>7. AmountsTyped(u) /\ Sum(transfers, paid) \in Nat /\ Sum(transfers, spent) \in Nat
  BY <1>2, RowAmounts, SumType, Amounts
<1> QED
  BY <1>1, <1>5, <1>6, <1>7 DEF AmountsTyped

(* What the transactions of the chain have moved or may still move for a user never exceeds
   what has vested and was earned, also where the user has come to owe tokens by a late
   confirmation, a cancelled grant or an early lockup: the balance is checked before each
   payment.  This takes that runs of the job and confirmations of one transfer do not overlap,
   and that no transfer is given up whose transaction comes back. *)
THEOREM OnlyVestedSpent ==
    Spec /\ []OneRun /\ []OneConfirmation /\ []FailedIsUnpaid => []SpendsOnlyVested
<1>1. TInv /\ OInv /\ PInv /\ QInv /\ FailedIsUnpaid => SpendsOnlyVested
  BY PaidIsSpent
<1>2. TInv /\ OInv /\ PInv /\ QInv /\ OneRun /\ [Next]_vars => QInv'
  BY StepSpends
<1> QED
  BY <1>1, <1>2, InitSpends, TypeInvariant, OrderInvariant, PaymentsInvariant, PTL DEF Spec

-----------------------------------------------------------------------------
(* Vesting schedules *)

\* The total of equal amounts is a product.
LEMMA TotalConstant ==
    ASSUME NEW S, IsFiniteSet(S), NEW q \in Nat
    PROVE  Total([k \in S |-> q]) = Cardinality(S) * q
<1> DEFINE f == [k \in S |-> q]
<1>1. Coins(f) = S \X (1 .. q)
  BY DEF Coins
<1>2. IsFiniteSet(1 .. q) /\ Cardinality(1 .. q) = q
  BY FS_Interval
<1>3. Cardinality(S \X (1 .. q)) = Cardinality(S) * Cardinality(1 .. q)
  BY <1>2, FS_Product
<1> QED
  BY <1>1, <1>2, <1>3 DEF Total

\* What part of a schedule has vested is no more than all of it.
LEMMA PartWithinWhole ==
    ASSUME NEW S, IsFiniteSet(S), NEW f \in [S -> Nat], NEW part
    PROVE  VestedAmount(f, part) <= Total(f)
<1> DEFINE g == [i \in S |-> IF i \in part THEN f[i] ELSE 0]
<1>1. Coins(g) \subseteq Coins(f)
  BY DEF Coins
<1>2. IsFiniteSet(Coins(f))
  BY TotalType
<1>3. Cardinality(Coins(g)) <= Cardinality(Coins(f))
  BY <1>1, <1>2, FS_Subset
<1>4. DOMAIN f = S
  OBVIOUS
<1> QED
  BY <1>3, <1>4 DEF VestedAmount, Total

\* A schedule of n + 1 vests: c first, then q each, and e more with the last one.
IsSchedule(f, n, c, q, e) ==
    /\ f \in [0 .. n -> Nat]
    /\ \A i \in 0 .. n : f[i] = (IF i = 0 THEN c ELSE q) + (IF i = n THEN e ELSE 0)

LEMMA TotalOfSchedule ==
    ASSUME NEW n \in Nat, NEW c \in Nat, NEW q \in Nat, NEW e \in Nat,
           NEW f, IsSchedule(f, n, c, q, e)
    PROVE  Total(f) = c + n * q + e
<1> DEFINE flat == [i \in 0 .. n |-> q]
           first == [flat EXCEPT ![0] = c]
<1>1. IsFiniteSet(0 .. n) /\ Cardinality(0 .. n) = n + 1
  BY FS_Interval
<1>2. /\ flat \in [0 .. n -> Nat] /\ first \in [0 .. n -> Nat] /\ f \in [0 .. n -> Nat]
      /\ 0 \in 0 .. n /\ n \in 0 .. n /\ flat[0] = q /\ first[0] = c
      /\ \A k \in (0 .. n) \ {0} : first[k] = flat[k]
  BY DEF IsSchedule
<1>3. Total(flat) = (n + 1) * q
  BY <1>1, TotalConstant
<1>5. /\ first[n] = IF n = 0 THEN c ELSE q
      /\ \A k \in (0 .. n) \ {n} : f[k] = first[k]
  BY DEF IsSchedule
<1> HIDE DEF first, flat
<1>6. f[n] = first[n] + e
  <2>1. f[n] = (IF n = 0 THEN c ELSE q) + e
    BY <1>2 DEF IsSchedule
  <2>2. QED
    BY ONLY <1>5, <2>1
<1>4. Total(first) = Total(flat) - q + c
  <2>1. Total(first) = Total(flat) - flat[0] + first[0]
    <3>1. PICK S : S = 0 .. n
      OBVIOUS
    <3>2. /\ IsFiniteSet(S) /\ flat \in [S -> Nat] /\ first \in [S -> Nat] /\ 0 \in S
          /\ \A k \in S \ {0} : first[k] = flat[k]
      BY ONLY <1>1, <1>2, <3>1
    <3> QED
      BY ONLY <3>2, TotalChange
  <2>2. QED
    BY ONLY <1>2, <2>1
<1>7. Total(f) = Total(first) - first[n] + f[n]
  <2>1. PICK S : S = 0 .. n
    OBVIOUS
  <2>2. /\ IsFiniteSet(S) /\ f \in [S -> Nat] /\ first \in [S -> Nat] /\ n \in S
        /\ \A k \in S \ {n} : f[k] = first[k]
    BY ONLY <1>1, <1>2, <1>5, <2>1
  <2>3. QED
    BY ONLY <2>2, TotalChange
<1>8. Total(first) \in Nat /\ first[n] \in Nat
  BY <1>1, <1>2, TotalType
<1>9. (n + 1) * q = n * q + q
  OBVIOUS
<1>10. Total(f) = Total(first) + e
  BY <1>6, <1>7, <1>8
<1> QED
  BY <1>3, <1>4, <1>9, <1>10

\* Rounded down, a share of an amount stays within it.
LEMMA ShareWithin ==
    ASSUME NEW a \in Nat, NEW k \in Nat, NEW n \in Nat \ {0}, k <= n
    PROVE  (a * k) \div n \in 0 .. a
<1> DEFINE d == (a * k) \div n
<1>1. a * k \in Nat /\ a * k <= a * n
  OBVIOUS
<1>2. d \in Nat /\ d * n <= a * k
  BY <1>1
<1>3. d <= a
  <2>1. d * n <= a * n
    BY <1>1, <1>2
  <2> QED
    BY <2>1, <1>2
<1> QED
  BY <1>2, <1>3

\* The parts of an employee's schedule are natural numbers.
LEMMA EmployeeParts ==
    ASSUME NEW g \in EmployeeGrants
    PROVE  /\ RemainingVestingCount(g) \in Nat
           /\ CliffVestAmount(g) \in Nat
           /\ VestedPerEvent(g) \in Nat
           /\ EmployeeRoundingError(g) \in Nat
<1> DEFINE months == VestingEventCount(g)
           before == CliffVestingCount(g)
           n == RemainingVestingCount(g)
           c == CliffVestAmount(g)
           q == VestedPerEvent(g)
<1>1. /\ g.amount \in Nat /\ months \in Nat \ {0} /\ before \in Nat /\ before <= months
      /\ n \in Nat /\ n = months - before
  BY DEF EmployeeGrants, VestingEventCount, CliffVestingCount, RemainingVestingCount
<1>2. c \in 0 .. g.amount
  BY <1>1, ShareWithin DEF CliffVestAmount
<1>3. q \in Nat /\ n * q <= g.amount - c
  <2>1. CASE n = 0
    BY <2>1, <1>1, <1>2 DEF VestedPerEvent
  <2>2. CASE n # 0
    <3> DEFINE rest == g.amount - c
    <3>1. rest \in Nat /\ n \in Nat \ {0}
      BY <1>1, <1>2, <2>2
    <3>2. q = rest \div n
      BY <2>2 DEF VestedPerEvent
    <3>3. rest \div n \in Nat /\ n * (rest \div n) <= rest
      BY <3>1
    <3> QED
      BY <3>2, <3>3
  <2> QED
    BY <2>1, <2>2
<1> QED
  BY <1>1, <1>2, <1>3 DEF EmployeeRoundingError

\* An employee's grant vests to the last token: the vests are natural numbers and add up
\* to the amount, for every grant, also where the shares do not divide it
\* (vesting.js employeeVestingSchedule).
THEOREM EmployeeVestsWholeGrant ==
    ASSUME NEW g \in EmployeeGrants
    PROVE  /\ EmployeeSchedule(g) \in [0 .. RemainingVestingCount(g) -> Nat]
           /\ Total(EmployeeSchedule(g)) = g.amount
<1> DEFINE n == RemainingVestingCount(g)
           c == CliffVestAmount(g)
           q == VestedPerEvent(g)
           e == EmployeeRoundingError(g)
           f == EmployeeSchedule(g)
<1>1. n \in Nat /\ c \in Nat /\ q \in Nat /\ e \in Nat
  BY EmployeeParts
<1>2. f = [i \in 0 .. n |-> (IF i = 0 THEN c ELSE q) + (IF i = n THEN e ELSE 0)]
  BY DEF EmployeeSchedule
<1>3. e = g.amount - (c + n * q) /\ g.amount \in Nat
  BY DEF EmployeeRoundingError, EmployeeGrants
<1> HIDE DEF n, c, q, e, f
<1>4. f \in [0 .. n -> Nat] /\ IsSchedule(f, n, c, q, e)
  BY <1>1, <1>2 DEF IsSchedule
<1>5. Total(f) = c + n * q + e
  BY <1>1, <1>4, TotalOfSchedule
<1>6. n * q \in Nat
  BY <1>1
<1>7. Total(f) = g.amount
  BY <1>1, <1>3, <1>5, <1>6
<1> QED
  BY <1>4, <1>7 DEF n, f

\* An investor's grant vests to the last token in nine vests
\* (vesting.js investorVestingSchedule).
THEOREM InvestorVestsWholeGrant ==
    ASSUME NEW amount \in Nat
    PROVE  /\ InvestorSchedule(amount) \in [0 .. 8 -> Nat]
           /\ Total(InvestorSchedule(amount)) = amount
<1> DEFINE c == InitialVestAmount(amount)
           q == QuarterlyVestAmount(amount)
           e == InvestorRoundingError(amount)
           f == InvestorSchedule(amount)
<1>1. c \in Nat /\ 100 * c <= 6 * amount
  BY DEF InitialVestAmount
<1>2. q \in Nat /\ 10000 * q <= 1175 * amount
  BY DEF QuarterlyVestAmount
<1>3. e = amount - (q * 8 + c)
  BY DEF InvestorRoundingError
<1>4. f = [i \in 0 .. 8 |-> IF i = 0 THEN c ELSE q + (IF i = 8 THEN e ELSE 0)]
  BY DEF InvestorSchedule
<1> HIDE DEF c, q, e, f
<1>5. e \in Nat
  BY <1>1, <1>2, <1>3
<1>6. f \in [0 .. 8 -> Nat] /\ IsSchedule(f, 8, c, q, e)
  BY <1>1, <1>2, <1>4, <1>5 DEF IsSchedule
<1>7. Total(f) = c + 8 * q + e
  <2>1. PICK n \in Nat : n = 8
    OBVIOUS
  <2>2. IsSchedule(f, n, c, q, e)
    BY <1>6, <2>1
  <2>3. Total(f) = c + n * q + e
    BY ONLY <1>1, <1>2, <1>5, <2>1, <2>2, TotalOfSchedule
  <2>4. QED
    BY ONLY <2>1, <2>3
<1>8. Total(f) = amount
  BY <1>1, <1>2, <1>3, <1>7
<1> QED
  BY <1>6, <1>8 DEF f

\* At no time, and whatever a cancellation leaves out, has more vested than was granted
\* (vesting.js vestedAmount, hasVested).
THEOREM VestedWithinGrant ==
    /\ \A g \in EmployeeGrants : \A vested :
            VestedAmount(EmployeeSchedule(g), vested) <= g.amount
    /\ \A amount \in Nat : \A vested :
            VestedAmount(InvestorSchedule(amount), vested) <= amount
<1>1. ASSUME NEW g \in EmployeeGrants, NEW vested
      PROVE  VestedAmount(EmployeeSchedule(g), vested) <= g.amount
  <2>1. IsFiniteSet(0 .. RemainingVestingCount(g))
    BY EmployeeParts, FS_Interval
  <2> QED
    BY <2>1, EmployeeVestsWholeGrant, PartWithinWhole
<1>2. ASSUME NEW amount \in Nat, NEW vested
      PROVE  VestedAmount(InvestorSchedule(amount), vested) <= amount
  <2>1. 0 \in Int /\ 8 \in Int
    OBVIOUS
  <2>2. IsFiniteSet(0 .. 8)
    BY ONLY <2>1, FS_Interval
  <2> QED
    BY <2>2, InvestorVestsWholeGrant, PartWithinWhole
<1> QED
  BY <1>1, <1>2

\* By date the vests are the same: each has a date of its own, from the cliff to the end.
LEMMA EmployeeVestsByDate ==
    ASSUME NEW g \in EmployeeGrants
    PROVE  /\ IsFiniteSet(DOMAIN EmployeeVests(g))
           /\ EmployeeVests(g) \in [DOMAIN EmployeeVests(g) -> Nat]
           /\ Total(EmployeeVests(g)) = g.amount
           /\ \A d \in DOMAIN EmployeeVests(g) : d \in Int /\ g.cliff <= d /\ d <= g.end
<1>1. PICK n, f, h, S, T, p :
            /\ n = RemainingVestingCount(g) /\ f = EmployeeSchedule(g) /\ h = EmployeeVests(g)
            /\ S = 0 .. RemainingVestingCount(g)
            /\ p = [i \in 0 .. RemainingVestingCount(g) |-> g.cliff + i]
            /\ T = {g.cliff + i : i \in 0 .. RemainingVestingCount(g)}
  OBVIOUS
<1>2. /\ n \in Nat /\ n = g.end - g.cliff /\ g.cliff \in Int /\ g.end \in Int
  BY <1>1, EmployeeParts
     DEF RemainingVestingCount, VestingEventCount, CliffVestingCount, EmployeeGrants
<1>3. f \in [S -> Nat] /\ Total(f) = g.amount
  BY <1>1, EmployeeVestsWholeGrant
<1>4. h = [d \in T |-> f[CHOOSE i \in S : p[i] = d]]
  BY <1>1, <1>3 DEF EmployeeVests, ByDate, EmployeeVestDate
<1>5. p \in [S -> T] /\ \A i, j \in S : p[i] = p[j] => i = j
  BY <1>1, <1>2
<1>6. /\ \A t \in T : \E i \in S : p[i] = t
      /\ ExistsBijection(S, T)
  <2>1. \A t \in T : \E i \in S : p[i] = t
    BY <1>1
  <2>2. p \in Bijection(S, T)
    BY <1>5, <2>1, Fun_IsBij
  <2> QED
    BY <2>1, <2>2 DEF ExistsBijection
<1>7. \A i \in S : h[p[i]] = f[i]
  BY <1>4, <1>5
<1>8. h \in [T -> Nat]
  <2>1. ASSUME NEW d \in T
        PROVE  h[d] \in Nat
    <3>1. PICK i \in S : p[i] = d
      BY <1>6
    <3> QED
      BY <1>5, <1>7, <1>3, <3>1
  <2> QED
    BY <1>4, <2>1
<1>9. IsFiniteSet(S)
  BY <1>1, <1>2, FS_Interval
<1>10. IsFiniteSet(T)
  BY <1>6, <1>9, FS_Bijection
<1>11. Total(h) = Total(f)
  BY ONLY <1>3, <1>5, <1>6, <1>7, <1>8, <1>9, TotalRenamed
<1>12. \A d \in T : d \in Int /\ g.cliff <= d /\ d <= g.end
  BY <1>1, <1>2
<1>13. DOMAIN h = T
  BY <1>8
<1> QED
  BY <1>1, <1>3, <1>8, <1>10, <1>11, <1>12, <1>13

(* Whatever an employee's grant, at no time has more of it vested than its amount, and from its
   end on what has vested and what a cancellation called off add up to it, to the last token that
   rounding the shares left over (vesting.js employeeVestingSchedule, vestedAmount). *)
THEOREM EmployeeGrantVested ==
    ASSUME NEW g \in EmployeeGrants, NEW u \in Users, Vests[u] = EmployeeVests(g),
           now \in Int, Cancelled[u] \in Int
    PROVE  /\ Vested(u) <= g.amount
           /\ g.end <= now => Vested(u) + CalledOff(u) = g.amount
<1>1. PICK v, D, f, h :
          /\ v = Vests[u] /\ D = DOMAIN Vests[u]
          /\ f = [d \in DOMAIN Vests[u] |-> IF HasVested(u, d) THEN Vests[u][d] ELSE 0]
          /\ h = [d \in DOMAIN Vests[u] |-> IF d > Cancelled[u] THEN Vests[u][d] ELSE 0]
  OBVIOUS
<1>2. /\ IsFiniteSet(D) /\ v \in [D -> Nat] /\ Total(v) = g.amount
      /\ \A d \in D : d \in Int /\ d <= g.end
  BY <1>1, EmployeeVestsByDate
<1>3. Vested(u) = Total(f) /\ f \in [D -> Nat] /\ \A d \in D : f[d] <= v[d]
  BY <1>1, <1>2 DEF Vested
<1>4. CalledOff(u) = Total(h) /\ h \in [D -> Nat]
  BY <1>1, <1>2 DEF CalledOff
<1>5. Total(f) <= Total(v)
  BY ONLY <1>2, <1>3, TotalMonotone
<1>6. ASSUME g.end <= now
      PROVE  Total(v) = Total(f) + Total(h)
  <2>1. g.end \in Int
    BY DEF EmployeeGrants
  <2>2. \A d \in D : HasVested(u, d) <=> ~(d > Cancelled[u])
    BY <1>2, <1>6, <2>1 DEF HasVested
  <2>3. \A d \in D : (f[d] = v[d] /\ h[d] = 0) \/ (f[d] = 0 /\ h[d] = v[d])
    BY <1>1, <2>2
  <2> QED
    BY ONLY <1>2, <1>3, <1>4, <2>3, TotalParts
<1> QED
  BY <1>2, <1>3, <1>4, <1>5, <1>6

(* And so every user of the instance whose grants TLC is given, at all times and whenever the
   grants are cancelled. *)
THEOREM GrantVestsToTheToken ==
    ASSUME Vests = LaterVest
    PROVE  Spec => []GrantVests
<1>1. Grant \in EmployeeGrants /\ Grant.end = 2
  BY DEF Grant, EmployeeGrants
<1>2. TInv => GrantVests
  <2> SUFFICES ASSUME TInv, NEW u \in Users
               PROVE  /\ Vested(u) <= Grant.amount
                      /\ now >= Grant.end => Vested(u) + CalledOff(u) = Grant.amount
    BY DEF GrantVests
  <2>1. Vests[u] = EmployeeVests(Grant) /\ Cancelled[u] \in Int
    BY TableAssumption DEF LaterVest
  <2>2. now \in Int
    BY DEF TInv, Typed
  <2> QED
    BY <1>1, <2>1, <2>2, EmployeeGrantVested
<1> QED
  BY <1>2, TypeInvariant, PTL
=============================================================================
