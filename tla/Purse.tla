------------------------------- MODULE Purse -------------------------------
(***************************************************************************)
(* The purse of the relayer, infra/relayer/src/purse.js: it sends          *)
(* transactions for the relayer from whichever of its child accounts is    *)
(* free, and follows them until they are mined.                            *)
(*                                                                         *)
(* An account is locked from its selection to the moment its new           *)
(* transaction is counted.  The purse keeps counts, nonces and pending     *)
(* transactions in memory, mirrors nonces and pending transactions in      *)
(* Redis, and a background loop settles receipts, rebroadcasts what the    *)
(* node has dropped and frees forgotten locks.  Every await is a point     *)
(* where the other requests and the loop interleave.                       *)
(*                                                                         *)
(* A transaction is identified by the call of sendTx that makes it.  The   *)
(* children are funded: the master account, which funds them, and balances *)
(* are left out, and so are metrics and a Redis that is down.              *)
(***************************************************************************)
EXTENDS Integers, FiniteSets, FiniteSetsExt

CONSTANTS
    NumChildren,    (* DEFAULT_CHILDREN                                     *)
    MaxPending,     (* maxPendingPerAccount                                 *)
    MaxSends,       (* bound: calls of sendTx                               *)
    MaxDrops,       (* bound: transactions that the node refuses or drops   *)
    MaxCrashes      (* bound: restarts of the relayer                       *)

Children == 1 .. NumChildren
Sends    == 1 .. MaxSends

ASSUME PurseAssumption ==
    /\ NumChildren \in Nat \ {0} /\ MaxPending \in Nat \ {0}
    /\ MaxSends \in Nat /\ MaxDrops \in Nat /\ MaxCrashes \in Nat

VARIABLES
    boot,           (* progress of init(): its stage and what is left to do *)
    accounts,       (* accounts[a]: txCount, pendingCount, locked           *)
    lookup,         (* accountLookupInProgress                              *)
    sends,          (* sends[r]: where the call r of sendTx is              *)
    tx,             (* tx[r]: sender and nonce of the transaction of r      *)
    tracked,        (* pendingTransactions                                  *)
    meta,           (* transactionMeta                                      *)
    loop,           (* where _process() is in settling a receipt            *)
    redis,          (* nonce counts, pending set and raw transactions       *)
    pool, mined,    (* the node: unmined transactions and mined ones        *)
    drops, crashes

memory  == <<boot, accounts, lookup, tracked, meta, loop>>
network == <<pool, mined, drops>>
purse   == <<memory, sends, tx, redis, network, crashes>>

NoTx == [from |-> 0, nonce |-> 0]
Idle == [pc |-> "idle", child |-> 0, best |-> 0, lowest |-> 0]
Resting == [pc |-> "idle", tx |-> 0]
NoAccount == [txCount |-> 0, pendingCount |-> 0, locked |-> FALSE]
Down == [stage |-> "none", children |-> 0, hashes |-> {}]

Init ==
    /\ boot = Down
    /\ accounts = [a \in Children |-> NoAccount]
    /\ lookup = FALSE
    /\ sends = [r \in Sends |-> Idle]
    /\ tx = [r \in Sends |-> NoTx]
    /\ tracked = {} /\ meta = {}
    /\ loop = Resting
    /\ redis = [count |-> [a \in Children |-> 0], pending |-> {}, raw |-> {}]
    /\ pool = {} /\ mined = {}
    /\ drops = 0 /\ crashes = 0

At(r, pc)   == sends[r].pc = pc
Goto(r, pc) == sends' = [sends EXCEPT ![r].pc = pc]

-----------------------------------------------------------------------------
(* The Ethereum node *)

Of(a, txs) == {r \in txs : tx[r].from = a}

\* The next nonce of an account, on the chain.
NextNonce(a) == Cardinality(Of(a, mined))

\* eth_getTransactionCount(a, "pending"): the pool extends the chain without gaps.
PendingNonce(a) ==
    Min({n \in NextNonce(a) .. NextNonce(a) + MaxSends :
            ~ \E r \in Of(a, pool) : tx[r].nonce = n})

Acceptable(r) ==
    /\ tx[r].nonce >= NextNonce(tx[r].from)
    /\ ~ \E s \in Of(tx[r].from, pool) : tx[s].nonce = tx[r].nonce

\* sendRawTransaction: the promise resolves with the error of the node as with its
\* answer, so the purse does not know whether the node took the transaction.
Broadcast(r) ==
    \/ /\ pool' = IF Acceptable(r) THEN pool \cup {r} ELSE pool
       /\ UNCHANGED drops
    \/ /\ drops < MaxDrops
       /\ drops' = drops + 1
       /\ UNCHANGED pool

Mine(r) ==
    /\ r \in pool /\ tx[r].nonce = NextNonce(tx[r].from)
    /\ pool' = pool \ {r} /\ mined' = mined \cup {r}
    /\ UNCHANGED <<memory, sends, tx, redis, drops, crashes>>

Drop(r) ==
    /\ r \in pool /\ drops < MaxDrops
    /\ pool' = pool \ {r}
    /\ drops' = drops + 1
    /\ UNCHANGED <<memory, sends, tx, redis, mined, crashes>>

-----------------------------------------------------------------------------
(* Start: init() is called by the first request and is under way until it has
   created the accounts and loaded the pending transactions.  A second request
   finds the master wallet set and does not wait for it.  Requests are numbered as
   they come, and call sendTx after checks of their own. *)

Call(r) ==
    /\ At(r, "idle") /\ \A s \in 1 .. r - 1 : ~At(s, "idle")
    /\ IF boot.stage = "none"
       THEN boot' = [boot EXCEPT !.stage = "accounts"] /\ Goto(r, "init")
       ELSE UNCHANGED boot /\ Goto(r, "called")
    /\ UNCHANGED <<accounts, lookup, tracked, meta, loop, tx, redis, network, crashes>>

SendTx(r) ==
    /\ At(r, "called")
    /\ Goto(r, "waiting")
    /\ UNCHANGED <<memory, tx, redis, network, crashes>>

\* txCount(): the count in memory if there is one, else the larger of Redis and node.
TxCount(a) ==
    IF accounts[a].txCount > 0 THEN accounts[a].txCount
    ELSE Max({redis.count[a], PendingNonce(a)})

RedisRaised(a) ==
    IF accounts[a].txCount > 0 THEN redis
    ELSE [redis EXCEPT !.count[a] = Max({redis.count[a], PendingNonce(a)})]

InitAccount ==
    /\ boot.stage = "accounts" /\ boot.children < NumChildren
    /\ LET a == boot.children + 1 IN
        /\ accounts' = [accounts EXCEPT ![a] = [NoAccount EXCEPT !.txCount = TxCount(a)]]
        /\ redis' = RedisRaised(a)
        /\ boot' = [boot EXCEPT !.children = a]
    /\ UNCHANGED <<lookup, tracked, meta, loop, sends, tx, network, crashes>>

ListPending ==
    /\ boot.stage = "accounts" /\ boot.children = NumChildren
    /\ boot' = [boot EXCEPT !.stage = "pending", !.hashes = redis.pending]
    /\ UNCHANGED <<accounts, lookup, tracked, meta, loop, sends, tx, redis, network, crashes>>

\* Slip: what Redis brings back is tracked and not counted.
LoadUncounted(a, found) == accounts

\* A hash the node knows counts for its sender, unless its raw transaction is missing.
LoadCount(a, found) ==
    IF found THEN [accounts EXCEPT ![a].pendingCount = @ + 1] ELSE accounts

\* _populatePending() for one hash: one that the node does not know is left out.
LoadPending(r) ==
    /\ boot.stage = "pending" /\ r \in boot.hashes
    /\ LET found == r \in (pool \cup mined) \cap redis.raw IN
        /\ tracked' = IF found THEN tracked \cup {r} ELSE tracked
        /\ accounts' = LoadCount(tx[r].from, found)
    /\ boot' = [boot EXCEPT !.hashes = @ \ {r}]
    /\ UNCHANGED <<lookup, meta, loop, sends, tx, redis, network, crashes>>

Ready ==
    /\ boot.stage = "pending" /\ boot.hashes = {}
    /\ boot' = [boot EXCEPT !.stage = "ready"]
    /\ sends' = [r \in Sends |->
                    IF At(r, "init") THEN [sends[r] EXCEPT !.pc = "called"] ELSE sends[r]]
    /\ UNCHANGED <<accounts, lookup, tracked, meta, loop, tx, redis, network, crashes>>

-----------------------------------------------------------------------------
(* getAvailableAccount() *)

LookUp(r) ==
    /\ At(r, "waiting") /\ ~lookup
    /\ lookup' = TRUE
    /\ sends' = [sends EXCEPT ![r] =
                    [pc |-> "looking", child |-> 1, best |-> 0, lowest |-> MaxPending]]
    /\ UNCHANGED <<boot, accounts, tracked, meta, loop, tx, redis, network, crashes>>

\* Slip: the lock is not looked at.
Unloaded(r, a) == accounts[a].pendingCount < sends[r].lowest

Available(r, a) ==
    /\ ~accounts[a].locked
    /\ accounts[a].pendingCount < sends[r].lowest

\* The balance of one child has come: the child may have less pending than the best so
\* far had when it was chosen, and that one then stays locked.
Consider(r) ==
    /\ At(r, "looking") /\ sends[r].child <= boot.children
    /\ LET a == sends[r].child IN
       IF Available(r, a)
       THEN /\ accounts' = [accounts EXCEPT ![a].locked = TRUE]
            /\ sends' = [sends EXCEPT ![r].best = a, ![r].child = a + 1,
                                      ![r].lowest = accounts[a].pendingCount]
       ELSE /\ sends' = [sends EXCEPT ![r].child = a + 1]
            /\ UNCHANGED accounts
    /\ UNCHANGED <<boot, lookup, tracked, meta, loop, tx, redis, network, crashes>>

\* All children seen: take the best, or look again after a second.
Select(r) ==
    /\ At(r, "looking") /\ sends[r].child > boot.children
    /\ IF sends[r].best # 0
       THEN /\ lookup' = FALSE
            /\ accounts' = [accounts EXCEPT ![sends[r].best].locked = TRUE]
            /\ sends' = [sends EXCEPT ![r].pc = "nonce", ![r].lowest = 0]
       ELSE /\ sends' = [sends EXCEPT ![r].child = 1]
            /\ UNCHANGED <<accounts, lookup>>
    /\ UNCHANGED <<boot, tracked, meta, loop, tx, redis, network, crashes>>

\* ACCOUNT_ACQUISITION_TIMEOUT, seen between two rounds.  Whoever runs into it
\* clears the flag, also when another call holds it.
Timeout(r) ==
    /\ \/ At(r, "waiting")
       \/ At(r, "looking") /\ sends[r].best = 0 /\ sends[r].child = 1
    /\ lookup' = FALSE
    /\ Goto(r, "failed")
    /\ UNCHANGED <<boot, accounts, tracked, meta, loop, tx, redis, network, crashes>>

-----------------------------------------------------------------------------
(* sendTx() with the account in hand *)

Sign(r) ==
    /\ At(r, "nonce")
    /\ LET a == sends[r].best IN
        /\ tx' = [tx EXCEPT ![r] = [from |-> a, nonce |-> TxCount(a)]]
        /\ redis' = RedisRaised(a)
    /\ Goto(r, "send")
    /\ UNCHANGED <<memory, network, crashes>>

\* The price of gas is above MAX_GAS_PRICE: the call fails and the lock stays.
GasTooHigh(r) ==
    /\ At(r, "nonce")
    /\ Goto(r, "failed")
    /\ UNCHANGED <<memory, tx, redis, network, crashes>>

Send(r) ==
    /\ At(r, "send")
    /\ Broadcast(r)
    /\ Goto(r, "track")
    /\ UNCHANGED <<memory, tx, redis, mined, crashes>>

\* addPending(): memory and the pending set, then the raw transaction.
Track(r) ==
    /\ At(r, "track")
    /\ tracked' = tracked \cup {r} /\ meta' = meta \cup {r}
    /\ redis' = [redis EXCEPT !.pending = @ \cup {r}]
    /\ Goto(r, "raw")
    /\ UNCHANGED <<boot, accounts, lookup, loop, tx, network, crashes>>

SaveRaw(r) ==
    /\ At(r, "raw")
    /\ redis' = [redis EXCEPT !.raw = @ \cup {r}]
    /\ Goto(r, "count")
    /\ UNCHANGED <<memory, tx, network, crashes>>

\* incrementTxCount()
Count(r) ==
    /\ At(r, "count")
    /\ LET a == tx[r].from IN
        /\ accounts' = [accounts EXCEPT ![a] =
             [txCount |-> accounts[a].txCount + 1,
              pendingCount |-> accounts[a].pendingCount + 1, locked |-> FALSE]]
        /\ redis' = [redis EXCEPT !.count[a] = @ + 1]
    /\ Goto(r, "sent")
    /\ UNCHANGED <<boot, lookup, tracked, meta, loop, tx, network, crashes>>

-----------------------------------------------------------------------------
(* _process(): the background loop, idle until init() has ended *)

Looping == boot.stage = "ready" /\ loop = Resting

\* Slip: the block number of the receipt is not looked at.
Known(r) == r \in pool \cup mined

HasReceipt(r) == r \in mined

SeeReceipt(r) ==
    /\ Looping /\ r \in tracked /\ HasReceipt(r)
    /\ loop' = [pc |-> "callbacks", tx |-> r]
    /\ UNCHANGED <<boot, accounts, lookup, tracked, meta, sends, tx, redis, network, crashes>>

\* The receipt callbacks have ended: removePending().
RemovePending(r) ==
    /\ loop = [pc |-> "callbacks", tx |-> r]
    /\ tracked' = tracked \ {r} /\ meta' = meta \ {r}
    /\ redis' = [redis EXCEPT !.pending = @ \ {r}, !.raw = @ \ {r}]
    /\ loop' = [pc |-> "adjust", tx |-> r]
    /\ UNCHANGED <<boot, accounts, lookup, sends, tx, network, crashes>>

\* Slip: a count that is zero is lowered too.
LowerAlways(n) == n - 1

\* A count that is zero already is reported and left alone.
Lower(n) == IF n > 0 THEN n - 1 ELSE n

Adjust(r) ==
    /\ loop = [pc |-> "adjust", tx |-> r]
    /\ accounts' = [accounts EXCEPT ![tx[r].from].pendingCount = Lower(@)]
    /\ loop' = Resting
    /\ UNCHANGED <<boot, lookup, tracked, meta, sends, tx, redis, network, crashes>>

\* Slip: a transaction is broadcast once.
NoRebroadcast(r) == FALSE /\ UNCHANGED purse

Rebroadcast(r) ==
    /\ Looping /\ r \in tracked \ (pool \cup mined)
    /\ Broadcast(r)
    /\ UNCHANGED <<memory, sends, tx, redis, mined, crashes>>

\* The account is in the hands of a call under way.
Held(a) ==
    \E r \in Sends : sends[r].best = a
        /\ sends[r].pc \in {"looking", "nonce", "send", "track", "raw", "count"}

\* A lock older than MAX_LOCK_TIME on an account without pending transactions is
\* cleared; a call is taken to need less time than that with its account.
SweepLock(a) ==
    /\ Looping /\ a <= boot.children
    /\ accounts[a].locked /\ accounts[a].pendingCount = 0
    /\ ~Held(a)
    /\ accounts' = [accounts EXCEPT ![a].locked = FALSE]
    /\ UNCHANGED <<boot, lookup, tracked, meta, loop, sends, tx, redis, network, crashes>>

\* The relayer is restarted: what is in memory is gone, and so are the calls.
Crash ==
    /\ crashes < MaxCrashes
    /\ crashes' = crashes + 1
    /\ boot' = Down
    /\ accounts' = [a \in Children |-> NoAccount]
    /\ lookup' = FALSE
    /\ tracked' = {} /\ meta' = {}
    /\ loop' = Resting
    /\ sends' = [r \in Sends |->
          IF sends[r].pc \in {"idle", "sent", "failed"} THEN sends[r]
          ELSE [sends[r] EXCEPT !.pc = "failed"]]
    /\ UNCHANGED <<tx, redis, network>>

-----------------------------------------------------------------------------

Booting == InitAccount \/ ListPending \/ Ready \/ \E r \in Sends : LoadPending(r)

Sending(r) ==
    \/ SendTx(r) \/ LookUp(r) \/ Consider(r) \/ Select(r) \/ Timeout(r)
    \/ Sign(r) \/ GasTooHigh(r) \/ Send(r) \/ Track(r) \/ SaveRaw(r) \/ Count(r)

Processing(r) == SeeReceipt(r) \/ RemovePending(r) \/ Adjust(r) \/ Rebroadcast(r)

Next ==
    \/ Booting \/ Crash
    \/ \E r \in Sends : Call(r) \/ Sending(r) \/ Processing(r) \/ Mine(r) \/ Drop(r)
    \/ \E a \in Children : SweepLock(a)

(* Fairness: node runs every callback that is due, the loop comes round every
   second, and the node mines what it can. *)
Spec ==
    /\ Init /\ [][Next]_purse
    /\ WF_purse(Booting)
    /\ \A r \in Sends : WF_purse(Sending(r)) /\ WF_purse(Processing(r)) /\ WF_purse(Mine(r))
    /\ \A a \in Children : WF_purse(SweepLock(a))

-----------------------------------------------------------------------------
(* Properties *)

TypeOK ==
    /\ boot \in [stage : {"none", "accounts", "pending", "ready"},
                 children : 0 .. NumChildren, hashes : SUBSET Sends]
    /\ accounts \in [Children -> [txCount : Nat, pendingCount : Nat, locked : BOOLEAN]]
    /\ lookup \in BOOLEAN
    /\ sends \in [Sends -> [pc : {"idle", "init", "called", "waiting", "looking", "nonce", "send",
                                 "track", "raw", "count", "sent", "failed"},
                           child : 0 .. NumChildren + 1, best : 0 .. NumChildren, lowest : Nat]]
    /\ tx \in [Sends -> [from : 0 .. NumChildren, nonce : Nat]]
    /\ loop \in [pc : {"idle", "callbacks", "adjust"}, tx : 0 .. MaxSends]
    /\ redis \in [count : [Children -> Nat], pending : SUBSET Sends, raw : SUBSET Sends]
    /\ {tracked, meta, pool, mined} \subseteq SUBSET Sends

\* Calls whose transaction is tracked, or about to be, and not counted.
Uncounted(a) == {r \in Sends : tx[r].from = a /\ sends[r].pc \in {"raw", "count"}}

(* The count of an account and the calls that have its lock never account for
   fewer transactions than the purse follows for it, however receipts, calls and
   a start interleave: the bound on pending transactions is not passed behind
   the purse's back (purse.js getAvailableAccount, incrementTxCount, _process,
   _populatePending). *)
NeverUndercounted ==
    \A a \in Children :
        Cardinality(Of(a, tracked)) <= accounts[a].pendingCount + Cardinality(Uncounted(a))

\* Drops and restarts do not come together.
OneFault == drops = 0 \/ crashes = 0

(* Two live transactions of one account never have the same nonce, with
   concurrent calls, timed out lookups, swept locks and a restart between any two
   awaits: one would replace the other (purse.js getAvailableAccount, txCount). *)
NonceUsedOnce ==
    OneFault => \A r, s \in pool \cup mined \cup tracked :
                    r # s /\ tx[r].from = tx[s].from => tx[r].nonce # tx[s].nonce

\* Nonce n of account a is used, or a transaction with it is known to somebody.
Covered(a, n) ==
    \E r \in pool \cup mined \cup tracked : tx[r].from = a /\ tx[r].nonce = n

(* Every nonce that has been counted is mined, in the pool, or followed by the
   purse, which broadcasts it again: otherwise no later transaction of the
   account is ever mined (purse.js addPending, _process, _populatePending). *)
NoNonceGap ==
    \A a \in Children : \A n \in 0 .. accounts[a].txCount - 1 : Covered(a, n)

(* NoNonceGap as long as nothing is dropped around a restart. *)
NoNonceGapOneFault == OneFault => NoNonceGap

(* What the purse follows is mined in the end, dropped or not, and a lock left
   behind by a failed call or by a lookup that found a better account is freed, so
   that neither holds up the relayer for ever (the rebroadcast and the sweep in
   purse.js _process). *)
SettlesEverything ==
    []<>/\ OneFault => tracked = {}
        /\ \A a \in Children : accounts[a].locked /\ accounts[a].pendingCount = 0 => Held(a)
=============================================================================
