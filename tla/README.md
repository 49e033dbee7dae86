# Origin Protocol: a TLA+ verification project

The repository is the monorepo of the Origin marketplace: Solidity contracts, the
libraries that wrap them, the servers around them ("infra"), and the web and mobile
applications.  This directory holds TLA+ models of the parts that carry money or
protocol state, TLC configurations that check them on small instances, and theorems
about them checked by TLAPS.

## 1. Inventory

### 1.1 Components with state of their own

| Component | State | Operations | Interacts with | What is hard, and what makes it correct |
|---|---|---|---|---|
| Marketplace contract (`packages/contracts/.../V01_Marketplace.sol`) | listings with deposits, offers with money in escrow, deposit token, affiliate whitelist | createListing, updateListing, withdrawListing, makeOffer, acceptOffer, withdrawOffer, addFunds, finalize, dispute, executeRuling, updateRefund, sendDeposit, setTokenAddr, add/removeAffiliate | ERC20 tokens, the Origin token (approveAndCall), every client through events | Transactions of buyer, seller, deposit manager, arbitrator and owner in any order over shared deposits; block time; `delete` leaving zeroed structs. Correct: the contract always holds what it owes, terms are frozen under dispute, money goes to the parties, nothing is stranded |
| Marketplace contract V00 (`V00_Marketplace.sol`) | as V01 | as V01, with replacement offers, payments before `delete` | as V01 | the older sibling; the same questions |
| Origin token and helpers (`packages/contracts/contracts/token`) | balances, allowances, pause, transactor whitelist, migration state, distributor | transfer, approveAndCallWithSender, mint, burn, migrate | Marketplace | whitelist expiry, migrating each holder exactly once |
| Identity proxy and its factory (`packages/contracts/contracts/identity/IdentityProxy.s`, `proxy/ProxyFactory.s`) | owner, nonce; proxies created | createProxyWithSenderNonce, forward, changeOwner | relayer | requests sent in twice, a proxy created twice. Correct: each signed request takes effect at most once |
| Investor token transfers, "T3" (`infra/token-transfer-server`, `packages/token`) | tables of transfers, lockups, grants, transfer tasks; per-user in-process lock; transactions on the chain | add/confirm transfer, add/confirm lockup, the job `executeTransfers` every 10 s | database, token library, Ethereum node | HTTP requests and job runs interleave between `await`s; crashes between sending a transaction and recording it; expiry races. Correct: nobody is paid twice or above what vested |
| Relayer and purse (`infra/relayer`) | child-account nonces and pending counts, pending transactions in Redis, funding | send relayed transaction, fund children, rebroadcast, restart | Ethereum node, Redis, identity proxy | nonce gaps, restart from Redis, account locks |
| Event cache (`packages/event-cache`) | cached contract events, last queried block, concurrent fetches | getEvents, allEvents, persist and restore | Ethereum node, IPFS | incremental range fetches, gaps and duplicates |
| Event source (`packages/eventsource`) | none, it derives listing and offer status from events | getListing, getOffer | event cache, IPFS | the derived status must agree with the contract's |
| Discovery listener (`infra/discovery/src/listener`) | checkpoint block in the database, indexed listings | poll, handle each event, advance the checkpoint | event cache, search index, webhook targets | crashes and errors between handling events and moving the checkpoint; at-least-once delivery in block order |
| Growth engine (`infra/growth`) | events, campaigns, rewards, payouts | verifyEvents, updateCampaigns, distributeRewards, confirmPayouts | marketplace events, token library | a payout that times out and is tried again; budgets |
| Faucet (`infra/faucet`) | campaign budgets, codes, nonce manager | distribute ETH or OGN | Ethereum node | budget check and spend are not atomic |
| Notifications, bridge, identity, messaging, auth servers | device registrations, attestations, conversations and keys, tokens | HTTP handlers | database, third-party services | duplicates; mostly request/response |
| Marketplace, admin, shop applications, mobile app, GraphQL resolvers | local caches, wallet queue | user interface | all of the above | web3 mutations and receipts |

### 1.2 Components without protocol state

`packages/{services,ipfs,validator,ip2geo,auth-utils,contractor,web3-provider,mobile-bridge}`,
`infra/{cron,ipfs-proxy,consistency,tests}`, `devops`, `docs`, `scripts` are configuration,
wrappers, checks or build tooling.

## 2. Plan

| # | Modules | Content | State |
|---|---|---|---|
| 1 | `Sums`, `Marketplace`, `Escrow`, `FiniteTheorems`, `MarketplaceProofs`, `EscrowProofs` | the V01 contract, the abstract escrow agent it implements, proofs of type correctness, solvency, that every offer can be closed, the refinement and the action properties | done |
| 2 | `TokenTransfers`, `Vesting`, `TokenTransfersProofs` | T3: requests, confirmations, lockups, the payout job, the chain, restarts; vesting schedules; proofs of at-most-once payment, of the only ways a user comes to owe tokens, of what the chain moves, and that schedules add up to the grant | done |
| 3 | `EventCache`, `Listener`, `ListenerProofs` | incremental fetching of events, the listener on top of it, and proofs that neither passes over an event | done for the memory and PostgreSQL backends |
| 4 | `Purse`, `Relayer`, `RelayerProofs` | accounts, nonces, pending transactions, restart from Redis; signed requests, proxies and their nonces; proofs of every safety property of both | done without funding and preflights |
| 5 | `EventSource`, `EventSourceProofs` | status and terms of an offer derived from its events, composed with `Marketplace`; proofs that both are shown as they are | done for offers; listings remain |
| 6 | `Payouts`, `PayoutsProofs` | the payout of growth rewards, tried again after failures and killed runs, and proofs of its safety | done |
| 7 | `OriginToken`, `Faucet`, `MarketplaceV00` | whitelist, pause and migration; budgets; the order of payment and deletion in the older contract | planned, behind the proofs |

Order: money first (1, 2), then what every server relies on (3, 4), then what is derived
from it (5, 6).  `Listener` extends `EventCache`, `Relayer` extends `Purse`, `EventSource`
extends `Marketplace`, and `MCTokenTransfers` puts `Vesting` and `TokenTransfers` together.

## 3. The models

### 3.1 Marketplace (V01_Marketplace.sol)

One action is one transaction, named as the function (`CreateListing` .. `RemoveAffiliate`).
A `require` that fails or a payment that fails reverts the transaction, so it is a
conjunct of the guard: `Covered` is the condition under which a payment succeeds, `Move` what
it does.  State: the fields of `listings` and `offers`, `allowedAffiliates`, `tokenAddr`,
the block time, and `balance`, which stands for Ether and all ERC20 tokens.  The value
`NoOffer` is the all-zero struct `delete` leaves behind; calls on it are enabled exactly when
the code lets them through.  `createListingWithSender`, `makeOfferWithSender` and the like,
called by the token through `approveAndCall`, are the same actions.  Numbers are unbounded:
`RefundWithinValue`, and `TypeOK` for balances, say why no subtraction wraps around.
`finalize` by the seller needs the window to be over; small values of `_finalizes` are
durations, as in the code (`RelativeLimit` stands for 1000000000).

`Escrow` is the abstract specification: an escrow agent with a pot per slot.
`MCMarketplace` maps each offer slot to it (`PhaseOf`: a deleted struct below
`offers.length` is a settled slot) and checks `ImplementsEscrow` for Ether.

### 3.2 TokenTransfers (infra/token-transfer-server, packages/token)

Everything between two `await`s is one action.  A request goes through the stages of
`addTransfer` and `addLockup` under the lock of its user (`request[u]`); a confirmation checks
a row and writes it later, without a lock (`confirm[c]`); a run of the ten-second job goes
through `executeTransfers`, `executeTransfer` and `Token.credit` (`job[r]`); the tables are
`transfers`, `lockups` and `openTasks`; `chain` holds the transactions sent and what became of
them (`Include`, `Bury`, `Reorg`).  `Crash` may happen at any await and loses all but the tables and
the chain.  What vests when is a constant (`Vests`); a grant may be cancelled (`Cancelled`).

`Vesting` is `vesting.js`: the schedules of employees (a cliff, then monthly shares rounded down, the
rest with the last vest) and of investors (6%, then eight times 11.75%).  The run takes its
`Vests` from it.

### 3.3 EventCache (packages/event-cache, pollForBlocks of packages/graphql)

Events are pairs of a block and an index.  Calls of `getEvents` and `allEvents` are processes
(`reader[r]`), with the value each read before an await kept in its record; `promises` is
the memo of `getPastEvents`, keyed by range as in the code, so that concurrent calls share
it and broken promises stay.  `latestBlock`, `lastQueriedBlock`, `latestIndexedBlock` and the
backend's own `latestBlock` are the code's variables.  Each node answer is one of a node that may be
`MaxLag` blocks behind.  The poll for blocks starts when the one request that the setup makes is answered
(`FirstBlock`); when that fails (`FirstFails`), `lastBlock` stays undefined, no number is greater than it, and
`NewBlock` is never enabled again in this process.  `Reset` is a restart: memory is emptied, a database is not, and
`LoadLatestBlock` finds its latest block again in the background.

### 3.4 Listener (infra/discovery/src/listener)

`Listener` extends `EventCache`.  The reader `Main` is the loop of `main()`; other readers are GraphQL
resolvers that a handler queries in the same process while it runs (`Query` is enabled for
them in the "handle" stage only) and that use the same cache.  `processed` is the block in
the database; `withRetrys` is `Retry` and, when the retries are spent, `Exit`, after which the environment
starts the process again.

### 3.5 EventSource (packages/eventsource)

`EventSource` extends `Marketplace`: the calls of the contract with the events they emit (`log`), the
ends of earlier blocks (`archive`), and `addData`, which anybody may call for any offer.  `_getOffer` is a
function of both: the last event of the offer decides on "withdrawn" and "ruled", any `OfferFinalized`
on "finalized", and otherwise the struct is read at the block of the last event that leaves
one.  A reader is at a block `b` at or behind the contract, so no process is needed for it.

### 3.6 Purse (infra/relayer/src/purse.js)

Calls of `sendTx` are processes (`sends[r]`) that interleave at their awaits with each other, with
`init` (`boot`), with the loop `_process` (`loop`) and with the node.  `accounts` and `lookup` are
the fields `txCount`, `pendingCount`, `locked` and `accountLookupInProgress`; `tracked` and `meta`
are `pendingTransactions` and `transactionMeta`; `redis` holds the nonce counts, the pending
set and the raw transactions.  `Broadcast` resolves whether or not the node takes a transaction, as the
promise in `util.js` does.  `Crash` may happen at any await and keeps Redis and the node only.

### 3.7 Relayer (infra/relayer/src/relayer.js, IdentityProxy.s, ProxyFactory.s)

`Relayer` extends `Purse`: each call of `sendTx` serves one request, which goes through the
checks of `relay` (pending transactions of the user, signatures seen) before it and through the row in
the database and the receipt callback after it.  When a transaction is mined, `Effect` is what
the contracts do: the factory creates a proxy once, a second creation yields none and the
call in it succeeds in vain ("hollow"), `forward` runs when the nonce is the one signed.

### 3.8 Payouts (infra/growth/src/scripts/distributeRewards.js, util/tokenDistributor.js)

One run of the job at a time (`job`) goes through `process`: chunks of users, a row per payout,
one transaction per chunk, the wait for three blocks, the update of the rows one by one, and at
the end the look at every paid row for eight blocks.  `payouts` is the table, `txs` the chain.
A killed run (`Crash`) leaves rows and transactions; the job may be started again while the campaign is not
distributed, by whoever runs the script: no schedule of the repository does.  `Hang` is a send that the node refuses or
whose answer is lost: `sendTx` waits for "transactionHash" only, and the run stays there until it is killed.
`doubtful` marks transactions that were given up on or undone, for the property only.

## 4. What the runs check

State counts are of distinct states; each run takes less than three minutes on two workers.

| Run | States | Shows |
|---|---|---|
| `marketplace_eth` | 696,696 | one listing, one offer, three accounts, each allowed to be any party: all calls, all rulings, the window open, at its last second and over; type, solvency, refunds, that every live offer can be closed, the action properties and `ImplementsEscrow` |
| `eventsource_offers` | 295,923 | one offer in three blocks of any number of calls: the status and the terms shown, however far the event cache is behind |
| `tokentransfers_payout` | 394,556 | withdrawals, lockups and early lockups around a vest and a cancelled grant, through every await with one restart, expiries, unanswered sends, reverts and reorganisations: paid at most once and from what vested, `OverdrawnOnlyIfLate`, `GrantVests`, and `EnqueuedSettles` under fairness |
| `tokentransfers_overlap` | violation | two runs of the job: `PaidAtMostOnce` fails |
| `tokentransfers_confirm` | violation | two confirmations of one transfer: `EnqueuedByConfirmation` fails |
| `eventcache_readers` | 310,551 | two readers, overlapping ranges, lagging and failing nodes, refused writes, one restart, PostgreSQL: `NoGap` |
| `listener_follow` | 436,048 | the loop alone on a memory cache: `AtLeastOnce`, `InOrder`, `Fresh`, and `Delivered` under fairness |
| `listener_overtaken` | violation | a resolver moves the shared cache on while handlers run: `AtLeastOnce` fails |
| `purse_accounts` | 1,477,771 | three overlapping calls on two accounts, timeouts, a gas price that is too high, one refused or dropped transaction, one restart: counts and nonces, and `SettlesEverything` under fairness |
| `relayer_requests` | 4,235,469 | three requests of two users on one account, sent in again, timed out, reverted, with a restart: `ExecutedOnce`, `RowTellsTruth`, `NothingInVain` |
| `payouts_runs` | 1,762,218 | three users, one by one or in batches of two, one fault (a hung send among them) and one killed run: no user paid twice without cause, and `BatchesGetThrough` under fairness |
| `payouts_rerun` | violation | one failure when users are paid one by one: `RetriesGetThrough` fails |

**Bounds.**  Marketplace: amounts 0 to 2 cover zero, equal and unequal amounts; the block
time passes both ends of a window; one offer has all its lives.  Several offers and listings on one deposit,
and the exchange of the deposit token, are beyond the run and covered by the proof of
solvency in section 6.  EventSource: five events and three blocks let an offer be made, accepted,
disputed and closed with data added, in one block or in several.  TokenTransfers: three rows, two of
them withdrawals or two of them lockups, give one transfer under way with another waiting, expired or failed, two early
lockups of one vest, and a withdrawal next to each; the grant is cancelled after its second vest; time reaches past every
timeout after the last request.  No constant keeps a check and its write together: a minute may pass at
every await, a grant may end before its vests, and payments may fail meanwhile.  EventCache: two blocks of two events give ranges that overlap,
touch and are refetched, and storing that stops within a range; two readers suffice since a call
meets others only through the marks and the memo.  The listener gets a third block, so
that events come after a node that lagged.  Purse: two accounts give a choice and a second best,
three calls a third one while two overlap on an account; the relayer's account is the worst case of its
checks.  Payouts: three users give a full batch and a rest, one fault and one killed run in every place;
more of both are covered by the proofs.  Every bound is a constant named in a guard.

**Deadlock** is not checked where the system comes to rest: when all rows are settled or
a task is left open, when no new block is mined, when all calls are made, and when a campaign is distributed.

**Symmetry** is used for the readers of `eventcache_readers` only (a run of invariants).

### Fairness

`TokenTransfers!FairSpec`: weak fairness of requests, confirmations, runs of the job, the chain and
time.  Node's event loop runs what is ready, cron starts the job every ten seconds, and the
chain settles transactions.  Time is strongly fair: within the bounds the last minute for requests ends between two of
them (guard of `Tick`), and a user may ask again and again for what is refused.  `EnqueuedSettles` is about behaviours in which sends are answered and nothing
restarts (`Unobstructed`) and no user comes to owe tokens; in the others the job stops for good, see below.  A reorganisation may
bring a transaction back any number of times within the bounds, hence strong fairness of `Bury`.
`Purse!Spec`: weak fairness of the start, of each call, of the loop for each transaction and of the
sweep of each lock, which node's timers run, and of mining.  Calls are not made by fairness.
`Payouts!Spec`: a run goes on unless it hangs, and the chain grows.  Nothing in the repository starts the job, so that
starting it is not fair; that somebody does (`StartedAgain`) is a premise of the two properties.
`Listener!FairSpec`: weak fairness of the loop, of the poll for blocks and of storing; the request that starts the poll
ends, with an answer or a failure, and nothing repeats it; strong fairness of the two kinds of request to a node, because they may fail again and again but not for ever.  Restarts
and failures themselves are never fair.

### Findings

1. **Two runs of the payment job overlap** (`tokentransfers_overlap`): the queries for open
   tasks and processing transfers do not take part in the serializable transaction around them.
2. **The listener is overtaken by its own handlers** (`listener_overtaken`): the checkpoint uses
   `latestIndexedBlock` as it is after the handlers, who may have moved it past `newEvents`.
3. **A payout that failed is not tried again when users are paid one by one** (`payouts_rerun`):
   `_preparePayout` returns null for a user who has been paid and `_distributeRewards` takes it
   apart, so every later run dies at the first user paid before.
4. **Two confirmations of one transfer** (`tokentransfers_confirm`): status and expiry are checked on a row read earlier
   and the row is written without a condition (`lib/transfer.js:131`), so that a confirmation enqueues a transfer which another
   has just recorded as expired; `lib/transfer.test.js:316` says that it must be waiting for confirmation.

### What the passing runs leave out on purpose

Some constants exclude an environment in which a property fails; this is part of what the runs say.

- `Runs = {r1}` and `Confirmers = {c1}` in `tokentransfers_payout`: see findings 1 and 4.
- `InTime` in `OverdrawnOnlyIfLate`.  Its ways to be late do occur, and `NeverOverdrawn`, which the code takes for granted
  (`balance.js:66`), fails in each.  A confirmation passes the check of the expiry (`lib/transfer.js:120`), the timeout passes,
  another withdrawal takes the amount, which is counted as free, and the confirmation writes `Enqueued`.  With two runs of the
  job, one settles a transfer as failed and the other pays it.  `getNextVest` (`shared.js:173`) takes a vest
  after the cancellation of its grant for one to come, and when its date is past, tokens are locked that never
  vested.  An early lockup is checked against one vest and dated by the next (`lockup.js:63`).  Afterwards
  `getBalance` throws in the payment job too, which leaves its task open; hence the premise of `EnqueuedSettles`.
- `Unobstructed`: `Token.sendTx` resolves with a hash or never, so a send that fails late, like a restart, leaves its
  task open and every later run stops at it.
- `OneFault` in `Purse`: with a dropped transaction and a restart together `NoNonceGap` fails.  `_populatePending`
  (`purse.js:749`) leaves out transactions the node does not know, whose nonces stay counted in Redis, and nothing
  broadcasts them again; `purse.test.js:272` tests a restart with transactions the node knows.
- `Patient` in `Relayer`: overlapping requests for one proxy pass the checks together, and all but one are mined in
  vain.  A lock is held for less than its `MAX_LOCK_TIME`, and Redis is up.
- `ClosedInOneBlock` in `EventSource`: an offer closed in the block of the event it is read at is shown without
  buyer and value.  `updateRefund` emits `OfferData` only, so a refund changed later is not shown at all; refunds
  are not part of `TermsShown`.
- `Stopped` in `BatchesGetThrough`: a row that a killed or hung run leaves Pending is never paid.
- `Undone = {"included"}` in `tokentransfers_payout`: a reorganisation may return a successful transaction to the
  pool, not a reverted one.  With `"reverted"`, `FailedIsUnpaid` fails: `txIsConfirmed` (`token.js:259`) reports a
  failure without waiting for confirmations, and the transfer settled as failed is paid all the same.
- `Delivered` except where the poll never starts: if `getBlockNumber().then(newBlock)` (`contracts.js:518`) fails, `lastBlock`
  stays undefined, `blockNumber > lastBlock` (`contracts.js:144`) is false for ever, and the listener, which does not exit,
  hears of no later event.
- The parties of offers accept Ether: `NoOfferStranded` says nothing of a payee that refuses it.
- `MidBlock = FALSE`: storing does not stop between two events of one block.  With `TRUE`, `NoGap` fails:
  the next fetch starts after the latest block with an event, and the rest of that block is lost.
- `Readers = {main}` in `listener_follow`: see finding 2.  The listener's README also says that it quits
  when retries of an event run out, while `handler.js:93` skips the event or webhook; "handled" in the
  model means that the handler was called.
- `NoGap` and `Fresh` except what a call is storing at the moment: a reader that starts meanwhile is
  answered without those events.  This is how the code behaves, and the next call has them.

## 5. Coverage of hazards

`PROJECT.json` lists hazards at their lines with the properties that watch them.  Without a
property are what only a theorem covers (offers that share a deposit, the exchange of the deposit token), what the runs
exclude (payees that refuse Ether, storing that stops within a block, a reverted payment that is mined again after all, a
drop and a restart together), and what is not
modelled (the unordered read of PostgreSQL, a call slower than the lock of its account).  Known and outside the models: the
memo of listings that two versions of the contract share (`eventsource/src/index.js:19`); ranges longer than one batch, whose batches different
nodes may answer; the memo of ranges shared by two caches of one contract; Redis failing between a send and its record;
`hasPendingFundingTx`, which stays set when funding is refused; unconfirmed lockups that keep tokens
locked (`shared.js:114`); one reward out of range that stops a whole campaign (`distributeRewards.js:114`).

## 6. Proofs

`FiniteTheorems` has the lemmas the proofs share: what `Total` (the sum of a function over a finite
set) does when one value changes, what a table keeps when a row is changed or added, and how a count changes
with its set.  `Total` counts the elements of a set of coins, so that no recursion is needed.  The theorems hold
for all values of the constants that the named assumptions of the modules allow; a further hypothesis
is written in the theorem and explained below.

| Module | Theorem | States |
|---|---|---|
| `MarketplaceProofs` | `TypeCorrect` | `Spec => []TypeOK`; with it, balances and deposits never go below zero |
| | `RefundNeverExceedsValue` | `Spec => []RefundWithinValue` |
| | `CommissionAlwaysHasPayee` | `Spec => []CommissionHasPayee` |
| | `AlwaysSolvent` | `Spec => []Solvent` |
| | `OffersAlwaysClosable` | `Spec => []EveryOfferClosable`: what `NoOfferStranded` says, with the guards written out |
| `EscrowProofs` | `EscrowImplemented` | `Spec => ImplementsEscrow`: every step is a step of the abstract escrow agent or leaves it alone |
| | `DisputedTermsFrozen` | `Spec => DisputeFreezesTerms` |
| | `WindowReservesCommission` | `Spec => CommissionReservedInWindow` |
| | `EtherGoesToTheParties` | `Spec => SplitBetweenParties` |
| `TokenTransfersProofs` | `TypeCorrect` | `Spec => []TypeOK` |
| | `PaidOnce` | `Spec /\ []OneRun /\ []OneConfirmation => []PaidAtMostOnce` |
| | `OneAtOnce` | the same for `[]OneInFlight` |
| | `SettledStays` | the same for `SettledIsFinal` |
| | `BalanceNeverBelowZero` | `Spec => OverdrawnOnlyIfLate`, with any number of runs and confirmations |
| | `OnlyVestedSpent` | `Spec /\ []OneRun /\ []OneConfirmation /\ []FailedIsUnpaid => []SpendsOnlyVested` |
| | `EmployeeVestsWholeGrant`, `InvestorVestsWholeGrant` | the vests of every grant are natural numbers that add up to it |
| | `VestedWithinGrant` | whatever vests count, `vestedAmount` is no more than the grant |
| | `EmployeeGrantVested` | of every employee grant at most its amount has vested at any time; at its end this and what was called off make it up |
| | `GrantVestsToTheToken` | `Spec => []GrantVests` for the grants of the runs |
| `ListenerProofs` | `CacheTypeCorrect` | `CacheSpec => []CacheTypeOK` |
| | `NeverPassesAnEvent` | `CacheSpec => []NoGap`, if storing never stops within a block (`WholeBlocks`) |
| | `AnswersAreFresh`, `ListenerGetsFresh` | `CacheSpec => []Fresh`, `Spec => []Fresh` |
| | `TypeCorrect` | `Spec => []TypeOK` of the listener |
| | `HandledBeforeRecorded`, `HandledInOrder` | `Spec => []AtLeastOnce`, `Spec => []InOrder`, if only the loop reads the cache (`Alone`) |
| `RelayerProofs` | `PurseTypeCorrect` | `Spec => []TypeOK` of the purse |
| | `CountsAllItFollows` | `Spec => []NeverUndercounted` |
| | `OneNonceOneTransaction` | `Spec => []NonceUsedOnce` |
| | `NoNonceIsLost` | `Spec => []NoNonceGapOneFault` |
| | `TypeCorrect` | `RelayerSpec => []RelayerTypeOK` |
| | `TakesEffectOnce` | `RelayerSpec => []ExecutedOnce` |
| | `RowsTellTheTruth` | `RelayerSpec => []RowTellsTruth` |
| | `PatientNeverInVain` | `RelayerSpec => []NothingInVain` |
| `EventSourceProofs` | `StatusAsInContract` | `SourceSpec => []StatusShown` |
| | `TermsAsAgreed` | `SourceSpec => []TermsShown` |
| `PayoutsProofs` | `TypeCorrect` | `Spec => []TypeOK` |
| | `OneRowPerUser` | `Spec => []OnePayoutPerUser` |
| | `NeverPaidTwiceUnnoticed` | `Spec => []PaidTwiceOnlyAfterGivingUp` |
| | `DistributedIsPaid` | `Spec => []DistributedMeansPaid` |

**Marketplace.**  The inductive invariant of the first three is `Wellformed`: `TypeOK` and the two properties with
`Allocated`, which says that unwritten storage is zero and that live offers and existing listings name
parties.  Without `Allocated` the type is not inductive: a payment to the buyer of a live
offer needs to know that the buyer is an account, and a new offer that the slot it takes
held nothing.  Each action has a lemma (`...Wellformed`).  Solvency is proved pool by pool: a pool is
one currency that is never the deposit token, or all deposit tokens together (`Pools`), and
`PoolBacked` is inductive relative to `Wellformed`; every step changes what is held and what is owed by the same amounts
(`HeldChange`, `ValueChange`, `ReservedChange`, `DepositChange`), or holds more when the contract pays itself.
That no offer is stranded follows from it.  As ENABLED is beyond the provers, the guards of `WithdrawOffer`, `Finalize` and
`ExecuteRuling` are written out (`...Possible`), and three lemmas (`...IsGuarded`) show each action to be equivalent to
its guard and a value for every variable, so that the guard is all the action requires.  With one deposit token for ever the
contract's holdings in each currency cover the value of any one offer and the commission reserved for it (`OfferFunded`), and still
the value once the commission is paid (`FundedAfterEarning`).  `EveryOfferClosable` allows any refund in a ruling, where
`NoOfferStranded` has the whole value.

**Escrow.**  The abstract variables get names of their own (`Phase`, `Pot`, `Payer`, `Payee`, `Wallet`), defined as
`MCMarketplace` maps them.  For each call a lemma says which slot and which wallets change, and another
that this is an abstract action or, for calls in tokens and on listings, a stutter.  The refinement needs
`Wellformed` and `Unlisted`: nobody is the seller of a listing that has not been created, or the payee of a
slot would change with it.  The action properties need less: offers are written in three ways only
(`StepOnStores`), and a value leaves an offer when it is closed or refunded (`OnlyClosed`).

**EventSource.**  The invariant says of every offer and every block a reader may be at which of three stories its log
tells (`Story`).  The offer has not been made, and nothing but added data is logged (`Unmade`).  Or it stands, every other
event left it in the contract, and its status, buyer and value are those it had at the end of the block of the last of them
(`Standing`).  Or it was closed, by exactly one event and the last but for data (`Settled`).  An event changes the
story at the current block only (`OlderStory`), and a new block starts with the story of the last (`EndBlockTold`); `Calls`
sums up what the calls of the contract do to the offer they speak of.  `TermsKept` keeps what was agreed readable.
Slots never used have no events but data (`Untouched`): anybody may add data before an offer is made.

**TokenTransfers.**  `TInv` adds to the types that requests, confirmations, runs and transactions refer to rows and
transactions that exist, and that every run under way has an open task of its own to end.  `PInv` is the life of a
payment: a confirmation under way finds its row still waiting (`ConfirmKnown`), a run knows that nothing is in flight
when it takes up a transfer and that the transfer it sends has not been sent (`RunKnows`), a row gets one
transaction (`SentOnce`) and none before it is marked (`Unsent`).
`OneRun`, that two runs are never active together, is needed: `tokentransfers_overlap` shows the double payment
without it.  `OneConfirmation`, that no transfer is confirmed by two requests at the same time, is what the life of
a row rests on (finding 4).  Both hold in the other runs because those have one run and one
confirmer; in the theorems any number may take turns, and crashes, faults and reorganisations are unbounded.

*Balances.*  That nobody owes tokens is not inductive: it says nothing of the requests between check and insert.  The
invariant `BInv` counts them for each user: what is available covers what a checked request will take (`BalanceCovers`), the next
vest that does come covers the early lockups of it and the one under way (`VestCovers`), and early lockups are of that vest and
no other (`OfNextVest`).  When time passes, a vest that comes moves its early
lockups to the locked tokens and brings at least as many (`VestComes`); any other minute frees tokens only.
`BInv` is inductive over steps with `InTime` before and after, which is what the theorem says: neither overlapping runs, nor
late minutes, nor cancelled grants put a user into debt but through one of its three parts.  Each part is needed:
`NothingGivenBackHeld` excludes late confirmations and rows that one run settles as failed and another then pays,
`LockedFromVests` lockups of vests called off, and `EarlyLockupsFit` a lockup that was checked against a large vest and is
dated by a small one; section 4 says how each occurs.

*Payments by the chain.*  `SpendsOnlyVested` compares what vested with what transactions have taken, whatever the tables
say, and it holds where a user owes tokens as well: a run checks the balance of the user before each payment.
`QInv` says that the transfers a run has found covered and not given up are within what vested and was earned
(`SpentWithin`); with `PInv`, and if no transfer that failed is paid (`FailedIsUnpaid`, section 4), a transaction that moves tokens belongs
to one of them.  `QInv` needs `OneRun`: two runs that check the balance together could both go on.

**EventCache and Listener.**  `NoGap` is not inductive: it does not say what calls under way hold, and a restart or a
refused write drops what they hold.  The invariant `CacheInv` looks at the blocks of stored events, the only ones a
call starts from: a call stores its events in order and holds all of them from such a block on
(`Ordered`), up to the block of any stored event nothing is missing but what is being stored (`Complete`), and
every earlier block with events has a stored one (`Prefix`).  Dropped events then lie past all stored blocks, if
storing does not stop within a block (`WholeBlocks`; section 4 says what happens otherwise).
`Fresh` is carried by `Answers`, which bounds how far behind each range, mark and target can be.  The listener's
invariant `Follows` ties the checkpoint and the events in its hands to `latestIndexedBlock`; `Alone` is needed
for it (finding 2).  The cache theorems do not use `ListenerAssumption` and hold with any number of readers.

**Purse.**  `Wellformed` adds to the types that a call works with an account that exists (`Placed`) and that
followed transactions were sent (`Followed`, `Sent`).  The relayer makes the steps of the purse and one more, the
refusal of a request before `sendTx`; what is proved of the purse is proved for both (`PurseStep`), so that the relayer
inherits it.  The counts (`CountInv`): an account counts at least the followed transactions that are its own and the
one the loop is about to count down (`Owed`); adding a transaction and taking one off are two steps, in this order for
a call and in the other for the loop.
The nonces (`NonceInv`) need three things.  `HoldInv`: an account that a call has taken is locked and nobody else's, and a
call that gives it up does so for good.  `ChainInv`: the transactions of an account in the pool or mined have nonces of
their own, and nonces are mined in order.  The last depends on the faults.  `First`: until the first
restart `txCount` is past every nonce in use.  `Whole`: as long as the node drops nothing, every followed
transaction is with the node, so that what a start recovers is the next free nonce.
`NonceUsedOnce` allows an exception for restarts with drops, and `NoNonceGapOneFault` for both kinds together; each uses the part that
covers its case.  This invariant was first checked by TLC with the constants of `Purse_accounts` (1.5 million states).

**Relayer.**  The stage of a request follows from where its call is (`Linked`).  `ExecutedOnce`: a transaction is
mined once (`MinedOnce`), and a request that took effect has a nonce its proxy has used up (`UsedUp`), so that another
transaction with the same signature has none.  `RowTellsTruth`: what the loop settles is mined (`LoopMined`), and a row says
no more than what is known at its stage (`RowsTrue`).  `NothingInVain`: until the first restart a user who waits has
one open request at most (`OneOpen`, `Waited`), only an open request has a transaction that can still be mined (`OneLive`), and what it was
checked with is the nonce of the proxy, or the proxy is still to be created (`Current`).

**Vesting.**  The rounding error is a natural number (a sum of shares rounded down never exceeds
the amount), and the schedule is a constant one with its first and last value changed.  By date
(`EmployeeVestsByDate`) all vests of a grant are due at its end; `GrantVests` is the instance of this for the grants
the runs are given.  What a cancellation calls off is the rest of the
vests (`TotalParts`), so that at the end of a grant what has vested and what was called off make up its amount.

**Payouts.**  The inductive invariant `IInv` says besides the types that no row is sent twice (`SentOnce`), what
the job knows of the rows in its hands at each stage (`BatchKnown`), that paid rows name a transaction that pays
them and failed rows only void ones (`RowsTrue`), and that a distributed campaign rests (`Closed`).
`OnePayoutPerUser` alone is not inductive: a row that had failed could be recorded as paid, if the rows in the job's
hands were not known to be pending.  Two payments of one user then belong to two rows, one of which has
failed, so its transaction is doubtful.  Faults and killed runs are unbounded in the proof.

**Only model-checked.**  `NoOfferStranded` in its own words, because of ENABLED, and liveness (`EnqueuedSettles`,
`Delivered`, `SettlesEverything`, `BatchesGetThrough`), which is beyond the provers; of the first the theorem
`OffersAlwaysClosable` proves the part about states.  Every other property of a passing run
is stated by a theorem.

## 7. Not modelled

Components with status `not_modelled` in `PROJECT.json`, each with its reason.  Within modelled parts: IPFS
hashes and the data behind them; reentrant and malicious tokens; login and
one-time codes, news and emails of T3; the funding of
accounts by the purse's master account, preflight requests, the risk engine and the change of owners of proxies; the rules of
growth campaigns and the adjustment of single payouts; listings as shown by the event source; in the event
cache the checkpoint on IPFS, batches, filters, the IndexedDB backend, slave instances and storing an
event twice; in the listener webhooks, the backfill mode and more than one contract.
