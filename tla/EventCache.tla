----------------------------- MODULE EventCache -----------------------------
(***************************************************************************)
(* The event cache, packages/event-cache: the events of one contract,      *)
(* fetched from an Ethereum node in growing ranges of blocks and kept in   *)
(* memory or in PostgreSQL.                                                *)
(*                                                                         *)
(* Readers (resolvers, the event listener) call getEvents or allEvents     *)
(* concurrently in one process.  Every await is a point where they         *)
(* interleave; concurrent requests for the same range share one promise.   *)
(* Requests go to a pool of nodes that may be behind.                      *)
(*                                                                         *)
(* The contract was deployed in block 1, the originBlock.  A range fits in *)
(* one batch, and the IPFS checkpoint is not configured.                   *)
(***************************************************************************)
EXTENDS Integers, Sequences, FiniteSets

CONSTANTS
    Readers,
    Persistent,     (* the backend is PostgreSQL, not memory                *)
    MaxBlock,       (* bound: blocks of the chain                           *)
    PerBlock,       (* bound: events in a block                             *)
    MaxLag,         (* bound: blocks a node may be behind                   *)
    Fails,          (* whether requests to the node fail for good           *)
    MidBlock,       (* whether storing stops between two events of a block  *)
    MaxCrashes      (* bound: restarts of the process                       *)

ASSUME CacheAssumption ==
    /\ {MaxBlock, PerBlock, MaxLag, MaxCrashes} \subseteq Nat
    /\ {Persistent, Fails, MidBlock} \subseteq BOOLEAN

VARIABLES
    chain,              (* chain[b]: the number of events in block b        *)
    polled,             (* lastBlock of contracts.js, 0 or NoAnswer when it *)
                        (* is undefined                                     *)
    latestBlock, lastQueriedBlock, latestIndexedBlock,
    stored,             (* the events in the backend                        *)
    backendLatest,      (* latestBlock of the backend                       *)
    promises,           (* the memoized calls of getPastEvents, by range    *)
    reader,             (* reader[r]: where a call of r is                  *)
    crashes

marks == <<latestBlock, lastQueriedBlock, latestIndexedBlock>>
cacheVars == <<chain, polled, marks, stored, backendLatest, promises, reader, crashes>>

\* Nothing was answered to the request for the block number that setNetwork makes once.
NoAnswer == -1

Blocks == 1 .. MaxBlock
Events == Blocks \X (1 .. PerBlock)

\* compareEvents
Before(e, f) == e[1] < f[1] \/ (e[1] = f[1] /\ e[2] < f[2])
Least(E) == CHOOSE e \in E : \A f \in E \ {e} : Before(e, f)

\* The events of a range of blocks, as a node that knows the whole chain sees them.
Emitted(from, to) ==
    {e \in Events : e[1] \in from .. to /\ e[1] \in DOMAIN chain /\ e[2] <= chain[e[1]]}

AllEvents == Emitted(1, MaxBlock)

\* The block numbers a node of the pool may answer.
Heads == {n \in 1 .. Len(chain) : n >= Len(chain) - MaxLag}

Larger(m, n) == IF m >= n THEN m ELSE n

Idle == [pc |-> "idle", to |-> 0, from |-> 0, latest |-> 0]

CacheInit ==
    /\ chain = << >> /\ polled = 0
    /\ latestBlock = 0 /\ lastQueriedBlock = 0 /\ latestIndexedBlock = 0
    /\ stored = {} /\ backendLatest = 0
    /\ promises = << >>
    /\ reader = [r \in Readers |-> Idle]
    /\ crashes = 0

-----------------------------------------------------------------------------
(* The chain, and the poll for new blocks *)

Mine ==
    /\ Len(chain) < MaxBlock
    /\ \E n \in 0 .. PerBlock : chain' = Append(chain, n)
    /\ UNCHANGED <<polled, marks, stored, backendLatest, promises, reader, crashes>>

\* newBlock and setLatestBlock.
BlockIs(n) ==
    /\ polled' = n
    /\ latestBlock' = n
    /\ UNCHANGED <<chain, lastQueriedBlock, latestIndexedBlock, stored, backendLatest,
                   promises, reader, crashes>>

\* The request that setNetwork makes is answered.
FirstBlock ==
    /\ polled = 0
    /\ \E n \in Heads : BlockIs(n)

\* It fails, and nothing repeats it.
FirstFails ==
    /\ Fails
    /\ polled = 0
    /\ polled' = NoAnswer
    /\ UNCHANGED <<chain, marks, stored, backendLatest, promises, reader, crashes>>

\* pollForBlocks: no block is greater than an undefined lastBlock.
NewBlock ==
    /\ polled > 0
    /\ \E n \in Heads : n > polled /\ BlockIs(n)

Poll == FirstBlock \/ FirstFails \/ NewBlock

-----------------------------------------------------------------------------
(* _fetchEvents *)

At(r, pc) == reader' = [reader EXCEPT ![r].pc = pc]

\* The backend is going to be asked for the events.
Answer(r, to) == reader' = [reader EXCEPT ![r] = [Idle EXCEPT !.pc = "read", !.to = to]]

\* Slip: a block that was asked for is taken for one that was answered.
FromQueried(indexed) == lastQueriedBlock + 1

\* The block after the latest one with an event, or originBlock.
FromBlock(indexed) == indexed + 1

\* The call of getPastEvents, whose result is memoized by range, failures too.
Fetch(r, to, indexed) ==
    LET from == FromBlock(indexed)
    IN  IF from > to
        THEN Answer(r, to) /\ UNCHANGED promises
        ELSE /\ reader' = [reader EXCEPT ![r] =
                            [pc |-> "waiting", to |-> to, from |-> from, latest |-> 0]]
             /\ IF <<from, to>> \in DOMAIN promises
                THEN UNCHANGED promises
                ELSE promises' = [k \in DOMAIN promises \cup {<<from, to>>} |->
                                    IF k = <<from, to>>
                                    THEN [state |-> "asked", rest |-> {}]
                                    ELSE promises[k]]

\* What follows when the latest block is known, to which the call is going to fetch.
Proceed(r, to) ==
    IF lastQueriedBlock = to
    THEN Answer(r, to) /\ UNCHANGED promises
    ELSE IF latestIndexedBlock = 0
    THEN /\ reader' = [reader EXCEPT ![r] =
                        [pc |-> "index", to |-> to, from |-> 0, latest |-> backendLatest]]
         /\ UNCHANGED promises
    ELSE Fetch(r, to, latestIndexedBlock)

BeginRead(r) ==
    /\ reader[r].pc = "idle"
    /\ IF latestBlock = 0
       THEN At(r, "number") /\ UNCHANGED promises
       ELSE Proceed(r, latestBlock)
    /\ UNCHANGED <<chain, polled, marks, stored, backendLatest, crashes>>

\* web3.eth.getBlockNumber, called while nothing has been polled.
AskNumber(r) ==
    /\ reader[r].pc = "number"
    /\ \E n \in Heads :
        /\ latestBlock' = n
        /\ Proceed(r, n)
    /\ UNCHANGED <<chain, polled, lastQueriedBlock, latestIndexedBlock, stored,
                   backendLatest, crashes>>

\* backend.getLatestBlock returns what it read before the await.
SetIndexed(r) ==
    /\ reader[r].pc = "index"
    /\ latestIndexedBlock' = reader[r].latest
    /\ Fetch(r, reader[r].to, reader[r].latest)
    /\ UNCHANGED <<chain, polled, latestBlock, lastQueriedBlock, stored, backendLatest,
                   crashes>>

-----------------------------------------------------------------------------
(* getPastEvents *)

Promise(k, state, rest) ==
    promises' = [promises EXCEPT ![k] = [state |-> state, rest |-> rest]]

\* A node answers with the events of the blocks it knows.
NodeAnswers(k) ==
    /\ promises[k].state = "asked"
    /\ \E n \in Heads : Promise(k, "adding", Emitted(k[1], k[2]) \cap Emitted(1, n))
    /\ UNCHANGED <<chain, polled, marks, stored, backendLatest, reader, crashes>>

\* The request fails, after the retries of the rate limiter.
NodeFails(k) ==
    /\ Fails
    /\ promises[k].state = "asked"
    /\ Promise(k, "failed", {})
    /\ UNCHANGED <<chain, polled, marks, stored, backendLatest, reader, crashes>>

\* Slip: events are stored the latest first.
LastToAdd(E) == CHOOSE e \in E : \A f \in E \ {e} : Before(f, e)
NextToAdd(E) == Least(E)

\* Slip: the next block to ask for is kept in place of the latest one.
BlockAfter(e) == Larger(backendLatest, e[1] + 1)

\* setLatestBlock of the backend.
LatestWith(e) == Larger(backendLatest, e[1])

AddEvent(k) ==
    /\ promises[k].state = "adding" /\ promises[k].rest # {}
    /\ LET e == NextToAdd(promises[k].rest)
       IN  /\ stored' = stored \cup {e}
           /\ backendLatest' = LatestWith(e)
           /\ Promise(k, "adding", promises[k].rest \ {e})
    /\ UNCHANGED <<chain, polled, marks, reader, crashes>>

\* Whether storing stops where some events of a block are stored and others not.
Torn(k) ==
    /\ promises[k].rest # {}
    /\ LET e == Least(promises[k].rest)
       IN  \E f \in stored : f[1] = e[1]

\* The database refuses an event: the rest is dropped, and the error swallowed.
AddFails(k) ==
    /\ Persistent
    /\ promises[k].state = "adding" /\ promises[k].rest # {}
    /\ MidBlock \/ ~Torn(k)
    /\ Promise(k, "adding", {})
    /\ UNCHANGED <<chain, polled, marks, stored, backendLatest, reader, crashes>>

FinishAdding(k) ==
    /\ promises[k].state = "adding" /\ promises[k].rest = {}
    /\ lastQueriedBlock' = k[2]
    /\ Promise(k, "done", {})
    /\ UNCHANGED <<chain, polled, latestBlock, latestIndexedBlock, stored, backendLatest,
                   reader, crashes>>

-----------------------------------------------------------------------------
(* Back in _fetchEvents, and the answer *)

\* The promise of the range is kept: the backend is asked for its latest block.
Resume(r) ==
    /\ reader[r].pc = "waiting"
    /\ promises[<<reader[r].from, reader[r].to>>].state = "done"
    /\ reader' = [reader EXCEPT ![r].pc = "update", ![r].latest = backendLatest]
    /\ UNCHANGED <<chain, polled, marks, stored, backendLatest, promises, crashes>>

UpdateIndexed(r) ==
    /\ reader[r].pc = "update"
    /\ latestIndexedBlock' = reader[r].latest
    /\ Answer(r, reader[r].to)
    /\ UNCHANGED <<chain, polled, latestBlock, lastQueriedBlock, stored, backendLatest,
                   promises, crashes>>

\* The request of the call failed.
Refused(r) ==
    \/ /\ reader[r].pc = "waiting"
       /\ promises[<<reader[r].from, reader[r].to>>].state = "failed"
    \/ reader[r].pc = "number" /\ Fails

\* The call fails too.  A broken promise is kept for its range, so that every later call
\* for the same range fails.
Reject(r) ==
    /\ Refused(r)
    /\ reader' = [reader EXCEPT ![r] = Idle]
    /\ UNCHANGED <<chain, polled, marks, stored, backendLatest, promises, crashes>>

\* backend.get or backend.all.
ReadStored(r) ==
    /\ reader[r].pc = "read"
    /\ reader' = [reader EXCEPT ![r] = Idle]
    /\ UNCHANGED <<chain, polled, marks, stored, backendLatest, promises, crashes>>

-----------------------------------------------------------------------------
(* Restarts *)

\* Only a database outlives the process.  Its latest block is read in the
\* background by _loadLatestBlock.
Wipe ==
    /\ polled' = 0 /\ latestBlock' = 0 /\ lastQueriedBlock' = 0 /\ latestIndexedBlock' = 0
    /\ stored' = IF Persistent THEN stored ELSE {}
    /\ backendLatest' = 0
    /\ promises' = << >>
    /\ reader' = [r \in Readers |-> Idle]
    /\ UNCHANGED chain

Reset ==
    /\ crashes < MaxCrashes
    /\ Persistent => MidBlock \/ \A k \in DOMAIN promises : ~Torn(k)
    /\ crashes' = crashes + 1
    /\ Wipe

LoadLatestBlock ==
    /\ Persistent
    /\ \E e \in stored :
        /\ \A f \in stored : f[1] <= e[1]
        /\ backendLatest < e[1]
        /\ backendLatest' = e[1]
    /\ UNCHANGED <<chain, polled, marks, stored, promises, reader, crashes>>

-----------------------------------------------------------------------------
PromiseStep(k) == NodeAnswers(k) \/ NodeFails(k) \/ AddEvent(k) \/ AddFails(k) \/ FinishAdding(k)

\* The steps of a call between its beginning and its answer.
CallStep(r) == AskNumber(r) \/ SetIndexed(r) \/ Resume(r) \/ UpdateIndexed(r)

\* What happens without the reader.
Background ==
    \/ Mine \/ Poll \/ LoadLatestBlock
    \/ \E k \in DOMAIN promises : PromiseStep(k)

CacheNext ==
    \/ Background
    \/ \E r \in Readers : BeginRead(r) \/ CallStep(r) \/ Reject(r) \/ ReadStored(r)
    \/ Reset

CacheSpec == CacheInit /\ [][CacheNext]_cacheVars

-----------------------------------------------------------------------------
(* Properties *)

CacheTypeOK ==
    /\ chain \in Seq(0 .. PerBlock) /\ Len(chain) <= MaxBlock
    /\ polled \in {NoAnswer} \cup 0 .. Len(chain)
    /\ {latestBlock, lastQueriedBlock} \subseteq 0 .. Len(chain)
    /\ stored \subseteq AllEvents
    /\ {latestIndexedBlock, backendLatest} \subseteq {0} \cup {e[1] : e \in stored}
    /\ DOMAIN promises \subseteq Blocks \X Blocks
    /\ \A k \in DOMAIN promises :
            /\ promises[k].state \in {"asked", "adding", "done", "failed"}
            /\ promises[k].rest \subseteq AllEvents
    /\ \A r \in Readers :
            /\ reader[r].pc \in {"idle", "number", "index", "waiting", "update", "read"}
            /\ reader[r].pc = "waiting" => <<reader[r].from, reader[r].to>> \in DOMAIN promises

\* The events that some call of getPastEvents is storing.
Pending == UNION {promises[k].rest : k \in DOMAIN promises}

\* "This is defensive against accidental 'future' requests on nodes that may be out
\* of sync": the cache never moves past an event it has not got, whatever the nodes
\* answered and however calls overlapped, when a restart or a refusal of the database
\* cuts the storing of events short between two blocks.  (Where it cuts a block in two,
\* what is left of the block is lost.)  What the cache lacks is what a call is storing.
NoGap == Emitted(1, latestIndexedBlock) \subseteq stored \cup Pending

\* A call answers with every event up to the block it set out for, but for the blocks
\* that a node was behind and for what another call is storing at the moment: this is
\* so of calls that share a request, that find the cache current, and after a restart.
\* (Of events that a database refuses it says nothing.)
Fresh ==
    ~Persistent => \A r \in Readers :
        reader[r].pc = "read" => Emitted(1, reader[r].to - MaxLag) \subseteq stored \cup Pending
=============================================================================
