------------------------------ MODULE Listener ------------------------------
(***************************************************************************)
(* The event listener, infra/discovery/src/listener: it follows the events *)
(* of a contract through the event cache, hands each to its handler and    *)
(* records in the database up to which block it has come.                  *)
(*                                                                         *)
(* The process has one cache per contract.  The GraphQL resolvers that     *)
(* handlers query in the same process read it too: they are the readers    *)
(* other than Main.  One contract is followed, one event at a time (no     *)
(* backfill mode), on the memory backend.  A handler that gives up on an   *)
(* event has handled it; what webhooks do is left out.                     *)
(***************************************************************************)
EXTENDS EventCache

CONSTANTS
    Main,           (* the reader that is the loop of the listener          *)
    MAX_RETRYS

ASSUME ListenerAssumption ==
    /\ Main \in Readers
    /\ MAX_RETRYS \in Nat \ {0}
    /\ ~Persistent

VARIABLES
    processed,      (* the block recorded in the database                   *)
    loop,           (* where the loop is, toBlock, newEvents, tryCount      *)
    handled         (* the events some handler was called with              *)

listenerVars == <<processed, loop, handled>>
vars == <<cacheVars, listenerVars>>

Round == [pc |-> "start", toBlock |-> 0, newEvents |-> {}, tryCount |-> 0]

Init == CacheInit /\ processed = 0 /\ loop = Round /\ handled = {}

-----------------------------------------------------------------------------
\* There are blocks that were not processed.
Start ==
    /\ loop.pc = "start"
    /\ \E n \in Heads :
        /\ n > processed
        /\ loop' = [loop EXCEPT !.pc = "query", !.toBlock = n]
    /\ UNCHANGED <<cacheVars, processed, handled>>

\* The loop calls allEvents, or a handler queries a resolver.
Query(r) ==
    /\ loop.pc = IF r = Main THEN "query" ELSE "handle"
    /\ r # Main => loop.newEvents # {}
    /\ BeginRead(r)
    /\ loop' = [loop EXCEPT !.pc = IF r = Main THEN "fetch" ELSE @]
    /\ UNCHANGED <<processed, handled>>

\* Slip: a process whose retries are spent goes on.
NeverSpent == FALSE

Spent == loop.tryCount + 1 >= MAX_RETRYS

\* withRetrys around allEvents; a handler repeats its queries in the same way.
Retry(r) ==
    /\ Reject(r)
    /\ r = Main => ~Spent
    /\ loop' = IF r = Main
               THEN [loop EXCEPT !.pc = "query",
                                 !.tryCount = IF @ < MAX_RETRYS THEN @ + 1 ELSE @]
               ELSE loop
    /\ UNCHANGED <<processed, handled>>

\* "EXITING ! Maximum number of retrys reached": the environment starts it again.
Exit ==
    /\ Refused(Main)
    /\ Spent
    /\ Wipe
    /\ loop' = Round
    /\ UNCHANGED <<crashes, processed, handled>>

\* The cache answers.
Answered(r) ==
    /\ ReadStored(r)
    /\ loop' = IF r = Main
               THEN [loop EXCEPT !.pc = "handle", !.newEvents = {e \in stored : e[1] > processed}]
               ELSE loop
    /\ UNCHANGED <<processed, handled>>

\* Slip: the latest event is handled first.
LastFirst(E) == CHOOSE e \in E : \A f \in E \ {e} : Before(f, e)
NextEvent(E) == Least(E)

\* Slip: the block the round set out for, which the cache may not have come to.
ReachedToBlock == loop.toBlock

\* "Don't assume it's the latest block known above, but use the one from event-cache".
Reached == latestIndexedBlock

\* The next event is given to its handler, which ends when its queries are answered.
Handle ==
    /\ loop.pc = "handle" /\ loop.newEvents # {}
    /\ \A r \in Readers : reader[r].pc = "idle"
    /\ LET e == NextEvent(loop.newEvents)
       IN  /\ handled' = handled \cup {e}
           /\ loop' = [loop EXCEPT !.newEvents = @ \ {e}]
    /\ UNCHANGED <<cacheVars, processed>>

\* All are handled: the block is recorded to which the cache has come.
Checkpoint ==
    /\ loop.pc = "handle" /\ loop.newEvents = {}
    /\ processed' = Larger(processed, Reached)
    /\ loop' = Round
    /\ UNCHANGED <<cacheVars, handled>>

Restart == Reset /\ loop' = Round /\ UNCHANGED <<processed, handled>>

-----------------------------------------------------------------------------
CacheStep(step) == step /\ UNCHANGED listenerVars

MainStep == Start \/ Query(Main) \/ Retry(Main) \/ Exit \/ Answered(Main) \/ Handle \/ Checkpoint

Next ==
    \/ Start \/ Exit \/ Handle \/ Checkpoint \/ Restart
    \/ \E r \in Readers : Query(r) \/ Retry(r) \/ Answered(r)
    \/ CacheStep(Background \/ \E r \in Readers : CallStep(r))

Spec == Init /\ [][Next]_vars

\* The listener, the poll for blocks and the storing of events go on, the first request
\* for a block number ends, and a request that is made again and again is answered at
\* some time by a node.
FairSpec ==
    /\ Spec
    /\ WF_vars(MainStep)
    /\ WF_vars(CacheStep(SetIndexed(Main) \/ Resume(Main) \/ UpdateIndexed(Main)))
    /\ SF_vars(CacheStep(AskNumber(Main)))
    /\ WF_vars(CacheStep(FirstBlock \/ FirstFails))
    /\ WF_vars(CacheStep(NewBlock))
    /\ SF_vars(CacheStep(\E k \in DOMAIN promises : NodeAnswers(k)))
    /\ WF_vars(CacheStep(\E k \in DOMAIN promises : AddEvent(k) \/ FinishAdding(k)))

-----------------------------------------------------------------------------
(* Properties *)

TypeOK ==
    /\ CacheTypeOK
    /\ processed \in 0 .. Len(chain)
    /\ loop.pc \in {"start", "query", "fetch", "handle"}
    /\ loop.toBlock \in 0 .. Len(chain) /\ loop.newEvents \subseteq stored
    /\ loop.tryCount \in 0 .. MAX_RETRYS
    /\ handled \subseteq AllEvents

\* "Guarantees to process blockchain events - At least once": the recorded block, from
\* which a restart goes on, never passes an event that no handler was called with,
\* however far behind the node that answered was.
AtLeastOnce == Emitted(1, processed) \subseteq handled

\* "In blockchain order": no handler is called with an event before one was called with
\* every earlier event of the contract, known to the listener or not.
InOrder ==
    \A e \in handled, f \in AllEvents : Before(f, e) => f \in handled

\* The events that no node may lack.
Settled == Emitted(1, Len(chain) - MaxLag)

\* Every event is handled at some time, but for those of the last blocks of the chain
\* that a node may not know: requests that fail until the process exits, promises kept
\* for their range and restarts included.  The exception is a process for which the first
\* request for a block number failed: its poll passes no block on, its cache stays where
\* the first call found it, and the listener, which does not exit, hears of no event.
Delivered == []<>(Settled \subseteq handled) \/ <>[](polled = NoAnswer)
=============================================================================
