--------------------------- MODULE ListenerProofs ---------------------------
(***************************************************************************)
(* Proofs about the event cache, for any number of readers, blocks, events *)
(* in a block, lagging nodes, failures and restarts, and about the         *)
(* listener that runs on it.                                               *)
(*                                                                         *)
(* The invariant of the cache is about the blocks of the events it has     *)
(* stored, the only ones a call starts from: up to such a block every      *)
(* event is stored or in the hands of a call that is storing it.  Only     *)
(* the theorems about the listener rest on ListenerAssumption; those about *)
(* the cache hold for both of its backends.                                *)
(***************************************************************************)
EXTENDS Listener, FiniteTheorems

Pcs   == {"idle", "number", "index", "waiting", "update", "read"}
Calls == [pc : Pcs, to : Nat, from : Nat, latest : Nat]

\* The blocks of stored events, and 0: the values of latestBlock in the backend.
Marks == {0} \cup {e[1] : e \in stored}

\* The cache has, or is storing, every event up to block n.
Has(n) == \A e \in AllEvents : e[1] <= n => e \in stored \cup Pending

CallsTyped ==
    /\ reader \in [Readers -> Calls]
    /\ \A r \in Readers :
        /\ reader[r].to <= Len(chain) /\ reader[r].latest \in Marks
        /\ reader[r].pc = "waiting" => <<reader[r].from, reader[r].to>> \in DOMAIN promises
    /\ \A k \in DOMAIN promises :
        /\ k \in Blocks \X Blocks /\ k[1] - 1 \in Marks /\ k[2] <= Len(chain)
        /\ promises[k].state \in {"asked", "adding", "done", "failed"}

\* A call stores events in order: what it has in hand is complete up to its last event.
Ordered ==
    \A k \in DOMAIN promises :
        /\ promises[k].rest # {} => promises[k].state = "adding"
        /\ \A e \in promises[k].rest :
            /\ k[1] <= e[1]
            /\ \A f \in AllEvents :
                k[1] <= f[1] /\ f[1] <= e[1] => f \in stored \cup promises[k].rest

\* Up to the block of a stored event nothing is missing but what is being stored ...
Complete == \A e \in stored : Has(e[1])

\* ... and every block with events has a stored one.
Prefix == \A e \in stored : \A f \in AllEvents : f[1] < e[1] => f[1] \in Marks

\* What a call has in hand are events of the chain.
RestsTyped == \A k \in DOMAIN promises : promises[k].rest \subseteq AllEvents

MarksTyped ==
    /\ chain \in Seq(0 .. PerBlock) /\ Len(chain) <= MaxBlock
    /\ polled \in {NoAnswer} \cup 0 .. Len(chain)
    /\ {latestBlock, lastQueriedBlock} \subseteq 0 .. Len(chain)
    /\ stored \subseteq AllEvents
    /\ {latestIndexedBlock, backendLatest} \subseteq Marks

Typed == MarksTyped /\ CallsTyped /\ RestsTyped
Data  == Ordered /\ Complete /\ Prefix

CacheInv == Typed /\ Data

\* Storing never stops between the events of one block.
WholeBlocks == Persistent => ~MidBlock

-----------------------------------------------------------------------------
(* Events *)

LEMMA Constants == {MaxBlock, PerBlock, MaxLag, MaxCrashes} \subseteq Nat
BY CacheAssumption

LEMMA EventIs ==
    ASSUME MarksTyped, NEW e \in AllEvents
    PROVE  /\ e[1] \in Nat /\ e[2] \in Nat /\ e = <<e[1], e[2]>>
           /\ 1 <= e[1] /\ e[1] <= Len(chain) /\ Len(chain) \in Nat
<1>1. e \in Events /\ e[1] \in DOMAIN chain
  BY DEF AllEvents, Emitted
<1>2. DOMAIN chain = 1 .. Len(chain) /\ Len(chain) \in Nat
  BY LenProperties DEF MarksTyped
<1>3. e[1] \in Blocks /\ e[2] \in 1 .. PerBlock /\ e = <<e[1], e[2]>>
  BY <1>1 DEF Events
<1> QED
  BY <1>1, <1>2, <1>3, Constants DEF Blocks

LEMMA EmittedIs ==
    ASSUME MarksTyped, NEW m \in Nat \ {0}, NEW n \in Int
    PROVE  Emitted(m, n) = {e \in AllEvents : m <= e[1] /\ e[1] <= n}
<1>1. ASSUME NEW e \in Events
      PROVE  e[1] \in Nat /\ 1 <= e[1] /\ e[1] <= MaxBlock
  BY <1>1, Constants DEF Events, Blocks
<1>2. ASSUME NEW e \in Events, e[1] \in DOMAIN chain, e[2] <= chain[e[1]]
      PROVE  e[1] \in m .. n <=> m <= e[1] /\ e[1] <= n
  BY <1>1, <1>2
<1>3. ASSUME NEW e \in Events
      PROVE  e[1] \in 1 .. MaxBlock
  BY <1>1, <1>3, Constants
<1> QED
  BY <1>2, <1>3 DEF AllEvents, Emitted

LEMMA HasIs ==
    ASSUME MarksTyped, NEW n \in Int
    PROVE  Has(n) <=> Emitted(1, n) \subseteq stored \cup Pending
<1>1. Emitted(1, n) = {e \in AllEvents : 1 <= e[1] /\ e[1] <= n}
  BY EmittedIs
<1> QED
  BY <1>1, EventIs DEF Has

LEMMA PendingIs ==
    ASSUME NEW e
    PROVE  e \in Pending <=> \E k \in DOMAIN promises : e \in promises[k].rest
BY DEF Pending

LEMMA NextPendingIs ==
    ASSUME NEW e
    PROVE  e \in Pending' <=> \E k \in DOMAIN promises' : e \in promises'[k].rest
BY DEF Pending

\* Of several events one comes before all others.
LEMMA LeastIs ==
    ASSUME MarksTyped, NEW E, E \subseteq AllEvents, E # {}
    PROVE  /\ Least(E) \in E
           /\ \A f \in E : Least(E)[1] <= f[1] /\ ~Before(f, Least(E))
<1> DEFINE B == {f[1] : f \in E}
<1>0. \A f \in E : f[1] \in Nat /\ f[2] \in Nat /\ f = <<f[1], f[2]>>
  BY EventIs
<1>1. B \subseteq Nat /\ B # {}
  BY <1>0
<1>2. PICK b \in B : \A x \in B : b <= x
  BY <1>1, SmallestOf
<1> DEFINE I == {f[2] : f \in {g \in E : g[1] = b}}
<1>3. I \subseteq Nat /\ I # {}
  BY <1>0, <1>2
<1>4. PICK i \in I : \A x \in I : i <= x
  BY <1>3, SmallestOf
<1>5. PICK e \in E : e[1] = b /\ e[2] = i
  BY <1>4
<1>6. ASSUME NEW f \in E \ {e}
      PROVE  Before(e, f)
  <2>1. b <= f[1] /\ (f[1] = b => i <= f[2]) /\ b \in Nat /\ i \in Nat
    BY <1>0, <1>1, <1>2, <1>3, <1>4
  <2>2. f[1] = b => f[2] # i
    BY <1>0, <1>5
  <2> QED
    BY <1>0, <1>5, <2>1, <2>2 DEF Before
<1>7. PICK l \in E : l = Least(E) /\ \A f \in E \ {l} : Before(l, f)
  BY <1>5, <1>6 DEF Least
<1>8. ASSUME NEW f \in E
      PROVE  l[1] <= f[1] /\ ~Before(f, l)
  BY <1>0, <1>7 DEF Before
<1> QED
  BY <1>7, <1>8

-----------------------------------------------------------------------------
(* What the steps do to the promises *)

\* Requests are added, and none is changed.
Grown ==
    /\ DOMAIN promises \subseteq DOMAIN promises'
    /\ \A k \in DOMAIN promises : promises'[k] = promises[k]
    /\ \A k \in DOMAIN promises' \ DOMAIN promises : promises'[k] = [state |-> "asked", rest |-> {}]

\* One request has come further.
Moved(k, state, rest) ==
    /\ DOMAIN promises' = DOMAIN promises
    /\ promises'[k] = [state |-> state, rest |-> rest]
    /\ \A m \in DOMAIN promises \ {k} : promises'[m] = promises[m]

LEMMA PromiseMoves ==
    ASSUME NEW k \in DOMAIN promises, NEW state, NEW rest, Promise(k, state, rest)
    PROVE  Moved(k, state, rest)
BY DEF Promise, Moved

LEMMA SameEvents ==
    ASSUME chain' = chain
    PROVE  AllEvents' = AllEvents
BY DEF AllEvents, Emitted

\* As long as nothing is lost, the cache keeps what it has.
LEMMA HasKept ==
    ASSUME chain' = chain, NEW n \in Int, Has(n),
           \A e \in stored \cup Pending : e \in stored' \cup Pending'
    PROVE  Has(n)'
BY SameEvents DEF Has

LEMMA MarksGrow ==
    ASSUME stored \subseteq stored'
    PROVE  Marks \subseteq Marks'
BY DEF Marks

LEMMA MarkIs ==
    ASSUME MarksTyped, NEW n \in Marks
    PROVE  n \in Nat /\ n <= Len(chain) /\ Len(chain) \in Nat
<1>1. Len(chain) \in Nat
  BY LenProperties DEF MarksTyped
<1>2. CASE n = 0
  BY <1>1, <1>2
<1>3. CASE n # 0
  <2>1. PICK e \in stored : n = e[1]
    BY <1>3 DEF Marks
  <2>2. e \in AllEvents
    BY <2>1 DEF MarksTyped
  <2> QED
    BY <2>1, <2>2, EventIs
<1> QED
  BY <1>2, <1>3

\* In terms of a mark: nothing is missing up to it, and it has no untouched block below.
LEMMA MarkHas ==
    ASSUME MarksTyped, Complete, Prefix, NEW n \in Marks
    PROVE  Has(n) /\ \A f \in AllEvents : f[1] <= n => f[1] \in Marks
<1>1. CASE n = 0
  BY <1>1, EventIs DEF Has
<1>2. CASE n # 0
  <2>1. PICK e \in stored : n = e[1]
    BY <1>2 DEF Marks
  <2>2. e \in AllEvents /\ Has(e[1])
    BY <2>1 DEF MarksTyped, Complete
  <2>3. ASSUME NEW f \in AllEvents, f[1] <= n
        PROVE  f[1] \in Marks
    <3>1. CASE f[1] < e[1]
      BY <2>1, <3>1 DEF Prefix
    <3>2. CASE ~(f[1] < e[1])
      <4>1. f[1] = n
        BY <2>1, <2>2, <2>3, <3>2, EventIs
      <4> QED
        BY <4>1
    <3> QED
      BY <3>1, <3>2
  <2> QED
    BY <2>1, <2>2, <2>3
<1> QED
  BY <1>1, <1>2

LEMMA PendingGrows ==
    ASSUME DOMAIN promises \subseteq DOMAIN promises',
           \A m \in DOMAIN promises : promises[m].rest \subseteq promises'[m].rest
    PROVE  Pending \subseteq Pending'
BY PendingIs, NextPendingIs

LEMMA KeptData ==
    ASSUME MarksTyped, Data, chain' = chain, stored' = stored, Grown
    PROVE  Data' /\ Pending' = Pending
<1>1. ASSUME NEW m \in DOMAIN promises'
      PROVE  (m \in DOMAIN promises /\ promises'[m] = promises[m]) \/ promises'[m].rest = {}
  BY <1>1 DEF Grown
<1>2. Pending' = Pending
  <2>1. ASSUME NEW e
        PROVE  e \in Pending' <=> e \in Pending
    BY <1>1, PendingIs, NextPendingIs DEF Grown
  <2> QED
    BY <2>1
<1>3. Ordered'
  <2> SUFFICES ASSUME NEW m \in DOMAIN promises', promises'[m].rest # {}
               PROVE  /\ promises'[m].state = "adding"
                      /\ \A e \in promises'[m].rest :
                            /\ m[1] <= e[1]
                            /\ \A f \in AllEvents' : m[1] <= f[1] /\ f[1] <= e[1]
                                    => f \in stored' \cup promises'[m].rest
    BY DEF Ordered
  <2>1. m \in DOMAIN promises /\ promises'[m] = promises[m]
    BY <1>1
  <2> QED
    BY <2>1, SameEvents DEF Data, Ordered
<1>4. Complete' /\ Prefix'
  BY <1>2, SameEvents DEF Data, Complete, Prefix, Has, Marks
<1> QED
  BY <1>2, <1>3, <1>4 DEF Data

\* The chain grows: the events of the new block come after all that is known.
LEMMA MineEvents ==
    ASSUME MarksTyped, Mine
    PROVE  /\ MarksTyped' /\ Len(chain') = Len(chain) + 1
           /\ AllEvents \subseteq AllEvents'
           /\ \A e \in AllEvents' : e[1] \in Nat /\ (e[1] <= Len(chain) => e \in AllEvents)
<1>1. PICK n \in 0 .. PerBlock : chain' = Append(chain, n)
  BY DEF Mine
<1>2. chain \in Seq(0 .. PerBlock) /\ Len(chain) \in Nat /\ DOMAIN chain = 1 .. Len(chain)
  BY LenProperties DEF MarksTyped
<1>3. /\ chain' \in Seq(0 .. PerBlock) /\ Len(chain') = Len(chain) + 1
      /\ DOMAIN chain' = DOMAIN chain \cup {Len(chain) + 1}
      /\ \A j \in DOMAIN chain : chain'[j] = chain[j]
  <2>1. PICK S : S = 0 .. PerBlock
    OBVIOUS
  <2>2. n \in S /\ chain \in Seq(S)
    BY <1>2, <2>1
  <2> HIDE <2>1
  <2>3. /\ Append(chain, n) \in Seq(S) /\ Len(Append(chain, n)) = Len(chain) + 1
        /\ DOMAIN Append(chain, n) = DOMAIN chain \cup {Len(chain) + 1}
        /\ \A j \in DOMAIN chain : Append(chain, n)[j] = chain[j]
    BY <2>2, AddElement
  <2> QED
    BY <1>1, <2>1, <2>3
<1>4. AllEvents \subseteq AllEvents'
  BY <1>3 DEF AllEvents, Emitted
<1>5. ASSUME NEW e \in AllEvents'
      PROVE  e[1] \in Nat /\ (e[1] <= Len(chain) => e \in AllEvents)
  <2>1. e \in Events /\ e[1] \in 1 .. MaxBlock /\ e[1] \in DOMAIN chain' /\ e[2] <= chain'[e[1]]
    BY DEF AllEvents, Emitted
  <2>2. ASSUME e[1] <= Len(chain)
        PROVE  e[1] \in DOMAIN chain
    BY <1>2, <2>1, <2>2, Constants
  <2> QED
    BY <1>3, <2>1, <2>2, Constants DEF AllEvents, Emitted
<1>6. Len(chain') <= MaxBlock
  BY <1>2, <1>3, Constants DEF Mine
<1>7. 0 .. Len(chain) \subseteq 0 .. Len(chain')
  BY <1>2, <1>3
<1> QED
  BY <1>3, <1>4, <1>5, <1>6, <1>7 DEF Mine, MarksTyped, marks, Marks

LEMMA MineData ==
    ASSUME MarksTyped, RestsTyped, Data, Mine
    PROVE  Data'
<1>1. UNCHANGED <<stored, promises>>
  BY DEF Mine
<1>2. \A f \in AllEvents' : \A e \in AllEvents : f[1] <= e[1] => f \in AllEvents
  BY MineEvents, EventIs
<1>3. ASSUME NEW f \in AllEvents', NEW e \in AllEvents, f[1] < e[1]
      PROVE  f \in AllEvents
  <2>1. f[1] <= e[1]
    BY <1>3, MineEvents, EventIs
  <2> QED
    BY <1>2, <2>1
<1>4. Ordered'
  BY <1>1, <1>2, MineEvents DEF Data, Ordered, RestsTyped
<1>5. Complete'
  <2>1. Pending' = Pending
    BY <1>1 DEF Pending
  <2> QED
    BY <1>1, <1>2, <2>1 DEF Data, Complete, Has, MarksTyped
<1>6. Prefix'
  BY <1>1, <1>3 DEF Data, Prefix, Marks, MarksTyped
<1> QED
  BY <1>4, <1>5, <1>6 DEF Data

-----------------------------------------------------------------------------
(* The data under each step *)

LEMMA OthersKept ==
    ASSUME NEW k \in DOMAIN promises, NEW state, NEW rest, Moved(k, state, rest),
           \A e \in promises[k].rest : e \in stored' \/ e \in rest, stored \subseteq stored'
    PROVE  \A e \in stored \cup Pending : e \in stored' \cup Pending'
<1> SUFFICES ASSUME NEW e \in Pending
             PROVE  e \in stored' \cup Pending'
  OBVIOUS
<1>1. PICK m \in DOMAIN promises : e \in promises[m].rest
  BY PendingIs
<1>2. CASE m = k
  BY <1>1, <1>2, NextPendingIs DEF Moved
<1>3. CASE m # k
  BY <1>1, <1>3, NextPendingIs DEF Moved
<1> QED
  BY <1>2, <1>3

\* A request that has stored nothing and holds what a node has answered.
LEMMA RequestData ==
    ASSUME MarksTyped, Data, NEW k \in DOMAIN promises, promises[k].rest = {},
           NEW state, NEW rest, Moved(k, state, rest), UNCHANGED <<chain, stored>>,
           rest \subseteq AllEvents, rest # {} => state = "adding",
           \A e \in rest : k[1] <= e[1] /\ \A f \in AllEvents :
               k[1] <= f[1] /\ f[1] <= e[1] => f \in rest
    PROVE  Data'
<1>1. \A e \in stored \cup Pending : e \in stored' \cup Pending'
  BY OthersKept
<1>2. ASSUME NEW e \in stored
      PROVE  Has(e[1])'
  <2>1. e[1] \in Int /\ Has(e[1])
    BY EventIs DEF MarksTyped, Data, Complete
  <2> QED
    BY <1>1, <2>1, HasKept
<1>3. Complete' /\ Prefix'
  BY <1>2, SameEvents DEF Complete, Prefix, Data, Marks
<1>4. Ordered'
  BY SameEvents DEF Moved, Data, Ordered
<1> QED
  BY <1>3, <1>4 DEF Data

LEMMA NodeAnswersData ==
    ASSUME MarksTyped, CallsTyped, Data, NEW k \in DOMAIN promises, NodeAnswers(k)
    PROVE  Data'
<1>1. PICK n \in Heads : Promise(k, "adding", Emitted(k[1], k[2]) \cap Emitted(1, n))
  BY DEF NodeAnswers
<1> DEFINE rest == Emitted(k[1], k[2]) \cap Emitted(1, n)
<1>2. n \in Int
  BY LenProperties DEF Heads, MarksTyped
<1>3. k[1] \in Nat \ {0} /\ k[2] \in Int
  BY Constants DEF CallsTyped, Blocks
<1>4. rest = {e \in AllEvents : k[1] <= e[1] /\ e[1] <= k[2] /\ 1 <= e[1] /\ e[1] <= n}
  BY <1>2, <1>3, EmittedIs
<1> HIDE DEF rest
<1>5. ASSUME NEW e \in rest, NEW f \in AllEvents, k[1] <= f[1], f[1] <= e[1]
      PROVE  f \in rest
  BY <1>2, <1>3, <1>4, <1>5, EventIs
<1>6. promises[k].rest = {} /\ UNCHANGED <<chain, stored>>
  BY DEF Data, Ordered, NodeAnswers
<1>7. Moved(k, "adding", rest)
  BY <1>1, PromiseMoves DEF rest
<1>8. rest \subseteq AllEvents /\ \A e \in rest : k[1] <= e[1]
  BY <1>4
<1> QED
  BY <1>5, <1>6, <1>7, <1>8, RequestData

LEMMA EndData ==
    ASSUME MarksTyped, Data, NEW k \in DOMAIN promises, NodeFails(k) \/ FinishAdding(k)
    PROVE  Data'
<1>1. promises[k].rest = {} /\ UNCHANGED <<chain, stored>>
  BY DEF Data, Ordered, NodeFails, FinishAdding
<1>2. CASE NodeFails(k)
  <2>1. Moved(k, "failed", {})
    BY <1>2, PromiseMoves DEF NodeFails
  <2> QED
    BY <1>1, <2>1, RequestData
<1>3. CASE FinishAdding(k)
  <2>1. Moved(k, "done", {})
    BY <1>3, PromiseMoves DEF FinishAdding
  <2> QED
    BY <1>1, <2>1, RequestData
<1> QED
  BY <1>2, <1>3

LEMMA AddEventStores ==
    ASSUME MarksTyped, RestsTyped, NEW k \in DOMAIN promises, AddEvent(k)
    PROVE  \E e \in promises[k].rest :
            /\ \A f \in promises[k].rest : e[1] <= f[1]
            /\ stored' = stored \cup {e} /\ backendLatest' = LatestWith(e)
            /\ Promise(k, "adding", promises[k].rest \ {e})
<1> DEFINE rest == promises[k].rest
<1>1. rest # {} /\ rest \subseteq AllEvents
  BY DEF AddEvent, RestsTyped
<1>2. PICK e \in rest : e = Least(rest) /\ \A f \in rest : e[1] <= f[1]
  BY <1>1, LeastIs
<1> QED
  BY <1>2 DEF AddEvent, NextToAdd

LEMMA AddEventData ==
    ASSUME Typed, Data, NEW k \in DOMAIN promises, AddEvent(k)
    PROVE  /\ Data'
           /\ \A e \in stored \cup Pending : e \in stored' \cup Pending'
<1> DEFINE rest == promises[k].rest
<1> USE DEF Typed
<1>1. rest # {} /\ rest \subseteq AllEvents
  BY DEF AddEvent, RestsTyped
<1>2. PICK e \in rest :
        /\ \A f \in rest : e[1] <= f[1]
        /\ stored' = stored \cup {e} /\ backendLatest' = LatestWith(e)
        /\ Promise(k, "adding", rest \ {e}) /\ chain' = chain
  BY AddEventStores DEF AddEvent
<1>3. /\ stored' = stored \cup {e}
      /\ Promise(k, "adding", rest \ {e}) /\ chain' = chain
  BY <1>2
<1>4. Moved(k, "adding", rest \ {e})
  BY <1>3, PromiseMoves
<1>5. \A x \in stored \cup Pending : x \in stored' \cup Pending'
  <2>1. \A x \in promises[k].rest : x \in stored' \/ x \in rest \ {e}
    BY <1>3
  <2>2. stored \subseteq stored'
    BY <1>3
  <2> HIDE DEF rest
  <2> QED
    BY <1>4, <2>1, <2>2, OthersKept
<1>6. e \in AllEvents /\ e[1] \in Nat /\ k[1] \in Nat /\ k[1] - 1 \in Marks /\ k[1] <= e[1]
  BY <1>1, <1>2, EventIs, Constants DEF CallsTyped, Blocks, Data, Ordered
<1>7. ASSUME NEW f \in AllEvents, f[1] <= e[1]
      PROVE  \/ f \in stored \/ f \in rest
             \/ f[1] \in Marks /\ f \in stored \cup Pending
  <2>1. CASE k[1] <= f[1]
    BY <1>2, <1>7, <2>1 DEF Data, Ordered
  <2>2. CASE ~(k[1] <= f[1])
    <3>1. f[1] <= k[1] - 1 /\ k[1] - 1 \in Int
      BY <1>6, <2>2, EventIs
    <3>2. Has(k[1] - 1) /\ f[1] \in Marks
      BY <1>6, <3>1, MarkHas DEF Data
    <3> QED
      BY <3>1, <3>2 DEF Has
  <2> QED
    BY <2>1, <2>2
<1>8. \A f \in rest : f \in Pending
  BY PendingIs
<1>9. Has(e[1])'
  BY <1>3, <1>5, <1>7, <1>8, SameEvents DEF Has
<1>10. Complete'
  <2>1. ASSUME NEW x \in stored
        PROVE  Has(x[1])'
    <3>1. x[1] \in Int /\ Has(x[1])
      BY EventIs DEF MarksTyped, Data, Complete
    <3> QED
      BY <1>3, <1>5, <3>1, HasKept
  <2> QED
    BY <1>3, <1>9, <2>1 DEF Complete
<1>11. Prefix'
  <2>1. ASSUME NEW f \in AllEvents, f[1] < e[1]
        PROVE  f[1] \in Marks'
    <3>1. f[1] \in Nat /\ f \notin rest /\ f[1] <= e[1]
      BY <1>2, <1>6, <2>1, EventIs
    <3>2. f[1] \in Marks
      BY <1>7, <3>1 DEF Marks
    <3> QED
      BY <1>3, <3>2, MarksGrow
  <2> QED
    BY <1>3, <2>1, MarksGrow, SameEvents DEF Prefix, Data
<1>12. Ordered'
  BY <1>2, <1>3, <1>4, SameEvents DEF Moved, Data, Ordered
<1> QED
  BY <1>5, <1>10, <1>11, <1>12 DEF Data

\* What a call has in hand lies past all that is stored, unless it stopped in a block.
LEMMA UntornBeyond ==
    ASSUME MarksTyped, RestsTyped, Data, NEW k \in DOMAIN promises, ~Torn(k),
           NEW n \in Marks, NEW f \in promises[k].rest
    PROVE  ~(f[1] <= n)
<1>1. PICK e \in promises[k].rest :
        e = Least(promises[k].rest) /\ \A g \in promises[k].rest : e[1] <= g[1]
  BY LeastIs DEF RestsTyped
<1>2. e \in AllEvents /\ f \in AllEvents /\ n \in Nat
  BY MarkIs DEF RestsTyped
<1>3. e[1] \in Nat \ {0} /\ f[1] \in Nat /\ e[1] <= f[1]
  BY <1>1, <1>2, EventIs
<1>4. e[1] \notin Marks
  BY <1>1, <1>3 DEF Torn, Marks
<1>5. ~(e[1] <= n)
  BY <1>2, <1>4, MarkHas DEF Data
<1> QED
  BY <1>2, <1>3, <1>5

LEMMA AddFailsData ==
    ASSUME MarksTyped, RestsTyped, Data, WholeBlocks, NEW k \in DOMAIN promises, AddFails(k)
    PROVE  Data'
<1>1. Moved(k, "adding", {}) /\ ~Torn(k) /\ UNCHANGED <<chain, stored>>
  BY PromiseMoves DEF AddFails, WholeBlocks
<1>2. ASSUME NEW e \in stored, NEW f \in AllEvents, f[1] <= e[1]
      PROVE  f \in stored \cup Pending'
  <2>1. f \in stored \cup Pending /\ e[1] \in Marks
    BY <1>2 DEF Data, Complete, Has, Marks
  <2>2. CASE f \in Pending
    <3>1. PICK m \in DOMAIN promises : f \in promises[m].rest
      BY <2>2, PendingIs
    <3>2. m # k
      BY <1>1, <1>2, <2>1, <3>1, UntornBeyond
    <3> QED
      BY <1>1, <3>1, <3>2, NextPendingIs DEF Moved
  <2> QED
    BY <2>1, <2>2
<1>3. Complete' /\ Prefix'
  BY <1>1, <1>2, SameEvents DEF Complete, Prefix, Data, Marks, Has
<1>4. Ordered'
  BY <1>1, SameEvents DEF Moved, Data, Ordered
<1> QED
  BY <1>3, <1>4 DEF Data

LEMMA WipeData ==
    ASSUME MarksTyped, RestsTyped, Data, Wipe, Persistent => \A k \in DOMAIN promises : ~Torn(k)
    PROVE  Data' /\ Pending' = {} /\ DOMAIN promises' = {}
<1>1. DOMAIN promises' = {} /\ chain' = chain
  BY EmptySeq DEF Wipe
<1>2. Pending' = {}
  BY <1>1 DEF Pending
<1>3. Ordered'
  BY <1>1 DEF Ordered
<1>4. CASE Persistent
  <2>1. stored' = stored
    BY <1>4 DEF Wipe
  <2>2. ASSUME NEW e \in stored, NEW f \in AllEvents, f[1] <= e[1]
        PROVE  f \in stored
    <3>1. f \in stored \cup Pending /\ e[1] \in Marks
      BY <2>2 DEF Data, Complete, Has, Marks
    <3>2. CASE f \in Pending
      <4>1. PICK m \in DOMAIN promises : f \in promises[m].rest
        BY <3>2, PendingIs
      <4> QED
        BY <1>4, <2>2, <3>1, <4>1, UntornBeyond
    <3> QED
      BY <3>1, <3>2
  <2> QED
    BY <1>1, <1>2, <1>3, <2>1, <2>2, SameEvents DEF Data, Complete, Prefix, Has, Marks
<1>5. CASE ~Persistent
  <2>1. stored' = {}
    BY <1>5 DEF Wipe
  <2> QED
    BY <1>1, <1>2, <1>3, <2>1 DEF Data, Complete, Prefix
<1> QED
  BY <1>4, <1>5

-----------------------------------------------------------------------------
(* The types under each step *)

LEMMA CallMoves ==
    ASSUME CallsTyped, chain' = chain, Marks \subseteq Marks',
           NEW r \in Readers, NEW c \in Calls, reader' = [reader EXCEPT ![r] = c],
           c.to <= Len(chain), c.latest \in Marks',
           c.pc = "waiting" => <<c.from, c.to>> \in DOMAIN promises',
           Grown,
           \A k \in DOMAIN promises' \ DOMAIN promises :
               k \in Blocks \X Blocks /\ k[1] - 1 \in Marks /\ k[2] <= Len(chain)
    PROVE  CallsTyped'
<1>1. /\ reader' \in [Readers -> Calls]
      /\ \A s \in Readers : reader'[s] = c \/ reader'[s] = reader[s]
  BY DEF CallsTyped
<1>2. \A k \in DOMAIN promises' :
        promises'[k].state \in {"asked", "adding", "done", "failed"}
  BY DEF CallsTyped, Grown
<1>3. \A k \in DOMAIN promises' :
        k \in Blocks \X Blocks /\ k[1] - 1 \in Marks' /\ k[2] <= Len(chain')
  BY DEF CallsTyped
<1>4. DOMAIN promises \subseteq DOMAIN promises'
  BY DEF Grown
<1>5. \A s \in Readers :
        /\ reader'[s].to <= Len(chain') /\ reader'[s].latest \in Marks'
        /\ reader'[s].pc = "waiting" => <<reader'[s].from, reader'[s].to>> \in DOMAIN promises'
  BY <1>1, <1>4 DEF CallsTyped
<1> QED
  BY <1>1, <1>2, <1>3, <1>5 DEF CallsTyped

LEMMA NothingGrown ==
    ASSUME UNCHANGED promises
    PROVE  Grown
BY DEF Grown

LEMMA AnswerCalls ==
    ASSUME MarksTyped, CallsTyped, UNCHANGED <<chain, stored>>,
           NEW r \in Readers, NEW to \in 0 .. Len(chain), Answer(r, to), UNCHANGED promises
    PROVE  CallsTyped' /\ Grown
<1> DEFINE c == [Idle EXCEPT !.pc = "read", !.to = to]
<1>1. to \in Nat /\ to <= Len(chain)
  BY LenProperties DEF MarksTyped
<1>2. /\ c \in Calls /\ c.to <= Len(chain) /\ c.latest \in Marks /\ c.pc # "waiting"
      /\ reader' = [reader EXCEPT ![r] = c]
  BY <1>1 DEF Idle, Calls, Pcs, Marks, Answer
<1>3. Marks' = Marks
  BY DEF Marks
<1> HIDE DEF c
<1> QED
  BY <1>2, <1>3, NothingGrown, CallMoves

LEMMA FetchCalls ==
    ASSUME MarksTyped, CallsTyped, UNCHANGED <<chain, stored>>,
           NEW r \in Readers, NEW to \in 0 .. Len(chain), NEW indexed \in Marks,
           Fetch(r, to, indexed)
    PROVE  CallsTyped' /\ Grown
<1>1. CASE FromBlock(indexed) > to
  BY <1>1, AnswerCalls DEF Fetch
<1>2. CASE ~(FromBlock(indexed) > to)
  <2> DEFINE k == <<FromBlock(indexed), to>>
             c == [pc |-> "waiting", to |-> to, from |-> FromBlock(indexed), latest |-> 0]
  <2>1. /\ to \in Nat /\ to <= Len(chain) /\ Len(chain) <= MaxBlock /\ Len(chain) \in Nat
        /\ indexed \in Nat
    BY LenProperties, MarkIs DEF MarksTyped
  <2>2. /\ FromBlock(indexed) \in 1 .. MaxBlock /\ to \in 1 .. MaxBlock
        /\ FromBlock(indexed) - 1 = indexed
    BY <1>2, <2>1, Constants DEF FromBlock
  <2>3. /\ k \in Blocks \X Blocks /\ k[1] - 1 \in Marks /\ k[2] <= Len(chain)
        /\ c \in Calls /\ c.to <= Len(chain) /\ c.latest \in Marks
    BY <2>1, <2>2 DEF Blocks, Calls, Pcs, Marks
  <2>4. /\ reader' = [reader EXCEPT ![r] = c]
        /\ IF k \in DOMAIN promises THEN UNCHANGED promises
           ELSE promises' = [m \in DOMAIN promises \cup {k} |->
                    IF m = k THEN [state |-> "asked", rest |-> {}] ELSE promises[m]]
    BY <1>2 DEF Fetch
  <2>5. <<c.from, c.to>> = k
    OBVIOUS
  <2>6. Marks' = Marks
    BY DEF Marks
  <2> HIDE DEF k, c
  <2>7. Grown /\ DOMAIN promises' = DOMAIN promises \cup {k}
    <3>1. CASE k \in DOMAIN promises
      BY <2>4, <3>1 DEF Grown
    <3>2. CASE k \notin DOMAIN promises
      <4>1. /\ DOMAIN promises' = DOMAIN promises \cup {k}
            /\ \A m \in DOMAIN promises \cup {k} :
                promises'[m] = IF m = k THEN [state |-> "asked", rest |-> {}] ELSE promises[m]
        BY <2>4, <3>2
      <4> QED
        BY <3>2, <4>1 DEF Grown
    <3> QED
      BY <3>1, <3>2
  <2> QED
    BY <2>3, <2>4, <2>5, <2>6, <2>7, CallMoves
<1> QED
  BY <1>1, <1>2

LEMMA ProceedCalls ==
    ASSUME MarksTyped, CallsTyped, UNCHANGED <<chain, stored>>,
           NEW r \in Readers, NEW to \in 0 .. Len(chain), Proceed(r, to)
    PROVE  CallsTyped' /\ Grown
<1>1. CASE lastQueriedBlock = to
  BY <1>1, AnswerCalls DEF Proceed
<1>2. CASE lastQueriedBlock # to /\ latestIndexedBlock = 0
  <2> DEFINE c == [pc |-> "index", to |-> to, from |-> 0, latest |-> backendLatest]
  <2>1. to \in Nat /\ to <= Len(chain) /\ backendLatest \in Nat /\ backendLatest \in Marks
    BY LenProperties, MarkIs DEF MarksTyped
  <2>2. /\ c \in Calls /\ c.to <= Len(chain) /\ c.latest \in Marks /\ c.pc # "waiting"
        /\ reader' = [reader EXCEPT ![r] = c] /\ UNCHANGED promises
    BY <1>2, <2>1 DEF Calls, Pcs, Proceed
  <2>3. Marks' = Marks
    BY DEF Marks
  <2> HIDE DEF c
  <2> QED
    BY <2>2, <2>3, NothingGrown, CallMoves
<1>3. CASE lastQueriedBlock # to /\ latestIndexedBlock # 0
  <2>1. latestIndexedBlock \in Marks
    BY DEF MarksTyped
  <2> QED
    BY <1>3, <2>1, FetchCalls DEF Proceed
<1> QED
  BY <1>1, <1>2, <1>3

LEMMA IdleIsCall ==
    /\ Idle \in Calls /\ Idle.pc = "idle" /\ Idle.to = 0 /\ Idle.latest = 0
    /\ Idle.latest \in Marks
BY DEF Idle, Calls, Pcs, Marks

\* The steps of a call.
LEMMA CallTyped ==
    ASSUME MarksTyped, CallsTyped, NEW r \in Readers,
           BeginRead(r) \/ CallStep(r) \/ Reject(r) \/ ReadStored(r)
    PROVE  MarksTyped' /\ CallsTyped' /\ Grown /\ UNCHANGED <<chain, stored>>
<1>1. /\ reader[r] \in Calls /\ reader[r].to \in 0 .. Len(chain)
      /\ reader[r].latest \in Marks
      /\ reader[r] = [pc |-> reader[r].pc, to |-> reader[r].to, from |-> reader[r].from,
                      latest |-> reader[r].latest]
  <2>1. Len(chain) \in Nat
    BY LenProperties DEF MarksTyped
  <2>2. /\ reader[r] \in Calls /\ reader[r].to <= Len(chain)
        /\ reader[r].latest \in Marks
    BY DEF CallsTyped
  <2>3. PICK c \in Calls : c = reader[r]
    BY <2>2
  <2>4. /\ c.to \in Nat
        /\ c = [pc |-> c.pc, to |-> c.to, from |-> c.from, latest |-> c.latest]
    BY DEF Calls
  <2> QED
    BY <2>1, <2>2, <2>3, <2>4
<1>2. latestBlock \in 0 .. Len(chain) /\ Len(chain) \in Nat
  BY LenProperties DEF MarksTyped
<1>3. CASE BeginRead(r)
  <2>1. UNCHANGED <<chain, polled, marks, stored, backendLatest>>
    BY <1>3 DEF BeginRead
  <2>2. MarksTyped'
    BY <2>1 DEF MarksTyped, Marks, marks, AllEvents, Emitted
  <2>3. CASE latestBlock = 0
    <3> DEFINE c == [reader[r] EXCEPT !.pc = "number"]
    <3>1. /\ c \in Calls /\ c.to <= Len(chain) /\ c.latest \in Marks /\ c.pc # "waiting"
          /\ reader' = [reader EXCEPT ![r] = c] /\ UNCHANGED promises
      BY <1>1, <1>3, <2>3, <1>2 DEF BeginRead, At, Calls, Pcs, CallsTyped
    <3>2. Marks' = Marks
      BY <2>1 DEF Marks
    <3> HIDE DEF c
    <3> QED
      BY <2>1, <2>2, <3>1, <3>2, NothingGrown, CallMoves
  <2>4. CASE latestBlock # 0
    BY <1>2, <1>3, <2>1, <2>2, <2>4, ProceedCalls DEF BeginRead
  <2> QED
    BY <2>3, <2>4
<1>4. CASE AskNumber(r)
  <2>1. PICK n \in Heads : latestBlock' = n /\ Proceed(r, n)
    BY <1>4 DEF AskNumber
  <2>2. n \in 0 .. Len(chain)
    BY <1>2 DEF Heads
  <2>3. /\ UNCHANGED <<chain, polled, stored, backendLatest>>
        /\ UNCHANGED <<lastQueriedBlock, latestIndexedBlock>>
    BY <1>4 DEF AskNumber
  <2>4. MarksTyped'
    BY <2>1, <2>2, <2>3 DEF MarksTyped, Marks, AllEvents, Emitted
  <2> QED
    BY <2>1, <2>2, <2>3, <2>4, ProceedCalls
<1>5. CASE SetIndexed(r)
  <2>1. /\ UNCHANGED <<chain, polled, stored, backendLatest, latestBlock, lastQueriedBlock>>
        /\ latestIndexedBlock' = reader[r].latest
        /\ Fetch(r, reader[r].to, reader[r].latest)
    BY <1>5 DEF SetIndexed
  <2>2. MarksTyped'
    BY <1>1, <2>1 DEF MarksTyped, Marks, AllEvents, Emitted
  <2> QED
    BY <1>1, <2>1, <2>2, FetchCalls
<1>6. CASE Resume(r)
  <2> DEFINE c == [reader[r] EXCEPT !.pc = "update", !.latest = backendLatest]
  <2>1. UNCHANGED <<chain, polled, marks, stored, backendLatest, promises>>
    BY <1>6 DEF Resume
  <2>2. backendLatest \in Marks /\ backendLatest \in Nat
    BY MarkIs DEF MarksTyped
  <2>3. /\ c \in Calls /\ c.to <= Len(chain) /\ c.latest \in Marks /\ c.pc # "waiting"
        /\ reader' = [reader EXCEPT ![r] = c]
    BY <1>1, <1>2, <1>6, <2>2 DEF Resume, Calls, Pcs, CallsTyped
  <2>4. Marks' = Marks /\ MarksTyped'
    BY <2>1 DEF MarksTyped, Marks, marks, AllEvents, Emitted
  <2> HIDE DEF c
  <2> QED
    BY <2>1, <2>3, <2>4, NothingGrown, CallMoves
<1>7. CASE UpdateIndexed(r)
  <2>1. /\ UNCHANGED <<chain, polled, stored, backendLatest, latestBlock, lastQueriedBlock>>
        /\ latestIndexedBlock' = reader[r].latest
        /\ Answer(r, reader[r].to) /\ UNCHANGED promises
    BY <1>7 DEF UpdateIndexed
  <2>2. MarksTyped'
    BY <1>1, <2>1 DEF MarksTyped, Marks, AllEvents, Emitted
  <2> QED
    BY <1>1, <2>1, <2>2, AnswerCalls
<1>8. CASE Reject(r) \/ ReadStored(r)
  <2>1. /\ UNCHANGED <<chain, polled, marks, stored, backendLatest, promises>>
        /\ reader' = [reader EXCEPT ![r] = Idle]
    BY <1>8 DEF Reject, ReadStored
  <2>2. Marks' = Marks /\ MarksTyped'
    BY <2>1 DEF MarksTyped, Marks, marks, AllEvents, Emitted
  <2>3. Idle.to <= Len(chain) /\ Idle.latest \in Marks' /\ Idle.pc # "waiting" /\ Idle \in Calls
    BY <1>2, <2>2, IdleIsCall
  <2> QED
    BY <2>1, <2>2, <2>3, NothingGrown, CallMoves
<1> QED
  BY <1>3, <1>4, <1>5, <1>6, <1>7, <1>8 DEF CallStep

\* The steps of a request.
LEMMA RequestTyped ==
    ASSUME Typed, NEW k \in DOMAIN promises, PromiseStep(k)
    PROVE  Typed'
<1> USE DEF Typed
<1>1. /\ k \in Blocks \X Blocks /\ k[1] - 1 \in Marks /\ k[2] <= Len(chain)
      /\ Len(chain) \in Nat /\ k[2] \in Nat
  BY LenProperties, Constants DEF MarksTyped, CallsTyped, Blocks
<1>2. ASSUME NEW state \in {"asked", "adding", "done", "failed"}, NEW rest,
             Promise(k, state, rest), rest \subseteq AllEvents,
             UNCHANGED <<chain, reader>>, stored \subseteq stored'
      PROVE  CallsTyped' /\ RestsTyped'
  <2>1. Moved(k, state, rest)
    BY <1>2, PromiseMoves
  <2>2. Marks \subseteq Marks'
    BY <1>2, MarksGrow
  <2>3. \A m \in DOMAIN promises' :
            /\ m \in DOMAIN promises
            /\ promises'[m].state = state \/ promises'[m].state = promises[m].state
            /\ promises'[m].rest = rest \/ promises'[m].rest = promises[m].rest
    BY <2>1 DEF Moved
  <2>4. DOMAIN promises' = DOMAIN promises
    BY <2>1 DEF Moved
  <2> QED
    BY <1>2, <2>2, <2>3, <2>4, SameEvents DEF CallsTyped, RestsTyped
<1>3. CASE NodeAnswers(k)
  <2>1. PICK rest : Promise(k, "adding", rest) /\ rest \subseteq AllEvents
    <3>1. ASSUME NEW n \in Heads
          PROVE  Emitted(k[1], k[2]) \cap Emitted(1, n) \subseteq AllEvents
      <4>1. k[1] \in Nat \ {0} /\ k[2] \in Int
        BY <1>1, Constants DEF Blocks
      <4> QED
        BY <4>1, EmittedIs
    <3> QED
      BY <1>3, <3>1 DEF NodeAnswers
  <2>2. UNCHANGED <<chain, polled, marks, stored, backendLatest, reader>>
    BY <1>3 DEF NodeAnswers
  <2>3. CallsTyped' /\ RestsTyped'
    BY <1>2, <2>1, <2>2
  <2> QED
    BY <2>2, <2>3 DEF MarksTyped, Marks, marks, AllEvents, Emitted
<1>4. CASE NodeFails(k)
  <2>1. UNCHANGED <<chain, polled, marks, stored, backendLatest, reader>> /\ Promise(k, "failed", {})
    BY <1>4 DEF NodeFails
  <2>2. CallsTyped' /\ RestsTyped'
    BY <1>2, <2>1
  <2> QED
    BY <2>1, <2>2 DEF MarksTyped, Marks, marks, AllEvents, Emitted
<1>5. CASE AddFails(k)
  <2>1. UNCHANGED <<chain, polled, marks, stored, backendLatest, reader>> /\ Promise(k, "adding", {})
    BY <1>5 DEF AddFails
  <2>2. CallsTyped' /\ RestsTyped'
    BY <1>2, <2>1
  <2> QED
    BY <2>1, <2>2 DEF MarksTyped, Marks, marks, AllEvents, Emitted
<1>6. CASE FinishAdding(k)
  <2>1. /\ UNCHANGED <<chain, polled, latestBlock, latestIndexedBlock, stored, backendLatest, reader>>
        /\ Promise(k, "done", {}) /\ lastQueriedBlock' = k[2]
    BY <1>6 DEF FinishAdding
  <2>2. CallsTyped' /\ RestsTyped'
    BY <1>2, <2>1
  <2>3. k[2] \in 0 .. Len(chain)
    BY <1>1
  <2> QED
    BY <2>1, <2>2, <2>3 DEF MarksTyped, Marks, AllEvents, Emitted
<1>7. CASE AddEvent(k)
  <2>1. PICK e \in promises[k].rest :
            /\ stored' = stored \cup {e} /\ backendLatest' = LatestWith(e)
            /\ Promise(k, "adding", promises[k].rest \ {e})
    BY <1>7, AddEventStores
  <2>2. UNCHANGED <<chain, polled, marks, reader>>
    BY <1>7 DEF AddEvent
  <2>3. promises[k].rest \ {e} \subseteq AllEvents /\ e \in AllEvents
    BY DEF RestsTyped
  <2>4. CallsTyped' /\ RestsTyped'
    BY <1>2, <2>1, <2>2, <2>3
  <2>5. Marks \subseteq Marks' /\ e[1] \in Marks'
    BY <2>1, MarksGrow DEF Marks
  <2>6. LatestWith(e) \in Marks' /\ latestIndexedBlock' \in Marks'
    BY <2>2, <2>5 DEF LatestWith, Larger, MarksTyped, marks
  <2>7. stored' \subseteq AllEvents'
    BY <2>1, <2>2, <2>3, SameEvents DEF MarksTyped
  <2> QED
    BY <2>1, <2>2, <2>4, <2>6, <2>7 DEF MarksTyped, marks
<1> QED
  BY <1>3, <1>4, <1>5, <1>6, <1>7 DEF PromiseStep

LEMMA MineTyped ==
    ASSUME Typed, Mine
    PROVE  Typed'
<1> USE DEF Typed
<1>1. /\ UNCHANGED <<promises, reader, stored>> /\ Marks' = Marks
      /\ Len(chain) \in Nat /\ Len(chain') = Len(chain) + 1
  BY MineEvents, LenProperties DEF Mine, Marks, MarksTyped
<1>2. \A n \in Nat : n <= Len(chain) => n <= Len(chain')
  BY <1>1
<1>3. \A k \in DOMAIN promises : k[2] \in Nat
  BY Constants DEF CallsTyped, Blocks
<1>4. \A r \in Readers : reader[r].to \in Nat
  BY DEF CallsTyped, Calls
<1> QED
  BY <1>1, <1>2, <1>3, <1>4, MineEvents DEF CallsTyped, RestsTyped

LEMMA WipeTyped ==
    ASSUME Typed, Wipe
    PROVE  Typed'
<1> USE DEF Typed
<1>1. DOMAIN promises' = {} /\ chain' = chain /\ Len(chain) \in Nat
  BY EmptySeq, LenProperties DEF Wipe, MarksTyped
<1>2. \A r \in Readers : reader'[r] = Idle
  BY DEF Wipe
<1>3. reader' \in [Readers -> Calls]
  BY IdleIsCall DEF Wipe
<1>4. 0 \in Marks' /\ stored' \subseteq AllEvents'
  BY <1>1, SameEvents DEF Wipe, Marks, MarksTyped
<1>5. CallsTyped' /\ RestsTyped'
  BY <1>1, <1>2, <1>3, <1>4, IdleIsCall DEF CallsTyped, RestsTyped
<1>6. 0 \in 0 .. Len(chain)
  BY <1>1
<1> QED
  BY <1>1, <1>4, <1>5, <1>6 DEF Wipe, MarksTyped

LEMMA BlockTyped ==
    ASSUME MarksTyped, CallsTyped, Poll \/ LoadLatestBlock
    PROVE  MarksTyped' /\ CallsTyped' /\ UNCHANGED <<chain, stored, promises>>
<1>1. UNCHANGED <<chain, stored, promises, reader>> /\ Len(chain) \in Nat
  BY LenProperties DEF Poll, FirstBlock, FirstFails, NewBlock, BlockIs, LoadLatestBlock, MarksTyped
<1>2. Marks' = Marks /\ AllEvents' = AllEvents
  BY <1>1, SameEvents DEF Marks
<1>3. CallsTyped'
  BY <1>1, <1>2 DEF CallsTyped
<1>4. ASSUME NEW n \in Heads, BlockIs(n)
      PROVE  MarksTyped'
  <2>1. n \in 0 .. Len(chain)
    BY <1>1 DEF Heads
  <2> QED
    BY <1>1, <1>2, <1>4, <2>1 DEF BlockIs, MarksTyped
<1>6. CASE FirstFails
  BY <1>1, <1>2, <1>3, <1>6 DEF FirstFails, MarksTyped, marks
<1>5. CASE LoadLatestBlock
  <2>1. backendLatest' \in Marks
    BY <1>5 DEF LoadLatestBlock, Marks
  <2> QED
    BY <1>1, <1>2, <1>3, <1>5, <2>1 DEF LoadLatestBlock, MarksTyped, marks
<1> QED
  BY <1>1, <1>3, <1>4, <1>5, <1>6 DEF Poll, FirstBlock, NewBlock

-----------------------------------------------------------------------------
(* The invariant of the cache *)

\* A process that exits is started again.
Exits == Wipe /\ UNCHANGED crashes

LEMMA SameTyped ==
    ASSUME Typed, UNCHANGED <<chain, polled, marks, stored, backendLatest, promises, reader>>
    PROVE  Typed'
<1>1. Marks' = Marks /\ AllEvents' = AllEvents
  BY SameEvents DEF Marks
<1> QED
  BY <1>1 DEF Typed, MarksTyped, CallsTyped, RestsTyped, marks

LEMMA GrownRests ==
    ASSUME RestsTyped, Grown, UNCHANGED chain
    PROVE  RestsTyped'
<1>1. ASSUME NEW m \in DOMAIN promises'
      PROVE  (m \in DOMAIN promises /\ promises'[m] = promises[m]) \/ promises'[m].rest = {}
  BY <1>1 DEF Grown
<1> QED
  BY <1>1, SameEvents DEF RestsTyped

LEMMA CacheStepTyped ==
    ASSUME Typed, CacheNext \/ Exits \/ UNCHANGED cacheVars
    PROVE  Typed'
<1>1. ASSUME NEW r \in Readers, BeginRead(r) \/ CallStep(r) \/ Reject(r) \/ ReadStored(r)
      PROVE  Typed'
  BY <1>1, CallTyped, GrownRests DEF Typed
<1>2. CASE Poll \/ LoadLatestBlock
  <2>1. MarksTyped' /\ CallsTyped' /\ UNCHANGED <<chain, stored, promises>>
    BY <1>2, BlockTyped DEF Typed
  <2> QED
    BY <2>1, NothingGrown, GrownRests DEF Typed
<1> QED
  BY <1>1, <1>2, MineTyped, RequestTyped, WipeTyped, SameTyped
     DEF CacheNext, Background, Exits, Reset, cacheVars

LEMMA CacheStepKeeps ==
    ASSUME CacheInv, WholeBlocks, CacheNext \/ (Exits /\ ~Persistent) \/ UNCHANGED cacheVars
    PROVE  CacheInv'
<1>1. Typed /\ Data /\ MarksTyped /\ CallsTyped /\ RestsTyped
  BY DEF CacheInv, Typed
<1>2. Typed'
  BY <1>1, CacheStepTyped
<1> SUFFICES Data'
  BY <1>2 DEF CacheInv
<1>3. CASE Mine
  BY <1>1, <1>3, MineData
<1>4. CASE Poll \/ LoadLatestBlock
  BY <1>1, <1>4, BlockTyped, NothingGrown, KeptData
<1>5. ASSUME NEW k \in DOMAIN promises, PromiseStep(k)
      PROVE  Data'
  BY <1>1, <1>5, NodeAnswersData, EndData, AddEventData, AddFailsData DEF PromiseStep
<1>6. ASSUME NEW r \in Readers, BeginRead(r) \/ CallStep(r) \/ Reject(r) \/ ReadStored(r)
      PROVE  Data'
  BY <1>1, <1>6, CallTyped, KeptData
<1>7. CASE Reset
  BY <1>1, <1>7, WipeData DEF Reset, WholeBlocks
<1>8. CASE Exits /\ ~Persistent
  BY <1>1, <1>8, WipeData DEF Exits
<1>9. CASE UNCHANGED cacheVars
  BY <1>1, <1>9, NothingGrown, KeptData DEF cacheVars
<1> QED
  BY <1>3, <1>4, <1>5, <1>6, <1>7, <1>8, <1>9 DEF CacheNext, Background

LEMMA CacheStarts == CacheInit => CacheInv
<1> SUFFICES ASSUME CacheInit
             PROVE  CacheInv
  OBVIOUS
<1>1. DOMAIN promises = {} /\ chain \in Seq(0 .. PerBlock) /\ Len(chain) = 0
  BY EmptySeq DEF CacheInit
<1>2. \A r \in Readers : reader[r] = Idle
  BY DEF CacheInit
<1>3. reader \in [Readers -> Calls]
  BY IdleIsCall DEF CacheInit
<1>4. CallsTyped /\ RestsTyped
  BY <1>1, <1>2, <1>3, IdleIsCall DEF CallsTyped, RestsTyped
<1>5. MarksTyped
  BY <1>1, Constants DEF CacheInit, MarksTyped, Marks
<1>6. Ordered /\ Complete /\ Prefix
  BY <1>1 DEF CacheInit, Ordered, Complete, Prefix
<1> QED
  BY <1>4, <1>5, <1>6 DEF CacheInv, Typed, Data

LEMMA TypedShows == Typed => CacheTypeOK
BY DEF Typed, MarksTyped, CallsTyped, RestsTyped, CacheTypeOK, Marks, Calls, Pcs

LEMMA CacheShows == CacheInv => NoGap
<1> SUFFICES ASSUME CacheInv
             PROVE  NoGap
  OBVIOUS
<1>1. latestIndexedBlock \in Int /\ Has(latestIndexedBlock)
  BY MarkHas, MarkIs DEF CacheInv, Typed, Data, MarksTyped
<1> QED
  BY <1>1, HasIs DEF NoGap, CacheInv, Typed

(* The marks of the cache stay within the chain, and each is the block of a stored
   event, whatever nodes answer and wherever storing or the process stops. *)
THEOREM CacheTypeCorrect == CacheSpec => []CacheTypeOK
<1>1. Typed /\ [CacheNext]_cacheVars => Typed'
  BY CacheStepTyped
<1>2. CacheInit => Typed
  BY CacheStarts DEF CacheInv
<1> QED
  BY <1>1, <1>2, TypedShows, PTL DEF CacheSpec

(* For any number of readers and nodes behind by any number of blocks, in memory or
   in PostgreSQL: the cache never moves past an event it has not got, as long as
   storing does not stop between two events of one block. *)
THEOREM NeverPassesAnEvent == ASSUME WholeBlocks PROVE CacheSpec => []NoGap
<1>1. CacheInv /\ [CacheNext]_cacheVars => CacheInv'
  BY CacheStepKeeps
<1> QED
  BY <1>1, CacheStarts, CacheShows, PTL DEF CacheSpec

-----------------------------------------------------------------------------
(* What a call answers with *)

\* What a node has answered reaches up to the block that was asked for, but for the lag.
Answers ==
    /\ Has(lastQueriedBlock - MaxLag)
    /\ \A k \in DOMAIN promises :
        promises[k].state \in {"adding", "done"} => Has(k[2] - MaxLag)
    /\ \A r \in Readers : reader[r].pc \in {"update", "read"} => Has(reader[r].to - MaxLag)

\* A step that loses nothing: neither a refusal of the database nor a restart.
Keeping == Background \/ \E r \in Readers : BeginRead(r) \/ CallStep(r) \/ Reject(r) \/ ReadStored(r)

LEMMA NothingLost ==
    ASSUME Typed, Data, ~Persistent, Keeping, ~Mine
    PROVE  chain' = chain /\ \A e \in stored \cup Pending : e \in stored' \cup Pending'
<1> USE DEF Typed
<1>1. ASSUME NEW k \in DOMAIN promises, PromiseStep(k)
      PROVE  chain' = chain /\ \A e \in stored \cup Pending : e \in stored' \cup Pending'
  <2>1. CASE NodeAnswers(k) \/ NodeFails(k) \/ FinishAdding(k)
    <3>1. PICK state, rest : Promise(k, state, rest)
      BY <2>1 DEF NodeAnswers, NodeFails, FinishAdding
    <3>2. promises[k].rest = {} /\ UNCHANGED <<chain, stored>>
      BY <2>1 DEF Data, Ordered, NodeAnswers, NodeFails, FinishAdding
    <3>3. Moved(k, state, rest)
      BY <3>1, PromiseMoves
    <3> QED
      BY <3>2, <3>3, OthersKept
  <2>2. CASE AddEvent(k)
    BY <2>2, AddEventData DEF AddEvent
  <2> QED
    BY <1>1, <2>1, <2>2 DEF PromiseStep, AddFails
<1>2. ASSUME UNCHANGED <<chain, stored>>, Grown
      PROVE  chain' = chain /\ \A e \in stored \cup Pending : e \in stored' \cup Pending'
  BY <1>2, KeptData
<1> QED
  BY <1>1, <1>2, CallTyped, BlockTyped, NothingGrown DEF Keeping, Background

LEMMA HasStays ==
    ASSUME Typed, Data, ~Persistent, Keeping, NEW n \in Int, n <= Len(chain), Has(n)
    PROVE  Has(n)'
<1>1. CASE Mine
  <2>1. Len(chain) \in Nat
    BY LenProperties DEF Typed, MarksTyped
  <2>2. \A e \in AllEvents' : e[1] <= n => e \in AllEvents
    BY <1>1, <2>1, MineEvents DEF Typed
  <2>3. stored' = stored /\ Pending' = Pending
    BY <1>1 DEF Mine, Pending
  <2> QED
    BY <2>2, <2>3 DEF Has
<1>2. CASE ~Mine
  BY <1>2, NothingLost, HasKept
<1> QED
  BY <1>1, <1>2

LEMMA HasLess ==
    ASSUME MarksTyped, NEW m \in Int, NEW n \in Int, m <= n, Has(n)
    PROVE  Has(m)
BY EventIs DEF Has

\* How a call moves: what it answers with is there.
CallAnswers(r) ==
    /\ \A s \in Readers \ {r} : reader'[s] = reader[s]
    /\ reader'[r].pc \in {"update", "read"} => Has(reader'[r].to - MaxLag)

LEMMA AnswerAnswers ==
    ASSUME CallsTyped, NEW r \in Readers, NEW to, Answer(r, to), Has(to - MaxLag)
    PROVE  CallAnswers(r)
<1>1. reader' = [reader EXCEPT ![r] = [Idle EXCEPT !.pc = "read", !.to = to]]
  BY DEF Answer
<1>2. reader'[r].to = to /\ \A s \in Readers \ {r} : reader'[s] = reader[s]
  BY <1>1 DEF CallsTyped, Idle
<1> QED
  BY <1>2 DEF CallAnswers

LEMMA FetchAnswers ==
    ASSUME MarksTyped, CallsTyped, Data, NEW r \in Readers, NEW to \in 0 .. Len(chain),
           NEW indexed \in Marks, Fetch(r, to, indexed)
    PROVE  CallAnswers(r)
<1>1. CASE FromBlock(indexed) > to
  <2>1. Has(indexed) /\ indexed \in Nat /\ Len(chain) \in Nat /\ MaxLag \in Nat
    BY MarkHas, MarkIs, Constants DEF Data
  <2>2. to - MaxLag <= indexed /\ to - MaxLag \in Int
    BY <1>1, <2>1 DEF FromBlock
  <2> QED
    BY <1>1, <2>1, <2>2, HasLess, AnswerAnswers DEF Fetch
<1>2. CASE ~(FromBlock(indexed) > to)
  <2>1. /\ reader'[r].pc = "waiting"
        /\ \A s \in Readers \ {r} : reader'[s] = reader[s]
    BY <1>2 DEF Fetch, CallsTyped
  <2> QED
    BY <2>1 DEF CallAnswers
<1> QED
  BY <1>1, <1>2

LEMMA ProceedAnswers ==
    ASSUME MarksTyped, CallsTyped, Data, Answers, NEW r \in Readers, NEW to \in 0 .. Len(chain),
           Proceed(r, to)
    PROVE  CallAnswers(r)
<1>1. CASE lastQueriedBlock = to
  BY <1>1, AnswerAnswers DEF Proceed, Answers
<1>2. CASE lastQueriedBlock # to /\ latestIndexedBlock = 0
  <2>1. /\ reader'[r].pc = "index"
        /\ \A s \in Readers \ {r} : reader'[s] = reader[s]
    BY <1>2 DEF Proceed, CallsTyped
  <2> QED
    BY <2>1 DEF CallAnswers
<1>3. CASE lastQueriedBlock # to /\ latestIndexedBlock # 0
  BY <1>3, FetchAnswers DEF Proceed, MarksTyped
<1> QED
  BY <1>1, <1>2, <1>3

LEMMA StepAnswers ==
    ASSUME MarksTyped, CallsTyped, Data, Answers, NEW r \in Readers,
           BeginRead(r) \/ CallStep(r) \/ Reject(r) \/ ReadStored(r)
    PROVE  CallAnswers(r) /\ lastQueriedBlock' = lastQueriedBlock
<1>1. Len(chain) \in Nat /\ latestBlock \in 0 .. Len(chain)
  BY LenProperties DEF MarksTyped
<1>2. reader[r].to \in 0 .. Len(chain) /\ reader[r].latest \in Marks
  <2>1. reader[r] \in Calls /\ reader[r].to <= Len(chain) /\ reader[r].latest \in Marks
    BY DEF CallsTyped
  <2>2. reader[r].to \in Nat
    BY <2>1 DEF Calls
  <2> QED
    BY <1>1, <2>1, <2>2
<1>3. CASE BeginRead(r)
  <2>1. CASE latestBlock = 0
    BY <1>3, <2>1 DEF BeginRead, At, CallAnswers, CallsTyped, Calls, marks
  <2>2. CASE latestBlock # 0
    BY <1>1, <1>3, <2>2, ProceedAnswers DEF BeginRead, marks
  <2> QED
    BY <2>1, <2>2
<1>4. CASE AskNumber(r)
  <2>1. PICK n \in Heads : Proceed(r, n) /\ lastQueriedBlock' = lastQueriedBlock
    BY <1>4 DEF AskNumber
  <2>2. n \in 0 .. Len(chain)
    BY <1>1 DEF Heads
  <2> QED
    BY <2>1, <2>2, ProceedAnswers
<1>5. CASE SetIndexed(r)
  BY <1>2, <1>5, FetchAnswers DEF SetIndexed
<1>6. CASE Resume(r)
  <2> DEFINE k == <<reader[r].from, reader[r].to>>
  <2>1. k \in DOMAIN promises /\ promises[k].state = "done" /\ k[2] = reader[r].to
    BY <1>6 DEF Resume, CallsTyped
  <2>2. Has(k[2] - MaxLag)
    BY <2>1 DEF Answers
  <2>3. /\ reader'[r].to = reader[r].to /\ UNCHANGED marks
        /\ \A s \in Readers \ {r} : reader'[s] = reader[s]
    BY <1>6 DEF Resume, CallsTyped, Calls
  <2> QED
    BY <2>1, <2>2, <2>3 DEF CallAnswers, marks
<1>7. CASE UpdateIndexed(r)
  <2>1. Has(reader[r].to - MaxLag)
    BY <1>7 DEF UpdateIndexed, Answers
  <2> QED
    BY <1>7, <2>1, AnswerAnswers DEF UpdateIndexed
<1>8. CASE Reject(r) \/ ReadStored(r)
  BY <1>8 DEF Reject, ReadStored, CallAnswers, CallsTyped, Idle, marks
<1> QED
  BY <1>3, <1>4, <1>5, <1>6, <1>7, <1>8 DEF CallStep

\* A node answers with all it knows, and it knows all but the last blocks of the chain.
LEMMA NodeKnows ==
    ASSUME Typed, Data, NEW k \in DOMAIN promises, NodeAnswers(k)
    PROVE  Has(k[2] - MaxLag)'
<1>1. PICK n \in Heads : Promise(k, "adding", Emitted(k[1], k[2]) \cap Emitted(1, n))
  BY DEF NodeAnswers
<1> DEFINE rest == Emitted(k[1], k[2]) \cap Emitted(1, n)
<1>2. /\ k[1] \in Nat \ {0} /\ k[2] \in Nat /\ k[2] <= Len(chain) /\ k[1] - 1 \in Marks
      /\ Len(chain) \in Nat /\ MaxLag \in Nat
  BY LenProperties, Constants DEF Typed, MarksTyped, CallsTyped, Blocks
<1>3. n \in Int /\ k[2] - MaxLag <= n
  BY <1>2 DEF Heads
<1>4. rest = {e \in AllEvents : k[1] <= e[1] /\ e[1] <= k[2] /\ 1 <= e[1] /\ e[1] <= n}
  BY <1>2, <1>3, EmittedIs DEF Typed
<1> HIDE DEF rest
<1>5. promises[k].rest = {} /\ UNCHANGED <<chain, stored>> /\ Moved(k, "adding", rest)
  <2>1. promises[k].rest = {} /\ UNCHANGED <<chain, stored>>
    BY DEF Data, Ordered, NodeAnswers
  <2>2. Promise(k, "adding", rest)
    BY <1>1 DEF rest
  <2> QED
    BY <2>1, <2>2, PromiseMoves
<1>6. \A e \in stored \cup Pending : e \in stored' \cup Pending'
  BY <1>5, OthersKept
<1>7. \A e \in rest : e \in Pending'
  BY <1>5, NextPendingIs DEF Moved
<1>8. ASSUME NEW e \in AllEvents, e[1] <= k[2] - MaxLag
      PROVE  e \in stored' \cup Pending'
  <2>1. e[1] \in Nat /\ 1 <= e[1]
    BY EventIs DEF Typed
  <2>2. CASE k[1] <= e[1]
    BY <1>2, <1>3, <1>4, <1>7, <1>8, <2>1, <2>2
  <2>3. CASE ~(k[1] <= e[1])
    <3>1. e[1] <= k[1] - 1 /\ Has(k[1] - 1)
      BY <1>2, <2>1, <2>3, MarkHas DEF Typed, Data
    <3> QED
      BY <1>6, <3>1 DEF Has
  <2> QED
    BY <2>2, <2>3
<1> QED
  BY <1>5, <1>8, SameEvents DEF Has

LEMMA AnswersKept ==
    ASSUME Typed, Data, Answers, ~Persistent, Keeping
    PROVE  Answers'
<1> USE DEF Typed
<1>1. /\ MaxLag \in Nat /\ Len(chain) \in Nat /\ lastQueriedBlock \in 0 .. Len(chain)
      /\ \A k \in DOMAIN promises : k[2] \in Nat /\ k[2] <= Len(chain)
  BY LenProperties, Constants DEF MarksTyped, CallsTyped, Blocks
<1>2. \A r \in Readers : reader[r].to \in Nat /\ reader[r].to <= Len(chain)
  BY DEF CallsTyped, Calls
<1>3. \A n \in Nat : n <= Len(chain) => (Has(n - MaxLag) => Has(n - MaxLag)')
  <2>1. \A n \in Nat : n <= Len(chain) => n - MaxLag \in Int /\ n - MaxLag <= Len(chain)
    BY <1>1
  <2> QED
    BY <2>1, HasStays
<1>4. Has(lastQueriedBlock - MaxLag)' \/ lastQueriedBlock' # lastQueriedBlock
  <2>1. PICK n \in Nat : n = lastQueriedBlock /\ n <= Len(chain)
    BY <1>1
  <2>2. Has(n - MaxLag)
    BY <2>1 DEF Answers
  <2>3. Has(n - MaxLag)'
    BY <1>3, <2>1, <2>2
  <2>4. ASSUME lastQueriedBlock' = n
        PROVE  Has(lastQueriedBlock - MaxLag)'
    BY <2>3, <2>4 DEF Has
  <2> QED
    BY <2>1, <2>4
<1>5. ASSUME NEW k \in DOMAIN promises, promises[k].state \in {"adding", "done"}
      PROVE  Has(k[2] - MaxLag)'
  BY <1>1, <1>3, <1>5 DEF Answers
<1>6. ASSUME NEW r \in Readers, reader[r].pc \in {"update", "read"}, reader'[r] = reader[r]
      PROVE  Has(reader[r].to - MaxLag)'
  <2>1. PICK n \in Nat : n = reader[r].to /\ n <= Len(chain)
    BY <1>2
  <2>2. Has(n - MaxLag)'
    BY <1>3, <1>6, <2>1 DEF Answers
  <2>3. reader'[r].to = n
    BY <1>6, <2>1
  <2> QED
    BY <2>2, <2>3 DEF Has
<1>7. ASSUME UNCHANGED <<reader, lastQueriedBlock>>,
             \A k \in DOMAIN promises' :
                 promises'[k].state \in {"adding", "done"} => Has(k[2] - MaxLag)'
      PROVE  Answers'
  BY <1>4, <1>6, <1>7 DEF Answers
<1>8. ASSUME Grown
      PROVE  \A k \in DOMAIN promises' :
                 promises'[k].state \in {"adding", "done"} => Has(k[2] - MaxLag)'
  BY <1>5, <1>8 DEF Grown
<1>9. CASE Mine \/ Poll \/ LoadLatestBlock
  <2>1. UNCHANGED <<reader, lastQueriedBlock, promises>>
    BY <1>9 DEF Mine, Poll, FirstBlock, FirstFails, NewBlock, BlockIs, LoadLatestBlock, marks
  <2> QED
    BY <1>7, <1>8, <2>1, NothingGrown
<1>10. ASSUME NEW k \in DOMAIN promises, PromiseStep(k)
       PROVE  Answers'
  <2>1. ASSUME NEW state, NEW rest, Moved(k, state, rest),
               state \in {"adding", "done"} => Has(k[2] - MaxLag)'
        PROVE  \A m \in DOMAIN promises' :
                 promises'[m].state \in {"adding", "done"} => Has(m[2] - MaxLag)'
    BY <1>5, <2>1 DEF Moved
  <2>2. CASE NodeAnswers(k)
    <3>1. PICK rest : Promise(k, "adding", rest)
      BY <2>2 DEF NodeAnswers
    <3>2. UNCHANGED <<reader, lastQueriedBlock>>
      BY <2>2 DEF NodeAnswers, marks
    <3> QED
      BY <1>7, <2>1, <2>2, <3>1, <3>2, PromiseMoves, NodeKnows
  <2>3. CASE NodeFails(k)
    <3>1. Promise(k, "failed", {}) /\ UNCHANGED <<reader, lastQueriedBlock>>
      BY <2>3 DEF NodeFails, marks
    <3> QED
      BY <1>7, <2>1, <3>1, PromiseMoves
  <2>4. CASE AddEvent(k)
    <3>1. PICK rest : Promise(k, "adding", rest)
      BY <2>4 DEF AddEvent
    <3>2. UNCHANGED <<reader, lastQueriedBlock>> /\ promises[k].state = "adding"
      BY <2>4 DEF AddEvent, marks
    <3> QED
      BY <1>5, <1>7, <2>1, <3>1, <3>2, PromiseMoves
  <2>5. CASE FinishAdding(k)
    <3>1. /\ Promise(k, "done", {}) /\ UNCHANGED reader /\ lastQueriedBlock' = k[2]
          /\ promises[k].state = "adding"
      BY <2>5 DEF FinishAdding
    <3>2. Has(k[2] - MaxLag)'
      BY <1>5, <3>1
    <3>3. Has(lastQueriedBlock - MaxLag)'
      BY <3>1, <3>2 DEF Has
    <3>4. \A m \in DOMAIN promises' :
                 promises'[m].state \in {"adding", "done"} => Has(m[2] - MaxLag)'
      BY <2>1, <3>1, <3>2, PromiseMoves
    <3> QED
      BY <1>6, <3>1, <3>3, <3>4 DEF Answers
  <2> QED
    BY <1>10, <2>2, <2>3, <2>4, <2>5 DEF PromiseStep, AddFails
<1>11. ASSUME NEW r \in Readers, BeginRead(r) \/ CallStep(r) \/ Reject(r) \/ ReadStored(r)
       PROVE  Answers'
  <2>1. CallAnswers(r) /\ lastQueriedBlock' = lastQueriedBlock
    BY <1>11, StepAnswers
  <2>2. Grown /\ CallsTyped' /\ UNCHANGED <<chain, stored>>
    BY <1>11, CallTyped
  <2>3. Pending' = Pending
    BY <2>2, KeptData
  <2>4. reader'[r].pc \in {"update", "read"} => Has(reader[r].to - MaxLag)'
    BY <2>1, <2>2, <2>3, SameEvents DEF CallAnswers, Has
  <2>5. \A s \in Readers : reader'[s].pc \in {"update", "read"} => Has(reader[s].to - MaxLag)'
    BY <1>6, <2>1, <2>4 DEF CallAnswers
  <2> QED
    BY <1>4, <1>8, <2>1, <2>2, <2>5 DEF Answers
<1> QED
  BY <1>9, <1>10, <1>11 DEF Keeping, Background

LEMMA AnswersStart == ASSUME MarksTyped, DOMAIN promises = {}, lastQueriedBlock = 0,
                             \A r \in Readers : reader[r] = Idle
                      PROVE  Answers
<1>1. Has(lastQueriedBlock - MaxLag)
  BY EventIs, Constants DEF Has
<1> QED
  BY <1>1, IdleIsCall DEF Answers

LEMMA CacheAnswers ==
    ASSUME CacheInv, ~Persistent, Answers, CacheNext \/ Exits \/ UNCHANGED cacheVars
    PROVE  Answers'
<1>1. Typed /\ Data /\ WholeBlocks /\ Typed'
  BY CacheStepTyped DEF CacheInv, WholeBlocks
<1>2. CASE Keeping
  BY <1>1, <1>2, AnswersKept
<1>3. CASE Wipe
  <2>1. DOMAIN promises' = {} /\ lastQueriedBlock' = 0 /\ \A r \in Readers : reader'[r] = Idle
    BY <1>3, EmptySeq DEF Wipe
  <2>2. Has(lastQueriedBlock - MaxLag)'
    <3>1. \A e \in AllEvents' : e[1] \in Nat /\ 1 <= e[1]
      BY <1>3, <1>1, EventIs, SameEvents DEF Typed, Wipe
    <3> QED
      BY <2>1, <3>1, Constants DEF Has
  <2> QED
    BY <2>1, <2>2, IdleIsCall DEF Answers
<1>4. CASE UNCHANGED cacheVars
  BY <1>4 DEF cacheVars, marks, Answers, Has, Pending, AllEvents, Emitted
<1> QED
  BY <1>2, <1>3, <1>4 DEF CacheNext, Keeping, Exits, Reset

LEMMA AnswersShow == MarksTyped /\ CallsTyped /\ (~Persistent => Answers) => Fresh
<1> SUFFICES ASSUME MarksTyped, CallsTyped, Answers, NEW r \in Readers, reader[r].pc = "read"
             PROVE  Emitted(1, reader[r].to - MaxLag) \subseteq stored \cup Pending
  BY DEF Fresh
<1>1. PICK n \in Int : n = reader[r].to - MaxLag
  BY Constants DEF CallsTyped, Calls
<1>2. Has(n)
  BY <1>1 DEF Answers
<1> QED
  BY <1>1, <1>2, HasIs

(* In memory, a call answers with every event up to the block it set out for, but for
   the blocks that a node was behind and for what another call is storing. *)
THEOREM AnswersAreFresh == CacheSpec => []Fresh
<1> DEFINE Inv == Typed /\ (~Persistent => CacheInv /\ Answers)
<1>1. CacheInit => Inv
  BY CacheStarts, AnswersStart, EmptySeq DEF CacheInit, CacheInv, Typed
<1>2. Inv /\ [CacheNext]_cacheVars => Inv'
  BY CacheStepTyped, CacheStepKeeps, CacheAnswers DEF WholeBlocks
<1>3. Inv => Fresh
  BY AnswersShow DEF Typed
<1> QED
  BY <1>1, <1>2, <1>3, PTL DEF CacheSpec

-----------------------------------------------------------------------------
(* The listener *)

\* A step of the listener is one of the cache, or the exit of the process.
LEMMA ListenerStep ==
    ASSUME [Next]_vars
    PROVE  CacheNext \/ Exits \/ UNCHANGED cacheVars
BY DEF Next, vars, CacheNext, Query, Retry, Exit, Answered, Handle, Checkpoint, Start, Restart,
       CacheStep, Exits

Position == [pc : {"start", "query", "fetch", "handle"}, toBlock : Nat,
             newEvents : SUBSET Events, tryCount : 0 .. MAX_RETRYS]

LoopTyped ==
    /\ processed \in Nat /\ processed <= Len(chain)
    /\ loop \in Position /\ loop.toBlock <= Len(chain) /\ loop.newEvents \subseteq stored
    /\ handled \subseteq AllEvents

LEMMA RoundTyped ==
    /\ Round \in Position /\ Round.pc = "start" /\ Round.toBlock = 0 /\ Round.newEvents = {}
BY ListenerAssumption DEF Round, Position

LEMMA NothingForgotten ==
    ASSUME Typed, CacheNext \/ Exits \/ UNCHANGED cacheVars
    PROVE  /\ AllEvents \subseteq AllEvents'
           /\ Len(chain) \in Nat /\ Len(chain') \in Nat /\ Len(chain) <= Len(chain')
           /\ stored \subseteq stored' \/ Wipe
<1>1. Len(chain) \in Nat
  BY LenProperties DEF Typed, MarksTyped
<1>2. CASE Mine
  BY <1>1, <1>2, MineEvents DEF Mine, Typed
<1>3. CASE ~Mine
  <2>1. chain' = chain
    BY <1>3 DEF CacheNext, Background, Exits, Reset, Wipe, cacheVars, LoadLatestBlock,
                Poll, FirstBlock, FirstFails, NewBlock, BlockIs,
                PromiseStep, NodeAnswers, NodeFails, AddEvent, AddFails, FinishAdding,
                BeginRead, CallStep, AskNumber, SetIndexed, Resume, UpdateIndexed, Reject, ReadStored
  <2>2. stored \subseteq stored' \/ Wipe
    BY <1>3 DEF CacheNext, Background, Exits, Reset, cacheVars, LoadLatestBlock,
                Poll, FirstBlock, FirstFails, NewBlock, BlockIs,
                PromiseStep, NodeAnswers, NodeFails, AddEvent, AddFails, FinishAdding,
                BeginRead, CallStep, AskNumber, SetIndexed, Resume, UpdateIndexed, Reject, ReadStored
  <2> QED
    BY <1>1, <2>1, <2>2, SameEvents
<1> QED
  BY <1>2, <1>3

LEMMA LoopStepTyped ==
    ASSUME Typed, LoopTyped, [Next]_vars
    PROVE  LoopTyped'
<1>1. CacheNext \/ Exits \/ UNCHANGED cacheVars
  BY ListenerStep
<1>2. /\ AllEvents \subseteq AllEvents'
      /\ Len(chain) \in Nat /\ Len(chain') \in Nat /\ Len(chain) <= Len(chain')
      /\ stored \subseteq stored' \/ Wipe
  BY <1>1, NothingForgotten
<1>3. stored \subseteq AllEvents /\ stored \subseteq Events
  BY DEF Typed, MarksTyped, AllEvents, Emitted
<1>4. /\ loop.pc \in {"start", "query", "fetch", "handle"} /\ loop.toBlock \in Nat
      /\ loop.newEvents \subseteq Events /\ loop.tryCount \in 0 .. MAX_RETRYS
  BY DEF LoopTyped, Position
<1>5. ASSUME UNCHANGED processed, UNCHANGED handled,
             loop' = Round \/ (/\ loop' \in Position /\ loop'.toBlock <= Len(chain)
                               /\ loop'.newEvents \subseteq stored /\ stored \subseteq stored')
      PROVE  LoopTyped'
  BY <1>2, <1>5, RoundTyped DEF LoopTyped, Position
<1>6. CASE Start
  <2>1. PICK n \in Heads : loop' = [loop EXCEPT !.pc = "query", !.toBlock = n]
    BY <1>6 DEF Start
  <2>2. n \in Nat /\ n <= Len(chain)
    BY <1>2 DEF Heads
  <2>3. /\ loop' \in Position /\ loop'.toBlock <= Len(chain) /\ loop'.newEvents = loop.newEvents
    BY <1>4, <2>1, <2>2 DEF LoopTyped, Position
  <2> QED
    BY <1>5, <1>6, <2>3 DEF Start, LoopTyped, cacheVars
<1>7. ASSUME NEW r \in Readers, Query(r)
      PROVE  LoopTyped'
  <2>1. /\ loop' \in Position /\ loop'.toBlock = loop.toBlock /\ loop'.newEvents = loop.newEvents
    BY <1>4, <1>7 DEF Query, LoopTyped, Position
  <2>2. UNCHANGED <<processed, handled, stored>>
    BY <1>7 DEF Query, BeginRead
  <2> QED
    BY <1>5, <2>1, <2>2 DEF LoopTyped
<1>8. ASSUME NEW r \in Readers, Retry(r)
      PROVE  LoopTyped'
  <2>1. UNCHANGED <<processed, handled, stored>>
    BY <1>8 DEF Retry, Reject
  <2>2. CASE r = Main
    <3>1. PICK n : /\ loop' = [loop EXCEPT !.pc = "query", !.tryCount = n]
                   /\ n = IF loop.tryCount < MAX_RETRYS THEN loop.tryCount + 1 ELSE loop.tryCount
      BY <1>8, <2>2 DEF Retry
    <3>2. n \in 0 .. MAX_RETRYS
      BY <1>4, <3>1, ListenerAssumption
    <3>3. /\ loop' \in Position /\ loop'.toBlock = loop.toBlock /\ loop'.newEvents = loop.newEvents
      BY <1>4, <3>1, <3>2 DEF LoopTyped, Position
    <3> QED
      BY <1>5, <2>1, <3>3 DEF LoopTyped
  <2>3. CASE r # Main
    BY <1>5, <1>8, <2>1, <2>3 DEF Retry, LoopTyped
  <2> QED
    BY <2>2, <2>3
<1>9. CASE Exit \/ Restart
  BY <1>5, <1>9 DEF Exit, Restart
<1>10. ASSUME NEW r \in Readers, Answered(r)
       PROVE  LoopTyped'
  <2>1. UNCHANGED <<processed, handled, stored>>
    BY <1>10 DEF Answered, ReadStored
  <2>2. CASE r = Main
    <3>1. loop' = [loop EXCEPT !.pc = "handle", !.newEvents = {e \in stored : e[1] > processed}]
      BY <1>10, <2>2 DEF Answered
    <3>2. PICK E : E = {e \in stored : e[1] > processed}
      OBVIOUS
    <3>3. E \subseteq stored /\ E \in SUBSET Events
      BY <1>3, <3>2
    <3>4. loop' \in Position /\ loop'.toBlock = loop.toBlock /\ loop'.newEvents = E
      BY <1>4, <3>1, <3>2, <3>3 DEF LoopTyped, Position
    <3> QED
      BY <1>5, <2>1, <3>3, <3>4 DEF LoopTyped
  <2>3. CASE r # Main
    BY <1>5, <1>10, <2>1, <2>3 DEF Answered, LoopTyped
  <2> QED
    BY <2>2, <2>3
<1>11. CASE Handle
  <2>1. PICK e \in loop.newEvents :
            /\ handled' = handled \cup {e} /\ loop' = [loop EXCEPT !.newEvents = loop.newEvents \ {e}]
    <3>1. loop.newEvents # {} /\ loop.newEvents \subseteq AllEvents
      BY <1>3, <1>11 DEF Handle, LoopTyped
    <3>2. NextEvent(loop.newEvents) \in loop.newEvents
      BY <3>1, LeastIs DEF NextEvent, Typed
    <3> QED
      BY <1>11, <3>2 DEF Handle
  <2>2. loop' \in Position /\ loop'.toBlock = loop.toBlock /\ loop'.newEvents \subseteq loop.newEvents
    BY <1>4, <2>1 DEF LoopTyped, Position
  <2>3. UNCHANGED <<processed, stored, chain>>
    BY <1>11 DEF Handle, cacheVars
  <2>4. handled' \subseteq AllEvents
    BY <1>3, <2>1 DEF LoopTyped
  <2> QED
    BY <1>2, <2>2, <2>3, <2>4 DEF LoopTyped
<1>12. CASE Checkpoint
  <2>1. /\ processed' = Larger(processed, latestIndexedBlock) /\ loop' = Round
        /\ UNCHANGED <<handled, stored, chain>>
    BY <1>12 DEF Checkpoint, Reached, cacheVars
  <2>2. latestIndexedBlock \in Nat /\ latestIndexedBlock <= Len(chain)
    BY MarkIs DEF Typed, MarksTyped
  <2>3. processed' \in Nat /\ processed' <= Len(chain)
    BY <2>1, <2>2 DEF Larger, LoopTyped
  <2> QED
    BY <1>2, <2>1, <2>3, RoundTyped DEF LoopTyped
<1>13. ASSUME UNCHANGED listenerVars, stored \subseteq stored'
       PROVE  LoopTyped'
  BY <1>5, <1>13 DEF listenerVars, LoopTyped
<1>14. CASE CacheStep(Background \/ \E r \in Readers : CallStep(r))
  <2>1. stored \subseteq stored'
    BY <1>14 DEF CacheStep, Background, LoadLatestBlock, Mine,
                Poll, FirstBlock, FirstFails, NewBlock, BlockIs,
                PromiseStep, NodeAnswers, NodeFails, AddEvent, AddFails, FinishAdding,
                CallStep, AskNumber, SetIndexed, Resume, UpdateIndexed
  <2> QED
    BY <1>13, <1>14, <2>1 DEF CacheStep
<1>15. CASE UNCHANGED vars
  BY <1>13, <1>15 DEF vars, cacheVars
<1> QED
  BY <1>6, <1>7, <1>8, <1>9, <1>10, <1>11, <1>12, <1>14, <1>15 DEF Next

LEMMA LoopStarts == Init => Typed /\ LoopTyped
<1> SUFFICES ASSUME Init
             PROVE  Typed /\ LoopTyped
  OBVIOUS
<1>1. Typed
  BY CacheStarts DEF Init, CacheInv
<1>2. Len(chain) = 0
  BY EmptySeq DEF Init, CacheInit
<1> QED
  BY <1>1, <1>2, RoundTyped DEF Init, LoopTyped

LEMMA LoopShows == Typed /\ LoopTyped => TypeOK
BY TypedShows DEF TypeOK, LoopTyped, Position, Typed, MarksTyped

(* With any number of readers next to its loop, the listener works on events of the
   cache and never records a block that the chain does not have. *)
THEOREM TypeCorrect == Spec => []TypeOK
<1>1. Typed /\ LoopTyped /\ [Next]_vars => Typed' /\ LoopTyped'
  BY LoopStepTyped, ListenerStep, CacheStepTyped
<1> QED
  BY <1>1, LoopStarts, LoopShows, PTL DEF Spec

-----------------------------------------------------------------------------
(* The loop alone on the cache *)

Alone == Readers = {Main}

\* Nothing is asked or stored but what the loop waits for.
Quiet ==
    /\ loop.pc # "fetch" => reader[Main].pc = "idle"
    /\ \A k \in DOMAIN promises :
        promises[k].state \in {"asked", "adding"}
            => reader[Main].pc = "waiting" /\ k = <<reader[Main].from, reader[Main].to>>

\* While events are handled, those in hand are all that were not.
InHand ==
    loop.pc = "handle" => \A e \in stored : e[1] > processed => e \in handled \cup loop.newEvents

\* Every event up to the recorded block was handled.
Recorded == \A e \in AllEvents : e[1] <= processed => e \in handled

Follows == Quiet /\ InHand /\ Recorded /\ InOrder

LEMMA QuietCall ==
    ASSUME Typed, Alone, Quiet, BeginRead(Main) \/ CallStep(Main)
    PROVE  \A k \in DOMAIN promises' :
             promises'[k].state \in {"asked", "adding"}
                => reader'[Main].pc = "waiting" /\ k = <<reader'[Main].from, reader'[Main].to>>
<1> DEFINE Goal == \A k \in DOMAIN promises' :
             promises'[k].state \in {"asked", "adding"}
                => reader'[Main].pc = "waiting" /\ k = <<reader'[Main].from, reader'[Main].to>>
<1>0. Main \in Readers /\ reader \in [Readers -> Calls]
  BY ListenerAssumption DEF Typed, CallsTyped
<1>1. \A k \in DOMAIN promises : promises[k].state \notin {"asked", "adding"}
  <2>1. ASSUME NEW k \in DOMAIN promises, promises[k].state \in {"asked", "adding"}
        PROVE  FALSE
    <3>1. reader[Main].pc = "waiting" /\ k = <<reader[Main].from, reader[Main].to>>
      BY <2>1 DEF Quiet
    <3> QED
      BY <2>1, <3>1 DEF BeginRead, CallStep, AskNumber, SetIndexed, Resume, UpdateIndexed
  <2> QED
    BY <2>1
<1>2. ASSUME UNCHANGED promises
      PROVE  Goal
  BY <1>1, <1>2
<1>3. ASSUME NEW to, NEW indexed, Fetch(Main, to, indexed)
      PROVE  Goal
  <2> DEFINE k == <<FromBlock(indexed), to>>
  <2>1. CASE UNCHANGED promises
    BY <1>2, <2>1
  <2>2. CASE ~UNCHANGED promises
    <3>1. /\ reader'[Main].pc = "waiting" /\ reader'[Main].from = FromBlock(indexed)
          /\ reader'[Main].to = to
      BY <1>0, <1>3, <2>2 DEF Fetch
    <3>2. /\ DOMAIN promises' = DOMAIN promises \cup {k}
          /\ \A m \in DOMAIN promises : m # k => promises'[m] = promises[m]
      BY <1>3, <2>2 DEF Fetch
    <3> QED
      BY <1>1, <3>1, <3>2
  <2> QED
    BY <2>1, <2>2
<1>4. ASSUME NEW to, Proceed(Main, to)
      PROVE  Goal
  BY <1>2, <1>3, <1>4 DEF Proceed
<1> HIDE DEF Goal
<1>5. Goal
  BY <1>2, <1>3, <1>4 DEF BeginRead, CallStep, AskNumber, SetIndexed, Resume, UpdateIndexed
<1> QED
  BY <1>5 DEF Goal

LEMMA QuietRequest ==
    ASSUME Typed, Alone, Quiet, NEW k \in DOMAIN promises, PromiseStep(k)
    PROVE  Quiet' \/ loop' # loop
<1>1. PICK state, rest : Promise(k, state, rest)
  BY DEF PromiseStep, NodeAnswers, NodeFails, AddEvent, AddFails, FinishAdding
<1>2. Moved(k, state, rest)
  BY <1>1, PromiseMoves
<1>3. UNCHANGED reader /\ promises[k].state \in {"asked", "adding"}
  BY DEF PromiseStep, NodeAnswers, NodeFails, AddEvent, AddFails, FinishAdding
<1> QED
  BY <1>2, <1>3 DEF Quiet, Moved

\* While the loop has no call under way the cache rests.
LEMMA Resting ==
    ASSUME Typed, Data, Quiet, reader[Main].pc # "waiting"
    PROVE  Pending = {} /\ \A k \in DOMAIN promises : ~PromiseStep(k)
<1>1. \A k \in DOMAIN promises : promises[k].state \notin {"asked", "adding"}
  BY DEF Quiet
<1>2. \A k \in DOMAIN promises : promises[k].rest = {}
  BY <1>1 DEF Data, Ordered
<1> QED
  BY <1>1, <1>2, PendingIs DEF PromiseStep, NodeAnswers, NodeFails, AddEvent, AddFails, FinishAdding

LEMMA QuietStep ==
    ASSUME Typed, Alone, Quiet, LoopTyped, [Next]_vars
    PROVE  Quiet'
<1>0. Main \in Readers /\ reader \in [Readers -> Calls] /\ \A r \in Readers : r = Main
  BY ListenerAssumption DEF Typed, CallsTyped, Alone
<1>00. loop.pc \in {"start", "query", "fetch", "handle"} /\ loop \in Position
  BY DEF LoopTyped, Position
<1>1. ASSUME UNCHANGED <<promises, reader>>, loop.pc # "fetch" \/ UNCHANGED loop
      PROVE  Quiet'
  BY <1>1 DEF Quiet
<1>2. CASE Start \/ Handle \/ Checkpoint \/ UNCHANGED vars
  BY <1>1, <1>2 DEF Start, Handle, Checkpoint, vars, listenerVars, cacheVars
<1>3. ASSUME NEW r \in Readers, Query(r)
      PROVE  Quiet'
  <2>1. BeginRead(Main) /\ loop'.pc = "fetch"
    BY <1>0, <1>00, <1>3 DEF Query, Position
  <2> QED
    BY <2>1, QuietCall DEF Quiet
<1>4. ASSUME NEW r \in Readers, Retry(r)
      PROVE  Quiet'
  <2>1. Reject(Main)
    BY <1>0, <1>4 DEF Retry
  <2>2. \A k \in DOMAIN promises : promises[k].state \notin {"asked", "adding"}
    BY <2>1 DEF Quiet, Reject, Refused
  <2>3. reader'[Main].pc = "idle" /\ promises' = promises
    BY <1>0, <2>1 DEF Reject, Idle
  <2> QED
    BY <2>2, <2>3 DEF Quiet
<1>5. ASSUME Wipe
      PROVE  Quiet'
  <2>1. DOMAIN promises' = {} /\ reader'[Main].pc = "idle"
    BY <1>0, <1>5, EmptySeq DEF Wipe, Idle
  <2> QED
    BY <2>1 DEF Quiet
<1>6. ASSUME NEW r \in Readers, Answered(r)
      PROVE  Quiet'
  <2>1. ReadStored(Main)
    BY <1>0, <1>6 DEF Answered
  <2>2. \A k \in DOMAIN promises : promises[k].state \notin {"asked", "adding"}
    BY <2>1 DEF Quiet, ReadStored
  <2>3. reader'[Main].pc = "idle" /\ promises' = promises
    BY <1>0, <2>1 DEF ReadStored, Idle
  <2> QED
    BY <2>2, <2>3 DEF Quiet
<1>7. CASE CacheStep(\E r \in Readers : CallStep(r))
  <2>1. CallStep(Main) /\ loop' = loop
    BY <1>0, <1>7 DEF CacheStep, listenerVars
  <2>2. loop.pc = "fetch"
    BY <2>1 DEF Quiet, CallStep, AskNumber, SetIndexed, Resume, UpdateIndexed
  <2> QED
    BY <2>1, <2>2, QuietCall DEF Quiet
<1>8. CASE CacheStep(Background)
  <2>1. loop' = loop
    BY <1>8 DEF CacheStep, listenerVars
  <2>2. ASSUME NEW k \in DOMAIN promises, PromiseStep(k)
        PROVE  Quiet'
    BY <2>1, <2>2, QuietRequest
  <2>3. CASE Mine \/ Poll \/ LoadLatestBlock
    BY <1>1, <2>1, <2>3 DEF Mine, Poll, FirstBlock, FirstFails, NewBlock, BlockIs, LoadLatestBlock
  <2> QED
    BY <1>8, <2>2, <2>3 DEF CacheStep, Background
<1> QED
  BY <1>2, <1>3, <1>4, <1>5, <1>6, <1>7, <1>8 DEF Next, Exit, Restart, Reset, CacheStep

\* A step that handles and records nothing.
LEMMA FollowsKept ==
    ASSUME Typed, Follows, Quiet', LoopTyped,
           UNCHANGED <<processed, handled>>,
           Mine \/ AllEvents' = AllEvents,
           loop'.pc = "handle" => UNCHANGED <<loop, stored>>
    PROVE  Follows'
<1>1. \A e \in AllEvents' : \A n \in Nat :
        n <= Len(chain) /\ e[1] <= n => e \in AllEvents
  <2>1. CASE Mine
    <3>1. Len(chain) \in Nat /\ \A e \in AllEvents' : e[1] \in Nat /\ (e[1] <= Len(chain) => e \in AllEvents)
      BY <2>1, MineEvents, LenProperties DEF Typed, MarksTyped
    <3> QED
      BY <3>1
  <2> QED
    BY <2>1
<1>2. Recorded'
  BY <1>1 DEF Follows, Recorded, LoopTyped
<1>3. InOrder'
  <2>1. ASSUME NEW e \in handled, NEW f \in AllEvents', Before(f, e)
        PROVE  f \in handled
    <3>1. e \in AllEvents /\ e[1] \in Nat /\ e[1] <= Len(chain)
      BY EventIs DEF Typed, LoopTyped
    <3>2. f[1] <= e[1]
      <4>1. f[1] \in Nat
        BY MineEvents, EventIs DEF Typed
      <4> QED
        BY <2>1, <3>1, <4>1 DEF Before
    <3>3. f \in AllEvents
      BY <1>1, <3>1, <3>2
    <3> QED
      BY <2>1, <3>3 DEF Follows, InOrder
  <2>2. handled' = handled
    OBVIOUS
  <2> QED
    BY <2>1, <2>2 DEF InOrder, Before
<1>4. InHand'
  BY DEF Follows, InHand
<1> QED
  BY <1>2, <1>3, <1>4 DEF Follows

LEMMA HandleFollows ==
    ASSUME Typed, Data, Follows, Quiet', LoopTyped, Handle
    PROVE  Follows'
<1>1. loop.newEvents # {} /\ loop.newEvents \subseteq AllEvents /\ loop.newEvents \subseteq stored
  BY DEF Handle, LoopTyped, Typed, MarksTyped
<1>2. PICK e \in loop.newEvents :
        /\ handled' = handled \cup {e} /\ loop' = [loop EXCEPT !.newEvents = loop.newEvents \ {e}]
        /\ \A f \in loop.newEvents : ~Before(f, e)
  BY <1>1, LeastIs DEF Handle, NextEvent, Typed
<1>3. /\ UNCHANGED <<processed, stored, chain>> /\ loop.pc = "handle"
      /\ AllEvents' = AllEvents
  BY SameEvents DEF Handle, cacheVars
<1>4. /\ loop'.pc = "handle" /\ loop'.newEvents = loop.newEvents \ {e}
  BY <1>2, <1>3 DEF LoopTyped, Position
<1>5. Recorded' /\ InHand'
  BY <1>2, <1>3, <1>4 DEF Follows, Recorded, InHand
<1>6. Pending = {}
  BY <1>3, Resting DEF Follows, Quiet
<1>7. ASSUME NEW f \in AllEvents, Before(f, e)
      PROVE  f \in handled
  <2>1. /\ e[1] \in Nat /\ f[1] \in Nat /\ f[1] <= e[1] /\ processed \in Nat
    BY <1>1, <1>7, EventIs DEF Before, Typed, LoopTyped
  <2>2. CASE f[1] <= processed
    BY <2>2 DEF Follows, Recorded
  <2>3. CASE ~(f[1] <= processed)
    <3>1. f \in stored
      BY <1>1, <1>6, <2>1 DEF Data, Complete, Has
    <3>2. f \in handled \cup loop.newEvents
      BY <1>3, <2>1, <2>3, <3>1 DEF Follows, InHand
    <3> QED
      BY <1>2, <1>7, <3>2
  <2> QED
    BY <2>2, <2>3
<1>8. InOrder'
  BY <1>2, <1>3, <1>7 DEF Follows, InOrder, Before
<1> QED
  BY <1>5, <1>8 DEF Follows

LEMMA CheckpointFollows ==
    ASSUME Typed, Data, Follows, Quiet', LoopTyped, Checkpoint
    PROVE  Follows'
<1>1. /\ processed' = Larger(processed, latestIndexedBlock) /\ loop' = Round
      /\ UNCHANGED <<handled, stored, chain>> /\ AllEvents' = AllEvents
      /\ loop.pc = "handle" /\ loop.newEvents = {}
  BY SameEvents DEF Checkpoint, Reached, cacheVars
<1>2. Pending = {} /\ Has(latestIndexedBlock) /\ latestIndexedBlock \in Nat /\ processed \in Nat
  BY <1>1, Resting, MarkHas, MarkIs DEF Follows, Quiet, Data, Typed, MarksTyped, LoopTyped
<1>3. ASSUME NEW e \in AllEvents, e[1] <= processed'
      PROVE  e \in handled
  <2>1. e[1] \in Nat
    BY EventIs DEF Typed
  <2>2. CASE e[1] <= processed
    BY <2>2 DEF Follows, Recorded
  <2>3. CASE ~(e[1] <= processed)
    <3>1. e[1] <= latestIndexedBlock
      BY <1>1, <1>2, <1>3, <2>1, <2>3 DEF Larger
    <3>2. e \in stored
      BY <1>2, <3>1 DEF Has
    <3> QED
      BY <1>1, <1>2, <2>1, <2>3, <3>2 DEF Follows, InHand
  <2> QED
    BY <2>2, <2>3
<1>4. Recorded'
  BY <1>1, <1>3 DEF Recorded
<1>5. InOrder' /\ InHand'
  BY <1>1, RoundTyped DEF Follows, InOrder, InHand, Before
<1> QED
  BY <1>4, <1>5 DEF Follows

LEMMA FollowsStep ==
    ASSUME Typed, Data, Alone, Follows, LoopTyped, [Next]_vars
    PROVE  Follows'
<1>1. Quiet'
  BY QuietStep DEF Follows
<1>2. CASE Handle
  BY <1>1, <1>2, HandleFollows
<1>3. CASE Checkpoint
  BY <1>1, <1>3, CheckpointFollows
<1>4. ASSUME NEW r \in Readers, Answered(r)
      PROVE  Follows'
  <2>1. r = Main
    BY DEF Alone
  <2>2. /\ UNCHANGED <<processed, handled, stored, chain>> /\ AllEvents' = AllEvents
        /\ loop' = [loop EXCEPT !.pc = "handle", !.newEvents = {e \in stored : e[1] > processed}]
    BY <1>4, <2>1, SameEvents DEF Answered, ReadStored
  <2>3. loop'.newEvents = {e \in stored : e[1] > processed}
    BY <2>2 DEF LoopTyped, Position
  <2>4. InHand'
    BY <2>2, <2>3 DEF InHand
  <2> QED
    BY <1>1, <2>2, <2>4 DEF Follows, Recorded, InOrder, Before
<1>5. loop.pc \in {"start", "query", "fetch", "handle"} /\ loop \in Position
  BY DEF LoopTyped, Position
<1>6. CASE Start
  <2>1. loop'.pc = "query" /\ UNCHANGED <<processed, handled, chain>>
    BY <1>5, <1>6 DEF Start, Position, cacheVars
  <2> QED
    BY <1>1, <2>1, SameEvents, FollowsKept
<1>7. ASSUME NEW r \in Readers, Query(r) \/ Retry(r)
      PROVE  Follows'
  <2>1. r = Main
    BY DEF Alone
  <2>2. loop'.pc \in {"fetch", "query"} /\ UNCHANGED <<processed, handled, chain>>
    BY <1>5, <1>7, <2>1 DEF Query, Retry, Position, BeginRead, Reject
  <2> QED
    BY <1>1, <2>2, SameEvents, FollowsKept
<1>8. CASE Exit \/ Restart
  <2>1. loop'.pc = "start" /\ UNCHANGED <<processed, handled, chain>>
    BY <1>8, RoundTyped DEF Exit, Restart, Reset, Wipe
  <2> QED
    BY <1>1, <2>1, SameEvents, FollowsKept
<1>9. CASE CacheStep(Background \/ \E r \in Readers : CallStep(r))
  <2>1. UNCHANGED <<processed, handled, loop>>
    BY <1>9 DEF CacheStep, listenerVars
  <2>2. Mine \/ AllEvents' = AllEvents
    BY <1>9, SameEvents
       DEF CacheStep, Background, LoadLatestBlock,
           Poll, FirstBlock, FirstFails, NewBlock, BlockIs, PromiseStep, NodeAnswers, NodeFails,
           AddEvent, AddFails, FinishAdding, CallStep, AskNumber, SetIndexed, Resume, UpdateIndexed
  <2>3. ASSUME loop.pc = "handle"
        PROVE  stored' = stored
    <3>1. \A k \in DOMAIN promises : ~PromiseStep(k)
      BY <2>3, Resting DEF Follows, Quiet
    <3> QED
      BY <1>9, <3>1
         DEF CacheStep, Background, Mine, LoadLatestBlock,
             Poll, FirstBlock, FirstFails, NewBlock, BlockIs, CallStep, AskNumber,
             SetIndexed, Resume, UpdateIndexed
  <2> QED
    BY <1>1, <2>1, <2>2, <2>3, FollowsKept
<1>10. CASE UNCHANGED vars
  <2>1. UNCHANGED <<processed, handled, loop, stored, chain>>
    BY <1>10 DEF vars, listenerVars, cacheVars
  <2> QED
    BY <1>1, <2>1, SameEvents, FollowsKept
<1> QED
  BY <1>2, <1>3, <1>4, <1>6, <1>7, <1>8, <1>9, <1>10 DEF Next

Listening == CacheInv /\ LoopTyped /\ Follows

LEMMA ListenerInvariant == ASSUME Alone PROVE Spec => []Listening
<1>1. ASSUME Init
      PROVE  Listening
  <2>1. CacheInv /\ LoopTyped /\ AllEvents = {} /\ DOMAIN promises = {}
    <3>1. CacheInv /\ LoopTyped /\ Len(chain) = 0
      BY <1>1, CacheStarts, LoopStarts, EmptySeq DEF Init, CacheInit
    <3>2. AllEvents = {}
      BY <3>1, EventIs DEF CacheInv, Typed
    <3> QED
      BY <1>1, <3>1, <3>2, EmptySeq DEF Init, CacheInit
  <2>2. reader[Main].pc = "idle"
    BY <1>1, ListenerAssumption DEF Init, CacheInit, Idle
  <2>3. Follows
    BY <1>1, <2>1, <2>2, RoundTyped DEF Init, Follows, Quiet, InHand, Recorded, InOrder
  <2> QED
    BY <2>1, <2>3 DEF Listening
<1>2. ASSUME Listening, [Next]_vars
      PROVE  Listening'
  <2>1. Typed /\ Data /\ LoopTyped /\ Follows /\ ~Persistent /\ WholeBlocks
    BY <1>2, ListenerAssumption DEF Listening, CacheInv, WholeBlocks
  <2> QED
    BY <1>2, <2>1, FollowsStep, LoopStepTyped, ListenerStep, CacheStepKeeps DEF Listening
<1> QED
  BY <1>1, <1>2, PTL DEF Spec

(* As long as only its loop reads the cache, the listener never records a block before
   a handler was called with every event up to it: whatever requests fail, however far
   behind nodes are, and however often the process exits or is restarted. *)
THEOREM HandledBeforeRecorded == ASSUME Alone PROVE Spec => []AtLeastOnce
<1>1. Listening => AtLeastOnce
  <2> SUFFICES ASSUME Listening
               PROVE  Emitted(1, processed) \subseteq handled
    BY DEF AtLeastOnce
  <2>1. MarksTyped /\ processed \in Int
    BY DEF Listening, CacheInv, Typed, LoopTyped
  <2>2. Emitted(1, processed) = {e \in AllEvents : 1 <= e[1] /\ e[1] <= processed}
    BY <2>1, EmittedIs
  <2> QED
    BY <2>2 DEF Listening, Follows, Recorded
<1> QED
  BY <1>1, ListenerInvariant, PTL

(* Nor is a handler called with an event before one was called with every earlier event
   of the contract. *)
THEOREM HandledInOrder == ASSUME Alone PROVE Spec => []InOrder
<1>1. Listening => InOrder
  BY DEF Listening, Follows
<1> QED
  BY <1>1, ListenerInvariant, PTL

(* What AnswersAreFresh says of the cache holds when the listener uses it, with any number
   of resolvers next to it and when its process exits. *)
THEOREM ListenerGetsFresh == Spec => []Fresh
<1> DEFINE Inv == CacheInv /\ Answers
<1>1. Init => Inv
  BY CacheStarts, AnswersStart, EmptySeq DEF Init, CacheInit, CacheInv, Typed
<1>2. Inv /\ [Next]_vars => Inv'
  BY ListenerStep, ListenerAssumption, CacheStepKeeps, CacheAnswers DEF WholeBlocks
<1>3. Inv => Fresh
  BY AnswersShow DEF CacheInv, Typed
<1> QED
  BY <1>1, <1>2, <1>3, PTL DEF Spec
=============================================================================
