---------------------------- MODULE RelayerProofs ----------------------------
(***************************************************************************)
(* Proofs about the purse of the relayer and the relayer on top of it, for *)
(* any number of accounts, calls, users, dropped transactions, restarts    *)
(* and timeouts.                                                           *)
(*                                                                         *)
(* The relayer makes every step the purse makes and one more, the refusal  *)
(* of a request before sendTx is called.  What is proved of the purse      *)
(* holds with such steps, so that the relayer inherits it.                 *)
(*                                                                         *)
(* In order: calls and types of the purse, its counts, the requests of the *)
(* relayer, and last the nonces, the longest argument.                     *)
(***************************************************************************)
EXTENDS Relayer, FiniteTheorems

Stages == {"none", "accounts", "pending", "ready"}
Pcs == {"idle", "init", "called", "waiting", "looking", "nonce", "send", "track", "raw",
        "count", "sent", "failed"}

\* A request is refused, and its call of sendTx never made.
Refusal(r) ==
    /\ At(r, "called") /\ sends' = [sends EXCEPT ![r].pc = "failed"]
    /\ UNCHANGED <<memory, tx, redis, network, crashes>>

PurseStep == Next \/ \E r \in Sends : Refusal(r)

-----------------------------------------------------------------------------
(* What is known of calls and of their transactions *)

\* A call works with an account that exists.
Placed ==
    /\ \A r \in Sends :
        /\ At(r, "looking") => sends[r].child >= 1 /\ sends[r].best <= boot.children
        /\ At(r, "nonce") => sends[r].best \in 1 .. boot.children
        /\ sends[r].pc \in {"send", "track", "raw", "count"} => tx[r].from \in 1 .. boot.children
    /\ boot.stage \in {"pending", "ready"} => boot.children = NumChildren

\* The transaction of the loop, between its receipt and the count.
Settling == IF loop.pc = "idle" THEN {} ELSE {loop.tx}

\* Transactions that the purse follows, or will after a start, were sent before.
Followed ==
    \A r \in tracked \cup Settling \cup redis.pending \cup boot.hashes :
        /\ r \in Sends /\ tx[r].from \in Children
        /\ sends[r].pc \in {"raw", "count", "sent", "failed"}

\* The node knows what was sent.
Sent ==
    \A r \in pool \cup mined :
        tx[r].from \in Children /\ sends[r].pc \in {"track", "raw", "count", "sent", "failed"}

Wellformed == TypeOK /\ Placed /\ Followed /\ Sent

-----------------------------------------------------------------------------
(* Numbers *)

LEMMA Constants ==
    /\ NumChildren \in Nat \ {0} /\ MaxPending \in Nat \ {0} /\ MaxSends \in Nat
    /\ MaxDrops \in Nat /\ MaxCrashes \in Nat
    /\ IsFiniteSet(Sends) /\ Cardinality(Sends) = MaxSends
<1>1. PurseAssumption
  BY PurseAssumption
<1>2. MaxSends \in Nat /\ 1 \in Int /\ MaxSends \in Int
  BY <1>1 DEF PurseAssumption
<1>3. /\ IsFiniteSet(1 .. MaxSends)
      /\ Cardinality(1 .. MaxSends) = IF 1 > MaxSends THEN 0 ELSE MaxSends - 1 + 1
  BY <1>2, FS_Interval
<1> QED
  BY <1>1, <1>2, <1>3 DEF PurseAssumption, Sends

LEMMA OfIs ==
    ASSUME NEW a, NEW S, S \subseteq Sends
    PROVE  /\ Of(a, S) \subseteq S
           /\ IsFiniteSet(Of(a, S)) /\ Cardinality(Of(a, S)) \in Nat
           /\ Cardinality(Of(a, S)) <= MaxSends
<1>1. Of(a, S) \subseteq S /\ Of(a, S) \in SUBSET Sends
  BY DEF Of
<1> QED
  BY <1>1, Constants, FS_Subset, FS_CardinalityType

LEMMA LargerOf ==
    ASSUME NEW x \in Nat, NEW y \in Nat
    PROVE  Max({x, y}) = IF x >= y THEN x ELSE y
<1>1. \E m \in {x, y} : \A z \in {x, y} : m >= z
  OBVIOUS
<1>2. PICK m \in {x, y} : m = Max({x, y}) /\ \A z \in {x, y} : m >= z
  BY <1>1 DEF Max
<1> QED
  BY <1>2

\* Some nonce is not in the pool: it holds fewer transactions than there are candidates.
LEMMA PendingNonceIs ==
    ASSUME NEW a, pool \subseteq Sends, mined \subseteq Sends
    PROVE  /\ NextNonce(a) \in Nat /\ PendingNonce(a) \in Nat /\ NextNonce(a) <= PendingNonce(a)
           /\ ~ \E r \in Of(a, pool) : tx[r].nonce = PendingNonce(a)
           /\ \A n \in Nat : NextNonce(a) <= n /\ n < PendingNonce(a)
                => \E r \in Of(a, pool) : tx[r].nonce = n
<1> DEFINE N == NextNonce(a)
           candidates == {n \in N .. N + MaxSends : ~ \E r \in Of(a, pool) : tx[r].nonce = n}
<1>1. N \in Nat
  BY OfIs DEF NextNonce
<1>2. candidates # {}
  <2> SUFFICES ASSUME candidates = {}
               PROVE  FALSE
    OBVIOUS
  <2> DEFINE f == [n \in N .. N + MaxSends |-> CHOOSE r \in Of(a, pool) : tx[r].nonce = n]
  <2>1. \A n \in N .. N + MaxSends : f[n] \in Of(a, pool) /\ tx[f[n]].nonce = n
    OBVIOUS
  <2>2. f \in [N .. N + MaxSends -> Of(a, pool)]
    BY <2>1
  <2>3. N \in Int /\ N + MaxSends \in Int
    BY <1>1, Constants
  <2>4. PICK T : T = N .. N + MaxSends
    OBVIOUS
  <2>5. IsFiniteSet(T) /\ Cardinality(T) = MaxSends + 1
    <3>1. PICK n, m \in Int : n = N /\ m = N + MaxSends
      BY <2>3
    <3>2. IsFiniteSet(n .. m) /\ Cardinality(n .. m) = IF n > m THEN 0 ELSE m - n + 1
      BY FS_Interval
    <3>3. ~(n > m) /\ m - n + 1 = MaxSends + 1 /\ T = n .. m
      BY <1>1, <2>4, <3>1, Constants
    <3> QED
      BY ONLY <3>2, <3>3
  <2>6. /\ IsFiniteSet(Of(a, pool)) /\ Cardinality(Of(a, pool)) \in Nat
        /\ Cardinality(Of(a, pool)) <= MaxSends
    BY OfIs
  <2>7. Cardinality(Of(a, pool)) < Cardinality(T)
    BY <2>5, <2>6, Constants
  <2>8. f \in [T -> Of(a, pool)] /\ \A n \in T : tx[f[n]].nonce = n
    BY <2>1, <2>2, <2>4
  <2> HIDE DEF f
  <2>9. \E x, y \in T : x # y /\ f[x] = f[y]
    BY <2>5, <2>6, <2>7, <2>8, FS_PigeonHole
  <2> QED
    BY <2>8, <2>9
<1>3. candidates \subseteq Nat
  BY <1>1, Constants
<1> HIDE DEF candidates
<1>4. \E x \in candidates : \A y \in candidates : x <= y
  BY <1>2, <1>3, SmallestOf
<1>5. PICK m \in candidates : m = Min(candidates) /\ \A y \in candidates : m <= y
  BY <1>4 DEF Min
<1>6. m = PendingNonce(a)
  BY <1>5 DEF PendingNonce, candidates
<1>7. N <= m /\ m <= N + MaxSends /\ m \in Nat /\ ~ \E r \in Of(a, pool) : tx[r].nonce = m
  BY <1>1, <1>5, Constants DEF candidates
<1>8. ASSUME NEW n \in Nat, N <= n, n < m
      PROVE  \E r \in Of(a, pool) : tx[r].nonce = n
  <2>1. n \notin candidates
    BY <1>5, <1>7, <1>8
  <2>2. n \in N .. N + MaxSends
    BY <1>1, <1>7, <1>8, Constants
  <2> QED
    BY <2>1, <2>2 DEF candidates
<1> QED
  BY <1>1, <1>6, <1>7, <1>8

LEMMA TxCountIs ==
    ASSUME TypeOK, NEW a \in Children
    PROVE  TxCount(a) \in Nat /\ accounts[a].txCount \in Nat /\ redis.count[a] \in Nat
<1>1. accounts[a].txCount \in Nat /\ redis.count[a] \in Nat
      /\ pool \subseteq Sends /\ mined \subseteq Sends
  BY DEF TypeOK
<1>2. PendingNonce(a) \in Nat
  BY <1>1, PendingNonceIs
<1> QED
  BY <1>1, <1>2, LargerOf DEF TxCount

LEMMA RedisRaisedIs ==
    ASSUME TypeOK, NEW a \in Children
    PROVE  /\ RedisRaised(a) \in [count : [Children -> Nat], pending : SUBSET Sends, raw : SUBSET Sends]
           /\ RedisRaised(a).pending = redis.pending
           /\ RedisRaised(a).raw = redis.raw
<1>1. PICK c \in Nat : c = Max({redis.count[a], PendingNonce(a)})
  <2>1. redis.count[a] \in Nat /\ PendingNonce(a) \in Nat
    BY PendingNonceIs DEF TypeOK
  <2> QED
    BY <2>1, LargerOf
<1>2. RedisRaised(a) = redis \/ RedisRaised(a) = [redis EXCEPT !.count[a] = c]
  BY <1>1 DEF RedisRaised
<1>3. redis \in [count : [Children -> Nat], pending : SUBSET Sends, raw : SUBSET Sends]
  BY DEF TypeOK
<1> QED
  BY <1>2, <1>3

-----------------------------------------------------------------------------
(* Types: steps of a call *)

Calls == [pc : Pcs, child : 0 .. NumChildren + 1, best : 0 .. NumChildren, lowest : Nat]

LEMMA Shapes ==
    ASSUME Wellformed
    PROVE  /\ boot.stage \in Stages /\ boot.children \in Nat /\ boot.children <= NumChildren
           /\ boot.hashes \subseteq Sends
           /\ sends \in [Sends -> Calls] /\ tx \in [Sends -> [from : 0 .. NumChildren, nonce : Nat]]
           /\ tracked \subseteq Sends /\ meta \subseteq Sends
           /\ pool \subseteq Sends /\ mined \subseteq Sends
           /\ loop.pc \in {"idle", "callbacks", "adjust"} /\ loop.tx \in 0 .. MaxSends
           /\ redis.pending \subseteq Sends /\ redis.raw \subseteq Sends
           /\ accounts \in [Children -> [txCount : Nat, pendingCount : Nat, locked : BOOLEAN]]
<1>1. boot.children \in Nat /\ boot.children <= NumChildren
  BY Constants DEF Wellformed, TypeOK
<1> QED
  BY <1>1 DEF Wellformed, TypeOK, Stages, Calls, Pcs

LEMMA CallIs ==
    ASSUME Wellformed, NEW r \in Sends
    PROVE  /\ sends[r] \in Calls /\ sends[r].pc \in Pcs
           /\ sends[r].child \in Nat /\ sends[r].best \in Nat
           /\ sends[r].child <= NumChildren + 1 /\ sends[r].best <= NumChildren
           /\ tx[r].from \in Nat /\ tx[r].nonce \in Nat /\ tx[r].from <= NumChildren
<1>1. sends[r] \in Calls /\ tx[r] \in [from : 0 .. NumChildren, nonce : Nat]
  BY Shapes
<1>2. PICK c \in Calls : c = sends[r]
  BY <1>1
<1>3. PICK t \in [from : 0 .. NumChildren, nonce : Nat] : t = tx[r]
  BY <1>1
<1>4. /\ c.pc \in Pcs /\ c.child \in Nat /\ c.best \in Nat
      /\ c.child <= NumChildren + 1 /\ c.best <= NumChildren
  BY Constants DEF Calls
<1>5. t.from \in Nat /\ t.nonce \in Nat /\ t.from <= NumChildren
  BY Constants
<1> QED
  BY <1>2, <1>3, <1>4, <1>5

LEMMA GotoIs ==
    ASSUME Wellformed, NEW r \in Sends, NEW pc \in Pcs, Goto(r, pc)
    PROVE  \E c \in Calls : /\ sends' = [sends EXCEPT ![r] = c] /\ c.pc = pc
                            /\ c.child = sends[r].child /\ c.best = sends[r].best
<1>1. sends[r] \in Calls
  BY CallIs
<1>2. PICK d \in Calls : d = sends[r]
  BY <1>1
<1>3. PICK c : c = [d EXCEPT !.pc = pc]
  OBVIOUS
<1>4. c \in Calls /\ c.pc = pc /\ c.child = d.child /\ c.best = d.best
  BY <1>3 DEF Calls
<1>5. sends' = [sends EXCEPT ![r] = c]
  BY <1>2, <1>3 DEF Goto
<1> QED
  BY <1>2, <1>4, <1>5

LEMMA ChosenIs ==
    ASSUME Wellformed, NEW r \in Sends, Select(r), sends[r].best # 0
    PROVE  \E c \in Calls : /\ sends' = [sends EXCEPT ![r] = c] /\ c.pc = "nonce"
                            /\ c.best = sends[r].best
<1>1. PICK d \in Calls : d = sends[r]
  BY CallIs
<1>2. PICK c : c = [d EXCEPT !.pc = "nonce", !.lowest = 0]
  OBVIOUS
<1>3. c \in Calls /\ c.pc = "nonce" /\ c.best = d.best
  BY <1>2 DEF Calls, Pcs
<1>4. sends' = [sends EXCEPT ![r] = c]
  BY <1>1, <1>2 DEF Select
<1> QED
  BY <1>1, <1>3, <1>4

\* Where a call is after its transaction was sent, and after it was saved.
Out  == {"track", "raw", "count", "sent", "failed"}
Late == {"raw", "count", "sent", "failed"}

\* The call r moves on, and what others know of its transaction stays true.
Moves(r, c) ==
    /\ sends' = [sends EXCEPT ![r] = c]
    /\ sends[r].pc \in Out => c.pc \in Out
    /\ sends[r].pc \in Late => c.pc \in Late

LEMMA MovesIs ==
    ASSUME Wellformed, NEW r \in Sends, NEW c \in Calls, Moves(r, c)
    PROVE  /\ sends' \in [Sends -> Calls] /\ sends'[r] = c
           /\ \A s \in Sends \ {r} : sends'[s] = sends[s]
           /\ \A s \in Sends : sends[s].pc \in Out => sends'[s].pc \in Out
           /\ \A s \in Sends : sends[s].pc \in Late => sends'[s].pc \in Late
<1>1. sends \in [Sends -> Calls]
  BY Shapes
<1> QED
  BY <1>1 DEF Moves

LEMMA SentIs ==
    Wellformed =>
        /\ \A r \in tracked \cup Settling \cup redis.pending \cup boot.hashes :
                r \in Sends /\ tx[r].from \in Children /\ sends[r].pc \in Late
        /\ \A r \in pool \cup mined : r \in Sends /\ tx[r].from \in Children /\ sends[r].pc \in Out
BY Shapes DEF Wellformed, Followed, Sent, Late, Out

\* A call that has an account that exists.
PlacedAt(c, r) ==
    /\ c.pc = "looking" => c.child >= 1 /\ c.best <= boot.children
    /\ c.pc = "nonce" => c.best \in 1 .. boot.children
    /\ c.pc \in {"send", "track", "raw", "count"} => tx[r].from \in 1 .. boot.children

LEMMA PlacedIs ==
    ASSUME Wellformed, NEW r \in Sends
    PROVE  PlacedAt(sends[r], r)
BY DEF Wellformed, Placed, PlacedAt, At

LEMMA OnlyCallMoves ==
    ASSUME Wellformed, NEW r \in Sends, NEW c \in Calls, Moves(r, c), PlacedAt(c, r),
           UNCHANGED <<tx, boot, loop, tracked, redis, pool, mined>>
    PROVE  sends' \in [Sends -> Calls] /\ Placed' /\ Followed' /\ Sent'
<1>1. /\ sends' \in [Sends -> Calls] /\ sends'[r] = c
      /\ \A s \in Sends \ {r} : sends'[s] = sends[s]
      /\ \A s \in Sends : sends[s].pc \in Out => sends'[s].pc \in Out
      /\ \A s \in Sends : sends[s].pc \in Late => sends'[s].pc \in Late
  BY MovesIs
<1>2. Settling' = Settling
  BY DEF Settling
<1>3. Followed' /\ Sent'
  BY <1>1, <1>2, SentIs DEF Followed, Sent, Out, Late
<1>4. \A s \in Sends : PlacedAt(sends'[s], s)
  BY <1>1, PlacedIs
<1>5. Placed'
  BY <1>4 DEF Placed, PlacedAt, At, Wellformed
<1> QED
  BY <1>1, <1>3, <1>5

LEMMA TypeMoves ==
    ASSUME Wellformed, sends' \in [Sends -> Calls],
           accounts' \in [Children -> [txCount : Nat, pendingCount : Nat, locked : BOOLEAN]],
           lookup' \in BOOLEAN,
           UNCHANGED <<tx, boot, loop, tracked, meta, redis, pool, mined>>
    PROVE  TypeOK'
BY DEF Wellformed, TypeOK, Calls, Pcs

\* Steps of a call that move nothing but the call, the lock of an account and the lookup.
LEMMA QuietMoves ==
    ASSUME Wellformed, NEW r \in Sends,
           SendTx(r) \/ LookUp(r) \/ Timeout(r) \/ GasTooHigh(r) \/ Refusal(r)
    PROVE  Wellformed'
<1>1. PICK c \in Calls : Moves(r, c) /\ PlacedAt(c, r)
  <2>1. CASE SendTx(r)
    <3>1. Goto(r, "waiting") /\ "waiting" \in Pcs /\ sends[r].pc = "called"
      BY <2>1 DEF SendTx, Pcs, At
    <3>2. PICK c \in Calls : sends' = [sends EXCEPT ![r] = c] /\ c.pc = "waiting"
      BY <3>1, GotoIs
    <3> QED
      BY <3>1, <3>2 DEF Moves, PlacedAt, Out, Late
  <2>2. CASE LookUp(r)
    <3> DEFINE c == [pc |-> "looking", child |-> 1, best |-> 0, lowest |-> MaxPending]
    <3>1. c \in Calls /\ sends' = [sends EXCEPT ![r] = c] /\ sends[r].pc = "waiting"
      BY <2>2, Constants DEF LookUp, Calls, Pcs, At
    <3>2. PlacedAt(c, r)
      BY Shapes DEF PlacedAt
    <3> QED
      BY <3>1, <3>2 DEF Moves, Out, Late
  <2>3. CASE Timeout(r) \/ GasTooHigh(r) \/ Refusal(r)
    <3>1. /\ Goto(r, "failed") /\ "failed" \in Pcs
      BY <2>3 DEF Timeout, GasTooHigh, Refusal, Pcs, Goto
    <3>2. PICK c \in Calls : sends' = [sends EXCEPT ![r] = c] /\ c.pc = "failed"
      BY <3>1, GotoIs
    <3> QED
      BY <3>2 DEF Moves, PlacedAt, Out, Late
  <2> QED
    BY <2>1, <2>2, <2>3
<1>2. UNCHANGED <<tx, boot, loop, tracked, meta, redis, pool, mined, accounts>> /\ lookup' \in BOOLEAN
  BY DEF SendTx, LookUp, Timeout, GasTooHigh, Refusal, memory, network, Wellformed, TypeOK
<1>3. sends' \in [Sends -> Calls] /\ Placed' /\ Followed' /\ Sent'
  BY <1>1, <1>2, OnlyCallMoves
<1>4. TypeOK'
  BY <1>2, <1>3, TypeMoves, Shapes
<1> QED
  BY <1>3, <1>4 DEF Wellformed

LEMMA ConsiderTyped ==
    ASSUME Wellformed, NEW r \in Sends, Consider(r)
    PROVE  Wellformed'
<1>1. /\ sends[r].pc = "looking" /\ sends[r].child >= 1 /\ sends[r].best <= boot.children
      /\ sends[r].child <= boot.children
  BY PlacedIs DEF Consider, At, PlacedAt
<1>2. PICK a \in Nat : a = sends[r].child /\ a >= 1 /\ a <= boot.children /\ a \in Children
  BY <1>1, CallIs, Shapes, Constants DEF Children
<1>3. PICK d \in Calls : d = sends[r] /\ d.best \in Nat /\ d.pc = "looking"
  BY <1>1, CallIs
<1>4. UNCHANGED <<tx, boot, loop, tracked, meta, redis, pool, mined, lookup>>
  BY DEF Consider, network
<1>5. boot.children \in Nat /\ boot.children <= NumChildren /\ NumChildren \in Nat
  BY Shapes, Constants
<1>6. PICK c \in Calls : Moves(r, c) /\ PlacedAt(c, r)
  <2>1. CASE Available(r, a)
    <3> DEFINE count == accounts[a].pendingCount
    <3>1. PICK c : c = [d EXCEPT !.best = a, !.child = a + 1, !.lowest = count]
      OBVIOUS
    <3>2. c \in Calls /\ c.pc = "looking" /\ c.best = a /\ c.child = a + 1
      <4>1. PICK n \in 0 .. NumChildren + 1 : n = a + 1
        BY <1>2, <1>5
      <4>2. a \in 0 .. NumChildren /\ count \in Nat
        BY <1>2, <1>5, Shapes
      <4>3. c = [d EXCEPT !.best = a, !.child = n, !.lowest = count]
        BY <3>1, <4>1
      <4> HIDE DEF count
      <4> QED
        BY <1>3, <4>1, <4>2, <4>3 DEF Calls
    <3>3. sends' = [sends EXCEPT ![r] = c]
      BY <1>2, <1>3, <2>1, <3>1 DEF Consider
    <3>4. Moves(r, c) /\ PlacedAt(c, r)
      BY <1>1, <1>2, <3>2, <3>3 DEF Moves, PlacedAt, Out, Late
    <3> QED
      BY <3>2, <3>4
  <2>2. CASE ~Available(r, a)
    <3>1. PICK c : c = [d EXCEPT !.child = a + 1]
      OBVIOUS
    <3>2. c \in Calls /\ c.pc = "looking" /\ c.best = d.best /\ c.child = a + 1
      BY <1>2, <1>3, <1>5, <3>1 DEF Calls
    <3>3. sends' = [sends EXCEPT ![r] = c]
      BY <1>2, <1>3, <2>2, <3>1 DEF Consider
    <3>4. Moves(r, c) /\ PlacedAt(c, r)
      BY <1>1, <1>2, <1>3, <3>2, <3>3 DEF Moves, PlacedAt, Out, Late
    <3> QED
      BY <3>2, <3>4
  <2> QED
    BY <2>1, <2>2
<1>7. accounts' = accounts \/ accounts' = [accounts EXCEPT ![a].locked = TRUE]
  BY <1>2 DEF Consider
<1>8. accounts' \in [Children -> [txCount : Nat, pendingCount : Nat, locked : BOOLEAN]]
  BY <1>7, Shapes
<1>9. sends' \in [Sends -> Calls] /\ Placed' /\ Followed' /\ Sent'
  BY <1>4, <1>6, OnlyCallMoves
<1>10. TypeOK'
  BY <1>4, <1>8, <1>9, TypeMoves DEF Wellformed, TypeOK
<1> QED
  BY <1>9, <1>10 DEF Wellformed

LEMMA SelectTyped ==
    ASSUME Wellformed, NEW r \in Sends, Select(r)
    PROVE  Wellformed'
<1>1. /\ sends[r].pc = "looking" /\ sends[r].child >= 1 /\ sends[r].best <= boot.children
  BY PlacedIs DEF Select, At, PlacedAt
<1>2. UNCHANGED <<tx, boot, loop, tracked, meta, redis, pool, mined>>
  BY DEF Select, network
<1>3. PICK d \in Calls : d = sends[r] /\ d.best \in Nat /\ d.pc = "looking"
  BY <1>1, CallIs
<1>4. boot.children \in Nat /\ boot.children <= NumChildren /\ NumChildren \in Nat \ {0}
  BY Shapes, Constants
<1>5. PICK c \in Calls : Moves(r, c) /\ PlacedAt(c, r)
  <2>1. CASE d.best # 0
    <3>1. PICK c \in Calls : sends' = [sends EXCEPT ![r] = c] /\ c.pc = "nonce" /\ c.best = d.best
      BY <1>3, <2>1, ChosenIs
    <3>2. Moves(r, c) /\ PlacedAt(c, r)
      BY <1>1, <1>3, <1>4, <2>1, <3>1 DEF Moves, PlacedAt, Out, Late
    <3> QED
      BY <3>2
  <2>2. CASE d.best = 0
    <3>1. PICK c : c = [d EXCEPT !.child = 1]
      OBVIOUS
    <3>2. c \in Calls /\ c.pc = "looking" /\ c.best = 0 /\ c.child = 1
      BY <1>3, <1>4, <2>2, <3>1 DEF Calls
    <3>3. sends' = [sends EXCEPT ![r] = c]
      BY <1>3, <2>2, <3>1 DEF Select
    <3>4. Moves(r, c) /\ PlacedAt(c, r)
      BY <1>1, <1>4, <3>2, <3>3 DEF Moves, PlacedAt, Out, Late
    <3> QED
      BY <3>2, <3>4
  <2> QED
    BY <2>1, <2>2
<1>6. lookup' \in BOOLEAN /\ (accounts' = accounts \/ accounts' = [accounts EXCEPT ![d.best].locked = TRUE])
  BY <1>3 DEF Select, Wellformed, TypeOK
<1>7. accounts' \in [Children -> [txCount : Nat, pendingCount : Nat, locked : BOOLEAN]]
  BY <1>6, Shapes
<1>8. sends' \in [Sends -> Calls] /\ Placed' /\ Followed' /\ Sent'
  BY <1>2, <1>5, OnlyCallMoves
<1>9. TypeOK'
  BY <1>2, <1>6, <1>7, <1>8, TypeMoves
<1> QED
  BY <1>8, <1>9 DEF Wellformed

-----------------------------------------------------------------------------
(* Types: the other steps *)

\* Calls do not go back, and a transaction that was sent stays as it is.
Keeps ==
    \A s \in Sends :
        /\ sends[s].pc \in Out => sends'[s].pc \in Out /\ tx'[s] = tx[s]
        /\ sends[s].pc \in Late => sends'[s].pc \in Late

Followees == tracked \cup Settling \cup redis.pending \cup boot.hashes

LEMMA FollowedKept ==
    ASSUME Wellformed, Keeps, NEW r \in Sends, Followees' \subseteq Followees \cup {r},
           tx'[r].from \in Children, sends'[r].pc \in Late
    PROVE  Followed'
BY SentIs DEF Followed, Followees, Keeps, Late, Out

LEMMA SentKept ==
    ASSUME Wellformed, Keeps, NEW X, pool' \cup mined' \subseteq pool \cup mined \cup X,
           \A s \in X : s \in Sends /\ tx'[s].from \in Children /\ sends'[s].pc \in Out
    PROVE  Sent'
BY SentIs DEF Sent, Keeps, Out

LEMMA FollowedSame ==
    ASSUME Wellformed, Keeps, Followees' \subseteq Followees
    PROVE  Followed'
BY SentIs DEF Followed, Followees, Keeps, Late, Out

LEMMA SentSame ==
    ASSUME Wellformed, Keeps, pool' \cup mined' \subseteq pool \cup mined
    PROVE  Sent'
BY SentIs DEF Sent, Keeps, Out

LEMMA MoveKeeps ==
    ASSUME Wellformed, NEW r \in Sends, NEW c \in Calls, Moves(r, c),
           \A s \in Sends : (s = r /\ sends[r].pc \notin Out) \/ tx'[s] = tx[s]
    PROVE  Keeps
BY MovesIs DEF Keeps

LEMMA RestKeeps ==
    ASSUME Wellformed, UNCHANGED <<sends, tx>>
    PROVE  Keeps
BY DEF Keeps

\* One call moves, to a place it may have.
LEMMA PlacedMove ==
    ASSUME Wellformed, NEW r \in Sends, NEW c \in Calls, sends' = [sends EXCEPT ![r] = c],
           UNCHANGED boot, \A s \in Sends : s = r \/ tx'[s] = tx[s],
           PlacedAt(c, r)'
    PROVE  Placed'
<1>1. sends'[r] = c /\ \A s \in Sends \ {r} : sends'[s] = sends[s]
  BY Shapes
<1>2. ASSUME NEW s \in Sends, s # r
      PROVE  PlacedAt(sends[s], s)'
  BY <1>1, <1>2, PlacedIs DEF PlacedAt
<1> QED
  BY <1>1, <1>2 DEF Placed, PlacedAt, At, Wellformed

LEMMA PlacedRest ==
    ASSUME Wellformed, UNCHANGED <<sends, tx, boot>>
    PROVE  Placed'
BY DEF Wellformed, Placed, At

AccountTable == [Children -> [txCount : Nat, pendingCount : Nat, locked : BOOLEAN]]
CountTable   == [count : [Children -> Nat], pending : SUBSET Sends, raw : SUBSET Sends]

LEMMA TypeIs ==
    ASSUME boot \in [stage : Stages, children : 0 .. NumChildren, hashes : SUBSET Sends],
           accounts \in AccountTable, lookup \in BOOLEAN, sends \in [Sends -> Calls],
           tx \in [Sends -> [from : 0 .. NumChildren, nonce : Nat]],
           loop \in [pc : {"idle", "callbacks", "adjust"}, tx : 0 .. MaxSends],
           redis \in CountTable,
           tracked \subseteq Sends, meta \subseteq Sends, pool \subseteq Sends, mined \subseteq Sends
    PROVE  TypeOK
BY DEF TypeOK, AccountTable, CountTable, Calls, Pcs, Stages

LEMMA NextTypeIs ==
    ASSUME boot' \in [stage : Stages, children : 0 .. NumChildren, hashes : SUBSET Sends],
           accounts' \in AccountTable, lookup' \in BOOLEAN, sends' \in [Sends -> Calls],
           tx' \in [Sends -> [from : 0 .. NumChildren, nonce : Nat]],
           loop' \in [pc : {"idle", "callbacks", "adjust"}, tx : 0 .. MaxSends],
           redis' \in CountTable,
           tracked' \subseteq Sends, meta' \subseteq Sends, pool' \subseteq Sends, mined' \subseteq Sends
    PROVE  TypeOK'
BY DEF TypeOK, AccountTable, CountTable, Calls, Pcs, Stages

LEMMA TypesAre ==
    ASSUME Wellformed
    PROVE  /\ boot \in [stage : Stages, children : 0 .. NumChildren, hashes : SUBSET Sends]
           /\ accounts \in AccountTable /\ lookup \in BOOLEAN /\ sends \in [Sends -> Calls]
           /\ tx \in [Sends -> [from : 0 .. NumChildren, nonce : Nat]]
           /\ loop \in [pc : {"idle", "callbacks", "adjust"}, tx : 0 .. MaxSends]
           /\ redis \in CountTable
           /\ tracked \subseteq Sends /\ meta \subseteq Sends
           /\ pool \subseteq Sends /\ mined \subseteq Sends
BY DEF Wellformed, TypeOK, AccountTable, CountTable, Calls, Pcs, Stages

LEMMA NodeMoves ==
    ASSUME Wellformed, UNCHANGED <<memory, sends, tx, redis>>,
           pool' \cup mined' \subseteq pool \cup mined \cup tracked
    PROVE  Wellformed'
<1>1. /\ UNCHANGED <<boot, accounts, lookup, tracked, meta, loop, sends, tx, redis>>
  BY DEF memory
<1>2. Keeps /\ Placed'
  BY <1>1, RestKeeps, PlacedRest
<1>3. Followed'
  <2>1. Followees' \subseteq Followees
    BY <1>1 DEF Followees, Settling
  <2> QED
    BY <1>2, <2>1, FollowedSame
<1>4. Sent'
  <2>1. \A s \in tracked : s \in Sends /\ tx'[s].from \in Children /\ sends'[s].pc \in Out
    BY <1>1, SentIs DEF Late, Out
  <2> QED
    BY <1>2, <2>1, SentKept
<1>5. TypeOK'
  BY <1>1, TypesAre, NextTypeIs
<1> QED
  BY <1>2, <1>3, <1>4, <1>5 DEF Wellformed

LEMMA NodeTyped ==
    ASSUME Wellformed, NEW r \in Sends, Mine(r) \/ Drop(r) \/ Rebroadcast(r)
    PROVE  Wellformed'
<1>1. UNCHANGED <<memory, sends, tx, redis>>
  BY DEF Mine, Drop, Rebroadcast
<1>2. pool' \cup mined' \subseteq pool \cup mined \cup tracked
  BY DEF Mine, Drop, Rebroadcast, Broadcast
<1> QED
  BY <1>1, <1>2, NodeMoves

LEMMA SignTyped ==
    ASSUME Wellformed, NEW r \in Sends, Sign(r)
    PROVE  Wellformed'
<1>1. /\ sends[r].pc = "nonce" /\ sends[r].best \in 1 .. boot.children
      /\ UNCHANGED <<memory, network>>
  BY PlacedIs DEF Sign, At, PlacedAt
<1>2. PICK a \in Children : a = sends[r].best /\ a \in 1 .. boot.children /\ a \in 0 .. NumChildren
  BY <1>1, Shapes, CallIs, Constants DEF Children
<1>3. PICK n \in Nat : n = TxCount(a)
  BY TxCountIs DEF Wellformed
<1>4. /\ RedisRaised(a) \in CountTable /\ RedisRaised(a).pending = redis.pending
      /\ redis' = RedisRaised(a)
  BY <1>2, RedisRaisedIs DEF Wellformed, CountTable, Sign
<1>5. /\ tx' \in [Sends -> [from : 0 .. NumChildren, nonce : Nat]]
      /\ tx'[r].from = a /\ \A s \in Sends : s = r \/ tx'[s] = tx[s]
  <2>1. tx' = [tx EXCEPT ![r] = [from |-> a, nonce |-> n]]
    BY <1>2, <1>3 DEF Sign
  <2> QED
    BY <1>2, <2>1, TypesAre
<1>6. PICK c \in Calls : sends' = [sends EXCEPT ![r] = c] /\ c.pc = "send"
  <2>1. Goto(r, "send") /\ "send" \in Pcs
    BY DEF Sign, Pcs
  <2> QED
    BY <2>1, GotoIs
<1>7. UNCHANGED <<boot, accounts, lookup, tracked, meta, loop, pool, mined>>
  BY <1>1 DEF memory, network
<1>8. Moves(r, c) /\ Keeps
  <2>1. Moves(r, c)
    BY <1>1, <1>6 DEF Moves, Out, Late
  <2>2. sends[r].pc \notin Out
    BY <1>1 DEF Out
  <2> QED
    BY <1>5, <2>1, <2>2, MoveKeeps
<1>9. Placed'
  <2>1. PlacedAt(c, r)'
    BY <1>2, <1>5, <1>6, <1>7 DEF PlacedAt
  <2> QED
    BY <1>5, <1>6, <1>7, <2>1, PlacedMove
<1>10. Followed'
  <2>1. Followees' \subseteq Followees
    BY <1>4, <1>7 DEF Followees, Settling
  <2> QED
    BY <1>8, <2>1, FollowedSame
<1>11. Sent'
  <2>1. pool' \cup mined' \subseteq pool \cup mined
    BY <1>7
  <2> QED
    BY <1>8, <2>1, SentSame
<1>12. TypeOK'
  <2>1. sends' \in [Sends -> Calls]
    BY <1>8, MovesIs
  <2> QED
    BY <1>4, <1>5, <1>7, <2>1, TypesAre, NextTypeIs
<1> QED
  BY <1>9, <1>10, <1>11, <1>12 DEF Wellformed

\* A call goes on with the transaction it has.
LEMMA OneCallMoves ==
    ASSUME Wellformed, NEW r \in Sends, NEW pc \in Pcs, Goto(r, pc), UNCHANGED <<tx, boot>>,
           sends[r].pc \in Out => pc \in Out, sends[r].pc \in Late => pc \in Late,
           pc \notin {"looking", "nonce"},
           pc \in {"send", "track", "raw", "count"} => tx[r].from \in 1 .. boot.children
    PROVE  /\ sends' \in [Sends -> Calls] /\ sends'[r].pc = pc
           /\ \A s \in Sends \ {r} : sends'[s] = sends[s]
           /\ Keeps /\ Placed'
<1>1. PICK c \in Calls : sends' = [sends EXCEPT ![r] = c] /\ c.pc = pc
  BY GotoIs
<1>2. Moves(r, c)
  BY <1>1 DEF Moves
<1>3. sends' \in [Sends -> Calls] /\ sends'[r] = c /\ \A s \in Sends \ {r} : sends'[s] = sends[s]
  BY <1>2, MovesIs
<1>4. Keeps
  BY <1>2, MoveKeeps
<1>5. PlacedAt(c, r)'
  BY <1>1 DEF PlacedAt
<1>6. Placed'
  BY <1>1, <1>5, PlacedMove
<1> QED
  BY <1>1, <1>3, <1>4, <1>6

LEMMA SendTyped ==
    ASSUME Wellformed, NEW r \in Sends, Send(r)
    PROVE  Wellformed'
<1>1. /\ sends[r].pc = "send" /\ Goto(r, "track") /\ tx[r].from \in 1 .. boot.children
      /\ UNCHANGED <<memory, tx, redis, mined>> /\ pool' \subseteq pool \cup {r}
  BY PlacedIs DEF Send, At, PlacedAt, Broadcast
<1>2. /\ UNCHANGED <<boot, accounts, lookup, tracked, meta, loop, tx, redis, mined>>
  BY <1>1 DEF memory
<1>3. /\ sends' \in [Sends -> Calls] /\ sends'[r].pc = "track" /\ Keeps /\ Placed'
  <2>1. "track" \in Pcs
    BY DEF Pcs
  <2> QED
    BY <1>1, <1>2, <2>1, OneCallMoves DEF Out, Late
<1>4. Followed'
  <2>1. Followees' \subseteq Followees
    BY <1>2 DEF Followees, Settling
  <2> QED
    BY <1>3, <2>1, FollowedSame
<1>5. Sent'
  <2>1. pool' \cup mined' \subseteq pool \cup mined \cup {r}
    BY <1>1
  <2>2. \A s \in {r} : s \in Sends /\ tx'[s].from \in Children /\ sends'[s].pc \in Out
    BY <1>1, <1>2, <1>3, Shapes, Constants DEF Children, Out
  <2> QED
    BY ONLY Wellformed, <1>3, <2>1, <2>2, SentKept
<1>6. TypeOK'
  <2>1. pool' \subseteq Sends
    BY <1>1, TypesAre
  <2> QED
    BY <1>2, <1>3, <2>1, TypesAre, NextTypeIs
<1> QED
  BY <1>3, <1>4, <1>5, <1>6 DEF Wellformed

LEMMA TrackTyped ==
    ASSUME Wellformed, NEW r \in Sends, Track(r) \/ SaveRaw(r)
    PROVE  Wellformed'
<1>1. PICK pc \in {"raw", "count"} : Goto(r, pc)
  BY DEF Track, SaveRaw
<1>2. sends[r].pc \in {"track", "raw"} /\ tx[r].from \in 1 .. boot.children
  BY PlacedIs DEF Track, SaveRaw, At, PlacedAt
<1>3. UNCHANGED <<boot, accounts, lookup, loop, tx, pool, mined>>
  BY DEF Track, SaveRaw, memory, network
<1>4. /\ tracked' \subseteq tracked \cup {r} /\ meta' \subseteq meta \cup {r}
  BY DEF Track, SaveRaw, memory
<1>5. redis' \in CountTable /\ redis'.pending \subseteq redis.pending \cup {r}
  <2>1. PICK d \in CountTable : d = redis
    BY TypesAre
  <2>2. redis' = [d EXCEPT !.pending = d.pending \cup {r}] \/ redis' = [d EXCEPT !.raw = d.raw \cup {r}]
    BY <2>1 DEF Track, SaveRaw
  <2> QED
    BY <2>1, <2>2 DEF CountTable
<1>6. /\ sends' \in [Sends -> Calls] /\ sends'[r].pc = pc /\ Keeps /\ Placed'
  <2>1. pc \in Pcs /\ pc \in Out /\ pc \in Late /\ pc \notin {"looking", "nonce"}
    BY DEF Pcs, Out, Late
  <2> QED
    BY <1>1, <1>2, <1>3, <2>1, OneCallMoves
<1>7. Followed'
  <2>1. Followees' \subseteq Followees \cup {r}
    BY <1>3, <1>4, <1>5 DEF Followees, Settling
  <2>2. tx'[r].from \in Children /\ sends'[r].pc \in Late
    BY <1>2, <1>3, <1>6, Shapes, Constants DEF Children, Late
  <2> QED
    BY <1>6, <2>1, <2>2, FollowedKept
<1>8. Sent'
  BY <1>3, <1>6, SentSame
<1>9. TypeOK'
  <2>1. tracked' \subseteq Sends /\ meta' \subseteq Sends
    BY <1>4, TypesAre
  <2> QED
    BY <1>3, <1>5, <1>6, <2>1, TypesAre, NextTypeIs
<1> QED
  BY <1>6, <1>7, <1>8, <1>9 DEF Wellformed

LEMMA CountTyped ==
    ASSUME Wellformed, NEW r \in Sends, Count(r)
    PROVE  Wellformed'
<1>1. /\ sends[r].pc = "count" /\ Goto(r, "sent") /\ tx[r].from \in 1 .. boot.children
  BY PlacedIs DEF Count, At, PlacedAt
<1>2. UNCHANGED <<boot, lookup, tracked, meta, loop, tx, pool, mined>>
  BY DEF Count, network
<1>3. PICK a \in Children : a = tx[r].from
  BY <1>1, Shapes, Constants DEF Children
<1>4. redis' \in CountTable /\ redis'.pending = redis.pending
  <2>1. PICK d \in CountTable : d = redis
    BY TypesAre
  <2>2. PICK n \in Nat : n = d.count[a] + 1
    BY <2>1 DEF CountTable
  <2>3. redis' = [d EXCEPT !.count[a] = n]
    BY <1>3, <2>1, <2>2 DEF Count
  <2> QED
    BY <2>1, <2>3 DEF CountTable
<1>5. accounts' \in AccountTable
  <2>1. accounts \in AccountTable
    BY TypesAre
  <2>2. PICK n \in Nat : n = accounts[a].txCount + 1
    BY <2>1 DEF AccountTable
  <2>3. PICK p \in Nat : p = accounts[a].pendingCount + 1
    BY <2>1 DEF AccountTable
  <2>4. accounts' = [accounts EXCEPT ![a] = [txCount |-> n, pendingCount |-> p, locked |-> FALSE]]
    BY <1>3, <2>2, <2>3 DEF Count
  <2> QED
    BY <2>1, <2>4 DEF AccountTable
<1>6. /\ sends' \in [Sends -> Calls] /\ Keeps /\ Placed'
  <2>1. "sent" \in Pcs
    BY DEF Pcs
  <2> QED
    BY <1>1, <1>2, <2>1, OneCallMoves DEF Out, Late
<1>7. Followed'
  <2>1. Followees' \subseteq Followees
    BY <1>2, <1>4 DEF Followees, Settling
  <2> QED
    BY <1>6, <2>1, FollowedSame
<1>8. Sent'
  BY <1>2, <1>6, SentSame
<1>9. TypeOK'
  BY <1>2, <1>4, <1>5, <1>6, TypesAre, NextTypeIs
<1> QED
  BY <1>6, <1>7, <1>8, <1>9 DEF Wellformed

\* The start goes on: there may be more accounts, and calls may begin.
LEMMA PlacedBoot ==
    ASSUME Wellformed, UNCHANGED tx, boot'.children \in Nat, boot.children <= boot'.children,
           boot'.stage \in {"pending", "ready"} => boot'.children = NumChildren,
           \A s \in Sends : sends'[s] = sends[s] \/ sends'[s].pc \in {"init", "called", "failed"}
    PROVE  Placed'
<1>1. boot.children \in Nat
  BY Shapes
<1>2. ASSUME NEW s \in Sends
      PROVE  PlacedAt(sends[s], s)'
  <2>1. CASE sends'[s] = sends[s]
    <3>1. PlacedAt(sends[s], s) /\ sends[s].best \in Nat /\ tx[s].from \in Nat
      BY PlacedIs, CallIs
    <3> QED
      BY <1>1, <2>1, <3>1 DEF PlacedAt
  <2>2. CASE sends'[s].pc \in {"init", "called", "failed"}
    BY <2>2 DEF PlacedAt
  <2> QED
    BY <2>1, <2>2
<1> QED
  BY <1>2 DEF Placed, PlacedAt, At

LEMMA CallTyped ==
    ASSUME Wellformed, NEW r \in Sends, Call(r)
    PROVE  Wellformed'
<1>1. sends[r].pc = "idle"
  BY DEF Call, At
<1>2. PICK pc \in {"init", "called"} : Goto(r, pc)
  BY DEF Call
<1>3. UNCHANGED <<accounts, lookup, tracked, meta, loop, tx, redis, pool, mined>>
  BY DEF Call, network
<1>4. /\ boot' \in [stage : Stages, children : 0 .. NumChildren, hashes : SUBSET Sends]
      /\ boot'.children = boot.children /\ boot'.hashes = boot.hashes
      /\ boot'.stage \in {"pending", "ready"} => boot.stage \in {"pending", "ready"}
  BY TypesAre DEF Call, Stages
<1>5. PICK c \in Calls : sends' = [sends EXCEPT ![r] = c] /\ c.pc = pc
  <2>1. pc \in Pcs
    BY DEF Pcs
  <2> QED
    BY <1>2, <2>1, GotoIs
<1>6. Moves(r, c)
  BY <1>1, <1>5 DEF Moves, Out, Late
<1>7. /\ sends' \in [Sends -> Calls] /\ sends'[r] = c
      /\ \A s \in Sends \ {r} : sends'[s] = sends[s]
  BY <1>6, MovesIs
<1>8. Keeps
  BY <1>3, <1>6, MoveKeeps
<1>9. Placed'
  <2>1. boot.stage \in {"pending", "ready"} => boot.children = NumChildren
    BY DEF Wellformed, Placed
  <2>2. boot'.children \in Nat /\ boot.children <= boot'.children
    BY <1>4, Shapes
  <2> QED
    BY <1>3, <1>4, <1>5, <1>7, <2>1, <2>2, PlacedBoot
<1>10. Followed'
  <2>1. Followees' \subseteq Followees
    BY <1>3, <1>4 DEF Followees, Settling
  <2> QED
    BY <1>8, <2>1, FollowedSame
<1>11. Sent'
  BY <1>3, <1>8, SentSame
<1>12. TypeOK'
  BY <1>3, <1>4, <1>7, TypesAre, NextTypeIs
<1> QED
  BY <1>9, <1>10, <1>11, <1>12 DEF Wellformed

LEMMA InitAccountTyped ==
    ASSUME Wellformed, InitAccount
    PROVE  Wellformed'
<1>1. UNCHANGED <<lookup, tracked, meta, loop, sends, tx, pool, mined>>
  BY DEF InitAccount, network
<1>2. boot.children \in Nat /\ boot.children < NumChildren /\ boot.stage = "accounts"
  BY Shapes DEF InitAccount
<1>3. PICK a \in Children : a = boot.children + 1 /\ a \in 0 .. NumChildren
  BY <1>2, Constants DEF Children
<1>4. PICK n \in Nat : n = TxCount(a)
  BY TxCountIs DEF Wellformed
<1>5. accounts' \in AccountTable
  <2>1. PICK e : e = [NoAccount EXCEPT !.txCount = n]
    OBVIOUS
  <2>2. e \in [txCount : Nat, pendingCount : Nat, locked : BOOLEAN]
    BY <2>1 DEF NoAccount
  <2>3. accounts' = [accounts EXCEPT ![a] = e]
    BY <1>3, <1>4, <2>1 DEF InitAccount
  <2> QED
    BY <2>2, <2>3, TypesAre DEF AccountTable
<1>6. redis' \in CountTable /\ redis'.pending = redis.pending
  BY <1>3, RedisRaisedIs DEF Wellformed, CountTable, InitAccount
<1>7. /\ boot' \in [stage : Stages, children : 0 .. NumChildren, hashes : SUBSET Sends]
      /\ boot'.children = a /\ boot'.hashes = boot.hashes /\ boot'.stage = "accounts"
  <2>1. boot' = [boot EXCEPT !.children = a]
    BY <1>3 DEF InitAccount
  <2> QED
    BY <1>2, <1>3, <2>1, TypesAre
<1>8. Keeps
  BY <1>1, RestKeeps
<1>9. Placed'
  <2>1. boot'.children \in Nat /\ boot.children <= boot'.children
    BY <1>2, <1>3, <1>7
  <2> QED
    BY <1>1, <1>7, <2>1, PlacedBoot
<1>10. Followed'
  <2>1. Followees' \subseteq Followees
    BY <1>1, <1>6, <1>7 DEF Followees, Settling
  <2> QED
    BY <1>8, <2>1, FollowedSame
<1>11. Sent'
  BY <1>1, <1>8, SentSame
<1>12. TypeOK'
  BY <1>1, <1>5, <1>6, <1>7, TypesAre, NextTypeIs
<1> QED
  BY <1>9, <1>10, <1>11, <1>12 DEF Wellformed

\* Lists of hashes and the end of the start.
LEMMA BootTyped ==
    ASSUME Wellformed, ListPending \/ Ready
    PROVE  Wellformed'
<1>1. UNCHANGED <<accounts, lookup, tracked, meta, loop, tx, redis, pool, mined>>
  BY DEF ListPending, Ready, network
<1>2. /\ boot' \in [stage : Stages, children : 0 .. NumChildren, hashes : SUBSET Sends]
      /\ boot'.children = boot.children /\ boot.children = NumChildren
      /\ boot'.hashes \subseteq boot.hashes \cup redis.pending
  <2>1. CASE ListPending
    BY <2>1, TypesAre, Shapes DEF ListPending, Stages
  <2>2. CASE Ready
    BY <2>2, TypesAre DEF Ready, Stages, Wellformed, Placed
  <2> QED
    BY <2>1, <2>2
<1>3. /\ sends' \in [Sends -> Calls]
      /\ \A s \in Sends : sends'[s] = sends[s] \/ (sends[s].pc = "init" /\ sends'[s].pc = "called")
  <2>1. CASE ListPending
    BY <2>1, TypesAre DEF ListPending
  <2>2. CASE Ready
    <3>1. ASSUME NEW s \in Sends
          PROVE  /\ sends'[s] \in Calls
                 /\ sends'[s] = sends[s] \/ (sends[s].pc = "init" /\ sends'[s].pc = "called")
      <4>1. PICK d \in Calls : d = sends[s]
        BY TypesAre
      <4>2. sends'[s] = IF d.pc = "init" THEN [d EXCEPT !.pc = "called"] ELSE d
        BY <2>2, <4>1 DEF Ready, At
      <4>3. [d EXCEPT !.pc = "called"] \in Calls /\ [d EXCEPT !.pc = "called"].pc = "called"
        BY DEF Calls, Pcs
      <4> QED
        BY <4>1, <4>2, <4>3
    <3>2. DOMAIN sends' = Sends /\ sends' = [s \in Sends |-> sends'[s]]
      BY <2>2 DEF Ready
    <3> QED
      BY <3>1, <3>2
  <2> QED
    BY <2>1, <2>2
<1>4. Keeps
  BY <1>1, <1>3 DEF Keeps, Out, Late
<1>5. Placed'
  <2>1. boot'.children \in Nat /\ boot.children <= boot'.children
    BY <1>2, Shapes
  <2> QED
    BY <1>1, <1>2, <1>3, <2>1, PlacedBoot
<1>6. Followed'
  <2>1. Followees' \subseteq Followees
    BY <1>1, <1>2 DEF Followees, Settling
  <2> QED
    BY <1>4, <2>1, FollowedSame
<1>7. Sent'
  BY <1>1, <1>4, SentSame
<1>8. TypeOK'
  BY <1>1, <1>2, <1>3, TypesAre, NextTypeIs
<1> QED
  BY <1>5, <1>6, <1>7, <1>8 DEF Wellformed

LEMMA LoadTyped ==
    ASSUME Wellformed, NEW r \in Sends, LoadPending(r)
    PROVE  Wellformed'
<1>1. UNCHANGED <<lookup, meta, loop, sends, tx, redis, pool, mined>>
  BY DEF LoadPending, network
<1>2. r \in boot.hashes /\ tx[r].from \in Children /\ tracked' \subseteq tracked \cup {r}
  BY SentIs DEF LoadPending
<1>3. PICK a \in Children : a = tx[r].from
  BY <1>2
<1>4. accounts' \in AccountTable
  <2>1. accounts \in AccountTable
    BY TypesAre
  <2>2. PICK p \in Nat : p = accounts[a].pendingCount + 1
    BY <2>1 DEF AccountTable
  <2>3. accounts' = accounts \/ accounts' = [accounts EXCEPT ![a].pendingCount = p]
    BY <1>3, <2>2 DEF LoadPending, LoadCount
  <2> QED
    BY <2>1, <2>3 DEF AccountTable
<1>5. /\ boot' \in [stage : Stages, children : 0 .. NumChildren, hashes : SUBSET Sends]
      /\ boot'.children = boot.children /\ boot'.stage = boot.stage
      /\ boot'.hashes \subseteq boot.hashes
  <2>1. PICK b \in [stage : Stages, children : 0 .. NumChildren, hashes : SUBSET Sends] : b = boot
    BY TypesAre
  <2>2. boot' = [b EXCEPT !.hashes = b.hashes \ {r}]
    BY <2>1 DEF LoadPending
  <2> QED
    BY <2>1, <2>2
<1>6. Keeps
  BY <1>1, RestKeeps
<1>7. Placed'
  <2>1. boot.stage \in {"pending", "ready"} => boot.children = NumChildren
    BY DEF Wellformed, Placed
  <2>2. boot'.children \in Nat /\ boot.children <= boot'.children
    BY <1>5, Shapes
  <2> QED
    BY <1>1, <1>5, <2>1, <2>2, PlacedBoot
<1>8. Followed'
  <2>1. Followees' \subseteq Followees
    BY <1>1, <1>2, <1>5 DEF Followees, Settling
  <2> QED
    BY <1>6, <2>1, FollowedSame
<1>9. Sent'
  BY <1>1, <1>6, SentSame
<1>10. TypeOK'
  <2>1. tracked' \subseteq Sends
    BY <1>2, TypesAre
  <2> QED
    BY <1>1, <1>4, <1>5, <2>1, TypesAre, NextTypeIs
<1> QED
  BY <1>7, <1>8, <1>9, <1>10 DEF Wellformed

LEMMA CrashCalls ==
    ASSUME Wellformed, Crash
    PROVE  /\ sends' \in [Sends -> Calls]
           /\ \A s \in Sends : sends'[s] = sends[s] \/ sends'[s].pc = "failed"
           /\ \A s \in Sends : sends'[s].pc \in {"idle", "sent", "failed"}
<1>1. ASSUME NEW s \in Sends
      PROVE  /\ sends'[s] \in Calls /\ (sends'[s] = sends[s] \/ sends'[s].pc = "failed")
             /\ sends'[s].pc \in {"idle", "sent", "failed"}
  <2>1. PICK d \in Calls : d = sends[s]
    BY TypesAre
  <2>2. sends'[s] = IF d.pc \in {"idle", "sent", "failed"} THEN d ELSE [d EXCEPT !.pc = "failed"]
    BY <2>1 DEF Crash
  <2>3. [d EXCEPT !.pc = "failed"] \in Calls /\ [d EXCEPT !.pc = "failed"].pc = "failed"
    BY DEF Calls, Pcs
  <2> QED
    BY <2>1, <2>2, <2>3
<1>2. sends' = [s \in Sends |-> sends'[s]]
  BY DEF Crash
<1> QED
  BY <1>1, <1>2

LEMMA CrashTyped ==
    ASSUME Wellformed, Crash
    PROVE  Wellformed'
<1>1. /\ UNCHANGED <<tx, redis, pool, mined>>
      /\ accounts' = [a \in Children |-> NoAccount] /\ lookup' = FALSE
      /\ tracked' = {} /\ meta' = {}
  BY DEF Crash, network
<1>2. /\ boot'.stage = "none" /\ boot'.hashes = {}
      /\ boot' \in [stage : Stages, children : 0 .. NumChildren, hashes : SUBSET Sends]
  BY Constants DEF Crash, Down, Stages
<1>3. loop'.pc = "idle" /\ loop' \in [pc : {"idle", "callbacks", "adjust"}, tx : 0 .. MaxSends]
  BY Constants DEF Crash, Resting
<1>4. accounts' \in AccountTable
  BY <1>1 DEF AccountTable, NoAccount
<1>5. Keeps
  BY <1>1, CrashCalls DEF Keeps, Out, Late
<1>6. Placed'
  BY <1>2, CrashCalls DEF Placed, At
<1>7. Followed'
  <2>1. Followees' \subseteq Followees
    BY <1>1, <1>2, <1>3 DEF Followees, Settling
  <2> QED
    BY <1>5, <2>1, FollowedSame
<1>8. Sent'
  BY <1>1, <1>5, SentSame
<1>9. TypeOK'
  BY <1>1, <1>2, <1>3, <1>4, CrashCalls, TypesAre, NextTypeIs
<1> QED
  BY <1>6, <1>7, <1>8, <1>9 DEF Wellformed

\* The loop and the sweep of locks.
LEMMA LoopMoves ==
    ASSUME Wellformed, UNCHANGED <<boot, lookup, sends, tx, pool, mined>>,
           accounts' \in AccountTable, redis' \in CountTable,
           loop' \in [pc : {"idle", "callbacks", "adjust"}, tx : 0 .. MaxSends],
           tracked' \subseteq tracked, meta' \subseteq meta, redis'.pending \subseteq redis.pending,
           Settling' \subseteq Settling \cup tracked
    PROVE  Wellformed'
<1>1. Keeps
  BY RestKeeps
<1>2. Placed'
  BY PlacedRest
<1>3. Followed'
  <2>1. Followees' \subseteq Followees
    BY DEF Followees
  <2> QED
    BY <1>1, <2>1, FollowedSame
<1>4. Sent'
  BY <1>1, SentSame
<1>5. TypeOK'
  <2>1. tracked' \subseteq Sends /\ meta' \subseteq Sends
    BY TypesAre
  <2> QED
    BY <2>1, TypesAre, NextTypeIs
<1> QED
  BY <1>2, <1>3, <1>4, <1>5 DEF Wellformed

LEMMA LoopTyped ==
    ASSUME Wellformed, NEW r \in Sends, SeeReceipt(r) \/ RemovePending(r) \/ Adjust(r)
    PROVE  Wellformed'
<1>1. r \in 0 .. MaxSends
  BY Constants DEF Sends
<1>2. UNCHANGED <<boot, lookup, sends, tx, pool, mined>>
  BY DEF SeeReceipt, RemovePending, Adjust, network
<1>3. /\ loop' \in [pc : {"idle", "callbacks", "adjust"}, tx : 0 .. MaxSends]
      /\ Settling' \subseteq Settling \cup tracked
  <2>1. CASE SeeReceipt(r)
    BY <1>1, <2>1 DEF SeeReceipt, Settling
  <2>2. CASE RemovePending(r)
    BY <1>1, <2>2 DEF RemovePending, Settling
  <2>3. CASE Adjust(r)
    BY <1>1, <2>3, Constants DEF Adjust, Settling, Resting
  <2> QED
    BY <2>1, <2>2, <2>3
<1>4. tracked' \subseteq tracked /\ meta' \subseteq meta
  BY DEF SeeReceipt, RemovePending, Adjust
<1>5. redis' \in CountTable /\ redis'.pending \subseteq redis.pending
  <2>1. PICK d \in CountTable : d = redis
    BY TypesAre
  <2>2. redis' = d \/ redis' = [d EXCEPT !.pending = d.pending \ {r}, !.raw = d.raw \ {r}]
    BY <2>1 DEF SeeReceipt, RemovePending, Adjust
  <2> QED
    BY <2>1, <2>2 DEF CountTable
<1>6. accounts' \in AccountTable
  <2>1. CASE Adjust(r)
    <3>1. r \in Settling
      BY <2>1 DEF Adjust, Settling
    <3>2. PICK a \in Children : a = tx[r].from
      BY <3>1, SentIs
    <3>3. accounts \in AccountTable /\ accounts[a].pendingCount \in Nat
      BY TypesAre DEF AccountTable
    <3>4. PICK n \in Nat : n = Lower(accounts[a].pendingCount)
      BY <3>3 DEF Lower
    <3>5. accounts' = [accounts EXCEPT ![a].pendingCount = n]
      BY <2>1, <3>2, <3>4 DEF Adjust
    <3> QED
      BY <3>3, <3>5 DEF AccountTable
  <2>2. CASE accounts' = accounts
    BY <2>2, TypesAre
  <2> QED
    BY <2>1, <2>2 DEF SeeReceipt, RemovePending
<1> QED
  BY <1>2, <1>3, <1>4, <1>5, <1>6, LoopMoves

LEMMA SweepTyped ==
    ASSUME Wellformed, NEW a \in Children, SweepLock(a)
    PROVE  Wellformed'
<1>1. UNCHANGED <<boot, lookup, tracked, meta, loop, sends, tx, redis, pool, mined>>
  BY DEF SweepLock, network
<1>2. accounts' \in AccountTable
  <2>1. accounts' = [accounts EXCEPT ![a].locked = FALSE]
    BY DEF SweepLock
  <2> QED
    BY <2>1, TypesAre DEF AccountTable
<1>3. Settling' = Settling
  BY <1>1 DEF Settling
<1> QED
  BY <1>1, <1>2, <1>3, LoopMoves, TypesAre

LEMMA PurseStarts == Init => Wellformed
<1> SUFFICES ASSUME Init
             PROVE  Wellformed
  OBVIOUS
<1>1. TypeOK
  <2>1. /\ accounts \in AccountTable /\ redis \in CountTable
    BY DEF Init, NoAccount, AccountTable, CountTable
  <2>2. Idle \in Calls /\ NoTx \in [from : 0 .. NumChildren, nonce : Nat]
    BY Constants DEF Idle, NoTx, Calls, Pcs
  <2>3. loop \in [pc : {"idle", "callbacks", "adjust"}, tx : 0 .. MaxSends]
    BY Constants DEF Init, Resting
  <2>4. boot \in [stage : Stages, children : 0 .. NumChildren, hashes : SUBSET Sends]
    BY Constants DEF Init, Down, Stages
  <2> QED
    BY <2>1, <2>2, <2>3, <2>4, TypeIs DEF Init
<1>2. Placed /\ Followed /\ Sent
  BY DEF Init, Placed, At, Idle, Followed, Sent, Settling, Resting, Down
<1> QED
  BY <1>1, <1>2 DEF Wellformed

\* Whatever the purse does, and whatever requests are refused.
LEMMA PurseStepTyped ==
    ASSUME Wellformed, PurseStep \/ UNCHANGED purse
    PROVE  Wellformed'
<1>1. CASE UNCHANGED purse
  BY <1>1 DEF purse, memory, network, Wellformed, TypeOK, Placed, At, Followed, Sent, Settling
<1>2. ASSUME NEW r \in Sends, Call(r) \/ Sending(r) \/ Processing(r) \/ Mine(r) \/ Drop(r) \/ Refusal(r)
      PROVE  Wellformed'
  BY <1>2, CallTyped, QuietMoves, ConsiderTyped, SelectTyped, SignTyped, SendTyped, TrackTyped,
     CountTyped, LoopTyped, NodeTyped DEF Sending, Processing
<1>3. CASE Booting \/ Crash \/ \E a \in Children : SweepLock(a)
  BY <1>3, InitAccountTyped, BootTyped, LoadTyped, CrashTyped, SweepTyped DEF Booting
<1> QED
  BY <1>1, <1>2, <1>3 DEF PurseStep, Next

(* Calls, accounts, transactions and what Redis and the node hold keep their types, and refer
   to accounts that exist and transactions that were made: with any number of accounts and
   calls, dropped transactions and restarts between any two awaits. *)
THEOREM PurseTypeCorrect == Spec => []TypeOK
<1>1. Wellformed /\ [Next]_purse => Wellformed'
  BY PurseStepTyped DEF PurseStep
<1>2. Wellformed => TypeOK
  BY DEF Wellformed
<1> QED
  BY <1>1, <1>2, PurseStarts, PTL DEF Spec

-----------------------------------------------------------------------------
(* Counts of pending transactions *)

\* What the purse follows, or has ceased to follow and not yet counted as mined.
Owed == tracked \cup (IF loop.pc = "adjust" THEN {loop.tx} ELSE {})

CountedAt(a) ==
    Cardinality(Of(a, Owed)) <= accounts[a].pendingCount + Cardinality(Uncounted(a))
Counted == \A a \in Children : CountedAt(a)

\* The loop works after the start only, on a transaction that it stops following once.
LoopKnown ==
    /\ loop.pc # "idle" => boot.stage = "ready"
    /\ loop.pc = "callbacks" => loop.tx \in tracked
    /\ loop.pc = "adjust" => loop.tx \notin tracked

\* An account that has not been created yet has nothing pending.
InReach == \A r \in Owed : tx[r].from \in 1 .. boot.children

CountInv == Counted /\ LoopKnown /\ InReach

Counting == {"raw", "count"}

LEMMA OwedIs ==
    ASSUME Wellformed
    PROVE  /\ Owed \subseteq Sends
           /\ \A r \in Owed : tx[r].from \in Children /\ sends[r].pc \in Late
BY SentIs DEF Owed, Settling

LEMMA CountsAre ==
    ASSUME Wellformed, NEW a \in Children
    PROVE  /\ IsFiniteSet(Of(a, Owed)) /\ Cardinality(Of(a, Owed)) \in Nat
           /\ Uncounted(a) \subseteq Sends
           /\ IsFiniteSet(Uncounted(a)) /\ Cardinality(Uncounted(a)) \in Nat
           /\ accounts[a].pendingCount \in Nat
<1>1. accounts[a].pendingCount \in Nat
  BY TypesAre DEF AccountTable
<1>2. Uncounted(a) \subseteq Sends
  BY DEF Uncounted
<1>3. IsFiniteSet(Uncounted(a)) /\ Cardinality(Uncounted(a)) \in Nat
  BY <1>2, Constants, CountSame
<1> QED
  BY <1>1, <1>2, <1>3, OwedIs, OfIs

\* Neither transactions become more nor counts and calls fewer.
LEMMA CountKept ==
    ASSUME Wellformed, Wellformed', Counted, Keeps, Owed' \subseteq Owed,
           \A s \in Sends : sends[s].pc \in Counting => sends'[s].pc \in Counting,
           \A a \in Children : accounts[a].pendingCount <= accounts'[a].pendingCount
    PROVE  Counted'
<1> SUFFICES ASSUME NEW a \in Children
             PROVE  CountedAt(a)'
  BY DEF Counted
<1>1. Of(a, Owed)' \subseteq Of(a, Owed)
  BY OwedIs DEF Of, Keeps, Late, Out
<1>2. Uncounted(a) \subseteq Uncounted(a)'
  BY DEF Uncounted, Counting, Keeps, Out
<1>3. /\ IsFiniteSet(Of(a, Owed)) /\ Cardinality(Of(a, Owed)) \in Nat
      /\ Cardinality(Uncounted(a)) \in Nat /\ accounts[a].pendingCount \in Nat
  BY CountsAre
<1>4. /\ IsFiniteSet(Uncounted(a)') /\ Cardinality(Uncounted(a)') \in Nat
      /\ accounts'[a].pendingCount \in Nat
  <2>1. Uncounted(a)' \subseteq Sends
    BY DEF Uncounted
  <2>2. IsFiniteSet(Uncounted(a)') /\ Cardinality(Uncounted(a)') \in Nat
    BY <2>1, Constants, CountSame
  <2>3. accounts' \in AccountTable
    BY DEF Wellformed, TypeOK, AccountTable
  <2> QED
    BY <2>2, <2>3 DEF AccountTable
<1>5. /\ Cardinality(Of(a, Owed)') \in Nat
      /\ Cardinality(Of(a, Owed)') <= Cardinality(Of(a, Owed))
  BY <1>1, <1>3, CountSame
<1>6. Cardinality(Uncounted(a)) <= Cardinality(Uncounted(a)')
  BY <1>2, <1>4, CountSame
<1>7. CountedAt(a) /\ accounts[a].pendingCount <= accounts'[a].pendingCount
  BY DEF Counted
<1> QED
  BY <1>3, <1>4, <1>5, <1>6, <1>7 DEF CountedAt

\* Steps that leave counts, what is followed and the loop alone.
LEMMA QuietCounts ==
    ASSUME Wellformed, Wellformed', CountInv, Keeps, UNCHANGED <<tracked, loop>>,
           boot'.children = boot.children, boot.stage = "ready" => boot'.stage = "ready",
           \A s \in Sends : sends[s].pc \in Counting => sends'[s].pc \in Counting,
           \A a \in Children : accounts'[a].pendingCount = accounts[a].pendingCount
    PROVE  CountInv'
<1>1. Owed' = Owed
  BY DEF Owed
<1>2. Counted'
  <2>1. \A a \in Children : accounts[a].pendingCount <= accounts'[a].pendingCount
    BY CountsAre
  <2> QED
    BY <1>1, <2>1, CountKept DEF CountInv
<1>3. LoopKnown'
  BY DEF CountInv, LoopKnown
<1>4. InReach'
  BY <1>1, OwedIs DEF CountInv, InReach, Keeps, Late, Out
<1> QED
  BY <1>2, <1>3, <1>4 DEF CountInv

\* What a step of a call says of the other calls.
LEMMA GotoKeeps ==
    ASSUME Wellformed, NEW r \in Sends, NEW pc \in Pcs, Goto(r, pc),
           sends[r].pc \in Out => pc \in Out, sends[r].pc \in Late => pc \in Late,
           sends[r].pc \in Counting => pc \in Counting,
           \A s \in Sends : (s = r /\ sends[r].pc \notin Out) \/ tx'[s] = tx[s]
    PROVE  /\ Keeps
           /\ \A s \in Sends : sends[s].pc \in Counting => sends'[s].pc \in Counting
<1>1. PICK c \in Calls : sends' = [sends EXCEPT ![r] = c] /\ c.pc = pc
  BY GotoIs
<1>2. Moves(r, c)
  BY <1>1 DEF Moves
<1>3. Keeps
  BY <1>2, MoveKeeps
<1>4. sends'[r] = c /\ \A s \in Sends \ {r} : sends'[s] = sends[s]
  BY <1>2, MovesIs
<1> QED
  BY <1>1, <1>3, <1>4

LEMMA CallCounts ==
    ASSUME Wellformed, Wellformed', CountInv, NEW r \in Sends,
           Call(r) \/ SendTx(r) \/ Timeout(r) \/ Sign(r) \/ GasTooHigh(r) \/ Send(r)
             \/ SaveRaw(r) \/ Refusal(r)
    PROVE  CountInv'
<1>1. PICK pc \in {"init", "called", "waiting", "failed", "send", "track", "count"} :
          /\ Goto(r, pc)
          /\ sends[r].pc \in Out => pc \in Out
          /\ sends[r].pc \in Late => pc \in Late
          /\ sends[r].pc \in Counting => pc \in Counting
  BY DEF Call, SendTx, Timeout, Sign, GasTooHigh, Send, SaveRaw, Refusal, At, Goto, Out, Late, Counting
<1>2. pc \in Pcs
  BY DEF Pcs
<1>3. \A s \in Sends : (s = r /\ sends[r].pc \notin Out) \/ tx'[s] = tx[s]
  <2>1. CASE Sign(r)
    BY <2>1, TypesAre DEF Sign, At, Out
  <2>2. CASE UNCHANGED tx
    BY <2>2
  <2> QED
    BY <2>1, <2>2 DEF Call, SendTx, Timeout, GasTooHigh, Send, SaveRaw, Refusal
<1>4. /\ UNCHANGED <<tracked, loop, accounts>> /\ boot'.children = boot.children
      /\ boot.stage = "ready" => boot'.stage = "ready"
  <2>1. CASE Call(r)
    BY <2>1, TypesAre DEF Call
  <2>2. CASE ~Call(r)
    BY <2>2 DEF SendTx, Timeout, Sign, GasTooHigh, Send, SaveRaw, Refusal, memory
  <2> QED
    BY <2>1, <2>2
<1>5. /\ Keeps /\ \A s \in Sends : sends[s].pc \in Counting => sends'[s].pc \in Counting
  BY <1>1, <1>2, <1>3, GotoKeeps
<1> QED
  BY <1>4, <1>5, QuietCounts

LEMMA LookCounts ==
    ASSUME Wellformed, Wellformed', CountInv, NEW r \in Sends,
           LookUp(r) \/ Consider(r) \/ Select(r)
    PROVE  CountInv'
<1>1. sends[r].pc \notin Out \cup Late \cup Counting
  BY DEF LookUp, Consider, Select, At, Out, Late, Counting
<1>2. UNCHANGED <<tx, boot, tracked, loop>>
  BY DEF LookUp, Consider, Select
<1>3. \A s \in Sends : s # r => sends'[s] = sends[s]
  BY TypesAre DEF LookUp, Consider, Select, Goto
<1>4. \A a \in Children : accounts'[a].pendingCount = accounts[a].pendingCount
  <2>1. \/ accounts' = accounts
        \/ \E a : accounts' = [accounts EXCEPT ![a].locked = TRUE]
    BY DEF LookUp, Consider, Select
  <2> QED
    BY <2>1, TypesAre DEF AccountTable
<1>5. /\ Keeps /\ \A s \in Sends : sends[s].pc \in Counting => sends'[s].pc \in Counting
  BY <1>1, <1>2, <1>3 DEF Keeps
<1> QED
  BY <1>2, <1>4, <1>5, QuietCounts

LEMMA RestCounts ==
    ASSUME Wellformed, Wellformed', CountInv,
           \/ ListPending \/ Ready \/ \E r \in Sends : Mine(r) \/ Drop(r) \/ Rebroadcast(r)
           \/ \E a \in Children : SweepLock(a)
           \/ UNCHANGED purse
    PROVE  CountInv'
<1>1. /\ UNCHANGED <<tx, tracked, loop>> /\ boot'.children = boot.children
      /\ boot.stage = "ready" => boot'.stage = "ready"
  BY TypesAre DEF ListPending, Ready, Mine, Drop, Rebroadcast, SweepLock, purse, memory
<1>2. \A s \in Sends : sends'[s] = sends[s] \/ (sends[s].pc = "init" /\ sends'[s].pc = "called")
  <2>1. CASE Ready
    <3>1. ASSUME NEW s \in Sends
          PROVE  sends'[s] = sends[s] \/ (sends[s].pc = "init" /\ sends'[s].pc = "called")
      <4>1. PICK d \in Calls : d = sends[s]
        BY TypesAre
      <4>2. sends'[s] = IF d.pc = "init" THEN [d EXCEPT !.pc = "called"] ELSE d
        BY <2>1, <4>1 DEF Ready, At
      <4>3. [d EXCEPT !.pc = "called"].pc = "called"
        BY DEF Calls
      <4> QED
        BY <4>1, <4>2, <4>3
    <3> QED
      BY <3>1
  <2>2. CASE ~Ready
    BY <2>2 DEF ListPending, Mine, Drop, Rebroadcast, SweepLock, purse
  <2> QED
    BY <2>1, <2>2
<1>3. \A a \in Children : accounts'[a].pendingCount = accounts[a].pendingCount
  BY TypesAre DEF ListPending, Ready, Mine, Drop, Rebroadcast, SweepLock, purse, memory, AccountTable
<1>4. /\ Keeps /\ \A s \in Sends : sends[s].pc \in Counting => sends'[s].pc \in Counting
  BY <1>1, <1>2 DEF Keeps, Out, Late, Counting
<1> QED
  BY <1>1, <1>3, <1>4, QuietCounts

LEMMA ReceiptCounts ==
    ASSUME Wellformed, Wellformed', CountInv, NEW r \in Sends, SeeReceipt(r) \/ RemovePending(r)
    PROVE  CountInv'
<1>1. UNCHANGED <<boot, accounts, sends, tx>>
  BY DEF SeeReceipt, RemovePending
<1>2. Owed' \subseteq Owed /\ LoopKnown'
  <2>1. CASE SeeReceipt(r)
    BY <2>1 DEF SeeReceipt, Looping, Resting, Owed, CountInv, LoopKnown
  <2>2. CASE RemovePending(r)
    <3>1. loop.pc = "callbacks" /\ loop.tx = r /\ r \in tracked
      BY <2>2 DEF RemovePending, CountInv, LoopKnown
    <3> QED
      BY <2>2, <3>1 DEF RemovePending, Owed, CountInv, LoopKnown
  <2> QED
    BY <2>1, <2>2
<1>3. Keeps
  BY <1>1, RestKeeps
<1>4. Counted'
  BY <1>1, <1>2, <1>3, CountKept, CountsAre DEF CountInv
<1>5. InReach'
  BY <1>1, <1>2 DEF CountInv, InReach
<1> QED
  BY <1>2, <1>4, <1>5 DEF CountInv

\* A transaction that has been mined is counted down once it is followed no more.
LEMMA AdjustCounts ==
    ASSUME Wellformed, Wellformed', CountInv, NEW r \in Sends, Adjust(r)
    PROVE  CountInv'
<1>1. /\ UNCHANGED <<boot, tracked, sends, tx>> /\ loop.pc = "adjust" /\ loop.tx = r
      /\ loop'.pc = "idle" /\ r \notin tracked
  BY DEF Adjust, Resting, CountInv, LoopKnown
<1>2. Owed' = Owed \ {r} /\ r \in Owed
  BY <1>1 DEF Owed
<1>3. PICK b \in Children : b = tx[r].from
  BY <1>2, OwedIs
<1>4. /\ accounts'[b].pendingCount = Lower(accounts[b].pendingCount)
      /\ \A a \in Children \ {b} : accounts'[a].pendingCount = accounts[a].pendingCount
  <2>1. accounts' = [accounts EXCEPT ![b].pendingCount = Lower(accounts[b].pendingCount)]
    BY <1>3 DEF Adjust
  <2> QED
    BY <2>1, TypesAre DEF AccountTable
<1>5. ASSUME NEW a \in Children
      PROVE  CountedAt(a)'
  <2>1. Uncounted(a)' = Uncounted(a)
    BY <1>1 DEF Uncounted
  <2>2. /\ IsFiniteSet(Of(a, Owed)) /\ Cardinality(Of(a, Owed)) \in Nat
        /\ Cardinality(Uncounted(a)) \in Nat /\ accounts[a].pendingCount \in Nat
        /\ CountedAt(a)
    BY CountsAre DEF CountInv, Counted
  <2>3. CASE a = b
    <3>1. Of(a, Owed)' \subseteq Of(a, Owed) \ {r} /\ r \in Of(a, Owed)
      BY <1>1, <1>2, <1>3, <2>3, OwedIs DEF Of
    <3>2. /\ Cardinality(Of(a, Owed)') \in Nat
          /\ Cardinality(Of(a, Owed)') <= Cardinality(Of(a, Owed)) - 1
      BY <2>2, <3>1, CountDown
    <3>3. accounts[a].pendingCount - 1 <= accounts'[a].pendingCount /\ accounts'[a].pendingCount \in Nat
      BY <1>4, <2>2, <2>3 DEF Lower
    <3> QED
      BY <2>1, <2>2, <3>2, <3>3 DEF CountedAt
  <2>4. CASE a # b
    <3>1. Of(a, Owed)' \subseteq Of(a, Owed)
      BY <1>1, <1>2 DEF Of
    <3>2. Cardinality(Of(a, Owed)') \in Nat /\ Cardinality(Of(a, Owed)') <= Cardinality(Of(a, Owed))
      BY <2>2, <3>1, CountSame
    <3> QED
      BY <1>4, <2>1, <2>2, <2>4, <3>2 DEF CountedAt
  <2> QED
    BY <2>3, <2>4
<1>6. LoopKnown' /\ InReach'
  BY <1>1, <1>2 DEF LoopKnown, InReach, CountInv
<1> QED
  BY <1>5, <1>6 DEF CountInv, Counted

\* An account whose count, calls and transactions stay as they are.
LEMMA OtherCounted ==
    ASSUME Wellformed, Wellformed', Counted, NEW a \in Children,
           Of(a, Owed)' \subseteq Of(a, Owed), Uncounted(a)' = Uncounted(a),
           accounts'[a].pendingCount = accounts[a].pendingCount
    PROVE  CountedAt(a)'
<1>1. /\ IsFiniteSet(Of(a, Owed)) /\ Cardinality(Of(a, Owed)) \in Nat
      /\ Cardinality(Uncounted(a)) \in Nat /\ accounts[a].pendingCount \in Nat
  BY CountsAre
<1>2. Cardinality(Of(a, Owed)') \in Nat /\ Cardinality(Of(a, Owed)') <= Cardinality(Of(a, Owed))
  BY <1>1, CountSame
<1>3. CountedAt(a)
  BY DEF Counted
<1> QED
  BY <1>1, <1>2, <1>3 DEF CountedAt

LEMMA UncountedIs ==
    ASSUME Wellformed', NEW a \in Children
    PROVE  IsFiniteSet(Uncounted(a)') /\ Cardinality(Uncounted(a)') \in Nat
<1>1. Uncounted(a)' \subseteq Sends
  BY DEF Uncounted
<1> QED
  BY <1>1, Constants, CountSame

\* A transaction is followed from the moment its call counts as uncounted ...
LEMMA TrackCounts ==
    ASSUME Wellformed, Wellformed', CountInv, NEW r \in Sends, Track(r)
    PROVE  CountInv'
<1>1. /\ sends[r].pc = "track" /\ sends'[r].pc = "raw" /\ tracked' = tracked \cup {r}
      /\ \A s \in Sends \ {r} : sends'[s] = sends[s]
      /\ UNCHANGED <<tx, boot, loop, accounts>>
  BY TypesAre DEF Track, At, Goto, Calls
<1>2. /\ tx[r].from \in 1 .. boot.children
  BY <1>1, PlacedIs DEF PlacedAt
<1>3. PICK b \in Children : b = tx[r].from
  BY <1>2, Shapes, Constants DEF Children
<1>4. r \notin tracked \cup Settling
  BY <1>1, SentIs DEF Late
<1>5. Owed' = Owed \cup {r}
  BY <1>1 DEF Owed
<1>6. ASSUME NEW a \in Children
      PROVE  CountedAt(a)'
  <2>1. /\ IsFiniteSet(Of(a, Owed)) /\ Cardinality(Of(a, Owed)) \in Nat
        /\ Cardinality(Uncounted(a)) \in Nat /\ accounts[a].pendingCount \in Nat
        /\ CountedAt(a)
    BY CountsAre DEF CountInv, Counted
  <2>2. CASE a = b
    <3>1. Of(a, Owed)' \subseteq Of(a, Owed) \cup {r}
      BY <1>1, <1>5 DEF Of
    <3>2. /\ Cardinality(Of(a, Owed)') \in Nat
          /\ Cardinality(Of(a, Owed)') <= Cardinality(Of(a, Owed)) + 1
      BY <2>1, <3>1, CountUp
    <3>3. r \in Uncounted(a)' /\ Uncounted(a) \subseteq Uncounted(a)' \ {r}
      BY <1>1, <1>3, <2>2 DEF Uncounted
    <3>4. IsFiniteSet(Uncounted(a)') /\ Cardinality(Uncounted(a)') \in Nat
      BY UncountedIs
    <3>5. Cardinality(Uncounted(a)) <= Cardinality(Uncounted(a)') - 1
      BY <3>3, <3>4, CountDown
    <3> QED
      BY <1>1, <2>1, <3>2, <3>4, <3>5 DEF CountedAt
  <2>3. CASE a # b
    <3>1. Of(a, Owed)' \subseteq Of(a, Owed)
      BY <1>1, <1>3, <1>5, <2>3 DEF Of
    <3>2. Uncounted(a)' = Uncounted(a)
      BY <1>1, <1>3, <2>3 DEF Uncounted
    <3> QED
      BY <1>1, <3>1, <3>2, OtherCounted DEF CountInv
  <2> QED
    BY <2>2, <2>3
<1>7. LoopKnown'
  BY <1>1, <1>4 DEF CountInv, LoopKnown, Settling
<1>8. InReach'
  BY <1>1, <1>2, <1>5 DEF CountInv, InReach
<1> QED
  BY <1>6, <1>7, <1>8 DEF CountInv, Counted

\* ... until its account counts it.
LEMMA CountCounts ==
    ASSUME Wellformed, Wellformed', CountInv, NEW r \in Sends, Count(r)
    PROVE  CountInv'
<1>1. /\ sends[r].pc = "count"
      /\ \A s \in Sends \ {r} : sends'[s] = sends[s]
      /\ UNCHANGED <<tx, boot, loop, tracked>>
  BY TypesAre DEF Count, At, Goto
<1>2. tx[r].from \in 1 .. boot.children
  BY <1>1, PlacedIs DEF PlacedAt
<1>3. PICK b \in Children : b = tx[r].from
  BY <1>2, Shapes, Constants DEF Children
<1>4. Owed' = Owed /\ \A a : Of(a, Owed)' = Of(a, Owed)
  BY <1>1 DEF Owed, Of
<1>5. /\ accounts'[b].pendingCount = accounts[b].pendingCount + 1
      /\ \A a \in Children \ {b} : accounts'[a].pendingCount = accounts[a].pendingCount
  <2>1. PICK e : e = [txCount |-> accounts[b].txCount + 1,
                      pendingCount |-> accounts[b].pendingCount + 1, locked |-> FALSE]
    OBVIOUS
  <2>2. accounts' = [accounts EXCEPT ![b] = e]
    BY <1>3, <2>1 DEF Count
  <2> QED
    BY <2>1, <2>2, TypesAre DEF AccountTable
<1>6. ASSUME NEW a \in Children
      PROVE  CountedAt(a)'
  <2>1. /\ IsFiniteSet(Of(a, Owed)) /\ Cardinality(Of(a, Owed)) \in Nat
        /\ Cardinality(Uncounted(a)) \in Nat /\ accounts[a].pendingCount \in Nat
        /\ CountedAt(a)
    BY CountsAre DEF CountInv, Counted
  <2>2. CASE a = b
    <3>1. Uncounted(a) \subseteq Uncounted(a)' \cup {r}
      BY <1>1 DEF Uncounted
    <3>2. IsFiniteSet(Uncounted(a)') /\ Cardinality(Uncounted(a)') \in Nat
      BY UncountedIs
    <3>3. Cardinality(Uncounted(a)) <= Cardinality(Uncounted(a)') + 1
      BY <3>1, <3>2, CountUp
    <3> QED
      BY <1>4, <1>5, <2>1, <2>2, <3>2, <3>3 DEF CountedAt
  <2>3. CASE a # b
    <3>1. Uncounted(a)' = Uncounted(a)
      <4>1. \A s \in Sends : tx[s].from = a => s # r
        BY <1>3, <2>3
      <4> QED
        BY <1>1, <4>1 DEF Uncounted
    <3> QED
      BY <1>4, <1>5, <2>3, <3>1, OtherCounted DEF CountInv
  <2> QED
    BY <2>2, <2>3
<1>7. LoopKnown' /\ InReach'
  BY <1>1, <1>4 DEF CountInv, LoopKnown, InReach
<1> QED
  BY <1>6, <1>7 DEF CountInv, Counted

\* What Redis brings back is counted with it.
LEMMA LoadCounts ==
    ASSUME Wellformed, Wellformed', CountInv, NEW r \in Sends, LoadPending(r)
    PROVE  CountInv'
<1>1. UNCHANGED <<sends, tx, loop>> /\ boot'.children = boot.children /\ boot'.stage = "pending"
      /\ boot.stage = "pending"
  BY TypesAre DEF LoadPending
<1>2. PICK b \in Children : b = tx[r].from
  BY SentIs DEF LoadPending
<1>3. loop.pc = "idle" /\ Owed = tracked /\ Owed' = tracked'
  BY <1>1, Shapes DEF CountInv, LoopKnown, Owed
<1>4. /\ \A a \in Children \ {b} : accounts'[a].pendingCount = accounts[a].pendingCount
      /\ \/ Owed' = Owed /\ accounts'[b].pendingCount = accounts[b].pendingCount
         \/ Owed' = Owed \cup {r} /\ accounts'[b].pendingCount = accounts[b].pendingCount + 1
  <2>1. \/ tracked' = tracked /\ accounts' = accounts
        \/ /\ tracked' = tracked \cup {r}
           /\ accounts' = [accounts EXCEPT ![b].pendingCount = accounts[b].pendingCount + 1]
    BY <1>2 DEF LoadPending, LoadCount
  <2> QED
    BY <1>3, <2>1, TypesAre DEF AccountTable
<1>5. ASSUME NEW a \in Children
      PROVE  CountedAt(a)'
  <2>1. /\ IsFiniteSet(Of(a, Owed)) /\ Cardinality(Of(a, Owed)) \in Nat
        /\ Cardinality(Uncounted(a)) \in Nat /\ accounts[a].pendingCount \in Nat
        /\ CountedAt(a)
    BY CountsAre DEF CountInv, Counted
  <2>2. Uncounted(a)' = Uncounted(a)
    BY <1>1 DEF Uncounted
  <2>3. CASE a = b /\ Owed' = Owed \cup {r}
                   /\ accounts'[b].pendingCount = accounts[b].pendingCount + 1
    <3>1. Of(a, Owed)' \subseteq Of(a, Owed) \cup {r}
      BY <1>1, <2>3 DEF Of
    <3>2. /\ Cardinality(Of(a, Owed)') \in Nat
          /\ Cardinality(Of(a, Owed)') <= Cardinality(Of(a, Owed)) + 1
      BY <2>1, <3>1, CountUp
    <3> QED
      BY <2>1, <2>2, <2>3, <3>2 DEF CountedAt
  <2>4. CASE Owed' = Owed /\ accounts'[a].pendingCount = accounts[a].pendingCount
    <3>1. Of(a, Owed)' = Of(a, Owed)
      BY <1>1, <2>4 DEF Of
    <3> QED
      BY <2>2, <2>4, <3>1, OtherCounted DEF CountInv
  <2>5. CASE a # b /\ Owed' \subseteq Owed \cup {r}
    <3>1. Of(a, Owed)' \subseteq Of(a, Owed)
      BY <1>1, <1>2, <2>5 DEF Of
    <3> QED
      BY <1>4, <2>2, <2>5, <3>1, OtherCounted DEF CountInv
  <2> QED
    BY <1>4, <2>3, <2>4, <2>5
<1>6. LoopKnown'
  BY <1>1, <1>3 DEF LoopKnown
<1>7. InReach'
  <2>1. boot.children = NumChildren
    BY <1>1 DEF Wellformed, Placed
  <2> QED
    BY <1>1, <1>2, <1>4, <2>1 DEF CountInv, InReach, Children
<1> QED
  BY <1>5, <1>6, <1>7 DEF CountInv, Counted

LEMMA InitCounts ==
    ASSUME Wellformed, Wellformed', CountInv, InitAccount
    PROVE  CountInv'
<1>1. UNCHANGED <<tracked, loop, sends, tx>> /\ boot.stage = "accounts"
  BY DEF InitAccount
<1>2. PICK b \in Children : b = boot.children + 1 /\ boot.children \in Nat
  BY Shapes, Constants DEF InitAccount, Children
<1>3. boot'.children = b
  BY <1>2, TypesAre DEF InitAccount
<1>4. \A a \in Children \ {b} : accounts'[a] = accounts[a]
  BY <1>2, TypesAre DEF InitAccount, AccountTable
<1>5. Owed' = Owed /\ (\A a : Of(a, Owed)' = Of(a, Owed)) /\ \A a : Uncounted(a)' = Uncounted(a)
  BY <1>1 DEF Owed, Of, Uncounted
<1>6. ASSUME NEW a \in Children
      PROVE  CountedAt(a)'
  <2>1. CASE a = b
    <3>1. Of(a, Owed)' = {}
      BY <1>2, <1>5, <2>1 DEF CountInv, InReach, Of
    <3>2. Cardinality(Of(a, Owed)') = 0
      BY <3>1, FS_EmptySet
    <3>3. Cardinality(Uncounted(a)') \in Nat
      BY UncountedIs
    <3>4. accounts'[a].pendingCount \in Nat
      <4>1. accounts' \in AccountTable
        BY DEF Wellformed, TypeOK, AccountTable
      <4> QED
        BY <4>1 DEF AccountTable
    <3> QED
      BY <3>2, <3>3, <3>4 DEF CountedAt
  <2>2. CASE a # b
    BY <1>4, <1>5, <2>2, OtherCounted DEF CountInv
  <2> QED
    BY <2>1, <2>2
<1>7. LoopKnown'
  BY <1>1, Shapes DEF CountInv, LoopKnown
<1>8. InReach'
  BY <1>1, <1>2, <1>3, <1>5 DEF CountInv, InReach
<1> QED
  BY <1>6, <1>7, <1>8 DEF CountInv, Counted

LEMMA CrashCounts ==
    ASSUME Wellformed, Wellformed', Crash
    PROVE  CountInv'
<1>1. tracked' = {} /\ loop'.pc = "idle"
  BY DEF Crash, Resting
<1>2. Owed' = {}
  BY <1>1 DEF Owed
<1>3. ASSUME NEW a \in Children
      PROVE  CountedAt(a)'
  <2>1. Of(a, Owed)' = {}
    BY <1>2 DEF Of
  <2>2. Cardinality(Of(a, Owed)') = 0
    BY <2>1, FS_EmptySet
  <2>3. Cardinality(Uncounted(a)') \in Nat
    BY UncountedIs
  <2>4. accounts'[a].pendingCount = 0
    BY DEF Crash, NoAccount
  <2> QED
    BY <2>2, <2>3, <2>4 DEF CountedAt
<1>4. LoopKnown' /\ InReach'
  BY <1>1, <1>2 DEF LoopKnown, InReach
<1> QED
  BY <1>3, <1>4 DEF CountInv, Counted

LEMMA StartCounts == Init => CountInv
<1> SUFFICES ASSUME Init
             PROVE  CountInv
  OBVIOUS
<1>1. Wellformed
  BY PurseStarts
<1>2. Owed = {} /\ loop.pc = "idle"
  BY DEF Init, Owed, Resting
<1>3. ASSUME NEW a \in Children
      PROVE  CountedAt(a)
  <2>1. Of(a, Owed) = {}
    BY <1>2 DEF Of
  <2>2. Cardinality(Of(a, Owed)) = 0
    BY <2>1, FS_EmptySet
  <2>3. Cardinality(Uncounted(a)) \in Nat /\ accounts[a].pendingCount \in Nat
    BY <1>1, CountsAre
  <2> QED
    BY <2>2, <2>3 DEF CountedAt
<1> QED
  BY <1>2, <1>3 DEF CountInv, Counted, LoopKnown, InReach

LEMMA PurseStepCounts ==
    ASSUME Wellformed, CountInv, PurseStep \/ UNCHANGED purse
    PROVE  CountInv'
<1>1. Wellformed'
  BY PurseStepTyped
<1>2. ASSUME NEW r \in Sends,
             Call(r) \/ Sending(r) \/ Processing(r) \/ Mine(r) \/ Drop(r) \/ Refusal(r)
      PROVE  CountInv'
  BY <1>1, <1>2, CallCounts, LookCounts, TrackCounts, CountCounts, ReceiptCounts, AdjustCounts,
     RestCounts DEF Sending, Processing
<1>3. CASE Booting
  BY <1>1, <1>3, InitCounts, LoadCounts, RestCounts DEF Booting
<1>4. CASE Crash
  BY <1>1, <1>4, CrashCounts
<1>5. CASE (\E a \in Children : SweepLock(a)) \/ UNCHANGED purse
  BY <1>1, <1>5, RestCounts
<1> QED
  BY <1>2, <1>3, <1>4, <1>5 DEF PurseStep, Next

LEMMA CountsShow ==
    ASSUME Wellformed, CountInv
    PROVE  NeverUndercounted
<1> SUFFICES ASSUME NEW a \in Children
             PROVE  Cardinality(Of(a, tracked)) <= accounts[a].pendingCount + Cardinality(Uncounted(a))
  BY DEF NeverUndercounted
<1>1. Of(a, tracked) \subseteq Of(a, Owed)
  BY DEF Of, Owed
<1>2. /\ IsFiniteSet(Of(a, Owed)) /\ Cardinality(Of(a, Owed)) \in Nat
      /\ Cardinality(Uncounted(a)) \in Nat /\ accounts[a].pendingCount \in Nat
  BY CountsAre
<1>3. Cardinality(Of(a, tracked)) \in Nat /\ Cardinality(Of(a, tracked)) <= Cardinality(Of(a, Owed))
  BY <1>1, <1>2, CountSame
<1>4. CountedAt(a)
  BY DEF CountInv, Counted
<1> QED
  BY <1>2, <1>3, <1>4 DEF CountedAt

(* The count of an account and the calls that have its lock never account for fewer
   transactions than the purse follows for it: with any number of accounts and calls,
   dropped transactions and restarts between any two awaits. *)
THEOREM CountsAllItFollows == Spec => []NeverUndercounted
<1>1. Wellformed /\ CountInv /\ [Next]_purse => Wellformed' /\ CountInv'
  BY PurseStepTyped, PurseStepCounts DEF PurseStep
<1>2. Init => Wellformed /\ CountInv
  BY PurseStarts, StartCounts
<1> QED
  BY <1>1, <1>2, CountsShow, PTL DEF Spec

-----------------------------------------------------------------------------
(* Requests and their calls of sendTx *)

LEMMA RelayerStepIsOfPurse ==
    ASSUME RelayerNext \/ UNCHANGED vars
    PROVE  PurseStep \/ UNCHANGED purse
<1>1. CASE UNCHANGED vars
  BY <1>1 DEF vars
<1>2. ASSUME NEW r \in Sends, NEW sig \in Signatures, Arrive(r, sig)
      PROVE  PurseStep
  BY <1>2 DEF Arrive, PurseStep, Next
<1>3. ASSUME NEW r \in Sends, CheckProxy(r) \/ Proceed(r)
      PROVE  PurseStep \/ UNCHANGED purse
  <2>1. \/ SendTx(r) \/ Refusal(r) \/ UNCHANGED purse
    BY <1>3 DEF CheckProxy, Proceed, Refuse, Refusal, purse
  <2> QED
    BY <2>1 DEF PurseStep, Next, Sending
<1>4. ASSUME NEW r \in Sends,
             NoAccountInTime(r) \/ TooExpensive(r) \/ SignIt(r) \/ Answer(r) \/ Settle(r)
               \/ InPurse(r) \/ Execute(r)
      PROVE  PurseStep
  <2>1. Timeout(r) \/ GasTooHigh(r) \/ Sign(r) \/ Count(r) \/ RemovePending(r) \/ InPurse(r) \/ Mine(r)
    BY <1>4 DEF NoAccountInTime, TooExpensive, SignIt, Answer, Settle, Execute
  <2> QED
    BY <2>1 DEF PurseStep, Next, Sending, Processing, InPurse
<1>5. CASE Background \/ Restart
  BY <1>5 DEF Background, Restart, PurseStep, Next
<1>6. ASSUME NEW sig, Forget(sig)
      PROVE  UNCHANGED purse
  BY <1>6 DEF Forget
<1> QED
  BY <1>1, <1>2, <1>3, <1>4, <1>5, <1>6 DEF RelayerNext, Relaying

Requests == [sig : Signatures, stage : {"checks", "nonce", "sending", "closed"}]

RelayTyped ==
    /\ request \in [Sends -> {NoRequest} \cup Requests]
    /\ rows \in [Sends -> {"none", "Pending", "Confirmed", "Reverted", "GasLimit",
                           "NoAvailableAccount"}]
    /\ callbacks \subseteq Sends /\ seen \subseteq Signatures
    /\ proxies \in [Users -> -1 .. MaxNonce]
    /\ outcome \in [Sends -> {"none", "done", "reverted", "stale", "hollow"}]

\* How far a request is says how far its call is, and the other way round.
Kind(pc) ==
    IF pc = "idle" THEN "none"
    ELSE IF pc \in {"init", "called"} THEN "begun"
    ELSE IF pc \in {"sent", "failed"} THEN "ended" ELSE "working"
StagesOf(pc) ==
    IF pc = "idle" THEN {"none"}
    ELSE IF pc \in {"init", "called"} THEN {"checks", "nonce"}
    ELSE IF pc \in {"sent", "failed"} THEN {"closed"} ELSE {"sending"}
Linked == \A r \in Sends : request[r].stage \in StagesOf(sends[r].pc)

RelayInv == Wellformed /\ RelayTyped /\ Linked

LEMMA RequestIs ==
    ASSUME RelayInv, NEW r \in Sends
    PROVE  /\ request[r] \in {NoRequest} \cup Requests /\ request[r].stage \in StagesOf(sends[r].pc)
           /\ sends[r].pc = "idle" => request[r] = NoRequest
           /\ sends[r].pc # "idle" => request[r] \in Requests
           /\ request[r] \in Requests => /\ request[r].sig \in Signatures /\ From(r) \in Users
                                         /\ Asked(r) \in 0 .. MaxNonce
<1>1. request[r] \in {NoRequest} \cup Requests /\ request[r].stage \in StagesOf(sends[r].pc)
  BY DEF RelayInv, RelayTyped, Linked
<1>2. PICK q \in {NoRequest} \cup Requests : q = request[r]
  BY <1>1
<1>3. q = NoRequest => q.stage = "none"
  BY DEF NoRequest
<1>4. q \in Requests => q.stage \in {"checks", "nonce", "sending", "closed"} /\ q.sig \in Signatures
  BY DEF Requests
<1>5. q.sig \in Signatures => q.sig[1] \in Users /\ q.sig[2] \in 0 .. MaxNonce
  BY DEF Signatures, Create
<1> QED
  BY <1>1, <1>2, <1>3, <1>4, <1>5 DEF StagesOf, From, Asked

\* A request goes on.
LEMMA StageMoves ==
    ASSUME RelayInv, NEW r \in Sends, sends[r].pc # "idle",
           NEW stage \in {"checks", "nonce", "sending", "closed"}, Stage(r, stage)
    PROVE  /\ request' \in [Sends -> {NoRequest} \cup Requests]
           /\ request'[r].stage = stage /\ request'[r].sig = request[r].sig
           /\ \A s \in Sends \ {r} : request'[s] = request[s]
<1>1. PICK q \in Requests : q = request[r]
  BY RequestIs
<1>2. PICK p : p = [q EXCEPT !.stage = stage]
  OBVIOUS
<1>3. p \in Requests /\ p.stage = stage /\ p.sig = q.sig
  BY <1>2 DEF Requests
<1>4. request' = [request EXCEPT ![r] = p]
  BY <1>1, <1>2 DEF Stage
<1> QED
  BY <1>1, <1>3, <1>4 DEF RelayInv, RelayTyped

\* One call moves, the others stay where they are.
Pc(r, pc) == sends'[r].pc = pc /\ \A s \in Sends \ {r} : sends'[s].pc = sends[s].pc

LEMMA GotoPc ==
    ASSUME Wellformed, NEW r \in Sends, NEW pc \in Pcs, Goto(r, pc)
    PROVE  Pc(r, pc)
<1>1. PICK c \in Calls : sends' = [sends EXCEPT ![r] = c] /\ c.pc = pc
  BY GotoIs
<1> QED
  BY <1>1, TypesAre DEF Pc

\* The sender of a request and its nonce stay what they are.
SigsKept == \A r \in Sends : sends[r].pc # "idle" => request'[r].sig = request[r].sig

\* Whether requests and calls still belong together.
RequestsGoOn == request' \in [Sends -> {NoRequest} \cup Requests] /\ Linked' /\ SigsKept

LEMMA OneRequest ==
    ASSUME RelayInv, NEW r \in Sends, sends[r].pc # "idle", NEW pc \in Pcs, Pc(r, pc),
           NEW stage \in {"checks", "nonce", "sending", "closed"}, Stage(r, stage),
           stage \in StagesOf(pc)
    PROVE  RequestsGoOn
<1>1. /\ request' \in [Sends -> {NoRequest} \cup Requests]
      /\ request'[r].stage = stage /\ request'[r].sig = request[r].sig
      /\ \A s \in Sends \ {r} : request'[s] = request[s]
  BY StageMoves
<1>2. ASSUME NEW s \in Sends
      PROVE  request'[s].stage \in StagesOf(sends'[s].pc) /\ request'[s].sig = request[s].sig
  BY <1>1, RequestIs DEF Pc
<1> QED
  BY <1>1, <1>2 DEF RequestsGoOn, Linked, SigsKept

LEMMA NoRequestMoves ==
    ASSUME RelayInv, UNCHANGED request,
           \A s \in Sends : StagesOf(sends'[s].pc) = StagesOf(sends[s].pc)
    PROVE  RequestsGoOn
BY RequestIs DEF RequestsGoOn, Linked, SigsKept, RelayInv, RelayTyped

LEMMA ArriveGoesOn ==
    ASSUME RelayInv, NEW r \in Sends, NEW sig \in Signatures, Arrive(r, sig)
    PROVE  RequestsGoOn
<1>1. sends[r].pc = "idle"
  BY DEF Arrive, At
<1>2. PICK pc \in {"init", "called"} : Goto(r, pc)
  BY DEF Arrive, Call
<1>3. Pc(r, pc)
  <2>1. pc \in Pcs
    BY DEF Pcs
  <2> QED
    BY <1>2, <2>1, GotoPc DEF RelayInv
<1>4. PICK q \in Requests : q = [sig |-> sig, stage |-> "checks"]
  BY DEF Requests
<1>5. request' = [request EXCEPT ![r] = q]
  BY <1>4 DEF Arrive
<1>6. /\ request' \in [Sends -> {NoRequest} \cup Requests] /\ request'[r] = q
      /\ \A s \in Sends \ {r} : request'[s] = request[s]
  BY <1>5 DEF RelayInv, RelayTyped
<1>7. ASSUME NEW s \in Sends
      PROVE  /\ request'[s].stage \in StagesOf(sends'[s].pc)
             /\ sends[s].pc # "idle" => request'[s].sig = request[s].sig
  <2>1. CASE s = r
    BY <1>1, <1>3, <1>4, <1>6, <2>1 DEF Pc, StagesOf
  <2>2. CASE s # r
    BY <1>3, <1>6, <2>2, RequestIs DEF Pc
  <2> QED
    BY <2>1, <2>2
<1> QED
  BY <1>6, <1>7 DEF RequestsGoOn, Linked, SigsKept

LEMMA ChecksGoOn ==
    ASSUME RelayInv, NEW r \in Sends, CheckProxy(r) \/ Proceed(r)
    PROVE  RequestsGoOn
<1>1. sends[r].pc = "called"
  BY DEF CheckProxy, Proceed, At
<1>2. CASE Refuse(r)
  <2>1. Goto(r, "failed") /\ Stage(r, "closed") /\ "failed" \in Pcs
    BY <1>2 DEF Refuse, Goto, Pcs
  <2> QED
    BY <1>1, <2>1, GotoPc, OneRequest DEF StagesOf, RelayInv
<1>3. CASE Stage(r, "nonce") /\ UNCHANGED sends
  <2>1. Pc(r, "called") /\ "called" \in Pcs
    BY <1>1, <1>3 DEF Pc, Pcs
  <2> QED
    BY <1>1, <1>3, <2>1, OneRequest DEF StagesOf
<1>4. CASE SendTx(r) /\ Stage(r, "sending")
  <2>1. Goto(r, "waiting") /\ "waiting" \in Pcs
    BY <1>4 DEF SendTx, Pcs
  <2> QED
    BY <1>1, <1>4, <2>1, GotoPc, OneRequest DEF StagesOf, RelayInv
<1> QED
  BY <1>2, <1>3, <1>4 DEF CheckProxy, Proceed

LEMMA EndsGoOn ==
    ASSUME RelayInv, NEW r \in Sends, NoAccountInTime(r) \/ TooExpensive(r) \/ Answer(r)
    PROVE  RequestsGoOn
<1>1. sends[r].pc # "idle" /\ Stage(r, "closed")
  BY DEF NoAccountInTime, TooExpensive, Answer, Timeout, GasTooHigh, Count, Fail, At
<1>2. PICK pc \in {"sent", "failed"} : Goto(r, pc)
  BY DEF NoAccountInTime, TooExpensive, Answer, Timeout, GasTooHigh, Count
<1>3. pc \in Pcs /\ "closed" \in StagesOf(pc)
  BY DEF Pcs, StagesOf
<1> QED
  BY <1>1, <1>2, <1>3, GotoPc, OneRequest DEF RelayInv

LEMMA WorkGoesOn ==
    ASSUME RelayInv, NEW r \in Sends, SignIt(r) \/ (InPurse(r) /\ UNCHANGED relay)
    PROVE  RequestsGoOn
<1>1. UNCHANGED request
  BY DEF SignIt, relay
<1>2. \A s \in Sends : StagesOf(sends'[s].pc) = StagesOf(sends[s].pc)
  <2>1. CASE Sign(r) \/ Send(r) \/ Track(r) \/ SaveRaw(r)
    <3>1. PICK pc \in {"send", "track", "raw", "count"} : Goto(r, pc)
      BY <2>1 DEF Sign, Send, Track, SaveRaw
    <3>2. pc \in Pcs
      BY DEF Pcs
    <3>3. sends[r].pc \in {"nonce", "send", "track", "raw"}
      BY <2>1 DEF Sign, Send, Track, SaveRaw, At
    <3>4. Pc(r, pc)
      BY <3>1, <3>2, GotoPc DEF RelayInv
    <3> QED
      BY <3>3, <3>4 DEF Pc, StagesOf
  <2>2. CASE LookUp(r) \/ Consider(r) \/ Select(r)
    <3>1. sends[r].pc \in {"waiting", "looking"}
      BY <2>2 DEF LookUp, Consider, Select, At
    <3>2. sends'[r].pc \in {"looking", "nonce"} /\ \A s \in Sends \ {r} : sends'[s].pc = sends[s].pc
      <4>1. CASE LookUp(r)
        BY <4>1, TypesAre DEF LookUp, RelayInv
      <4>2. CASE Consider(r)
        <5>1. PICK d \in Calls : d = sends[r] /\ d.pc = "looking"
          BY <4>2, TypesAre DEF Consider, At, RelayInv
        <5>2. PICK n : n = d.child + 1
          OBVIOUS
        <5>3. PICK c : c = [d EXCEPT !.best = d.child, !.child = n,
                                     !.lowest = accounts[d.child].pendingCount]
          OBVIOUS
        <5>4. PICK e : e = [d EXCEPT !.child = n]
          OBVIOUS
        <5>5. c.pc = "looking" /\ e.pc = "looking"
          BY <5>1, <5>3, <5>4 DEF Calls
        <5>6. sends' = [sends EXCEPT ![r] = c] \/ sends' = [sends EXCEPT ![r] = e]
          BY <4>2, <5>1, <5>2, <5>3, <5>4 DEF Consider
        <5> QED
          BY <5>5, <5>6, TypesAre DEF RelayInv
      <4>3. CASE Select(r)
        <5>1. CASE sends[r].best # 0
          <6>1. PICK c \in Calls : sends' = [sends EXCEPT ![r] = c] /\ c.pc = "nonce"
            BY <4>3, <5>1, ChosenIs DEF RelayInv
          <6> QED
            BY <6>1, TypesAre DEF RelayInv
        <5>2. CASE sends' = [sends EXCEPT ![r].child = 1]
          <6>1. PICK d \in Calls : d = sends[r] /\ d.pc = "looking"
            BY <4>3, TypesAre DEF Select, At, RelayInv
          <6>2. [d EXCEPT !.child = 1].pc = "looking"
            BY <6>1 DEF Calls
          <6>3. sends' = [sends EXCEPT ![r] = [d EXCEPT !.child = 1]]
            BY <5>2, <6>1
          <6> QED
            BY <6>2, <6>3, TypesAre DEF RelayInv
        <5> QED
          BY <4>3, <5>1, <5>2 DEF Select
      <4> QED
        BY <2>2, <4>1, <4>2, <4>3
    <3> QED
      BY <3>1, <3>2 DEF StagesOf
  <2>3. CASE UNCHANGED sends
    BY <2>3
  <2> QED
    BY <2>1, <2>2, <2>3 DEF SignIt, InPurse, SeeReceipt, Adjust, Rebroadcast
<1> QED
  BY <1>1, <1>2, NoRequestMoves

LEMMA RestGoesOn ==
    ASSUME RelayInv,
           \/ \E r \in Sends : Settle(r) \/ Execute(r)
           \/ \E sig \in seen : Forget(sig)
           \/ Background \/ UNCHANGED vars
    PROVE  RequestsGoOn
<1>1. UNCHANGED request
  BY DEF Settle, Execute, Forget, Background, relay, vars
<1>2. ASSUME NEW s \in Sends
      PROVE  StagesOf(sends'[s].pc) = StagesOf(sends[s].pc)
  <2>1. CASE Ready
    <3>1. PICK d \in Calls : d = sends[s]
      BY TypesAre DEF RelayInv
    <3>2. sends'[s] = IF d.pc = "init" THEN [d EXCEPT !.pc = "called"] ELSE d
      BY <2>1, <3>1 DEF Ready, At
    <3>3. [d EXCEPT !.pc = "called"].pc = "called"
      BY DEF Calls
    <3> QED
      BY <3>1, <3>2, <3>3 DEF StagesOf
  <2>2. CASE UNCHANGED sends
    BY <2>2
  <2>3. Ready \/ UNCHANGED sends
    BY DEF Settle, Execute, Forget, Background, Booting, InitAccount, ListPending, LoadPending,
           Drop, SweepLock, RemovePending, Mine, purse, vars
  <2> QED
    BY <2>1, <2>2, <2>3
<1> QED
  BY <1>1, <1>2, NoRequestMoves

LEMMA RestartGoesOn ==
    ASSUME RelayInv, Restart
    PROVE  RequestsGoOn
<1>1. ASSUME NEW s \in Sends
      PROVE  /\ request'[s] \in {NoRequest} \cup Requests
             /\ request'[s].stage \in StagesOf(sends'[s].pc)
             /\ sends[s].pc # "idle" => request'[s].sig = request[s].sig
  <2>1. PICK q \in {NoRequest} \cup Requests : q = request[s] /\ q.stage \in StagesOf(sends[s].pc)
    BY RequestIs
  <2>2. q.stage = "none" => q = NoRequest
    BY DEF NoRequest, Requests
  <2>3. request'[s] = IF q.stage \notin {"none", "closed"} THEN [q EXCEPT !.stage = "closed"] ELSE q
    BY <2>1 DEF Restart, Open
  <2>4. ASSUME q \in Requests
        PROVE  /\ [q EXCEPT !.stage = "closed"] \in Requests
               /\ [q EXCEPT !.stage = "closed"].stage = "closed"
               /\ [q EXCEPT !.stage = "closed"].sig = q.sig
    BY <2>4 DEF Requests
  <2>5. NoRequest.stage = "none"
    BY DEF NoRequest
  <2>6. /\ sends'[s].pc = sends[s].pc \/ sends'[s].pc = "failed"
        /\ sends'[s].pc \in {"idle", "sent", "failed"}
        /\ sends[s].pc = "idle" => sends'[s].pc = "idle"
    <3>1. PICK d \in Calls : d = sends[s]
      BY TypesAre DEF RelayInv
    <3>2. sends'[s] = IF d.pc \in {"idle", "sent", "failed"} THEN d ELSE [d EXCEPT !.pc = "failed"]
      BY <3>1 DEF Restart, Crash
    <3>3. [d EXCEPT !.pc = "failed"].pc = "failed"
      BY DEF Calls
    <3> QED
      BY <3>1, <3>2, <3>3
  <2>7. CASE sends[s].pc = "idle"
    BY <2>1, <2>3, <2>5, <2>6, <2>7 DEF StagesOf
  <2>8. CASE sends[s].pc # "idle"
    <3>1. q \in Requests /\ request'[s].stage = "closed" /\ request'[s].sig = q.sig
          /\ request'[s] \in Requests
      <4>1. q.stage # "none" /\ q \in Requests
        BY <2>1, <2>5, <2>8 DEF StagesOf
      <4> QED
        BY <2>3, <2>4, <4>1
    <3>2. sends'[s].pc \in {"sent", "failed"}
      BY <2>6, <2>8
    <3> QED
      BY <2>1, <3>1, <3>2 DEF StagesOf
  <2> QED
    BY <2>7, <2>8
<1>2. request' = [s \in Sends |-> request'[s]]
  BY DEF Restart
<1> QED
  BY <1>1, <1>2 DEF RequestsGoOn, Linked, SigsKept

LEMMA RequestsStep ==
    ASSUME RelayInv, RelayerNext \/ UNCHANGED vars
    PROVE  RequestsGoOn
BY ArriveGoesOn, ChecksGoOn, EndsGoOn, WorkGoesOn, RestGoesOn, RestartGoesOn
   DEF RelayerNext, Relaying

\* What the contracts do with a transaction that is mined.
LEMMA ExecuteIs ==
    ASSUME RelayInv, NEW r \in Sends, Execute(r)
    PROVE  /\ r \in pool /\ pool' = pool \ {r} /\ mined' = mined \cup {r}
           /\ sends[r].pc \in Out /\ request[r] \in Requests /\ From(r) \in Users
           /\ Asked(r) \in 0 .. MaxNonce
           /\ UNCHANGED <<memory, sends, tx, redis, drops, crashes, relay>>
           /\ \E effect \in {"done", "reverted", "stale", "hollow"} :
                /\ outcome' = [outcome EXCEPT ![r] = effect]
                /\ effect = "done" => /\ proxies[From(r)] = Asked(r) - 1
                                      /\ proxies' = [proxies EXCEPT ![From(r)] = Asked(r)]
                /\ effect # "done" => proxies' = proxies
                /\ effect \in {"stale", "hollow"} => proxies[From(r)] # Asked(r) - 1
<1>1. /\ r \in pool /\ pool' = pool \ {r} /\ mined' = mined \cup {r}
      /\ UNCHANGED <<memory, sends, tx, redis, drops, crashes, relay>>
  BY DEF Execute, Mine
<1>2. sends[r].pc \in Out /\ request[r] \in Requests
  BY <1>1, SentIs, RequestIs DEF Out, RelayInv
<1>3. From(r) \in Users /\ Asked(r) \in 0 .. MaxNonce
  BY <1>2, RequestIs
<1>4. PICK u \in Users : u = From(r)
  BY <1>3
<1>5. PICK n \in Int : n = Asked(r) /\ n >= 0
  BY <1>3, RelayerAssumption DEF RelayerAssumption
<1>6. PICK p \in Int : p = proxies[u] /\ p >= -1
  BY RelayerAssumption DEF RelayInv, RelayTyped, RelayerAssumption
<1>7. PICK effect \in Effect(r) :
        /\ outcome' = [outcome EXCEPT ![r] = effect]
        /\ proxies' = IF effect = "done" THEN [proxies EXCEPT ![u] = p + 1] ELSE proxies
  BY <1>4, <1>6 DEF Execute
<1>8. Effect(r) = IF n = 0 THEN IF p < 0 THEN {"done", "reverted"} ELSE {"hollow", "reverted"}
                  ELSE IF p = n - 1 THEN {"done", "reverted"} ELSE {"stale"}
  BY <1>4, <1>5, <1>6 DEF Effect, IsCreation, Create, CreateProxy, Forward
<1>9. /\ effect \in {"done", "reverted", "stale", "hollow"}
      /\ effect = "done" => p = n - 1
      /\ effect \in {"stale", "hollow"} => p # n - 1
  BY <1>5, <1>6, <1>7, <1>8
<1>10. effect = "done" => p + 1 = n
  BY <1>5, <1>6, <1>9
<1> QED
  BY <1>1, <1>2, <1>3, <1>4, <1>5, <1>6, <1>7, <1>9, <1>10

LEMMA ChainTyped ==
    ASSUME RelayInv, RelayerNext \/ UNCHANGED vars
    PROVE  /\ proxies' \in [Users -> -1 .. MaxNonce]
           /\ outcome' \in [Sends -> {"none", "done", "reverted", "stale", "hollow"}]
<1>1. CASE UNCHANGED chain
  BY <1>1 DEF chain, RelayInv, RelayTyped
<1>2. ASSUME NEW r \in Sends, Execute(r)
      PROVE  /\ proxies' \in [Users -> -1 .. MaxNonce]
             /\ outcome' \in [Sends -> {"none", "done", "reverted", "stale", "hollow"}]
  <2>1. /\ From(r) \in Users /\ Asked(r) \in 0 .. MaxNonce
        /\ \E effect \in {"done", "reverted", "stale", "hollow"} :
             /\ outcome' = [outcome EXCEPT ![r] = effect]
             /\ effect = "done" => /\ proxies[From(r)] = Asked(r) - 1
                                   /\ proxies' = [proxies EXCEPT ![From(r)] = Asked(r)]
             /\ effect # "done" => proxies' = proxies
    BY <1>2, ExecuteIs
  <2>2. Asked(r) \in -1 .. MaxNonce
    BY <2>1, RelayerAssumption DEF RelayerAssumption
  <2> QED
    BY <2>1, <2>2 DEF RelayInv, RelayTyped
<1>3. (\E r \in Sends : Execute(r)) \/ UNCHANGED chain
  BY DEF RelayerNext, Relaying, Arrive, CheckProxy, Proceed, NoAccountInTime, TooExpensive, Fail,
         SignIt, Answer, Settle, Forget, Background, Restart, vars
<1> QED
  BY <1>1, <1>2, <1>3

Statuses == {"none", "Pending", "Confirmed", "Reverted", "GasLimit", "NoAvailableAccount"}

LEMMA RowsTyped ==
    ASSUME RelayInv, RelayerNext \/ UNCHANGED vars
    PROVE  rows' \in [Sends -> Statuses] /\ callbacks' \subseteq Sends
<1>1. rows \in [Sends -> Statuses] /\ callbacks \subseteq Sends
  BY DEF RelayInv, RelayTyped, Statuses
<1>2. \/ rows' = rows
      \/ \E r \in Sends : \E st \in Statuses : rows' = [rows EXCEPT ![r] = st]
  <2>1. ASSUME NEW r \in Sends, Relaying(r)
        PROVE  rows' = rows \/ \E st \in Statuses : rows' = [rows EXCEPT ![r] = st]
    <3>1. CASE CheckProxy(r) \/ SignIt(r) \/ Answer(r) \/ (InPurse(r) /\ UNCHANGED <<relay, chain>>)
      BY <3>1 DEF CheckProxy, SignIt, Answer, relay
    <3>2. CASE Proceed(r)
      BY <3>2 DEF Proceed, Statuses
    <3>3. CASE NoAccountInTime(r)
      BY <3>3 DEF NoAccountInTime, Fail, Statuses
    <3>4. CASE TooExpensive(r)
      BY <3>4 DEF TooExpensive, Fail, Statuses
    <3>5. CASE Settle(r)
      <4>1. StatusOf(r) \in Statuses
        BY DEF StatusOf, Statuses
      <4> QED
        BY <3>5, <4>1 DEF Settle
    <3> QED
      BY <2>1, <3>1, <3>2, <3>3, <3>4, <3>5 DEF Relaying
  <2>2. CASE ~ \E r \in Sends : Relaying(r)
    BY <2>2 DEF RelayerNext, Arrive, Execute, Forget, Background, Restart, relay, vars
  <2> QED
    BY <2>1, <2>2
<1>3. callbacks' \subseteq Sends
  BY <1>1 DEF RelayerNext, Relaying, Arrive, CheckProxy, Proceed, NoAccountInTime, TooExpensive,
         Fail, SignIt, Answer, Settle, Execute, Forget, Background, Restart, relay, vars
<1> QED
  BY <1>1, <1>2, <1>3

LEMMA SeenTyped ==
    ASSUME RelayInv, RelayerNext \/ UNCHANGED vars
    PROVE  seen' \subseteq Signatures
<1>1. seen \subseteq Signatures
  BY DEF RelayInv, RelayTyped
<1>2. ASSUME NEW r \in Sends, Answer(r)
      PROVE  seen' \subseteq Signatures
  <2>1. sends[r].pc # "idle" /\ seen' = seen \cup {request[r].sig}
    BY <1>2 DEF Answer, Count, At
  <2> QED
    BY <1>1, <2>1, RequestIs
<1>3. (\E r \in Sends : Answer(r)) \/ seen' \subseteq seen
  BY DEF RelayerNext, Relaying, Arrive, CheckProxy, Proceed, NoAccountInTime, TooExpensive, Fail,
         SignIt, Settle, Execute, Forget, Background, Restart, relay, vars
<1> QED
  BY <1>1, <1>2, <1>3

LEMMA RelayerStepTyped ==
    ASSUME RelayInv, RelayerNext \/ UNCHANGED vars
    PROVE  RelayInv' /\ SigsKept
<1>1. Wellformed'
  BY RelayerStepIsOfPurse, PurseStepTyped DEF RelayInv
<1>2. RequestsGoOn
  BY RequestsStep
<1> QED
  BY <1>1, <1>2, ChainTyped, RowsTyped, SeenTyped DEF RelayInv, RelayTyped, RequestsGoOn, Statuses

LEMMA RelayerStarts == RelayerInit => RelayInv
<1> SUFFICES ASSUME RelayerInit
             PROVE  RelayInv
  OBVIOUS
<1>1. Wellformed
  BY PurseStarts DEF RelayerInit
<1>2. RelayTyped
  <2>1. -1 \in -1 .. MaxNonce
    BY RelayerAssumption DEF RelayerAssumption
  <2> QED
    BY <2>1 DEF RelayerInit, RelayTyped
<1>3. Linked
  BY DEF RelayerInit, Init, Linked, StagesOf, NoRequest, Idle
<1> QED
  BY <1>1, <1>2, <1>3 DEF RelayInv

(* Requests, rows, signatures and proxies keep their types, with any number of users and
   requests, and those of the purse below them: the nonce of a proxy never passes what its
   user has signed. *)
THEOREM TypeCorrect == RelayerSpec => []RelayerTypeOK
<1>1. RelayInv /\ [RelayerNext]_vars => RelayInv'
  BY RelayerStepTyped
<1>2. RelayInv => RelayerTypeOK
  BY DEF RelayInv, Wellformed, RelayTyped, RelayerTypeOK, Requests
<1> QED
  BY <1>1, <1>2, RelayerStarts, PTL DEF RelayerSpec

-----------------------------------------------------------------------------
(* What becomes of requests *)

\* A transaction that can be mined, now or later.
Reach == Followees \cup pool \cup mined

\* A call brings its transaction along when it tracks it.
LEMMA FolloweesGrow ==
    ASSUME Wellformed, PurseStep \/ UNCHANGED purse
    PROVE  \A s \in Followees' : s \in Followees \/ (sends[s].pc = "track" /\ s \in meta')
<1>1. CASE UNCHANGED <<tracked, loop, redis, boot>>
  BY <1>1 DEF Followees, Settling
<1>2. ASSUME NEW r \in Sends, Track(r)
      PROVE  \A s \in Followees' : s \in Followees \/ (sends[s].pc = "track" /\ s \in meta')
  <2>1. /\ UNCHANGED <<loop, boot>>
        /\ tracked' = tracked \cup {r} /\ sends[r].pc = "track" /\ r \in meta'
        /\ redis'.pending = redis.pending \cup {r}
    BY <1>2, TypesAre DEF Track, At, CountTable
  <2>2. Settling' = Settling
    BY <2>1 DEF Settling
  <2> QED
    BY <2>1, <2>2 DEF Followees
<1>3. ASSUME NEW r \in Sends, Sign(r) \/ SaveRaw(r) \/ Count(r)
      PROVE  Followees' = Followees
  <2>1. UNCHANGED <<loop, boot, tracked>>
    BY <1>3 DEF Sign, SaveRaw, Count, memory
  <2>2. Settling' = Settling
    BY <2>1 DEF Settling
  <2>3. redis'.pending = redis.pending
    <3>1. CASE Sign(r)
      <4>1. sends[r].pc = "nonce"
        BY <3>1 DEF Sign, At
      <4>2. sends[r].best \in Children
        BY <4>1, PlacedIs, Shapes, Constants DEF PlacedAt, Children
      <4> QED
        BY <3>1, <4>2, RedisRaisedIs DEF Sign, Wellformed
    <3>2. CASE SaveRaw(r) \/ Count(r)
      BY <3>2, TypesAre DEF SaveRaw, Count, CountTable
    <3> QED
      BY <1>3, <3>1, <3>2
  <2> QED
    BY <2>1, <2>2, <2>3 DEF Followees
<1>4. ASSUME NEW r \in Sends, SeeReceipt(r) \/ RemovePending(r) \/ Adjust(r)
      PROVE  Followees' \subseteq Followees
  <2>1. UNCHANGED boot /\ tracked' \subseteq tracked
    BY <1>4 DEF SeeReceipt, RemovePending, Adjust
  <2>2. redis'.pending \subseteq redis.pending
    BY <1>4, TypesAre DEF SeeReceipt, RemovePending, Adjust, CountTable
  <2>3. Settling' \subseteq Settling \cup tracked
    BY <1>4 DEF SeeReceipt, RemovePending, Adjust, Settling, Resting
  <2> QED
    BY <2>1, <2>2, <2>3 DEF Followees
<1>5. CASE InitAccount
  <2>1. UNCHANGED <<tracked, loop>>
    BY <1>5 DEF InitAccount
  <2>2. boot'.hashes = boot.hashes
    BY <1>5, TypesAre DEF InitAccount
  <2>3. redis'.pending = redis.pending
    <3>1. PICK a \in Children : a = boot.children + 1
      BY <1>5, Shapes, Constants DEF InitAccount, Children
    <3> QED
      BY <1>5, <3>1, RedisRaisedIs DEF InitAccount, Wellformed
  <2>4. Settling' = Settling
    BY <2>1 DEF Settling
  <2> QED
    BY <2>1, <2>2, <2>3, <2>4 DEF Followees
<1>6. CASE ListPending \/ Ready \/ \E r \in Sends : LoadPending(r) \/ Call(r)
  <2>1. UNCHANGED <<loop, redis>>
    BY <1>6 DEF ListPending, Ready, LoadPending, Call
  <2>2. boot'.hashes \subseteq boot.hashes \cup redis.pending
    BY <1>6, TypesAre DEF ListPending, Ready, LoadPending, Call
  <2>3. tracked' \subseteq tracked \cup boot.hashes
    BY <1>6 DEF ListPending, Ready, LoadPending, Call
  <2>4. Settling' = Settling
    BY <2>1 DEF Settling
  <2> QED
    BY <2>1, <2>2, <2>3, <2>4 DEF Followees
<1>7. CASE Crash
  BY <1>7 DEF Crash, Followees, Settling, Resting, Down
<1>8. \/ UNCHANGED <<tracked, loop, redis, boot>>
      \/ \E r \in Sends : \/ Track(r) \/ Sign(r) \/ SaveRaw(r) \/ Count(r)
                          \/ SeeReceipt(r) \/ RemovePending(r) \/ Adjust(r)
      \/ InitAccount \/ ListPending \/ Ready \/ \E r \in Sends : LoadPending(r) \/ Call(r)
      \/ Crash
  <2>1. CASE UNCHANGED purse
    BY <2>1 DEF purse, memory
  <2>2. ASSUME NEW r \in Sends, Refusal(r) \/ SendTx(r) \/ LookUp(r) \/ Consider(r) \/ Select(r)
                                \/ Timeout(r) \/ GasTooHigh(r)
        PROVE  UNCHANGED <<tracked, loop, redis, boot>>
    BY <2>2 DEF Refusal, SendTx, LookUp, Consider, Select, Timeout, GasTooHigh, memory
  <2>3. ASSUME NEW r \in Sends, Mine(r) \/ Drop(r) \/ Rebroadcast(r) \/ Send(r)
        PROVE  UNCHANGED <<tracked, loop, redis, boot>>
    BY <2>3 DEF Mine, Drop, Rebroadcast, Send, memory
  <2>4. ASSUME NEW a \in Children, SweepLock(a)
        PROVE  UNCHANGED <<tracked, loop, redis, boot>>
    BY <2>4 DEF SweepLock
  <2> QED
    BY <2>1, <2>2, <2>3, <2>4 DEF PurseStep, Next, Booting, Sending, Processing
<1> QED
  BY <1>1, <1>2, <1>3, <1>4, <1>5, <1>6, <1>7, <1>8

\* The node gets transactions from calls and from the loop.
LEMMA PoolGrows ==
    ASSUME Wellformed, PurseStep \/ UNCHANGED purse
    PROVE  /\ \A s \in pool' :
                 s \in pool \/ (sends[s].pc = "send" /\ sends'[s].pc = "track") \/ s \in tracked \ mined
           /\ mined \subseteq mined' /\ mined' \subseteq mined \cup pool
<1>1. ASSUME NEW r \in Sends, Send(r)
      PROVE  /\ pool' \subseteq pool \cup {r} /\ sends[r].pc = "send" /\ sends'[r].pc = "track"
             /\ mined' = mined
  <2>1. Goto(r, "track") /\ "track" \in Pcs
    BY <1>1 DEF Send, Pcs
  <2> QED
    BY <1>1, <2>1, GotoPc DEF Send, Broadcast, At, Pc
<1>2. ASSUME NEW r \in Sends, Rebroadcast(r)
      PROVE  pool' \subseteq pool \cup {r} /\ r \in tracked \ mined /\ mined' = mined
  BY <1>2 DEF Rebroadcast, Broadcast
<1>3. ASSUME NEW r \in Sends, Mine(r) \/ Drop(r)
      PROVE  pool' \subseteq pool /\ mined \subseteq mined' /\ mined' \subseteq mined \cup pool
  BY <1>3 DEF Mine, Drop
<1>4. \/ \E r \in Sends : Send(r) \/ Rebroadcast(r) \/ Mine(r) \/ Drop(r)
      \/ UNCHANGED <<pool, mined>>
  <2>1. ASSUME NEW r \in Sends, Call(r) \/ Sending(r) \/ Refusal(r), ~Send(r)
        PROVE  UNCHANGED <<pool, mined>>
    BY <2>1 DEF Call, Refusal, Sending, SendTx, LookUp, Consider, Select, Timeout, Sign, GasTooHigh,
           Track, SaveRaw, Count, network
  <2>2. ASSUME NEW r \in Sends, Processing(r), ~Rebroadcast(r)
        PROVE  UNCHANGED <<pool, mined>>
    BY <2>2 DEF Processing, SeeReceipt, RemovePending, Adjust, network
  <2>3. ASSUME Booting \/ Crash \/ (\E a \in Children : SweepLock(a)) \/ UNCHANGED purse
        PROVE  UNCHANGED <<pool, mined>>
    BY <2>3 DEF Booting, InitAccount, ListPending, Ready, LoadPending, Crash, SweepLock, purse, network
  <2> QED
    BY <2>1, <2>2, <2>3 DEF PurseStep, Next
<1> QED
  BY <1>1, <1>2, <1>3, <1>4

LEMMA ReachGrows ==
    ASSUME Wellformed, PurseStep \/ UNCHANGED purse
    PROVE  /\ \A s \in Reach' : s \in Reach \/ sends[s].pc \in {"send", "track"}
           /\ mined \subseteq mined'
BY FolloweesGrow, PoolGrows DEF Reach, Followees

LEMMA ReachIs ==
    ASSUME Wellformed
    PROVE  \A s \in Reach : s \in Sends /\ tx[s].from \in Children /\ sends[s].pc \in Out
BY SentIs DEF Reach, Followees, Late, Out

\* A transaction is mined once, and its outcome is that of its execution.
MinedOnce ==
    /\ pool \cap mined = {}
    /\ \A r \in Sends : outcome[r] # "none" <=> r \in mined

LEMMA OutcomeStep ==
    ASSUME RelayerNext \/ UNCHANGED vars
    PROVE  \/ \E r \in Sends : Execute(r)
           \/ UNCHANGED <<outcome, proxies, mined>>
<1>1. ASSUME NEW r \in Sends, InPurse(r)
      PROVE  UNCHANGED mined
  BY <1>1 DEF InPurse, LookUp, Consider, Select, Send, Track, SaveRaw, SeeReceipt, Adjust,
         Rebroadcast, network
<1>2. ASSUME Background
      PROVE  UNCHANGED mined
  BY <1>2 DEF Background, Booting, InitAccount, ListPending, LoadPending, Ready, Drop, SweepLock,
         network
<1>3. ASSUME NEW r \in Sends, CheckProxy(r) \/ Proceed(r) \/ NoAccountInTime(r) \/ TooExpensive(r)
                              \/ SignIt(r) \/ Answer(r) \/ Settle(r)
      PROVE  UNCHANGED <<outcome, proxies, mined>>
  BY <1>3 DEF CheckProxy, Proceed, Refuse, NoAccountInTime, TooExpensive, SignIt, Answer, Settle, Fail,
         SendTx, Timeout, GasTooHigh, Sign, Count, RemovePending, network, chain
<1>4. ASSUME NEW r \in Sends, NEW sig, Arrive(r, sig)
      PROVE  UNCHANGED <<outcome, proxies, mined>>
  BY <1>4 DEF Arrive, Call, network, chain
<1>5. ASSUME Restart \/ (\E sig \in seen : Forget(sig)) \/ UNCHANGED vars
      PROVE  UNCHANGED <<outcome, proxies, mined>>
  BY <1>5 DEF Restart, Crash, Forget, purse, network, chain, vars
<1>6. (\E r \in Sends : InPurse(r) /\ UNCHANGED <<relay, chain>>) \/ Background
        => UNCHANGED <<outcome, proxies, mined>>
  BY <1>1, <1>2 DEF Background, chain
<1> QED
  BY <1>3, <1>4, <1>5, <1>6 DEF RelayerNext, Relaying

LEMMA PoolStep ==
    ASSUME Wellformed, PurseStep \/ UNCHANGED purse
    PROVE  \A s \in pool' : s \in pool \/ s \notin mined
<1>1. \A s \in mined : sends[s].pc # "send"
  BY SentIs DEF Out
<1> QED
  BY <1>1, PoolGrows

LEMMA MinedOnceStep ==
    ASSUME RelayInv, MinedOnce, RelayerNext \/ UNCHANGED vars
    PROVE  MinedOnce'
<1>1. ASSUME NEW r \in Sends, Execute(r)
      PROVE  MinedOnce'
  <2>1. /\ pool' = pool \ {r} /\ mined' = mined \cup {r}
        /\ \E effect \in {"done", "reverted", "stale", "hollow"} : outcome' = [outcome EXCEPT ![r] = effect]
    BY <1>1, ExecuteIs
  <2> QED
    BY <2>1 DEF MinedOnce, RelayInv, RelayTyped
<1>2. CASE UNCHANGED <<outcome, mined>>
  BY <1>2, RelayerStepIsOfPurse, PoolStep DEF MinedOnce, RelayInv
<1> QED
  BY <1>1, <1>2, OutcomeStep

\* A request that took effect has moved the nonce of its proxy on.
UsedUp == \A r \in Sends : outcome[r] = "done" => Asked(r) <= proxies[From(r)]

LEMMA UsedUpStep ==
    ASSUME RelayInv, MinedOnce, UsedUp, ExecutedOnce, RelayerNext \/ UNCHANGED vars
    PROVE  UsedUp' /\ ExecutedOnce'
<1>1. SigsKept
  BY RelayerStepTyped
<1>2. ASSUME NEW s \in Sends, outcome[s] # "none"
      PROVE  request'[s].sig = request[s].sig /\ request[s] \in Requests
  <2>1. sends[s].pc \in Out
    BY <1>2, SentIs DEF MinedOnce, RelayInv
  <2> QED
    BY <1>1, <2>1, RequestIs DEF SigsKept, Out
<1>3. CASE UNCHANGED <<outcome, proxies, mined>>
  <2>1. ExecutedOnce'
    BY <1>2, <1>3 DEF ExecutedOnce
  <2>2. UsedUp'
    BY <1>2, <1>3 DEF UsedUp, Asked, From
  <2> QED
    BY <2>1, <2>2
<1>4. ASSUME NEW r \in Sends, Execute(r)
      PROVE  UsedUp' /\ ExecutedOnce'
  <2>1. /\ From(r) \in Users /\ Asked(r) \in 0 .. MaxNonce /\ request[r] \in Requests
        /\ UNCHANGED relay
    BY <1>4, ExecuteIs
  <2>2. UNCHANGED request
    BY <2>1 DEF relay
  <2>3. PICK effect \in {"done", "reverted", "stale", "hollow"} :
             /\ outcome' = [outcome EXCEPT ![r] = effect]
             /\ effect = "done" => /\ proxies[From(r)] = Asked(r) - 1
                                   /\ proxies' = [proxies EXCEPT ![From(r)] = Asked(r)]
             /\ effect # "done" => proxies' = proxies
    BY <1>4, ExecuteIs
  <2>4. /\ outcome'[r] = effect /\ \A s \in Sends \ {r} : outcome'[s] = outcome[s]
    BY <2>3 DEF RelayInv, RelayTyped
  <2>5. PICK n \in Int : n = Asked(r)
    BY <2>1, RelayerAssumption DEF RelayerAssumption
  <2>6. ASSUME NEW s \in Sends, s # r, outcome[s] = "done"
        PROVE  /\ Asked(s) \in Int /\ Asked(s) <= proxies[From(s)] /\ proxies[From(s)] \in Int
               /\ From(s) \in Users
    <3>1. request[s] \in Requests /\ From(s) \in Users /\ Asked(s) \in 0 .. MaxNonce
      BY <1>2, <2>6, RequestIs
    <3> QED
      BY <2>6, <3>1, RelayerAssumption DEF UsedUp, RelayInv, RelayTyped, RelayerAssumption
  <2>7. CASE effect = "done"
    <3>1. /\ proxies[From(r)] = n - 1 /\ proxies'[From(r)] = n
          /\ \A u \in Users : u # From(r) => proxies'[u] = proxies[u]
      BY <2>1, <2>3, <2>5, <2>7 DEF RelayInv, RelayTyped
    <3>2. ASSUME NEW s \in Sends, s # r, outcome[s] = "done"
          PROVE  Asked(s) <= proxies'[From(s)] /\ request[s].sig # request[r].sig
      <4>1. CASE From(s) = From(r)
        <5>1. Asked(s) <= n - 1
          BY <2>6, <3>1, <3>2, <4>1
        <5> QED
          BY <2>5, <2>6, <3>1, <3>2, <4>1, <5>1 DEF Asked
      <4>2. CASE From(s) # From(r)
        BY <2>6, <3>1, <3>2, <4>2 DEF From
      <4> QED
        BY <4>1, <4>2
    <3>3. ASSUME NEW s \in Sends, outcome'[s] = "done"
          PROVE  Asked(s) <= proxies'[From(s)]
      BY <2>4, <2>5, <3>1, <3>2, <3>3
    <3>4. UsedUp'
      BY <2>2, <3>3 DEF UsedUp, Asked, From
    <3>5. ExecutedOnce'
      BY <2>2, <2>4, <3>2 DEF ExecutedOnce
    <3> QED
      BY <3>4, <3>5
  <2>8. CASE effect # "done"
    <3>1. \A s \in Sends : outcome'[s] = "done" => outcome[s] = "done" /\ s # r
      BY <2>4, <2>8
    <3>2. ExecutedOnce'
      BY <2>2, <3>1 DEF ExecutedOnce
    <3>3. UsedUp'
      BY <2>2, <2>3, <2>8, <3>1 DEF UsedUp, Asked, From
    <3> QED
      BY <3>2, <3>3
  <2> QED
    BY <2>7, <2>8
<1> QED
  BY <1>3, <1>4, OutcomeStep

(* However often a signed request is sent in, overlapping, after the memory of signatures is
   cleared or after a restart, it takes effect at most once: for any number of users,
   requests, accounts and restarts, whatever is dropped and mined in whatever order. *)
THEOREM TakesEffectOnce == RelayerSpec => []ExecutedOnce
<1> DEFINE Inv == RelayInv /\ MinedOnce /\ UsedUp /\ ExecutedOnce
<1>1. Inv /\ [RelayerNext]_vars => Inv'
  BY RelayerStepTyped, MinedOnceStep, UsedUpStep
<1>2. RelayerInit => Inv
  BY RelayerStarts DEF RelayerInit, Init, MinedOnce, UsedUp, ExecutedOnce
<1> QED
  BY <1>1, <1>2, PTL DEF RelayerSpec

\* A call that failed before it sent anything stays as it is.
Unsent(r) == sends[r].pc = "failed" /\ r \notin Reach

LEMMA FailedStays ==
    ASSUME Wellformed, PurseStep \/ UNCHANGED purse, NEW s \in Sends, sends[s].pc = "failed"
    PROVE  sends'[s].pc = "failed"
<1>1. ASSUME NEW r \in Sends, Call(r) \/ Sending(r) \/ Refusal(r)
      PROVE  sends'[s] = sends[s]
  <2>1. sends[r].pc # "failed"
    BY <1>1 DEF Call, Sending, Refusal, SendTx, LookUp, Consider, Select, Timeout, Sign, GasTooHigh,
           Send, Track, SaveRaw, Count, At
  <2>2. \E e : sends' = [sends EXCEPT ![r] = e]
    BY <1>1 DEF Call, Sending, Refusal, SendTx, LookUp, Consider, Select, Timeout, Sign, GasTooHigh,
           Send, Track, SaveRaw, Count, Goto
  <2> QED
    BY <2>1, <2>2, TypesAre
<1>2. CASE Ready \/ Crash
  <2>1. PICK d \in Calls : d = sends[s]
    BY TypesAre
  <2> QED
    BY <1>2, <2>1 DEF Ready, Crash, At
<1>3. CASE UNCHANGED sends
  BY <1>3
<1>4. (\E r \in Sends : Call(r) \/ Sending(r) \/ Refusal(r)) \/ Ready \/ Crash \/ UNCHANGED sends
  BY DEF PurseStep, Next, Booting, Processing, InitAccount, ListPending, LoadPending, SeeReceipt,
         RemovePending, Adjust, Rebroadcast, Mine, Drop, SweepLock, purse
<1> QED
  BY <1>1, <1>2, <1>3, <1>4

LEMMA UnsentStays ==
    ASSUME Wellformed, PurseStep \/ UNCHANGED purse, NEW r \in Sends, Unsent(r)
    PROVE  Unsent(r)'
<1>1. sends[r].pc = "failed" /\ r \notin Reach
  BY DEF Unsent
<1>2. sends'[r].pc = "failed"
  BY <1>1, FailedStays
<1>3. r \notin Reach'
  BY <1>1, ReachGrows
<1> QED
  BY <1>2, <1>3 DEF Unsent

\* The loop works on mined transactions.
LoopMined == loop.pc # "idle" => loop.tx \in mined

LEMMA LoopMinedStep ==
    ASSUME Wellformed, LoopMined, PurseStep \/ UNCHANGED purse
    PROVE  LoopMined'
<1>1. mined \subseteq mined'
  BY ReachGrows
<1>2. \/ UNCHANGED loop
      \/ loop'.pc = "idle"
      \/ loop'.tx = loop.tx /\ loop.pc # "idle"
      \/ loop'.tx \in mined
  <2>1. ASSUME NEW r \in Sends, SeeReceipt(r)
        PROVE  loop'.tx \in mined
    BY <2>1 DEF SeeReceipt, HasReceipt
  <2>2. ASSUME NEW r \in Sends, RemovePending(r)
        PROVE  loop'.tx = loop.tx /\ loop.pc # "idle"
    BY <2>2 DEF RemovePending
  <2>3. ASSUME NEW r \in Sends, Adjust(r)
        PROVE  loop'.pc = "idle"
    BY <2>3 DEF Adjust, Resting
  <2>4. CASE Crash
    BY <2>4 DEF Crash, Resting
  <2>5. ASSUME NEW r \in Sends, Call(r) \/ Sending(r) \/ Refusal(r)
        PROVE  UNCHANGED loop
    BY <2>5 DEF Call, Sending, Refusal, SendTx, LookUp, Consider, Select, Timeout, Sign, GasTooHigh,
           Send, Track, SaveRaw, Count, memory
  <2>6. ASSUME NEW r \in Sends, Rebroadcast(r) \/ Mine(r) \/ Drop(r)
        PROVE  UNCHANGED loop
    BY <2>6 DEF Rebroadcast, Mine, Drop, memory
  <2>7. ASSUME Booting \/ (\E a \in Children : SweepLock(a)) \/ UNCHANGED purse
        PROVE  UNCHANGED loop
    BY <2>7 DEF Booting, InitAccount, ListPending, Ready, LoadPending, SweepLock, purse, memory
  <2> QED
    BY <2>1, <2>2, <2>3, <2>4, <2>5, <2>6, <2>7 DEF PurseStep, Next, Processing
<1> QED
  BY <1>1, <1>2 DEF LoopMined

RowsTrue ==
    \A r \in Sends :
        /\ rows[r] = "Confirmed" => outcome[r] \in {"done", "hollow"}
        /\ rows[r] = "Reverted" => outcome[r] \in {"reverted", "stale"}
        /\ rows[r] \in {"GasLimit", "NoAvailableAccount"} => Unsent(r)

\* Rows that stay as they are.
LEMMA RowStays ==
    ASSUME RelayInv, MinedOnce, RowsTrue, RelayerNext \/ UNCHANGED vars,
           NEW r \in Sends, rows'[r] = rows[r]
    PROVE  /\ rows'[r] = "Confirmed" => outcome'[r] \in {"done", "hollow"}
           /\ rows'[r] = "Reverted" => outcome'[r] \in {"reverted", "stale"}
           /\ rows'[r] \in {"GasLimit", "NoAvailableAccount"} => Unsent(r)'
<1>1. rows[r] \in {"GasLimit", "NoAvailableAccount"} => Unsent(r)'
  BY RelayerStepIsOfPurse, UnsentStays DEF RelayInv, RowsTrue
<1>2. outcome[r] # "none" => outcome'[r] = outcome[r]
  <2>1. ASSUME NEW s \in Sends, Execute(s), outcome[r] # "none"
        PROVE  outcome'[r] = outcome[r]
    <3>1. /\ s \in pool
          /\ \E effect \in {"done", "reverted", "stale", "hollow"} : outcome' = [outcome EXCEPT ![s] = effect]
      BY <2>1, ExecuteIs
    <3>2. s # r
      BY <2>1, <3>1 DEF MinedOnce
    <3> QED
      BY <3>1, <3>2 DEF RelayInv, RelayTyped
  <2> QED
    BY <2>1, OutcomeStep
<1> QED
  BY <1>1, <1>2 DEF RowsTrue

\* A request fails without having sent anything.
LEMMA FailsUnsent ==
    ASSUME Wellformed, NEW r \in Sends, Timeout(r) \/ GasTooHigh(r)
    PROVE  Unsent(r)'
<1>1. sends[r].pc \in {"waiting", "looking", "nonce"} /\ Goto(r, "failed") /\ "failed" \in Pcs
  BY DEF Timeout, GasTooHigh, At, Pcs
<1>2. sends'[r].pc = "failed"
  BY <1>1, GotoPc DEF Pc
<1>3. r \notin Reach
  BY <1>1, ReachIs DEF Out
<1>4. Reach' = Reach
  BY DEF Timeout, GasTooHigh, Reach, Followees, Settling, memory, network
<1> QED
  BY <1>2, <1>3, <1>4 DEF Unsent

LEMMA RowsTrueStep ==
    ASSUME RelayInv, MinedOnce, LoopMined, RowsTrue, RelayerNext \/ UNCHANGED vars
    PROVE  RowsTrue'
<1>1. ASSUME NEW r \in Sends, Settle(r)
      PROVE  /\ \A s \in Sends \ {r} : rows'[s] = rows[s]
             /\ rows'[r] = rows[r] \/ /\ rows'[r] = StatusOf(r) /\ outcome[r] # "none"
                                      /\ outcome' = outcome
  <2>1. loop.pc # "idle" /\ loop.tx = r /\ outcome' = outcome
    BY <1>1 DEF Settle, RemovePending, chain
  <2>2. outcome[r] # "none"
    BY <2>1 DEF LoopMined, MinedOnce
  <2>3. rows' = rows \/ rows' = [rows EXCEPT ![r] = StatusOf(r)]
    BY <1>1 DEF Settle
  <2> QED
    BY <2>1, <2>2, <2>3 DEF RelayInv, RelayTyped
<1>2. ASSUME NEW r \in Sends, Proceed(r)
      PROVE  /\ \A s \in Sends \ {r} : rows'[s] = rows[s]
             /\ rows'[r] = rows[r] \/ rows'[r] = "Pending"
  BY <1>2 DEF Proceed, RelayInv, RelayTyped
<1>3. ASSUME NEW r \in Sends, NoAccountInTime(r) \/ TooExpensive(r)
      PROVE  /\ \A s \in Sends \ {r} : rows'[s] = rows[s]
             /\ rows'[r] \in {"GasLimit", "NoAvailableAccount"} /\ Unsent(r)'
  <2>1. Unsent(r)'
    BY <1>3, FailsUnsent DEF NoAccountInTime, TooExpensive, RelayInv
  <2> QED
    BY <1>3, <2>1 DEF NoAccountInTime, TooExpensive, Fail, RelayInv, RelayTyped
<1>4. \/ \E r \in Sends : Settle(r) \/ Proceed(r) \/ NoAccountInTime(r) \/ TooExpensive(r)
      \/ rows' = rows
  BY DEF RelayerNext, Relaying, Arrive, CheckProxy, SignIt, Answer, Execute, Forget, Background,
         Restart, relay, vars
<1>5. ASSUME NEW s \in Sends, rows'[s] # rows[s]
      PROVE  /\ rows'[s] = "Confirmed" => outcome'[s] \in {"done", "hollow"}
             /\ rows'[s] = "Reverted" => outcome'[s] \in {"reverted", "stale"}
             /\ rows'[s] \in {"GasLimit", "NoAvailableAccount"} => Unsent(s)'
  <2>1. CASE Settle(s)
    <3>1. rows'[s] = StatusOf(s) /\ outcome[s] # "none" /\ outcome' = outcome
      BY <1>1, <1>5, <2>1
    <3>2. outcome[s] \in {"none", "done", "reverted", "stale", "hollow"}
      BY DEF RelayInv, RelayTyped
    <3> QED
      BY <3>1, <3>2 DEF StatusOf
  <2>2. CASE Proceed(s)
    BY <1>2, <1>5, <2>2
  <2>3. CASE NoAccountInTime(s) \/ TooExpensive(s)
    <3>1. rows'[s] \in {"GasLimit", "NoAvailableAccount"} /\ Unsent(s)'
      BY <1>3, <2>3
    <3> QED
      BY <3>1
  <2> QED
    BY <1>1, <1>2, <1>3, <1>4, <1>5, <2>1, <2>2, <2>3
<1>6. ASSUME NEW s \in Sends
      PROVE  /\ rows'[s] = "Confirmed" => outcome'[s] \in {"done", "hollow"}
             /\ rows'[s] = "Reverted" => outcome'[s] \in {"reverted", "stale"}
             /\ rows'[s] \in {"GasLimit", "NoAvailableAccount"} => Unsent(s)'
  BY <1>5, RowStays
<1> QED
  BY <1>6 DEF RowsTrue

(* A row that has left Pending says what became of the transaction, whatever receipts,
   drops, timeouts and restarts come between. *)
THEOREM RowsTellTheTruth == RelayerSpec => []RowTellsTruth
<1> DEFINE Inv == RelayInv /\ MinedOnce /\ LoopMined /\ RowsTrue
<1>1. Inv /\ [RelayerNext]_vars => Inv'
  <2>1. Inv /\ (RelayerNext \/ UNCHANGED vars) => LoopMined'
    BY RelayerStepIsOfPurse, LoopMinedStep DEF RelayInv
  <2> QED
    BY <2>1, RelayerStepTyped, MinedOnceStep, RowsTrueStep
<1>2. RelayerInit => Inv
  BY RelayerStarts DEF RelayerInit, Init, MinedOnce, LoopMined, Resting, RowsTrue
<1>3. Inv => RowTellsTruth
  BY DEF RowsTrue, RowTellsTruth, Unsent, Reach
<1> QED
  BY <1>1, <1>2, <1>3, PTL DEF RelayerSpec

-----------------------------------------------------------------------------
(* Users who wait for their answers *)

\* Nobody who waits has two requests under way ...
OneOpen ==
    \A r, s \in Sends :
        Open(r) /\ Open(s) /\ From(r) = From(s) /\ From(r) \in Patient => r = s

\* ... and as long as the relayer runs, it knows of every transaction it has sent.
Waited ==
    /\ \A r \in Followees \ mined : r \in meta
    /\ \A r \in pool : r \in meta \/ sends[r].pc = "track"

\* A request that may still be mined, once the pending transactions have been looked at.
Live(r) == r \notin mined /\ (request[r].stage \in {"nonce", "sending"} \/ r \in meta)

OneLive ==
    \A r, s \in Sends :
        Live(r) /\ Live(s) /\ From(r) = From(s) /\ From(r) \in Patient => r = s

\* It asks for what the proxy does next.  The nonce of a call is looked at later.
Current ==
    \A r \in Sends :
        /\ Live(r) /\ From(r) \in Patient
        /\ request[r].stage = "nonce" => IsCreation(r)
        => proxies[From(r)] = Asked(r) - 1

InTime == \A r \in Sends : outcome[r] \in {"stale", "hollow"} => From(r) \notin Patient

MetaTracked == meta \subseteq tracked

LEMMA MetaStep ==
    ASSUME Wellformed, LoopMined, MetaTracked, PurseStep \/ UNCHANGED purse
    PROVE  /\ MetaTracked'
           /\ \A s \in meta' : s \in meta \/ sends[s].pc = "track"
           /\ ~Crash => \A s \in meta : s \in meta' \/ s \in mined
<1>1. ASSUME NEW r \in Sends, Track(r)
      PROVE  /\ MetaTracked' /\ meta \subseteq meta'
             /\ \A s \in meta' : s \in meta \/ sends[s].pc = "track"
  BY <1>1 DEF Track, At, MetaTracked
<1>2. ASSUME NEW r \in Sends, RemovePending(r)
      PROVE  MetaTracked' /\ meta' = meta \ {r} /\ r \in mined
  BY <1>2 DEF RemovePending, MetaTracked, LoopMined
<1>3. ASSUME Crash
      PROVE  MetaTracked' /\ meta' = {}
  BY <1>3 DEF Crash, MetaTracked
<1>4. \/ \E r \in Sends : Track(r) \/ RemovePending(r)
      \/ Crash
      \/ meta' = meta /\ tracked \subseteq tracked'
  <2>1. ASSUME NEW r \in Sends, Call(r) \/ Sending(r) \/ Refusal(r), ~Track(r)
        PROVE  UNCHANGED <<meta, tracked>>
    BY <2>1 DEF Call, Refusal, Sending, SendTx, LookUp, Consider, Select, Timeout, Sign, GasTooHigh,
           Send, SaveRaw, Count, memory
  <2>2. ASSUME NEW r \in Sends, Processing(r) \/ Mine(r) \/ Drop(r), ~RemovePending(r)
        PROVE  UNCHANGED <<meta, tracked>>
    BY <2>2 DEF Processing, SeeReceipt, Adjust, Rebroadcast, Mine, Drop, memory
  <2>3. ASSUME Booting \/ (\E a \in Children : SweepLock(a)) \/ UNCHANGED purse
        PROVE  meta' = meta /\ tracked \subseteq tracked'
    BY <2>3 DEF Booting, InitAccount, ListPending, Ready, LoadPending, SweepLock, purse, memory
  <2> QED
    BY <2>1, <2>2, <2>3 DEF PurseStep, Next
<1> QED
  BY <1>1, <1>2, <1>3, <1>4 DEF MetaTracked

LEMMA TrackStays ==
    ASSUME Wellformed, PurseStep \/ UNCHANGED purse, ~Crash, NEW s \in Sends, sends[s].pc = "track"
    PROVE  sends'[s].pc = "track" \/ s \in meta'
<1>1. ASSUME NEW r \in Sends, Call(r) \/ Sending(r) \/ Refusal(r)
      PROVE  sends'[s] = sends[s] \/ s \in meta'
  <2>1. sends[r].pc # "track" \/ Track(r)
    BY <1>1 DEF Call, Sending, Refusal, SendTx, LookUp, Consider, Select, Timeout, Sign, GasTooHigh,
           Send, SaveRaw, Count, At
  <2>2. \E e : sends' = [sends EXCEPT ![r] = e]
    BY <1>1 DEF Call, Sending, Refusal, SendTx, LookUp, Consider, Select, Timeout, Sign, GasTooHigh,
           Send, Track, SaveRaw, Count, Goto
  <2>3. Track(r) => r \in meta'
    BY DEF Track
  <2> QED
    BY <2>1, <2>2, <2>3, TypesAre
<1>2. CASE Ready
  <2>1. PICK d \in Calls : d = sends[s]
    BY TypesAre
  <2> QED
    BY <1>2, <2>1 DEF Ready, At
<1>3. (\E r \in Sends : Call(r) \/ Sending(r) \/ Refusal(r)) \/ Ready \/ UNCHANGED sends
  BY DEF PurseStep, Next, Booting, Processing, InitAccount, ListPending, LoadPending, SeeReceipt,
         RemovePending, Adjust, Rebroadcast, Mine, Drop, SweepLock, purse
<1> QED
  BY <1>1, <1>2, <1>3

LEMMA WaitedStep ==
    ASSUME Wellformed, LoopMined, MetaTracked, Waited, pool \cap mined = {},
           PurseStep \/ UNCHANGED purse, ~Crash
    PROVE  Waited'
<1>1. mined \subseteq mined' /\ \A s \in meta : s \in meta' \/ s \in mined
  BY PoolGrows, MetaStep
<1>2. ASSUME NEW r \in Followees', r \notin mined'
      PROVE  r \in meta'
  BY <1>1, <1>2, FolloweesGrow DEF Waited
<1>3. ASSUME NEW r \in pool'
      PROVE  r \in meta' \/ sends'[r].pc = "track"
  <2>1. CASE r \in pool
    <3>1. r \in Sends /\ r \notin mined /\ (r \in meta \/ sends[r].pc = "track")
      BY <2>1, TypesAre DEF Waited
    <3> QED
      BY <1>1, <3>1, TrackStays
  <2>2. CASE r \in tracked \ mined
    <3>1. r \in meta
      BY <2>2 DEF Waited, Followees
    <3> QED
      BY <1>1, <2>2, <3>1
  <2> QED
    BY <1>3, <2>1, <2>2, PoolGrows
<1> QED
  BY <1>2, <1>3 DEF Waited

\* The checks on the proxy let a request through ...
Passes(r) ==
    /\ CheckProxy(r) /\ Stage(r, "nonce")
    /\ ~HasPending(r) /\ (IsCreation(r) => proxies[From(r)] < 0)
    /\ ~IsCreation(r) => proxies[From(r)] >= 0

\* ... and so does the check on its nonce.
Verified(r) ==
    /\ Proceed(r) /\ Stage(r, "sending")
    /\ IsCreation(r) \/ Asked(r) = proxies[From(r)] + 1

LEMMA StageStep ==
    ASSUME RelayInv, RelayerNext \/ UNCHANGED vars
    PROVE  \/ \E r \in Sends : \E sig \in Signatures : Arrive(r, sig)
           \/ \E r \in Sends : Passes(r) \/ Verified(r)
           \/ \A s \in Sends : request'[s].stage \in {request[s].stage, "closed"}
<1>1. ASSUME NEW r \in Sends, Stage(r, "closed"), sends[r].pc # "idle"
      PROVE  \A s \in Sends : request'[s].stage \in {request[s].stage, "closed"}
  <2>1. request'[r].stage = "closed" /\ \A s \in Sends \ {r} : request'[s] = request[s]
    BY <1>1, StageMoves
  <2> QED
    BY <2>1
<1>2. ASSUME NEW r \in Sends, CheckProxy(r) \/ Proceed(r)
      PROVE  Passes(r) \/ Verified(r) \/ (Stage(r, "closed") /\ sends[r].pc # "idle")
  <2>1. CASE CheckProxy(r)
    <3>1. proxies[From(r)] \in -1 .. MaxNonce
      BY <2>1, RequestIs DEF CheckProxy, At, RelayInv, RelayTyped
    <3>2. ~(proxies[From(r)] >= 0) => proxies[From(r)] < 0
      BY <3>1, RelayerAssumption DEF RelayerAssumption
    <3> QED
      BY <2>1, <3>2 DEF CheckProxy, Passes, Refuse, At
  <2>2. CASE Proceed(r)
    BY <2>2 DEF Proceed, Verified, Refuse, At
  <2> QED
    BY <1>2, <2>1, <2>2
<1>3. ASSUME NEW r \in Sends, NoAccountInTime(r) \/ TooExpensive(r) \/ Answer(r)
      PROVE  Stage(r, "closed") /\ sends[r].pc # "idle"
  BY <1>3 DEF NoAccountInTime, TooExpensive, Answer, Timeout, GasTooHigh, Count, Fail, At
<1>4. CASE Restart
  <2>1. ASSUME NEW s \in Sends
        PROVE  request'[s].stage \in {request[s].stage, "closed"}
    <3>1. PICK q \in {NoRequest} \cup Requests : q = request[s]
      BY RequestIs
    <3>2. request'[s] = q \/ (q \in Requests /\ request'[s] = [q EXCEPT !.stage = "closed"])
      BY <1>4, <3>1 DEF Restart, Open, NoRequest
    <3>3. q \in Requests => [q EXCEPT !.stage = "closed"].stage = "closed"
      BY DEF Requests
    <3> QED
      BY <3>1, <3>2, <3>3
  <2> QED
    BY <2>1
<1>5. ASSUME \/ \E r \in Sends : \/ SignIt(r) \/ Settle(r) \/ Execute(r)
                                 \/ InPurse(r) /\ UNCHANGED <<relay, chain>>
             \/ (\E sig \in seen : Forget(sig)) \/ Background \/ UNCHANGED vars
      PROVE  UNCHANGED request
  BY <1>5 DEF SignIt, Settle, Execute, Forget, Background, vars, relay
<1> QED
  BY <1>1, <1>2, <1>3, <1>4, <1>5 DEF RelayerNext, Relaying

\* Where requests come from.
LEMMA StageWas ==
    ASSUME RelayInv, RelayerNext \/ UNCHANGED vars, NEW s \in Sends
    PROVE  \/ request'[s].stage \in {request[s].stage, "closed"}
           \/ request'[s].stage = "checks" /\ \E sig \in Signatures : Arrive(s, sig)
           \/ request'[s].stage = "nonce" /\ request[s].stage = "checks" /\ Passes(s)
           \/ request'[s].stage = "sending" /\ request[s].stage = "nonce" /\ Verified(s)
<1>1. ASSUME NEW r \in Sends, NEW sig \in Signatures, Arrive(r, sig)
      PROVE  /\ request'[r].stage = "checks"
             /\ \A t \in Sends \ {r} : request'[t] = request[t]
  <2>1. PICK q : q = [sig |-> sig, stage |-> "checks"]
    OBVIOUS
  <2>2. request' = [request EXCEPT ![r] = q] /\ q.stage = "checks"
    BY <1>1, <2>1 DEF Arrive
  <2> QED
    BY <2>2 DEF RelayInv, RelayTyped
<1>2. ASSUME NEW r \in Sends, Passes(r)
      PROVE  /\ request'[r].stage = "nonce" /\ request[r].stage = "checks"
             /\ \A t \in Sends \ {r} : request'[t] = request[t]
  <2>1. sends[r].pc # "idle" /\ request[r].stage = "checks" /\ Stage(r, "nonce")
    BY <1>2 DEF Passes, CheckProxy, At
  <2> QED
    BY <2>1, StageMoves
<1>3. ASSUME NEW r \in Sends, Verified(r)
      PROVE  /\ request'[r].stage = "sending" /\ request[r].stage = "nonce"
             /\ \A t \in Sends \ {r} : request'[t] = request[t]
  <2>1. sends[r].pc # "idle" /\ request[r].stage = "nonce" /\ Stage(r, "sending")
    BY <1>3 DEF Verified, Proceed, At
  <2> QED
    BY <2>1, StageMoves
<1>4. CASE \E r \in Sends : \E sig \in Signatures : Arrive(r, sig)
  BY <1>1, <1>4
<1>5. CASE \E r \in Sends : Passes(r)
  BY <1>2, <1>5
<1>6. CASE \E r \in Sends : Verified(r)
  BY <1>3, <1>6
<1> QED
  BY <1>4, <1>5, <1>6, StageStep

LEMMA OneOpenStep ==
    ASSUME RelayInv, OneOpen, RelayerNext \/ UNCHANGED vars
    PROVE  OneOpen'
<1>1. ASSUME NEW s \in Sends, Open(s)', ~(\E sig \in Signatures : Arrive(s, sig))
      PROVE  Open(s) /\ From(s)' = From(s)
  <2>1. Open(s)
    BY <1>1, StageWas DEF Open
  <2>2. sends[s].pc # "idle"
    BY <2>1, RequestIs DEF Open, NoRequest
  <2> QED
    BY <2>1, <2>2, RelayerStepTyped DEF SigsKept, From
<1>2. ASSUME NEW r \in Sends, NEW sig \in Signatures, Arrive(r, sig), NEW s \in Sends, s # r,
             Open(s)', From(s)' = From(r)', From(r)' \in Patient
      PROVE  FALSE
  <2>1. ~(\E g \in Signatures : Arrive(s, g))
    <3>1. PICK c : sends' = [sends EXCEPT ![r] = c]
      BY <1>2 DEF Arrive, Call, Goto
    <3>2. PICK q : request' = [request EXCEPT ![r] = q]
      BY <1>2 DEF Arrive
    <3>3. ASSUME NEW g \in Signatures, Arrive(s, g)
          PROVE  FALSE
      <4>1. request'[s] = request[s] /\ sends[s].pc = "idle"
        BY <1>2, <3>2, <3>3 DEF RelayInv, RelayTyped, Arrive, At
      <4> QED
        BY <1>2, <4>1, RequestIs DEF Open, NoRequest
    <3> QED
      BY <3>3
  <2>2. Open(s) /\ From(s)' = From(s)
    BY <1>1, <1>2, <2>1
  <2>3. PICK q : q = [sig |-> sig, stage |-> "checks"]
    OBVIOUS
  <2>4. request' = [request EXCEPT ![r] = q] /\ q.sig = sig
    BY <1>2, <2>3 DEF Arrive
  <2>5. From(r)' = sig[1]
    BY <2>4 DEF RelayInv, RelayTyped, From
  <2> QED
    BY <1>2, <2>2, <2>5 DEF Arrive
<1>3. ASSUME NEW r \in Sends, NEW s \in Sends, Open(r)', Open(s)', From(r)' = From(s)',
             From(r)' \in Patient
      PROVE  r = s
  <2>1. CASE \/ \E sig \in Signatures : Arrive(r, sig)
             \/ \E sig \in Signatures : Arrive(s, sig)
    BY <1>2, <1>3, <2>1
  <2>2. CASE ~(\E sig \in Signatures : Arrive(r, sig)) /\ ~(\E sig \in Signatures : Arrive(s, sig))
    BY <1>1, <1>3, <2>2 DEF OneOpen
  <2> QED
    BY <2>1, <2>2
<1> QED
  BY <1>3 DEF OneOpen

\* What the purse remembers has been through the checks.
LEMMA KnownIs ==
    ASSUME RelayInv, MetaTracked, NEW s \in Sends, s \in meta \/ sends[s].pc = "track"
    PROVE  sends[s].pc # "idle" /\ request[s].stage \in {"sending", "closed"}
           /\ (sends[s].pc = "track" => request[s].stage = "sending")
<1>1. sends[s].pc \in {"track", "raw", "count", "sent", "failed"}
  BY DEF MetaTracked, RelayInv, Wellformed, Followed
<1>2. request[s].stage \in StagesOf(sends[s].pc)
  BY RequestIs
<1> QED
  BY <1>1, <1>2 DEF StagesOf

LEMMA LiveWas ==
    ASSUME RelayInv, LoopMined, MetaTracked, RelayerNext \/ UNCHANGED vars, NEW s \in Sends, Live(s)'
    PROVE  /\ Live(s) \/ (Passes(s) /\ Open(s) /\ request'[s].stage = "nonce")
           /\ From(s)' = From(s) /\ Asked(s)' = Asked(s) /\ IsCreation(s)' = IsCreation(s)
<1>1. s \notin mined'
  BY DEF Live
<1>2. s \notin mined /\ (s \in meta' => s \in meta \/ sends[s].pc = "track")
  BY <1>1, RelayerStepIsOfPurse, PoolGrows, MetaStep DEF RelayInv
<1>3. CASE s \in meta'
  <2>1. sends[s].pc # "idle" /\ Live(s)
    BY <1>2, <1>3, KnownIs DEF Live
  <2> QED
    BY <2>1, RelayerStepTyped DEF SigsKept, From, Asked, IsCreation
<1>4. CASE request'[s].stage \in {"nonce", "sending"}
  <2>1. Live(s) \/ (Passes(s) /\ Open(s) /\ request'[s].stage = "nonce")
    BY <1>2, <1>4, StageWas DEF Live, Open
  <2>2. sends[s].pc # "idle"
    <3>1. request[s].stage \in {"nonce", "sending", "checks"}
      BY <1>4, StageWas
    <3> QED
      BY <3>1, RequestIs DEF NoRequest
  <2> QED
    BY <2>1, <2>2, RelayerStepTyped DEF SigsKept, From, Asked, IsCreation
<1> QED
  BY <1>3, <1>4 DEF Live

LEMMA OneLiveStep ==
    ASSUME RelayInv, LoopMined, MetaTracked, OneOpen, OneLive, Current,
           RelayerNext \/ UNCHANGED vars
    PROVE  OneLive'
<1>1. ASSUME NEW r \in Sends, NEW s \in Sends, Passes(r), Open(r), Live(s) \/ Open(s),
             From(r) = From(s), From(r) \in Patient
      PROVE  r = s
  <2>1. s \notin meta
    <3>1. ASSUME s \in meta
          PROVE  FALSE
      <4>1. IsCreation(s) /\ ~IsCreation(r) /\ proxies[From(r)] >= 0
        BY <1>1, <3>1 DEF Passes, HasPending
      <4>2. request[s].stage \in {"sending", "closed"} /\ Live(s)
        <5>1. ~Open(s)
          BY <1>1, <4>1 DEF OneOpen
        <5> QED
          BY <1>1, <3>1, <5>1, KnownIs
      <4>3. proxies[From(s)] = Asked(s) - 1 /\ Asked(s) = 0
        BY <1>1, <4>1, <4>2 DEF Current, IsCreation, Create
      <4> QED
        BY <1>1, <4>1, <4>3
    <3> QED
      BY <3>1
  <2>2. Open(s)
    BY <1>1, <2>1 DEF Live, Open
  <2> QED
    BY <1>1, <2>2 DEF OneOpen
<1>2. ASSUME NEW r \in Sends, NEW s \in Sends, Live(r)', Live(s)', From(r)' = From(s)',
             From(r)' \in Patient
      PROVE  r = s
  <2>1. /\ Live(r) \/ (Passes(r) /\ Open(r))
        /\ Live(s) \/ (Passes(s) /\ Open(s))
        /\ From(r) = From(s) /\ From(r) \in Patient
    BY <1>2, LiveWas
  <2> QED
    BY <1>1, <2>1 DEF OneLive
<1> QED
  BY <1>2 DEF OneLive

\* A transaction that is mined was live, and asks for what comes next.
LEMMA ExecutedWasLive ==
    ASSUME RelayInv, MinedOnce, MetaTracked, Waited, NEW s \in Sends, Execute(s)
    PROVE  s \in pool /\ s \notin mined /\ Live(s) /\ request[s].stage # "nonce"
<1>1. s \in pool
  BY ExecuteIs
<1>2. s \notin mined /\ (s \in meta \/ sends[s].pc = "track")
  BY <1>1 DEF MinedOnce, Waited
<1> QED
  BY <1>1, <1>2, KnownIs DEF Live

LEMMA CurrentStep ==
    ASSUME RelayInv, MinedOnce, LoopMined, MetaTracked, Waited, OneLive, Current,
           RelayerNext \/ UNCHANGED vars
    PROVE  Current'
<1>1. ASSUME NEW r \in Sends, Live(r)', From(r)' \in Patient,
             request'[r].stage = "nonce" => IsCreation(r)'
      PROVE  proxies'[From(r)'] = Asked(r)' - 1
  <2>1. /\ Live(r) \/ (Passes(r) /\ Open(r) /\ request'[r].stage = "nonce")
        /\ From(r)' = From(r) /\ Asked(r)' = Asked(r) /\ IsCreation(r)' = IsCreation(r)
    BY <1>1, LiveWas
  <2>2. request[r] \in Requests /\ From(r) \in Users /\ Asked(r) \in 0 .. MaxNonce
    <3>1. sends[r].pc # "idle"
      <4>1. CASE Open(r) \/ request[r].stage \in {"nonce", "sending"}
        BY <4>1, RequestIs DEF Open, NoRequest
      <4>2. CASE r \in meta
        BY <4>2, KnownIs
      <4> QED
        BY <2>1, <4>1, <4>2 DEF Live
    <3> QED
      BY <3>1, RequestIs
  <2>3. proxies[From(r)] \in -1 .. MaxNonce
    BY <2>2 DEF RelayInv, RelayTyped
  <2>4. CASE UNCHANGED proxies
    <3>1. CASE Passes(r) /\ request'[r].stage = "nonce"
      <4>1. IsCreation(r) /\ proxies[From(r)] < 0
        BY <1>1, <2>1, <3>1 DEF Passes
      <4>2. Asked(r) = 0 /\ proxies[From(r)] = -1
        BY <2>2, <2>3, <4>1, Constants, RelayerAssumption DEF IsCreation, Create, RelayerAssumption
      <4> QED
        BY <2>1, <2>4, <4>2
    <3>2. CASE Live(r) /\ (request[r].stage = "nonce" => IsCreation(r))
      BY <1>1, <2>1, <2>4, <3>2 DEF Current
    <3>3. CASE Live(r) /\ request[r].stage = "nonce" /\ ~IsCreation(r)
      <4>1. request'[r].stage # "nonce"
        BY <1>1, <2>1, <3>3
      <4>2. ~(r \in meta \/ sends[r].pc = "track")
        BY <3>3, KnownIs
      <4>3. r \notin meta'
        BY <4>2, RelayerStepIsOfPurse, MetaStep DEF RelayInv
      <4>4. request'[r].stage = "sending"
        BY <1>1, <4>1, <4>3 DEF Live
      <4>5. Verified(r)
        BY <3>3, <4>4, StageWas
      <4>6. Asked(r) = proxies[From(r)] + 1
        BY <3>3, <4>5 DEF Verified
      <4>7. proxies[From(r)] = Asked(r) - 1
        BY <2>2, <2>3, <4>6
      <4> QED
        BY <2>1, <2>4, <4>7
    <3> QED
      BY <2>1, <3>1, <3>2, <3>3
  <2>5. ASSUME NEW s \in Sends, Execute(s)
        PROVE  proxies'[From(r)'] = Asked(r)' - 1
    <3>1. /\ UNCHANGED request /\ mined' = mined \cup {s}
          /\ From(s) \in Users
          /\ proxies' = proxies \/ proxies' = [proxies EXCEPT ![From(s)] = Asked(s)]
      BY <2>5, ExecuteIs DEF relay
    <3>2. r # s
      BY <1>1, <3>1 DEF Live
    <3>3. Live(r)
      <4>1. ~(Passes(r) /\ request'[r].stage = "nonce")
        BY <3>1 DEF Passes, CheckProxy
      <4> QED
        BY <2>1, <4>1
    <3>4. proxies[From(r)] = Asked(r) - 1
      BY <1>1, <2>1, <3>1, <3>3 DEF Current
    <3>5. From(s) # From(r)
      BY <1>1, <2>1, <2>5, <3>2, <3>3, ExecutedWasLive DEF OneLive
    <3>6. proxies'[From(r)] = proxies[From(r)]
      BY <2>2, <3>1, <3>5 DEF RelayInv, RelayTyped
    <3> QED
      BY <2>1, <3>4, <3>6
  <2> QED
    BY <2>4, <2>5, OutcomeStep
<1> QED
  BY <1>1 DEF Current

LEMMA InTimeStep ==
    ASSUME RelayInv, MinedOnce, MetaTracked, Waited, Current, InTime, RelayerNext \/ UNCHANGED vars
    PROVE  InTime'
<1>1. ASSUME NEW r \in Sends, outcome'[r] \in {"stale", "hollow"}, outcome'[r] = outcome[r]
      PROVE  From(r)' \notin Patient
  <2>1. r \in mined
    BY <1>1 DEF MinedOnce
  <2>2. sends[r].pc # "idle"
    BY <2>1, SentIs DEF Out, RelayInv
  <2>3. From(r)' = From(r)
    BY <2>2, RelayerStepTyped DEF SigsKept, From
  <2> QED
    BY <1>1, <2>3 DEF InTime
<1>2. ASSUME NEW s \in Sends, Execute(s), NEW r \in Sends, outcome'[r] \in {"stale", "hollow"}
      PROVE  From(r)' \notin Patient
  <2>1. UNCHANGED request
    BY <1>2, ExecuteIs DEF relay
  <2>2. PICK effect \in {"done", "reverted", "stale", "hollow"} :
          /\ outcome' = [outcome EXCEPT ![s] = effect]
          /\ effect \in {"stale", "hollow"} => proxies[From(s)] # Asked(s) - 1
    BY <1>2, ExecuteIs
  <2>3. outcome'[s] = effect /\ \A t \in Sends \ {s} : outcome'[t] = outcome[t]
    BY <2>2 DEF RelayInv, RelayTyped
  <2>4. CASE r = s
    <3>1. proxies[From(s)] # Asked(s) - 1
      BY <1>2, <2>2, <2>3, <2>4
    <3>2. From(s) \notin Patient
      BY <1>2, <3>1, ExecutedWasLive DEF Current
    <3> QED
      BY <2>1, <2>4, <3>2 DEF From
  <2>5. CASE r # s
    BY <1>1, <1>2, <2>3, <2>5
  <2> QED
    BY <2>4, <2>5
<1> QED
  BY <1>1, <1>2, OutcomeStep DEF InTime

LEMMA RunsOn ==
    ASSUME crashes \in Nat, PurseStep \/ UNCHANGED purse
    PROVE  crashes' \in Nat /\ (crashes' = 0 => crashes = 0 /\ ~Crash)
<1>1. Crash => crashes' \in Nat /\ crashes' # 0
  BY DEF Crash
<1>2. ASSUME NEW r \in Sends, Call(r) \/ Sending(r) \/ Refusal(r)
      PROVE  crashes' = crashes
  BY <1>2 DEF Call, Refusal, Sending, SendTx, LookUp, Consider, Select, Timeout, Sign, GasTooHigh,
         Send, Track, SaveRaw, Count
<1>3. ASSUME \/ \E r \in Sends : Processing(r) \/ Mine(r) \/ Drop(r)
             \/ Booting \/ (\E a \in Children : SweepLock(a)) \/ UNCHANGED purse
      PROVE  crashes' = crashes
  BY <1>3 DEF Processing, SeeReceipt, RemovePending, Adjust, Rebroadcast, Mine, Drop, Booting,
         InitAccount, ListPending, Ready, LoadPending, SweepLock, purse
<1> QED
  BY <1>1, <1>2, <1>3 DEF PurseStep, Next

(* A user who waits for each answer never has a transaction mined in vain, with a nonce that
   another one has used up, as long as the relayer is not restarted: the checks on pending
   transactions suffice, with any number of users, accounts and overlapping requests. *)
THEOREM PatientNeverInVain == RelayerSpec => []NothingInVain
<1> DEFINE Steady == Waited /\ OneLive /\ Current /\ InTime
           Inv == /\ RelayInv /\ MinedOnce /\ LoopMined /\ MetaTracked /\ OneOpen
                  /\ crashes \in Nat /\ (crashes = 0 => Steady)
<1>1. RelayerInit => Inv
  <2> SUFFICES ASSUME RelayerInit
               PROVE  Inv
    OBVIOUS
  <2>1. RelayInv
    BY RelayerStarts
  <2>2. \A r \in Sends : request[r] = NoRequest /\ NoRequest.stage = "none" /\ outcome[r] = "none"
    BY DEF RelayerInit, NoRequest
  <2>3. meta = {} /\ pool = {} /\ mined = {} /\ Followees = {} /\ tracked = {} /\ loop.pc = "idle"
    BY DEF RelayerInit, Init, Followees, Settling, Resting, Down
  <2>4. MinedOnce /\ LoopMined /\ MetaTracked /\ OneOpen /\ Waited
    BY <2>2, <2>3 DEF MinedOnce, LoopMined, MetaTracked, OneOpen, Open, Waited
  <2>5. OneLive /\ Current /\ InTime
    BY <2>2, <2>3 DEF OneLive, Live, Current, InTime
  <2> QED
    BY <2>1, <2>4, <2>5 DEF RelayerInit, Init
<1>2. Inv /\ [RelayerNext]_vars => Inv'
  <2> SUFFICES ASSUME Inv, RelayerNext \/ UNCHANGED vars
               PROVE  Inv'
    OBVIOUS
  <2>1. RelayInv' /\ MinedOnce' /\ OneOpen'
    BY RelayerStepTyped, MinedOnceStep, OneOpenStep
  <2>2. PurseStep \/ UNCHANGED purse
    BY RelayerStepIsOfPurse
  <2>3. LoopMined' /\ MetaTracked'
    BY <2>2, LoopMinedStep, MetaStep DEF RelayInv
  <2>4. crashes' \in Nat /\ (crashes' = 0 => crashes = 0 /\ ~Crash)
    BY <2>2, RunsOn
  <2>5. ASSUME crashes = 0, ~Crash
        PROVE  Steady'
    <3>1. Steady
      BY <2>5
    <3>2. Waited'
      BY <2>2, <2>5, <3>1, WaitedStep DEF RelayInv, MinedOnce
    <3>3. OneLive' /\ Current' /\ InTime'
      BY <3>1, OneLiveStep, CurrentStep, InTimeStep
    <3> QED
      BY <3>2, <3>3
  <2> QED
    BY <2>1, <2>3, <2>4, <2>5
<1>3. Inv => NothingInVain
  BY DEF InTime, NothingInVain
<1> QED
  BY <1>1, <1>2, <1>3, PTL DEF RelayerSpec

-----------------------------------------------------------------------------
(* Nonces: accounts in the hands of calls *)

Issuing == {"send", "track", "raw", "count"}
Holding == {"looking", "nonce"} \cup Issuing

\* The call r works with the account a, alone and under its lock.
Holds(r, a) == sends[r].best = a /\ sends[r].pc \in Holding

Alone  == \A r, s \in Sends : \A a \in Children : Holds(r, a) /\ Holds(s, a) => r = s
Locked == \A r \in Sends : \A a \in Children : Holds(r, a) => accounts[a].locked
Owns   == \A r \in Sends : sends[r].pc \in Issuing => tx[r].from = sends[r].best

HoldInv == Alone /\ Locked /\ Owns

\* A call that has an account in its hands got it before, or gets it now.
Gets(r, a) ==
    /\ ~accounts[a].locked /\ accounts'[a].locked
    /\ sends[r].pc = "looking" /\ sends'[r].pc = "looking"
    /\ \A s \in Sends \ {r} : sends'[s] = sends[s]

LEMMA CallReplaced ==
    ASSUME Wellformed, NEW r \in Sends, NEW c, sends' = [sends EXCEPT ![r] = c]
    PROVE  sends'[r] = c /\ \A s \in Sends \ {r} : sends'[s] = sends[s]
<1>1. sends \in [Sends -> Calls]
  BY TypesAre
<1> QED
  BY <1>1

LEMMA ConsiderHolds ==
    ASSUME Wellformed, NEW r \in Sends, Consider(r)
    PROVE  \A s \in Sends : \A a \in Children : Holds(s, a)' => Holds(s, a) \/ Gets(s, a)
<1>1. PICK d \in Calls : d = sends[r] /\ d.pc = "looking" /\ d.child \in Nat
  BY CallIs DEF Consider, At
<1>2. PICK b : b = d.child
  OBVIOUS
<1>3. CASE Available(r, b)
  <2>1. PICK c : c = [d EXCEPT !.best = b, !.child = b + 1, !.lowest = accounts[b].pendingCount]
    OBVIOUS
  <2>2. c.best = b /\ c.pc = "looking"
    BY <1>1, <2>1 DEF Calls
  <2>3. sends' = [sends EXCEPT ![r] = c] /\ accounts' = [accounts EXCEPT ![b].locked = TRUE]
    BY <1>1, <1>2, <1>3, <2>1 DEF Consider
  <2>4. sends'[r] = c /\ \A s \in Sends \ {r} : sends'[s] = sends[s]
    BY <2>3, CallReplaced
  <2>5. ~accounts[b].locked /\ (b \in Children => accounts'[b].locked)
    BY <1>3, <2>3, TypesAre DEF Available, AccountTable
  <2>6. ASSUME NEW a \in Children, Holds(r, a)'
        PROVE  Gets(r, a)
    BY <1>1, <2>2, <2>4, <2>5, <2>6 DEF Holds, Gets
  <2> QED
    BY <2>4, <2>6 DEF Holds
<1>4. CASE ~Available(r, b)
  <2>1. PICK c : c = [d EXCEPT !.child = b + 1]
    OBVIOUS
  <2>2. c.best = d.best /\ c.pc = "looking"
    BY <1>1, <2>1 DEF Calls
  <2>3. sends' = [sends EXCEPT ![r] = c]
    BY <1>1, <1>2, <1>4, <2>1 DEF Consider
  <2> QED
    BY <1>1, <2>2, <2>3, CallReplaced DEF Holds
<1> QED
  BY <1>3, <1>4

LEMMA SelectHolds ==
    ASSUME Wellformed, NEW r \in Sends, Select(r) \/ LookUp(r)
    PROVE  \A s \in Sends : \A a \in Children : Holds(s, a)' => Holds(s, a)
<1>1. CASE Select(r) /\ sends[r].best # 0
  <2>1. PICK c \in Calls : sends' = [sends EXCEPT ![r] = c] /\ c.pc = "nonce" /\ c.best = sends[r].best
    BY <1>1, ChosenIs
  <2> QED
    BY <1>1, <2>1, CallReplaced DEF Holds, Holding, Select, At
<1>2. CASE Select(r) /\ sends[r].best = 0
  <2>1. PICK d \in Calls : d = sends[r]
    BY TypesAre
  <2>2. PICK c : c = [d EXCEPT !.child = 1]
    OBVIOUS
  <2>3. c.best = 0 /\ sends' = [sends EXCEPT ![r] = c]
    BY <1>2, <2>1, <2>2 DEF Select, Calls
  <2> QED
    BY <2>3, CallReplaced, Constants DEF Holds, Children
<1>3. CASE LookUp(r)
  <2>1. PICK c : c = [pc |-> "looking", child |-> 1, best |-> 0, lowest |-> MaxPending]
    OBVIOUS
  <2>2. c.best = 0 /\ sends' = [sends EXCEPT ![r] = c]
    BY <1>3, <2>1 DEF LookUp
  <2> QED
    BY <2>2, CallReplaced, Constants DEF Holds, Children
<1> QED
  BY <1>1, <1>2, <1>3

LEMMA GoesOnHolds ==
    ASSUME Wellformed, NEW r \in Sends, NEW pc \in Pcs, Goto(r, pc),
           pc \in Holding => sends[r].pc \in Holding
    PROVE  \A s \in Sends : \A a \in Children : Holds(s, a)' => Holds(s, a)
<1>1. PICK c \in Calls : sends' = [sends EXCEPT ![r] = c] /\ c.pc = pc /\ c.best = sends[r].best
  BY GotoIs
<1> QED
  BY <1>1, CallReplaced DEF Holds

LEMMA HoldersStep ==
    ASSUME Wellformed, PurseStep \/ UNCHANGED purse
    PROVE  \A r \in Sends : \A a \in Children : Holds(r, a)' => Holds(r, a) \/ Gets(r, a)
<1> DEFINE Goal == \A s \in Sends : \A a \in Children : Holds(s, a)' => Holds(s, a) \/ Gets(s, a)
<1>1. ASSUME NEW r \in Sends,
             Call(r) \/ SendTx(r) \/ Timeout(r) \/ GasTooHigh(r) \/ Refusal(r) \/ Count(r)
      PROVE  Goal
  <2>1. PICK pc \in {"init", "called", "waiting", "failed", "sent"} : Goto(r, pc)
    BY <1>1 DEF Call, SendTx, Timeout, GasTooHigh, Refusal, Count, Goto
  <2>2. pc \in Pcs /\ pc \notin Holding
    BY DEF Pcs, Holding, Issuing
  <2> QED
    BY <2>1, <2>2, GoesOnHolds
<1>2. ASSUME NEW r \in Sends, Sign(r) \/ Send(r) \/ Track(r) \/ SaveRaw(r)
      PROVE  Goal
  <2>1. PICK pc \in {"send", "track", "raw", "count"} : Goto(r, pc)
    BY <1>2 DEF Sign, Send, Track, SaveRaw
  <2>2. pc \in Pcs /\ sends[r].pc \in Holding
    BY <1>2 DEF Pcs, Holding, Issuing, Sign, Send, Track, SaveRaw, At
  <2> QED
    BY <2>1, <2>2, GoesOnHolds
<1>3. CASE Ready
  <2>1. ASSUME NEW s \in Sends
        PROVE  sends'[s] = sends[s] \/ sends'[s].pc = "called"
    <3>1. PICK d \in Calls : d = sends[s]
      BY TypesAre
    <3>2. sends'[s] = IF d.pc = "init" THEN [d EXCEPT !.pc = "called"] ELSE d
      BY <1>3, <3>1 DEF Ready, At
    <3>3. [d EXCEPT !.pc = "called"].pc = "called"
      BY DEF Calls
    <3> QED
      BY <3>1, <3>2, <3>3
  <2> QED
    BY <2>1 DEF Holds, Holding, Issuing
<1>4. CASE Crash
  <2>1. ASSUME NEW s \in Sends
        PROVE  sends'[s].pc \in {"idle", "sent", "failed"}
    <3>1. PICK d \in Calls : d = sends[s]
      BY TypesAre
    <3>2. sends'[s] = IF d.pc \in {"idle", "sent", "failed"} THEN d ELSE [d EXCEPT !.pc = "failed"]
      BY <1>4, <3>1 DEF Crash
    <3>3. [d EXCEPT !.pc = "failed"].pc = "failed"
      BY DEF Calls
    <3> QED
      BY <3>1, <3>2, <3>3
  <2> QED
    BY <2>1 DEF Holds, Holding, Issuing
<1>5. ASSUME UNCHANGED sends
      PROVE  Goal
  BY <1>5 DEF Holds
<1>6. \/ \E r \in Sends : Call(r) \/ Sending(r) \/ Refusal(r)
      \/ Ready \/ Crash \/ UNCHANGED sends
  BY DEF PurseStep, Next, Booting, Processing, InitAccount, ListPending, LoadPending, SeeReceipt,
         RemovePending, Adjust, Rebroadcast, Mine, Drop, SweepLock, purse
<1> QED
  BY <1>1, <1>2, <1>3, <1>4, <1>5, <1>6, ConsiderHolds, SelectHolds DEF Sending

LEMMA HoldsBooted ==
    ASSUME Wellformed, HoldInv, NEW r \in Sends, NEW a \in Children, Holds(r, a)
    PROVE  a <= boot.children
<1>1. CASE sends[r].pc \in Issuing
  BY <1>1, PlacedIs DEF PlacedAt, Issuing, HoldInv, Owns, Holds
<1> QED
  BY <1>1, PlacedIs, Shapes DEF PlacedAt, Holds, Holding

\* A lock is opened by the call that has the account, or when no call has it.
LEMMA LocksStep ==
    ASSUME Wellformed, HoldInv, PurseStep \/ UNCHANGED purse, NEW a \in Children,
           accounts[a].locked, ~accounts'[a].locked
    PROVE  Crash \/ (\E r \in Sends : Count(r) /\ Holds(r, a)) \/ \A s \in Sends : ~Holds(s, a)
<1>1. ASSUME NEW r \in Sends, Consider(r) \/ Select(r)
      PROVE  FALSE
  <2>1. accounts' = accounts \/ \E b : accounts' = [accounts EXCEPT ![b].locked = TRUE]
    BY <1>1 DEF Consider, Select
  <2> QED
    BY <2>1, TypesAre DEF AccountTable
<1>2. ASSUME NEW r \in Sends, Count(r)
      PROVE  Holds(r, a)
  <2>1. PICK e : accounts' = [accounts EXCEPT ![tx[r].from] = e]
    BY <1>2 DEF Count
  <2>2. tx[r].from = a
    BY <2>1, TypesAre DEF AccountTable
  <2> QED
    BY <1>2, <2>2 DEF Count, At, HoldInv, Owns, Issuing, Holding, Holds
<1>3. CASE InitAccount
  <2>1. PICK e : accounts' = [accounts EXCEPT ![boot.children + 1] = e]
    BY <1>3 DEF InitAccount
  <2>2. a = boot.children + 1 /\ ~(a <= boot.children)
    BY <2>1, TypesAre, Shapes DEF AccountTable
  <2> QED
    BY <2>2, HoldsBooted
<1>4. ASSUME NEW b \in Children, SweepLock(b)
      PROVE  \A s \in Sends : ~Holds(s, a)
  <2>1. a = b
    BY <1>4, TypesAre DEF SweepLock, AccountTable
  <2> QED
    BY <1>4, <2>1 DEF SweepLock, Held, Holds, Holding, Issuing
<1>5. ASSUME NEW r \in Sends, LoadPending(r) \/ Adjust(r)
      PROVE  FALSE
  <2>1. PICK n : \/ accounts' = accounts
                 \/ accounts' = [accounts EXCEPT ![tx[r].from].pendingCount = n]
    BY <1>5 DEF LoadPending, LoadCount, Adjust
  <2>2. PICK T \in AccountTable : T = accounts
    BY TypesAre
  <2>3. accounts'[a].locked = accounts[a].locked
    BY <2>1, <2>2 DEF AccountTable
  <2> QED
    BY <2>3
<1>6. ASSUME NEW r \in Sends,
             \/ Call(r) \/ SendTx(r) \/ LookUp(r) \/ Timeout(r) \/ Sign(r) \/ GasTooHigh(r)
             \/ Send(r) \/ Track(r) \/ SaveRaw(r) \/ Refusal(r)
      PROVE  FALSE
  BY <1>6 DEF Call, SendTx, LookUp, Timeout, Sign, GasTooHigh, Send, Track, SaveRaw, Refusal, memory
<1>7. ASSUME \/ \E r \in Sends : \/ SeeReceipt(r) \/ RemovePending(r) \/ Rebroadcast(r)
                                 \/ Mine(r) \/ Drop(r)
             \/ ListPending \/ Ready \/ UNCHANGED purse
      PROVE  FALSE
  BY <1>7 DEF SeeReceipt, RemovePending, Rebroadcast, Mine, Drop, ListPending, Ready, purse, memory
<1> QED
  BY <1>1, <1>2, <1>3, <1>4, <1>5, <1>6, <1>7 DEF PurseStep, Next, Booting, Sending, Processing

\* Calls without a transaction.
Blank == {"idle", "init", "called", "waiting", "looking", "nonce", "failed"}

\* How calls and their transactions move on.
MovesOn(s) ==
    \/ sends'[s].pc = sends[s].pc
    \/ Sign(s) /\ sends'[s].pc = "send"
    \/ Send(s) /\ sends'[s].pc = "track"
    \/ Track(s) /\ sends'[s].pc = "raw"
    \/ SaveRaw(s) /\ sends'[s].pc = "count"
    \/ Count(s) /\ sends'[s].pc = "sent"

LEMMA CallStep ==
    ASSUME Wellformed, PurseStep \/ UNCHANGED purse, ~Crash, NEW s \in Sends
    PROVE  \/ sends[s].pc \in Blank /\ sends'[s].pc \in Blank
           \/ sends'[s].best = sends[s].best /\ MovesOn(s)
<1> DEFINE Goal == \/ sends[s].pc \in Blank /\ sends'[s].pc \in Blank
                   \/ sends'[s].best = sends[s].best /\ MovesOn(s)
<1>1. ASSUME NEW r \in Sends, Call(r) \/ SendTx(r) \/ Timeout(r) \/ GasTooHigh(r) \/ Refusal(r)
      PROVE  Goal
  <2>1. PICK pc \in {"init", "called", "waiting", "failed"} : Goto(r, pc)
    BY <1>1 DEF Call, SendTx, Timeout, GasTooHigh, Refusal, Goto
  <2>2. pc \in Pcs /\ pc \in Blank /\ sends[r].pc \in Blank
    BY <1>1 DEF Pcs, Blank, Call, SendTx, Timeout, GasTooHigh, Refusal, At
  <2>3. PICK c \in Calls : sends' = [sends EXCEPT ![r] = c] /\ c.pc = pc
    BY <2>1, <2>2, GotoIs
  <2> QED
    BY <2>2, <2>3, CallReplaced DEF MovesOn
<1>2. ASSUME NEW r \in Sends, LookUp(r) \/ Consider(r) \/ Select(r)
      PROVE  Goal
  <2>1. PICK d \in Calls : d = sends[r] /\ d.pc \in {"waiting", "looking"}
    BY <1>2, TypesAre DEF LookUp, Consider, Select, At
  <2>2. PICK c : sends' = [sends EXCEPT ![r] = c] /\ c.pc \in {"looking", "nonce"}
    <3>1. CASE LookUp(r)
      <4>1. PICK c : c = [pc |-> "looking", child |-> 1, best |-> 0, lowest |-> MaxPending]
        OBVIOUS
      <4>2. sends' = [sends EXCEPT ![r] = c] /\ c.pc = "looking"
        BY <3>1, <4>1 DEF LookUp
      <4> QED
        BY <4>2
    <3>2. CASE Consider(r) /\ Available(r, sends[r].child)
      <4>1. PICK c : c = [d EXCEPT !.best = d.child, !.child = d.child + 1,
                                     !.lowest = accounts[d.child].pendingCount]
        OBVIOUS
      <4>2. sends' = [sends EXCEPT ![r] = c] /\ d.pc = "looking"
        BY <2>1, <3>2, <4>1 DEF Consider, At
      <4>3. c.pc = "looking"
        BY <4>1, <4>2 DEF Calls
      <4> QED
        BY <4>2, <4>3
    <3>3. CASE Consider(r) /\ ~Available(r, sends[r].child)
      <4>1. PICK c : c = [d EXCEPT !.child = d.child + 1]
        OBVIOUS
      <4>2. sends' = [sends EXCEPT ![r] = c] /\ d.pc = "looking"
        BY <2>1, <3>3, <4>1 DEF Consider, At
      <4>3. c.pc = "looking"
        BY <4>1, <4>2 DEF Calls
      <4> QED
        BY <4>2, <4>3
    <3>4. CASE Select(r) /\ d.best # 0
      BY <2>1, <3>4, ChosenIs
    <3>5. CASE Select(r) /\ d.best = 0
      <4>1. PICK c : c = [d EXCEPT !.child = 1]
        OBVIOUS
      <4>2. sends' = [sends EXCEPT ![r] = c] /\ d.pc = "looking"
        BY <2>1, <3>5, <4>1 DEF Select, At
      <4>3. c.pc = "looking"
        BY <4>1, <4>2 DEF Calls
      <4> QED
        BY <4>2, <4>3
    <3> QED
      BY <1>2, <3>1, <3>2, <3>3, <3>4, <3>5
  <2> QED
    BY <2>1, <2>2, CallReplaced DEF MovesOn, Blank
<1>3. ASSUME NEW r \in Sends, Sign(r) \/ Send(r) \/ Track(r) \/ SaveRaw(r) \/ Count(r)
      PROVE  Goal
  <2>1. PICK pc \in {"send", "track", "raw", "count", "sent"} :
          /\ Goto(r, pc)
          /\ \/ Sign(r) /\ pc = "send"
             \/ Send(r) /\ pc = "track"
             \/ Track(r) /\ pc = "raw"
             \/ SaveRaw(r) /\ pc = "count"
             \/ Count(r) /\ pc = "sent"
    BY <1>3 DEF Sign, Send, Track, SaveRaw, Count
  <2>2. pc \in Pcs
    BY DEF Pcs
  <2>3. PICK c \in Calls : sends' = [sends EXCEPT ![r] = c] /\ c.pc = pc /\ c.best = sends[r].best
    BY <2>1, <2>2, GotoIs
  <2>4. sends'[r] = c /\ \A t \in Sends \ {r} : sends'[t] = sends[t]
    BY <2>3, CallReplaced
  <2>5. CASE s = r
    BY <2>1, <2>3, <2>4, <2>5 DEF MovesOn
  <2>6. CASE s # r
    BY <2>4, <2>6 DEF MovesOn
  <2> QED
    BY <2>5, <2>6
<1>4. CASE Ready
  <2>1. PICK d \in Calls : d = sends[s]
    BY TypesAre
  <2>2. sends'[s] = IF d.pc = "init" THEN [d EXCEPT !.pc = "called"] ELSE d
    BY <1>4, <2>1 DEF Ready, At
  <2>3. [d EXCEPT !.pc = "called"].pc = "called"
    BY DEF Calls
  <2> QED
    BY <2>1, <2>2, <2>3 DEF Blank, MovesOn
<1>5. ASSUME UNCHANGED sends
      PROVE  Goal
  BY <1>5 DEF MovesOn
<1>6. \/ \E r \in Sends : Call(r) \/ Sending(r) \/ Refusal(r)
      \/ Ready \/ UNCHANGED sends
  BY DEF PurseStep, Next, Booting, Processing, InitAccount, ListPending, LoadPending, SeeReceipt,
         RemovePending, Adjust, Rebroadcast, Mine, Drop, SweepLock, purse
<1> QED
  BY <1>1, <1>2, <1>3, <1>4, <1>5, <1>6 DEF Sending

\* After a restart no call is under way.
LEMMA CrashEnds ==
    ASSUME Wellformed, Crash, NEW s \in Sends
    PROVE  sends'[s].pc \in {"idle", "sent", "failed"}
<1>1. PICK d \in Calls : d = sends[s]
  BY TypesAre
<1>2. sends'[s] = IF d.pc \in {"idle", "sent", "failed"} THEN d ELSE [d EXCEPT !.pc = "failed"]
  BY <1>1 DEF Crash
<1>3. [d EXCEPT !.pc = "failed"].pc = "failed"
  BY DEF Calls
<1> QED
  BY <1>1, <1>2, <1>3

LEMMA TxStep ==
    ASSUME Wellformed, PurseStep \/ UNCHANGED purse, NEW s \in Sends
    PROVE  tx'[s] = tx[s] \/ (Sign(s) /\ sends[s].pc = "nonce")
<1>1. ASSUME NEW r \in Sends, Sign(r)
      PROVE  tx'[s] = tx[s] \/ r = s
  BY <1>1, TypesAre DEF Sign
<1>2. ASSUME NEW r \in Sends, Call(r) \/ Sending(r) \/ Refusal(r), ~Sign(r)
      PROVE  tx' = tx
  BY <1>2 DEF Call, Refusal, Sending, SendTx, LookUp, Consider, Select, Timeout, GasTooHigh,
         Send, Track, SaveRaw, Count
<1>3. ASSUME \/ \E r \in Sends : Processing(r) \/ Mine(r) \/ Drop(r)
             \/ Booting \/ Crash \/ (\E a \in Children : SweepLock(a)) \/ UNCHANGED purse
      PROVE  tx' = tx
  BY <1>3 DEF Processing, SeeReceipt, RemovePending, Adjust, Rebroadcast, Mine, Drop, Booting,
         InitAccount, ListPending, Ready, LoadPending, SweepLock, Crash, purse
<1> QED
  BY <1>1, <1>2, <1>3 DEF PurseStep, Next, Sign, At

LEMMA HoldStep ==
    ASSUME Wellformed, HoldInv, PurseStep \/ UNCHANGED purse
    PROVE  HoldInv'
<1>1. Alone'
  <2>1. ASSUME NEW r \in Sends, NEW s \in Sends, NEW a \in Children, Gets(r, a), Holds(s, a)'
        PROVE  r = s
    <3>1. r # s => Holds(s, a)
      BY <2>1 DEF Gets, Holds
    <3> QED
      BY <2>1, <3>1 DEF HoldInv, Locked, Gets
  <2>2. ASSUME NEW r \in Sends, NEW s \in Sends, NEW a \in Children, Holds(r, a)', Holds(s, a)'
        PROVE  r = s
    BY <2>1, <2>2, HoldersStep DEF HoldInv, Alone
  <2> QED
    BY <2>2 DEF Alone
<1>2. Locked'
  <2>1. ASSUME NEW r \in Sends, NEW a \in Children, Holds(r, a)', ~accounts'[a].locked
        PROVE  FALSE
    <3>1. Holds(r, a) /\ accounts[a].locked
      BY <2>1, HoldersStep DEF HoldInv, Locked, Gets
    <3>2. CASE Crash
      BY <2>1, <3>2, CrashEnds DEF Holds, Holding, Issuing
    <3>3. ASSUME NEW s \in Sends, Count(s), Holds(s, a)
          PROVE  FALSE
      <4>1. s = r
        BY <3>1, <3>3 DEF HoldInv, Alone
      <4>2. sends'[s].pc = "sent"
        <5>1. Goto(s, "sent") /\ "sent" \in Pcs
          BY <3>3 DEF Count, Pcs
        <5> QED
          BY <5>1, GotoPc DEF Pc
      <4> QED
        BY <2>1, <4>1, <4>2 DEF Holds, Holding, Issuing
    <3> QED
      BY <2>1, <3>1, <3>2, <3>3, LocksStep
  <2> QED
    BY <2>1 DEF Locked
<1>3. Owns'
  <2>1. ASSUME NEW s \in Sends, sends'[s].pc \in Issuing
        PROVE  tx'[s].from = sends'[s].best
    <3>1. ~Crash /\ sends'[s].pc \notin Blank
      BY <2>1, CrashEnds DEF Issuing, Blank
    <3>2. sends'[s].best = sends[s].best /\ MovesOn(s)
      BY <3>1, CallStep
    <3>3. CASE Sign(s)
      <4>1. PICK t : t = [from |-> sends[s].best, nonce |-> TxCount(sends[s].best)]
        OBVIOUS
      <4>2. tx' = [tx EXCEPT ![s] = t] /\ t.from = sends[s].best
        BY <3>3, <4>1 DEF Sign
      <4> QED
        BY <3>2, <4>2, TypesAre
    <3>4. CASE ~Sign(s)
      <4>1. tx'[s] = tx[s]
        BY <3>4, TxStep
      <4>2. sends[s].pc \in Issuing
        BY <2>1, <3>2, <3>4 DEF MovesOn, Issuing, Send, Track, SaveRaw, Count, At
      <4> QED
        BY <3>2, <4>1, <4>2 DEF HoldInv, Owns
    <3> QED
      BY <3>3, <3>4
  <2> QED
    BY <2>1 DEF Owns
<1> QED
  BY <1>1, <1>2, <1>3 DEF HoldInv

-----------------------------------------------------------------------------
(* Nonces: what the chain and the counts say *)

\* The chain has the nonces of an account in their order.
InOrder(a) ==
    /\ \A r \in Of(a, mined) : tx[r].nonce < NextNonce(a)
    /\ \A n \in Nat : n < NextNonce(a) => \E r \in Of(a, mined) : tx[r].nonce = n

ChainInv == pool \cap mined = {} /\ \A a \in Children : InOrder(a)

LEMMA MinedStep ==
    ASSUME Wellformed, PurseStep \/ UNCHANGED purse
    PROVE  mined' = mined \/ \E r \in Sends : Mine(r)
<1>1. ASSUME NEW r \in Sends, Call(r) \/ Sending(r) \/ Refusal(r) \/ Processing(r) \/ Drop(r)
      PROVE  mined' = mined
  BY <1>1 DEF Call, Refusal, Sending, SendTx, LookUp, Consider, Select, Timeout, Sign, GasTooHigh,
         Send, Track, SaveRaw, Count, Processing, SeeReceipt, RemovePending, Adjust, Rebroadcast,
         Drop, network
<1>2. ASSUME Booting \/ Crash \/ (\E a \in Children : SweepLock(a)) \/ UNCHANGED purse
      PROVE  mined' = mined
  BY <1>2 DEF Booting, InitAccount, ListPending, Ready, LoadPending, SweepLock, Crash, purse, network
<1> QED
  BY <1>1, <1>2 DEF PurseStep, Next

LEMMA OutKeepsTx ==
    ASSUME Wellformed, PurseStep \/ UNCHANGED purse, NEW s \in Sends, sends[s].pc \in Issuing \cup Out
    PROVE  tx'[s] = tx[s]
BY TxStep DEF Issuing, Out

LEMMA ChainStep ==
    ASSUME Wellformed, ChainInv, PurseStep \/ UNCHANGED purse
    PROVE  ChainInv'
<1>1. \A s \in mined : s \in Sends /\ tx'[s] = tx[s]
  BY SentIs, OutKeepsTx
<1>2. pool' \cap mined' = {}
  <2>1. ASSUME NEW r \in Sends, Mine(r)
        PROVE  pool' \cap mined' = {}
    BY <2>1 DEF Mine, ChainInv
  <2> QED
    BY <2>1, MinedStep, PoolStep DEF ChainInv
<1>3. ASSUME NEW a \in Children, mined' = mined
      PROVE  InOrder(a)'
  <2>1. Of(a, mined)' = Of(a, mined)
    BY <1>1, <1>3 DEF Of
  <2>2. NextNonce(a)' = NextNonce(a)
    BY <2>1 DEF NextNonce
  <2>3. \A s \in Of(a, mined) : tx'[s] = tx[s]
    BY <1>1 DEF Of
  <2>4. InOrder(a)
    BY DEF ChainInv
  <2> QED
    BY <2>1, <2>2, <2>3, <2>4 DEF InOrder
<1>4. ASSUME NEW a \in Children, NEW r \in Sends, Mine(r)
      PROVE  InOrder(a)'
  <2>1. tx' = tx /\ mined' = mined \cup {r} /\ r \notin mined /\ tx[r].nonce = NextNonce(tx[r].from)
    BY <1>4 DEF Mine, ChainInv
  <2>2. InOrder(a) /\ mined \subseteq Sends
    BY TypesAre DEF ChainInv
  <2>3. IsFiniteSet(Of(a, mined)) /\ NextNonce(a) \in Nat
    BY <2>2, OfIs DEF NextNonce
  <2>4. CASE tx[r].from = a
    <3>1. Of(a, mined)' = Of(a, mined) \cup {r} /\ r \notin Of(a, mined)
      BY <2>1, <2>4 DEF Of
    <3>2. NextNonce(a)' = NextNonce(a) + 1
      BY <2>3, <3>1, FS_AddElement DEF NextNonce
    <3>3. tx[r].nonce = NextNonce(a)
      BY <2>1, <2>4
    <3>4. \A s \in Of(a, mined)' : tx'[s].nonce < NextNonce(a)'
      <4>1. \A s \in Of(a, mined) : tx[s].nonce < NextNonce(a) /\ tx[s].nonce \in Nat
        BY <2>2, CallIs DEF InOrder, Of
      <4> QED
        BY <2>1, <2>3, <3>1, <3>2, <3>3, <4>1
    <3>5. ASSUME NEW n \in Nat, n < NextNonce(a)'
          PROVE  \E s \in Of(a, mined)' : tx'[s].nonce = n
      <4>1. n < NextNonce(a) \/ n = NextNonce(a)
        BY <2>3, <3>2, <3>5
      <4> QED
        BY <2>1, <2>2, <3>1, <3>3, <4>1 DEF InOrder
    <3> QED
      BY <3>4, <3>5 DEF InOrder
  <2>5. CASE tx[r].from # a
    <3>1. Of(a, mined)' = Of(a, mined)
      BY <2>1, <2>5 DEF Of
    <3>2. NextNonce(a)' = NextNonce(a)
      BY <3>1 DEF NextNonce
    <3> QED
      BY <2>1, <2>2, <3>1, <3>2 DEF InOrder
  <2> QED
    BY <2>4, <2>5
<1> QED
  BY <1>2, <1>3, <1>4, MinedStep DEF ChainInv

\* Nonce n of account a has reached the node.
Arrived(a, n) == \E r \in pool \cup mined : tx[r].from = a /\ tx[r].nonce = n

LEMMA PendingArrived ==
    ASSUME Wellformed, ChainInv, NEW a \in Children
    PROVE  /\ PendingNonce(a) \in Nat /\ ~Arrived(a, PendingNonce(a))
           /\ \A n \in Nat : n < PendingNonce(a) => Arrived(a, n)
<1>1. pool \subseteq Sends /\ mined \subseteq Sends /\ InOrder(a)
  BY TypesAre DEF ChainInv
<1>2. /\ NextNonce(a) \in Nat /\ PendingNonce(a) \in Nat /\ NextNonce(a) <= PendingNonce(a)
      /\ ~ \E r \in Of(a, pool) : tx[r].nonce = PendingNonce(a)
      /\ \A n \in Nat : NextNonce(a) <= n /\ n < PendingNonce(a)
           => \E r \in Of(a, pool) : tx[r].nonce = n
  BY <1>1, PendingNonceIs
<1>3. ~Arrived(a, PendingNonce(a))
  <2>1. ASSUME NEW r \in pool \cup mined, tx[r].from = a, tx[r].nonce = PendingNonce(a)
        PROVE  FALSE
    <3>1. r \in Of(a, mined)
      BY <1>2, <2>1 DEF Of
    <3>2. tx[r].nonce < NextNonce(a)
      BY <1>1, <3>1 DEF InOrder
    <3> QED
      BY <1>2, <2>1, <3>2
  <2> QED
    BY <2>1 DEF Arrived
<1>4. ASSUME NEW n \in Nat, n < PendingNonce(a)
      PROVE  Arrived(a, n)
  <2>1. n < NextNonce(a) \/ NextNonce(a) <= n
    BY <1>2
  <2>2. \E r \in Of(a, mined) \cup Of(a, pool) : tx[r].nonce = n
    BY <1>1, <1>2, <1>4, <2>1 DEF InOrder
  <2> QED
    BY <2>2 DEF Arrived, Of
<1> QED
  BY <1>2, <1>3, <1>4

\* An account whose transactions are all counted keeps its count when it is asked for it.
LEMMA SteadyCount ==
    ASSUME Wellformed, ChainInv, NEW a \in Children, redis.count[a] = accounts[a].txCount,
           accounts[a].txCount = 0 => \A r \in pool \cup mined : tx[r].from # a
    PROVE  /\ TxCount(a) = accounts[a].txCount
           /\ \A b \in Children : RedisRaised(a).count[b] = redis.count[b]
<1>1. accounts[a].txCount \in Nat /\ redis \in CountTable
  BY TypesAre, TxCountIs DEF Wellformed
<1>2. CASE accounts[a].txCount > 0
  BY <1>2 DEF TxCount, RedisRaised
<1>3. CASE accounts[a].txCount = 0
  <2>1. PendingNonce(a) = 0
    <3>1. ~Arrived(a, 0)
      BY <1>3 DEF Arrived
    <3>2. PendingNonce(a) \in Nat /\ (0 < PendingNonce(a) => Arrived(a, 0))
      BY PendingArrived
    <3> QED
      BY <3>1, <3>2
  <2>2. Max({redis.count[a], PendingNonce(a)}) = 0
    BY <1>3, <2>1, LargerOf
  <2>3. TxCount(a) = 0
    BY <1>3, <2>2 DEF TxCount
  <2>4. RedisRaised(a) = [redis EXCEPT !.count[a] = 0]
    BY <1>3, <2>2 DEF RedisRaised
  <2>5. \A b \in Children : RedisRaised(a).count[b] = redis.count[b]
    BY <1>1, <1>3, <2>4 DEF CountTable
  <2> QED
    BY <1>3, <2>3, <2>5
<1> QED
  BY <1>1, <1>2, <1>3

\* Who changes the counts.
CountsStay == \A a \in Children :
    accounts'[a].txCount = accounts[a].txCount /\ redis'.count[a] = redis.count[a]

LEMMA CountsStep ==
    ASSUME Wellformed, PurseStep \/ UNCHANGED purse, ~Crash, ~InitAccount
    PROVE  CountsStay \/ \E r \in Sends : Sign(r) \/ Count(r)
<1>1. ASSUME NEW r \in Sends, Consider(r) \/ Select(r)
      PROVE  CountsStay
  <2>1. redis' = redis
    BY <1>1 DEF Consider, Select
  <2>2. PICK b : accounts' = accounts \/ accounts' = [accounts EXCEPT ![b].locked = TRUE]
    BY <1>1 DEF Consider, Select
  <2> QED
    BY <2>1, <2>2, TypesAre DEF AccountTable, CountsStay
<1>2. ASSUME NEW r \in Sends, LoadPending(r) \/ Adjust(r)
      PROVE  CountsStay
  <2>1. redis' = redis
    BY <1>2 DEF LoadPending, Adjust
  <2>2. PICK n : \/ accounts' = accounts
                 \/ accounts' = [accounts EXCEPT ![tx[r].from].pendingCount = n]
    BY <1>2 DEF LoadPending, LoadCount, Adjust
  <2>3. PICK T \in AccountTable : T = accounts
    BY TypesAre
  <2>4. \A a \in Children : accounts'[a].txCount = accounts[a].txCount
    BY <2>2, <2>3 DEF AccountTable
  <2> QED
    BY <2>1, <2>4 DEF CountsStay
<1>3. ASSUME NEW b \in Children, SweepLock(b)
      PROVE  CountsStay
  BY <1>3, TypesAre DEF SweepLock, AccountTable, CountsStay
<1>4. ASSUME NEW r \in Sends, Track(r) \/ SaveRaw(r) \/ RemovePending(r)
      PROVE  CountsStay
  <2>1. accounts' = accounts
    BY <1>4 DEF Track, SaveRaw, RemovePending, memory
  <2>2. redis'.count = redis.count
    BY <1>4, TypesAre DEF Track, SaveRaw, RemovePending, CountTable
  <2> QED
    BY <2>1, <2>2 DEF CountsStay
<1>5. ASSUME NEW r \in Sends,
             \/ Call(r) \/ SendTx(r) \/ LookUp(r) \/ Timeout(r) \/ GasTooHigh(r) \/ Send(r) \/ Refusal(r)
             \/ SeeReceipt(r) \/ Rebroadcast(r) \/ Mine(r) \/ Drop(r)
      PROVE  CountsStay
  BY <1>5 DEF Call, SendTx, LookUp, Timeout, GasTooHigh, Send, Refusal, SeeReceipt, Rebroadcast, Mine,
         Drop, memory, CountsStay
<1>6. ASSUME ListPending \/ Ready \/ UNCHANGED purse
      PROVE  CountsStay
  BY <1>6 DEF ListPending, Ready, purse, memory, CountsStay
<1> QED
  BY <1>1, <1>2, <1>3, <1>4, <1>5, <1>6 DEF PurseStep, Next, Booting, Sending, Processing

\* What the purse follows it follows until it is mined, and what it begins to follow the node
\* has, or a call has sent.
LEMMA TrackedStep ==
    ASSUME Wellformed, LoopMined, PurseStep \/ UNCHANGED purse, ~Crash
    PROVE  /\ \A s \in tracked : s \in tracked' \/ s \in mined
           /\ \A s \in tracked' : s \in tracked \/ s \in pool \cup mined \/ sends[s].pc = "track"
<1>1. ASSUME NEW r \in Sends, Track(r)
      PROVE  tracked' = tracked \cup {r} /\ sends[r].pc = "track"
  BY <1>1 DEF Track, At
<1>2. ASSUME NEW r \in Sends, LoadPending(r)
      PROVE  tracked' = tracked \/ (tracked' = tracked \cup {r} /\ r \in pool \cup mined)
  BY <1>2 DEF LoadPending
<1>3. ASSUME NEW r \in Sends, RemovePending(r)
      PROVE  tracked' = tracked \ {r} /\ r \in mined
  BY <1>3 DEF RemovePending, LoopMined
<1>4. \/ \E r \in Sends : Track(r) \/ LoadPending(r) \/ RemovePending(r)
      \/ tracked' = tracked
  <2>1. ASSUME NEW r \in Sends, Call(r) \/ Sending(r) \/ Refusal(r), ~Track(r)
        PROVE  tracked' = tracked
    BY <2>1 DEF Call, Refusal, Sending, SendTx, LookUp, Consider, Select, Timeout, Sign, GasTooHigh,
           Send, SaveRaw, Count, memory
  <2>2. ASSUME NEW r \in Sends, Processing(r) \/ Mine(r) \/ Drop(r), ~RemovePending(r)
        PROVE  tracked' = tracked
    BY <2>2 DEF Processing, SeeReceipt, Adjust, Rebroadcast, Mine, Drop, memory
  <2>3. ASSUME InitAccount \/ ListPending \/ Ready \/ (\E a \in Children : SweepLock(a)) \/ UNCHANGED purse
        PROVE  tracked' = tracked
    BY <2>3 DEF InitAccount, ListPending, Ready, SweepLock, purse, memory
  <2> QED
    BY <2>1, <2>2, <2>3 DEF PurseStep, Next, Booting
<1> QED
  BY <1>1, <1>2, <1>3, <1>4

-----------------------------------------------------------------------------
(* Nonces: until the first restart *)

\* Every nonce below the count of an account was given to one call, whatever the node has
\* dropped, and every transaction that is saved is followed until it is mined.
InTurn(r) == tx[r].nonce = accounts[tx[r].from].txCount

FirstCall(r) ==
    /\ IF sends[r].pc \in Blank THEN tx[r].from = 0 ELSE tx[r].from \in Children
    /\ sends[r].pc \in Issuing => InTurn(r)
    /\ sends[r].pc = "sent" => tx[r].nonce < accounts[tx[r].from].txCount
    /\ sends[r].pc \in {"raw", "count", "sent"} => r \in tracked \cup mined

SentOnce ==
    \A r, s \in Sends :
        /\ sends[r].pc = "sent" /\ sends[s].pc = "sent"
        /\ tx[r].from = tx[s].from /\ tx[r].nonce = tx[s].nonce
        => r = s

Issued(a, n) == \E r \in Sends : sends[r].pc = "sent" /\ tx[r].from = a /\ tx[r].nonce = n

FirstAccount(a) ==
    /\ redis.count[a] = accounts[a].txCount
    /\ \A n \in Nat : n < accounts[a].txCount => Issued(a, n)

First ==
    /\ \A r \in Sends : FirstCall(r)
    /\ SentOnce
    /\ \A a \in Children : FirstAccount(a)

LEMMA FirstSteady ==
    ASSUME Wellformed, ChainInv, First, NEW a \in Children,
           \A s \in Sends : sends[s].pc \in Issuing => tx[s].from # a
    PROVE  /\ TxCount(a) = accounts[a].txCount
           /\ \A b \in Children : RedisRaised(a).count[b] = redis.count[b]
<1>1. ASSUME accounts[a].txCount = 0, NEW r \in pool \cup mined, tx[r].from = a
      PROVE  FALSE
  <2>1. r \in Sends /\ sends[r].pc \in Out
    BY <1>1, SentIs
  <2>2. FirstCall(r) /\ tx[r].nonce \in Nat
    BY <2>1, CallIs DEF First
  <2>3. sends[r].pc = "sent" \/ sends[r].pc \in Issuing
    BY <1>1, <2>1, <2>2, Constants DEF FirstCall, Out, Issuing, Blank, Children
  <2> QED
    BY <1>1, <2>1, <2>2, <2>3 DEF FirstCall
<1>2. redis.count[a] = accounts[a].txCount
  BY DEF First, FirstAccount
<1> QED
  BY <1>1, <1>2, SteadyCount

\* The call of r has the account, and nobody else.
LEMMA OnlyHolder ==
    ASSUME HoldInv, NEW r \in Sends, NEW a \in Children, Holds(r, a),
           NEW s \in Sends, sends[s].pc \in Issuing, tx[s].from = a
    PROVE  s = r
BY DEF HoldInv, Owns, Alone, Holds, Holding

LEMMA FollowsOn ==
    ASSUME Wellformed, LoopMined, PurseStep \/ UNCHANGED purse, ~Crash,
           NEW s \in tracked \cup mined
    PROVE  s \in tracked' \cup mined'
BY TrackedStep, PoolGrows

\* The call s is where it was, or moves on without a new transaction and without a count.
LEMMA FirstOther ==
    ASSUME Wellformed, LoopMined, First, PurseStep \/ UNCHANGED purse, ~Crash,
           NEW s \in Sends, ~Sign(s), ~Count(s),
           sends[s].pc \notin Blank => accounts'[tx[s].from].txCount = accounts[tx[s].from].txCount
    PROVE  /\ FirstCall(s)' /\ tx'[s] = tx[s]
           /\ sends'[s].pc = "sent" <=> sends[s].pc = "sent"
<1>1. tx'[s] = tx[s]
  BY TxStep
<1>2. FirstCall(s)
  BY DEF First
<1>3. CASE sends[s].pc \in Blank /\ sends'[s].pc \in Blank
  BY <1>1, <1>2, <1>3 DEF FirstCall, Blank, Issuing
<1>4. CASE sends'[s].pc = sends[s].pc
  BY <1>1, <1>2, <1>4, FollowsOn DEF FirstCall, Issuing, Blank, InTurn
<1>5. CASE \/ Send(s) /\ sends'[s].pc = "track"
           \/ SaveRaw(s) /\ sends'[s].pc = "count"
  BY <1>1, <1>2, <1>5, FollowsOn DEF FirstCall, Issuing, Blank, InTurn, Send, SaveRaw, At
<1>6. CASE Track(s) /\ sends'[s].pc = "raw"
  BY <1>1, <1>2, <1>6 DEF FirstCall, Issuing, Blank, InTurn, Track, At
<1> QED
  BY <1>1, <1>3, <1>4, <1>5, <1>6, CallStep DEF MovesOn, Blank

LEMMA FirstStays ==
    ASSUME Wellformed, LoopMined, First, PurseStep \/ UNCHANGED purse, ~Crash, CountsStay,
           ~ \E r \in Sends : Sign(r) \/ Count(r)
    PROVE  First'
<1>1. ASSUME NEW s \in Sends
      PROVE  /\ FirstCall(s)' /\ tx'[s] = tx[s]
             /\ sends'[s].pc = "sent" <=> sends[s].pc = "sent"
  <2>1. FirstCall(s)
    BY DEF First
  <2>2. sends[s].pc \notin Blank => accounts'[tx[s].from].txCount = accounts[tx[s].from].txCount
    BY <2>1 DEF FirstCall, CountsStay
  <2> QED
    BY <2>2, FirstOther
<1>2. SentOnce'
  BY <1>1 DEF First, SentOnce
<1>3. ASSUME NEW a \in Children
      PROVE  FirstAccount(a)'
  <2>1. FirstAccount(a) /\ accounts'[a].txCount = accounts[a].txCount /\ redis'.count[a] = redis.count[a]
    BY DEF First, CountsStay
  <2>2. \A n \in Nat : Issued(a, n) => Issued(a, n)'
    BY <1>1 DEF Issued
  <2> QED
    BY <2>1, <2>2 DEF FirstAccount
<1> QED
  BY <1>1, <1>2, <1>3 DEF First

\* The first transaction of a call gets the count of its account for a nonce.
LEMMA SignIs ==
    ASSUME Wellformed, NEW r \in Sends, Sign(r)
    PROVE  /\ sends[r].pc = "nonce" /\ sends[r].best \in Children /\ sends[r].best <= boot.children
           /\ Holds(r, sends[r].best)
           /\ Pc(r, "send") /\ UNCHANGED <<memory, network, crashes>>
           /\ redis' = RedisRaised(sends[r].best)
           /\ tx'[r].from = sends[r].best /\ tx'[r].nonce = TxCount(sends[r].best)
           /\ \A s \in Sends \ {r} : tx'[s] = tx[s]
<1>1. sends[r].pc = "nonce" /\ Goto(r, "send") /\ "send" \in Pcs
  BY DEF Sign, At, Pcs
<1>2. sends[r].best \in 1 .. boot.children
  BY <1>1, PlacedIs DEF PlacedAt
<1>3. sends[r].best \in Children /\ sends[r].best <= boot.children
  BY <1>2, Shapes, Constants DEF Children
<1>4. PICK t : t = [from |-> sends[r].best, nonce |-> TxCount(sends[r].best)]
  OBVIOUS
<1>5. tx' = [tx EXCEPT ![r] = t] /\ t.from = sends[r].best /\ t.nonce = TxCount(sends[r].best)
  BY <1>4 DEF Sign
<1>6. tx'[r] = t /\ \A s \in Sends \ {r} : tx'[s] = tx[s]
  <2>1. PICK T \in [Sends -> [from : 0 .. NumChildren, nonce : Nat]] : T = tx
    BY TypesAre
  <2> QED
    BY <1>5, <2>1
<1> QED
  BY <1>1, <1>3, <1>5, <1>6, GotoPc DEF Sign, Holds, Holding

LEMMA FirstSigns ==
    ASSUME Wellformed, HoldInv, ChainInv, First, NEW r \in Sends, Sign(r)
    PROVE  First'
<1>1. PICK a \in Children : a = sends[r].best
  BY SignIs
<1>2. /\ sends[r].pc = "nonce" /\ Holds(r, a)
      /\ Pc(r, "send") /\ UNCHANGED <<accounts, tracked, mined>> /\ redis' = RedisRaised(a)
      /\ tx'[r].from = a /\ tx'[r].nonce = TxCount(a)
      /\ \A s \in Sends \ {r} : tx'[s] = tx[s]
  BY <1>1, SignIs DEF memory, network
<1>3. \A s \in Sends : sends[s].pc \in Issuing => tx[s].from # a
  BY <1>2, OnlyHolder DEF Issuing
<1>4. TxCount(a) = accounts[a].txCount /\ \A b \in Children : redis'.count[b] = redis.count[b]
  BY <1>2, <1>3, FirstSteady
<1>5. FirstCall(r)'
  BY <1>2, <1>4 DEF Pc, FirstCall, Issuing, Blank, InTurn
<1>6. ASSUME NEW s \in Sends \ {r}
      PROVE  FirstCall(s)' /\ sends'[s].pc = sends[s].pc /\ tx'[s] = tx[s]
  <2>1. FirstCall(s) /\ sends'[s].pc = sends[s].pc /\ tx'[s] = tx[s]
    BY <1>2, <1>6 DEF First, Pc
  <2> QED
    BY <1>2, <2>1 DEF FirstCall, InTurn
<1>7. sends'[r].pc # "sent" /\ sends[r].pc # "sent"
  BY <1>2 DEF Pc
<1>8. SentOnce'
  BY <1>6, <1>7 DEF First, SentOnce
<1>9. ASSUME NEW b \in Children
      PROVE  FirstAccount(b)'
  <2>1. \A n \in Nat : Issued(b, n) => Issued(b, n)'
    BY <1>6, <1>7 DEF Issued
  <2> QED
    BY <1>2, <1>4, <2>1 DEF First, FirstAccount
<1> QED
  BY <1>5, <1>6, <1>8, <1>9 DEF First

\* A transaction is counted, and its account is free.
LEMMA CountIs ==
    ASSUME Wellformed, HoldInv, NEW r \in Sends, Count(r)
    PROVE  /\ sends[r].pc = "count" /\ tx[r].from \in Children /\ tx[r].from <= boot.children
           /\ Holds(r, tx[r].from)
           /\ Pc(r, "sent") /\ UNCHANGED <<boot, tracked, tx, network, crashes>>
           /\ accounts'[tx[r].from].txCount = accounts[tx[r].from].txCount + 1
           /\ redis'.count[tx[r].from] = redis.count[tx[r].from] + 1
           /\ \A b \in Children \ {tx[r].from} :
                /\ accounts'[b].txCount = accounts[b].txCount
                /\ redis'.count[b] = redis.count[b]
<1>1. sends[r].pc = "count" /\ Goto(r, "sent") /\ "sent" \in Pcs
  BY DEF Count, At, Pcs
<1>2. tx[r].from \in 1 .. boot.children
  BY <1>1, PlacedIs DEF PlacedAt
<1>3. tx[r].from \in Children /\ tx[r].from <= boot.children
  BY <1>2, Shapes, Constants DEF Children
<1>4. PICK a \in Children : a = tx[r].from
  BY <1>3
<1>5. accounts'[a].txCount = accounts[a].txCount + 1
      /\ \A b \in Children \ {a} : accounts'[b].txCount = accounts[b].txCount
  <2>1. PICK e : e = [txCount |-> accounts[a].txCount + 1,
                      pendingCount |-> accounts[a].pendingCount + 1, locked |-> FALSE]
    OBVIOUS
  <2>2. accounts' = [accounts EXCEPT ![a] = e] /\ e.txCount = accounts[a].txCount + 1
    BY <1>4, <2>1 DEF Count
  <2> QED
    BY <2>2, TypesAre DEF AccountTable
<1>6. redis'.count[a] = redis.count[a] + 1
      /\ \A b \in Children \ {a} : redis'.count[b] = redis.count[b]
  <2>1. redis' = [redis EXCEPT !.count[a] = redis.count[a] + 1]
    BY <1>4 DEF Count
  <2> QED
    BY <2>1, TypesAre DEF CountTable
<1> QED
  BY <1>1, <1>3, <1>4, <1>5, <1>6, GotoPc DEF Count, Holds, Holding, Issuing, HoldInv, Owns

LEMMA FirstCounts ==
    ASSUME Wellformed, HoldInv, LoopMined, First, NEW r \in Sends, Count(r)
    PROVE  First'
<1>1. PICK a \in Children : a = tx[r].from
  BY CountIs
<1>2. /\ sends[r].pc = "count" /\ Holds(r, a)
      /\ Pc(r, "sent") /\ UNCHANGED <<tracked, tx, mined>>
      /\ accounts'[a].txCount = accounts[a].txCount + 1 /\ redis'.count[a] = redis.count[a] + 1
      /\ \A b \in Children \ {a} :
           accounts'[b].txCount = accounts[b].txCount /\ redis'.count[b] = redis.count[b]
  BY <1>1, CountIs DEF network
<1>3. accounts[a].txCount \in Nat /\ redis.count[a] \in Nat
  BY TxCountIs DEF Wellformed
<1>4. FirstCall(r) /\ tx[r].nonce = accounts[a].txCount /\ r \in tracked \cup mined
  BY <1>1, <1>2 DEF First, FirstCall, Issuing, InTurn
<1>5. FirstCall(r)'
  BY <1>1, <1>2, <1>3, <1>4 DEF Pc, FirstCall, Issuing, Blank
<1>6. ASSUME NEW s \in Sends \ {r}
      PROVE  FirstCall(s)' /\ sends'[s].pc = sends[s].pc
  <2>1. FirstCall(s) /\ sends'[s].pc = sends[s].pc /\ tx[s].nonce \in Nat
    BY <1>2, <1>6, CallIs DEF First, Pc
  <2>2. sends[s].pc \in Issuing => tx[s].from # a
    BY <1>2, <1>6, OnlyHolder
  <2>3. CASE tx[s].from = a
    BY <1>2, <1>3, <2>1, <2>2, <2>3 DEF FirstCall, InTurn
  <2>4. CASE tx[s].from # a
    BY <1>2, <2>1, <2>4 DEF FirstCall, InTurn, Issuing, Blank
  <2> QED
    BY <2>1, <2>3, <2>4
<1>7. ASSUME NEW s \in Sends \ {r}, sends[s].pc = "sent", tx[s].from = a
      PROVE  tx[s].nonce # tx[r].nonce
  <2>1. FirstCall(s) /\ tx[s].nonce \in Nat
    BY <1>7, CallIs DEF First
  <2> QED
    BY <1>3, <1>4, <1>7, <2>1 DEF FirstCall
<1>8. SentOnce'
  BY <1>1, <1>2, <1>6, <1>7 DEF First, SentOnce, Pc
<1>9. ASSUME NEW b \in Children
      PROVE  FirstAccount(b)'
  <2>1. \A n \in Nat : Issued(b, n) => Issued(b, n)'
    BY <1>2, <1>6 DEF Issued
  <2>2. FirstAccount(b)
    BY DEF First
  <2>3. CASE b = a
    <3>1. ASSUME NEW n \in Nat, n < accounts'[a].txCount
          PROVE  Issued(a, n)'
      <4>1. n < accounts[a].txCount \/ n = tx[r].nonce
        BY <1>2, <1>3, <1>4, <3>1
      <4>2. CASE n < accounts[a].txCount
        BY <2>1, <2>2, <2>3, <4>2 DEF FirstAccount
      <4>3. CASE n = tx[r].nonce
        BY <1>1, <1>2, <4>3 DEF Issued, Pc
      <4> QED
        BY <4>1, <4>2, <4>3
    <3> QED
      BY <1>2, <2>2, <2>3, <3>1 DEF FirstAccount
  <2>4. CASE b # a
    BY <1>2, <2>1, <2>2, <2>4 DEF FirstAccount
  <2> QED
    BY <2>3, <2>4
<1> QED
  BY <1>5, <1>6, <1>8, <1>9 DEF First

\* An account is set up at the start.
LEMMA InitIs ==
    ASSUME Wellformed, HoldInv, InitAccount
    PROVE  \E a \in Children :
             /\ a = boot.children + 1 /\ boot'.children = a /\ UNCHANGED <<tracked, sends, tx, network>>
             /\ accounts'[a].txCount = TxCount(a) /\ redis' = RedisRaised(a)
             /\ \A b \in Children \ {a} : accounts'[b].txCount = accounts[b].txCount
             /\ \A s \in Sends : sends[s].pc \in Issuing => tx[s].from # a
<1>1. PICK a \in Children : a = boot.children + 1
  <2>1. boot.children < NumChildren /\ boot.children \in Nat
    BY Shapes DEF InitAccount
  <2>2. boot.children + 1 \in Children
    BY <2>1, Constants DEF Children
  <2> QED
    BY <2>2
<1>2. PICK e : e = [NoAccount EXCEPT !.txCount = TxCount(a)]
  OBVIOUS
<1>3. e.txCount = TxCount(a)
  BY <1>2 DEF NoAccount
<1>4. accounts' = [accounts EXCEPT ![a] = e] /\ redis' = RedisRaised(a)
  BY <1>1, <1>2 DEF InitAccount
<1>5. boot'.children = a /\ UNCHANGED <<tracked, sends, tx, network>>
  BY <1>1, TypesAre DEF InitAccount
<1>6. /\ accounts'[a].txCount = TxCount(a)
      /\ \A b \in Children \ {a} : accounts'[b].txCount = accounts[b].txCount
  BY <1>3, <1>4, TypesAre DEF AccountTable
<1>7. ASSUME NEW s \in Sends, sends[s].pc \in Issuing, tx[s].from = a
      PROVE  FALSE
  <2>1. Holds(s, a)
    BY <1>7 DEF HoldInv, Owns, Holds, Holding
  <2>2. a <= boot.children
    BY <2>1, HoldsBooted
  <2> QED
    BY <1>1, <2>2, Shapes
<1> QED
  BY <1>1, <1>4, <1>5, <1>6, <1>7

LEMMA FirstInits ==
    ASSUME Wellformed, HoldInv, ChainInv, LoopMined, First, InitAccount
    PROVE  First'
<1>1. PICK a \in Children :
        /\ UNCHANGED <<tracked, sends, tx, network>>
        /\ accounts'[a].txCount = TxCount(a) /\ redis' = RedisRaised(a)
        /\ \A b \in Children \ {a} : accounts'[b].txCount = accounts[b].txCount
        /\ \A s \in Sends : sends[s].pc \in Issuing => tx[s].from # a
  BY InitIs
<1>2. TxCount(a) = accounts[a].txCount /\ \A b \in Children : redis'.count[b] = redis.count[b]
  BY <1>1, FirstSteady
<1>3. CountsStay
  BY <1>1, <1>2 DEF CountsStay
<1>4. ASSUME NEW s \in Sends
      PROVE  FirstCall(s)'
  BY <1>1, <1>3 DEF First, FirstCall, CountsStay, InTurn, network, Issuing, Blank
<1>5. SentOnce'
  BY <1>1 DEF First, SentOnce
<1>6. ASSUME NEW b \in Children
      PROVE  FirstAccount(b)'
  BY <1>1, <1>3 DEF First, FirstAccount, CountsStay, Issued
<1> QED
  BY <1>4, <1>5, <1>6 DEF First

LEMMA FirstStep ==
    ASSUME Wellformed, HoldInv, ChainInv, LoopMined, First, PurseStep \/ UNCHANGED purse, ~Crash
    PROVE  First'
<1>1. CASE InitAccount
  BY <1>1, FirstInits
<1>2. CASE \E r \in Sends : Sign(r) \/ Count(r)
  BY <1>2, FirstSigns, FirstCounts
<1>3. CASE ~InitAccount /\ ~ \E r \in Sends : Sign(r) \/ Count(r)
  BY <1>3, CountsStep, FirstStays
<1> QED
  BY <1>1, <1>2, <1>3

-----------------------------------------------------------------------------
(* Nonces: as long as the node drops nothing *)

\* What was sent is in the pool or mined, without gaps, so that the counts in Redis and of the
\* node bring the nonces back after a restart.
WholeCall(r) ==
    /\ sends[r].pc \in Issuing => InTurn(r)
    /\ sends[r].pc \in {"track", "raw", "count"} => r \in pool \cup mined

WholeTx(r) ==
    /\ \A n \in Nat : n < tx[r].nonce => Arrived(tx[r].from, n)
    /\ tx[r].from <= boot.children =>
         tx[r].nonce < accounts[tx[r].from].txCount \/ sends[r].pc \in Issuing

NodeOnce ==
    \A r, s \in pool \cup mined : tx[r].from = tx[s].from /\ tx[r].nonce = tx[s].nonce => r = s

WholeAccount(a) ==
    /\ \A n \in Nat : n < redis.count[a] => Arrived(a, n)
    /\ IF a <= boot.children THEN redis.count[a] = accounts[a].txCount
       ELSE accounts[a].txCount = 0

Whole ==
    /\ tracked \subseteq pool \cup mined
    /\ \A r \in Sends : WholeCall(r)
    /\ \A r \in pool \cup mined : WholeTx(r)
    /\ NodeOnce
    /\ \A a \in Children : WholeAccount(a)

LEMMA IssuingIs ==
    ASSUME Wellformed, HoldInv, NEW r \in Sends, sends[r].pc \in Issuing
    PROVE  tx[r].from \in Children /\ tx[r].from <= boot.children /\ Holds(r, tx[r].from)
<1>1. tx[r].from \in 1 .. boot.children
  BY PlacedIs DEF PlacedAt, Issuing
<1>2. tx[r].from \in Children /\ tx[r].from <= boot.children
  BY <1>1, Shapes, Constants DEF Children
<1> QED
  BY <1>2 DEF HoldInv, Owns, Holds, Holding

LEMMA NodeIs ==
    ASSUME Wellformed, NEW r \in pool \cup mined
    PROVE  r \in Sends /\ tx[r].from \in Children /\ tx[r].nonce \in Nat /\ sends[r].pc \in Out
BY SentIs, CallIs

\* Without drops, only calls bring transactions to the node, and none gets lost.
LEMMA NodeStep ==
    ASSUME Wellformed, drops \in Nat, PurseStep \/ UNCHANGED purse
    PROVE  /\ drops' \in Nat /\ (drops' = 0 => drops = 0)
           /\ drops' = 0 /\ tracked \subseteq pool \cup mined /\ (~ \E r \in Sends : Send(r))
                => pool' \cup mined' = pool \cup mined
<1>1. ASSUME NEW r \in Sends, Send(r) \/ Rebroadcast(r) \/ Drop(r)
      PROVE  /\ drops' \in Nat /\ (drops' = 0 => drops = 0)
             /\ drops' = 0 => ~Drop(r)
             /\ Rebroadcast(r) => r \in tracked \ (pool \cup mined)
  BY <1>1 DEF Send, Rebroadcast, Broadcast, Drop
<1>2. ASSUME NEW r \in Sends, Mine(r)
      PROVE  drops' = drops /\ pool' \cup mined' = pool \cup mined
  BY <1>2 DEF Mine
<1>3. \/ \E r \in Sends : Send(r) \/ Rebroadcast(r) \/ Drop(r) \/ Mine(r)
      \/ UNCHANGED <<pool, mined, drops>>
  <2>1. ASSUME NEW r \in Sends, Call(r) \/ Sending(r) \/ Refusal(r), ~Send(r)
        PROVE  UNCHANGED <<pool, mined, drops>>
    BY <2>1 DEF Call, Refusal, Sending, SendTx, LookUp, Consider, Select, Timeout, Sign, GasTooHigh,
           Track, SaveRaw, Count, network
  <2>2. ASSUME NEW r \in Sends, Processing(r), ~Rebroadcast(r)
        PROVE  UNCHANGED <<pool, mined, drops>>
    BY <2>2 DEF Processing, SeeReceipt, RemovePending, Adjust, network
  <2>3. ASSUME Booting \/ Crash \/ (\E a \in Children : SweepLock(a)) \/ UNCHANGED purse
        PROVE  UNCHANGED <<pool, mined, drops>>
    BY <2>3 DEF Booting, InitAccount, ListPending, Ready, LoadPending, Crash, SweepLock, purse, network
  <2> QED
    BY <2>1, <2>2, <2>3 DEF PurseStep, Next
<1> QED
  BY <1>1, <1>2, <1>3

LEMMA ChildrenStep ==
    ASSUME Wellformed, PurseStep \/ UNCHANGED purse, ~Crash, ~InitAccount
    PROVE  boot'.children = boot.children
<1>1. ASSUME NEW r \in Sends, Call(r) \/ LoadPending(r)
      PROVE  boot'.children = boot.children
  BY <1>1, TypesAre DEF Call, LoadPending
<1>2. ASSUME ListPending \/ Ready
      PROVE  boot'.children = boot.children
  BY <1>2, TypesAre DEF ListPending, Ready
<1>3. ASSUME NEW r \in Sends, Sending(r) \/ Refusal(r) \/ Processing(r) \/ Mine(r) \/ Drop(r)
      PROVE  boot' = boot
  BY <1>3 DEF Refusal, Sending, SendTx, LookUp, Consider, Select, Timeout, Sign, GasTooHigh, Send,
         Track, SaveRaw, Count, Processing, SeeReceipt, RemovePending, Adjust, Rebroadcast, Mine, Drop,
         memory
<1>4. ASSUME (\E a \in Children : SweepLock(a)) \/ UNCHANGED purse
      PROVE  boot' = boot
  BY <1>4 DEF SweepLock, purse, memory
<1> QED
  BY <1>1, <1>2, <1>3, <1>4 DEF PurseStep, Next, Booting

LEMMA ArrivedStays ==
    ASSUME Wellformed, PurseStep \/ UNCHANGED purse, pool \cup mined \subseteq pool' \cup mined'
    PROVE  \A a \in Children : \A n \in Nat : Arrived(a, n) => Arrived(a, n)'
<1>1. \A r \in pool \cup mined : tx'[r] = tx[r]
  BY NodeIs, OutKeepsTx
<1> QED
  BY <1>1 DEF Arrived

\* A transaction that is at the node keeps what is known of it.
LEMMA TxStays ==
    ASSUME Wellformed, PurseStep \/ UNCHANGED purse, ~Crash, ~InitAccount,
           pool \cup mined \subseteq pool' \cup mined', NEW r \in pool \cup mined, WholeTx(r),
           ~Count(r), accounts'[tx[r].from].txCount = accounts[tx[r].from].txCount
    PROVE  WholeTx(r)' /\ tx'[r] = tx[r]
<1>1. r \in Sends /\ tx[r].from \in Children /\ sends[r].pc \in Out /\ tx'[r] = tx[r]
  BY NodeIs, OutKeepsTx
<1>2. sends[r].pc \in Issuing => sends'[r].pc \in Issuing
  BY <1>1, CallStep DEF MovesOn, Issuing, Blank
<1>3. boot'.children = boot.children
  BY ChildrenStep
<1>4. (\A n \in Nat : n < tx[r].nonce => Arrived(tx[r].from, n))'
  <2>1. PICK a \in Children : a = tx[r].from
    BY <1>1
  <2>2. PICK k : k = tx[r].nonce
    OBVIOUS
  <2>3. \A n \in Nat : n < k => Arrived(a, n)'
    BY <2>1, <2>2, ArrivedStays DEF WholeTx
  <2> QED
    BY <1>1, <2>1, <2>2, <2>3 DEF Arrived
<1>5. tx'[r].from <= boot'.children =>
        tx'[r].nonce < accounts'[tx'[r].from].txCount \/ sends'[r].pc \in Issuing
  BY <1>1, <1>2, <1>3 DEF WholeTx
<1> QED
  BY <1>1, <1>4, <1>5 DEF WholeTx

\* A call that moves on without a new transaction, and sends none.
LEMMA CallStays ==
    ASSUME Wellformed, HoldInv, Whole, PurseStep \/ UNCHANGED purse, ~Crash,
           pool \cup mined \subseteq pool' \cup mined',
           NEW s \in Sends, ~Sign(s), ~Send(s), ~Count(s),
           sends[s].pc \in Issuing => accounts'[tx[s].from].txCount = accounts[tx[s].from].txCount
    PROVE  WholeCall(s)'
<1>1. tx'[s] = tx[s] /\ WholeCall(s)
  BY TxStep DEF Whole
<1>2. CASE sends'[s].pc \in Blank
  BY <1>2 DEF WholeCall, Blank, Issuing
<1>3. CASE sends'[s].pc = sends[s].pc
  BY <1>1, <1>3 DEF WholeCall, InTurn
<1>4. CASE (Track(s) /\ sends'[s].pc = "raw") \/ (SaveRaw(s) /\ sends'[s].pc = "count")
  BY <1>1, <1>4 DEF WholeCall, InTurn, Track, SaveRaw, At, Issuing
<1> QED
  BY <1>2, <1>3, <1>4, CallStep DEF MovesOn

LEMMA TrackedArrived ==
    ASSUME Wellformed, LoopMined, Whole, PurseStep \/ UNCHANGED purse, ~Crash,
           pool \cup mined \subseteq pool' \cup mined'
    PROVE  tracked' \subseteq pool' \cup mined'
<1>1. ASSUME NEW s \in tracked', sends[s].pc = "track"
      PROVE  s \in pool \cup mined
  <2>1. Wellformed'
    BY PurseStepTyped
  <2>2. s \in Sends
    BY <2>1 DEF Wellformed, TypeOK
  <2> QED
    BY <1>1, <2>2 DEF Whole, WholeCall
<1> QED
  BY <1>1, TrackedStep DEF Whole

LEMMA AccountStays ==
    ASSUME Wellformed, Whole, PurseStep \/ UNCHANGED purse, boot'.children = boot.children,
           pool \cup mined \subseteq pool' \cup mined', NEW a \in Children,
           accounts'[a].txCount = accounts[a].txCount, redis'.count[a] = redis.count[a]
    PROVE  WholeAccount(a)'
BY ArrivedStays DEF Whole, WholeAccount

LEMMA WholeStays ==
    ASSUME Wellformed, HoldInv, LoopMined, Whole, drops \in Nat, drops' = 0,
           PurseStep \/ UNCHANGED purse, ~Crash, ~InitAccount, CountsStay,
           ~ \E r \in Sends : Sign(r) \/ Count(r) \/ Send(r)
    PROVE  Whole'
<1>1. pool' \cup mined' = pool \cup mined
  BY NodeStep DEF Whole
<1>2. boot'.children = boot.children
  BY ChildrenStep
<1>3. ASSUME NEW s \in Sends
      PROVE  WholeCall(s)'
  <2>1. sends[s].pc \in Issuing => accounts'[tx[s].from].txCount = accounts[tx[s].from].txCount
    BY IssuingIs DEF CountsStay
  <2> QED
    BY <1>1, <2>1, CallStays
<1>4. ASSUME NEW r \in pool \cup mined
      PROVE  WholeTx(r)' /\ tx'[r] = tx[r]
  <2>1. r \in Sends /\ accounts'[tx[r].from].txCount = accounts[tx[r].from].txCount /\ WholeTx(r)
    BY NodeIs DEF CountsStay, Whole
  <2> QED
    BY <1>1, <2>1, TxStays
<1>5. NodeOnce'
  BY <1>1, <1>4 DEF Whole, NodeOnce
<1>6. \A a \in Children : WholeAccount(a)'
  BY <1>1, <1>2, AccountStays DEF CountsStay
<1> QED
  BY <1>1, <1>3, <1>4, <1>5, <1>6, TrackedArrived DEF Whole

\* The node takes a transaction whose nonce is in turn.
LEMMA WholeSends ==
    ASSUME Wellformed, HoldInv, ChainInv, LoopMined, Whole, drops \in Nat, drops' = 0,
           NEW r \in Sends, Send(r)
    PROVE  Whole'
<1>1. PurseStep /\ ~Crash /\ ~InitAccount
  <2>1. PurseStep
    BY DEF PurseStep, Next, Sending
  <2>2. Goto(r, "track") /\ "track" \in Pcs /\ UNCHANGED memory /\ crashes' = crashes
    BY DEF Send, Pcs
  <2>3. sends'[r].pc = "track"
    BY <2>2, GotoPc DEF Pc
  <2>4. ~Crash
    BY <2>3, CrashEnds
  <2>5. ~InitAccount
    BY <2>2, <2>3 DEF InitAccount, Send, At
  <2> QED
    BY <2>1, <2>4, <2>5
<1>2. /\ sends[r].pc = "send" /\ Pc(r, "track") /\ UNCHANGED <<memory, tx, redis, mined>>
      /\ boot' = boot /\ accounts' = accounts
      /\ pool' = IF Acceptable(r) THEN pool \cup {r} ELSE pool
  <2>1. Goto(r, "track") /\ "track" \in Pcs /\ sends[r].pc = "send" /\ Broadcast(r)
    BY DEF Send, Pcs, At
  <2>2. pool' = IF Acceptable(r) THEN pool \cup {r} ELSE pool
    BY <2>1 DEF Broadcast
  <2> QED
    BY <2>1, <2>2, GotoPc DEF Send, memory
<1>3. PICK a \in Children : a = tx[r].from /\ a <= boot.children /\ Holds(r, a)
  BY <1>2, IssuingIs DEF Issuing
<1>4. tx[r].nonce = accounts[a].txCount /\ tx[r].nonce \in Nat /\ accounts[a].txCount \in Nat
  BY <1>2, <1>3, CallIs, TxCountIs DEF Whole, WholeCall, Issuing, InTurn, Wellformed
<1>5. ASSUME NEW s \in pool \cup mined, tx[s].from = a
      PROVE  tx[s].nonce < tx[r].nonce
  <2>1. s \in Sends /\ WholeTx(s) /\ sends[s].pc \in Out
    BY NodeIs DEF Whole
  <2>2. CASE sends[s].pc \in Issuing
    BY <1>2, <1>3, <1>5, <2>1, <2>2, OnlyHolder DEF Out
  <2>3. CASE tx[s].nonce < accounts[a].txCount
    BY <1>4, <2>3
  <2> QED
    BY <1>3, <1>5, <2>1, <2>2, <2>3 DEF WholeTx
<1>6. Acceptable(r)
  <2>1. tx[r].nonce >= NextNonce(a)
    <3>1. NextNonce(a) \in Nat
      BY OfIs, TypesAre DEF NextNonce
    <3>2. ASSUME tx[r].nonce < NextNonce(a)
          PROVE  FALSE
      <4>1. PICK s \in Of(a, mined) : tx[s].nonce = tx[r].nonce
        BY <1>4, <3>2 DEF ChainInv, InOrder
      <4>2. s \in mined /\ tx[s].from = a
        BY DEF Of
      <4> QED
        BY <1>4, <1>5, <4>1, <4>2
    <3> QED
      BY <1>4, <3>1, <3>2
  <2>2. ~ \E s \in Of(a, pool) : tx[s].nonce = tx[r].nonce
    BY <1>4, <1>5 DEF Of
  <2> QED
    BY <1>3, <2>1, <2>2 DEF Acceptable
<1>7. pool' \cup mined' = pool \cup mined \cup {r}
  BY <1>2, <1>6
<1>8. ASSUME NEW s \in Sends
      PROVE  WholeCall(s)'
  <2>1. CASE s = r
    BY <1>2, <1>3, <1>4, <1>7, <2>1 DEF WholeCall, InTurn, Pc
  <2>2. CASE s # r
    BY <1>2, <1>7, <2>2 DEF Whole, WholeCall, InTurn, Pc
  <2> QED
    BY <2>1, <2>2
<1>9. \A n \in Nat : n < tx[r].nonce => Arrived(a, n)
  <2>1. WholeAccount(a) /\ redis.count[a] = tx[r].nonce
    BY <1>3, <1>4 DEF Whole, WholeAccount
  <2> QED
    BY <2>1 DEF WholeAccount
<1>10. ASSUME NEW s \in pool' \cup mined'
       PROVE  WholeTx(s)'
  <2>1. CASE s = r
    <3>1. (\A n \in Nat : n < tx[r].nonce => Arrived(tx[r].from, n))'
      <4>1. PICK k : k = tx[r].nonce
        OBVIOUS
      <4>2. \A n \in Nat : n < k => Arrived(a, n)'
        BY <1>1, <1>7, <1>9, <4>1, ArrivedStays
      <4> QED
        BY <1>2, <1>3, <4>1, <4>2 DEF Arrived
    <3>2. sends'[r].pc \in Issuing
      BY <1>2 DEF Pc, Issuing
    <3> QED
      BY <2>1, <3>1, <3>2 DEF WholeTx
  <2>2. CASE s # r
    <3>1. s \in pool \cup mined /\ WholeTx(s) /\ ~Count(s) /\ accounts' = accounts
      <4>1. s \in pool \cup mined
        BY <1>7, <2>2
      <4>2. s \in Sends /\ sends'[s].pc = sends[s].pc
        BY <1>2, <2>2, <4>1, NodeIs DEF Pc
      <4>3. ASSUME Count(s)
            PROVE  FALSE
        <5>1. Goto(s, "sent") /\ "sent" \in Pcs /\ sends[s].pc = "count"
          BY <4>3 DEF Count, Pcs, At
        <5>2. sends'[s].pc = "sent"
          BY <4>2, <5>1, GotoPc DEF Pc
        <5> QED
          BY <4>2, <5>1, <5>2
      <4> QED
        BY <1>2, <4>1, <4>3 DEF Whole
    <3> QED
      BY <1>1, <1>7, <3>1, TxStays
  <2> QED
    BY <2>1, <2>2
<1>11. NodeOnce'
  <2>1. ASSUME NEW s \in pool \cup mined, tx[s].from = tx[r].from, tx[s].nonce = tx[r].nonce
        PROVE  FALSE
    BY <1>3, <1>4, <1>5, <2>1
  <2> QED
    BY <1>2, <1>7, <2>1 DEF Whole, NodeOnce
<1>12. \A b \in Children : WholeAccount(b)'
  BY <1>1, <1>2, <1>7, AccountStays
<1> QED
  BY <1>1, <1>7, <1>8, <1>10, <1>11, <1>12, TrackedArrived DEF Whole

LEMMA SignIsStep ==
    ASSUME Wellformed, NEW r \in Sends, Sign(r) \/ Count(r)
    PROVE  PurseStep /\ ~Crash /\ ~InitAccount
<1>1. PurseStep
  BY DEF PurseStep, Next, Sending
<1>2. PICK pc \in {"send", "sent"} : Goto(r, pc) /\ (pc = "sent" => Count(r))
  BY DEF Sign, Count
<1>3. pc \in Pcs
  BY DEF Pcs
<1>4. sends'[r].pc = pc /\ sends[r].pc \in {"nonce", "count"}
  BY <1>2, <1>3, GotoPc DEF Pc, Sign, Count, At
<1>5. ~Crash
  <2>1. boot' = boot
    BY DEF Sign, Count, memory
  <2>2. boot.children # 0
    <3>1. sends[r].best \in 1 .. boot.children \/ tx[r].from \in 1 .. boot.children
      BY <1>4, PlacedIs DEF PlacedAt
    <3> QED
      BY <3>1, Shapes
  <2> QED
    BY <2>1, <2>2 DEF Crash, Down
<1>6. ~InitAccount
  BY <1>4 DEF InitAccount
<1> QED
  BY <1>1, <1>5, <1>6

LEMMA WholeSigns ==
    ASSUME Wellformed, HoldInv, ChainInv, LoopMined, Whole, NEW r \in Sends, Sign(r)
    PROVE  Whole'
<1>1. PICK a \in Children : a = sends[r].best
  BY SignIs
<1>2. /\ sends[r].pc = "nonce" /\ Holds(r, a) /\ a <= boot.children
      /\ Pc(r, "send") /\ UNCHANGED <<boot, accounts, tracked, pool, mined>> /\ redis' = RedisRaised(a)
      /\ tx'[r].from = a /\ tx'[r].nonce = TxCount(a)
      /\ \A s \in Sends \ {r} : tx'[s] = tx[s]
  BY <1>1, SignIs DEF memory, network
<1>3. PurseStep /\ ~Crash /\ ~InitAccount
  BY SignIsStep
<1>4. WholeAccount(a) /\ redis.count[a] = accounts[a].txCount
  BY <1>2 DEF Whole, WholeAccount
<1>5. ASSUME accounts[a].txCount = 0, NEW s \in pool \cup mined, tx[s].from = a
      PROVE  FALSE
  <2>1. WholeTx(s) /\ s \in Sends /\ tx[s].nonce \in Nat
    BY NodeIs DEF Whole
  <2>2. sends[s].pc \notin Issuing
    BY <1>2, <1>5, <2>1, OnlyHolder DEF Issuing
  <2> QED
    BY <1>2, <1>5, <2>1, <2>2 DEF WholeTx
<1>6. TxCount(a) = accounts[a].txCount /\ \A b \in Children : redis'.count[b] = redis.count[b]
  BY <1>2, <1>4, <1>5, SteadyCount
<1>7. r \notin pool \cup mined
  BY <1>2, NodeIs DEF Out
<1>8. ASSUME NEW s \in Sends
      PROVE  WholeCall(s)'
  <2>1. CASE s = r
    BY <1>2, <1>6, <2>1 DEF WholeCall, InTurn, Pc
  <2>2. CASE s # r
    BY <1>2, <2>2 DEF Whole, WholeCall, InTurn, Pc
  <2> QED
    BY <2>1, <2>2
<1>9. ASSUME NEW s \in pool \cup mined
      PROVE  WholeTx(s)' /\ tx'[s] = tx[s]
  <2>1. s \in Sends /\ s # r /\ WholeTx(s) /\ sends[s].pc = sends'[s].pc
    BY <1>2, <1>7, NodeIs DEF Whole, Pc
  <2>2. ~Count(s)
    <3>1. Count(s) => Goto(s, "sent") /\ "sent" \in Pcs /\ sends[s].pc = "count"
      BY DEF Count, Pcs, At
    <3>2. Count(s) => sends'[s].pc = "sent"
      BY <2>1, <3>1, GotoPc DEF Pc
    <3> QED
      BY <2>1, <3>1, <3>2
  <2> QED
    BY <1>2, <1>3, <2>1, <2>2, TxStays
<1>10. NodeOnce'
  BY <1>2, <1>9 DEF Whole, NodeOnce
<1>11. \A b \in Children : WholeAccount(b)'
  BY <1>2, <1>3, <1>6, AccountStays
<1> QED
  BY <1>2, <1>8, <1>9, <1>10, <1>11 DEF Whole

LEMMA WholeCounts ==
    ASSUME Wellformed, HoldInv, LoopMined, Whole, NEW r \in Sends, Count(r)
    PROVE  Whole'
<1>1. PICK a \in Children : a = tx[r].from
  BY CountIs
<1>2. /\ sends[r].pc = "count" /\ Holds(r, a) /\ a <= boot.children
      /\ Pc(r, "sent") /\ UNCHANGED <<boot, tracked, tx, pool, mined>>
      /\ accounts'[a].txCount = accounts[a].txCount + 1 /\ redis'.count[a] = redis.count[a] + 1
      /\ \A b \in Children \ {a} :
           accounts'[b].txCount = accounts[b].txCount /\ redis'.count[b] = redis.count[b]
  BY <1>1, CountIs DEF network
<1>3. PurseStep /\ ~Crash /\ ~InitAccount
  BY SignIsStep
<1>4. accounts[a].txCount \in Nat /\ redis.count[a] \in Nat
  BY TxCountIs DEF Wellformed
<1>5. tx[r].nonce = accounts[a].txCount /\ r \in pool \cup mined
  BY <1>1, <1>2 DEF Whole, WholeCall, Issuing, InTurn
<1>6. WholeAccount(a) /\ redis.count[a] = accounts[a].txCount
  BY <1>2 DEF Whole, WholeAccount
<1>7. ASSUME NEW s \in Sends \ {r}, sends[s].pc \in Issuing
      PROVE  tx[s].from \in Children \ {a}
  BY <1>2, <1>7, IssuingIs, OnlyHolder
<1>8. ASSUME NEW s \in Sends
      PROVE  WholeCall(s)'
  <2>1. CASE s = r
    BY <1>2, <2>1 DEF WholeCall, Pc, Issuing
  <2>2. CASE s # r
    BY <1>2, <1>7, <2>2 DEF Whole, WholeCall, InTurn, Pc
  <2> QED
    BY <2>1, <2>2
<1>9. \A b \in Children : \A n \in Nat : Arrived(b, n)' <=> Arrived(b, n)
  BY <1>2 DEF Arrived
<1>10. ASSUME NEW s \in pool \cup mined
       PROVE  WholeTx(s)'
  <2>1. s \in Sends /\ tx[s].from \in Children /\ tx[s].nonce \in Nat /\ WholeTx(s)
    BY NodeIs DEF Whole
  <2>2. \A n \in Nat : n < tx[s].nonce => Arrived(tx[s].from, n)
    BY <2>1 DEF WholeTx
  <2>3. tx[s].from <= boot.children =>
          tx'[s].nonce < accounts'[tx[s].from].txCount \/ sends'[s].pc \in Issuing
    <3>1. CASE tx[s].from = a
      <4>1. tx[s].nonce <= accounts[a].txCount
        <5>1. CASE sends[s].pc \in Issuing
          BY <1>4, <1>5, <1>7, <2>1, <3>1, <5>1
        <5> QED
          BY <1>2, <1>4, <2>1, <3>1, <5>1 DEF WholeTx
      <4> QED
        BY <1>2, <1>4, <2>1, <3>1, <4>1
    <3>2. CASE tx[s].from # a
      <4>1. s # r /\ sends'[s].pc = sends[s].pc
        BY <1>1, <1>2, <2>1, <3>2 DEF Pc
      <4> QED
        BY <1>2, <2>1, <3>2, <4>1 DEF WholeTx
    <3> QED
      BY <3>1, <3>2
  <2> QED
    BY <1>2, <2>2, <2>3 DEF WholeTx, Arrived
<1>11. ASSUME NEW b \in Children
       PROVE  WholeAccount(b)'
  <2>1. CASE b = a
    <3>1. ASSUME NEW n \in Nat, n < redis'.count[a]
          PROVE  Arrived(a, n)'
      <4>1. n < redis.count[a] \/ n = tx[r].nonce
        BY <1>2, <1>4, <1>5, <1>6, <3>1
      <4>2. CASE n < redis.count[a]
        BY <1>6, <1>9, <4>2 DEF WholeAccount
      <4>3. CASE n = tx[r].nonce
        BY <1>1, <1>2, <1>5, <4>3 DEF Arrived
      <4> QED
        BY <4>1, <4>2, <4>3
    <3>2. redis'.count[a] = accounts'[a].txCount /\ a <= boot'.children
      BY <1>2, <1>6
    <3> QED
      BY <2>1, <3>1, <3>2 DEF WholeAccount
  <2>2. CASE b # a
    BY <1>2, <1>9, <2>2 DEF Whole, WholeAccount
  <2> QED
    BY <2>1, <2>2
<1>12. NodeOnce'
  BY <1>2 DEF Whole, NodeOnce
<1> QED
  BY <1>2, <1>8, <1>10, <1>11, <1>12 DEF Whole

\* At a start, the larger of the count in Redis and the count of the node is the number of
\* transactions that the account has sent.
LEMMA StartCount ==
    ASSUME Wellformed, ChainInv, Whole, NEW a \in Children, ~(a <= boot.children)
    PROVE  /\ TxCount(a) = PendingNonce(a) /\ RedisRaised(a).count[a] = PendingNonce(a)
           /\ \A b \in Children \ {a} : RedisRaised(a).count[b] = redis.count[b]
<1>1. accounts[a].txCount = 0 /\ WholeAccount(a)
  BY DEF Whole, WholeAccount
<1>2. /\ PendingNonce(a) \in Nat /\ ~Arrived(a, PendingNonce(a))
      /\ redis.count[a] \in Nat /\ redis \in CountTable
  BY PendingArrived, TxCountIs, TypesAre DEF Wellformed
<1>3. ~(PendingNonce(a) < redis.count[a])
  BY <1>1, <1>2 DEF WholeAccount
<1>4. Max({redis.count[a], PendingNonce(a)}) = PendingNonce(a)
  BY <1>2, <1>3, LargerOf
<1>5. TxCount(a) = PendingNonce(a)
  BY <1>1, <1>4 DEF TxCount
<1>6. RedisRaised(a) = [redis EXCEPT !.count[a] = PendingNonce(a)]
  BY <1>1, <1>4 DEF RedisRaised
<1>7. /\ RedisRaised(a).count[a] = PendingNonce(a)
      /\ \A b \in Children \ {a} : RedisRaised(a).count[b] = redis.count[b]
  BY <1>2, <1>6 DEF CountTable
<1> QED
  BY <1>5, <1>7

LEMMA WholeInits ==
    ASSUME Wellformed, HoldInv, ChainInv, Whole, InitAccount
    PROVE  Whole'
<1>1. PICK a \in Children :
        /\ a = boot.children + 1 /\ boot'.children = a
        /\ UNCHANGED <<tracked, sends, tx, pool, mined>>
        /\ accounts'[a].txCount = TxCount(a) /\ redis' = RedisRaised(a)
        /\ \A b \in Children \ {a} : accounts'[b].txCount = accounts[b].txCount
        /\ \A s \in Sends : sends[s].pc \in Issuing => tx[s].from # a
  BY InitIs DEF network
<1>2. /\ a \in Nat /\ boot.children \in Nat /\ ~(a <= boot.children) /\ a <= boot'.children
      /\ \A b \in Children \ {a} : (b <= boot'.children <=> b <= boot.children)
  <2>1. PICK k \in Nat : k = boot.children
    BY Shapes
  <2>2. a = k + 1 /\ boot'.children = k + 1
    BY <1>1, <2>1
  <2>3. \A b \in Children : b \in Nat
    BY Constants DEF Children
  <2> QED
    BY <2>1, <2>2, <2>3
<1>3. PICK p \in Nat : p = PendingNonce(a)
  BY PendingArrived
<1>4. /\ accounts'[a].txCount = p /\ redis'.count[a] = p
      /\ \A b \in Children \ {a} : redis'.count[b] = redis.count[b]
  BY <1>1, <1>2, <1>3, StartCount
<1>5. ~Arrived(a, p) /\ \A n \in Nat : n < p => Arrived(a, n)
  BY <1>3, PendingArrived
<1>6. \A b \in Children : \A n \in Nat : Arrived(b, n)' <=> Arrived(b, n)
  BY <1>1 DEF Arrived
<1>7. ASSUME NEW s \in Sends
      PROVE  WholeCall(s)'
  <2>1. WholeCall(s)
    BY DEF Whole
  <2>2. sends[s].pc \in Issuing => tx[s].from \in Children \ {a}
    BY <1>1, IssuingIs
  <2> QED
    BY <1>1, <2>1, <2>2 DEF WholeCall, InTurn
<1>8. ASSUME NEW s \in pool \cup mined
      PROVE  WholeTx(s)'
  <2>1. s \in Sends /\ tx[s].from \in Children /\ tx[s].nonce \in Nat /\ WholeTx(s)
    BY NodeIs DEF Whole
  <2>2. CASE tx[s].from = a
    <3>1. tx[s].nonce < p
      <4>1. p < tx[s].nonce => Arrived(a, p)
        BY <2>1, <2>2 DEF WholeTx
      <4>2. p = tx[s].nonce => Arrived(a, p)
        BY <2>2 DEF Arrived
      <4> QED
        BY <1>5, <2>1, <4>1, <4>2
    <3> QED
      BY <1>1, <1>4, <2>1, <2>2, <3>1 DEF WholeTx, Arrived
  <2>3. CASE tx[s].from # a
    BY <1>1, <1>2, <2>1, <2>3 DEF WholeTx, Arrived
  <2> QED
    BY <2>2, <2>3
<1>9. ASSUME NEW b \in Children
      PROVE  WholeAccount(b)'
  <2>1. CASE b = a
    <3>1. \A n \in Nat : n < redis'.count[a] => Arrived(a, n)'
      BY <1>4, <1>5, <1>6
    <3> QED
      BY <1>2, <1>4, <2>1, <3>1 DEF WholeAccount
  <2>2. CASE b # a
    BY <1>1, <1>2, <1>4, <1>6, <2>2 DEF Whole, WholeAccount
  <2> QED
    BY <2>1, <2>2
<1> QED
  BY <1>1, <1>7, <1>8, <1>9 DEF Whole, NodeOnce

LEMMA WholeCrashes ==
    ASSUME Wellformed, Whole, Crash
    PROVE  Whole'
<1>1. /\ UNCHANGED <<tx, redis, pool, mined>> /\ boot'.children = 0 /\ tracked' = {}
      /\ \A a \in Children : accounts'[a].txCount = 0
  BY DEF Crash, Down, NoAccount, network
<1>2. \A s \in Sends : sends'[s].pc \notin Issuing
  BY CrashEnds DEF Issuing
<1>3. \A s \in Sends : WholeCall(s)'
  BY <1>2 DEF WholeCall, Issuing
<1>4. \A a \in Children : ~(a <= 0)
  BY Constants DEF Children
<1>5. ASSUME NEW s \in pool \cup mined
      PROVE  WholeTx(s)'
  <2>1. tx[s].from \in Children /\ WholeTx(s)
    BY NodeIs DEF Whole
  <2> QED
    BY <1>1, <1>4, <2>1 DEF WholeTx, Arrived
<1>6. \A a \in Children : WholeAccount(a)'
  BY <1>1, <1>4 DEF Whole, WholeAccount, Arrived
<1> QED
  BY <1>1, <1>3, <1>5, <1>6 DEF Whole, NodeOnce

LEMMA WholeStep ==
    ASSUME Wellformed, HoldInv, ChainInv, LoopMined, Whole, drops \in Nat, drops' = 0,
           PurseStep \/ UNCHANGED purse
    PROVE  Whole'
<1>1. CASE Crash
  BY <1>1, WholeCrashes
<1>2. CASE InitAccount
  BY <1>2, WholeInits
<1>3. CASE \E r \in Sends : Sign(r) \/ Count(r) \/ Send(r)
  BY <1>3, WholeSigns, WholeCounts, WholeSends
<1>4. CASE ~Crash /\ ~InitAccount /\ ~ \E r \in Sends : Sign(r) \/ Count(r) \/ Send(r)
  BY <1>4, CountsStep, WholeStays
<1> QED
  BY <1>1, <1>2, <1>3, <1>4

-----------------------------------------------------------------------------
(* Nonces: one fault at a time *)

NonceInv ==
    /\ Wellformed /\ HoldInv /\ ChainInv /\ LoopMined
    /\ crashes \in Nat /\ (crashes = 0 => First)
    /\ drops \in Nat /\ (drops = 0 => Whole)

LEMMA NonceStep ==
    ASSUME NonceInv, PurseStep \/ UNCHANGED purse
    PROVE  NonceInv'
<1>1. Wellformed' /\ HoldInv' /\ ChainInv' /\ LoopMined'
  BY PurseStepTyped, HoldStep, ChainStep, LoopMinedStep DEF NonceInv
<1>2. crashes' \in Nat /\ (crashes' = 0 => crashes = 0 /\ ~Crash)
  BY RunsOn DEF NonceInv
<1>3. crashes' = 0 => First'
  BY <1>2, FirstStep DEF NonceInv
<1>4. drops' \in Nat /\ (drops' = 0 => drops = 0)
  BY NodeStep DEF NonceInv
<1>5. drops' = 0 => Whole'
  BY <1>4, WholeStep DEF NonceInv
<1> QED
  BY <1>1, <1>2, <1>3, <1>4, <1>5 DEF NonceInv

LEMMA NonceStarts == Init => NonceInv
<1> SUFFICES ASSUME Init
             PROVE  NonceInv
  OBVIOUS
<1>1. Wellformed
  BY PurseStarts
<1>2. /\ \A r \in Sends : sends[r].pc = "idle" /\ tx[r].from = 0
      /\ pool = {} /\ mined = {} /\ tracked = {} /\ loop.pc = "idle" /\ boot.children = 0
      /\ crashes = 0 /\ drops = 0
      /\ \A a \in Children : redis.count[a] = 0 /\ accounts[a].txCount = 0
  BY DEF Init, Idle, NoTx, Resting, Down, NoAccount
<1>3. HoldInv /\ LoopMined
  BY <1>2 DEF HoldInv, Alone, Locked, Owns, Holds, Holding, Issuing, LoopMined
<1>4. ChainInv
  <2>1. ASSUME NEW a \in Children
        PROVE  InOrder(a)
    <3>1. Of(a, mined) = {}
      BY <1>2 DEF Of
    <3>2. NextNonce(a) = 0
      BY <3>1, FS_EmptySet DEF NextNonce
    <3> QED
      BY <3>1, <3>2 DEF InOrder
  <2> QED
    BY <1>2, <2>1 DEF ChainInv
<1>5. First
  BY <1>2 DEF First, FirstCall, SentOnce, FirstAccount, Blank, Issuing
<1>6. Whole
  BY <1>2, Constants DEF Whole, WholeCall, NodeOnce, WholeAccount, Issuing, Children
<1> QED
  BY <1>1, <1>2, <1>3, <1>4, <1>5, <1>6 DEF NonceInv

LEMMA FirstShows ==
    ASSUME Wellformed, HoldInv, First
    PROVE  /\ \A r, s \in pool \cup mined \cup tracked :
                r # s /\ tx[r].from = tx[s].from => tx[r].nonce # tx[s].nonce
           /\ NoNonceGap
<1>1. ASSUME NEW r \in pool \cup mined \cup tracked
      PROVE  /\ r \in Sends /\ tx[r].from \in Children /\ tx[r].nonce \in Nat
             /\ FirstCall(r) /\ (sends[r].pc = "sent" \/ sends[r].pc \in Issuing)
             /\ accounts[tx[r].from].txCount \in Nat
  <2>1. r \in Sends /\ tx[r].from \in Children /\ sends[r].pc \in Out /\ tx[r].nonce \in Nat
    BY SentIs, CallIs DEF Out, Late
  <2>2. FirstCall(r) /\ accounts[tx[r].from].txCount \in Nat
    BY <2>1, TxCountIs DEF First, Wellformed
  <2> QED
    BY <2>1, <2>2, Constants DEF FirstCall, Out, Issuing, Blank, Children
<1>2. ASSUME NEW r \in pool \cup mined \cup tracked, NEW s \in pool \cup mined \cup tracked,
             r # s, tx[r].from = tx[s].from, tx[r].nonce = tx[s].nonce
      PROVE  FALSE
  <2>1. CASE sends[r].pc = "sent" /\ sends[s].pc = "sent"
    BY <1>1, <1>2, <2>1 DEF First, SentOnce
  <2>2. CASE sends[r].pc \in Issuing /\ sends[s].pc \in Issuing
    <3>1. Holds(r, tx[r].from)
      BY <1>1, <2>2, IssuingIs
    <3> QED
      BY <1>1, <1>2, <2>2, <3>1, OnlyHolder
  <2>3. CASE sends[r].pc = "sent" /\ sends[s].pc \in Issuing
    <3>1. tx[r].nonce < accounts[tx[r].from].txCount /\ tx[s].nonce = accounts[tx[s].from].txCount
      BY <1>1, <2>3 DEF FirstCall, InTurn
    <3> QED
      BY <1>1, <1>2, <3>1
  <2>4. CASE sends[s].pc = "sent" /\ sends[r].pc \in Issuing
    <3>1. tx[s].nonce < accounts[tx[s].from].txCount /\ tx[r].nonce = accounts[tx[r].from].txCount
      BY <1>1, <2>4 DEF FirstCall, InTurn
    <3> QED
      BY <1>1, <1>2, <3>1
  <2> QED
    BY <1>1, <2>1, <2>2, <2>3, <2>4
<1>3. ASSUME NEW a \in Children, NEW n \in 0 .. accounts[a].txCount - 1
      PROVE  Covered(a, n)
  <2>1. accounts[a].txCount \in Nat
    BY TxCountIs DEF Wellformed
  <2>2. n \in Nat /\ n < accounts[a].txCount
    BY <1>3, <2>1
  <2>3. PICK r \in Sends : sends[r].pc = "sent" /\ tx[r].from = a /\ tx[r].nonce = n
    BY <2>2 DEF First, FirstAccount, Issued
  <2>4. r \in tracked \cup mined
    BY <2>3 DEF First, FirstCall
  <2> QED
    BY <2>3, <2>4 DEF Covered
<1> QED
  BY <1>2, <1>3 DEF NoNonceGap

LEMMA WholeShows ==
    ASSUME Wellformed, Whole
    PROVE  /\ \A r, s \in pool \cup mined \cup tracked :
                r # s /\ tx[r].from = tx[s].from => tx[r].nonce # tx[s].nonce
           /\ NoNonceGap
<1>1. pool \cup mined \cup tracked = pool \cup mined
  BY DEF Whole
<1>2. ASSUME NEW a \in Children, NEW n \in 0 .. accounts[a].txCount - 1
      PROVE  Covered(a, n)
  <2>1. accounts[a].txCount \in Nat /\ WholeAccount(a)
    BY TxCountIs DEF Wellformed, Whole
  <2>2. n \in Nat /\ n < redis.count[a]
    BY <1>2, <2>1 DEF WholeAccount
  <2>3. Arrived(a, n)
    BY <2>1, <2>2 DEF WholeAccount
  <2> QED
    BY <2>3 DEF Arrived, Covered
<1> QED
  BY <1>1, <1>2 DEF Whole, NodeOnce, NoNonceGap

(* Two live transactions of one account never have the same nonce, with any number of
   accounts and concurrent calls, timed out lookups and swept locks, as long as drops and
   restarts do not come together. *)
THEOREM OneNonceOneTransaction == Spec => []NonceUsedOnce
<1>1. NonceInv /\ [Next]_purse => NonceInv'
  BY NonceStep DEF PurseStep
<1>2. NonceInv => NonceUsedOnce
  BY FirstShows, WholeShows DEF NonceInv, NonceUsedOnce, OneFault
<1> QED
  BY <1>1, <1>2, NonceStarts, PTL DEF Spec

(* Every nonce that has been counted is mined, in the pool, or followed by the purse, which
   broadcasts it again: no later transaction of the account is held up for ever, as long as
   drops and restarts do not come together. *)
THEOREM NoNonceIsLost == Spec => []NoNonceGapOneFault
<1>1. NonceInv /\ [Next]_purse => NonceInv'
  BY NonceStep DEF PurseStep
<1>2. NonceInv => NoNonceGapOneFault
  BY FirstShows, WholeShows DEF NonceInv, NoNonceGapOneFault, OneFault
<1> QED
  BY <1>1, <1>2, NonceStarts, PTL DEF Spec
=============================================================================
