------------------------------ MODULE Relayer ------------------------------
(***************************************************************************)
(* The relayer, infra/relayer/src/relayer.js, on top of its purse, and the *)
(* contracts it calls: a user without Ether signs a request, the relayer   *)
(* checks it and sends it from one of its accounts, either to create the   *)
(* user's identity proxy or to have the proxy forward a call, and keeps a  *)
(* row of every transaction in its database.                               *)
(*                                                                         *)
(* A signature covers the user, the call and the nonce of the proxy, so it *)
(* is identified by user and nonce here, 0 being the creation of the proxy *)
(* and n + 1 a call with nonce n.  Signatures are genuine; the risk engine *)
(* and the validator, whose answers the relayer only logs, the check on    *)
(* knownProxyNonces, which compares a string with a number and never       *)
(* refuses, and preflight requests are left out.                           *)
(***************************************************************************)
EXTENDS Purse

CONSTANTS
    Users,
    Patient,        (* users whose client waits for an answer before asking again *)
    MaxNonce        (* bound: nonces that users sign                              *)

ASSUME RelayerAssumption == Patient \subseteq Users /\ MaxNonce \in Nat

Create == 0
Signatures == Users \X (Create .. MaxNonce)

VARIABLES
    request,        (* request[r]: what is asked, and how far the checks are *)
    rows,           (* rows[r]: status of the relayer_txn row                *)
    callbacks,      (* receiptCallbacks: who still waits for a receipt       *)
    seen,           (* seenSignatures                                        *)
    proxies,        (* proxies[u]: nonce of the proxy, -1 before it exists   *)
    outcome         (* outcome[r]: what the transaction did when mined       *)

relay == <<request, rows, callbacks, seen>>
chain == <<proxies, outcome>>
vars  == <<purse, relay, chain>>

NoRequest == [sig |-> << >>, stage |-> "none"]

RelayerInit ==
    /\ Init
    /\ request = [r \in Sends |-> NoRequest]
    /\ rows = [r \in Sends |-> "none"]
    /\ callbacks = {} /\ seen = {}
    /\ proxies = [u \in Users |-> -1]
    /\ outcome = [r \in Sends |-> "none"]

From(r)  == request[r].sig[1]
Asked(r) == request[r].sig[2]
IsCreation(r) == Asked(r) = Create

Open(r) == request[r].stage \notin {"none", "closed"}

Stage(r, stage) == request' = [request EXCEPT ![r].stage = stage]

-----------------------------------------------------------------------------
(* relay() *)

\* A signature seen in the last 30 seconds is refused at once.
Arrive(r, sig) ==
    /\ At(r, "idle")
    /\ sig \notin seen
    /\ sig[1] \in Patient => \A s \in Sends : Open(s) => From(s) # sig[1]
    /\ Call(r)
    /\ request' = [request EXCEPT ![r] = [sig |-> sig, stage |-> "checks"]]
    /\ UNCHANGED <<rows, callbacks, seen, chain>>

\* Slip: the pending transactions of the user are not looked at.
NothingPending(r) == FALSE

\* hasPending(from) for a creation, hasPendingTo(proxy) for a call, which is not for a
\* creation, sent to the factory: only in memory, for what this process has sent.
HasPending(r) == \E s \in meta : From(s) = From(r) /\ (IsCreation(s) => IsCreation(r))

Refuse(r) ==
    /\ Stage(r, "closed")
    /\ sends' = [sends EXCEPT ![r].pc = "failed"]
    /\ UNCHANGED memory

\* The code at the predicted address has come: the proxy must exist for a call and
\* must not for a creation, and nothing may be pending.
CheckProxy(r) ==
    /\ At(r, "called") /\ request[r].stage = "checks"
    /\ IF (IsCreation(r) <=> proxies[From(r)] >= 0) \/ HasPending(r)
       THEN Refuse(r)
       ELSE Stage(r, "nonce") /\ UNCHANGED <<memory, sends>>
    /\ UNCHANGED <<tx, redis, network, crashes, rows, callbacks, seen, chain>>

\* The nonce of the proxy has come: the signature is verified with it, the row is
\* created and sendTx is called.
Proceed(r) ==
    /\ At(r, "called") /\ request[r].stage = "nonce"
    /\ IF IsCreation(r) \/ Asked(r) = proxies[From(r)] + 1
       THEN SendTx(r) /\ Stage(r, "sending") /\ rows' = [rows EXCEPT ![r] = "Pending"]
       ELSE Refuse(r) /\ UNCHANGED <<rows, tx, redis, network, crashes>>
    /\ UNCHANGED <<callbacks, seen, chain>>

\* sendTx has failed: the row says why.
Fail(r, status) ==
    /\ Stage(r, "closed")
    /\ rows' = [rows EXCEPT ![r] = status]
    /\ UNCHANGED <<callbacks, seen, chain>>

NoAccountInTime(r) == Timeout(r) /\ Fail(r, "NoAvailableAccount")

TooExpensive(r) == GasTooHigh(r) /\ Fail(r, "GasLimit")

\* The receipt callback is registered when the transaction has been signed.
SignIt(r) ==
    /\ Sign(r)
    /\ callbacks' = callbacks \cup {r}
    /\ UNCHANGED <<request, rows, seen, chain>>

\* sendTx has returned: the signature is remembered and the request answered.
Answer(r) ==
    /\ Count(r)
    /\ Stage(r, "closed")
    /\ seen' = seen \cup {request[r].sig}
    /\ UNCHANGED <<rows, callbacks, chain>>

\* Thirty seconds have passed.
Forget(sig) ==
    /\ sig \in seen /\ seen' = seen \ {sig}
    /\ UNCHANGED <<purse, request, rows, callbacks, chain>>

\* Slip: the status of the receipt is not looked at.
AlwaysConfirmed(r) == "Confirmed"

StatusOf(r) == IF outcome[r] \in {"done", "hollow"} THEN "Confirmed" ELSE "Reverted"

\* The loop has run the callback of a mined transaction, if it is still there.
Settle(r) ==
    /\ RemovePending(r)
    /\ rows' = IF r \in callbacks THEN [rows EXCEPT ![r] = StatusOf(r)] ELSE rows
    /\ callbacks' = callbacks \ {r}
    /\ UNCHANGED <<request, seen, chain>>

-----------------------------------------------------------------------------
(* The contracts *)

\* ProxyFactory.createProxyWithSenderNonce: a second CREATE2 at the same address
\* yields no proxy, and the initializer is then called at the zero address, which
\* succeeds without effect unless the gas runs out.
CreateProxy(u) ==
    IF proxies[u] < 0 THEN {"done", "reverted"} ELSE {"hollow", "reverted"}

\* Slip: the signature is not compared with the nonce of the proxy.
ForwardAny(u, n) == {"done", "reverted"}

\* IdentityProxy.forward: the signature must be over the nonce, and the call succeed.
Forward(u, n) == IF proxies[u] = n THEN {"done", "reverted"} ELSE {"stale"}

Effect(r) == IF IsCreation(r) THEN CreateProxy(From(r)) ELSE Forward(From(r), Asked(r) - 1)

Execute(r) ==
    /\ Mine(r)
    /\ \E effect \in Effect(r) :
        /\ outcome' = [outcome EXCEPT ![r] = effect]
        /\ proxies' = IF effect = "done" THEN [proxies EXCEPT ![From(r)] = @ + 1]
                      ELSE proxies
    /\ UNCHANGED relay

Restart ==
    /\ Crash
    /\ callbacks' = {} /\ seen' = {}
    /\ request' = [r \in Sends |-> IF Open(r) THEN [request[r] EXCEPT !.stage = "closed"]
                                   ELSE request[r]]
    /\ UNCHANGED <<rows, chain>>

-----------------------------------------------------------------------------

\* Steps of the purse that do not touch what the relayer keeps.
InPurse(r) ==
    \/ LookUp(r) \/ Consider(r) \/ Select(r) \/ Send(r) \/ Track(r) \/ SaveRaw(r)
    \/ SeeReceipt(r) \/ Adjust(r) \/ Rebroadcast(r)

Relaying(r) ==
    \/ CheckProxy(r) \/ Proceed(r) \/ NoAccountInTime(r) \/ TooExpensive(r) \/ SignIt(r)
    \/ Answer(r) \/ Settle(r)
    \/ InPurse(r) /\ UNCHANGED <<relay, chain>>

Background ==
    /\ Booting \/ (\E r \in Sends : Drop(r)) \/ (\E a \in Children : SweepLock(a))
    /\ UNCHANGED <<relay, chain>>

RelayerNext ==
    \/ \E r \in Sends : \E sig \in Signatures : Arrive(r, sig)
    \/ \E r \in Sends : Relaying(r) \/ Execute(r)
    \/ \E sig \in seen : Forget(sig)
    \/ Background \/ Restart

RelayerSpec == RelayerInit /\ [][RelayerNext]_vars

-----------------------------------------------------------------------------
(* Properties *)

RelayerTypeOK ==
    /\ TypeOK
    /\ \A r \in Sends : request[r] = NoRequest \/ request[r] \in
          [sig : Signatures, stage : {"checks", "nonce", "sending", "closed"}]
    /\ rows \in [Sends -> {"none", "Pending", "Confirmed", "Reverted", "GasLimit",
                           "NoAvailableAccount"}]
    /\ callbacks \subseteq Sends /\ seen \subseteq Signatures
    /\ proxies \in [Users -> -1 .. MaxNonce]
    /\ outcome \in [Sends -> {"none", "done", "reverted", "stale", "hollow"}]

(* However often a signed request is sent in, overlapping, after the memory of
   signatures is cleared or after a restart, it takes effect at most once
   (relayer.js relay; IdentityProxy.s forward; ProxyFactory.s). *)
ExecutedOnce ==
    \A r, s \in Sends :
        r # s /\ outcome[r] = "done" /\ outcome[s] = "done"
            => request[r].sig # request[s].sig

(* A row that has left Pending says what became of the transaction, whatever
   receipts, drops, timeouts and restarts come between (relayer.js relay and its
   receipt callback). *)
RowTellsTruth ==
    \A r \in Sends :
        /\ rows[r] = "Confirmed" => outcome[r] \in {"done", "hollow"}
        /\ rows[r] = "Reverted" => outcome[r] \in {"reverted", "stale"}
        /\ rows[r] \in {"GasLimit", "NoAvailableAccount"} => r \notin pool \cup mined

(* A user who waits for each answer never has a transaction mined in vain, with a
   nonce that another one has used up, as long as the relayer is not restarted:
   the checks on pending transactions suffice (relayer.js relay, purse.js
   hasPending and hasPendingTo). *)
NothingInVain ==
    crashes = 0 =>
        \A r \in Sends : outcome[r] \in {"stale", "hollow"} => From(r) \notin Patient
=============================================================================
