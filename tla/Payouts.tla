------------------------------ MODULE Payouts ------------------------------
(***************************************************************************)
(* The distribution of a growth campaign's rewards,                        *)
(* infra/growth/src/scripts/distributeRewards.js with its                  *)
(* tokenDistributor.js: a job makes a row for every payout, pays users one *)
(* by one or in batches, waits for a few confirmations, and at the end     *)
(* verifies every payout more deeply.                                      *)
(*                                                                         *)
(* Nothing in the repository schedules the job: an operator starts it, and *)
(* may start it again while the campaign is not marked as distributed, one *)
(* run at a time.  A send that web3 never answers keeps the run where it   *)
(* is until it is killed.  Amounts are in range; dry runs, the runs for    *)
(* one account, and rewards added while a campaign is paid are left out.   *)
(***************************************************************************)
EXTENDS Integers, FiniteSets, Sequences

CONSTANTS
    Users,          (* accounts with rewards in the campaign                *)
    BatchSizes,     (* values of --batchSize                                *)
    MaxFaults,      (* bound: refusals, timeouts, reverts, reorganisations  *)
    MaxCrashes      (* bound: runs that are killed                          *)

ASSUME PayoutsAssumption ==
    /\ IsFiniteSet(Users) /\ Users # {}
    /\ BatchSizes \subseteq Nat \ {0} /\ BatchSizes # {}
    /\ MaxFaults \in Nat /\ MaxCrashes \in Nat

VARIABLES
    batchSize,      (* --batchSize of the job                               *)
    campaign,       (* reward status of the campaign                        *)
    payouts,        (* rows of growth_payout, in order of their id          *)
    job,            (* the run under way                                    *)
    txs,            (* transactions sent: the payouts they pay, their fate  *)
    faults, crashes

vars == <<batchSize, campaign, payouts, job, txs, faults, crashes>>

NoJob == [pc |-> "idle", left |-> {}, chunk |-> {}, batch |-> {}, tx |-> 0,
          failed |-> FALSE, allConfirmed |-> TRUE]

Init ==
    /\ batchSize \in BatchSizes
    /\ campaign = "Calculated"
    /\ payouts = << >> /\ txs = << >>
    /\ job = NoJob
    /\ faults = 0 /\ crashes = 0

Of(u, status) == {p \in DOMAIN payouts : payouts[p].user = u /\ payouts[p].status = status}

Die == job' = NoJob

-----------------------------------------------------------------------------
(* process(): load the rewards; in batch mode, have the transfer of the total
   approved first, without which the run ends. *)

Start ==
    /\ job.pc = "idle" /\ campaign = "Calculated"
    /\ job' = [NoJob EXCEPT !.pc = IF batchSize > 1 THEN "approve" ELSE "next", !.left = Users]
    /\ UNCHANGED <<batchSize, campaign, payouts, txs, faults, crashes>>

Approve ==
    /\ job.pc = "approve"
    /\ \/ job' = [job EXCEPT !.pc = "next"] /\ UNCHANGED faults
       \/ faults < MaxFaults /\ faults' = faults + 1 /\ Die
    /\ UNCHANGED <<batchSize, campaign, payouts, txs, crashes>>

\* The next chunk of users, in the order in which the database returned them.
NextChunk ==
    /\ job.pc = "next" /\ job.left # {}
    /\ \E chunk \in SUBSET job.left :
        /\ chunk # {} /\ Cardinality(chunk) <= batchSize
        /\ Cardinality(chunk) = batchSize \/ chunk = job.left
        /\ job' = [job EXCEPT !.pc = "prepare", !.left = @ \ chunk, !.chunk = chunk, !.batch = {}]
    /\ UNCHANGED <<batchSize, campaign, payouts, txs, faults, crashes>>

\* Slip: a payout that is only pending does not count.
HasBeenPaid(u) == \E status \in {"Paid", "Confirmed"} : Of(u, status) # {}

HasPayout(u) == \E status \in {"Pending", "Paid", "Confirmed"} : Of(u, status) # {}

\* _preparePayout() for a user of the chunk.  One who has a payout is passed over in a
\* batch; alone, the null that stands for that is taken apart and the run dies.
Prepare(u) ==
    /\ job.pc = "prepare" /\ u \in job.chunk
    /\ IF ~HasPayout(u)
       THEN /\ payouts' = Append(payouts, [user |-> u, status |-> "Pending", tx |-> 0])
            /\ job' = [job EXCEPT !.chunk = @ \ {u}, !.batch = @ \cup {Len(payouts) + 1}]
       ELSE /\ IF batchSize > 1 THEN job' = [job EXCEPT !.chunk = @ \ {u}] ELSE Die
            /\ UNCHANGED payouts
    /\ UNCHANGED <<batchSize, campaign, txs, faults, crashes>>

-----------------------------------------------------------------------------
(* credit(), creditMulti() and the wait for the outcome *)

Recording(failed) == job' = [job EXCEPT !.pc = "record", !.failed = failed]

\* sendTx(): a transaction for the batch is in the hands of the node, and the job is
\* either told its hash or left waiting for it.
Submit(pc) ==
    /\ txs' = Append(txs, [pays |-> job.batch, state |-> "pending", doubtful |-> FALSE])
    /\ job' = [job EXCEPT !.pc = pc, !.tx = Len(txs) + 1]

\* Slip: an empty batch is sent as well.
SendAlways ==
    /\ job.pc = "prepare" /\ job.chunk = {}
    /\ Submit("wait")
    /\ UNCHANGED <<batchSize, campaign, payouts, faults, crashes>>

\* A chunk without payouts is done.
Send ==
    /\ job.pc = "prepare" /\ job.chunk = {}
    /\ IF job.batch = {}
       THEN job' = [job EXCEPT !.pc = "next"] /\ UNCHANGED txs
       ELSE Submit("wait")
    /\ UNCHANGED <<batchSize, campaign, payouts, faults, crashes>>

\* sendTx waits for the event "transactionHash" and for nothing else: when web3 reports
\* an error instead, of an approval or of a payment, the run stays there until it is
\* killed.  The node may have the transaction, when only its answer was lost.
Hang ==
    /\ \/ job.pc = "approve"
       \/ job.pc = "prepare" /\ job.chunk = {} /\ job.batch # {}
    /\ faults < MaxFaults /\ faults' = faults + 1
    /\ \/ job' = [job EXCEPT !.pc = "hung"] /\ UNCHANGED txs
       \/ job.pc = "prepare" /\ Submit("hung")
    /\ UNCHANGED <<batchSize, campaign, payouts, crashes>>

\* The price of gas is too high, the supplier is short of tokens, the token is paused.
Refused ==
    /\ job.pc = "prepare" /\ job.chunk = {} /\ job.batch # {}
    /\ faults < MaxFaults /\ faults' = faults + 1
    /\ Recording(TRUE)
    /\ UNCHANGED <<batchSize, campaign, payouts, txs, crashes>>

\* waitForTxConfirmation() has an answer: three blocks on top, or a reverted transaction.
Answered ==
    /\ job.pc = "wait" /\ txs[job.tx].state \notin {"pending", "included"}
    /\ Recording(txs[job.tx].state \in {"reverted", "lost"})
    /\ UNCHANGED <<batchSize, campaign, payouts, txs, faults, crashes>>

\* Ten minutes have passed.  The transaction may still be mined; that it was given up
\* on, or undone, is noted in the model only, as "doubtful".
TimedOut ==
    /\ job.pc = "wait" /\ txs[job.tx].state \in {"pending", "included"}
    /\ faults < MaxFaults /\ faults' = faults + 1
    /\ txs' = [txs EXCEPT ![job.tx].doubtful = TRUE]
    /\ Recording(TRUE)
    /\ UNCHANGED <<batchSize, campaign, payouts, crashes>>

\* Slip: a failed payment leaves the row as it is.
RecordPaidOnly(p) ==
    IF job.failed THEN payouts ELSE [payouts EXCEPT ![p].status = "Paid", ![p].tx = job.tx]

Recorded(p) ==
    IF job.failed THEN [payouts EXCEPT ![p].status = "Failed"]
    ELSE [payouts EXCEPT ![p].status = "Paid", ![p].tx = job.tx]

\* The rows of a batch are updated one at a time.
Record(p) ==
    /\ job.pc = "record" /\ p \in job.batch
    /\ payouts' = Recorded(p)
    /\ job' = [job EXCEPT !.batch = @ \ {p}]
    /\ UNCHANGED <<batchSize, campaign, txs, faults, crashes>>

\* A failure ends the run, and the users behind it wait for the next one.
EndChunk ==
    /\ job.pc = "record" /\ job.batch = {}
    /\ IF job.failed THEN Die ELSE job' = [job EXCEPT !.pc = "next"]
    /\ UNCHANGED <<batchSize, campaign, payouts, txs, faults, crashes>>

-----------------------------------------------------------------------------
(* _confirmAllTransactions(), _checkAllUsersPaid() *)

\* All chunks are done: list the payouts that are Paid, of this run or an earlier one.
Settle ==
    /\ job.pc = "next" /\ job.left = {}
    /\ job' = [job EXCEPT !.pc = "confirm",
                          !.batch = {p \in DOMAIN payouts : payouts[p].status = "Paid"}]
    /\ UNCHANGED <<batchSize, campaign, payouts, txs, faults, crashes>>

\* Slip: three blocks are taken for eight.
DeepEnough(state) == {state} \subseteq {"confirmed", "buried"}

Deep(state) == state = "buried"

\* _confirmTransaction(): a transaction without receipt or with less than
\* MinBlockConfirmation blocks on top leaves the payout as it is.
Confirm(p) ==
    /\ job.pc = "confirm" /\ p \in job.batch
    /\ LET state == txs[payouts[p].tx].state IN
       \/ /\ Deep(state)
          /\ payouts' = [payouts EXCEPT ![p].status = "Confirmed"]
          /\ job' = [job EXCEPT !.batch = @ \ {p}]
       \/ /\ state = "lost"
          /\ payouts' = [payouts EXCEPT ![p].status = "Failed"]
          /\ job' = [job EXCEPT !.batch = @ \ {p}, !.allConfirmed = FALSE]
       \/ /\ ~Deep(state) /\ state # "lost"
          /\ job' = [job EXCEPT !.batch = @ \ {p}, !.allConfirmed = FALSE]
          /\ UNCHANGED payouts
    /\ UNCHANGED <<batchSize, campaign, txs, faults, crashes>>

AllUsersPaid == \A u \in Users : Of(u, "Confirmed") # {}

Finish ==
    /\ job.pc = "confirm" /\ job.batch = {}
    /\ campaign' = IF job.allConfirmed /\ AllUsersPaid THEN "Distributed" ELSE campaign
    /\ Die
    /\ UNCHANGED <<batchSize, payouts, txs, faults, crashes>>

Crash ==
    /\ job.pc # "idle" /\ crashes < MaxCrashes
    /\ crashes' = crashes + 1
    /\ Die
    /\ UNCHANGED <<batchSize, campaign, payouts, txs, faults>>

-----------------------------------------------------------------------------
(* The chain *)

Becomes(i, state) == txs' = [txs EXCEPT ![i].state = state]

\* A transaction is included, then has three blocks on top, then eight.
Advance(i) ==
    /\ \/ txs[i].state = "pending" /\ Becomes(i, "included")
       \/ txs[i].state = "included" /\ Becomes(i, "confirmed")
       \/ txs[i].state = "confirmed" /\ Becomes(i, "buried")
       \/ txs[i].state = "reverted" /\ Becomes(i, "lost")
    /\ UNCHANGED <<batchSize, campaign, payouts, job, faults, crashes>>

\* The transaction is reverted, or a reorganisation undoes it.
Disturb(i) ==
    /\ \/ txs[i].state = "pending" /\ Becomes(i, "reverted")
       \/ /\ txs[i].state \in {"included", "confirmed", "reverted"}
          /\ txs' = [txs EXCEPT ![i].state = "pending", ![i].doubtful = TRUE]
    /\ faults < MaxFaults /\ faults' = faults + 1
    /\ UNCHANGED <<batchSize, campaign, payouts, job, crashes>>

-----------------------------------------------------------------------------

JobStep ==
    \/ Approve \/ NextChunk \/ Send \/ Refused \/ Answered \/ TimedOut \/ EndChunk
    \/ Settle \/ Finish
    \/ \E u \in Users : Prepare(u)
    \/ \E p \in DOMAIN payouts : Record(p) \/ Confirm(p)

Next ==
    \/ Start \/ JobStep \/ Hang \/ Crash
    \/ \E i \in DOMAIN txs : Advance(i) \/ Disturb(i)

(* A run goes on, unless it waits for a hash that does not come, and the chain grows.
   That the job is started is not assumed. *)
Spec ==
    /\ Init /\ [][Next]_vars
    /\ WF_vars(JobStep)
    /\ WF_vars(\E i \in DOMAIN txs : Advance(i))

-----------------------------------------------------------------------------
(* Properties *)

TypeOK ==
    /\ batchSize \in BatchSizes /\ campaign \in {"Calculated", "Distributed"}
    /\ \A p \in DOMAIN payouts : payouts[p] \in
          [user : Users, status : {"Pending", "Paid", "Confirmed", "Failed"},
           tx : {0} \cup DOMAIN txs]
    /\ \A i \in DOMAIN txs :
          /\ txs[i].pays # {} /\ txs[i].pays \subseteq DOMAIN payouts
          /\ txs[i].state \in {"pending", "included", "confirmed", "buried", "reverted", "lost"}
    /\ job.pc \in {"idle", "approve", "next", "prepare", "wait", "record", "confirm", "hung"}
    /\ job.batch \subseteq DOMAIN payouts /\ job.left \cup job.chunk \subseteq Users

\* Transactions that moved, or may still move, tokens to a user.
Payments(u) ==
    {i \in DOMAIN txs : txs[i].state \notin {"reverted", "lost"}
                            /\ \E p \in txs[i].pays : payouts[p].user = u}

(* With as many runs, refusals, reverted transactions and killed runs as there may
   be, a user is paid a second time only when the job gave up waiting for a
   transaction that was mined after all, or when a reorganisation undid an outcome
   (distributeRewards.js _preparePayout; tokenDistributor.js credit). *)
PaidTwiceOnlyAfterGivingUp ==
    \A u \in Users :
        Cardinality(Payments(u)) > 1 => \E i \in Payments(u) : txs[i].doubtful

(* However runs fail, are killed and start again, the rows of a user that have not
   failed are never more than one, so that what is paid later is not paid for two
   rows (distributeRewards.js _preparePayout, _confirmTransaction). *)
OnePayoutPerUser ==
    \A p, q \in DOMAIN payouts :
        p # q /\ payouts[p].user = payouts[q].user
            => "Failed" \in {payouts[p].status, payouts[q].status}

(* A campaign is marked as distributed only when for every user there is a
   transaction that pays the user and is too deep to be undone, whatever was
   reorganised between the first confirmations and the last ones
   (distributeRewards.js _confirmAllTransactions, _checkAllUsersPaid). *)
DistributedMeansPaid ==
    campaign = "Distributed" =>
        \A u \in Users : \E i \in Payments(u) : txs[i].state = "buried"

\* What the job cannot do for itself: someone starts it again whenever it has ended and the
\* campaign is not distributed.
StartedAgain == []<>(job.pc # "idle" \/ campaign = "Distributed")

\* A run hangs, or was killed.
Stopped == job.pc = "hung" \/ crashes > 0

(* In batch mode a job that is started again after each end distributes the campaign,
   through transactions refused before they are sent, timeouts, reverted transactions
   and reorganisations: what a failed run leaves behind is passed over or paid by a
   later one.  It does so unless a run hangs in a send or is killed, which may leave
   rows that are Pending for good (distributeRewards.js _preparePayout,
   _distributeRewardsBatch, _confirmTransaction). *)
BatchesGetThrough ==
    StartedAgain => <>(campaign = "Distributed" \/ Stopped \/ batchSize = 1)

(* "Transaction failed. Should be retried." (growth/src/enums.js): the job, started
   again after a failure, gets through to every user. *)
RetriesGetThrough ==
    StartedAgain => <>(campaign = "Distributed" \/ Stopped)
=============================================================================
