--------------------------- MODULE PayoutsProofs ---------------------------
(***************************************************************************)
(* Proofs about the distribution of rewards, for any number of users, any  *)
(* batch sizes and any number of refusals, timeouts, reverted transactions,*)
(* reorganisations and killed runs.                                        *)
(*                                                                         *)
(* The inductive invariant ties together what the job holds in memory, the *)
(* rows it left behind and the transactions that pay them: a row is sent   *)
(* at most once, and is marked as failed only when its transaction is void *)
(* or was given up on.                                                     *)
(***************************************************************************)
EXTENDS Payouts, FiniteTheorems

Statuses == {"Pending", "Paid", "Confirmed", "Failed"}
States   == {"pending", "included", "confirmed", "buried", "reverted", "lost"}
Pcs      == {"idle", "approve", "next", "prepare", "wait", "record", "confirm", "hung"}

Row == [user : Users, status : Statuses, tx : Nat]
Tx  == [pays : SUBSET Nat, state : States, doubtful : BOOLEAN]
Job == [pc : Pcs, left : SUBSET Users, chunk : SUBSET Users, batch : SUBSET Nat,
        tx : Nat, failed : BOOLEAN, allConfirmed : BOOLEAN]

\* The transaction has no effect, or its outcome was not waited for or undone.
Void(i) == txs[i].doubtful \/ txs[i].state \in {"reverted", "lost"}

Typed ==
    /\ batchSize \in BatchSizes /\ campaign \in {"Calculated", "Distributed"}
    /\ payouts \in Seq(Row) /\ txs \in Seq(Tx) /\ job \in Job

Linked ==
    /\ job.batch \subseteq DOMAIN payouts
    /\ \A i \in DOMAIN txs : txs[i].pays # {} /\ txs[i].pays \subseteq DOMAIN payouts
    /\ \A p \in DOMAIN payouts : payouts[p].tx \in {0} \cup DOMAIN txs
    /\ job.pc = "wait" \/ (job.pc = "record" /\ ~job.failed) => job.tx \in DOMAIN txs

\* No row is paid by two transactions.
SentOnce ==
    \A i, j \in DOMAIN txs : \A p \in txs[i].pays : p \in txs[j].pays => i = j

\* What the job knows of the rows it works on.
BatchKnown ==
    \A p \in job.batch :
        /\ job.pc \in {"prepare", "wait", "record"} => payouts[p].status = "Pending"
        /\ job.pc = "confirm" => payouts[p].status = "Paid"
        /\ job.pc = "prepare" => \A i \in DOMAIN txs : p \notin txs[i].pays
        /\ job.pc = "wait" \/ (job.pc = "record" /\ ~job.failed) => p \in txs[job.tx].pays
        /\ job.pc = "record" /\ job.failed =>
                \A i \in DOMAIN txs : p \in txs[i].pays => Void(i)

RowsTrue ==
    \A p \in DOMAIN payouts :
        /\ payouts[p].status \in {"Paid", "Confirmed"} =>
                payouts[p].tx \in DOMAIN txs /\ p \in txs[payouts[p].tx].pays
        /\ payouts[p].status = "Confirmed" => txs[payouts[p].tx].state = "buried"
        /\ payouts[p].status = "Failed" =>
                \A i \in DOMAIN txs : p \in txs[i].pays => Void(i)

Closed == campaign = "Distributed" => job.pc = "idle" /\ AllUsersPaid

IInv == Typed /\ Linked /\ SentOnce /\ BatchKnown /\ RowsTrue /\ Closed /\ OnePayoutPerUser

-----------------------------------------------------------------------------
(* Rows and transactions *)

LEMMA Positions ==
    ASSUME Typed
    PROVE  /\ DOMAIN payouts \subseteq Nat \ {0} /\ DOMAIN txs \subseteq Nat \ {0}
           /\ \A p \in DOMAIN payouts : payouts[p] \in Row
           /\ \A i \in DOMAIN txs : txs[i] \in Tx
<1>1. payouts \in Seq(Row) /\ txs \in Seq(Tx)
  BY DEF Typed
<1>2. /\ DOMAIN payouts = 1 .. Len(payouts) /\ Len(payouts) \in Nat
      /\ DOMAIN txs = 1 .. Len(txs) /\ Len(txs) \in Nat
  BY <1>1, LenProperties
<1> QED
  BY <1>1, <1>2, ElementOfSeq

-----------------------------------------------------------------------------
(* Steps of the job that change neither rows nor transactions *)

\* The invariant without what the job knows.
Kept == UNCHANGED <<payouts, txs>> /\ campaign' = campaign

LEMMA JobOnly ==
    ASSUME IInv, Kept, batchSize' = batchSize, job' \in Job,
           job'.batch \subseteq DOMAIN payouts,
           job'.pc = "wait" \/ (job'.pc = "record" /\ ~job'.failed) => job'.tx \in DOMAIN txs,
           BatchKnown', campaign = "Calculated" \/ job'.pc = "idle"
    PROVE  IInv'
<1>1. Typed'
  BY DEF IInv, Typed, Kept
<1>2. Linked'
  BY DEF IInv, Linked, Kept
<1>3. SentOnce' /\ OnePayoutPerUser'
  BY DEF IInv, SentOnce, OnePayoutPerUser, Kept
<1>4. RowsTrue'
  BY DEF IInv, RowsTrue, Void, Kept
<1>5. Closed'
  BY DEF IInv, Closed, Typed, Kept, AllUsersPaid, Of
<1> QED
  BY <1>1, <1>2, <1>3, <1>4, <1>5 DEF IInv

LEMMA CampaignOpen ==
    ASSUME IInv, job.pc # "idle"
    PROVE  campaign = "Calculated"
BY DEF IInv, Closed, Typed

LEMMA NoJobKnowsNothing ==
    /\ NoJob \in Job /\ NoJob.batch = {} /\ NoJob.pc = "idle"
BY DEF NoJob, Job, Pcs

LEMMA StartInvariant == IInv /\ Start => IInv'
<1> SUFFICES ASSUME IInv, Start PROVE IInv'
  OBVIOUS
<1>1. /\ job' \in Job /\ job'.batch = {} /\ job'.pc \in {"approve", "next"}
  BY DEF Start, NoJob, Job, Pcs
<1>2. BatchKnown'
  BY <1>1 DEF BatchKnown
<1> QED
  BY <1>1, <1>2, JobOnly DEF Start, Kept

LEMMA ApproveInvariant == IInv /\ Approve => IInv'
<1> SUFFICES ASSUME IInv, Approve PROVE IInv'
  OBVIOUS
<1>1. campaign = "Calculated"
  BY CampaignOpen DEF Approve
<1>2. job \in Job /\ job.batch \subseteq DOMAIN payouts
  BY DEF IInv, Typed, Linked
<1>3. job' \in Job /\ job'.batch \subseteq DOMAIN payouts /\ job'.pc \in {"next", "idle"}
  BY <1>2, NoJobKnowsNothing DEF Approve, Die, Job, Pcs
<1>4. BatchKnown'
  BY <1>3 DEF BatchKnown
<1> QED
  BY <1>1, <1>3, <1>4, JobOnly DEF Approve, Kept

LEMMA NextChunkInvariant == IInv /\ NextChunk => IInv'
<1> SUFFICES ASSUME IInv, NextChunk PROVE IInv'
  OBVIOUS
<1>1. campaign = "Calculated"
  BY CampaignOpen DEF NextChunk
<1>2. job \in Job
  BY DEF IInv, Typed
<1>3. job' \in Job /\ job'.batch = {} /\ job'.pc = "prepare"
  <2>1. PICK chunk \in SUBSET job.left :
            job' = [job EXCEPT !.pc = "prepare", !.left = job.left \ chunk, !.chunk = chunk,
                               !.batch = {}]
    BY DEF NextChunk
  <2>2. job.left \ chunk \in SUBSET Users /\ chunk \in SUBSET Users
    BY <1>2 DEF Job
  <2> QED
    BY <1>2, <2>1, <2>2 DEF Job, Pcs
<1>4. BatchKnown'
  BY <1>3 DEF BatchKnown
<1> QED
  BY <1>1, <1>3, <1>4, JobOnly DEF NextChunk, Kept

LEMMA RefusedInvariant == IInv /\ Refused => IInv'
<1> SUFFICES ASSUME IInv, Refused PROVE IInv'
  OBVIOUS
<1>1. campaign = "Calculated" /\ job.pc = "prepare"
  BY CampaignOpen DEF Refused
<1>2. job \in Job /\ job.batch \subseteq DOMAIN payouts
  BY DEF IInv, Typed, Linked
<1>3. job' \in Job /\ job'.batch = job.batch /\ job'.pc = "record" /\ job'.failed
  BY <1>2 DEF Refused, Recording, Job, Pcs
<1>4. BatchKnown'
  BY <1>1, <1>3 DEF IInv, BatchKnown, Refused
<1> QED
  BY <1>1, <1>2, <1>3, <1>4, JobOnly DEF Refused, Kept

LEMMA AnsweredInvariant == IInv /\ Answered => IInv'
<1> SUFFICES ASSUME IInv, Answered PROVE IInv'
  OBVIOUS
<1>1. campaign = "Calculated" /\ job.pc = "wait"
  BY CampaignOpen DEF Answered
<1>2. job \in Job /\ job.batch \subseteq DOMAIN payouts /\ job.tx \in DOMAIN txs
  BY <1>1 DEF IInv, Typed, Linked
<1> DEFINE void == txs[job.tx].state \in {"reverted", "lost"}
<1>void. void \in BOOLEAN
  OBVIOUS
<1>job. job' = [job EXCEPT !.pc = "record", !.failed = void]
  BY DEF Answered, Recording
<1>3. /\ job' \in Job /\ job'.batch = job.batch /\ job'.pc = "record" /\ job'.tx = job.tx
      /\ job'.failed = void
  <2> HIDE DEF void
  <2> QED
    BY <1>2, <1>void, <1>job DEF Job, Pcs
<1>4. \A p \in job.batch : payouts[p].status = "Pending" /\ p \in txs[job.tx].pays
  BY <1>1 DEF IInv, BatchKnown
<1>5. ASSUME job'.failed, NEW p \in job.batch, NEW i \in DOMAIN txs, p \in txs[i].pays
      PROVE  Void(i)
  BY <1>2, <1>3, <1>4, <1>5 DEF IInv, SentOnce, Void
<1>6. BatchKnown'
  BY <1>3, <1>4, <1>5 DEF BatchKnown, Answered, Void
<1> QED
  BY <1>1, <1>2, <1>3, <1>6, JobOnly DEF Answered, Kept

LEMMA EndChunkInvariant == IInv /\ EndChunk => IInv'
<1> SUFFICES ASSUME IInv, EndChunk PROVE IInv'
  OBVIOUS
<1>1. campaign = "Calculated"
  BY CampaignOpen DEF EndChunk
<1>2. job \in Job
  BY DEF IInv, Typed
<1>3. job' \in Job /\ job'.batch = {} /\ job'.pc \in {"next", "idle"}
  BY <1>2, NoJobKnowsNothing DEF EndChunk, Die, Job, Pcs
<1>4. BatchKnown'
  BY <1>3 DEF BatchKnown
<1> QED
  BY <1>1, <1>3, <1>4, JobOnly DEF EndChunk, Kept

LEMMA SettleInvariant == IInv /\ Settle => IInv'
<1> SUFFICES ASSUME IInv, Settle PROVE IInv'
  OBVIOUS
<1>1. campaign = "Calculated"
  BY CampaignOpen DEF Settle
<1>2. job \in Job /\ DOMAIN payouts \subseteq Nat
  BY Positions DEF IInv, Typed
<1>3. /\ job' \in Job /\ job'.pc = "confirm"
      /\ job'.batch = {p \in DOMAIN payouts : payouts[p].status = "Paid"}
  BY <1>2 DEF Settle, Job, Pcs
<1>4. BatchKnown'
  BY <1>3 DEF BatchKnown, Settle
<1> QED
  BY <1>1, <1>3, <1>4, JobOnly DEF Settle, Kept

LEMMA CrashInvariant == IInv /\ Crash => IInv'
<1> SUFFICES ASSUME IInv, Crash PROVE IInv'
  OBVIOUS
<1>1. job' \in Job /\ job'.batch = {} /\ job'.pc = "idle"
  BY NoJobKnowsNothing DEF Crash, Die
<1>2. BatchKnown'
  BY <1>1 DEF BatchKnown
<1> QED
  BY <1>1, <1>2, JobOnly DEF Crash, Kept

LEMMA FinishInvariant == IInv /\ Finish => IInv'
<1> SUFFICES ASSUME IInv, Finish PROVE IInv'
  OBVIOUS
<1>1. job' \in Job /\ job'.batch = {} /\ job'.pc = "idle" /\ UNCHANGED <<payouts, txs, batchSize>>
  BY NoJobKnowsNothing DEF Finish, Die
<1>2. BatchKnown'
  BY <1>1 DEF BatchKnown
<1>3. Typed' /\ Linked'
  BY <1>1 DEF IInv, Typed, Linked, Finish
<1>4. SentOnce' /\ OnePayoutPerUser' /\ RowsTrue'
  BY <1>1 DEF IInv, SentOnce, OnePayoutPerUser, RowsTrue, Void
<1>5. campaign = "Calculated"
  BY CampaignOpen DEF Finish
<1>6. Closed'
  BY <1>1, <1>5 DEF Closed, Finish, AllUsersPaid, Of
<1> QED
  BY <1>2, <1>3, <1>4, <1>6 DEF IInv

-----------------------------------------------------------------------------
(* Steps of the chain, and the end of the wait *)

\* Transactions go on: none is forgotten, void ones stay void, buried ones buried.
ChainGoesOn ==
    /\ txs' \in Seq(Tx) /\ DOMAIN txs' = DOMAIN txs
    /\ \A j \in DOMAIN txs :
        /\ txs'[j].pays = txs[j].pays
        /\ txs[j].state = "buried" => txs'[j].state = "buried"
        /\ Void(j) => Void(j)'

LEMMA OneChanges ==
    ASSUME IInv, NEW i \in DOMAIN txs, NEW t \in Tx, txs' = [txs EXCEPT ![i] = t],
           t.pays = txs[i].pays, txs[i].state = "buried" => t.state = "buried",
           Void(i) => t.doubtful \/ t.state \in {"reverted", "lost"}
    PROVE  ChainGoesOn
<1>1. txs \in Seq(Tx)
  BY DEF IInv, Typed
<1>2. /\ txs' \in Seq(Tx) /\ DOMAIN txs' = DOMAIN txs
      /\ \A j \in DOMAIN txs : txs'[j] = IF j = i THEN t ELSE txs[j]
  BY <1>1, SetElement
<1> QED
  BY <1>2 DEF ChainGoesOn, Void

LEMMA ChainOnly ==
    ASSUME IInv, ChainGoesOn, UNCHANGED <<batchSize, campaign, payouts, job>>
    PROVE  IInv'
<1>1. Typed'
  BY DEF IInv, Typed, ChainGoesOn
<1>2. Linked'
  BY DEF IInv, Linked, ChainGoesOn
<1>3. SentOnce' /\ OnePayoutPerUser'
  BY DEF IInv, SentOnce, OnePayoutPerUser, ChainGoesOn
<1>4. RowsTrue'
  <2> SUFFICES ASSUME NEW p \in DOMAIN payouts
               PROVE  /\ payouts[p].status \in {"Paid", "Confirmed"} =>
                           payouts[p].tx \in DOMAIN txs' /\ p \in txs'[payouts[p].tx].pays
                      /\ payouts[p].status = "Confirmed" => txs'[payouts[p].tx].state = "buried"
                      /\ payouts[p].status = "Failed" =>
                           \A i \in DOMAIN txs' : p \in txs'[i].pays => Void(i)'
    BY DEF RowsTrue
  <2> QED
    BY DEF IInv, RowsTrue, ChainGoesOn
<1>5. Closed'
  BY DEF IInv, Closed, AllUsersPaid, Of
<1>6. BatchKnown'
  <2>1. job.pc = "wait" \/ (job.pc = "record" /\ ~job.failed) => job.tx \in DOMAIN txs
    BY DEF IInv, Linked
  <2> QED
    BY <2>1 DEF IInv, BatchKnown, ChainGoesOn
<1> QED
  BY <1>1, <1>2, <1>3, <1>4, <1>5, <1>6 DEF IInv

LEMMA AdvanceInvariant == ASSUME IInv, NEW i \in DOMAIN txs, Advance(i) PROVE IInv'
<1>1. txs[i] \in Tx
  BY Positions DEF IInv
<1>2. PICK state \in {"included", "confirmed", "buried", "lost"} :
        /\ txs' = [txs EXCEPT ![i].state = state]
        /\ txs[i].state # "buried"
        /\ txs[i].state \in {"reverted", "lost"} => state = "lost"
  BY DEF Advance, Becomes
<1> DEFINE t == [txs[i] EXCEPT !.state = state]
<1>3. t \in Tx /\ t.pays = txs[i].pays /\ t.state = state /\ t.doubtful = txs[i].doubtful
  BY <1>1 DEF Tx, States
<1>4. txs' = [txs EXCEPT ![i] = t]
  BY <1>2
<1>5. Void(i) => t.doubtful \/ t.state \in {"reverted", "lost"}
  BY <1>2, <1>3 DEF Void
<1> HIDE DEF t
<1>6. ChainGoesOn
  BY <1>2, <1>3, <1>4, <1>5, OneChanges
<1> QED
  BY <1>6, ChainOnly DEF Advance

LEMMA DisturbInvariant == ASSUME IInv, NEW i \in DOMAIN txs, Disturb(i) PROVE IInv'
<1>1. txs[i] \in Tx
  BY Positions DEF IInv
<1>2. PICK t \in {[txs[i] EXCEPT !.state = "reverted"],
                  [txs[i] EXCEPT !.state = "pending", !.doubtful = TRUE]} :
        /\ txs' = [txs EXCEPT ![i] = t]
        /\ txs[i].state # "buried"
  BY DEF Disturb, Becomes
<1>3. t \in Tx /\ t.pays = txs[i].pays /\ (t.doubtful \/ t.state = "reverted")
  BY <1>1, <1>2 DEF Tx, States
<1>4. ChainGoesOn
  BY <1>2, <1>3, OneChanges
<1> QED
  BY <1>4, ChainOnly DEF Disturb

LEMMA TimedOutInvariant == IInv /\ TimedOut => IInv'
<1> SUFFICES ASSUME IInv, TimedOut PROVE IInv'
  OBVIOUS
<1>1. campaign = "Calculated" /\ job.pc = "wait" /\ job.tx \in DOMAIN txs /\ job \in Job
  BY CampaignOpen DEF TimedOut, IInv, Linked, Typed
<1>2. txs[job.tx] \in Tx
  BY <1>1, Positions DEF IInv
<1> DEFINE t == [txs[job.tx] EXCEPT !.doubtful = TRUE]
<1>3. t \in Tx /\ t.pays = txs[job.tx].pays /\ t.state = txs[job.tx].state /\ t.doubtful
  BY <1>2 DEF Tx
<1>4. txs' = [txs EXCEPT ![job.tx] = t]
  BY DEF TimedOut
<1>5. ChainGoesOn /\ txs'[job.tx] = t
  <2>1. txs \in Seq(Tx)
    BY DEF IInv, Typed
  <2> HIDE DEF t
  <2>2. txs'[job.tx] = t
    BY <1>1, <1>3, <1>4, <2>1, SetElement
  <2> QED
    BY <1>1, <1>3, <1>4, <2>2, OneChanges
<1>6. job' = [job EXCEPT !.pc = "record", !.failed = TRUE] /\ UNCHANGED <<batchSize, campaign, payouts>>
  BY DEF TimedOut, Recording
<1>7. job' \in Job /\ job'.batch = job.batch /\ job'.pc = "record" /\ job'.failed
  BY <1>1, <1>6 DEF Job, Pcs
<1>8. txs'[job.tx].doubtful
  BY <1>3, <1>5
<1> HIDE DEF t
<1>9. Typed' /\ Linked' /\ Closed'
  <2>1. Typed'
    BY <1>5, <1>6, <1>7 DEF IInv, Typed, ChainGoesOn
  <2>2. Linked'
    BY <1>5, <1>6, <1>7 DEF IInv, Linked, ChainGoesOn
  <2> QED
    BY <1>1, <1>6, <2>1, <2>2 DEF Closed
<1>10. SentOnce' /\ OnePayoutPerUser'
  BY <1>5, <1>6 DEF IInv, SentOnce, OnePayoutPerUser, ChainGoesOn
<1>11. RowsTrue'
  <2> SUFFICES ASSUME NEW p \in DOMAIN payouts
               PROVE  /\ payouts[p].status \in {"Paid", "Confirmed"} =>
                           payouts[p].tx \in DOMAIN txs' /\ p \in txs'[payouts[p].tx].pays
                      /\ payouts[p].status = "Confirmed" => txs'[payouts[p].tx].state = "buried"
                      /\ payouts[p].status = "Failed" =>
                           \A i \in DOMAIN txs' : p \in txs'[i].pays => Void(i)'
    BY <1>6 DEF RowsTrue
  <2> QED
    BY <1>5, <1>6 DEF IInv, RowsTrue, ChainGoesOn
<1>12. BatchKnown'
  <2>1. \A p \in job.batch : payouts[p].status = "Pending" /\ p \in txs[job.tx].pays
    BY <1>1 DEF IInv, BatchKnown
  <2>2. ASSUME NEW p \in job.batch, NEW i \in DOMAIN txs', p \in txs'[i].pays
        PROVE  Void(i)'
    <3>1. i = job.tx
      BY <1>1, <1>5, <2>1, <2>2 DEF IInv, SentOnce, ChainGoesOn
    <3> QED
      BY <3>1, <1>8 DEF Void
  <2> QED
    BY <1>6, <1>7, <2>1, <2>2 DEF BatchKnown
<1> QED
  BY <1>9, <1>10, <1>11, <1>12 DEF IInv

-----------------------------------------------------------------------------
(* Making rows and sending them *)

\* Rows that no transaction pays yet are sent, whatever the job is told of it.
LEMMA SubmitKeeps ==
    ASSUME IInv, job.pc = "prepare", job.batch # {}, NEW pc \in {"wait", "hung"}, Submit(pc),
           UNCHANGED <<batchSize, campaign, payouts>>
    PROVE  IInv'
<1>1. campaign = "Calculated"
  BY CampaignOpen
<1>2. job \in Job /\ job.batch \subseteq DOMAIN payouts /\ DOMAIN payouts \subseteq Nat
  BY Positions DEF IInv, Typed, Linked
<1> DEFINE t == [pays |-> job.batch, state |-> "pending", doubtful |-> FALSE]
           n == Len(txs) + 1
<1>3. t \in Tx /\ t.pays = job.batch /\ t.state = "pending"
  BY <1>2 DEF Tx, States
<1>4. txs' = Append(txs, t) /\ job' = [job EXCEPT !.pc = pc, !.tx = n]
  BY DEF Submit
<1>5. txs \in Seq(Tx)
  BY DEF IInv, Typed
<1> HIDE DEF t
<1>6. /\ txs' \in Seq(Tx) /\ n \in Nat \ {0} /\ n \notin DOMAIN txs
      /\ DOMAIN txs' = DOMAIN txs \cup {n}
      /\ \A j \in DOMAIN txs : txs'[j] = txs[j]
      /\ txs'[n] = t
  BY <1>3, <1>4, <1>5, AddElement
<1> HIDE DEF n
<1>7. /\ job' \in Job /\ job'.batch = job.batch /\ job'.pc = pc /\ job'.tx = n
  BY <1>2, <1>4, <1>6 DEF Job, Pcs
<1>8. Typed'
  BY <1>6, <1>7 DEF IInv, Typed
<1>9. Linked'
  BY <1>2, <1>3, <1>6, <1>7 DEF IInv, Linked
<1>10. \A p \in job.batch : /\ payouts[p].status = "Pending"
                            /\ \A i \in DOMAIN txs : p \notin txs[i].pays
  BY DEF IInv, BatchKnown
<1>11. SentOnce'
  BY <1>3, <1>6, <1>10 DEF IInv, SentOnce
<1>12. BatchKnown'
  BY <1>3, <1>6, <1>7, <1>10 DEF BatchKnown
<1>13. RowsTrue'
  <2> SUFFICES ASSUME NEW p \in DOMAIN payouts
               PROVE  /\ payouts[p].status \in {"Paid", "Confirmed"} =>
                           payouts[p].tx \in DOMAIN txs' /\ p \in txs'[payouts[p].tx].pays
                      /\ payouts[p].status = "Confirmed" => txs'[payouts[p].tx].state = "buried"
                      /\ payouts[p].status = "Failed" =>
                           \A i \in DOMAIN txs' : p \in txs'[i].pays => Void(i)'
    BY DEF RowsTrue
  <2>1. payouts[p].status = "Failed" => p \notin t.pays
    BY <1>3, <1>10
  <2>2. \A i \in DOMAIN txs : Void(i) => Void(i)'
    BY <1>6 DEF Void
  <2> QED
    BY <1>6, <2>1, <2>2 DEF IInv, RowsTrue
<1>14. Closed' /\ OnePayoutPerUser'
  BY <1>1 DEF IInv, Closed, OnePayoutPerUser
<1> QED
  BY <1>8, <1>9, <1>11, <1>12, <1>13, <1>14 DEF IInv

LEMMA SendInvariant == IInv /\ Send => IInv'
<1> SUFFICES ASSUME IInv, Send PROVE IInv'
  OBVIOUS
<1>1. campaign = "Calculated" /\ job.pc = "prepare"
  BY CampaignOpen DEF Send
<1>2. job \in Job /\ job.batch \subseteq DOMAIN payouts
  BY DEF IInv, Typed, Linked
<1>3. CASE job.batch = {}
  <2>1. job' \in Job /\ job'.batch = {} /\ job'.pc = "next" /\ txs' = txs
    BY <1>2, <1>3 DEF Send, Job, Pcs
  <2>2. BatchKnown'
    BY <2>1 DEF BatchKnown
  <2> QED
    BY <1>1, <2>1, <2>2, JobOnly DEF Send, Kept
<1>4. CASE job.batch # {}
  BY <1>1, <1>4, SubmitKeeps DEF Send
<1> QED
  BY <1>3, <1>4

LEMMA HangInvariant == IInv /\ Hang => IInv'
<1> SUFFICES ASSUME IInv, Hang PROVE IInv'
  OBVIOUS
<1>1. campaign = "Calculated"
  BY CampaignOpen DEF Hang
<1>2. job \in Job /\ job.batch \subseteq DOMAIN payouts
  BY DEF IInv, Typed, Linked
<1>3. CASE job' = [job EXCEPT !.pc = "hung"] /\ UNCHANGED txs
  <2>1. job' \in Job /\ job'.batch = job.batch /\ job'.pc = "hung"
    BY <1>2, <1>3 DEF Job, Pcs
  <2>2. BatchKnown'
    BY <2>1 DEF BatchKnown
  <2> QED
    BY <1>1, <1>2, <1>3, <2>1, <2>2, JobOnly DEF Hang, Kept
<1>4. CASE job.pc = "prepare" /\ Submit("hung")
  BY <1>4, SubmitKeeps DEF Hang
<1> QED
  BY <1>3, <1>4 DEF Hang

LEMMA PrepareInvariant == ASSUME IInv, NEW u \in Users, Prepare(u) PROVE IInv'
<1>1. campaign = "Calculated" /\ job.pc = "prepare" /\ u \in job.chunk
  BY CampaignOpen DEF Prepare
<1>2. job \in Job /\ job.batch \subseteq DOMAIN payouts /\ DOMAIN payouts \subseteq Nat
  BY Positions DEF IInv, Typed, Linked
<1>3. CASE HasPayout(u)
  <2>1. job' \in Job /\ job'.batch \subseteq job.batch /\ job'.pc \in {"prepare", "idle"}
    BY <1>1, <1>2, <1>3, NoJobKnowsNothing DEF Prepare, Die, Job, Pcs
  <2>2. BatchKnown'
    BY <1>1, <1>3, <2>1 DEF IInv, BatchKnown, Prepare
  <2> QED
    BY <1>1, <1>2, <1>3, <2>1, <2>2, JobOnly DEF Prepare, Kept
<1>4. CASE ~HasPayout(u)
  <2> DEFINE r == [user |-> u, status |-> "Pending", tx |-> 0]
             n == Len(payouts) + 1
  <2>1. r \in Row /\ r.user = u /\ r.status = "Pending" /\ r.tx = 0
    BY DEF Row, Statuses
  <2>2. /\ payouts' = Append(payouts, r)
        /\ job' = [job EXCEPT !.chunk = job.chunk \ {u}, !.batch = job.batch \cup {n}]
        /\ UNCHANGED <<batchSize, campaign, txs>>
    BY <1>4 DEF Prepare
  <2>3. payouts \in Seq(Row)
    BY DEF IInv, Typed
  <2> HIDE DEF r
  <2>4. /\ payouts' \in Seq(Row) /\ n \in Nat \ {0} /\ n \notin DOMAIN payouts
        /\ DOMAIN payouts' = DOMAIN payouts \cup {n}
        /\ \A p \in DOMAIN payouts : payouts'[p] = payouts[p]
        /\ payouts'[n] = r
    BY <2>1, <2>2, <2>3, AddElement
  <2> HIDE DEF n
  <2>5. /\ job' \in Job /\ job'.batch = job.batch \cup {n} /\ job'.pc = "prepare"
    <3>1. job.chunk \ {u} \in SUBSET Users /\ job.batch \cup {n} \in SUBSET Nat
      BY <1>2, <2>4 DEF Job
    <3> QED
      BY <1>1, <1>2, <2>2, <3>1 DEF Job, Pcs
  <2>6. Typed'
    BY <2>2, <2>4, <2>5 DEF IInv, Typed
  <2>7. Linked'
    BY <1>2, <2>1, <2>2, <2>4, <2>5 DEF IInv, Linked
  <2>8. SentOnce'
    BY <2>2 DEF IInv, SentOnce
  <2>9. \A i \in DOMAIN txs : n \notin txs[i].pays
    BY <2>4 DEF IInv, Linked
  <2>10. BatchKnown'
    BY <1>1, <1>2, <2>1, <2>2, <2>4, <2>5, <2>9 DEF IInv, BatchKnown
  <2>11. RowsTrue'
    <3>1. \A i \in DOMAIN txs : Void(i) => Void(i)'
      BY <2>2 DEF Void
    <3> QED
      BY <2>1, <2>2, <2>4, <3>1 DEF IInv, RowsTrue
  <2>12. Closed'
    BY <1>1, <2>2 DEF Closed
  <2>13. OnePayoutPerUser'
    <3>1. \A p \in DOMAIN payouts : payouts[p] \in Row
      BY Positions DEF IInv
    <3>2. \A p \in DOMAIN payouts : payouts[p].user = u => payouts[p].status = "Failed"
      BY <1>4, <3>1 DEF HasPayout, Of, Row, Statuses
    <3> QED
      BY <2>1, <2>4, <3>2 DEF IInv, OnePayoutPerUser
  <2> QED
    BY <2>6, <2>7, <2>8, <2>10, <2>11, <2>12, <2>13 DEF IInv
<1> QED
  BY <1>3, <1>4

-----------------------------------------------------------------------------
(* Recording and confirming what became of rows *)

\* Row p becomes r and leaves the batch; it was neither failed nor confirmed.
LEMMA RowChanges ==
    ASSUME IInv, campaign = "Calculated",
           NEW p \in job.batch, NEW r \in Row, payouts' = [payouts EXCEPT ![p] = r],
           UNCHANGED <<batchSize, campaign, txs>>,
           job' \in Job, job'.pc = job.pc, job'.batch = job.batch \ {p},
           job'.tx = job.tx, job'.failed = job.failed,
           payouts[p].status \in {"Pending", "Paid"},
           r.user = payouts[p].user, r.tx \in {0} \cup DOMAIN txs,
           r.status \in {"Paid", "Confirmed"} => r.tx \in DOMAIN txs /\ p \in txs[r.tx].pays,
           r.status = "Confirmed" => txs[r.tx].state = "buried",
           r.status = "Failed" => \A i \in DOMAIN txs : p \in txs[i].pays => Void(i)
    PROVE  IInv'
<1>1. p \in DOMAIN payouts /\ payouts \in Seq(Row)
  BY DEF IInv, Linked, Typed
<1>2. /\ payouts' \in Seq(Row) /\ DOMAIN payouts' = DOMAIN payouts
      /\ \A q \in DOMAIN payouts : payouts'[q] = IF q = p THEN r ELSE payouts[q]
  BY <1>1, SetElement
<1>3. Typed'
  BY <1>2 DEF IInv, Typed
<1>4. Linked'
  BY <1>2 DEF IInv, Linked
<1>5. SentOnce'
  BY DEF IInv, SentOnce
<1>6. \A i \in DOMAIN txs : Void(i) => Void(i)'
  BY DEF Void
<1>7. BatchKnown'
  BY <1>1, <1>2, <1>6 DEF IInv, BatchKnown, Linked
<1>8. RowsTrue'
  BY <1>2, <1>6 DEF IInv, RowsTrue
<1>9. Closed'
  BY DEF Closed
<1>10. OnePayoutPerUser'
  BY <1>1, <1>2 DEF IInv, OnePayoutPerUser
<1> QED
  BY <1>3, <1>4, <1>5, <1>7, <1>8, <1>9, <1>10 DEF IInv

LEMMA RecordInvariant == ASSUME IInv, NEW p \in DOMAIN payouts, Record(p) PROVE IInv'
<1>1. campaign = "Calculated" /\ job.pc = "record" /\ p \in job.batch
  BY CampaignOpen DEF Record
<1>2. job \in Job /\ payouts[p] \in Row /\ payouts[p].status = "Pending"
  BY <1>1, Positions DEF IInv, Typed, BatchKnown
<1>3. /\ payouts[p].tx \in {0} \cup DOMAIN txs
      /\ ~job.failed => job.tx \in DOMAIN txs /\ p \in txs[job.tx].pays
      /\ job.failed => \A i \in DOMAIN txs : p \in txs[i].pays => Void(i)
  BY <1>1 DEF IInv, Linked, BatchKnown
<1>4. PICK r : /\ payouts' = [payouts EXCEPT ![p] = r]
               /\ r = IF job.failed THEN [payouts[p] EXCEPT !.status = "Failed"]
                      ELSE [payouts[p] EXCEPT !.status = "Paid", !.tx = job.tx]
  <2>1. CASE job.failed
    BY <2>1 DEF Record, Recorded
  <2>2. CASE ~job.failed
    <3>1. payouts' = [[payouts EXCEPT ![p].status = "Paid"] EXCEPT ![p].tx = job.tx]
      BY <2>2 DEF Record, Recorded
    <3> QED
      BY <2>2, <3>1
  <2> QED
    BY <2>1, <2>2
<1>5. /\ r \in Row /\ r.user = payouts[p].user /\ r.tx \in {0} \cup DOMAIN txs
      /\ r.status = IF job.failed THEN "Failed" ELSE "Paid"
      /\ ~job.failed => r.tx = job.tx
  BY <1>2, <1>3, <1>4 DEF Row, Statuses, Job
<1>6. /\ job' \in Job /\ job'.pc = job.pc /\ job'.batch = job.batch \ {p}
      /\ job'.tx = job.tx /\ job'.failed = job.failed
  <2>1. job' = [job EXCEPT !.batch = job.batch \ {p}] /\ job.batch \ {p} \in SUBSET Nat
    BY <1>2 DEF Record, Job
  <2> QED
    BY <1>2, <2>1 DEF Job
<1>7. /\ r.status \in {"Paid", "Confirmed"} => r.tx \in DOMAIN txs /\ p \in txs[r.tx].pays
      /\ r.status # "Confirmed"
      /\ r.status = "Failed" => \A i \in DOMAIN txs : p \in txs[i].pays => Void(i)
  BY <1>3, <1>5
<1>8. payouts' = [payouts EXCEPT ![p] = r] /\ UNCHANGED <<batchSize, campaign, txs>>
  BY <1>4 DEF Record
<1> QED
  BY ONLY IInv, <1>1, <1>2, <1>5, <1>6, <1>7, <1>8, RowChanges

LEMMA ConfirmInvariant == ASSUME IInv, NEW p \in DOMAIN payouts, Confirm(p) PROVE IInv'
<1>1. campaign = "Calculated" /\ job.pc = "confirm" /\ p \in job.batch
  BY CampaignOpen DEF Confirm
<1>2. job \in Job /\ payouts[p] \in Row /\ payouts[p].status = "Paid"
  BY <1>1, Positions DEF IInv, Typed, BatchKnown
<1> DEFINE i == payouts[p].tx
<1>3. i \in DOMAIN txs /\ p \in txs[i].pays /\ i \in {0} \cup DOMAIN txs
  BY <1>2 DEF IInv, RowsTrue
<1>4. /\ job' \in Job /\ job'.pc = job.pc /\ job'.batch = job.batch \ {p}
      /\ job'.tx = job.tx /\ job'.failed = job.failed
  <2>1. job.batch \ {p} \in SUBSET Nat
    BY <1>2 DEF Job
  <2>2. \/ job' = [job EXCEPT !.batch = job.batch \ {p}]
        \/ job' = [job EXCEPT !.batch = job.batch \ {p}, !.allConfirmed = FALSE]
    BY DEF Confirm
  <2> QED
    BY <1>2, <2>1, <2>2 DEF Job
<1>5. UNCHANGED <<batchSize, campaign, txs>>
  BY DEF Confirm
<1>6. CASE UNCHANGED payouts
  <2>1. payouts' = [payouts EXCEPT ![p] = payouts[p]]
    BY <1>6, Positions, LenProperties DEF IInv, Typed
  <2> HIDE DEF i
  <2> QED
    BY ONLY IInv, <1>1, <1>2, <1>3, <1>4, <1>5, <2>1, RowChanges DEF i
<1>7. CASE Deep(txs[i].state) /\ payouts' = [payouts EXCEPT ![p].status = "Confirmed"]
  <2>1. PICK r : r = [payouts[p] EXCEPT !.status = "Confirmed"] /\ payouts' = [payouts EXCEPT ![p] = r]
    BY <1>7
  <2>2. r \in Row /\ r.user = payouts[p].user /\ r.tx = i /\ r.status = "Confirmed"
    BY <1>2, <2>1 DEF Row, Statuses
  <2>3. txs[i].state = "buried"
    BY <1>7 DEF Deep
  <2> HIDE DEF i
  <2> QED
    BY ONLY IInv, <1>1, <1>2, <1>3, <1>4, <1>5, <2>1, <2>2, <2>3, RowChanges
<1>8. CASE txs[i].state = "lost" /\ payouts' = [payouts EXCEPT ![p].status = "Failed"]
  <2>1. PICK r : r = [payouts[p] EXCEPT !.status = "Failed"] /\ payouts' = [payouts EXCEPT ![p] = r]
    BY <1>8
  <2>2. r \in Row /\ r.user = payouts[p].user /\ r.tx = i /\ r.status = "Failed"
    BY <1>2, <2>1 DEF Row, Statuses
  <2>3. ASSUME NEW j \in DOMAIN txs, p \in txs[j].pays PROVE Void(j)
    BY <1>3, <1>8, <2>3 DEF IInv, SentOnce, Void
  <2> HIDE DEF i
  <2> QED
    BY ONLY IInv, <1>1, <1>2, <1>3, <1>4, <1>5, <2>1, <2>2, <2>3, RowChanges
<1> QED
  BY <1>6, <1>7, <1>8 DEF Confirm

-----------------------------------------------------------------------------
(* Theorems *)

LEMMA InitInvariant == Init => IInv
<1> SUFFICES ASSUME Init PROVE IInv
  OBVIOUS
<1>1. /\ payouts = << >> /\ txs = << >> /\ job = NoJob /\ campaign = "Calculated"
      /\ batchSize \in BatchSizes
  BY DEF Init
<1>2. /\ payouts \in Seq(Row) /\ txs \in Seq(Tx) /\ DOMAIN payouts = {} /\ DOMAIN txs = {}
  BY <1>1, EmptySeq, LenProperties
<1>3. Typed
  BY <1>1, <1>2, NoJobKnowsNothing DEF Typed
<1> QED
  BY <1>1, <1>2, <1>3, NoJobKnowsNothing
  DEF IInv, Linked, SentOnce, BatchKnown, RowsTrue, Closed, OnePayoutPerUser

LEMMA StepInvariant == IInv /\ [Next]_vars => IInv'
<1> SUFFICES ASSUME IInv, [Next]_vars PROVE IInv'
  OBVIOUS
<1>1. CASE Start
  BY <1>1, StartInvariant
<1>2. CASE Approve
  BY <1>2, ApproveInvariant
<1>3. CASE NextChunk
  BY <1>3, NextChunkInvariant
<1>4. CASE Send
  BY <1>4, SendInvariant
<1>5. CASE Refused
  BY <1>5, RefusedInvariant
<1>6. CASE Answered
  BY <1>6, AnsweredInvariant
<1>7. CASE TimedOut
  BY <1>7, TimedOutInvariant
<1>8. CASE EndChunk
  BY <1>8, EndChunkInvariant
<1>9. CASE Settle
  BY <1>9, SettleInvariant
<1>10. CASE Finish
  BY <1>10, FinishInvariant
<1>11. ASSUME NEW u \in Users, Prepare(u) PROVE IInv'
  BY <1>11, PrepareInvariant
<1>12. ASSUME NEW p \in DOMAIN payouts, Record(p) PROVE IInv'
  BY <1>12, RecordInvariant
<1>13. ASSUME NEW p \in DOMAIN payouts, Confirm(p) PROVE IInv'
  BY <1>13, ConfirmInvariant
<1>14. CASE Crash
  BY <1>14, CrashInvariant
<1>15. ASSUME NEW i \in DOMAIN txs, Advance(i) PROVE IInv'
  BY <1>15, AdvanceInvariant
<1>16. ASSUME NEW i \in DOMAIN txs, Disturb(i) PROVE IInv'
  BY <1>16, DisturbInvariant
<1>17. CASE Hang
  BY <1>17, HangInvariant
<1>18. CASE UNCHANGED vars
  BY <1>18 DEF vars, IInv, Typed, Linked, SentOnce, BatchKnown, RowsTrue, Closed,
               OnePayoutPerUser, Void, AllUsersPaid, Of
<1> QED
  BY <1>1, <1>2, <1>3, <1>4, <1>5, <1>6, <1>7, <1>8, <1>9, <1>10, <1>11, <1>12, <1>13,
     <1>14, <1>15, <1>16, <1>17, <1>18 DEF Next, JobStep

LEMMA Invariant == Spec => []IInv
<1>1. Init => IInv
  BY InitInvariant
<1>2. IInv /\ [Next]_vars => IInv'
  BY StepInvariant
<1> QED
  BY <1>1, <1>2, PTL DEF Spec

(* Rows, transactions and the job keep their types, and every row and transaction
   that one of them refers to is there: no step reads past what it was given. *)
THEOREM TypeCorrect == Spec => []TypeOK
<1>1. IInv => TypeOK
  <2> SUFFICES ASSUME IInv PROVE TypeOK
    OBVIOUS
  <2>1. job.batch \subseteq DOMAIN payouts /\ job.left \cup job.chunk \subseteq Users /\ job.pc \in Pcs
    BY DEF IInv, Typed, Linked, Job
  <2>2. \A p \in DOMAIN payouts : payouts[p] \in [user : Users, status : Statuses, tx : {0} \cup DOMAIN txs]
    BY Positions DEF IInv, Linked, Row
  <2>3. \A i \in DOMAIN txs : /\ txs[i].pays # {} /\ txs[i].pays \subseteq DOMAIN payouts
                              /\ txs[i].state \in States
    BY Positions DEF IInv, Linked, Tx
  <2>4. batchSize \in BatchSizes /\ campaign \in {"Calculated", "Distributed"}
    BY DEF IInv, Typed
  <2> QED
    BY <2>1, <2>2, <2>3, <2>4 DEF TypeOK, Pcs, Statuses, States
<1> QED
  BY <1>1, Invariant, PTL

(* A user never has two rows that have not failed, for any number of users and of
   runs that fail or are killed. *)
THEOREM OneRowPerUser == Spec => []OnePayoutPerUser
<1>1. IInv => OnePayoutPerUser
  BY DEF IInv
<1> QED
  BY <1>1, Invariant, PTL

(* Whatever fails, and however often the job is killed and started again, a user is
   paid twice only through a transaction that was given up on or undone. *)
THEOREM NeverPaidTwiceUnnoticed == Spec => []PaidTwiceOnlyAfterGivingUp
<1>1. IInv => PaidTwiceOnlyAfterGivingUp
  <2> SUFFICES ASSUME IInv, NEW u \in Users, Cardinality(Payments(u)) > 1
               PROVE  \E i \in Payments(u) : txs[i].doubtful
    BY DEF PaidTwiceOnlyAfterGivingUp
  <2>1. IsFiniteSet(Payments(u))
    <3>1. DOMAIN txs = 1 .. Len(txs) /\ Len(txs) \in Nat
      BY LenProperties DEF IInv, Typed
    <3>2. IsFiniteSet(DOMAIN txs)
      BY <3>1, FS_Interval
    <3>3. Payments(u) \in SUBSET DOMAIN txs
      BY DEF Payments
    <3> QED
      BY <3>2, <3>3, FS_Subset
  <2>2. PICK i \in Payments(u), j \in Payments(u) : i # j
    BY <2>1, TwoMembers
  <2>3. PICK p \in txs[i].pays, q \in txs[j].pays : payouts[p].user = u /\ payouts[q].user = u
    BY DEF Payments
  <2>4. /\ i \in DOMAIN txs /\ j \in DOMAIN txs /\ p \in DOMAIN payouts /\ q \in DOMAIN payouts
        /\ txs[i].state \notin {"reverted", "lost"} /\ txs[j].state \notin {"reverted", "lost"}
    BY <2>2, <2>3 DEF Payments, IInv, Linked
  <2>5. p # q
    BY <2>2, <2>3, <2>4 DEF IInv, SentOnce
  <2>6. payouts[p].status = "Failed" \/ payouts[q].status = "Failed"
    BY <2>3, <2>4, <2>5 DEF IInv, OnePayoutPerUser
  <2>7. Void(i) \/ Void(j)
    BY <2>3, <2>4, <2>6 DEF IInv, RowsTrue
  <2> QED
    BY <2>2, <2>4, <2>7 DEF Void
<1> QED
  BY <1>1, Invariant, PTL

(* A distributed campaign has paid every user by a transaction that is too deep to
   be undone. *)
THEOREM DistributedIsPaid == Spec => []DistributedMeansPaid
<1>1. IInv => DistributedMeansPaid
  <2> SUFFICES ASSUME IInv, campaign = "Distributed", NEW u \in Users
               PROVE  \E i \in Payments(u) : txs[i].state = "buried"
    BY DEF DistributedMeansPaid
  <2>1. PICK p \in DOMAIN payouts : payouts[p].user = u /\ payouts[p].status = "Confirmed"
    BY DEF IInv, Closed, AllUsersPaid, Of
  <2>2. /\ payouts[p].tx \in DOMAIN txs /\ p \in txs[payouts[p].tx].pays
        /\ txs[payouts[p].tx].state = "buried"
    BY <2>1 DEF IInv, RowsTrue
  <2> QED
    BY <2>1, <2>2 DEF Payments
<1> QED
  BY <1>1, Invariant, PTL
=============================================================================
