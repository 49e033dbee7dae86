---------------------------- MODULE EventSource ----------------------------
(***************************************************************************)
(* The event source, packages/eventsource/src/index.js, over the           *)
(* marketplace: what the applications show of an offer is put together     *)
(* from the events of the offer, as far as the event cache has read them,  *)
(* and from the offer in the contract, read at the block of the last event *)
(* that left one there.                                                    *)
(*                                                                         *)
(* A block is identified by its timestamp, so all calls at one moment are  *)
(* in one block.  Listings, what offers say in IPFS, and the memory of     *)
(* results, which are kept by block, are left out.                         *)
(***************************************************************************)
EXTENDS Marketplace, Sequences, FiniteSetsExt

CONSTANT MaxEvents      (* bound: events of an offer *)

VARIABLES
    log,        (* log[s]: the events of an offer, with block and party     *)
    archive,    (* archive[b]: the offers at the end of an earlier block    *)
    agreed      (* agreed[s]: buyer and value of an offer, kept when it is
                   deleted; nothing in the code reads it                    *)

sourceVars == <<log, archive, agreed>>
allVars    == <<vars, sourceVars>>

SourceInit ==
    /\ Init
    /\ log = [s \in Slots |-> << >>]
    /\ archive = << >>
    /\ agreed = [s \in Slots |-> [buyer |-> Null, value |-> 0]]

-----------------------------------------------------------------------------
(* Events *)

Emits(s, event, party) ==
    /\ Len(log[s]) < MaxEvents
    /\ log' = [log EXCEPT ![s] = Append(@, [event |-> event, block |-> now, party |-> party])]
    /\ agreed' = IF offers'[s] = NoOffer THEN agreed
                 ELSE [agreed EXCEPT ![s] = [buyer |-> offers'[s].buyer, value |-> offers'[s].value]]
    /\ UNCHANGED archive

OfferCall(sender, l, o) ==
    LET emits(event) == Emits(<<l, o>>, event, sender) IN
    \/ AcceptOffer(sender, l, o) /\ emits("OfferAccepted")
    \/ WithdrawOffer(sender, l, o) /\ emits("OfferWithdrawn")
    \/ (\E value \in Values : AddFunds(sender, l, o, value)) /\ emits("OfferFundsAdded")
    \/ Finalize(sender, l, o) /\ emits("OfferFinalized")
    \/ Dispute(sender, l, o) /\ emits("OfferDisputed")
    \/ (\E ruling \in Rulings, refund \in Refunds :
            ExecuteRuling(sender, l, o, ruling, refund)) /\ emits("OfferRuling")
    \/ (\E refund \in Refunds : UpdateRefund(sender, l, o, refund)) /\ emits("OfferData")

\* addData: anybody adds anything to any offer, also to one that is closed or has
\* not been made.
AddData(sender, l, o) ==
    /\ UNCHANGED vars
    /\ Emits(<<l, o>>, "OfferData", sender)

MakeOfferCall ==
    /\ MakeOfferStep
    /\ \E l \in ListingIds :
        /\ numOffers'[l] > numOffers[l]
        /\ LET s == <<l, numOffers[l]>> IN Emits(s, "OfferCreated", offers'[s].buyer)

\* The next block: what the contract holds now can be read at this one later.
EndBlock ==
    /\ Tick
    /\ archive' = [b \in DOMAIN archive \cup {now} |-> IF b = now THEN offers ELSE archive[b]]
    /\ UNCHANGED <<log, agreed>>

SourceNext ==
    \/ (ListingStep \/ OwnerStep) /\ UNCHANGED sourceVars
    \/ MakeOfferCall
    \/ \E sender \in Accounts, l \in ListingIds, o \in OfferIds :
            OfferCall(sender, l, o) \/ AddData(sender, l, o)
    \/ EndBlock

SourceSpec == SourceInit /\ [][SourceNext]_allVars

-----------------------------------------------------------------------------
(* _getOffer(), for a reader whose event cache has come to block b *)

OfferAt(s, b) == IF b = now THEN offers[s] ELSE archive[b][s]

\* The events in the cache, by their places in the log.
EventsOf(s, b) == {i \in DOMAIN log[s] : log[s][i].block <= b}

\* Slip: the offer is read at its last event, whatever that did to it.
ReadsAtLastEvent(e) == e.event # "OfferData"

\* Events that leave an offer in the contract.
LeavesOffer(e) == e.event \notin {"OfferFinalized", "OfferWithdrawn", "OfferRuling", "OfferData"}

Opening(s, b) == {i \in EventsOf(s, b) : LeavesOffer(log[s][i])}
Changes(s, b) == {i \in EventsOf(s, b) : log[s][i].event # "OfferData"}

LatestBlock(s, b) == log[s][Max(Opening(s, b))].block

LastEvent(s, b) == log[s][Max(Changes(s, b))]

ShownOffer(s, b) == OfferAt(s, LatestBlock(s, b))

Withdrawn == 0
Finalized == 4
Ruled     == 5

\* Slip: a finalized offer is told from its struct.
StatusUnlessFinalized(s, b) ==
    CASE LastEvent(s, b).event = "OfferWithdrawn" -> Withdrawn
      [] LastEvent(s, b).event = "OfferRuling" -> Ruled
      [] OTHER -> ShownOffer(s, b).status

ShownStatus(s, b) ==
    IF LastEvent(s, b).event = "OfferWithdrawn" THEN Withdrawn
    ELSE IF LastEvent(s, b).event = "OfferRuling" THEN Ruled
    ELSE IF \E i \in EventsOf(s, b) : log[s][i].event = "OfferFinalized" THEN Finalized
    ELSE ShownOffer(s, b).status

\* offerStatus(): an offer withdrawn by another than its buyer was declined.
ShownDeclined(s, b) ==
    /\ ShownStatus(s, b) = Withdrawn
    /\ LastEvent(s, b).party # ShownOffer(s, b).buyer

-----------------------------------------------------------------------------
(* Properties *)

\* Blocks at which the event cache may be, and at which the offer is there.
Readings(s) ==
    {b \in Now0 .. now : \E i \in EventsOf(s, b) : log[s][i].event = "OfferCreated"}

(* However far the event cache is behind the contract, the status shown for an
   offer is the one it had at the end of the block the cache has come to: the
   contract's while the offer is open, and one of the closed ones afterwards, when
   the contract has deleted it (eventsource index.js _getOffer). *)
StatusShown ==
    \A s \in Slots : \A b \in Readings(s) :
        LET status == OfferAt(s, b).status IN
        IF status = Undefined THEN ShownStatus(s, b) \in {Withdrawn, Finalized, Ruled}
        ELSE ShownStatus(s, b) = status

\* The offer was closed in the block of another event that changed it.
ClosedInOneBlock(s) ==
    \E i, j \in DOMAIN log[s] :
        /\ i # j /\ log[s][i].block = log[s][j].block
        /\ ~LeavesOffer(log[s][i]) /\ log[s][i].event # "OfferData"
        /\ LeavesOffer(log[s][j])

(* The buyer and the value of an offer are shown as they were agreed, also when the
   contract has deleted the offer, and an offer that its buyer withdrew is not shown
   as declined: provided it was not closed in the block of the event it is read at,
   where the contract has nothing left to read (eventsource index.js _getOffer,
   offerStatus.js). *)
TermsShown ==
    \A s \in Slots : Readings(s) # {} /\ ~ClosedInOneBlock(s) =>
        /\ ShownOffer(s, now).buyer = agreed[s].buyer
        /\ ShownOffer(s, now).value = agreed[s].value
        /\ ShownDeclined(s, now) =>
                \E i \in DOMAIN log[s] : log[s][i].event = "OfferWithdrawn"
                                            /\ log[s][i].party # agreed[s].buyer
=============================================================================
