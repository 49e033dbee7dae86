---------------------------- MODULE Marketplace ----------------------------
(***************************************************************************)
(* The escrow contract of the marketplace, V01_Marketplace.sol: listings   *)
(* with a deposit in the Origin token, offers whose money (ETH or an ERC20 *)
(* token) the contract holds until they are withdrawn, finalized or ruled  *)
(* upon, and the commission an accepted offer reserves from the deposit.   *)
(*                                                                         *)
(* One action is one transaction: a transaction that fails a require, or   *)
(* whose payment fails, reverts and is no step at all.  msg.sender is the  *)
(* parameter "sender".  IPFS hashes and events carry no contract state and *)
(* are left out.                                                           *)
(***************************************************************************)
EXTENDS Integers, FiniteSets, Sums

CONSTANTS
    Accounts,       (* addresses that sign transactions                     *)
    Market,         (* the address of the contract itself                   *)
    Null,           (* address 0x0, where it stands for a missing address   *)
    ETH,            (* address 0x0, where it stands for the currency Ether  *)
    Tokens,         (* ERC20 token contracts                                *)
    DepositTokens,  (* the tokens the owner may ever pass to setTokenAddr   *)
    OriginToken,    (* the one the contract is constructed with             *)
    Payees,         (* addresses people name as affiliate or target         *)
    Managed,        (* addresses the owner puts on or off the whitelist     *)
    Arbitrators,    (* addresses buyers name as arbitrator                  *)
    Payable,        (* accounts that accept Ether sent to them              *)
    MaxListings,    (* bound: listings created                              *)
    MaxOffers,      (* bound: offers made per listing                       *)
    Deposits,       (* amounts passed as a deposit                          *)
    Values,         (* amounts passed as an offer's value or added to it    *)
    Commissions,    (* amounts passed as a commission                       *)
    Refunds,        (* amounts passed as a refund                           *)
    Windows,        (* arguments _finalizes                                 *)
    RelativeLimit,  (* 1000000000: a smaller _finalizes is a duration       *)
    Now0, MaxNow,   (* block time at deployment; bound on block time        *)
    Funds           (* what each account owns of each currency at the start *)

ListingIds == 0 .. MaxListings - 1
OfferIds   == 0 .. MaxOffers - 1
Slots      == ListingIds \X OfferIds
Currencies == Tokens \cup {ETH}
Holders    == Accounts \cup {Market}

ASSUME AddressAssumption ==
    /\ Market \notin Accounts
    /\ Null \notin Accounts \cup {Market}
    /\ ETH \notin Tokens
    /\ OriginToken \in DepositTokens
    /\ DepositTokens \subseteq Tokens
    /\ Payees \subseteq Holders
    /\ Managed \subseteq Holders \cup {Null}
    /\ Arbitrators \subseteq Accounts \cup {Null}
    /\ Payable \subseteq Accounts

ASSUME BoundAssumption ==
    /\ MaxListings \in Nat \ {0}
    /\ MaxOffers \in Nat \ {0}
    /\ IsFiniteSet(Tokens)

ASSUME AmountAssumption ==
    /\ Deposits \subseteq Nat
    /\ Values \subseteq Nat
    /\ Commissions \subseteq Nat
    /\ Refunds \subseteq Nat
    /\ Funds \in Nat

ASSUME TimeAssumption ==
    /\ Windows \subseteq Nat
    /\ RelativeLimit \in Nat
    /\ Now0 \in Nat
    /\ MaxNow \in Nat
    /\ RelativeLimit <= Now0

VARIABLES
    now,                (* block.timestamp                                  *)
    tokenAddr,
    allowedAffiliates,  (* addresses mapped to true                         *)
    numListings,        (* listings.length                                  *)
    seller, deposit, depositManager,    (* the fields of listings[id]       *)
    numOffers,          (* offers[id].length                                *)
    offers,             (* offers[listingID][offerID] at <<listingID, offerID>> *)
    balance             (* balance[currency][holder]                        *)

listingVars == <<numListings, seller, deposit, depositManager>>
offerVars   == <<numOffers, offers>>
ownerVars   == <<tokenAddr, allowedAffiliates>>
vars == <<now, tokenAddr, allowedAffiliates, numListings, seller, deposit,
          depositManager, numOffers, offers, balance>>

Undefined == 0
Created   == 1
Accepted  == 2
Disputed  == 3
Statuses  == {Undefined, Created, Accepted, Disputed}

Offer ==
    [value : Nat, commission : Nat, refund : Nat, currency : Currencies,
     buyer : Accounts \cup {Null}, affiliate : Payees \cup {Null},
     arbitrator : Accounts \cup {Null}, finalizes : Nat, status : Statuses]

\* What "delete offers[listingID][offerID]" leaves behind.
NoOffer ==
    [value |-> 0, commission |-> 0, refund |-> 0, currency |-> ETH,
     buyer |-> Null, affiliate |-> Null, arbitrator |-> Null,
     finalizes |-> 0, status |-> Undefined]

Init ==
    /\ now = Now0
    /\ tokenAddr = OriginToken
    /\ allowedAffiliates = {Null}
    /\ numListings = 0
    /\ seller = [l \in ListingIds |-> Null]
    /\ deposit = [l \in ListingIds |-> 0]
    /\ depositManager = [l \in ListingIds |-> Null]
    /\ numOffers = [l \in ListingIds |-> 0]
    /\ offers = [s \in Slots |-> NoOffer]
    /\ balance = [c \in Currencies |->
                    [h \in Holders |-> IF h = Market THEN 0 ELSE Funds]]

(***************************************************************************)
(* Payments.  An ERC20 transfer, or an Ether send, of v from one holder to *)
(* another.  A token refuses a transfer its payer cannot cover; Ether      *)
(* sent to a contract without a payable fallback comes back.               *)
(***************************************************************************)
Move(bal, c, from, to, v) ==
    LET paid == [bal[c] EXCEPT ![from] = @ - v]
    IN  [bal EXCEPT ![c] = [paid EXCEPT ![to] = @ + v]]

Covered(bal, c, from, v) == bal[c][from] >= v

CanSend(bal, c, to, v) ==
    /\ Covered(bal, c, Market, v)
    /\ c = ETH => to \in Payable

\* refundBuyer: the whole value goes back to the buyer.
RefundBuyer(bal, buyer, currency, value) ==
    /\ CanSend(bal, currency, buyer, value)
    /\ balance' = Move(bal, currency, Market, buyer, value)

\* Slip: the refund is deducted from the seller's pay but never sent.
PaySellerOnly(bal, payee, buyer, currency, value, refund) ==
    /\ refund <= value
    /\ CanSend(bal, currency, payee, value - refund)
    /\ balance' = Move(bal, currency, Market, payee, value - refund)

\* paySeller: first the refund to the buyer, then the rest to the seller.  A
\* refund above the value would wrap around to an amount nothing covers.
PaySeller(bal, payee, buyer, currency, value, refund) ==
    LET refunded == Move(bal, currency, Market, buyer, refund) IN
    /\ refund <= value
    /\ CanSend(bal, currency, buyer, refund)
    /\ CanSend(refunded, currency, payee, value - refund)
    /\ balance' = Move(refunded, currency, Market, payee, value - refund)

\* payCommission, as the condition on the payment and the balances after it.
CommissionPaid(affiliate, commission) ==
    affiliate # Null => Covered(balance, tokenAddr, Market, commission)

\* Slip: the commission is not sent.
CommissionForgotten(affiliate, commission) == balance

AfterCommission(affiliate, commission) ==
    IF affiliate = Null THEN balance
    ELSE Move(balance, tokenAddr, Market, affiliate, commission)

Exists(l) == l < numListings

\* Slip: the require is dropped.
DepositNotLookedAt(l, amount) == TRUE

\* The deposit of a listing has to cover what leaves it.
DepositCovers(l, amount) == deposit[l] >= amount

-----------------------------------------------------------------------------
(* Listings *)

\* createListing, and createListingWithSender called by the token.
CreateListing(sender, amount, manager) ==
    /\ numListings < MaxListings
    /\ Covered(balance, tokenAddr, sender, amount)
    /\ numListings' = numListings + 1
    /\ seller' = [seller EXCEPT ![numListings] = sender]
    /\ deposit' = [deposit EXCEPT ![numListings] = amount]
    /\ depositManager' = [depositManager EXCEPT ![numListings] = manager]
    /\ balance' = Move(balance, tokenAddr, sender, Market, amount)
    /\ UNCHANGED <<now, ownerVars, offerVars>>

\* updateListing and updateListingWithSender.
UpdateListing(sender, l, additional) ==
    /\ Exists(l)
    /\ seller[l] = sender
    /\ Covered(balance, tokenAddr, sender, additional)
    /\ deposit' = [deposit EXCEPT ![l] = @ + additional]
    /\ balance' = Move(balance, tokenAddr, sender, Market, additional)
    /\ UNCHANGED <<now, ownerVars, numListings, seller, depositManager, offerVars>>

\* withdrawListing: the deposit leaves, the listing and its offers remain.
WithdrawListing(sender, l, target) ==
    /\ Exists(l)
    /\ sender = depositManager[l]
    /\ Covered(balance, tokenAddr, Market, deposit[l])
    /\ deposit' = [deposit EXCEPT ![l] = 0]
    /\ balance' = Move(balance, tokenAddr, Market, target, deposit[l])
    /\ UNCHANGED <<now, ownerVars, numListings, seller, depositManager, offerVars>>

\* sendDeposit: the deposit manager pays somebody out of the deposit.
SendDeposit(sender, l, target, amount) ==
    /\ Exists(l)
    /\ depositManager[l] = sender
    /\ DepositCovers(l, amount)
    /\ Covered(balance, tokenAddr, Market, amount)
    /\ deposit' = [deposit EXCEPT ![l] = @ - amount]
    /\ balance' = Move(balance, tokenAddr, Market, target, amount)
    /\ UNCHANGED <<now, ownerVars, numListings, seller, depositManager, offerVars>>

-----------------------------------------------------------------------------
(* Offers *)

AffiliateAllowed(affiliate) ==
    Market \in allowedAffiliates \/ affiliate \in allowedAffiliates

\* "Avoid commission tokens being trapped in marketplace contract."
CommissionAllowed(affiliate, commission) == affiliate = Null => commission = 0

\* makeOffer.  Whether the listing exists is not looked at.
MakeOffer(sender, l, finalizes, affiliate, commission, value, currency, arbitrator) ==
    /\ numOffers[l] < MaxOffers
    /\ AffiliateAllowed(affiliate)
    /\ CommissionAllowed(affiliate, commission)
    /\ Covered(balance, currency, sender, value)
    /\ numOffers' = [numOffers EXCEPT ![l] = @ + 1]
    /\ offers' = [offers EXCEPT ![<<l, numOffers[l]>>] =
                    [value |-> value, commission |-> commission, refund |-> 0,
                     currency |-> currency, buyer |-> sender,
                     affiliate |-> affiliate, arbitrator |-> arbitrator,
                     finalizes |-> finalizes, status |-> Created]]
    /\ balance' = Move(balance, currency, sender, Market, value)
    /\ UNCHANGED <<now, ownerVars, listingVars>>

\* When an accepted offer finalizes: a small number is a duration from now.
WindowEnd(finalizes) ==
    IF finalizes < RelativeLimit THEN now + finalizes ELSE finalizes

AcceptOffer(sender, l, o) ==
    LET offer == offers[<<l, o>>] IN
    /\ Exists(l)
    /\ sender = seller[l]
    /\ offer.status = Created
    /\ DepositCovers(l, offer.commission)
    /\ deposit' = [deposit EXCEPT ![l] = @ - offer.commission]
    /\ offers' = [offers EXCEPT ![<<l, o>>].finalizes = WindowEnd(offer.finalizes),
                                ![<<l, o>>].status = Accepted]
    /\ UNCHANGED <<now, ownerVars, numListings, seller, depositManager,
                   numOffers, balance>>

WithdrawOffer(sender, l, o) ==
    LET offer == offers[<<l, o>>] IN
    /\ Exists(l)
    /\ sender \in {offer.buyer, seller[l]}
    /\ offer.status = Created
    /\ offers' = [offers EXCEPT ![<<l, o>>] = NoOffer]
    /\ RefundBuyer(balance, offer.buyer, offer.currency, offer.value)
    /\ UNCHANGED <<now, ownerVars, listingVars, numOffers>>

AddFunds(sender, l, o, value) ==
    LET offer == offers[<<l, o>>] IN
    /\ sender = offer.buyer
    /\ offer.status = Accepted
    /\ Covered(balance, offer.currency, sender, value)
    /\ offers' = [offers EXCEPT ![<<l, o>>].value = @ + value]
    /\ balance' = Move(balance, offer.currency, sender, Market, value)
    /\ UNCHANGED <<now, ownerVars, listingVars, numOffers>>

\* Slip: the seller may come at the last second of the window.
MayFinalizeEarly(sender, l, offer) ==
    \/ sender = offer.buyer
    \/ now >= offer.finalizes /\ sender = seller[l]

\* The buyer at any time, the seller once the window has passed.
MayFinalize(sender, l, offer) ==
    \/ sender = offer.buyer
    \/ now > offer.finalizes /\ sender = seller[l]

\* finalize: the commission is paid only when it is the buyer who finalizes.
Finalize(sender, l, o) ==
    LET offer == offers[<<l, o>>]
        byBuyer == sender = offer.buyer
    IN
    /\ Exists(l)
    /\ MayFinalize(sender, l, offer)
    /\ offer.status = Accepted
    /\ byBuyer => CommissionPaid(offer.affiliate, offer.commission)
    /\ offers' = [offers EXCEPT ![<<l, o>>] = NoOffer]
    /\ deposit' = IF byBuyer THEN deposit
                  ELSE [deposit EXCEPT ![l] = @ + offer.commission]
    /\ LET bal == IF byBuyer THEN AfterCommission(offer.affiliate, offer.commission)
                  ELSE balance
       IN  PaySeller(bal, seller[l], offer.buyer, offer.currency, offer.value,
                     offer.refund)
    /\ UNCHANGED <<now, ownerVars, numListings, seller, depositManager, numOffers>>

\* Slip: a dispute over an offer the seller has not accepted.
DisputeAnyOffer(sender, l, o) ==
    LET offer == offers[<<l, o>>] IN
    /\ Exists(l)
    /\ sender \in {offer.buyer, seller[l]}
    /\ now <= offer.finalizes
    /\ offers' = [offers EXCEPT ![<<l, o>>].status = Disputed]
    /\ UNCHANGED <<now, ownerVars, listingVars, numOffers, balance>>

Dispute(sender, l, o) ==
    LET offer == offers[<<l, o>>] IN
    /\ Exists(l)
    /\ sender \in {offer.buyer, seller[l]}
    /\ offer.status = Accepted
    /\ now <= offer.finalizes
    /\ offers' = [offers EXCEPT ![<<l, o>>].status = Disputed]
    /\ UNCHANGED <<now, ownerVars, listingVars, numOffers, balance>>

Rulings == 0 .. 3
PaysCommission(ruling) == ruling \in {2, 3}
ForBuyer(ruling)       == ruling \in {1, 3}

\* executeRuling: the refund is the arbitrator's, not the one the seller set.
ExecuteRuling(sender, l, o, ruling, refund) ==
    LET offer == offers[<<l, o>>] IN
    /\ Exists(l)
    /\ sender = offer.arbitrator
    /\ offer.status = Disputed
    /\ refund <= offer.value
    /\ PaysCommission(ruling) => CommissionPaid(offer.affiliate, offer.commission)
    /\ offers' = [offers EXCEPT ![<<l, o>>] = NoOffer]
    /\ deposit' = IF PaysCommission(ruling) THEN deposit
                  ELSE [deposit EXCEPT ![l] = @ + offer.commission]
    /\ LET bal == IF PaysCommission(ruling)
                  THEN AfterCommission(offer.affiliate, offer.commission)
                  ELSE balance
       IN  IF ForBuyer(ruling)
           THEN RefundBuyer(bal, offer.buyer, offer.currency, offer.value)
           ELSE PaySeller(bal, seller[l], offer.buyer, offer.currency,
                          offer.value, refund)
    /\ UNCHANGED <<now, ownerVars, numListings, seller, depositManager, numOffers>>

\* Slip: refund compared with nothing.
UpdateRefundUnbounded(sender, l, o, refund) ==
    /\ Exists(l)
    /\ sender = seller[l]
    /\ offers[<<l, o>>].status = Accepted
    /\ offers' = [offers EXCEPT ![<<l, o>>].refund = refund]
    /\ UNCHANGED <<now, ownerVars, listingVars, numOffers, balance>>

\* Slip: the terms of a disputed offer may still be moved.
UpdateRefundDisputed(sender, l, o, refund) ==
    /\ Exists(l)
    /\ sender = seller[l]
    /\ offers[<<l, o>>].status \in {Accepted, Disputed}
    /\ refund <= offers[<<l, o>>].value
    /\ offers' = [offers EXCEPT ![<<l, o>>].refund = refund]
    /\ UNCHANGED <<now, ownerVars, listingVars, numOffers, balance>>

UpdateRefund(sender, l, o, refund) ==
    /\ Exists(l)
    /\ sender = seller[l]
    /\ offers[<<l, o>>].status = Accepted
    /\ refund <= offers[<<l, o>>].value
    /\ offers' = [offers EXCEPT ![<<l, o>>].refund = refund]
    /\ UNCHANGED <<now, ownerVars, listingVars, numOffers, balance>>

-----------------------------------------------------------------------------
(* The owner, and time *)

SetTokenAddr(token) ==
    /\ tokenAddr' = token
    /\ UNCHANGED <<now, allowedAffiliates, listingVars, offerVars, balance>>

AddAffiliate(affiliate) ==
    /\ allowedAffiliates' = allowedAffiliates \cup {affiliate}
    /\ UNCHANGED <<now, tokenAddr, listingVars, offerVars, balance>>

RemoveAffiliate(affiliate) ==
    /\ allowedAffiliates' = allowedAffiliates \ {affiliate}
    /\ UNCHANGED <<now, tokenAddr, listingVars, offerVars, balance>>

\* Blocks are mined and block.timestamp moves on.
Tick ==
    /\ now < MaxNow
    /\ now' = now + 1
    /\ UNCHANGED <<ownerVars, listingVars, offerVars, balance>>

-----------------------------------------------------------------------------
ListingStep ==
    \E sender \in Accounts :
        \/ \E amount \in Deposits, manager \in Accounts :
                CreateListing(sender, amount, manager)
        \/ \E l \in ListingIds :
            \/ \E amount \in Deposits : UpdateListing(sender, l, amount)
            \/ \E target \in Payees : WithdrawListing(sender, l, target)
            \/ \E target \in Payees, amount \in Deposits :
                    SendDeposit(sender, l, target, amount)

MakeOfferStep ==
    \E sender \in Accounts, l \in ListingIds, finalizes \in Windows,
       affiliate \in Payees \cup {Null}, commission \in Commissions,
       value \in Values, currency \in Currencies, arbitrator \in Arbitrators :
        MakeOffer(sender, l, finalizes, affiliate, commission, value,
                  currency, arbitrator)

OfferStep ==
    \E sender \in Accounts, l \in ListingIds, o \in OfferIds :
        \/ AcceptOffer(sender, l, o)
        \/ WithdrawOffer(sender, l, o)
        \/ \E value \in Values : AddFunds(sender, l, o, value)
        \/ Finalize(sender, l, o)
        \/ Dispute(sender, l, o)
        \/ \E ruling \in Rulings, refund \in Refunds :
                ExecuteRuling(sender, l, o, ruling, refund)
        \/ \E refund \in Refunds :
                UpdateRefund(sender, l, o, refund)

OwnerStep ==
    \/ \E token \in DepositTokens : SetTokenAddr(token)
    \/ \E affiliate \in Managed :
            AddAffiliate(affiliate) \/ RemoveAffiliate(affiliate)

Next == ListingStep \/ MakeOfferStep \/ OfferStep \/ OwnerStep \/ Tick

Spec == Init /\ [][Next]_vars

-----------------------------------------------------------------------------
(* Properties *)

\* Every variable has its type; amounts never go below zero.
TypeOK ==
    /\ now \in Nat
    /\ tokenAddr \in DepositTokens
    /\ allowedAffiliates \subseteq Holders \cup {Null}
    /\ numListings \in 0 .. MaxListings
    /\ seller \in [ListingIds -> Accounts \cup {Null}]
    /\ deposit \in [ListingIds -> Nat]
    /\ depositManager \in [ListingIds -> Accounts \cup {Null}]
    /\ numOffers \in [ListingIds -> 0 .. MaxOffers]
    /\ offers \in [Slots -> Offer]
    /\ balance \in [Currencies -> [Holders -> Nat]]

Live(s)   == offers[s].status # Undefined
Agreed(s) == offers[s].status \in {Accepted, Disputed}

ValueIn(C) == [s \in Slots |-> IF offers[s].currency \in C THEN offers[s].value ELSE 0]
ReservedCommission == [s \in Slots |-> IF Agreed(s) THEN offers[s].commission ELSE 0]
HeldIn(C) == [c \in C |-> balance[c][Market]]

\* What the contract holds is what it owes; it may hold more only when somebody
\* names the contract itself as a payee.
Backed(held, owed) == held >= owed /\ (Market \notin Payees => held = owed)

\* Solvency.  In every currency that is never the deposit token the contract
\* holds the values of the offers in it, to the unit.  In the deposit token (or,
\* added up, in all tokens that ever were one) it holds those values, the
\* deposits of all listings and the commissions of all agreed offers: whatever
\* the order of accepting, finalizing, ruling, withdrawing deposits and adding
\* funds (makeOffer .. sendDeposit), no commission is counted twice or lost.
Solvent ==
    /\ \A c \in Currencies \ DepositTokens :
            Backed(balance[c][Market], Total(ValueIn({c})))
    /\ Backed(Total(HeldIn(DepositTokens)),
              Total(ValueIn(DepositTokens)) + Total(deposit) + Total(ReservedCommission))

\* The refund a seller promised (updateRefund) never exceeds the offer's value,
\* through every later addFunds, dispute and finalization: value - refund in
\* paySeller never wraps around, and no offer of status Created carries one.
RefundWithinValue ==
    \A s \in Slots :
        /\ offers[s].refund <= offers[s].value
        /\ offers[s].refund > 0 => Agreed(s)

\* A commission always has somebody to earn it, so settling an offer never
\* leaves Origin tokens in the contract that belong to no listing and no offer.
CommissionHasPayee ==
    \A s \in Slots : offers[s].affiliate = Null => offers[s].commission = 0

\* While the window of an accepted offer is open the deposit cannot get its
\* commission back: finalize returns it only to a seller who came after the end.
CommissionReservedInWindow ==
    [][\A l \in ListingIds, o \in OfferIds :
        LET offer == offers[<<l, o>>] IN
        (offer.status = Accepted /\ now <= offer.finalizes
            /\ offers'[<<l, o>>].status = Undefined)
        => deposit'[l] = deposit[l]]_vars

\* A disputed offer is frozen: nobody adds funds to it, changes its refund or
\* moves its window; the next thing that happens to it is the ruling.
DisputeFreezesTerms ==
    [][\A s \in Slots :
        offers[s].status = Disputed => offers'[s] \in {offers[s], NoOffer}]_vars

\* The closing of an agreed offer in Ether splits exactly its value between its
\* buyer and its seller; nobody else's Ether moves.
SplitBetweenParties ==
    [][\A l \in ListingIds, o \in OfferIds :
        LET offer == offers[<<l, o>>]
            party == {offer.buyer, seller[l]}
        IN  (Live(<<l, o>>) /\ offer.currency = ETH
                /\ offers'[<<l, o>>].status = Undefined)
            => /\ \A a \in Accounts \ party : balance'[ETH][a] = balance[ETH][a]
               /\ balance'[ETH][Market] = balance[ETH][Market] - offer.value]_vars

\* Somebody can close the offer in slot <<l, o>> right now: the buyer withdraws
\* or finalizes it, or its arbitrator rules.
CanClose(l, o) ==
    LET offer == offers[<<l, o>>] IN
    CASE offer.status = Created  -> ENABLED WithdrawOffer(offer.buyer, l, o)
      [] offer.status = Accepted -> ENABLED Finalize(offer.buyer, l, o)
      [] offer.status = Disputed ->
            \A ruling \in Rulings :
                ENABLED ExecuteRuling(offer.arbitrator, l, o, ruling, offer.value)

\* No offer is stranded: as long as the deposit token is never exchanged, every
\* live offer of an existing listing whose parties accept Ether can be closed at
\* once by its buyer or, when disputed, by its arbitrator (if it has one) with
\* every ruling, because the payments it needs are always covered.
NoOfferStranded ==
    \A l \in ListingIds, o \in OfferIds :
        (/\ DepositTokens = {OriginToken}
         /\ Live(<<l, o>>)
         /\ Exists(l)
         /\ {offers[<<l, o>>].buyer, seller[l]} \subseteq Payable
         /\ offers[<<l, o>>].status = Disputed => offers[<<l, o>>].arbitrator # Null)
        => CanClose(l, o)
=============================================================================
