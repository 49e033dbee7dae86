-------------------------- MODULE MarketplaceProofs --------------------------
(***************************************************************************)
(* Proofs about Marketplace, for every set of accounts, tokens and bounds: *)
(* types, refunds and commissions, the solvency of the contract, and that  *)
(* every live offer can be closed.                                         *)
(***************************************************************************)
EXTENDS Marketplace, FiniteTheorems

(***************************************************************************)
(* Storage that has not been written is zero, and storage that has been    *)
(* names the parties it needs: what the payments of later steps rely on.   *)
(***************************************************************************)
Allocated ==
    /\ \A l \in ListingIds :
        /\ Exists(l) => seller[l] \in Accounts
        /\ ~Exists(l) => deposit[l] = 0
    /\ \A l \in ListingIds, o \in OfferIds :
        o >= numOffers[l] => offers[<<l, o>>] = NoOffer
    /\ \A s \in Slots : Live(s) => offers[s].buyer \in Accounts

\* The inductive invariant without the sums.
Wellformed == TypeOK /\ Allocated /\ RefundWithinValue /\ CommissionHasPayee

Balances == [Currencies -> [Holders -> Nat]]

-----------------------------------------------------------------------------
(* Facts about the sets and operators of the model *)

LEMMA AddressFacts ==
    /\ Market \in Holders /\ Accounts \subseteq Holders
    /\ ETH \in Currencies /\ Tokens \subseteq Currencies
    /\ DepositTokens \subseteq Currencies /\ OriginToken \in DepositTokens
    /\ Market \notin Accounts /\ Null \notin Accounts /\ Null # Market
    /\ Payees \subseteq Holders
BY AddressAssumption DEF Holders, Currencies

LEMMA FiniteFacts ==
    /\ IsFiniteSet(ListingIds)
    /\ IsFiniteSet(Slots)
    /\ IsFiniteSet(DepositTokens)
<1>1. MaxListings - 1 \in Int /\ MaxOffers - 1 \in Int /\ 0 \in Int
  BY BoundAssumption
<1>2. IsFiniteSet(ListingIds) /\ IsFiniteSet(OfferIds)
  BY <1>1, FS_Interval DEF ListingIds, OfferIds
<1>3. IsFiniteSet(Slots)
  BY <1>2, FS_Product DEF Slots
<1>4. IsFiniteSet(DepositTokens)
  BY BoundAssumption, AddressAssumption, FS_Subset
<1>5. QED
  BY <1>2, <1>3, <1>4

\* A covered payment leaves natural balances, and this is what it does to the
\* money held by the contract.
LEMMA MoveEffect ==
    ASSUME NEW b \in Balances, NEW c \in Currencies,
           NEW from \in Holders, NEW to \in Holders, NEW v \in Nat,
           Covered(b, c, from, v)
    PROVE  /\ Move(b, c, from, to, v) \in Balances
           /\ \A d \in Currencies : Move(b, c, from, to, v)[d][Market] =
                b[d][Market] + (IF d = c /\ to = Market THEN v ELSE 0)
                             - (IF d = c /\ from = Market THEN v ELSE 0)
<1> DEFINE less == [b[c] EXCEPT ![from] = b[c][from] - v]
           more == [less EXCEPT ![to] = less[to] + v]
<1>1. b[c] \in [Holders -> Nat] /\ b[c][from] - v \in Nat /\ Market \in Holders
  BY AddressFacts DEF Balances, Covered
<1>2. /\ less \in [Holders -> Nat]
      /\ less[Market] = b[c][Market] - (IF from = Market THEN v ELSE 0)
  BY <1>1
<1> HIDE DEF less
<1>3. /\ more \in [Holders -> Nat]
      /\ more[Market] = less[Market] + (IF to = Market THEN v ELSE 0)
  BY <1>1, <1>2
<1>4. Move(b, c, from, to, v) = [b EXCEPT ![c] = more]
  BY DEF Move, less
<1> HIDE DEF more
<1>5. [b EXCEPT ![c] = more] \in Balances
  BY <1>3 DEF Balances
<1>6. ASSUME NEW d \in Currencies
      PROVE  [b EXCEPT ![c] = more][d][Market] =
                b[d][Market] + (IF d = c /\ to = Market THEN v ELSE 0)
                             - (IF d = c /\ from = Market THEN v ELSE 0)
  <2>1. b[d] \in [Holders -> Nat] /\ b[d][Market] \in Nat
    BY <1>1 DEF Balances
  <2>2. CASE d = c
    <3>1. [b EXCEPT ![c] = more][d] = more
      BY <2>2 DEF Balances
    <3>2. QED
      BY <1>1, <1>2, <1>3, <2>1, <2>2, <3>1
  <2>3. CASE d # c
    <3>1. [b EXCEPT ![c] = more][d] = b[d]
      BY <2>3 DEF Balances
    <3>2. QED
      BY <2>1, <2>3, <3>1
  <2>4. QED
    BY <2>2, <2>3
<1>7. QED
  BY <1>4, <1>5, <1>6

LEMMA NoOfferType == NoOffer \in Offer
BY AddressFacts DEF NoOffer, Offer, Statuses, Undefined

LEMMA InitWellformed == Init => Wellformed
<1> SUFFICES ASSUME Init
             PROVE  Wellformed
  OBVIOUS
<1> USE AddressFacts, BoundAssumption, AmountAssumption, TimeAssumption DEF Init
<1>1. TypeOK
  <2>1. balance \in Balances
    BY DEF Balances
  <2>2. offers \in [Slots -> Offer]
    BY NoOfferType
  <2>3. QED
    BY <2>1, <2>2 DEF TypeOK, Balances
<1>2. Allocated
  BY DEF Allocated, Exists, Live, Slots, ListingIds, NoOffer
<1>3. RefundWithinValue
  BY DEF RefundWithinValue, NoOffer, Slots
<1>4. CommissionHasPayee
  BY DEF CommissionHasPayee, NoOffer, Slots
<1>5. QED
  BY <1>1, <1>2, <1>3, <1>4 DEF Wellformed

-----------------------------------------------------------------------------
(* What the payments do to the money held by the contract *)

\* A covered payment of the contract to somebody else takes the amount, in its
\* currency, from what the contract holds.
LEMMA PaidOut ==
    ASSUME NEW b \in Balances, NEW c \in Currencies, NEW to \in Holders,
           NEW v \in Nat, to # Market, Covered(b, c, Market, v)
    PROVE  /\ Move(b, c, Market, to, v) \in Balances
           /\ \A d \in Currencies : Move(b, c, Market, to, v)[d][Market] =
                b[d][Market] - (IF d = c THEN v ELSE 0)
<1> DEFINE after == Move(b, c, Market, to, v)
<1>1. Market \in Holders
  BY AddressFacts
<1>2. /\ after \in Balances
      /\ \A d \in Currencies : after[d][Market] =
            b[d][Market] + (IF d = c /\ to = Market THEN v ELSE 0)
                         - (IF d = c /\ Market = Market THEN v ELSE 0)
  BY ONLY <1>1, MoveEffect, b \in Balances, c \in Currencies, to \in Holders,
          v \in Nat, Covered(b, c, Market, v)
<1> HIDE DEF after
<1>3. ASSUME NEW d \in Currencies
      PROVE  after[d][Market] = b[d][Market] - (IF d = c THEN v ELSE 0)
  <2>1. b[d][Market] \in Nat
    BY <1>1 DEF Balances
  <2>2. after[d][Market] =
            b[d][Market] + (IF d = c /\ to = Market THEN v ELSE 0)
                         - (IF d = c /\ Market = Market THEN v ELSE 0)
    BY <1>2
  <2>3. QED
    BY ONLY <2>1, <2>2, to # Market, v \in Nat
<1>4. QED
  BY <1>2, <1>3 DEF after

LEMMA RefundBuyerEffect ==
    ASSUME NEW b \in Balances, NEW buyer \in Accounts, NEW c \in Currencies,
           NEW v \in Nat, RefundBuyer(b, buyer, c, v)
    PROVE  /\ balance' \in Balances
           /\ \A d \in Currencies :
                balance'[d][Market] = b[d][Market] - (IF d = c THEN v ELSE 0)
<1>1. buyer \in Holders /\ buyer # Market
  BY AddressFacts
<1>2. Covered(b, c, Market, v) /\ balance' = Move(b, c, Market, buyer, v)
  BY DEF RefundBuyer, CanSend
<1>3. QED
  BY <1>1, <1>2, PaidOut

LEMMA PaySellerEffect ==
    ASSUME NEW b \in Balances, NEW payee \in Accounts, NEW buyer \in Accounts,
           NEW c \in Currencies, NEW v \in Nat, NEW r \in Nat,
           PaySeller(b, payee, buyer, c, v, r)
    PROVE  /\ balance' \in Balances
           /\ \A d \in Currencies :
                balance'[d][Market] = b[d][Market] - (IF d = c THEN v ELSE 0)
<1> DEFINE mid == Move(b, c, Market, buyer, r)
<1>1. /\ buyer \in Holders /\ buyer # Market /\ Market \in Holders
      /\ payee \in Holders /\ payee # Market
  BY AddressFacts
<1>2. /\ v - r \in Nat
      /\ Covered(b, c, Market, r)
      /\ Covered(mid, c, Market, v - r)
      /\ balance' = Move(mid, c, Market, payee, v - r)
  BY DEF PaySeller, CanSend
<1>3. /\ mid \in Balances
      /\ \A d \in Currencies :
            mid[d][Market] = b[d][Market] - (IF d = c THEN r ELSE 0)
  BY <1>1, <1>2, PaidOut
<1> HIDE DEF mid
<1>4. /\ balance' \in Balances
      /\ \A d \in Currencies :
            balance'[d][Market] = mid[d][Market] - (IF d = c THEN v - r ELSE 0)
  <2>1. PICK w \in Nat : w = v - r
    BY <1>2
  <2>2. Covered(mid, c, Market, w) /\ balance' = Move(mid, c, Market, payee, w)
    BY <1>2, <2>1
  <2>3. /\ Move(mid, c, Market, payee, w) \in Balances
        /\ \A d \in Currencies : Move(mid, c, Market, payee, w)[d][Market] =
                mid[d][Market] - (IF d = c THEN w ELSE 0)
    BY ONLY <1>1, <1>3, <2>1, <2>2, PaidOut, c \in Currencies
  <2>4. QED
    BY ONLY <2>1, <2>2, <2>3
<1>5. ASSUME NEW d \in Currencies
      PROVE  balance'[d][Market] = b[d][Market] - (IF d = c THEN v ELSE 0)
  <2>1. b[d][Market] \in Nat
    BY <1>1 DEF Balances
  <2>2. mid[d][Market] = b[d][Market] - (IF d = c THEN r ELSE 0)
    BY <1>3
  <2>3. balance'[d][Market] = mid[d][Market] - (IF d = c THEN v - r ELSE 0)
    BY <1>4
  <2>4. QED
    BY ONLY <2>1, <2>2, <2>3, v \in Nat, r \in Nat
<1>6. QED
  BY <1>4, <1>5

\* The commission leaves the contract unless the contract itself is the affiliate.
LEMMA CommissionEffect ==
    ASSUME TypeOK, NEW a \in Holders \cup {Null}, NEW v \in Nat,
           CommissionPaid(a, v), a = Null => v = 0
    PROVE  /\ AfterCommission(a, v) \in Balances
           /\ \A d \in Currencies :
                AfterCommission(a, v)[d][Market] =
                    balance[d][Market]
                        - (IF d = tokenAddr /\ a # Market THEN v ELSE 0)
<1>1. /\ balance \in Balances /\ tokenAddr \in Currencies
      /\ Market \in Holders /\ Null # Market /\ Null \notin Holders
  BY AddressFacts DEF TypeOK, Balances, Holders
<1>2. \A d \in Currencies : balance[d][Market] \in Nat
  BY <1>1 DEF Balances
<1>3. CASE a = Null
  BY <1>1, <1>2, <1>3 DEF AfterCommission
<1>4. CASE a # Null
  <2>1. a \in Holders /\ Covered(balance, tokenAddr, Market, v)
    BY <1>4 DEF CommissionPaid
  <2>2. AfterCommission(a, v) = Move(balance, tokenAddr, Market, a, v)
    BY <1>4 DEF AfterCommission
  <2>3. QED
    BY <1>1, <1>2, <2>1, <2>2, MoveEffect
<1>5. QED
  BY <1>3, <1>4

-----------------------------------------------------------------------------
(* Every operation keeps the invariant without the sums *)

LEMMA SlotFacts ==
    ASSUME NEW l \in ListingIds, NEW o \in OfferIds
    PROVE  <<l, o>> \in Slots
BY DEF Slots

LEMMA CreateListingWellformed ==
    ASSUME Wellformed, NEW sender \in Accounts, NEW amount \in Deposits,
           NEW manager \in Accounts, CreateListing(sender, amount, manager)
    PROVE  Wellformed'
<1> USE DEF CreateListing, Wellformed, ownerVars, offerVars
<1>1. /\ sender \in Holders /\ Market \in Holders /\ amount \in Nat
      /\ tokenAddr \in Currencies /\ balance \in Balances
      /\ numListings \in ListingIds
  BY AddressFacts, AmountAssumption, BoundAssumption DEF TypeOK, Balances, ListingIds
<1>2. balance' \in Balances
  BY <1>1, MoveEffect
<1>3. TypeOK'
  BY <1>1, <1>2, BoundAssumption DEF TypeOK, Balances
<1>4. Allocated'
  BY <1>1 DEF Allocated, TypeOK, Exists, Live, ListingIds
<1>5. RefundWithinValue' /\ CommissionHasPayee'
  BY DEF RefundWithinValue, CommissionHasPayee, Agreed
<1>6. QED
  BY <1>3, <1>4, <1>5

LEMMA UpdateListingWellformed ==
    ASSUME Wellformed, NEW sender \in Accounts, NEW l \in ListingIds,
           NEW additional \in Deposits, UpdateListing(sender, l, additional)
    PROVE  Wellformed'
<1> USE DEF UpdateListing, Wellformed, ownerVars, offerVars
<1>1. /\ sender \in Holders /\ Market \in Holders /\ additional \in Nat
      /\ tokenAddr \in Currencies /\ balance \in Balances
  BY AddressFacts, AmountAssumption DEF TypeOK, Balances
<1>2. balance' \in Balances
  BY <1>1, MoveEffect
<1>3. TypeOK'
  BY <1>1, <1>2 DEF TypeOK, Balances
<1>4. Allocated'
  BY <1>1 DEF Allocated, TypeOK, Exists, Live
<1>5. RefundWithinValue' /\ CommissionHasPayee'
  BY DEF RefundWithinValue, CommissionHasPayee, Agreed
<1>6. QED
  BY <1>3, <1>4, <1>5

LEMMA WithdrawListingWellformed ==
    ASSUME Wellformed, NEW sender \in Accounts, NEW l \in ListingIds,
           NEW target \in Payees, WithdrawListing(sender, l, target)
    PROVE  Wellformed'
<1> USE DEF WithdrawListing, Wellformed, ownerVars, offerVars
<1>1. /\ target \in Holders /\ Market \in Holders /\ deposit[l] \in Nat
      /\ tokenAddr \in Currencies /\ balance \in Balances
  BY AddressFacts DEF TypeOK, Balances
<1>2. balance' \in Balances
  BY <1>1, MoveEffect
<1>3. TypeOK'
  BY <1>1, <1>2 DEF TypeOK, Balances
<1>4. Allocated'
  BY <1>1 DEF Allocated, TypeOK, Exists, Live
<1>5. RefundWithinValue' /\ CommissionHasPayee'
  BY DEF RefundWithinValue, CommissionHasPayee, Agreed
<1>6. QED
  BY <1>3, <1>4, <1>5

LEMMA SendDepositWellformed ==
    ASSUME Wellformed, NEW sender \in Accounts, NEW l \in ListingIds,
           NEW target \in Payees, NEW amount \in Deposits,
           SendDeposit(sender, l, target, amount)
    PROVE  Wellformed'
<1> USE DEF SendDeposit, DepositCovers, Wellformed, ownerVars, offerVars
<1>1. /\ target \in Holders /\ Market \in Holders /\ amount \in Nat
      /\ deposit[l] - amount \in Nat
      /\ tokenAddr \in Currencies /\ balance \in Balances
  BY AddressFacts, AmountAssumption DEF TypeOK, Balances
<1>2. balance' \in Balances
  BY <1>1, MoveEffect
<1>3. TypeOK'
  BY <1>1, <1>2 DEF TypeOK, Balances
<1>4. Allocated'
  BY <1>1 DEF Allocated, TypeOK, Exists, Live
<1>5. RefundWithinValue' /\ CommissionHasPayee'
  BY DEF RefundWithinValue, CommissionHasPayee, Agreed
<1>6. QED
  BY <1>3, <1>4, <1>5

LEMMA MakeOfferWellformed ==
    ASSUME Wellformed, NEW sender \in Accounts, NEW l \in ListingIds,
           NEW finalizes \in Windows, NEW affiliate \in Payees \cup {Null},
           NEW commission \in Commissions, NEW value \in Values,
           NEW currency \in Currencies, NEW arbitrator \in Arbitrators,
           MakeOffer(sender, l, finalizes, affiliate, commission, value,
                     currency, arbitrator)
    PROVE  Wellformed'
<1> USE DEF MakeOffer, CommissionAllowed, Wellformed, ownerVars, listingVars
<1> DEFINE new == [value |-> value, commission |-> commission, refund |-> 0,
                   currency |-> currency, buyer |-> sender,
                   affiliate |-> affiliate, arbitrator |-> arbitrator,
                   finalizes |-> finalizes, status |-> Created]
           s == <<l, numOffers[l]>>
<1>1. /\ sender \in Holders /\ Market \in Holders /\ balance \in Balances
      /\ value \in Nat /\ commission \in Nat /\ finalizes \in Nat
      /\ arbitrator \in Accounts \cup {Null}
  BY AddressFacts, AddressAssumption, AmountAssumption, TimeAssumption
     DEF TypeOK, Balances
<1>2. numOffers[l] \in OfferIds /\ s \in Slots
  BY BoundAssumption DEF TypeOK, OfferIds, Slots
<1>3. new \in Offer
  BY <1>1 DEF Offer, Statuses, Created
<1>4. offers' = [offers EXCEPT ![s] = new] /\ offers \in [Slots -> Offer]
  BY DEF TypeOK
<1>5. balance' \in Balances
  BY <1>1, MoveEffect
<1>6. TypeOK'
  <2>1. offers' \in [Slots -> Offer]
    BY <1>2, <1>3, <1>4
  <2>2. QED
    BY <1>5, <2>1, BoundAssumption DEF TypeOK, Balances
<1>7. Allocated'
  <2>1. \A t \in Slots : Live(t)' => (offers'[t].buyer \in Accounts)
    BY <1>2, <1>4 DEF Allocated, Live
  <2>2. ASSUME NEW k \in ListingIds, NEW o \in OfferIds, o >= numOffers'[k]
        PROVE  offers'[<<k, o>>] = NoOffer
    <3>1. <<k, o>> # s /\ o >= numOffers[k]
      BY <2>2, <1>2 DEF TypeOK, OfferIds
    <3>2. <<k, o>> \in Slots
      BY SlotFacts
    <3>3. QED
      BY <3>1, <3>2, <1>4 DEF Allocated
  <2>3. QED
    BY <2>1, <2>2 DEF Allocated, Exists
<1>8. RefundWithinValue' /\ CommissionHasPayee'
  BY <1>1, <1>2, <1>4 DEF RefundWithinValue, CommissionHasPayee, Agreed, Created
<1>9. QED
  BY <1>6, <1>7, <1>8

\* The facts about one stored offer that the steps on it start from.
LEMMA OfferFacts ==
    ASSUME Wellformed, NEW l \in ListingIds, NEW o \in OfferIds
    PROVE  /\ <<l, o>> \in Slots
           /\ offers \in [Slots -> Offer] /\ offers[<<l, o>>] \in Offer
           /\ deposit \in [ListingIds -> Nat] /\ balance \in Balances
           /\ Live(<<l, o>>) => /\ o < numOffers[l]
                                /\ offers[<<l, o>>].buyer \in Accounts
           /\ Exists(l) => seller[l] \in Accounts
           /\ offers[<<l, o>>].refund <= offers[<<l, o>>].value
           /\ offers[<<l, o>>].affiliate = Null => offers[<<l, o>>].commission = 0
           /\ now \in Nat /\ numOffers[l] \in Nat
<1>1. <<l, o>> \in Slots
  BY SlotFacts
<1>2. numOffers[l] \in Nat /\ o \in Int
  BY BoundAssumption DEF Wellformed, TypeOK, OfferIds
<1>3. Live(<<l, o>>) => o < numOffers[l]
  BY <1>2 DEF Wellformed, Allocated, Live, NoOffer
<1>4. QED
  BY <1>1, <1>2, <1>3 DEF Wellformed, TypeOK, Allocated, RefundWithinValue,
     CommissionHasPayee, Balances

\* Storing an offer of the right type that is live only where one was, with a
\* covered refund, keeps the parts of the invariant that speak of offers.
LEMMA OfferStored ==
    ASSUME Wellformed, NEW l \in ListingIds, NEW o \in OfferIds,
           NEW new \in Offer,
           offers' = [offers EXCEPT ![<<l, o>>] = new],
           new = NoOffer \/ (o < numOffers[l] /\ new.buyer \in Accounts),
           new.refund <= new.value,
           new.refund > 0 => new.status \in {Accepted, Disputed},
           new.affiliate = Null => new.commission = 0,
           deposit' \in [ListingIds -> Nat],
           \A k \in ListingIds : ~Exists(k) => deposit'[k] = 0,
           balance' \in Balances,
           UNCHANGED <<now, tokenAddr, allowedAffiliates, numListings, seller,
                       depositManager, numOffers>>
    PROVE  Wellformed'
<1>1. offers \in [Slots -> Offer] /\ <<l, o>> \in Slots
  BY OfferFacts
<1>2. /\ offers'[<<l, o>>] = new
      /\ \A t \in Slots \ {<<l, o>>} : offers'[t] = offers[t]
  BY <1>1
<1>3. TypeOK'
  BY <1>1 DEF Wellformed, TypeOK, Balances
<1>4. Allocated'
  <2>1. \A k \in ListingIds : /\ Exists(k)' => (seller'[k] \in Accounts)
                              /\ ~Exists(k)' => deposit'[k] = 0
    BY DEF Wellformed, Allocated, Exists
  <2>2. \A t \in Slots : Live(t)' => offers'[t].buyer \in Accounts
    <3>1. NoOffer.status = Undefined
      BY DEF NoOffer
    <3>2. QED
      BY <1>2, <3>1 DEF Wellformed, Allocated, Live
  <2>3. ASSUME NEW k \in ListingIds, NEW p \in OfferIds, p >= numOffers'[k]
        PROVE  offers'[<<k, p>>] = NoOffer
    <3>1. CASE <<k, p>> = <<l, o>>
      <4>1. ~ o < numOffers[l]
        BY <2>3, <3>1, BoundAssumption DEF Wellformed, TypeOK, OfferIds
      <4>2. QED
        BY <1>2, <3>1, <4>1
    <3>2. CASE <<k, p>> # <<l, o>>
      BY <1>2, <2>3, <3>2, SlotFacts DEF Wellformed, Allocated
    <3>3. QED
      BY <3>1, <3>2
  <2>4. QED
    BY <2>1, <2>2, <2>3 DEF Allocated
<1>5. RefundWithinValue'
  BY <1>2 DEF Wellformed, RefundWithinValue, Agreed
<1>6. CommissionHasPayee'
  BY <1>2 DEF Wellformed, CommissionHasPayee
<1>7. QED
  BY <1>3, <1>4, <1>5, <1>6 DEF Wellformed

LEMMA NoOfferFacts ==
    /\ NoOffer \in Offer /\ NoOffer.refund = 0 /\ NoOffer.value = 0
    /\ NoOffer.commission = 0 /\ NoOffer.status = Undefined
    /\ NoOffer.refund <= NoOffer.value /\ ~(NoOffer.refund > 0)
BY NoOfferType DEF NoOffer

LEMMA AcceptOfferWellformed ==
    ASSUME Wellformed, NEW sender \in Accounts, NEW l \in ListingIds,
           NEW o \in OfferIds, AcceptOffer(sender, l, o)
    PROVE  Wellformed'
<1> DEFINE offer == offers[<<l, o>>]
           new == [offer EXCEPT !.finalizes = WindowEnd(offer.finalizes),
                                !.status = Accepted]
<1>1. /\ offer \in Offer /\ offers \in [Slots -> Offer] /\ <<l, o>> \in Slots
      /\ offer.status = Created /\ now \in Nat
      /\ o < numOffers[l] /\ offer.buyer \in Accounts
      /\ offer.refund <= offer.value
      /\ offer.affiliate = Null => offer.commission = 0
  BY OfferFacts DEF AcceptOffer, DepositCovers, Live, Created, Undefined
<1>2. WindowEnd(offer.finalizes) \in Nat
  BY <1>1 DEF WindowEnd, Offer
<1>3. /\ new \in Offer /\ new.buyer = offer.buyer /\ new.refund = offer.refund
      /\ new.value = offer.value /\ new.affiliate = offer.affiliate
      /\ new.commission = offer.commission /\ new.status = Accepted
  BY <1>1, <1>2 DEF Offer, Statuses
<1>4. offers' = [offers EXCEPT ![<<l, o>>] = new]
  BY <1>1 DEF AcceptOffer, DepositCovers
<1>5. /\ deposit' \in [ListingIds -> Nat]
      /\ \A k \in ListingIds : ~Exists(k) => deposit'[k] = 0
  <2>1. deposit[l] - offer.commission \in Nat /\ Exists(l)
    BY <1>1 DEF AcceptOffer, DepositCovers, Wellformed, TypeOK, Offer
  <2>2. QED
    BY <2>1 DEF AcceptOffer, DepositCovers, Wellformed, TypeOK, Allocated
<1>6. balance' \in Balances
  BY OfferFacts DEF AcceptOffer, DepositCovers
<1>7. UNCHANGED <<now, tokenAddr, allowedAffiliates, numListings, seller,
                 depositManager, numOffers>>
  BY DEF AcceptOffer, DepositCovers, ownerVars
<1> HIDE DEF new, offer
<1>8. QED
  BY <1>1, <1>3, <1>4, <1>5, <1>6, <1>7, OfferStored

LEMMA WithdrawOfferWellformed ==
    ASSUME Wellformed, NEW sender \in Accounts, NEW l \in ListingIds,
           NEW o \in OfferIds, WithdrawOffer(sender, l, o)
    PROVE  Wellformed'
<1> DEFINE offer == offers[<<l, o>>]
<1>1. /\ offer \in Offer /\ offer.buyer \in Accounts /\ balance \in Balances
  BY OfferFacts DEF WithdrawOffer, Live, Created, Undefined
<1>2. offer.value \in Nat /\ offer.currency \in Currencies
  BY <1>1 DEF Offer
<1>3. balance' \in Balances
  BY <1>1, <1>2, RefundBuyerEffect DEF WithdrawOffer
<1>4. /\ deposit' \in [ListingIds -> Nat]
      /\ \A k \in ListingIds : ~Exists(k) => deposit'[k] = 0
  BY DEF WithdrawOffer, listingVars, Wellformed, TypeOK, Allocated
<1>5. QED
  BY <1>3, <1>4, NoOfferFacts, OfferStored DEF WithdrawOffer, ownerVars, listingVars

LEMMA AddFundsWellformed ==
    ASSUME Wellformed, NEW sender \in Accounts, NEW l \in ListingIds,
           NEW o \in OfferIds, NEW value \in Values, AddFunds(sender, l, o, value)
    PROVE  Wellformed'
<1> DEFINE offer == offers[<<l, o>>]
           new == [offer EXCEPT !.value = offer.value + value]
<1>1. /\ offer \in Offer /\ offers \in [Slots -> Offer] /\ <<l, o>> \in Slots
      /\ offer.status = Accepted /\ balance \in Balances
      /\ o < numOffers[l] /\ offer.buyer \in Accounts
      /\ offer.refund <= offer.value
      /\ offer.affiliate = Null => offer.commission = 0
      /\ value \in Nat
  BY OfferFacts, AmountAssumption DEF AddFunds, Live, Accepted, Undefined
<1>2. offer.value \in Nat /\ offer.refund \in Nat /\ offer.currency \in Currencies
  BY <1>1 DEF Offer
<1>3. /\ new \in Offer /\ new.buyer = offer.buyer /\ new.refund = offer.refund
      /\ new.value = offer.value + value /\ new.affiliate = offer.affiliate
      /\ new.commission = offer.commission /\ new.status = Accepted
  <2>1. PICK w \in Nat : w = offer.value + value
    BY <1>1, <1>2
  <2>2. new = [offer EXCEPT !.value = w]
    BY <2>1
  <2> HIDE DEF new, offer
  <2>3. QED
    BY <1>1, <2>1, <2>2 DEF Offer
<1>4. offers' = [offers EXCEPT ![<<l, o>>] = new]
  BY <1>1 DEF AddFunds
<1>5. balance' \in Balances
  BY <1>1, <1>2, MoveEffect, AddressFacts DEF AddFunds
<1>6. /\ deposit' \in [ListingIds -> Nat]
      /\ \A k \in ListingIds : ~Exists(k) => deposit'[k] = 0
  BY DEF AddFunds, listingVars, Wellformed, TypeOK, Allocated
<1>7. new.refund <= new.value
  BY <1>1, <1>2, <1>3
<1>8. UNCHANGED <<now, tokenAddr, allowedAffiliates, numListings, seller,
                 depositManager, numOffers>>
  BY DEF AddFunds, ownerVars, listingVars
<1> HIDE DEF new, offer
<1>9. QED
  BY <1>1, <1>3, <1>4, <1>5, <1>6, <1>7, <1>8, OfferStored

\* Closing an offer takes its value from the contract, and the commission if it
\* is earned and the contract is not the affiliate itself.
MoneyOut(offer, earned) ==
    \A d \in Currencies :
        balance'[d][Market] = balance[d][Market]
            - (IF d = offer.currency THEN offer.value ELSE 0)
            - (IF earned /\ d = tokenAddr /\ offer.affiliate # Market
               THEN offer.commission ELSE 0)

\* A commission that is not earned goes back to the deposit.
DepositBack(l, offer, earned) ==
    deposit' = IF earned THEN deposit
               ELSE [deposit EXCEPT ![l] = @ + offer.commission]

\* The payments of an offer that is being closed: what the contract holds falls
\* by the value and, if the commission is earned, by the commission.
LEMMA ClosingPayments ==
    ASSUME Wellformed, NEW l \in ListingIds, NEW o \in OfferIds,
           Exists(l), Live(<<l, o>>), NEW earned \in BOOLEAN, NEW r \in Nat,
           NEW offer, offer = offers[<<l, o>>],
           earned => CommissionPaid(offer.affiliate, offer.commission),
           NEW bal, bal = IF earned
                          THEN AfterCommission(offer.affiliate, offer.commission)
                          ELSE balance,
           \/ RefundBuyer(bal, offer.buyer, offer.currency, offer.value)
           \/ PaySeller(bal, seller[l], offer.buyer, offer.currency, offer.value, r)
    PROVE  /\ balance' \in Balances
           /\ MoneyOut(offer, earned)
<1>1. /\ offer \in Offer /\ balance \in Balances
      /\ offer.buyer \in Accounts /\ seller[l] \in Accounts
      /\ offer.affiliate = Null => offer.commission = 0
  BY OfferFacts
<1>2. /\ offer.value \in Nat /\ offer.commission \in Nat
      /\ offer.currency \in Currencies /\ offer.affiliate \in Holders \cup {Null}
  BY <1>1, AddressFacts DEF Offer
<1>3. \A d \in Currencies : balance[d][Market] \in Nat
  BY <1>1, AddressFacts DEF Balances
<1>4. /\ bal \in Balances
      /\ \A d \in Currencies :
            bal[d][Market] = balance[d][Market]
                - (IF earned /\ d = tokenAddr /\ offer.affiliate # Market
                   THEN offer.commission ELSE 0)
  <2>1. CASE earned
    <3>1. /\ TypeOK /\ CommissionPaid(offer.affiliate, offer.commission)
          /\ bal = AfterCommission(offer.affiliate, offer.commission)
      BY <2>1 DEF Wellformed
    <3>2. /\ AfterCommission(offer.affiliate, offer.commission) \in Balances
          /\ \A d \in Currencies :
                AfterCommission(offer.affiliate, offer.commission)[d][Market] =
                    balance[d][Market]
                        - (IF d = tokenAddr /\ offer.affiliate # Market
                           THEN offer.commission ELSE 0)
      BY ONLY <1>1, <1>2, <3>1, CommissionEffect
    <3>3. QED
      BY ONLY <2>1, <3>1, <3>2
  <2>2. CASE ~earned
    BY <1>1, <1>3, <2>2
  <2>3. QED
    BY <2>1, <2>2
<1>5. /\ balance' \in Balances
      /\ \A d \in Currencies :
            balance'[d][Market] =
                bal[d][Market] - (IF d = offer.currency THEN offer.value ELSE 0)
  <2>1. CASE RefundBuyer(bal, offer.buyer, offer.currency, offer.value)
    BY <1>1, <1>2, <1>4, <2>1, RefundBuyerEffect
  <2>2. CASE PaySeller(bal, seller[l], offer.buyer, offer.currency, offer.value, r)
    BY <1>1, <1>2, <1>4, <2>2, PaySellerEffect
  <2>3. QED
    BY <2>1, <2>2
<1>6. ASSUME NEW d \in Currencies
      PROVE  balance'[d][Market] = balance[d][Market]
                    - (IF d = offer.currency THEN offer.value ELSE 0)
                    - (IF earned /\ d = tokenAddr /\ offer.affiliate # Market
                       THEN offer.commission ELSE 0)
  <2>1. /\ balance[d][Market] \in Nat
        /\ bal[d][Market] = balance[d][Market]
                - (IF earned /\ d = tokenAddr /\ offer.affiliate # Market
                   THEN offer.commission ELSE 0)
        /\ balance'[d][Market] =
                bal[d][Market] - (IF d = offer.currency THEN offer.value ELSE 0)
    BY <1>3, <1>4, <1>5
  <2>2. QED
    BY <1>2, <2>1
<1>7. QED
  BY <1>5, <1>6 DEF MoneyOut

\* Finalizing is closing, with the commission earned if it is the buyer's call.
LEMMA FinalizeEffect ==
    ASSUME Wellformed, NEW sender \in Accounts, NEW l \in ListingIds,
           NEW o \in OfferIds, Finalize(sender, l, o),
           NEW offer, offer = offers[<<l, o>>],
           NEW earned \in BOOLEAN, earned <=> sender = offer.buyer
    PROVE  /\ balance' \in Balances
           /\ MoneyOut(offer, earned)
           /\ DepositBack(l, offer, earned)
<1> DEFINE bal == IF earned THEN AfterCommission(offer.affiliate, offer.commission)
                  ELSE balance
<1>1. /\ Exists(l) /\ offer.status = Accepted /\ earned \in BOOLEAN
      /\ earned => CommissionPaid(offer.affiliate, offer.commission)
      /\ PaySeller(bal, seller[l], offer.buyer, offer.currency, offer.value,
                   offer.refund)
      /\ DepositBack(l, offer, earned)
  BY DEF Finalize, MayFinalize, DepositBack
<1>2. Live(<<l, o>>) /\ offer.refund \in Nat
  BY <1>1, OfferFacts DEF Live, Accepted, Undefined, Offer
<1> HIDE DEF bal
<1>3. bal = IF earned THEN AfterCommission(offer.affiliate, offer.commission)
            ELSE balance
  BY DEF bal
<1>4. PICK r \in Nat : r = offer.refund
  BY <1>2
<1>5. \/ RefundBuyer(bal, offer.buyer, offer.currency, offer.value)
      \/ PaySeller(bal, seller[l], offer.buyer, offer.currency, offer.value, r)
  BY <1>1, <1>4
<1>6. QED
  BY <1>1, <1>2, <1>3, <1>5, ClosingPayments

\* Ruling is closing, with the commission earned if the ruling says so.
LEMMA ExecuteRulingEffect ==
    ASSUME Wellformed, NEW sender \in Accounts, NEW l \in ListingIds,
           NEW o \in OfferIds, NEW ruling \in Rulings,
           NEW refund \in Refunds,
           ExecuteRuling(sender, l, o, ruling, refund),
           NEW offer, offer = offers[<<l, o>>],
           NEW earned \in BOOLEAN, earned <=> PaysCommission(ruling)
    PROVE  /\ balance' \in Balances
           /\ MoneyOut(offer, earned)
           /\ DepositBack(l, offer, earned)
<1> DEFINE bal == IF earned THEN AfterCommission(offer.affiliate, offer.commission)
                  ELSE balance
<1>1. /\ Exists(l) /\ offer.status = Disputed /\ earned \in BOOLEAN
      /\ earned => CommissionPaid(offer.affiliate, offer.commission)
      /\ \/ RefundBuyer(bal, offer.buyer, offer.currency, offer.value)
         \/ PaySeller(bal, seller[l], offer.buyer, offer.currency, offer.value,
                      refund)
      /\ DepositBack(l, offer, earned)
  <2>2. /\ Exists(l) /\ offer.status = Disputed
        /\ earned => CommissionPaid(offer.affiliate, offer.commission)
        /\ DepositBack(l, offer, earned)
    BY DEF ExecuteRuling, DepositBack
  <2>3. IF ForBuyer(ruling)
        THEN RefundBuyer(bal, offer.buyer, offer.currency, offer.value)
        ELSE PaySeller(bal, seller[l], offer.buyer, offer.currency,
                       offer.value, refund)
    BY DEF ExecuteRuling
  <2>4. QED
    BY <2>2, <2>3
<1>2. Live(<<l, o>>) /\ refund \in Nat
  BY <1>1, OfferFacts, AmountAssumption DEF Live, Disputed, Undefined
<1> HIDE DEF bal
<1>3. bal = IF earned THEN AfterCommission(offer.affiliate, offer.commission)
            ELSE balance
  BY DEF bal
<1>4. QED
  BY <1>1, <1>2, <1>3, ClosingPayments

LEMMA DepositReturned ==
    ASSUME Wellformed, NEW l \in ListingIds, NEW v \in Nat, Exists(l),
           deposit' = deposit \/ deposit' = [deposit EXCEPT ![l] = @ + v]
    PROVE  /\ deposit' \in [ListingIds -> Nat]
           /\ \A k \in ListingIds : ~Exists(k) => deposit'[k] = 0
<1>1. deposit \in [ListingIds -> Nat] /\ deposit[l] + v \in Nat
  BY DEF Wellformed, TypeOK
<1>2. QED
  BY <1>1 DEF Wellformed, Allocated

LEMMA FinalizeWellformed ==
    ASSUME Wellformed, NEW sender \in Accounts, NEW l \in ListingIds,
           NEW o \in OfferIds, Finalize(sender, l, o)
    PROVE  Wellformed'
<1> DEFINE offer == offers[<<l, o>>]
<1>1. /\ balance' \in Balances
      /\ \/ deposit' = deposit
         \/ deposit' = [deposit EXCEPT ![l] = @ + offer.commission]
  <2>1. PICK earned \in BOOLEAN : earned <=> sender = offer.buyer
    OBVIOUS
  <2>2. QED
    BY <2>1, FinalizeEffect DEF DepositBack
<1>2. /\ Exists(l) /\ offers' = [offers EXCEPT ![<<l, o>>] = NoOffer]
      /\ UNCHANGED <<now, tokenAddr, allowedAffiliates, numListings, seller,
                     depositManager, numOffers>>
  BY DEF Finalize, MayFinalize, ownerVars
<1>3. offer.commission \in Nat
  BY OfferFacts DEF Offer
<1>4. /\ deposit' \in [ListingIds -> Nat]
      /\ \A k \in ListingIds : ~Exists(k) => deposit'[k] = 0
  BY <1>1, <1>2, <1>3, DepositReturned
<1>5. QED
  BY <1>1, <1>2, <1>4, NoOfferFacts, OfferStored

LEMMA ExecuteRulingWellformed ==
    ASSUME Wellformed, NEW sender \in Accounts, NEW l \in ListingIds,
           NEW o \in OfferIds, NEW ruling \in Rulings,
           NEW refund \in Refunds,
           ExecuteRuling(sender, l, o, ruling, refund)
    PROVE  Wellformed'
<1> DEFINE offer == offers[<<l, o>>]
<1>1. /\ balance' \in Balances
      /\ \/ deposit' = deposit
         \/ deposit' = [deposit EXCEPT ![l] = @ + offer.commission]
  <2>1. PICK earned \in BOOLEAN : earned <=> PaysCommission(ruling)
    OBVIOUS
  <2>2. QED
    BY <2>1, ExecuteRulingEffect DEF DepositBack
<1>2. /\ Exists(l) /\ offers' = [offers EXCEPT ![<<l, o>>] = NoOffer]
      /\ UNCHANGED <<now, tokenAddr, allowedAffiliates, numListings, seller,
                     depositManager, numOffers>>
  BY DEF ExecuteRuling, ownerVars
<1>3. offer.commission \in Nat
  BY OfferFacts DEF Offer
<1>4. /\ deposit' \in [ListingIds -> Nat]
      /\ \A k \in ListingIds : ~Exists(k) => deposit'[k] = 0
  BY <1>1, <1>2, <1>3, DepositReturned
<1>5. QED
  BY <1>1, <1>2, <1>4, NoOfferFacts, OfferStored

LEMMA DisputeWellformed ==
    ASSUME Wellformed, NEW sender \in Accounts, NEW l \in ListingIds,
           NEW o \in OfferIds, Dispute(sender, l, o)
    PROVE  Wellformed'
<1> DEFINE offer == offers[<<l, o>>]
           new == [offer EXCEPT !.status = Disputed]
<1>1. /\ offer \in Offer /\ offers \in [Slots -> Offer] /\ <<l, o>> \in Slots
      /\ offer.status = Accepted
      /\ o < numOffers[l] /\ offer.buyer \in Accounts
      /\ offer.refund <= offer.value
      /\ offer.affiliate = Null => offer.commission = 0
      /\ balance \in Balances
  BY OfferFacts DEF Dispute, Live, Accepted, Undefined
<1>2. /\ new \in Offer /\ new.buyer = offer.buyer /\ new.refund = offer.refund
      /\ new.value = offer.value /\ new.affiliate = offer.affiliate
      /\ new.commission = offer.commission /\ new.status = Disputed
  BY <1>1 DEF Offer, Statuses
<1>3. offers' = [offers EXCEPT ![<<l, o>>] = new]
  BY <1>1 DEF Dispute
<1>4. /\ deposit' \in [ListingIds -> Nat]
      /\ \A k \in ListingIds : ~Exists(k) => deposit'[k] = 0
  BY DEF Dispute, listingVars, Wellformed, TypeOK, Allocated
<1>5. balance' \in Balances
  BY <1>1 DEF Dispute
<1>6. UNCHANGED <<now, tokenAddr, allowedAffiliates, numListings, seller,
                 depositManager, numOffers>>
  BY DEF Dispute, ownerVars, listingVars
<1> HIDE DEF new, offer
<1>7. QED
  BY <1>1, <1>2, <1>3, <1>4, <1>5, <1>6, OfferStored

LEMMA UpdateRefundWellformed ==
    ASSUME Wellformed, NEW sender \in Accounts, NEW l \in ListingIds,
           NEW o \in OfferIds, NEW refund \in Refunds,
           UpdateRefund(sender, l, o, refund)
    PROVE  Wellformed'
<1> DEFINE offer == offers[<<l, o>>]
           new == [offer EXCEPT !.refund = refund]
<1>1. /\ offer \in Offer /\ offers \in [Slots -> Offer] /\ <<l, o>> \in Slots
      /\ offer.status = Accepted
      /\ o < numOffers[l] /\ offer.buyer \in Accounts
      /\ offer.affiliate = Null => offer.commission = 0
      /\ balance \in Balances
  BY OfferFacts DEF UpdateRefund, Live, Accepted, Undefined
<1>2. refund \in Nat /\ refund <= offer.value
  BY AmountAssumption DEF UpdateRefund
<1>3. /\ new \in Offer /\ new.buyer = offer.buyer /\ new.refund = refund
      /\ new.value = offer.value /\ new.affiliate = offer.affiliate
      /\ new.commission = offer.commission /\ new.status = Accepted
  BY <1>1, <1>2 DEF Offer
<1>4. offers' = [offers EXCEPT ![<<l, o>>] = new]
  BY <1>1 DEF UpdateRefund
<1>5. /\ deposit' \in [ListingIds -> Nat]
      /\ \A k \in ListingIds : ~Exists(k) => deposit'[k] = 0
  BY DEF UpdateRefund, listingVars, Wellformed, TypeOK, Allocated
<1>6. balance' \in Balances
  BY <1>1 DEF UpdateRefund
<1>7. UNCHANGED <<now, tokenAddr, allowedAffiliates, numListings, seller,
                 depositManager, numOffers>>
  BY DEF UpdateRefund, ownerVars, listingVars
<1> HIDE DEF new, offer
<1>8. QED
  BY <1>1, <1>2, <1>3, <1>4, <1>5, <1>6, <1>7, OfferStored

\* Steps that touch neither listings nor offers nor money.
LEMMA OtherStepWellformed ==
    ASSUME Wellformed, OwnerStep \/ Tick \/ UNCHANGED vars
    PROVE  Wellformed'
<1>1. /\ UNCHANGED <<listingVars, offerVars, balance>>
      /\ now' \in Nat /\ tokenAddr' \in DepositTokens
      /\ allowedAffiliates' \subseteq Holders \cup {Null}
  <2>1. CASE OwnerStep
    BY <2>1, AddressAssumption DEF OwnerStep, SetTokenAddr, AddAffiliate,
       RemoveAffiliate, Wellformed, TypeOK, Holders
  <2>2. CASE Tick
    BY <2>2 DEF Tick, ownerVars, Wellformed, TypeOK
  <2>3. CASE UNCHANGED vars
    BY <2>3 DEF vars, listingVars, offerVars, Wellformed, TypeOK
  <2>4. QED
    BY <2>1, <2>2, <2>3
<1>2. TypeOK'
  BY <1>1 DEF Wellformed, TypeOK, listingVars, offerVars
<1>3. Allocated'
  BY <1>1 DEF Wellformed, Allocated, Exists, Live, listingVars, offerVars
<1>4. RefundWithinValue' /\ CommissionHasPayee'
  BY <1>1 DEF Wellformed, RefundWithinValue, CommissionHasPayee, Agreed, offerVars
<1>5. QED
  BY <1>2, <1>3, <1>4 DEF Wellformed

LEMMA NextWellformed == Wellformed /\ [Next]_vars => Wellformed'
<1> SUFFICES ASSUME Wellformed, [Next]_vars
             PROVE  Wellformed'
  OBVIOUS
<1>1. CASE ListingStep
  BY <1>1, CreateListingWellformed, UpdateListingWellformed,
     WithdrawListingWellformed, SendDepositWellformed DEF ListingStep
<1>2. CASE MakeOfferStep
  BY <1>2, MakeOfferWellformed DEF MakeOfferStep
<1>3. CASE OfferStep
  <2>1. PICK sender \in Accounts, l \in ListingIds, o \in OfferIds :
            \/ AcceptOffer(sender, l, o)
            \/ WithdrawOffer(sender, l, o)
            \/ \E value \in Values : AddFunds(sender, l, o, value)
            \/ Finalize(sender, l, o)
            \/ Dispute(sender, l, o)
            \/ \E ruling \in Rulings, refund \in Refunds :
                    ExecuteRuling(sender, l, o, ruling, refund)
            \/ \E refund \in Refunds :
                    UpdateRefund(sender, l, o, refund)
    BY <1>3 DEF OfferStep
  <2>2. QED
    BY <2>1, AcceptOfferWellformed, WithdrawOfferWellformed, AddFundsWellformed,
       FinalizeWellformed, DisputeWellformed, ExecuteRulingWellformed,
       UpdateRefundWellformed
<1>4. CASE OwnerStep \/ Tick \/ UNCHANGED vars
  BY <1>4, OtherStepWellformed
<1>5. QED
  BY <1>1, <1>2, <1>3, <1>4 DEF Next

THEOREM WellformedAlways == Spec => []Wellformed
<1>1. Init => Wellformed
  BY InitWellformed
<1>2. Wellformed /\ [Next]_vars => Wellformed'
  BY NextWellformed
<1>3. QED
  BY <1>1, <1>2, PTL DEF Spec

\* Every reachable state is well typed: in particular no transaction of the
\* contract (createListing .. sendDeposit) drives an amount below zero.
THEOREM TypeCorrect == Spec => []TypeOK
<1>1. Wellformed => TypeOK
  BY DEF Wellformed
<1>2. QED
  BY <1>1, WellformedAlways, PTL

\* The refund promised in an offer never exceeds what the offer holds, so the
\* subtraction in paySeller never wraps around.
THEOREM RefundNeverExceedsValue == Spec => []RefundWithinValue
<1>1. Wellformed => RefundWithinValue
  BY DEF Wellformed
<1>2. QED
  BY <1>1, WellformedAlways, PTL

\* No offer, at any time, carries a commission without an affiliate to earn it.
THEOREM CommissionAlwaysHasPayee == Spec => []CommissionHasPayee
<1>1. Wellformed => CommissionHasPayee
  BY DEF Wellformed
<1>2. QED
  BY <1>1, WellformedAlways, PTL

-----------------------------------------------------------------------------
(***************************************************************************)
(* Solvency.  A pool is a set of currencies whose holdings and obligations *)
(* are compared: one currency that is never the deposit token, or all the  *)
(* deposit tokens together.                                                *)
(***************************************************************************)
Pools == {{c} : c \in Currencies \ DepositTokens} \cup {DepositTokens}

Held(P) == Total(HeldIn(P))
Owed(P) == Total(ValueIn(P))
            + (IF P = DepositTokens
               THEN Total(deposit) + Total(ReservedCommission) ELSE 0)

PoolBacked(P) == Backed(Held(P), Owed(P))

LEMMA PoolFacts ==
    ASSUME NEW P \in Pools
    PROVE  /\ P \subseteq Currencies /\ IsFiniteSet(P)
           /\ P = DepositTokens \/ (P \cap DepositTokens = {})
<1>1. CASE P = DepositTokens
  BY <1>1, FiniteFacts, AddressFacts
<1>2. ASSUME NEW c \in Currencies \ DepositTokens, P = {c}
      PROVE  /\ P \subseteq Currencies /\ IsFiniteSet(P)
             /\ P = DepositTokens \/ (P \cap DepositTokens = {})
  <2>1. IsFiniteSet({c})
    BY FS_Singleton
  <2>2. QED
    BY <1>2, <2>1
<1>3. QED
  BY <1>1, <1>2 DEF Pools

LEMMA TotalsTyped ==
    ASSUME TypeOK, NEW P \in Pools
    PROVE  /\ HeldIn(P) \in [P -> Nat] /\ Held(P) \in Nat
           /\ ValueIn(P) \in [Slots -> Nat] /\ Total(ValueIn(P)) \in Nat
           /\ deposit \in [ListingIds -> Nat] /\ Total(deposit) \in Nat
           /\ ReservedCommission \in [Slots -> Nat]
           /\ Total(ReservedCommission) \in Nat
<1>1. HeldIn(P) \in [P -> Nat]
  BY PoolFacts, AddressFacts DEF HeldIn, TypeOK
<1>2. ValueIn(P) \in [Slots -> Nat]
  BY DEF ValueIn, TypeOK, Offer
<1>3. ReservedCommission \in [Slots -> Nat]
  BY DEF ReservedCommission, TypeOK, Offer
<1>4. deposit \in [ListingIds -> Nat]
  BY DEF TypeOK
<1>5. QED
  BY <1>1, <1>2, <1>3, <1>4, PoolFacts, FiniteFacts, TotalType DEF Held

\* A pool's holdings follow the two balances (or the one) that change.
LEMMA HeldChange ==
    ASSUME TypeOK, TypeOK', NEW P \in Pools,
           NEW c \in Currencies, NEW d \in Currencies, NEW x \in Int, NEW y \in Int,
           \A e \in Currencies : balance'[e][Market] = balance[e][Market]
                + (IF e = c THEN x ELSE 0) + (IF e = d THEN y ELSE 0)
    PROVE  Held(P)' = Held(P) + (IF c \in P THEN x ELSE 0) + (IF d \in P THEN y ELSE 0)
<1> DEFINE f == HeldIn(P)
           g == HeldIn(P)'
<1>1. f \in [P -> Nat] /\ g \in [P -> Nat] /\ Total(f) \in Nat /\ Total(g) \in Nat
  <2>1. f \in [P -> Nat] /\ g \in [P -> Nat]
    BY PoolFacts, AddressFacts DEF HeldIn, TypeOK
  <2>2. QED
    BY <2>1, PoolFacts, TotalType
<1>2. \A e \in P : /\ f[e] = balance[e][Market]
                   /\ g[e] = balance'[e][Market]
  BY DEF HeldIn
<1>3. Held(P) = Total(f) /\ Held(P)' = Total(g)
  BY DEF Held
<1> HIDE DEF f, g
<1>4. \A e \in P : g[e] = f[e] + (IF e = c THEN x ELSE 0) + (IF e = d THEN y ELSE 0)
  BY <1>2, PoolFacts
<1>5. IsFiniteSet(P)
  BY PoolFacts
<1>6. CASE c \in P /\ d \in P /\ c # d
  <2> DEFINE h == [f EXCEPT ![c] = g[c]]
  <2>1. h \in [P -> Nat] /\ h[c] = g[c] /\ (\A k \in P \ {c} : h[k] = f[k])
    BY <1>1, <1>6
  <2> HIDE DEF h
  <2>2. Total(h) = Total(f) - f[c] + h[c]
    BY <1>1, <1>5, <1>6, <2>1, TotalChange
  <2>3. \A k \in P \ {d} : g[k] = h[k]
    BY <1>1, <1>4, <2>1
  <2>4. Total(g) = Total(h) - h[d] + g[d]
    BY <1>1, <1>5, <1>6, <2>1, <2>3, TotalChange
  <2>5. /\ f[c] \in Nat /\ f[d] \in Nat /\ h[d] = f[d]
        /\ h[c] = f[c] + x /\ g[d] = f[d] + y
    BY <1>1, <1>4, <1>6, <2>1
  <2>6. Total(g) = Total(f) + x + y
    BY <1>1, <2>2, <2>4, <2>5
  <2>7. QED
    BY <1>3, <1>6, <2>6
<1>7. CASE c \in P /\ ~(d \in P /\ c # d)
  <2>1. \A k \in P \ {c} : g[k] = f[k]
    BY <1>1, <1>4, <1>7
  <2>2. Total(g) = Total(f) - f[c] + g[c]
    BY <1>1, <1>5, <1>7, <2>1, TotalChange
  <2>3. f[c] \in Nat /\ g[c] = f[c] + x + (IF c = d THEN y ELSE 0)
    BY <1>1, <1>4, <1>7
  <2>4. QED
    BY <1>1, <1>3, <1>7, <2>2, <2>3
<1>8. CASE c \notin P /\ d \in P
  <2>1. \A k \in P \ {d} : g[k] = f[k]
    BY <1>1, <1>4, <1>8
  <2>2. Total(g) = Total(f) - f[d] + g[d]
    BY <1>1, <1>5, <1>8, <2>1, TotalChange
  <2>3. f[d] \in Nat /\ g[d] = f[d] + y
    BY <1>1, <1>4, <1>8
  <2>4. QED
    BY <1>1, <1>3, <1>8, <2>2, <2>3
<1>9. CASE c \notin P /\ d \notin P
  <2>1. \A k \in P : g[k] = f[k]
    BY <1>1, <1>4, <1>9
  <2>2. g = f
    BY <1>1, <2>1
  <2>3. QED
    BY <1>1, <1>3, <1>9, <2>2
<1>10. QED
  BY <1>6, <1>7, <1>8, <1>9

\* The values owed in a pool follow the one offer that changes.
LEMMA ValueChange ==
    ASSUME TypeOK, TypeOK', NEW P \in Pools, NEW s \in Slots,
           \A t \in Slots \ {s} : offers'[t] = offers[t]
    PROVE  Total(ValueIn(P))' = Total(ValueIn(P))
               - (IF offers[s].currency \in P THEN offers[s].value ELSE 0)
               + (IF offers'[s].currency \in P THEN offers'[s].value ELSE 0)
<1> DEFINE f == ValueIn(P)
           g == ValueIn(P)'
<1>1. f \in [Slots -> Nat] /\ g \in [Slots -> Nat]
  BY DEF ValueIn, TypeOK, Offer
<1>2. \A t \in Slots :
        /\ f[t] = IF offers[t].currency \in P THEN offers[t].value ELSE 0
        /\ g[t] = IF offers'[t].currency \in P THEN offers'[t].value ELSE 0
  BY DEF ValueIn
<1>3. \A t \in Slots \ {s} : g[t] = f[t]
  BY <1>2
<1> HIDE DEF f, g
<1>4. Total(g) = Total(f) - f[s] + g[s]
  BY <1>1, <1>3, FiniteFacts, TotalChange
<1>5. QED
  BY <1>2, <1>4 DEF f, g

LEMMA ReservedChange ==
    ASSUME TypeOK, TypeOK', NEW s \in Slots,
           \A t \in Slots \ {s} : offers'[t] = offers[t]
    PROVE  Total(ReservedCommission)' = Total(ReservedCommission)
               - (IF Agreed(s) THEN offers[s].commission ELSE 0)
               + (IF Agreed(s)' THEN offers'[s].commission ELSE 0)
<1> DEFINE f == ReservedCommission
           g == ReservedCommission'
<1>1. f \in [Slots -> Nat] /\ g \in [Slots -> Nat]
  BY DEF ReservedCommission, TypeOK, Offer
<1>2. \A t \in Slots :
        /\ f[t] = IF Agreed(t) THEN offers[t].commission ELSE 0
        /\ g[t] = IF Agreed(t)' THEN offers'[t].commission ELSE 0
  BY DEF ReservedCommission
<1>3. \A t \in Slots \ {s} : g[t] = f[t]
  BY <1>2 DEF Agreed
<1> HIDE DEF f, g
<1>4. Total(g) = Total(f) - f[s] + g[s]
  BY <1>1, <1>3, FiniteFacts, TotalChange
<1>5. QED
  BY <1>2, <1>4 DEF f, g

LEMMA DepositChange ==
    ASSUME TypeOK, TypeOK', NEW l \in ListingIds,
           \A k \in ListingIds \ {l} : deposit'[k] = deposit[k]
    PROVE  Total(deposit)' = Total(deposit) - deposit[l] + deposit'[l]
<1>1. deposit \in [ListingIds -> Nat] /\ deposit' \in [ListingIds -> Nat]
  BY DEF TypeOK
<1>2. QED
  BY <1>1, FiniteFacts, TotalChange

InPool(P, offer) == IF offer.currency \in P THEN offer.value ELSE 0
Reserved(offer)  == IF offer.status \in {Accepted, Disputed} THEN offer.commission ELSE 0

\* What a step does: at most two balances of the contract, one offer and one
\* deposit change.
Moved(c, x, d, y) ==
    \A e \in Currencies : balance'[e][Market] = balance[e][Market]
            + (IF e = c THEN x ELSE 0) + (IF e = d THEN y ELSE 0)
OnlyOffer(s)   == \A t \in Slots \ {s} : offers'[t] = offers[t]
OnlyDeposit(l) == \A k \in ListingIds \ {l} : deposit'[k] = deposit[k]

\* What a pool gains by that, and what it owes more.
Gain(P, c, x, d, y) == (IF c \in P THEN x ELSE 0) + (IF d \in P THEN y ELSE 0)
Due(P, l, s) == InPool(P, offers'[s]) - InPool(P, offers[s])
                 + (IF P = DepositTokens
                    THEN deposit'[l] - deposit[l]
                         + Reserved(offers'[s]) - Reserved(offers[s])
                    ELSE 0)

\* The accounting of one step: it changes at most one offer, one deposit and two
\* balances.  If the holdings of the pool change by what its obligations change
\* by, the pool stays backed; they may gain more only when the contract itself
\* is a payee.
LEMMA PoolStaysBacked ==
    ASSUME TypeOK, TypeOK', NEW P \in Pools, PoolBacked(P),
           NEW l \in ListingIds, NEW s \in Slots,
           NEW c \in Currencies, NEW d \in Currencies, NEW x \in Int, NEW y \in Int,
           Moved(c, x, d, y), OnlyOffer(s), OnlyDeposit(l),
           Gain(P, c, x, d, y) >= Due(P, l, s),
           Market \notin Payees => Gain(P, c, x, d, y) = Due(P, l, s)
    PROVE  PoolBacked(P)'
<1>1. Held(P)' = Held(P) + Gain(P, c, x, d, y) /\ Held(P) \in Nat
  <2>1. Held(P)' = Held(P) + (IF c \in P THEN x ELSE 0) + (IF d \in P THEN y ELSE 0)
    BY HeldChange DEF Moved
  <2>2. Held(P) \in Nat
    BY TotalsTyped
  <2>3. QED
    BY <2>1, <2>2 DEF Gain
<1>2. Total(ValueIn(P))' = Total(ValueIn(P)) - InPool(P, offers[s])
                            + InPool(P, offers'[s])
  BY ValueChange DEF InPool, OnlyOffer
<1>3. Total(ReservedCommission)' = Total(ReservedCommission)
                            - Reserved(offers[s]) + Reserved(offers'[s])
  BY ReservedChange DEF Reserved, Agreed, OnlyOffer
<1>4. Total(deposit)' = Total(deposit) - deposit[l] + deposit'[l]
  BY DepositChange DEF OnlyDeposit
<1>5. /\ Total(ValueIn(P)) \in Nat
      /\ Total(deposit) \in Nat /\ Total(ReservedCommission) \in Nat
      /\ InPool(P, offers[s]) \in Nat /\ InPool(P, offers'[s]) \in Nat
      /\ Reserved(offers[s]) \in Nat /\ Reserved(offers'[s]) \in Nat
      /\ deposit[l] \in Nat /\ deposit'[l] \in Nat
  BY TotalsTyped DEF InPool, Reserved, TypeOK, Offer
<1>6. Owed(P)' = Owed(P) + Due(P, l, s) /\ Owed(P) \in Nat
  <2>1. CASE P = DepositTokens
    BY <1>2, <1>3, <1>4, <1>5, <2>1 DEF Owed, Due
  <2>2. CASE P # DepositTokens
    BY <1>2, <1>5, <2>2 DEF Owed, Due
  <2>3. QED
    BY <2>1, <2>2
<1>7. Gain(P, c, x, d, y) \in Int /\ Due(P, l, s) \in Int
  BY <1>5 DEF Gain, Due
<1>8. QED
  BY <1>1, <1>6, <1>7 DEF PoolBacked, Backed

\* A step on a deposit: the tokens that come or go are the deposit's.
LEMMA DepositStepBacked ==
    ASSUME TypeOK, TypeOK', NEW P \in Pools, PoolBacked(P),
           NEW l \in ListingIds, NEW x \in Int, offers' = offers, OnlyDeposit(l),
           Moved(tokenAddr, x, tokenAddr, 0),
           x >= deposit'[l] - deposit[l],
           Market \notin Payees => x = deposit'[l] - deposit[l]
    PROVE  PoolBacked(P)'
<1>1. PICK s \in Slots : TRUE
  <2>1. 0 \in OfferIds
    BY BoundAssumption DEF OfferIds
  <2>2. <<l, 0>> \in Slots
    BY <2>1 DEF Slots
  <2>3. QED
    BY <2>2
<1>2. tokenAddr \in Currencies /\ tokenAddr \in DepositTokens
  BY AddressFacts DEF TypeOK
<1>3. /\ InPool(P, offers[s]) \in Nat /\ Reserved(offers[s]) \in Nat
      /\ deposit[l] \in Nat /\ deposit'[l] \in Nat
  BY DEF InPool, Reserved, TypeOK, Offer
<1>4. /\ Gain(P, tokenAddr, x, tokenAddr, 0) = IF P = DepositTokens THEN x ELSE 0
      /\ Due(P, l, s) = IF P = DepositTokens THEN deposit'[l] - deposit[l] ELSE 0
  BY <1>2, <1>3, PoolFacts DEF Gain, Due
<1>5. OnlyOffer(s) /\ 0 \in Int
  BY DEF OnlyOffer
<1>6. QED
  BY <1>2, <1>3, <1>4, <1>5, PoolStaysBacked

\* A step on one offer that leaves all deposits alone or changes its listing's:
\* "in" is the offer's money coming in (negative: leaving), "com" the Origin
\* tokens leaving as commission (never positive).
LEMMA OfferStepBacked ==
    ASSUME TypeOK, TypeOK', NEW P \in Pools, PoolBacked(P),
           NEW l \in ListingIds, NEW s \in Slots,
           NEW c \in Currencies, NEW in \in Int, NEW com \in Int,
           OnlyOffer(s), OnlyDeposit(l), Moved(c, in, tokenAddr, com),
           InPool(P, offers'[s]) - InPool(P, offers[s]) = (IF c \in P THEN in ELSE 0),
           com >= deposit'[l] - deposit[l] + Reserved(offers'[s]) - Reserved(offers[s]),
           Market \notin Payees =>
                com = deposit'[l] - deposit[l]
                        + Reserved(offers'[s]) - Reserved(offers[s])
    PROVE  PoolBacked(P)'
<1>1. tokenAddr \in Currencies /\ tokenAddr \in DepositTokens
  BY AddressFacts DEF TypeOK
<1>2. /\ InPool(P, offers[s]) \in Nat /\ InPool(P, offers'[s]) \in Nat
      /\ Reserved(offers[s]) \in Nat /\ Reserved(offers'[s]) \in Nat
      /\ deposit[l] \in Nat /\ deposit'[l] \in Nat
  BY DEF InPool, Reserved, TypeOK, Offer
<1>3. /\ Gain(P, c, in, tokenAddr, com) =
            (IF c \in P THEN in ELSE 0) + (IF P = DepositTokens THEN com ELSE 0)
      /\ Due(P, l, s) = (IF c \in P THEN in ELSE 0)
            + (IF P = DepositTokens
               THEN deposit'[l] - deposit[l] + Reserved(offers'[s]) - Reserved(offers[s])
               ELSE 0)
  <2>1. tokenAddr \in P <=> P = DepositTokens
    BY <1>1, PoolFacts
  <2>2. QED
    BY <2>1 DEF Gain, Due
<1>4. /\ Gain(P, c, in, tokenAddr, com) >= Due(P, l, s)
      /\ Market \notin Payees => Gain(P, c, in, tokenAddr, com) = Due(P, l, s)
  BY <1>2, <1>3
<1>5. QED
  BY <1>1, <1>4, PoolStaysBacked

LEMMA ListingStepBacked ==
    ASSUME Wellformed, Wellformed', ListingStep, NEW P \in Pools, PoolBacked(P)
    PROVE  PoolBacked(P)'
<1>1. /\ TypeOK /\ TypeOK' /\ tokenAddr \in Currencies /\ balance \in Balances
      /\ deposit \in [ListingIds -> Nat]
      /\ \A e \in Currencies : balance[e][Market] \in Nat
      /\ Market \in Holders
  BY AddressFacts DEF Wellformed, TypeOK, Balances
<1>2. ASSUME NEW sender \in Accounts, NEW amount \in Deposits,
             NEW manager \in Accounts, CreateListing(sender, amount, manager)
      PROVE  PoolBacked(P)'
  <2>1. amount \in Nat /\ numListings \in ListingIds /\ deposit[numListings] = 0
    BY <1>2, AmountAssumption, BoundAssumption
       DEF CreateListing, Wellformed, TypeOK, Allocated, Exists, ListingIds
  <2>2. Moved(tokenAddr, amount, tokenAddr, 0)
    <3>1. /\ Covered(balance, tokenAddr, sender, amount)
          /\ balance' = Move(balance, tokenAddr, sender, Market, amount)
      BY <1>2 DEF CreateListing
    <3>2. sender \in Holders /\ sender # Market
      BY AddressFacts
    <3>3. \A e \in Currencies : balance'[e][Market] = balance[e][Market]
            + (IF e = tokenAddr /\ Market = Market THEN amount ELSE 0)
            - (IF e = tokenAddr /\ sender = Market THEN amount ELSE 0)
      BY <1>1, <2>1, <3>1, <3>2, MoveEffect
    <3>4. QED
      BY <1>1, <2>1, <3>2, <3>3 DEF Moved
  <2>3. /\ deposit'[numListings] = amount /\ offers' = offers
        /\ OnlyDeposit(numListings)
    BY <1>1, <1>2, <2>1 DEF CreateListing, offerVars, OnlyDeposit
  <2>4. amount \in Int /\ amount = deposit'[numListings] - deposit[numListings]
    BY <2>1, <2>3
  <2>5. QED
    BY <1>1, <2>1, <2>2, <2>3, <2>4, DepositStepBacked
<1>3. ASSUME NEW sender \in Accounts, NEW l \in ListingIds,
             NEW additional \in Deposits, UpdateListing(sender, l, additional)
      PROVE  PoolBacked(P)'
  <2>1. additional \in Nat
    BY AmountAssumption
  <2>2. Moved(tokenAddr, additional, tokenAddr, 0)
    <3>1. /\ Covered(balance, tokenAddr, sender, additional)
          /\ balance' = Move(balance, tokenAddr, sender, Market, additional)
      BY <1>3 DEF UpdateListing
    <3>2. sender \in Holders /\ sender # Market
      BY AddressFacts
    <3>3. \A e \in Currencies : balance'[e][Market] = balance[e][Market]
            + (IF e = tokenAddr /\ Market = Market THEN additional ELSE 0)
            - (IF e = tokenAddr /\ sender = Market THEN additional ELSE 0)
      BY <1>1, <2>1, <3>1, <3>2, MoveEffect
    <3>4. QED
      BY <1>1, <2>1, <3>2, <3>3 DEF Moved
  <2>3. /\ deposit'[l] = deposit[l] + additional /\ offers' = offers
        /\ OnlyDeposit(l)
    BY <1>1, <1>3 DEF UpdateListing, offerVars, OnlyDeposit
  <2>4. additional \in Int /\ additional = deposit'[l] - deposit[l]
    BY <1>1, <2>1, <2>3
  <2>5. QED
    BY <1>1, <2>2, <2>3, <2>4, DepositStepBacked
<1>4. ASSUME NEW sender \in Accounts, NEW l \in ListingIds, NEW target \in Payees,
             NEW v \in Nat, Covered(balance, tokenAddr, Market, v),
             balance' = Move(balance, tokenAddr, Market, target, v),
             deposit' = [deposit EXCEPT ![l] = @ - v], v <= deposit[l],
             offers' = offers
      PROVE  PoolBacked(P)'
  <2>1. target \in Holders
    BY AddressFacts
  <2>2. PICK x \in Int : x = IF target = Market THEN 0 ELSE 0 - v
    BY <1>4
  <2>3. Moved(tokenAddr, x, tokenAddr, 0)
    <3>1. \A e \in Currencies : balance'[e][Market] =
            balance[e][Market] + (IF e = tokenAddr /\ target = Market THEN v ELSE 0)
                               - (IF e = tokenAddr /\ Market = Market THEN v ELSE 0)
      BY <1>1, <1>4, <2>1, MoveEffect
    <3>2. QED
      BY <1>1, <1>4, <2>2, <3>1 DEF Moved
  <2>4. deposit'[l] - deposit[l] = 0 - v /\ OnlyDeposit(l)
    BY <1>1, <1>4 DEF OnlyDeposit
  <2>5. /\ x >= deposit'[l] - deposit[l]
        /\ Market \notin Payees => x = deposit'[l] - deposit[l]
    BY <1>4, <2>2, <2>4
  <2>6. QED
    BY <1>1, <1>4, <2>3, <2>4, <2>5, DepositStepBacked
<1>5. ASSUME NEW sender \in Accounts, NEW l \in ListingIds, NEW target \in Payees,
             WithdrawListing(sender, l, target)
      PROVE  PoolBacked(P)'
  <2>1. PICK v \in Nat : v = deposit[l]
    BY <1>1
  <2>2. /\ Covered(balance, tokenAddr, Market, v)
        /\ balance' = Move(balance, tokenAddr, Market, target, v)
        /\ deposit' = [deposit EXCEPT ![l] = @ - v] /\ v <= deposit[l]
        /\ offers' = offers
    <3>1. deposit' = [deposit EXCEPT ![l] = 0] /\ deposit[l] - v = 0 /\ v <= deposit[l]
      BY <1>5, <2>1 DEF WithdrawListing
    <3>2. deposit' = [deposit EXCEPT ![l] = @ - v]
      BY <3>1
    <3>3. QED
      BY <1>5, <2>1, <3>1, <3>2 DEF WithdrawListing, offerVars
  <2>3. QED
    BY <1>4, <2>2
<1>6. ASSUME NEW sender \in Accounts, NEW l \in ListingIds, NEW target \in Payees,
             NEW amount \in Deposits, SendDeposit(sender, l, target, amount)
      PROVE  PoolBacked(P)'
  <2>1. amount \in Nat /\ amount <= deposit[l]
    BY <1>1, <1>6, AmountAssumption DEF SendDeposit, DepositCovers
  <2>2. /\ Covered(balance, tokenAddr, Market, amount)
        /\ balance' = Move(balance, tokenAddr, Market, target, amount)
        /\ deposit' = [deposit EXCEPT ![l] = @ - amount]
        /\ offers' = offers
    BY <1>6 DEF SendDeposit, DepositCovers, offerVars
  <2>3. QED
    BY <1>4, <2>1, <2>2
<1>7. QED
  BY <1>2, <1>3, <1>5, <1>6 DEF ListingStep

\* Closing an offer, whoever gets the money: the commission leaves the contract
\* or goes back to the deposit.
LEMMA ClosingBacked ==
    ASSUME Wellformed, Wellformed', NEW P \in Pools, PoolBacked(P),
           NEW l \in ListingIds, NEW o \in OfferIds, NEW earned \in BOOLEAN,
           NEW offer, offer = offers[<<l, o>>],
           offers' = [offers EXCEPT ![<<l, o>>] = NoOffer],
           MoneyOut(offer, earned), DepositBack(l, offer, earned),
           Reserved(offer) = offer.commission
    PROVE  PoolBacked(P)'
<1> DEFINE s == <<l, o>>
<1>1. /\ TypeOK /\ TypeOK' /\ s \in Slots /\ offer \in Offer
      /\ offers \in [Slots -> Offer] /\ deposit \in [ListingIds -> Nat]
      /\ \A d \in Currencies : balance[d][Market] \in Nat
  BY OfferFacts, AddressFacts DEF Wellformed, TypeOK
<1>2. /\ offer.value \in Nat /\ offer.commission \in Nat
      /\ offer.currency \in Currencies /\ offer.affiliate \in Payees \cup {Null}
  BY <1>1 DEF Offer
<1>3. PICK in \in Int : in = 0 - offer.value
  BY <1>2
<1>4. PICK com \in Int :
        com = IF earned /\ offer.affiliate # Market THEN 0 - offer.commission ELSE 0
  BY <1>2
<1>5. Moved(offer.currency, in, tokenAddr, com)
  BY <1>1, <1>2, <1>3, <1>4 DEF Moved, MoneyOut
<1>6. OnlyOffer(s) /\ OnlyDeposit(l) /\ offers'[s] = NoOffer
  BY <1>1 DEF OnlyOffer, OnlyDeposit, DepositBack
<1>7. InPool(P, offers'[s]) - InPool(P, offers[s])
        = (IF offer.currency \in P THEN in ELSE 0)
  BY <1>2, <1>3, <1>6, NoOfferFacts DEF InPool
<1>8. Reserved(offers'[s]) = 0 /\ Reserved(offers[s]) = offer.commission
  BY <1>6, NoOfferFacts DEF Reserved, Undefined, Accepted, Disputed
<1>9. deposit'[l] - deposit[l] = IF earned THEN 0 ELSE offer.commission
  BY <1>1, <1>2 DEF DepositBack
<1>10. deposit'[l] - deposit[l] + Reserved(offers'[s]) - Reserved(offers[s])
        = IF earned THEN 0 - offer.commission ELSE 0
  BY <1>1, <1>2, <1>8, <1>9
<1>11. offer.affiliate = Market => Market \in Payees
  BY <1>2, AddressFacts
<1>12. /\ com >= deposit'[l] - deposit[l] + Reserved(offers'[s]) - Reserved(offers[s])
       /\ Market \notin Payees =>
            com = deposit'[l] - deposit[l] + Reserved(offers'[s]) - Reserved(offers[s])
  BY <1>2, <1>4, <1>10, <1>11
<1> HIDE DEF s
<1>13. QED
  BY <1>1, <1>2, <1>5, <1>6, <1>7, <1>12, OfferStepBacked

LEMMA MakeOfferBacked ==
    ASSUME Wellformed, Wellformed', MakeOfferStep, NEW P \in Pools, PoolBacked(P)
    PROVE  PoolBacked(P)'
<1>1. PICK sender \in Accounts, l \in ListingIds, finalizes \in Windows,
       affiliate \in Payees \cup {Null}, commission \in Commissions,
       value \in Values, currency \in Currencies, arbitrator \in Arbitrators :
        MakeOffer(sender, l, finalizes, affiliate, commission, value,
                  currency, arbitrator)
  BY DEF MakeOfferStep
<1> DEFINE s == <<l, numOffers[l]>>
<1>2. /\ TypeOK /\ TypeOK' /\ balance \in Balances /\ offers \in [Slots -> Offer]
      /\ deposit \in [ListingIds -> Nat] /\ value \in Nat
      /\ \A d \in Currencies : balance[d][Market] \in Nat
  BY AmountAssumption, AddressFacts DEF Wellformed, TypeOK, Balances
<1>3. numOffers[l] \in OfferIds /\ s \in Slots
  BY <1>1, BoundAssumption DEF MakeOffer, CommissionAllowed, Wellformed, TypeOK, OfferIds, Slots
<1>4. offers[s] = NoOffer
  BY <1>3, BoundAssumption DEF Wellformed, Allocated, TypeOK, OfferIds
<1>5. /\ offers'[s].value = value /\ offers'[s].currency = currency
      /\ offers'[s].status = Created
      /\ OnlyOffer(s) /\ deposit' = deposit
      /\ balance' = Move(balance, currency, sender, Market, value)
      /\ Covered(balance, currency, sender, value)
  BY <1>1, <1>2, <1>3 DEF MakeOffer, CommissionAllowed, listingVars, OnlyOffer
<1> HIDE DEF s
<1>6. Moved(currency, value, tokenAddr, 0)
  <2>1. sender \in Holders /\ sender # Market /\ Market \in Holders
    BY AddressFacts
  <2>2. \A e \in Currencies : balance'[e][Market] = balance[e][Market]
            + (IF e = currency /\ Market = Market THEN value ELSE 0)
            - (IF e = currency /\ sender = Market THEN value ELSE 0)
    BY <1>2, <1>5, <2>1, MoveEffect
  <2>3. QED
    BY <1>2, <2>1, <2>2 DEF Moved
<1>7. /\ InPool(P, offers'[s]) - InPool(P, offers[s])
            = (IF currency \in P THEN value ELSE 0)
      /\ Reserved(offers'[s]) = 0 /\ Reserved(offers[s]) = 0
  BY <1>2, <1>4, <1>5, NoOfferFacts
     DEF InPool, Reserved, Undefined, Created, Accepted, Disputed
<1>8. OnlyDeposit(l) /\ deposit'[l] - deposit[l] = 0
  BY <1>2, <1>5 DEF OnlyDeposit
<1>9. /\ 0 \in Int /\ value \in Int
      /\ 0 = deposit'[l] - deposit[l] + Reserved(offers'[s]) - Reserved(offers[s])
  BY <1>2, <1>7, <1>8
<1>10. QED
  BY <1>2, <1>3, <1>5, <1>6, <1>7, <1>8, <1>9, OfferStepBacked

\* A step that keeps the value and currency of one offer and moves no money.
LEMMA QuietOfferBacked ==
    ASSUME Wellformed, Wellformed', NEW P \in Pools, PoolBacked(P),
           NEW l \in ListingIds, NEW s \in Slots,
           OnlyOffer(s), OnlyDeposit(l), UNCHANGED balance,
           offers'[s].value = offers[s].value,
           offers'[s].currency = offers[s].currency,
           0 = deposit'[l] - deposit[l] + Reserved(offers'[s]) - Reserved(offers[s])
    PROVE  PoolBacked(P)'
<1>1. /\ TypeOK /\ TypeOK' /\ ETH \in Currencies /\ 0 \in Int
      /\ \A d \in Currencies : balance[d][Market] \in Nat
  BY AddressFacts DEF Wellformed, TypeOK
<1>2. Moved(ETH, 0, tokenAddr, 0)
  BY <1>1 DEF Moved
<1>3. InPool(P, offers'[s]) - InPool(P, offers[s]) = (IF ETH \in P THEN 0 ELSE 0)
  BY <1>1 DEF InPool, TypeOK, Offer
<1>4. QED
  BY <1>1, <1>2, <1>3, OfferStepBacked

LEMMA OfferStepKeepsBacked ==
    ASSUME Wellformed, Wellformed', OfferStep, NEW P \in Pools, PoolBacked(P)
    PROVE  PoolBacked(P)'
<1>1. PICK sender \in Accounts, l \in ListingIds, o \in OfferIds :
            \/ AcceptOffer(sender, l, o)
            \/ WithdrawOffer(sender, l, o)
            \/ \E value \in Values : AddFunds(sender, l, o, value)
            \/ Finalize(sender, l, o)
            \/ Dispute(sender, l, o)
            \/ \E ruling \in Rulings, refund \in Refunds :
                    ExecuteRuling(sender, l, o, ruling, refund)
            \/ \E refund \in Refunds :
                    UpdateRefund(sender, l, o, refund)
  BY DEF OfferStep
<1> DEFINE s == <<l, o>>
           offer == offers[s]
<1>2. /\ TypeOK /\ TypeOK' /\ balance \in Balances /\ offers \in [Slots -> Offer]
      /\ deposit \in [ListingIds -> Nat] /\ s \in Slots /\ offer \in Offer
      /\ \A d \in Currencies : balance[d][Market] \in Nat
      /\ Market \in Holders
  BY AddressFacts, OfferFacts DEF Wellformed, TypeOK, Balances
<1>3. /\ offer.value \in Nat /\ offer.commission \in Nat /\ offer.currency \in Currencies
      /\ deposit[l] \in Nat
  BY <1>2 DEF Offer
<1>4. CASE AcceptOffer(sender, l, o)
  <2>1. /\ offer.status = Created /\ UNCHANGED balance
        /\ deposit' = [deposit EXCEPT ![l] = @ - offer.commission]
        /\ offers' = [offers EXCEPT ![s].finalizes = WindowEnd(offer.finalizes),
                                    ![s].status = Accepted]
    BY <1>4 DEF AcceptOffer, DepositCovers
  <2>2. /\ offers'[s].value = offer.value /\ offers'[s].currency = offer.currency
        /\ offers'[s].status = Accepted /\ offers'[s].commission = offer.commission
        /\ OnlyOffer(s) /\ OnlyDeposit(l)
        /\ deposit'[l] = deposit[l] - offer.commission
    BY <1>2, <2>1 DEF Offer, OnlyOffer, OnlyDeposit
  <2>3. Reserved(offers'[s]) = offer.commission /\ Reserved(offer) = 0
    BY <2>1, <2>2 DEF Reserved, Created, Accepted, Disputed
  <2>4. 0 = deposit'[l] - deposit[l] + Reserved(offers'[s]) - Reserved(offer)
    BY <1>3, <2>2, <2>3
  <2>5. QED
    BY <1>2, <2>1, <2>2, <2>4, QuietOfferBacked
<1>5. CASE WithdrawOffer(sender, l, o)
  <2>1. /\ offer.status = Created /\ deposit' = deposit
        /\ offers' = [offers EXCEPT ![s] = NoOffer]
        /\ RefundBuyer(balance, offer.buyer, offer.currency, offer.value)
    BY <1>5 DEF WithdrawOffer, listingVars
  <2>2. offer.buyer \in Accounts
    BY <2>1, OfferFacts DEF Live, Created, Undefined
  <2>3. \A d \in Currencies : balance'[d][Market] =
            balance[d][Market] - (IF d = offer.currency THEN offer.value ELSE 0)
    BY <1>2, <1>3, <2>1, <2>2, RefundBuyerEffect
  <2>4. PICK in \in Int : in = 0 - offer.value
    BY <1>3
  <2>5. Moved(offer.currency, in, tokenAddr, 0)
    BY <1>2, <1>3, <2>3, <2>4 DEF Moved
  <2>6. OnlyOffer(s) /\ OnlyDeposit(l) /\ offers'[s] = NoOffer
    BY <1>2, <2>1 DEF OnlyOffer, OnlyDeposit
  <2>7. /\ InPool(P, offers'[s]) - InPool(P, offers[s])
            = (IF offer.currency \in P THEN in ELSE 0)
        /\ Reserved(offers'[s]) = 0 /\ Reserved(offers[s]) = 0
    BY <1>3, <2>1, <2>4, <2>6, NoOfferFacts
       DEF InPool, Reserved, Undefined, Created, Accepted, Disputed
  <2>8. /\ 0 \in Int
        /\ 0 = deposit'[l] - deposit[l] + Reserved(offers'[s]) - Reserved(offers[s])
    BY <1>3, <2>1, <2>7
  <2> HIDE DEF s
  <2>9. QED
    BY <1>2, <1>3, <2>5, <2>6, <2>7, <2>8, OfferStepBacked
<1>6. ASSUME NEW value \in Values, AddFunds(sender, l, o, value)
      PROVE  PoolBacked(P)'
  <2>1. /\ offer.status = Accepted /\ deposit' = deposit
        /\ offers' = [offers EXCEPT ![s].value = @ + value]
        /\ Covered(balance, offer.currency, sender, value)
        /\ balance' = Move(balance, offer.currency, sender, Market, value)
    BY <1>6 DEF AddFunds, listingVars
  <2>2. value \in Nat /\ sender \in Holders /\ sender # Market
    BY AmountAssumption, AddressFacts
  <2>3. Moved(offer.currency, value, tokenAddr, 0)
    <3>1. \A e \in Currencies : balance'[e][Market] = balance[e][Market]
            + (IF e = offer.currency /\ Market = Market THEN value ELSE 0)
            - (IF e = offer.currency /\ sender = Market THEN value ELSE 0)
      BY <1>2, <1>3, <2>1, <2>2, MoveEffect
    <3>2. QED
      BY <1>2, <2>2, <3>1 DEF Moved
  <2>4. /\ offers'[s].value = offer.value + value
        /\ offers'[s].currency = offer.currency
        /\ offers'[s].status = offer.status
        /\ offers'[s].commission = offer.commission
        /\ OnlyOffer(s) /\ OnlyDeposit(l)
    BY <1>2, <2>1 DEF Offer, OnlyOffer, OnlyDeposit
  <2>5. /\ InPool(P, offers'[s]) - InPool(P, offers[s])
            = (IF offer.currency \in P THEN value ELSE 0)
        /\ Reserved(offers'[s]) = Reserved(offers[s])
        /\ Reserved(offers[s]) \in Nat
    BY <1>3, <2>2, <2>4 DEF InPool, Reserved
  <2>6. /\ 0 \in Int /\ value \in Int
        /\ 0 = deposit'[l] - deposit[l] + Reserved(offers'[s]) - Reserved(offers[s])
    BY <1>3, <2>1, <2>2, <2>5
  <2> HIDE DEF s
  <2>7. QED
    BY <1>2, <1>3, <2>3, <2>4, <2>5, <2>6, OfferStepBacked
<1>7. CASE Finalize(sender, l, o)
  <2>1. PICK earned \in BOOLEAN : earned <=> sender = offer.buyer
    OBVIOUS
  <2>2. /\ offer.status = Accepted /\ offers' = [offers EXCEPT ![s] = NoOffer]
    BY <1>7 DEF Finalize, MayFinalize
  <2>3. Reserved(offer) = offer.commission
    BY <2>2 DEF Reserved
  <2> HIDE DEF offer
  <2>4. offer = offers[<<l, o>>]
    BY DEF offer
  <2>5. MoneyOut(offer, earned) /\ DepositBack(l, offer, earned)
    BY <1>7, <2>1, <2>4, FinalizeEffect
  <2>6. QED
    BY <2>1, <2>2, <2>3, <2>4, <2>5, ClosingBacked
<1>8. CASE Dispute(sender, l, o)
  <2>1. /\ offer.status = Accepted /\ UNCHANGED balance /\ deposit' = deposit
        /\ offers' = [offers EXCEPT ![s].status = Disputed]
    BY <1>8 DEF Dispute, listingVars
  <2>2. /\ offers'[s].value = offer.value /\ offers'[s].currency = offer.currency
        /\ offers'[s].status = Disputed /\ offers'[s].commission = offer.commission
        /\ OnlyOffer(s) /\ OnlyDeposit(l)
    BY <1>2, <2>1 DEF Offer, OnlyOffer, OnlyDeposit
  <2>3. Reserved(offers'[s]) = Reserved(offer) /\ Reserved(offer) \in Nat
    BY <1>3, <2>1, <2>2 DEF Reserved
  <2>4. 0 = deposit'[l] - deposit[l] + Reserved(offers'[s]) - Reserved(offer)
    BY <1>3, <2>1, <2>3
  <2>5. QED
    BY <1>2, <2>1, <2>2, <2>4, QuietOfferBacked
<1>9. ASSUME NEW ruling \in Rulings, NEW refund \in Refunds,
             ExecuteRuling(sender, l, o, ruling, refund)
      PROVE  PoolBacked(P)'
  <2>1. PICK earned \in BOOLEAN : earned <=> PaysCommission(ruling)
    OBVIOUS
  <2>2. /\ offer.status = Disputed /\ offers' = [offers EXCEPT ![s] = NoOffer]
    BY <1>9 DEF ExecuteRuling
  <2>3. Reserved(offer) = offer.commission
    BY <2>2 DEF Reserved
  <2> HIDE DEF offer
  <2>4. offer = offers[<<l, o>>]
    BY DEF offer
  <2>5. MoneyOut(offer, earned) /\ DepositBack(l, offer, earned)
    BY <1>9, <2>1, <2>4, ExecuteRulingEffect
  <2>6. QED
    BY <2>1, <2>2, <2>3, <2>4, <2>5, ClosingBacked
<1>10. ASSUME NEW refund \in Refunds,
              UpdateRefund(sender, l, o, refund)
       PROVE  PoolBacked(P)'
  <2>1. /\ UNCHANGED balance /\ deposit' = deposit
        /\ offers' = [offers EXCEPT ![s].refund = refund]
    BY <1>10 DEF UpdateRefund, listingVars
  <2>2. /\ offers'[s].value = offer.value /\ offers'[s].currency = offer.currency
        /\ offers'[s].status = offer.status
        /\ offers'[s].commission = offer.commission
        /\ OnlyOffer(s) /\ OnlyDeposit(l)
    BY <1>2, <2>1 DEF Offer, OnlyOffer, OnlyDeposit
  <2>3. Reserved(offers'[s]) = Reserved(offer) /\ Reserved(offer) \in Nat
    BY <1>3, <2>2 DEF Reserved
  <2>4. 0 = deposit'[l] - deposit[l] + Reserved(offers'[s]) - Reserved(offer)
    BY <1>3, <2>1, <2>3
  <2>5. QED
    BY <1>2, <2>1, <2>2, <2>4, QuietOfferBacked
<1>11. QED
  BY <1>1, <1>4, <1>5, <1>6, <1>7, <1>8, <1>9, <1>10

LEMMA InitBacked ==
    ASSUME Init, NEW P \in Pools
    PROVE  PoolBacked(P)
<1>1. /\ HeldIn(P) = [c \in P |-> 0]
      /\ ValueIn(P) = [s \in Slots |-> 0]
      /\ ReservedCommission = [s \in Slots |-> 0]
      /\ deposit = [l \in ListingIds |-> 0]
  <2>1. HeldIn(P) = [c \in P |-> 0]
    BY PoolFacts, AddressFacts DEF Init, HeldIn
  <2>2. ValueIn(P) = [s \in Slots |-> 0] /\ ReservedCommission = [s \in Slots |-> 0]
    BY DEF Init, ValueIn, ReservedCommission, Agreed, NoOffer, Undefined, Accepted,
       Disputed
  <2>3. QED
    BY <2>1, <2>2 DEF Init
<1>2. Held(P) = 0 /\ Owed(P) = 0
  BY <1>1, TotalZero DEF Held, Owed
<1>3. QED
  BY <1>2 DEF PoolBacked, Backed

LEMMA NextBacked ==
    ASSUME Wellformed, Wellformed', [Next]_vars, NEW P \in Pools, PoolBacked(P)
    PROVE  PoolBacked(P)'
<1>1. CASE ListingStep
  BY <1>1, ListingStepBacked
<1>2. CASE MakeOfferStep
  BY <1>2, MakeOfferBacked
<1>3. CASE OfferStep
  BY <1>3, OfferStepKeepsBacked
<1>4. CASE OwnerStep \/ Tick \/ UNCHANGED vars
  <2>1. UNCHANGED <<deposit, offers, balance>>
    BY <1>4 DEF OwnerStep, SetTokenAddr, AddAffiliate, RemoveAffiliate, Tick, vars,
       listingVars, offerVars
  <2>2. QED
    BY <2>1 DEF PoolBacked, Backed, Held, Owed, HeldIn, ValueIn,
       ReservedCommission, Agreed
<1>5. QED
  BY <1>1, <1>2, <1>3, <1>4 DEF Next

\* The pools are what Solvent speaks of.
LEMMA SolventIsPools == TypeOK => (Solvent <=> \A P \in Pools : PoolBacked(P))
<1> SUFFICES ASSUME TypeOK
             PROVE  Solvent <=> \A P \in Pools : PoolBacked(P)
  OBVIOUS
<1>1. ASSUME NEW c \in Currencies \ DepositTokens
      PROVE  PoolBacked({c}) <=> Backed(balance[c][Market], Total(ValueIn({c})))
  <2>1. HeldIn({c}) \in [{c} -> Nat] /\ HeldIn({c})[c] = balance[c][Market]
    BY AddressFacts DEF HeldIn, TypeOK
  <2>2. Held({c}) = balance[c][Market]
    BY <2>1, TotalSingle DEF Held
  <2>3. {c} \in Pools /\ {c} # DepositTokens
    BY <1>1 DEF Pools
  <2>4. Total(ValueIn({c})) \in Nat
    BY <2>3, TotalsTyped
  <2>5. Owed({c}) = Total(ValueIn({c}))
    BY <2>3, <2>4 DEF Owed
  <2>6. QED
    BY <2>2, <2>5 DEF PoolBacked
<1>2. PoolBacked(DepositTokens) <=>
        Backed(Total(HeldIn(DepositTokens)),
               Total(ValueIn(DepositTokens)) + Total(deposit) + Total(ReservedCommission))
  <2>1. DepositTokens \in Pools
    BY DEF Pools
  <2>2. Owed(DepositTokens) =
            Total(ValueIn(DepositTokens)) + Total(deposit) + Total(ReservedCommission)
    BY <2>1, TotalsTyped DEF Owed
  <2>3. QED
    BY <2>2 DEF PoolBacked, Held
<1>3. QED
  BY <1>1, <1>2 DEF Solvent, Pools

\* The contract is solvent in every reachable state, for any number of
\* listings, offers, accounts and tokens and any amounts.
THEOREM AlwaysSolvent == Spec => []Solvent
<1> DEFINE AllBacked == \A P \in Pools : PoolBacked(P)
<1>1. Init => Wellformed /\ AllBacked
  BY InitWellformed, InitBacked
<1>2. (Wellformed /\ AllBacked) /\ [Next]_vars => (Wellformed /\ AllBacked)'
  <2> SUFFICES ASSUME Wellformed, AllBacked, [Next]_vars
               PROVE  Wellformed' /\ AllBacked'
    OBVIOUS
  <2>1. Wellformed'
    BY NextWellformed
  <2>2. ASSUME NEW P \in Pools
        PROVE  PoolBacked(P)'
    BY <2>1, <2>2, NextBacked
  <2>3. Pools' = Pools
    BY DEF Pools, Currencies
  <2>4. QED
    BY <2>1, <2>2, <2>3
<1>3. Wellformed /\ AllBacked => Solvent
  BY SolventIsPools DEF Wellformed
<1> HIDE DEF AllBacked
<1>4. QED
  BY <1>1, <1>2, <1>3, PTL DEF Spec

-----------------------------------------------------------------------------
(***************************************************************************)
(* No offer is stranded.  ENABLED is out of the provers' reach, so what    *)
(* the closing operations require of a state is spelled out, and shown to  *)
(* be all they require: each is its guard and one value for every variable.*)
(***************************************************************************)
CanPaySeller(bal, payee, buyer, currency, value, refund) ==
    /\ refund <= value
    /\ CanSend(bal, currency, buyer, refund)
    /\ CanSend(Move(bal, currency, Market, buyer, refund), currency, payee, value - refund)

\* The balances after paySeller.
SellerPaid(bal, payee, buyer, currency, value, refund) ==
    Move(Move(bal, currency, Market, buyer, refund), currency, Market, payee, value - refund)

\* The balances the payment of the value starts from.
AfterEarning(offer, earned) ==
    IF earned THEN AfterCommission(offer.affiliate, offer.commission) ELSE balance

\* The deposits after the closing.
DepositAfter(l, offer, earned) ==
    IF earned THEN deposit ELSE [deposit EXCEPT ![l] = @ + offer.commission]

WithdrawPossible(sender, l, o) ==
    LET offer == offers[<<l, o>>] IN
    /\ Exists(l)
    /\ sender \in {offer.buyer, seller[l]}
    /\ offer.status = Created
    /\ CanSend(balance, offer.currency, offer.buyer, offer.value)

FinalizePossible(sender, l, o) ==
    LET offer == offers[<<l, o>>]
        byBuyer == sender = offer.buyer
    IN
    /\ Exists(l)
    /\ MayFinalize(sender, l, offer)
    /\ offer.status = Accepted
    /\ byBuyer => CommissionPaid(offer.affiliate, offer.commission)
    /\ CanPaySeller(AfterEarning(offer, byBuyer), seller[l], offer.buyer,
                    offer.currency, offer.value, offer.refund)

RulingPossible(sender, l, o, ruling, refund) ==
    LET offer == offers[<<l, o>>]
        bal == AfterEarning(offer, PaysCommission(ruling))
    IN
    /\ Exists(l)
    /\ sender = offer.arbitrator
    /\ offer.status = Disputed
    /\ refund <= offer.value
    /\ PaysCommission(ruling) => CommissionPaid(offer.affiliate, offer.commission)
    /\ IF ForBuyer(ruling)
       THEN CanSend(bal, offer.currency, offer.buyer, offer.value)
       ELSE CanPaySeller(bal, seller[l], offer.buyer, offer.currency, offer.value, refund)

\* The whole next state: the slot is deleted, the deposits and balances are
\* those given, everything else stays.
ClosedWith(l, o, deposits, balances) ==
    /\ offers' = [offers EXCEPT ![<<l, o>>] = NoOffer]
    /\ deposit' = deposits
    /\ balance' = balances
    /\ now' = now
    /\ tokenAddr' = tokenAddr
    /\ allowedAffiliates' = allowedAffiliates
    /\ numListings' = numListings
    /\ seller' = seller
    /\ depositManager' = depositManager
    /\ numOffers' = numOffers

\* withdrawOffer is its guard and one next state.
LEMMA WithdrawOfferIsGuarded ==
    ASSUME NEW sender, NEW l, NEW o
    PROVE  WithdrawOffer(sender, l, o) <=>
            /\ WithdrawPossible(sender, l, o)
            /\ ClosedWith(l, o, deposit,
                    Move(balance, offers[<<l, o>>].currency, Market,
                         offers[<<l, o>>].buyer, offers[<<l, o>>].value))
BY DEF WithdrawOffer, WithdrawPossible, ClosedWith, RefundBuyer, ownerVars, listingVars

\* finalize is its guard and one next state.
LEMMA FinalizeIsGuarded ==
    ASSUME NEW sender, NEW l, NEW o, NEW offer, offer = offers[<<l, o>>]
    PROVE  Finalize(sender, l, o) <=>
            /\ FinalizePossible(sender, l, o)
            /\ ClosedWith(l, o, DepositAfter(l, offer, sender = offer.buyer),
                    SellerPaid(AfterEarning(offer, sender = offer.buyer), seller[l],
                         offer.buyer, offer.currency, offer.value, offer.refund))
BY DEF Finalize, FinalizePossible, ClosedWith, PaySeller, CanPaySeller, SellerPaid,
       AfterEarning, DepositAfter, ownerVars

\* executeRuling is its guard and one next state.
LEMMA ExecuteRulingIsGuarded ==
    ASSUME NEW sender, NEW l, NEW o, NEW ruling, NEW refund,
           NEW offer, offer = offers[<<l, o>>],
           NEW bal, bal = AfterEarning(offer, PaysCommission(ruling))
    PROVE  ExecuteRuling(sender, l, o, ruling, refund) <=>
            /\ RulingPossible(sender, l, o, ruling, refund)
            /\ ClosedWith(l, o, DepositAfter(l, offer, PaysCommission(ruling)),
                    IF ForBuyer(ruling)
                    THEN Move(bal, offer.currency, Market, offer.buyer, offer.value)
                    ELSE SellerPaid(bal, seller[l], offer.buyer, offer.currency,
                                    offer.value, refund))
BY DEF ExecuteRuling, RulingPossible, ClosedWith, RefundBuyer, PaySeller, CanPaySeller,
       SellerPaid, AfterEarning, DepositAfter, ownerVars

\* With one deposit token for ever, what the contract holds covers the value of
\* any offer and, with it, the commission of an agreed one.
LEMMA OfferFunded ==
    ASSUME Wellformed, Solvent, DepositTokens = {OriginToken},
           NEW l \in ListingIds, NEW o \in OfferIds,
           NEW offer, offer = offers[<<l, o>>]
    PROVE  /\ balance[offer.currency][Market] >= offer.value
           /\ Agreed(<<l, o>>) =>
                balance[tokenAddr][Market] >=
                    offer.commission
                        + (IF offer.currency = tokenAddr THEN offer.value ELSE 0)
<1>1. /\ TypeOK /\ <<l, o>> \in Slots /\ offer \in Offer
      /\ tokenAddr = OriginToken /\ OriginToken \in Currencies
      /\ offer.value \in Nat /\ offer.commission \in Nat /\ offer.currency \in Currencies
  BY OfferFacts, AddressFacts DEF Wellformed, TypeOK, Offer
<1>2. \A d \in Currencies : balance[d][Market] \in Nat
  BY <1>1, AddressFacts DEF TypeOK
<1>3. \A P \in Pools : PoolBacked(P)
  BY <1>1, SolventIsPools
<1>4. ASSUME NEW c \in Currencies
      PROVE  /\ {c} \in Pools
             /\ Held({c}) = balance[c][Market]
             /\ ValueIn({c})[<<l, o>>] = (IF offer.currency = c THEN offer.value ELSE 0)
             /\ ValueIn({c})[<<l, o>>] <= Total(ValueIn({c}))
             /\ Total(ValueIn({c})) \in Nat
  <2>1. {c} \in Pools
    BY DEF Pools
  <2>2. HeldIn({c}) \in [{c} -> Nat] /\ HeldIn({c})[c] = balance[c][Market]
    BY <1>1, <2>1, TotalsTyped DEF HeldIn
  <2>3. Held({c}) = balance[c][Market]
    BY <2>2, TotalSingle DEF Held
  <2>4. ValueIn({c}) \in [Slots -> Nat] /\ Total(ValueIn({c})) \in Nat
    BY <1>1, <2>1, TotalsTyped
  <2>5. ValueIn({c})[<<l, o>>] <= Total(ValueIn({c}))
    BY <1>1, <2>4, FiniteFacts, TotalAtLeast
  <2>6. QED
    BY <1>1, <2>1, <2>3, <2>4, <2>5 DEF ValueIn
<1>5. ASSUME NEW c \in Currencies, c # OriginToken
      PROVE  balance[c][Market] >= (IF offer.currency = c THEN offer.value ELSE 0)
  <2>1. Owed({c}) = Total(ValueIn({c}))
    <3>1. {c} # DepositTokens
      <4>1. c \notin DepositTokens
        BY <1>5
      <4>2. QED
        BY <4>1
    <3>2. Owed({c}) = Total(ValueIn({c})) + 0
      BY <3>1 DEF Owed
    <3>3. Total(ValueIn({c})) \in Nat
      BY <1>4
    <3>4. Total(ValueIn({c})) + 0 = Total(ValueIn({c}))
      <4>1. \A n \in Nat : n + 0 = n
        OBVIOUS
      <4>2. QED
        BY ONLY <3>3, <4>1
    <3>5. QED
      BY ONLY <3>2, <3>4
  <2>2. balance[c][Market] >= Total(ValueIn({c}))
    BY <1>3, <1>4, <2>1 DEF PoolBacked, Backed
  <2>3. PICK x : x = (IF offer.currency = c THEN offer.value ELSE 0)
    OBVIOUS
  <2>4. /\ x \in Nat /\ x <= Total(ValueIn({c})) /\ Total(ValueIn({c})) \in Nat
        /\ balance[c][Market] \in Nat
    BY <1>1, <1>2, <1>4, <2>3
  <2>5. QED
    BY <2>2, <2>3, <2>4
<1>6. balance[OriginToken][Market] >=
        (IF offer.currency = OriginToken THEN offer.value ELSE 0)
            + (IF Agreed(<<l, o>>) THEN offer.commission ELSE 0)
  <2> DEFINE c == OriginToken
             val == Total(ValueIn({c}))
  <2>1. Owed({c}) = Total(ValueIn({c})) + Total(deposit) + Total(ReservedCommission)
    <3>1. {c} = DepositTokens
      OBVIOUS
    <3>2. Owed({c}) = Total(ValueIn({c})) + (Total(deposit) + Total(ReservedCommission))
      BY <3>1 DEF Owed
    <3>3. /\ Total(deposit) \in Nat /\ Total(ReservedCommission) \in Nat
          /\ Total(ValueIn({c})) \in Nat
      BY <1>1, <1>4, TotalsTyped
    <3>4. QED
      BY <3>2, <3>3
  <2>2. /\ Total(deposit) \in Nat /\ Total(ReservedCommission) \in Nat
        /\ ReservedCommission \in [Slots -> Nat]
    BY <1>1, <1>4, TotalsTyped
  <2>3. ReservedCommission[<<l, o>>] <= Total(ReservedCommission)
    BY <1>1, <2>2, FiniteFacts, TotalAtLeast
  <2>4. ReservedCommission[<<l, o>>] = IF Agreed(<<l, o>>) THEN offer.commission ELSE 0
    BY <1>1 DEF ReservedCommission
  <2>5. balance[c][Market] >= Owed({c})
    BY <1>1, <1>3, <1>4 DEF PoolBacked, Backed
  <2>6. PICK x : x = (IF offer.currency = OriginToken THEN offer.value ELSE 0)
    OBVIOUS
  <2>7. PICK y : y = (IF Agreed(<<l, o>>) THEN offer.commission ELSE 0)
    OBVIOUS
  <2>8. /\ x \in Nat /\ y \in Nat /\ balance[OriginToken][Market] \in Nat
        /\ x <= Total(ValueIn({OriginToken})) /\ Total(ValueIn({OriginToken})) \in Nat
    BY <1>1, <1>2, <1>4, <2>6, <2>7
  <2>9. balance[OriginToken][Market] >= x + y
    BY <2>1, <2>2, <2>3, <2>4, <2>5, <2>7, <2>8
  <2>10. QED
    BY <2>6, <2>7, <2>9
<1>7. balance[offer.currency][Market] >= offer.value
  <2>1. CASE offer.currency = OriginToken
    BY <1>1, <1>2, <1>6, <2>1
  <2>2. CASE offer.currency # OriginToken
    BY <1>1, <1>5, <2>2
  <2>3. QED
    BY <2>1, <2>2
<1>8. QED
  BY <1>1, <1>2, <1>6, <1>7

\* After the commission of an agreed offer has been paid, or kept, the contract
\* still holds the value.
LEMMA FundedAfterEarning ==
    ASSUME Wellformed, Solvent, DepositTokens = {OriginToken},
           NEW l \in ListingIds, NEW o \in OfferIds, Agreed(<<l, o>>),
           NEW earned \in BOOLEAN, NEW offer, offer = offers[<<l, o>>],
           NEW bal, bal = AfterEarning(offer, earned)
    PROVE  /\ CommissionPaid(offer.affiliate, offer.commission)
           /\ bal \in Balances
           /\ bal[offer.currency][Market] >= offer.value
<1>1. /\ TypeOK /\ offer \in Offer /\ balance \in Balances
      /\ offer.affiliate = Null => offer.commission = 0
  BY OfferFacts DEF Wellformed
<1>2. /\ offer.value \in Nat /\ offer.commission \in Nat
      /\ offer.currency \in Currencies /\ offer.affiliate \in Holders \cup {Null}
      /\ tokenAddr \in Currencies
  BY <1>1, AddressFacts DEF Offer, TypeOK
<1>3. \A d \in Currencies : balance[d][Market] \in Nat
  BY <1>1, AddressFacts DEF Balances
<1>4. /\ balance[offer.currency][Market] >= offer.value
      /\ balance[tokenAddr][Market] >=
            offer.commission + (IF offer.currency = tokenAddr THEN offer.value ELSE 0)
  BY OfferFunded
<1>5. CommissionPaid(offer.affiliate, offer.commission)
  BY <1>2, <1>3, <1>4 DEF CommissionPaid, Covered
<1>6. CASE earned
  <2>1. /\ AfterCommission(offer.affiliate, offer.commission) \in Balances
        /\ \A d \in Currencies :
              AfterCommission(offer.affiliate, offer.commission)[d][Market] =
                  balance[d][Market]
                      - (IF d = tokenAddr /\ offer.affiliate # Market
                         THEN offer.commission ELSE 0)
    BY ONLY <1>1, <1>2, <1>5, CommissionEffect
  <2>2. bal = AfterCommission(offer.affiliate, offer.commission)
    BY <1>6 DEF AfterEarning
  <2>3. bal[offer.currency][Market] = balance[offer.currency][Market]
            - (IF offer.currency = tokenAddr /\ offer.affiliate # Market
               THEN offer.commission ELSE 0)
    BY ONLY <1>2, <2>1, <2>2
  <2>4. balance[offer.currency][Market] \in Nat
    BY <1>2, <1>3
  <2>5. bal[offer.currency][Market] >= offer.value
    BY ONLY <1>2, <1>4, <2>3, <2>4
  <2>6. QED
    BY <1>5, <2>1, <2>2, <2>5
<1>7. CASE ~earned
  BY <1>1, <1>4, <1>5, <1>7 DEF AfterEarning
<1>8. QED
  BY <1>6, <1>7

\* Money that covers a value covers it in two payments.
LEMMA SellerPayable ==
    ASSUME NEW b \in Balances, NEW payee \in Accounts, NEW buyer \in Accounts,
           NEW c \in Currencies, NEW v \in Nat, NEW r \in Nat, r <= v,
           b[c][Market] >= v, {buyer, payee} \subseteq Payable
    PROVE  CanPaySeller(b, payee, buyer, c, v, r)
<1>1. buyer \in Holders /\ buyer # Market /\ b[c][Market] \in Nat
  BY AddressFacts DEF Balances
<1>2. Covered(b, c, Market, r)
  BY <1>1 DEF Covered
<1>3. Move(b, c, Market, buyer, r)[c][Market] = b[c][Market] - r
  BY <1>1, <1>2, PaidOut
<1>4. Covered(Move(b, c, Market, buyer, r), c, Market, v - r)
  BY <1>1, <1>3 DEF Covered
<1>5. QED
  BY <1>2, <1>4 DEF CanPaySeller, CanSend

\* The condition of CanClose with the guards written out; of a disputed offer,
\* every ruling with every refund the contract admits.
Closable(l, o) ==
    LET offer == offers[<<l, o>>] IN
    CASE offer.status = Created  -> WithdrawPossible(offer.buyer, l, o)
      [] offer.status = Accepted -> FinalizePossible(offer.buyer, l, o)
      [] offer.status = Disputed ->
            \A ruling \in Rulings, refund \in 0 .. offer.value :
                RulingPossible(offer.arbitrator, l, o, ruling, refund)

EveryOfferClosable ==
    \A l \in ListingIds, o \in OfferIds :
        (/\ DepositTokens = {OriginToken}
         /\ Live(<<l, o>>)
         /\ Exists(l)
         /\ {offers[<<l, o>>].buyer, seller[l]} \subseteq Payable)
        => Closable(l, o)

LEMMA SolventCloses == Wellformed /\ Solvent => EveryOfferClosable
<1> SUFFICES ASSUME Wellformed, Solvent, DepositTokens = {OriginToken},
                    NEW l \in ListingIds, NEW o \in OfferIds,
                    Live(<<l, o>>), Exists(l),
                    {offers[<<l, o>>].buyer, seller[l]} \subseteq Payable
             PROVE  Closable(l, o)
  BY DEF EveryOfferClosable
<1>1. PICK offer : offer = offers[<<l, o>>]
  OBVIOUS
<1>2. /\ offer \in Offer /\ balance \in Balances
      /\ offer.buyer \in Accounts /\ seller[l] \in Accounts
      /\ offer.refund <= offer.value
  BY <1>1, OfferFacts
<1>3. /\ offer.value \in Nat /\ offer.refund \in Nat /\ offer.currency \in Currencies
      /\ offer.status \in {Created, Accepted, Disputed}
  BY <1>1, <1>2 DEF Offer, Live, Statuses
<1>4. /\ offer.buyer \in Payable /\ seller[l] \in Payable
  BY <1>1
<1>5. ASSUME Agreed(<<l, o>>), NEW earned \in BOOLEAN
      PROVE  /\ CommissionPaid(offer.affiliate, offer.commission)
             /\ AfterEarning(offer, earned) \in Balances
             /\ AfterEarning(offer, earned)[offer.currency][Market] >= offer.value
  BY <1>1, <1>5, FundedAfterEarning
<1>6. CASE offer.status = Created
  <2>1. WithdrawPossible(offer.buyer, l, o)
    BY <1>1, <1>4, <1>6, OfferFunded DEF WithdrawPossible, CanSend, Covered
  <2>2. QED
    BY <1>1, <1>6, <2>1 DEF Closable, Created, Accepted, Disputed
<1>7. CASE offer.status = Accepted
  <2>1. Agreed(<<l, o>>)
    BY <1>1, <1>7 DEF Agreed
  <2>2. CanPaySeller(AfterEarning(offer, TRUE), seller[l], offer.buyer,
                     offer.currency, offer.value, offer.refund)
    BY <1>2, <1>3, <1>4, <1>5, <2>1, SellerPayable
  <2>3. FinalizePossible(offer.buyer, l, o)
    BY <1>1, <1>5, <1>7, <2>1, <2>2 DEF FinalizePossible, MayFinalize
  <2>4. QED
    BY <1>1, <1>7, <2>3 DEF Closable, Created, Accepted, Disputed
<1>8. CASE offer.status = Disputed
  <2>1. Agreed(<<l, o>>)
    BY <1>1, <1>8 DEF Agreed
  <2>2. ASSUME NEW ruling \in Rulings, NEW refund \in 0 .. offer.value
        PROVE  RulingPossible(offer.arbitrator, l, o, ruling, refund)
    <3>1. PICK earned \in BOOLEAN : earned = PaysCommission(ruling)
      <4>1. PaysCommission(ruling) \in BOOLEAN
        BY DEF PaysCommission
      <4>2. QED
        BY <4>1
    <3>2. PICK bal : bal = AfterEarning(offer, earned)
      OBVIOUS
    <3>3. /\ CommissionPaid(offer.affiliate, offer.commission)
          /\ bal \in Balances /\ bal[offer.currency][Market] >= offer.value
      BY <1>5, <2>1, <3>2
    <3>4. refund \in Nat /\ refund <= offer.value
      BY <1>3
    <3>5. CanPaySeller(bal, seller[l], offer.buyer, offer.currency, offer.value, refund)
      BY <1>2, <1>3, <1>4, <3>3, <3>4, SellerPayable
    <3>6. CanSend(bal, offer.currency, offer.buyer, offer.value)
      BY <1>4, <3>3 DEF CanSend, Covered
    <3>7. QED
      BY <1>1, <1>8, <3>1, <3>2, <3>3, <3>4, <3>5, <3>6 DEF RulingPossible
  <2>3. QED
    BY <1>1, <1>8, <2>2 DEF Closable, Created, Accepted, Disputed
<1>9. QED
  BY <1>3, <1>6, <1>7, <1>8

\* No offer is stranded, for any number of listings, offers and accounts and any
\* amounts: while the deposit token is never exchanged, a live offer of a listing
\* that exists, whose parties accept Ether, meets at every moment everything that
\* withdrawOffer or finalize requires of the buyer or executeRuling of the
\* arbitrator, whatever the ruling and the refund (_withdraw .. executeRuling).
THEOREM OffersAlwaysClosable == Spec => []EveryOfferClosable
<1>1. Wellformed /\ Solvent => EveryOfferClosable
  BY SolventCloses
<1>2. QED
  BY <1>1, WellformedAlways, AlwaysSolvent, PTL
=============================================================================
