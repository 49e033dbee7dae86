---------------------------- MODULE EscrowProofs ----------------------------
(***************************************************************************)
(* The contract implements the escrow agent of Escrow.tla in Ether, and    *)
(* what its steps may never do to an offer: for every set of accounts,     *)
(* tokens, amounts and bounds.                                             *)
(*                                                                         *)
(* The abstract variables are named here as MCMarketplace maps them, each  *)
(* step is described slot by slot and wallet by wallet, and the abstract   *)
(* action follows from the description.                                    *)
(***************************************************************************)
EXTENDS MarketplaceProofs, MCMarketplace

Phase  == [s \in Slots |-> PhaseOf(s)]
Pot    == ValueIn({ETH})
Payer  == [s \in Slots |-> offers[s].buyer]
Payee  == [s \in Slots |-> seller[s[1]]]
Wallet == [a \in Accounts |-> balance[ETH][a]]

\* The Ether an offer holds, or that comes with a payment in its currency.
Ether(currency, v) == IF currency = ETH THEN v ELSE 0

\* Nobody is the seller of a listing that has not been created.
Unlisted == \A l \in ListingIds : ~Exists(l) => seller[l] = Null

EInv == Wellformed /\ Unlisted

-----------------------------------------------------------------------------
(* What payments do to the Ether of an account *)

LEMMA MoveHolders ==
    ASSUME NEW b \in Balances, NEW c \in Currencies,
           NEW from \in Holders, NEW to \in Holders, NEW v \in Nat,
           Covered(b, c, from, v)
    PROVE  /\ Move(b, c, from, to, v) \in Balances
           /\ \A h \in Holders : Move(b, c, from, to, v)[ETH][h] =
                b[ETH][h] + (IF to = h THEN Ether(c, v) ELSE 0)
                          - (IF from = h THEN Ether(c, v) ELSE 0)
<1> DEFINE less == [b[c] EXCEPT ![from] = b[c][from] - v]
           more == [less EXCEPT ![to] = less[to] + v]
<1>1. b[c] \in [Holders -> Nat] /\ b[c][from] - v \in Nat
  BY DEF Balances, Covered
<1>2. /\ less \in [Holders -> Nat]
      /\ \A h \in Holders : less[h] = b[c][h] - (IF from = h THEN v ELSE 0)
  BY <1>1
<1> HIDE DEF less
<1>3. /\ more \in [Holders -> Nat]
      /\ \A h \in Holders : more[h] = less[h] + (IF to = h THEN v ELSE 0)
  BY <1>2
<1>4. Move(b, c, from, to, v) = [b EXCEPT ![c] = more]
  BY DEF Move, less
<1> HIDE DEF more
<1>5. [b EXCEPT ![c] = more] \in Balances
  BY <1>3 DEF Balances
<1>6. ASSUME NEW h \in Holders
      PROVE  [b EXCEPT ![c] = more][ETH][h] =
                b[ETH][h] + (IF to = h THEN Ether(c, v) ELSE 0)
                          - (IF from = h THEN Ether(c, v) ELSE 0)
  <2>1. ETH \in Currencies /\ b[ETH][h] \in Nat
    BY AddressFacts DEF Balances
  <2>2. CASE c = ETH
    <3>1. [b EXCEPT ![c] = more][ETH] = more /\ Ether(c, v) = v
      BY <2>1, <2>2 DEF Balances, Ether
    <3>2. more[h] = less[h] + (IF to = h THEN v ELSE 0)
      BY <1>3
    <3>3. less[h] = b[ETH][h] - (IF from = h THEN v ELSE 0)
      BY <1>2, <2>2
    <3> QED
      BY ONLY <2>1, <3>1, <3>2, <3>3, v \in Nat
  <2>3. CASE c # ETH
    <3>1. [b EXCEPT ![c] = more][ETH] = b[ETH] /\ Ether(c, v) = 0
      BY <2>1, <2>3 DEF Balances, Ether
    <3> QED
      BY ONLY <2>1, <3>1
  <2> QED
    BY <2>2, <2>3
<1> QED
  BY <1>4, <1>5, <1>6

\* Every account keeps its Ether.
EtherKept(b) == \A a \in Accounts : b[ETH][a] = balance[ETH][a]

LEMMA TokenMoveKeepsEther ==
    ASSUME TypeOK, NEW from \in Holders, NEW to \in Holders, NEW v \in Nat,
           Covered(balance, tokenAddr, from, v)
    PROVE  /\ Move(balance, tokenAddr, from, to, v) \in Balances
           /\ EtherKept(Move(balance, tokenAddr, from, to, v))
<1>1. balance \in Balances /\ tokenAddr \in Currencies /\ tokenAddr # ETH
  BY AddressFacts, AddressAssumption DEF TypeOK, Balances
<1>2. /\ Move(balance, tokenAddr, from, to, v) \in Balances
      /\ \A h \in Holders : Move(balance, tokenAddr, from, to, v)[ETH][h] =
            balance[ETH][h] + (IF to = h THEN Ether(tokenAddr, v) ELSE 0)
                            - (IF from = h THEN Ether(tokenAddr, v) ELSE 0)
  BY <1>1, MoveHolders
<1>3. Ether(tokenAddr, v) = 0
  BY <1>1 DEF Ether
<1>4. \A h \in Holders : balance[ETH][h] \in Nat
  BY <1>1, AddressFacts DEF Balances
<1> QED
  BY <1>2, <1>3, <1>4, AddressFacts DEF EtherKept

LEMMA CommissionKeepsEther ==
    ASSUME TypeOK, NEW affiliate \in Holders \cup {Null}, NEW v \in Nat,
           CommissionPaid(affiliate, v)
    PROVE  AfterCommission(affiliate, v) \in Balances /\ EtherKept(AfterCommission(affiliate, v))
<1>1. CASE affiliate = Null
  BY <1>1 DEF AfterCommission, EtherKept, TypeOK, Balances
<1>2. CASE affiliate # Null
  <2>1. affiliate \in Holders /\ Covered(balance, tokenAddr, Market, v) /\ Market \in Holders
    BY <1>2, AddressFacts DEF CommissionPaid
  <2>2. AfterCommission(affiliate, v) = Move(balance, tokenAddr, Market, affiliate, v)
    BY <1>2 DEF AfterCommission
  <2> QED
    BY <2>1, <2>2, TokenMoveKeepsEther
<1> QED
  BY <1>1, <1>2

\* Of the value in the pot, "back" goes to the buyer and the rest to the payee.
Shared(b, buyer, payee, pot, back) ==
    \A a \in Accounts :
        balance'[ETH][a] = b[ETH][a] + (IF a = buyer THEN back ELSE 0)
                                     + (IF a = payee THEN pot - back ELSE 0)

LEMMA RefundBuyerShares ==
    ASSUME NEW b \in Balances, NEW buyer \in Accounts, NEW payee \in Accounts,
           NEW c \in Currencies, NEW v \in Nat, RefundBuyer(b, buyer, c, v)
    PROVE  Shared(b, buyer, payee, Ether(c, v), Ether(c, v))
<1>1. /\ Market \in Holders /\ buyer \in Holders /\ Market \notin Accounts
      /\ Covered(b, c, Market, v) /\ balance' = Move(b, c, Market, buyer, v)
  BY AddressFacts DEF RefundBuyer, CanSend
<1>2. \A h \in Holders : Move(b, c, Market, buyer, v)[ETH][h] =
            b[ETH][h] + (IF buyer = h THEN Ether(c, v) ELSE 0)
                      - (IF Market = h THEN Ether(c, v) ELSE 0)
  BY <1>1, MoveHolders
<1>3. Ether(c, v) \in Nat
  BY DEF Ether
<1> SUFFICES ASSUME NEW a \in Accounts
             PROVE  balance'[ETH][a] = b[ETH][a] + (IF a = buyer THEN Ether(c, v) ELSE 0)
                        + (IF a = payee THEN Ether(c, v) - Ether(c, v) ELSE 0)
  BY DEF Shared
<1>4. a \in Holders /\ a # Market /\ b[ETH][a] \in Nat
  BY <1>1, AddressFacts DEF Balances
<1>5. balance'[ETH][a] = b[ETH][a] + (IF buyer = a THEN Ether(c, v) ELSE 0)
                            - (IF Market = a THEN Ether(c, v) ELSE 0)
  BY <1>1, <1>2, <1>4
<1> QED
  BY ONLY <1>3, <1>4, <1>5

LEMMA PaySellerShares ==
    ASSUME NEW b \in Balances, NEW payee \in Accounts, NEW buyer \in Accounts,
           NEW c \in Currencies, NEW v \in Nat, NEW r \in Nat,
           PaySeller(b, payee, buyer, c, v, r)
    PROVE  Shared(b, buyer, payee, Ether(c, v), Ether(c, r))
<1> DEFINE mid == Move(b, c, Market, buyer, r)
<1>1. /\ Market \in Holders /\ buyer \in Holders /\ payee \in Holders
      /\ Market \notin Accounts
  BY AddressFacts
<1>2. PICK w \in Nat : w = v - r
  BY DEF PaySeller
<1>3. /\ Covered(b, c, Market, r) /\ Covered(mid, c, Market, w)
      /\ balance' = Move(mid, c, Market, payee, w)
  BY <1>2 DEF PaySeller, CanSend
<1>4. /\ mid \in Balances
      /\ \A h \in Holders : mid[ETH][h] =
            b[ETH][h] + (IF buyer = h THEN Ether(c, r) ELSE 0)
                      - (IF Market = h THEN Ether(c, r) ELSE 0)
  BY <1>1, <1>3, MoveHolders
<1> HIDE DEF mid
<1>5. \A h \in Holders : balance'[ETH][h] =
            mid[ETH][h] + (IF payee = h THEN Ether(c, w) ELSE 0)
                        - (IF Market = h THEN Ether(c, w) ELSE 0)
  <2>1. \A h \in Holders : Move(mid, c, Market, payee, w)[ETH][h] =
            mid[ETH][h] + (IF payee = h THEN Ether(c, w) ELSE 0)
                        - (IF Market = h THEN Ether(c, w) ELSE 0)
    BY ONLY <1>1, <1>2, <1>3, <1>4, c \in Currencies, MoveHolders
  <2> QED
    BY <1>3, <2>1
<1>6. /\ Ether(c, r) \in Nat /\ Ether(c, w) \in Nat
      /\ Ether(c, w) = Ether(c, v) - Ether(c, r)
  BY <1>2 DEF Ether
<1> SUFFICES ASSUME NEW a \in Accounts
             PROVE  balance'[ETH][a] = b[ETH][a] + (IF a = buyer THEN Ether(c, r) ELSE 0)
                        + (IF a = payee THEN Ether(c, v) - Ether(c, r) ELSE 0)
  BY DEF Shared
<1>7. a \in Holders /\ a # Market /\ b[ETH][a] \in Nat
  BY <1>1, AddressFacts DEF Balances
<1>8. /\ mid[ETH][a] = b[ETH][a] + (IF buyer = a THEN Ether(c, r) ELSE 0)
                            - (IF Market = a THEN Ether(c, r) ELSE 0)
      /\ balance'[ETH][a] = mid[ETH][a] + (IF payee = a THEN Ether(c, w) ELSE 0)
                            - (IF Market = a THEN Ether(c, w) ELSE 0)
  BY <1>4, <1>5, <1>7
<1> QED
  BY ONLY <1>6, <1>7, <1>8

-----------------------------------------------------------------------------
(* The abstract state, slot by slot *)

LEMMA Views ==
    ASSUME TypeOK, NEW s \in Slots
    PROVE  /\ Phase[s] = PhaseOf(s) /\ Pot[s] = Ether(offers[s].currency, offers[s].value)
           /\ Payer[s] = offers[s].buyer /\ Payee[s] = seller[s[1]]
           /\ Pot[s] \in Nat
<1>1. offers[s] \in Offer
  BY DEF TypeOK
<1> QED
  BY <1>1 DEF Phase, Pot, Payer, Payee, ValueIn, Ether, Offer

LEMMA WalletType ==
    ASSUME TypeOK
    PROVE  Wallet \in [Accounts -> Nat] /\ \A a \in Accounts : Wallet[a] = balance[ETH][a]
BY AddressFacts DEF TypeOK, Wallet

LEMMA NextWalletType ==
    ASSUME TypeOK'
    PROVE  Wallet' \in [Accounts -> Nat] /\ \A a \in Accounts : Wallet'[a] = balance'[ETH][a]
BY AddressFacts DEF TypeOK, Wallet

\* The status of a live offer is its phase; a slot without one is empty or settled.
LEMMA Phases ==
    ASSUME NEW s \in Slots
    PROVE  /\ offers[s].status = Created  => PhaseOf(s) = "offered"
           /\ offers[s].status = Accepted => PhaseOf(s) = "agreed"
           /\ offers[s].status = Disputed => PhaseOf(s) = "contested"
           /\ offers[s].status = Undefined =>
                PhaseOf(s) = IF s[2] < numOffers[s[1]] THEN "settled" ELSE "empty"
BY DEF PhaseOf, Created, Accepted, Disputed, Undefined

LEMMA NextPhases ==
    ASSUME NEW s \in Slots
    PROVE  /\ offers'[s].status = Created  => PhaseOf(s)' = "offered"
           /\ offers'[s].status = Accepted => PhaseOf(s)' = "agreed"
           /\ offers'[s].status = Disputed => PhaseOf(s)' = "contested"
BY DEF PhaseOf, Created, Accepted, Disputed

LEMMA SamePhase ==
    ASSUME NEW s \in Slots, offers'[s].status = offers[s].status,
           s[2] < numOffers'[s[1]] <=> s[2] < numOffers[s[1]]
    PROVE  PhaseOf(s)' = PhaseOf(s)
BY DEF PhaseOf

\* The other slots, when one offer is stored.
LEMMA OtherSlots ==
    ASSUME TypeOK, TypeOK', NEW s \in Slots, NEW new,
           offers' = [offers EXCEPT ![s] = new],
           UNCHANGED <<numOffers, seller>>
    PROVE  /\ offers'[s] = new
           /\ \A t \in Slots \ {s} : Phase'[t] = Phase[t] /\ Pot'[t] = Pot[t]
                                                          /\ Payer'[t] = Payer[t]
           /\ Payee' = Payee
<1>1. offers'[s] = new /\ \A t \in Slots \ {s} : offers'[t] = offers[t]
  BY DEF TypeOK
<1>2. ASSUME NEW t \in Slots \ {s}
      PROVE  Phase'[t] = Phase[t] /\ Pot'[t] = Pot[t] /\ Payer'[t] = Payer[t]
  <2>1. PhaseOf(t)' = PhaseOf(t)
    BY <1>1, SamePhase
  <2> QED
    BY <1>1, <2>1 DEF Phase, Pot, Payer, ValueIn
<1>3. Payee' = Payee
  BY DEF Payee
<1> QED
  BY <1>1, <1>2, <1>3

\* A function that changes at one point.
LEMMA OnePoint ==
    ASSUME NEW D, NEW f, NEW g, f = [d \in D |-> f[d]], g = [d \in D |-> g[d]],
           NEW e \in D, \A d \in D \ {e} : g[d] = f[d]
    PROVE  g = [f EXCEPT ![e] = g[e]]
OBVIOUS

LEMMA ViewsAreFunctions ==
    /\ Phase = [s \in Slots |-> Phase[s]] /\ Phase' = [s \in Slots |-> Phase'[s]]
    /\ Pot = [s \in Slots |-> Pot[s]] /\ Pot' = [s \in Slots |-> Pot'[s]]
    /\ Payer = [s \in Slots |-> Payer[s]] /\ Payer' = [s \in Slots |-> Payer'[s]]
BY DEF Phase, Pot, Payer, ValueIn

\* Nothing abstract changes.
LEMMA AbstractStutter ==
    ASSUME Phase' = Phase, Pot' = Pot, Payer' = Payer, Payee' = Payee, Wallet' = Wallet
    PROVE  UNCHANGED EscrowOfETH!vars
BY DEF Phase, Pot, Payer, Payee, Wallet, EscrowOfETH!vars

LEMMA OtherVariables ==
    ASSUME TypeOK, UNCHANGED <<offers, numOffers, seller>>, EtherKept(balance')
    PROVE  [EscrowOfETH!Next]_(EscrowOfETH!vars)
<1>1. Phase' = Phase
  BY DEF Phase, PhaseOf
<1>2. Pot' = Pot /\ Payer' = Payer /\ Payee' = Payee
  BY DEF Pot, ValueIn, Payer, Payee
<1>3. Wallet' = Wallet
  BY DEF Wallet, EtherKept
<1> QED
  BY <1>1, <1>2, <1>3, AbstractStutter

-----------------------------------------------------------------------------
(* The abstract actions, from the descriptions of the steps *)

LEMMA OpenFrom ==
    ASSUME NEW s \in Slots, NEW a \in Accounts, NEW v \in Nat,
           Phase[s] = "empty", Wallet[a] >= v,
           Phase' = [Phase EXCEPT ![s] = "offered"],
           Pot' = [Pot EXCEPT ![s] = v],
           Payer' = [Payer EXCEPT ![s] = a],
           Wallet' = [Wallet EXCEPT ![a] = @ - v], Payee' = Payee
    PROVE  EscrowOfETH!Open(s, a, v)
BY DEF Phase, Pot, Payer, Payee, Wallet, EscrowOfETH!Open

LEMMA AgreeFrom ==
    ASSUME NEW s \in Slots, Phase[s] = "offered", Payee[s] # Null,
           Phase' = [Phase EXCEPT ![s] = "agreed"],
           Pot' = Pot, Payer' = Payer, Payee' = Payee, Wallet' = Wallet
    PROVE  EscrowOfETH!Agree(s)
BY DEF Phase, Pot, Payer, Payee, Wallet, EscrowOfETH!Agree

LEMMA RaiseFrom ==
    ASSUME NEW s \in Slots, NEW v \in Nat, Phase[s] = "agreed", Wallet[Payer[s]] >= v,
           Pot' = [Pot EXCEPT ![s] = @ + v],
           Wallet' = [Wallet EXCEPT ![Payer[s]] = @ - v],
           Phase' = Phase, Payer' = Payer, Payee' = Payee
    PROVE  EscrowOfETH!Raise(s, v)
BY DEF Phase, Pot, Payer, Payee, Wallet, EscrowOfETH!Raise

LEMMA ContestFrom ==
    ASSUME NEW s \in Slots, Phase[s] = "agreed",
           Phase' = [Phase EXCEPT ![s] = "contested"],
           Pot' = Pot, Payer' = Payer, Payee' = Payee, Wallet' = Wallet
    PROVE  EscrowOfETH!Contest(s)
BY DEF Phase, Pot, Payer, Payee, Wallet, EscrowOfETH!Contest

LEMMA SettleFrom ==
    ASSUME NEW s \in Slots, NEW back \in Nat,
           \/ Phase[s] = "offered" /\ back = Pot[s]
           \/ Phase[s] \in {"agreed", "contested"},
           Phase' = [Phase EXCEPT ![s] = "settled"],
           Pot' = [Pot EXCEPT ![s] = 0],
           Payer' = [Payer EXCEPT ![s] = Null],
           Wallet' = [[Wallet EXCEPT ![Payer[s]] = @ + back]
                        EXCEPT ![Payee[s]] = @ + (Pot[s] - back)],
           Payee' = Payee
    PROVE  EscrowOfETH!Settle(s, back)
BY DEF Phase, Pot, Payer, Payee, Wallet, EscrowOfETH!Settle

LEMMA AppearFrom ==
    ASSUME NEW S \in SUBSET Slots, NEW a \in Accounts,
           \A s \in S : Payee[s] = Null,
           Payee' = [s \in Slots |-> IF s \in S THEN a ELSE Payee[s]],
           Phase' = Phase, Pot' = Pot, Payer' = Payer, Wallet' = Wallet
    PROVE  EscrowOfETH!Appear(S, a)
BY DEF Phase, Pot, Payer, Payee, Wallet, EscrowOfETH!Appear

-----------------------------------------------------------------------------
(* The steps of the contract *)

\* The Ether of an offer that is being closed is shared by its parties.
LEMMA ClosingShares ==
    ASSUME Wellformed, NEW l \in ListingIds, NEW o \in OfferIds,
           Exists(l), Live(<<l, o>>), NEW earned \in BOOLEAN, NEW r \in Nat,
           NEW offer, offer = offers[<<l, o>>],
           earned => CommissionPaid(offer.affiliate, offer.commission),
           NEW bal, bal = IF earned
                          THEN AfterCommission(offer.affiliate, offer.commission)
                          ELSE balance,
           \/ RefundBuyer(bal, offer.buyer, offer.currency, offer.value)
           \/ PaySeller(bal, seller[l], offer.buyer, offer.currency, offer.value, r)
    PROVE  \E back \in 0 .. Ether(offer.currency, offer.value) :
                Shared(balance, offer.buyer, seller[l],
                       Ether(offer.currency, offer.value), back)
<1> DEFINE pot == Ether(offer.currency, offer.value)
<1>1. /\ offer \in Offer /\ balance \in Balances
      /\ offer.buyer \in Accounts /\ seller[l] \in Accounts
  BY OfferFacts
<1>2. /\ offer.value \in Nat /\ offer.commission \in Nat
      /\ offer.currency \in Currencies /\ offer.affiliate \in Holders \cup {Null}
  BY <1>1, AddressFacts DEF Offer
<1>3. bal \in Balances /\ EtherKept(bal)
  <2>1. CASE earned
    BY <1>2, <2>1, CommissionKeepsEther DEF Wellformed
  <2>2. CASE ~earned
    BY <1>1, <2>2 DEF EtherKept
  <2> QED
    BY <2>1, <2>2
<1>4. \A back : Shared(bal, offer.buyer, seller[l], pot, back) =>
                    Shared(balance, offer.buyer, seller[l], pot, back)
  BY <1>3 DEF Shared, EtherKept
<1>5. pot \in Nat
  BY <1>2 DEF Ether
<1>6. CASE RefundBuyer(bal, offer.buyer, offer.currency, offer.value)
  <2>1. Shared(bal, offer.buyer, seller[l], pot, pot)
    BY <1>1, <1>2, <1>3, <1>6, RefundBuyerShares
  <2>2. pot \in 0 .. pot
    BY <1>5
  <2> QED
    BY <1>4, <2>1, <2>2
<1>7. CASE PaySeller(bal, seller[l], offer.buyer, offer.currency, offer.value, r)
  <2>1. Shared(bal, offer.buyer, seller[l], pot, Ether(offer.currency, r))
    BY <1>1, <1>2, <1>3, <1>7, PaySellerShares
  <2>2. Ether(offer.currency, r) \in 0 .. pot
    BY <1>2, <1>7 DEF PaySeller, Ether
  <2> QED
    BY <1>4, <2>1, <2>2
<1> QED
  BY <1>6, <1>7

\* An agreed or contested offer, or one of which everything goes back, is settled.
LEMMA SettleStep ==
    ASSUME Wellformed, TypeOK', NEW l \in ListingIds, NEW o \in OfferIds,
           Exists(l), Live(<<l, o>>),
           offers' = [offers EXCEPT ![<<l, o>>] = NoOffer],
           UNCHANGED <<numOffers, seller>>,
           NEW pot, pot = Ether(offers[<<l, o>>].currency, offers[<<l, o>>].value),
           NEW back \in 0 .. pot,
           offers[<<l, o>>].status = Created => back = pot,
           Shared(balance, offers[<<l, o>>].buyer, seller[l], pot, back)
    PROVE  [EscrowOfETH!Next]_(EscrowOfETH!vars)
<1> DEFINE s == <<l, o>>
<1>1. /\ s \in Slots /\ s[1] = l /\ s[2] = o
      /\ offers[s] \in Offer /\ o < numOffers[l] /\ offers[s].buyer \in Accounts
      /\ seller[l] \in Accounts /\ TypeOK
  BY OfferFacts DEF Wellformed
<1> HIDE DEF s
<1>2. /\ Phase[s] = PhaseOf(s) /\ Pot[s] = pot /\ pot \in Nat
      /\ Payer[s] = offers[s].buyer /\ Payee[s] = seller[l]
  BY <1>1, Views DEF s
<1>3. /\ offers'[s] = NoOffer
      /\ \A t \in Slots \ {s} : Phase'[t] = Phase[t] /\ Pot'[t] = Pot[t]
                                                     /\ Payer'[t] = Payer[t]
      /\ Payee' = Payee
  BY ONLY <1>1, TypeOK', offers' = [offers EXCEPT ![<<l, o>>] = NoOffer],
          UNCHANGED <<numOffers, seller>>, OtherSlots DEF s
<1>4. Phase' = [Phase EXCEPT ![s] = "settled"]
  <2>1. PhaseOf(s)' = "settled"
    BY <1>1, <1>3 DEF PhaseOf, NoOffer, Undefined, Created, Accepted, Disputed
  <2>2. Phase'[s] = "settled"
    BY <1>1, <2>1 DEF Phase
  <2>3. Phase' = [Phase EXCEPT ![s] = Phase'[s]]
    BY ONLY <1>1, <1>3, ViewsAreFunctions, OnePoint
  <2> QED
    BY ONLY <2>2, <2>3
<1>5. Pot' = [Pot EXCEPT ![s] = 0]
  <2>1. Pot'[s] = 0
    BY <1>1, <1>3 DEF Pot, ValueIn, NoOffer
  <2>2. Pot' = [Pot EXCEPT ![s] = Pot'[s]]
    BY ONLY <1>1, <1>3, ViewsAreFunctions, OnePoint
  <2> QED
    BY ONLY <2>1, <2>2
<1>6. Payer' = [Payer EXCEPT ![s] = Null]
  <2>1. Payer'[s] = Null
    BY <1>1, <1>3 DEF Payer, NoOffer
  <2>2. Payer' = [Payer EXCEPT ![s] = Payer'[s]]
    BY ONLY <1>1, <1>3, ViewsAreFunctions, OnePoint
  <2> QED
    BY ONLY <2>1, <2>2
<1>7. Wallet' = [[Wallet EXCEPT ![Payer[s]] = @ + back]
                    EXCEPT ![Payee[s]] = @ + (Pot[s] - back)]
  <2>1. /\ Wallet \in [Accounts -> Nat] /\ \A a \in Accounts : Wallet[a] = balance[ETH][a]
        /\ Wallet' \in [Accounts -> Nat] /\ \A a \in Accounts : Wallet'[a] = balance'[ETH][a]
    BY <1>1, WalletType, NextWalletType
  <2>2. Payer[s] \in Accounts /\ Payee[s] \in Accounts
    BY <1>1, <1>2
  <2>3. \A a \in Accounts :
            Wallet'[a] = Wallet[a] + (IF a = Payer[s] THEN back ELSE 0)
                                   + (IF a = Payee[s] THEN Pot[s] - back ELSE 0)
    BY <1>2, <2>1 DEF Shared, s
  <2>4. PICK w : w = [Wallet EXCEPT ![Payer[s]] = @ + back]
    OBVIOUS
  <2>5. /\ w \in [Accounts -> Nat]
        /\ \A a \in Accounts : w[a] = Wallet[a] + (IF a = Payer[s] THEN back ELSE 0)
    BY <1>2, <2>1, <2>2, <2>4
  <2>6. Wallet' = [w EXCEPT ![Payee[s]] = @ + (Pot[s] - back)]
    BY ONLY <2>1, <2>2, <2>3, <2>5
  <2> QED
    BY <2>4, <2>6
<1>8. \/ Phase[s] = "offered" /\ back = Pot[s]
      \/ Phase[s] \in {"agreed", "contested"}
  <2>1. offers[s].status \in {Created, Accepted, Disputed}
    BY <1>1 DEF Offer, Statuses, Live, s
  <2> QED
    BY <1>1, <1>2, <2>1, Phases DEF s
<1>9. back \in Nat /\ back \in 0 .. Pot[s]
  BY <1>2
<1>10. EscrowOfETH!Settle(s, back)
  BY ONLY <1>1, <1>3, <1>4, <1>5, <1>6, <1>7, <1>8, <1>9, SettleFrom
<1> QED
  BY <1>1, <1>9, <1>10 DEF EscrowOfETH!Next, Pot

\* What the Ether of an offer closed by a step does: its parties share it.
PartiesShare(l, offer) ==
    \E back \in 0 .. Ether(offer.currency, offer.value) :
        /\ Shared(balance, offer.buyer, seller[l], Ether(offer.currency, offer.value), back)
        /\ offer.status = Created => back = Ether(offer.currency, offer.value)

LEMMA FinalizeShares ==
    ASSUME Wellformed, NEW sender \in Accounts, NEW l \in ListingIds,
           NEW o \in OfferIds, Finalize(sender, l, o)
    PROVE  Live(<<l, o>>) /\ PartiesShare(l, offers[<<l, o>>])
<1>1. PICK offer : offer = offers[<<l, o>>]
  OBVIOUS
<1>2. PICK earned \in BOOLEAN : earned <=> sender = offer.buyer
  OBVIOUS
<1>3. PICK bal : bal = IF earned THEN AfterCommission(offer.affiliate, offer.commission)
                       ELSE balance
  OBVIOUS
<1>4. /\ Exists(l) /\ offer.status = Accepted
      /\ earned => CommissionPaid(offer.affiliate, offer.commission)
      /\ PaySeller(bal, seller[l], offer.buyer, offer.currency, offer.value, offer.refund)
  BY <1>1, <1>2, <1>3 DEF Finalize
<1>5. Live(<<l, o>>) /\ offer.refund \in Nat /\ offer.status # Created
  BY <1>1, <1>4, OfferFacts DEF Live, Accepted, Created, Undefined, Offer
<1>6. PICK r \in Nat : r = offer.refund
  BY <1>5
<1>7. \/ RefundBuyer(bal, offer.buyer, offer.currency, offer.value)
      \/ PaySeller(bal, seller[l], offer.buyer, offer.currency, offer.value, r)
  BY <1>4, <1>6
<1>8. \E back \in 0 .. Ether(offer.currency, offer.value) :
            Shared(balance, offer.buyer, seller[l], Ether(offer.currency, offer.value), back)
  BY <1>1, <1>3, <1>4, <1>5, <1>7, ClosingShares
<1> QED
  BY <1>1, <1>5, <1>8 DEF PartiesShare

LEMMA ExecuteRulingShares ==
    ASSUME Wellformed, NEW sender \in Accounts, NEW l \in ListingIds,
           NEW o \in OfferIds, NEW ruling \in Rulings, NEW refund \in Refunds,
           ExecuteRuling(sender, l, o, ruling, refund)
    PROVE  Live(<<l, o>>) /\ PartiesShare(l, offers[<<l, o>>])
<1>1. PICK offer : offer = offers[<<l, o>>]
  OBVIOUS
<1>2. PICK earned \in BOOLEAN : earned <=> PaysCommission(ruling)
  OBVIOUS
<1>3. PICK bal : bal = IF earned THEN AfterCommission(offer.affiliate, offer.commission)
                       ELSE balance
  OBVIOUS
<1>4. /\ Exists(l) /\ offer.status = Disputed
      /\ earned => CommissionPaid(offer.affiliate, offer.commission)
  BY <1>1, <1>2 DEF ExecuteRuling
<1>5. IF ForBuyer(ruling)
      THEN RefundBuyer(bal, offer.buyer, offer.currency, offer.value)
      ELSE PaySeller(bal, seller[l], offer.buyer, offer.currency, offer.value, refund)
  BY <1>1, <1>2, <1>3 DEF ExecuteRuling
<1>6. Live(<<l, o>>) /\ refund \in Nat /\ offer.status # Created
  BY <1>1, <1>4, AmountAssumption DEF Live, Disputed, Created, Undefined
<1>7. \/ RefundBuyer(bal, offer.buyer, offer.currency, offer.value)
      \/ PaySeller(bal, seller[l], offer.buyer, offer.currency, offer.value, refund)
  BY <1>5
<1>8. \E back \in 0 .. Ether(offer.currency, offer.value) :
            Shared(balance, offer.buyer, seller[l], Ether(offer.currency, offer.value), back)
  BY <1>1, <1>3, <1>4, <1>6, <1>7, ClosingShares
<1> QED
  BY <1>1, <1>6, <1>8 DEF PartiesShare

LEMMA WithdrawOfferShares ==
    ASSUME Wellformed, NEW sender \in Accounts, NEW l \in ListingIds,
           NEW o \in OfferIds, WithdrawOffer(sender, l, o)
    PROVE  Live(<<l, o>>) /\ PartiesShare(l, offers[<<l, o>>])
<1>1. PICK offer : offer = offers[<<l, o>>]
  OBVIOUS
<1>2. /\ Exists(l) /\ offer.status = Created
      /\ RefundBuyer(balance, offer.buyer, offer.currency, offer.value)
  BY <1>1 DEF WithdrawOffer
<1>3. Live(<<l, o>>)
  BY <1>1, <1>2 DEF Live, Created, Undefined
<1>4. /\ offer.buyer \in Accounts /\ seller[l] \in Accounts /\ balance \in Balances
      /\ offer.currency \in Currencies /\ offer.value \in Nat
  BY <1>1, <1>2, <1>3, OfferFacts DEF Offer
<1>5. PICK pot \in Nat : pot = Ether(offer.currency, offer.value)
  BY <1>4 DEF Ether
<1>6. Shared(balance, offer.buyer, seller[l], pot, pot) /\ pot \in 0 .. pot
  BY <1>2, <1>4, <1>5, RefundBuyerShares
<1> QED
  BY <1>1, <1>3, <1>5, <1>6 DEF PartiesShare

\* The three ways of closing an offer.
CloseStep(sender, l, o) ==
    \/ WithdrawOffer(sender, l, o)
    \/ Finalize(sender, l, o)
    \/ \E ruling \in Rulings, refund \in Refunds :
            ExecuteRuling(sender, l, o, ruling, refund)

LEMMA CloseSettles ==
    ASSUME Wellformed, TypeOK', NEW sender \in Accounts, NEW l \in ListingIds,
           NEW o \in OfferIds, CloseStep(sender, l, o)
    PROVE  [EscrowOfETH!Next]_(EscrowOfETH!vars)
<1>1. /\ Exists(l) /\ offers' = [offers EXCEPT ![<<l, o>>] = NoOffer]
      /\ UNCHANGED <<numOffers, seller>>
  <2>1. CASE WithdrawOffer(sender, l, o)
    BY <2>1 DEF WithdrawOffer, listingVars
  <2>2. CASE Finalize(sender, l, o)
    BY <2>2 DEF Finalize
  <2>3. CASE \E ruling \in Rulings, refund \in Refunds :
                ExecuteRuling(sender, l, o, ruling, refund)
    BY <2>3 DEF ExecuteRuling
  <2> QED
    BY <2>1, <2>2, <2>3 DEF CloseStep
<1>2. PICK offer : offer = offers[<<l, o>>]
  OBVIOUS
<1>3. Live(<<l, o>>) /\ PartiesShare(l, offer)
  BY <1>2, WithdrawOfferShares, FinalizeShares, ExecuteRulingShares DEF CloseStep
<1>4. PICK back \in 0 .. Ether(offer.currency, offer.value) :
        /\ Shared(balance, offer.buyer, seller[l], Ether(offer.currency, offer.value), back)
        /\ offer.status = Created => back = Ether(offer.currency, offer.value)
  BY <1>3 DEF PartiesShare
<1> QED
  BY <1>1, <1>2, <1>3, <1>4, SettleStep

\* An account pays into the contract.
LEMMA PaymentIn ==
    ASSUME Wellformed, TypeOK', NEW a \in Accounts, NEW c \in Currencies, NEW v \in Nat,
           Covered(balance, c, a, v), balance' = Move(balance, c, a, Market, v)
    PROVE  /\ Ether(c, v) \in Nat /\ Wallet[a] \in Nat /\ Wallet[a] >= Ether(c, v)
           /\ Wallet' = [Wallet EXCEPT ![a] = @ - Ether(c, v)]
<1>1. /\ Market \in Holders /\ a \in Holders /\ Market \notin Accounts
      /\ Accounts \subseteq Holders /\ balance \in Balances /\ TypeOK
  BY AddressFacts DEF Wellformed, TypeOK, Balances
<1>2. \A h \in Holders : Move(balance, c, a, Market, v)[ETH][h] =
            balance[ETH][h] + (IF Market = h THEN Ether(c, v) ELSE 0)
                            - (IF a = h THEN Ether(c, v) ELSE 0)
  BY ONLY <1>1, c \in Currencies, v \in Nat, Covered(balance, c, a, v), MoveHolders
<1>3. /\ Wallet \in [Accounts -> Nat] /\ \A d \in Accounts : Wallet[d] = balance[ETH][d]
      /\ Wallet' \in [Accounts -> Nat] /\ \A d \in Accounts : Wallet'[d] = balance'[ETH][d]
  BY <1>1, WalletType, NextWalletType
<1>4. Ether(c, v) \in Nat
  BY DEF Ether
<1>5. \A d \in Accounts : Wallet'[d] = Wallet[d] - (IF a = d THEN Ether(c, v) ELSE 0)
  <2> SUFFICES ASSUME NEW d \in Accounts
               PROVE  Wallet'[d] = Wallet[d] - (IF a = d THEN Ether(c, v) ELSE 0)
    OBVIOUS
  <2>1. Wallet'[d] = balance[ETH][d] + (IF Market = d THEN Ether(c, v) ELSE 0)
                                     - (IF a = d THEN Ether(c, v) ELSE 0)
    BY <1>1, <1>2, <1>3
  <2>2. Market # d /\ Wallet[d] = balance[ETH][d] /\ Wallet[d] \in Nat
    BY <1>1, <1>3
  <2> QED
    BY ONLY <1>4, <2>1, <2>2
<1>6. Wallet[a] >= Ether(c, v)
  BY <1>1, <1>3 DEF Covered, Ether
<1>7. Wallet' = [Wallet EXCEPT ![a] = @ - Ether(c, v)]
  BY ONLY <1>3, <1>4, <1>5
<1> QED
  BY <1>3, <1>4, <1>6, <1>7

LEMMA MakeOfferOpens ==
    ASSUME Wellformed, TypeOK', NEW sender \in Accounts, NEW l \in ListingIds,
           NEW finalizes \in Windows, NEW affiliate \in Payees \cup {Null},
           NEW commission \in Commissions, NEW value \in Values,
           NEW currency \in Currencies, NEW arbitrator \in Arbitrators,
           MakeOffer(sender, l, finalizes, affiliate, commission, value,
                     currency, arbitrator)
    PROVE  [EscrowOfETH!Next]_(EscrowOfETH!vars)
<1>1. PICK o : o = numOffers[l]
  OBVIOUS
<1>2. PICK new : new = [value |-> value, commission |-> commission, refund |-> 0,
                        currency |-> currency, buyer |-> sender,
                        affiliate |-> affiliate, arbitrator |-> arbitrator,
                        finalizes |-> finalizes, status |-> Created]
  OBVIOUS
<1>3. PICK s : s = <<l, o>>
  OBVIOUS
<1>4. /\ numOffers' = [numOffers EXCEPT ![l] = @ + 1]
      /\ offers' = [offers EXCEPT ![s] = new] /\ seller' = seller
      /\ Covered(balance, currency, sender, value)
      /\ balance' = Move(balance, currency, sender, Market, value)
  BY <1>1, <1>2, <1>3 DEF MakeOffer, listingVars
<1>5. /\ o \in OfferIds /\ o \in Nat /\ s \in Slots /\ s[1] = l /\ s[2] = o
      /\ numOffers \in [ListingIds -> Nat] /\ TypeOK
      /\ offers[s] = NoOffer
  <2>1. numOffers[l] \in OfferIds /\ numOffers \in [ListingIds -> Nat]
    BY BoundAssumption DEF MakeOffer, Wellformed, TypeOK, OfferIds
  <2>2. o >= numOffers[l] /\ o \in OfferIds /\ o \in Nat
    BY <1>1, <2>1
  <2> QED
    BY <1>3, <2>1, <2>2, SlotFacts DEF Wellformed, Allocated
<1>6. /\ offers'[s] = new /\ \A t \in Slots \ {s} : offers'[t] = offers[t]
      /\ new.status = Created /\ new.value = value /\ new.currency = currency
      /\ new.buyer = sender /\ numOffers'[l] = o + 1
      /\ \A k \in ListingIds \ {l} : numOffers'[k] = numOffers[k]
  BY <1>1, <1>2, <1>4, <1>5 DEF TypeOK
<1>7. /\ value \in Nat /\ Ether(currency, value) \in Nat
      /\ Wallet[sender] \in Nat /\ Wallet[sender] >= Ether(currency, value)
      /\ Wallet' = [Wallet EXCEPT ![sender] = @ - Ether(currency, value)]
  BY <1>4, AmountAssumption, PaymentIn
<1>8. Phase[s] = "empty"
  BY <1>1, <1>5 DEF Phase, PhaseOf, NoOffer, Undefined, Created, Accepted, Disputed
<1>9. /\ Phase'[s] = "offered" /\ Pot'[s] = Ether(currency, value) /\ Payer'[s] = sender
  BY <1>5, <1>6, NextPhases DEF Phase, Pot, ValueIn, Ether, Payer
<1>10. ASSUME NEW t \in Slots \ {s}
       PROVE  Phase'[t] = Phase[t] /\ Pot'[t] = Pot[t] /\ Payer'[t] = Payer[t]
  <2>1. t[1] \in ListingIds /\ t[2] \in Nat /\ t = <<t[1], t[2]>>
    BY BoundAssumption DEF Slots, OfferIds
  <2>2. t[2] < numOffers'[t[1]] <=> t[2] < numOffers[t[1]]
    BY ONLY <1>1, <1>3, <1>5, <1>6, <2>1, t # s
  <2>3. offers'[t] = offers[t]
    BY <1>6
  <2>4. PhaseOf(t)' = PhaseOf(t)
    BY <2>2, <2>3, SamePhase
  <2> QED
    BY <2>3, <2>4 DEF Phase, Pot, Payer, ValueIn
<1>11. /\ Phase' = [Phase EXCEPT ![s] = Phase'[s]]
       /\ Pot' = [Pot EXCEPT ![s] = Pot'[s]]
       /\ Payer' = [Payer EXCEPT ![s] = Payer'[s]]
  BY ONLY <1>5, <1>10, ViewsAreFunctions, OnePoint
<1>12. Payee' = Payee
  BY <1>4 DEF Payee
<1>13. PICK v \in Nat : v = Ether(currency, value)
  BY <1>7
<1>14. EscrowOfETH!Open(s, sender, v)
  BY ONLY sender \in Accounts, <1>5, <1>7, <1>8, <1>9, <1>11, <1>12, <1>13, OpenFrom
<1>15. v \in 0 .. Wallet[sender]
  BY <1>7, <1>13
<1> QED
  BY <1>5, <1>14, <1>15 DEF EscrowOfETH!Next, Wallet

\* An offer is stored again with the money and the buyer it had.
LEMMA TermsStored ==
    ASSUME TypeOK, TypeOK', NEW s \in Slots, NEW new,
           offers' = [offers EXCEPT ![s] = new],
           UNCHANGED <<numOffers, seller, balance>>,
           new.value = offers[s].value, new.currency = offers[s].currency,
           new.buyer = offers[s].buyer
    PROVE  /\ offers'[s] = new
           /\ Phase' = [Phase EXCEPT ![s] = PhaseOf(s)']
           /\ Pot' = Pot /\ Payer' = Payer /\ Payee' = Payee /\ Wallet' = Wallet
<1>1. /\ offers'[s] = new
      /\ \A t \in Slots \ {s} : Phase'[t] = Phase[t] /\ Pot'[t] = Pot[t]
                                                     /\ Payer'[t] = Payer[t]
      /\ Payee' = Payee
  BY OtherSlots
<1>2. Phase'[s] = PhaseOf(s)' /\ Pot'[s] = Pot[s] /\ Payer'[s] = Payer[s]
  BY <1>1 DEF Phase, Pot, ValueIn, Payer
<1>3. \A t \in Slots : Pot'[t] = Pot[t] /\ Payer'[t] = Payer[t]
  BY <1>1, <1>2
<1>4. Pot' = Pot
  BY ONLY <1>3, ViewsAreFunctions
<1>5. Payer' = Payer
  BY ONLY <1>3, ViewsAreFunctions
<1>6. Phase' = [Phase EXCEPT ![s] = Phase'[s]]
  BY ONLY <1>1, s \in Slots, ViewsAreFunctions, OnePoint
<1>7. Phase' = [Phase EXCEPT ![s] = PhaseOf(s)']
  BY ONLY <1>2, <1>6
<1>8. Wallet' = Wallet
  BY DEF Wallet
<1> QED
  BY <1>1, <1>4, <1>5, <1>7, <1>8

\* An accepted offer: the payee agrees.
LEMMA AcceptOfferAgrees ==
    ASSUME Wellformed, TypeOK', NEW sender \in Accounts, NEW l \in ListingIds,
           NEW o \in OfferIds, AcceptOffer(sender, l, o)
    PROVE  [EscrowOfETH!Next]_(EscrowOfETH!vars)
<1>1. PICK s : s = <<l, o>>
  OBVIOUS
<1>2. PICK new : new = [offers[s] EXCEPT !.finalizes = WindowEnd(offers[s].finalizes),
                                         !.status = Accepted]
  OBVIOUS
<1>3. s \in Slots /\ s[1] = l /\ offers[s] \in Offer /\ TypeOK
  BY <1>1, OfferFacts DEF Wellformed
<1>4. /\ Exists(l) /\ offers[s].status = Created
      /\ offers' = [offers EXCEPT ![s] = new]
      /\ UNCHANGED <<numOffers, seller, balance>>
  BY <1>1, <1>2, <1>3 DEF AcceptOffer, TypeOK
<1>5. /\ new.status = Accepted /\ new.value = offers[s].value
      /\ new.currency = offers[s].currency /\ new.buyer = offers[s].buyer
  BY <1>2, <1>3 DEF Offer
<1>6. /\ offers'[s] = new
      /\ Phase' = [Phase EXCEPT ![s] = PhaseOf(s)']
      /\ Pot' = Pot /\ Payer' = Payer /\ Payee' = Payee /\ Wallet' = Wallet
  BY ONLY <1>3, <1>4, <1>5, TypeOK', TermsStored
<1>7. PhaseOf(s)' = "agreed"
  BY <1>3, <1>5, <1>6, NextPhases
<1>8. Phase[s] = "offered" /\ Payee[s] # Null
  <2>1. Phase[s] = "offered"
    BY <1>3, <1>4, Phases DEF Phase
  <2>2. seller[l] \in Accounts /\ Payee[s] = seller[l]
    BY <1>3, <1>4, OfferFacts DEF Payee
  <2> QED
    BY <2>1, <2>2, AddressFacts
<1>9. EscrowOfETH!Agree(s)
  BY ONLY <1>3, <1>6, <1>7, <1>8, AgreeFrom
<1> QED
  BY <1>3, <1>9 DEF EscrowOfETH!Next

LEMMA DisputeContests ==
    ASSUME Wellformed, TypeOK', NEW sender \in Accounts, NEW l \in ListingIds,
           NEW o \in OfferIds, Dispute(sender, l, o)
    PROVE  [EscrowOfETH!Next]_(EscrowOfETH!vars)
<1>1. PICK s : s = <<l, o>>
  OBVIOUS
<1>2. PICK new : new = [offers[s] EXCEPT !.status = Disputed]
  OBVIOUS
<1>3. s \in Slots /\ offers[s] \in Offer /\ TypeOK
  BY <1>1, OfferFacts DEF Wellformed
<1>4. /\ offers[s].status = Accepted /\ offers' = [offers EXCEPT ![s] = new]
      /\ UNCHANGED <<numOffers, seller, balance>>
  BY <1>1, <1>2, <1>3 DEF Dispute, listingVars, TypeOK
<1>5. /\ new.status = Disputed /\ new.value = offers[s].value
      /\ new.currency = offers[s].currency /\ new.buyer = offers[s].buyer
  BY <1>2, <1>3 DEF Offer
<1>6. /\ offers'[s] = new
      /\ Phase' = [Phase EXCEPT ![s] = PhaseOf(s)']
      /\ Pot' = Pot /\ Payer' = Payer /\ Payee' = Payee /\ Wallet' = Wallet
  BY ONLY <1>3, <1>4, <1>5, TypeOK', TermsStored
<1>7. PhaseOf(s)' = "contested"
  BY <1>3, <1>5, <1>6, NextPhases
<1>8. Phase[s] = "agreed"
  BY <1>3, <1>4, Phases DEF Phase
<1>9. EscrowOfETH!Contest(s)
  BY ONLY <1>3, <1>6, <1>7, <1>8, ContestFrom
<1> QED
  BY <1>3, <1>9 DEF EscrowOfETH!Next

LEMMA UpdateRefundStutters ==
    ASSUME Wellformed, TypeOK', NEW sender \in Accounts, NEW l \in ListingIds,
           NEW o \in OfferIds, NEW refund \in Refunds,
           UpdateRefund(sender, l, o, refund)
    PROVE  [EscrowOfETH!Next]_(EscrowOfETH!vars)
<1>1. PICK s : s = <<l, o>>
  OBVIOUS
<1>2. PICK new : new = [offers[s] EXCEPT !.refund = refund]
  OBVIOUS
<1>3. s \in Slots /\ offers[s] \in Offer /\ TypeOK
  BY <1>1, OfferFacts DEF Wellformed
<1>4. /\ offers' = [offers EXCEPT ![s] = new]
      /\ UNCHANGED <<numOffers, seller, balance>>
  BY <1>1, <1>2, <1>3 DEF UpdateRefund, listingVars, TypeOK
<1>5. /\ new.status = offers[s].status /\ new.value = offers[s].value
      /\ new.currency = offers[s].currency /\ new.buyer = offers[s].buyer
  BY <1>2, <1>3 DEF Offer
<1>6. /\ offers'[s] = new
      /\ Phase' = [Phase EXCEPT ![s] = PhaseOf(s)']
      /\ Pot' = Pot /\ Payer' = Payer /\ Payee' = Payee /\ Wallet' = Wallet
  BY ONLY <1>3, <1>4, <1>5, TypeOK', TermsStored
<1>7. PhaseOf(s)' = PhaseOf(s)
  BY <1>3, <1>4, <1>5, <1>6, SamePhase
<1>8. Phase' = [Phase EXCEPT ![s] = PhaseOf(s)]
  BY ONLY <1>6, <1>7
<1>9. Phase' = Phase
  BY <1>3, <1>8 DEF Phase
<1> QED
  BY ONLY <1>6, <1>9, AbstractStutter

LEMMA AddFundsRaises ==
    ASSUME Wellformed, TypeOK', NEW sender \in Accounts, NEW l \in ListingIds,
           NEW o \in OfferIds, NEW value \in Values, AddFunds(sender, l, o, value)
    PROVE  [EscrowOfETH!Next]_(EscrowOfETH!vars)
<1>1. PICK s : s = <<l, o>>
  OBVIOUS
<1>2. PICK new : new = [offers[s] EXCEPT !.value = @ + value]
  OBVIOUS
<1>3. s \in Slots /\ offers[s] \in Offer /\ TypeOK
  BY <1>1, OfferFacts DEF Wellformed
<1>4. /\ offers[s].status = Accepted /\ offers[s].buyer = sender
      /\ offers' = [offers EXCEPT ![s] = new]
      /\ Covered(balance, offers[s].currency, sender, value)
      /\ balance' = Move(balance, offers[s].currency, sender, Market, value)
      /\ UNCHANGED <<numOffers, seller>>
  BY <1>1, <1>2, <1>3 DEF AddFunds, listingVars, TypeOK
<1>5. /\ new.status = offers[s].status /\ new.value = offers[s].value + value
      /\ new.currency = offers[s].currency /\ new.buyer = offers[s].buyer
      /\ offers[s].currency \in Currencies /\ offers[s].value \in Nat
      /\ value \in Nat
  BY <1>2, <1>3, AmountAssumption DEF Offer
<1>6. /\ offers'[s] = new
      /\ \A t \in Slots \ {s} : Phase'[t] = Phase[t] /\ Pot'[t] = Pot[t]
                                                     /\ Payer'[t] = Payer[t]
      /\ Payee' = Payee
  BY ONLY <1>3, <1>4, TypeOK', OtherSlots
<1>7. PICK c \in Currencies : c = offers[s].currency
  BY <1>5
<1>8. /\ Ether(c, value) \in Nat /\ Wallet[sender] \in Nat
      /\ Wallet[sender] >= Ether(c, value)
      /\ Wallet' = [Wallet EXCEPT ![sender] = @ - Ether(c, value)]
  BY <1>4, <1>5, <1>7, PaymentIn
<1>9. PhaseOf(s)' = PhaseOf(s)
  BY <1>3, <1>4, <1>5, <1>6, SamePhase
<1>10. /\ Phase'[s] = Phase[s] /\ Phase[s] = "agreed" /\ Payer'[s] = Payer[s]
       /\ Payer[s] = sender /\ Pot'[s] = Pot[s] + Ether(c, value)
  <2>1. Phase'[s] = Phase[s]
    BY <1>3, <1>9 DEF Phase
  <2>2. Phase[s] = "agreed"
    BY <1>3, <1>4, Phases DEF Phase
  <2>3. Payer'[s] = Payer[s] /\ Payer[s] = sender
    BY <1>3, <1>4, <1>5, <1>6 DEF Payer
  <2>4. Pot'[s] = Pot[s] + Ether(c, value)
    BY <1>3, <1>5, <1>6, <1>7 DEF Pot, ValueIn, Ether
  <2> QED
    BY <2>1, <2>2, <2>3, <2>4
<1>11. \A t \in Slots : Phase'[t] = Phase[t] /\ Payer'[t] = Payer[t]
  BY ONLY <1>6, <1>10
<1>12. Phase' = Phase
  BY ONLY <1>11, ViewsAreFunctions
<1>13. Payer' = Payer
  BY ONLY <1>11, ViewsAreFunctions
<1>14. Pot' = [Pot EXCEPT ![s] = Pot'[s]]
  BY ONLY <1>3, <1>6, ViewsAreFunctions, OnePoint
<1>15. Pot' = [Pot EXCEPT ![s] = Pot[s] + Ether(c, value)]
  BY ONLY <1>10, <1>14
<1>16. PICK v \in Nat : v = Ether(c, value)
  BY <1>8
<1>17. EscrowOfETH!Raise(s, v)
  BY ONLY <1>3, <1>6, <1>8, <1>10, <1>12, <1>13, <1>15, <1>16, RaiseFrom
<1>18. v \in 0 .. Wallet[Payer[s]] /\ Payer[s] \in Accounts
  BY <1>8, <1>10, <1>16
<1> QED
  BY <1>3, <1>17, <1>18 DEF EscrowOfETH!Next, Wallet, Payer

\* A created listing: its seller appears as the payee of all its slots.
LEMMA CreateListingAppears ==
    ASSUME EInv, TypeOK', NEW sender \in Accounts, NEW amount \in Deposits,
           NEW manager \in Accounts, CreateListing(sender, amount, manager)
    PROVE  [EscrowOfETH!Next]_(EscrowOfETH!vars)
<1>1. PICK l : l = numListings
  OBVIOUS
<1>2. PICK S : S = {l} \X OfferIds
  OBVIOUS
<1>3. /\ seller' = [seller EXCEPT ![l] = sender]
      /\ Covered(balance, tokenAddr, sender, amount)
      /\ balance' = Move(balance, tokenAddr, sender, Market, amount)
      /\ UNCHANGED <<offers, numOffers>>
  BY <1>1 DEF CreateListing, offerVars
<1>4. /\ l \in ListingIds /\ seller[l] = Null /\ TypeOK
      /\ seller \in [ListingIds -> Accounts \cup {Null}]
  BY <1>1, BoundAssumption
     DEF EInv, Wellformed, Unlisted, TypeOK, Exists, ListingIds, CreateListing
<1>5. S \in SUBSET Slots /\ \A s \in Slots : s \in S <=> s[1] = l
  BY <1>2, <1>4 DEF Slots
<1>6. EtherKept(balance')
  BY <1>3, <1>4, AddressFacts, AmountAssumption, TokenMoveKeepsEther
<1>7. Phase' = Phase /\ Pot' = Pot /\ Payer' = Payer /\ Wallet' = Wallet
  BY <1>3, <1>6 DEF Phase, PhaseOf, Pot, ValueIn, Payer, Wallet, EtherKept
<1>8. \A s \in S : Payee[s] = Null
  BY <1>4, <1>5 DEF Payee
<1>9. Payee' = [s \in Slots |-> IF s \in S THEN sender ELSE Payee[s]]
  <2>1. \A s \in Slots : s[1] \in ListingIds
    BY DEF Slots
  <2> QED
    BY <1>3, <1>4, <1>5, <2>1 DEF Payee
<1>10. EscrowOfETH!Appear(S, sender)
  BY ONLY sender \in Accounts, <1>5, <1>7, <1>8, <1>9, AppearFrom
<1> QED
  BY <1>5, <1>10 DEF EscrowOfETH!Next

\* The other steps of a seller, a deposit manager or the owner move tokens only.
LEMMA OtherListingSteps ==
    ASSUME Wellformed, TypeOK', NEW sender \in Accounts, NEW l \in ListingIds,
           \/ \E amount \in Deposits : UpdateListing(sender, l, amount)
           \/ \E target \in Payees : WithdrawListing(sender, l, target)
           \/ \E target \in Payees, amount \in Deposits :
                    SendDeposit(sender, l, target, amount)
    PROVE  [EscrowOfETH!Next]_(EscrowOfETH!vars)
<1>1. TypeOK /\ deposit[l] \in Nat
  BY DEF Wellformed, TypeOK
<1>2. PICK from \in Holders, to \in Holders, v \in Nat :
            /\ Covered(balance, tokenAddr, from, v)
            /\ balance' = Move(balance, tokenAddr, from, to, v)
            /\ UNCHANGED <<offers, numOffers, seller>>
  <2>1. CASE \E amount \in Deposits : UpdateListing(sender, l, amount)
    BY <2>1, AddressFacts, AmountAssumption DEF UpdateListing, offerVars
  <2>2. CASE \E target \in Payees : WithdrawListing(sender, l, target)
    BY <1>1, <2>2, AddressFacts DEF WithdrawListing, offerVars
  <2>3. CASE \E target \in Payees, amount \in Deposits :
                    SendDeposit(sender, l, target, amount)
    BY <2>3, AddressFacts, AmountAssumption DEF SendDeposit, offerVars
  <2> QED
    BY <2>1, <2>2, <2>3
<1>3. EtherKept(balance')
  BY <1>1, <1>2, TokenMoveKeepsEther
<1> QED
  BY <1>1, <1>2, <1>3, OtherVariables

LEMMA OtherSteps ==
    ASSUME Wellformed, OwnerStep \/ Tick \/ UNCHANGED vars
    PROVE  [EscrowOfETH!Next]_(EscrowOfETH!vars)
<1>1. UNCHANGED <<offers, numOffers, seller, balance>>
  BY DEF OwnerStep, SetTokenAddr, AddAffiliate, RemoveAffiliate, Tick, vars,
     listingVars, offerVars, ownerVars
<1>2. EtherKept(balance') /\ TypeOK
  BY <1>1 DEF EtherKept, Wellformed
<1> QED
  BY <1>1, <1>2, OtherVariables

-----------------------------------------------------------------------------
(* The refinement *)

LEMMA NextUnlisted == EInv /\ [Next]_vars => Unlisted'
<1> SUFFICES ASSUME EInv, [Next]_vars
             PROVE  Unlisted'
  OBVIOUS
<1>1. CASE UNCHANGED <<numListings, seller>>
  BY <1>1 DEF EInv, Unlisted, Exists
<1>2. CASE /\ numListings' = numListings + 1
           /\ \E sender : seller' = [seller EXCEPT ![numListings] = sender]
  <2> SUFFICES ASSUME NEW l \in ListingIds, ~ l < numListings'
               PROVE  seller'[l] = Null
    BY DEF Unlisted, Exists
  <2>1. l \in Int /\ numListings \in Nat /\ seller \in [ListingIds -> Accounts \cup {Null}]
    BY BoundAssumption DEF EInv, Wellformed, TypeOK, ListingIds
  <2>2. ~ l < numListings /\ l # numListings
    BY ONLY <1>2, <2>1, ~ l < numListings'
  <2>3. seller'[l] = seller[l]
    BY ONLY <1>2, <2>1, <2>2, l \in ListingIds
  <2> QED
    BY <2>2, <2>3 DEF EInv, Unlisted, Exists
<1>3. ListingStep \/ MakeOfferStep \/ OfferStep \/ OwnerStep \/ Tick \/ UNCHANGED vars
  BY DEF Next
<1>4. ListingStep => \/ UNCHANGED <<numListings, seller>>
                     \/ /\ numListings' = numListings + 1
                        /\ \E sender : seller' = [seller EXCEPT ![numListings] = sender]
  <2>1. ASSUME NEW sender \in Accounts, NEW amount \in Deposits, NEW manager \in Accounts,
               CreateListing(sender, amount, manager)
        PROVE  /\ numListings' = numListings + 1
               /\ \E account : seller' = [seller EXCEPT ![numListings] = account]
    BY <2>1 DEF CreateListing
  <2>2. ASSUME NEW sender \in Accounts, NEW l \in ListingIds,
               \/ \E amount \in Deposits : UpdateListing(sender, l, amount)
               \/ \E target \in Payees : WithdrawListing(sender, l, target)
               \/ \E target \in Payees, amount \in Deposits :
                        SendDeposit(sender, l, target, amount)
        PROVE  UNCHANGED <<numListings, seller>>
    BY <2>2 DEF UpdateListing, WithdrawListing, SendDeposit
  <2> QED
    BY ONLY <2>1, <2>2 DEF ListingStep
<1>5. MakeOfferStep => UNCHANGED <<numListings, seller>>
  BY DEF MakeOfferStep, MakeOffer, listingVars
<1>6. OfferStep => UNCHANGED <<numListings, seller>>
  <2>1. ASSUME NEW sender \in Accounts, NEW l \in ListingIds, NEW o \in OfferIds,
               \/ AcceptOffer(sender, l, o)
               \/ WithdrawOffer(sender, l, o)
               \/ \E value \in Values : AddFunds(sender, l, o, value)
               \/ Dispute(sender, l, o)
               \/ \E refund \in Refunds : UpdateRefund(sender, l, o, refund)
        PROVE  UNCHANGED <<numListings, seller>>
    BY <2>1 DEF AcceptOffer, WithdrawOffer, AddFunds, Dispute, UpdateRefund, listingVars
  <2>2. ASSUME NEW sender \in Accounts, NEW l \in ListingIds, NEW o \in OfferIds,
               Finalize(sender, l, o)
        PROVE  UNCHANGED <<numListings, seller>>
    BY <2>2 DEF Finalize
  <2>3. ASSUME NEW sender \in Accounts, NEW l \in ListingIds, NEW o \in OfferIds,
               NEW ruling \in Rulings, NEW refund \in Refunds,
               ExecuteRuling(sender, l, o, ruling, refund)
        PROVE  UNCHANGED <<numListings, seller>>
    BY <2>3 DEF ExecuteRuling
  <2> QED
    BY ONLY <2>1, <2>2, <2>3 DEF OfferStep
<1>7. OwnerStep \/ Tick \/ UNCHANGED vars => UNCHANGED <<numListings, seller>>
  BY DEF OwnerStep, SetTokenAddr, AddAffiliate, RemoveAffiliate, Tick, vars, listingVars
<1> QED
  BY <1>1, <1>2, <1>3, <1>4, <1>5, <1>6, <1>7

LEMMA EInvAlways == Spec => []EInv
<1>1. Init => EInv
  BY InitWellformed DEF EInv, Init, Unlisted
<1>2. EInv /\ [Next]_vars => EInv'
  BY NextUnlisted, NextWellformed DEF EInv
<1> QED
  BY <1>1, <1>2, PTL DEF Spec

LEMMA EscrowStep == EInv /\ [Next]_vars => [EscrowOfETH!Next]_(EscrowOfETH!vars)
<1> SUFFICES ASSUME EInv, [Next]_vars
             PROVE  [EscrowOfETH!Next]_(EscrowOfETH!vars)
  OBVIOUS
<1>1. Wellformed /\ TypeOK'
  BY NextWellformed DEF EInv, Wellformed
<1>2. CASE ListingStep
  <2>1. PICK sender \in Accounts :
            \/ \E amount \in Deposits, manager \in Accounts :
                    CreateListing(sender, amount, manager)
            \/ \E l \in ListingIds :
                \/ \E amount \in Deposits : UpdateListing(sender, l, amount)
                \/ \E target \in Payees : WithdrawListing(sender, l, target)
                \/ \E target \in Payees, amount \in Deposits :
                        SendDeposit(sender, l, target, amount)
    BY <1>2 DEF ListingStep
  <2>2. CASE \E amount \in Deposits, manager \in Accounts :
                    CreateListing(sender, amount, manager)
    BY ONLY EInv, <1>1, <2>1, <2>2, CreateListingAppears
  <2>3. CASE \E l \in ListingIds :
                \/ \E amount \in Deposits : UpdateListing(sender, l, amount)
                \/ \E target \in Payees : WithdrawListing(sender, l, target)
                \/ \E target \in Payees, amount \in Deposits :
                        SendDeposit(sender, l, target, amount)
    BY ONLY <1>1, <2>1, <2>3, OtherListingSteps
  <2> QED
    BY <2>1, <2>2, <2>3
<1>3. CASE MakeOfferStep
  BY <1>1, <1>3, MakeOfferOpens DEF MakeOfferStep
<1>4. CASE OfferStep
  <2>1. PICK sender \in Accounts, l \in ListingIds, o \in OfferIds :
            \/ AcceptOffer(sender, l, o)
            \/ WithdrawOffer(sender, l, o)
            \/ \E value \in Values : AddFunds(sender, l, o, value)
            \/ Finalize(sender, l, o)
            \/ Dispute(sender, l, o)
            \/ \E ruling \in Rulings, refund \in Refunds :
                    ExecuteRuling(sender, l, o, ruling, refund)
            \/ \E refund \in Refunds :
                    UpdateRefund(sender, l, o, refund)
    BY <1>4 DEF OfferStep
  <2>2. \/ CloseStep(sender, l, o)
        \/ AcceptOffer(sender, l, o)
        \/ \E value \in Values : AddFunds(sender, l, o, value)
        \/ Dispute(sender, l, o)
        \/ \E refund \in Refunds : UpdateRefund(sender, l, o, refund)
    BY ONLY <2>1 DEF CloseStep
  <2> QED
    BY ONLY <1>1, <2>1, <2>2, CloseSettles, AcceptOfferAgrees, AddFundsRaises,
       DisputeContests, UpdateRefundStutters
<1>5. CASE OwnerStep \/ Tick \/ UNCHANGED vars
  BY <1>1, <1>5, OtherSteps
<1> QED
  BY <1>2, <1>3, <1>4, <1>5 DEF Next

LEMMA EscrowInit == Init => EscrowOfETH!Init
<1> SUFFICES ASSUME Init
             PROVE  EscrowOfETH!Init
  OBVIOUS
<1>1. TypeOK
  BY InitWellformed DEF Wellformed
<1>2. \A s \in Slots : /\ offers[s] = NoOffer /\ seller[s[1]] = Null
                       /\ ~ s[2] < numOffers[s[1]]
  <2> SUFFICES ASSUME NEW s \in Slots
               PROVE  /\ offers[s] = NoOffer /\ seller[s[1]] = Null
                      /\ ~ s[2] < numOffers[s[1]]
    OBVIOUS
  <2>1. s[1] \in ListingIds /\ s[2] \in Nat
    BY BoundAssumption DEF Slots, OfferIds
  <2>2. numOffers[s[1]] = 0
    BY <2>1 DEF Init
  <2> QED
    BY <2>1, <2>2 DEF Init
<1>3. Phase = [s \in Slots |-> "empty"]
  <2>1. \A s \in Slots : PhaseOf(s) = "empty"
    BY <1>2 DEF PhaseOf, NoOffer, Undefined, Created, Accepted, Disputed
  <2> QED
    BY <2>1 DEF Phase
<1>4. Pot = [s \in Slots |-> 0] /\ Payer = [s \in Slots |-> Null]
  BY <1>2 DEF Pot, ValueIn, Payer, NoOffer
<1>5. Payee = [s \in Slots |-> Null]
  BY <1>2 DEF Payee
<1>6. Wallet \in [Accounts -> Nat]
  BY <1>1, WalletType
<1> QED
  BY <1>3, <1>4, <1>5, <1>6
     DEF Phase, Pot, Payer, Payee, Wallet, EscrowOfETH!Init

\* The contract implements the escrow agent of Escrow.tla in Ether: whatever is
\* accepted, disputed, ruled upon or paid in tokens, an offer's Ether leaves the
\* contract once, all of it, to the two parties of that offer (makeOffer ..
\* executeRuling).
THEOREM EscrowImplemented == Spec => ImplementsEscrow
<1>1. Init => EscrowOfETH!Init
  BY EscrowInit
<1>2. EInv /\ [Next]_vars => [EscrowOfETH!Next]_(EscrowOfETH!vars)
  BY EscrowStep
<1> QED
  BY <1>1, <1>2, EInvAlways, PTL DEF Spec, ImplementsEscrow, EscrowOfETH!Spec

-----------------------------------------------------------------------------
(* What may happen to an offer *)

\* A step on the offer in slot <<l, o>>.
StepOn(sender, l, o) ==
    \/ CloseStep(sender, l, o)
    \/ AcceptOffer(sender, l, o)
    \/ \E value \in Values : AddFunds(sender, l, o, value)
    \/ Dispute(sender, l, o)
    \/ \E refund \in Refunds : UpdateRefund(sender, l, o, refund)

\* A step on an offer stores that offer only, with a status that its own tells.
LEMMA StepOnStores ==
    ASSUME Wellformed, NEW sender \in Accounts, NEW l \in ListingIds,
           NEW o \in OfferIds, StepOn(sender, l, o),
           NEW offer, offer = offers[<<l, o>>],
           NEW new, new = offers'[<<l, o>>]
    PROVE  /\ \A t \in Slots \ {<<l, o>>} : offers'[t] = offers[t]
           /\ \/ CloseStep(sender, l, o) /\ new = NoOffer
              \/ offer.status = Created /\ new.status = Accepted
              \/ offer.status = Accepted /\ new.status \in {Accepted, Disputed}
<1>1. <<l, o>> \in Slots /\ offers \in [Slots -> Offer] /\ offer \in Offer
  BY OfferFacts
<1>2. CASE CloseStep(sender, l, o)
  <2>1. offers' = [offers EXCEPT ![<<l, o>>] = NoOffer]
    <3>1. CASE WithdrawOffer(sender, l, o)
      BY <3>1 DEF WithdrawOffer
    <3>2. CASE Finalize(sender, l, o)
      BY <3>2 DEF Finalize
    <3>3. CASE \E ruling \in Rulings, refund \in Refunds :
                    ExecuteRuling(sender, l, o, ruling, refund)
      BY <3>3 DEF ExecuteRuling
    <3> QED
      BY <1>2, <3>1, <3>2, <3>3 DEF CloseStep
  <2> QED
    BY <1>1, <1>2, <2>1
<1>3. CASE AcceptOffer(sender, l, o)
  <2>1. /\ offer.status = Created
        /\ offers' = [offers EXCEPT ![<<l, o>>].finalizes = WindowEnd(offer.finalizes),
                                    ![<<l, o>>].status = Accepted]
    BY <1>3 DEF AcceptOffer
  <2>2. new.status = Accepted /\ \A t \in Slots \ {<<l, o>>} : offers'[t] = offers[t]
    BY <1>1, <2>1 DEF Offer
  <2> QED
    BY <2>1, <2>2
<1>4. CASE \E value \in Values : AddFunds(sender, l, o, value)
  <2>1. PICK value \in Values :
            /\ offer.status = Accepted
            /\ offers' = [offers EXCEPT ![<<l, o>>].value = @ + value]
    BY <1>4 DEF AddFunds
  <2>2. new.status = offer.status /\ \A t \in Slots \ {<<l, o>>} : offers'[t] = offers[t]
    BY <1>1, <2>1 DEF Offer
  <2> QED
    BY <2>1, <2>2
<1>5. CASE Dispute(sender, l, o)
  <2>1. /\ offer.status = Accepted
        /\ offers' = [offers EXCEPT ![<<l, o>>].status = Disputed]
    BY <1>5 DEF Dispute
  <2>2. new.status = Disputed /\ \A t \in Slots \ {<<l, o>>} : offers'[t] = offers[t]
    BY <1>1, <2>1 DEF Offer
  <2> QED
    BY <2>1, <2>2
<1>6. CASE \E refund \in Refunds : UpdateRefund(sender, l, o, refund)
  <2>1. PICK refund \in Refunds :
            /\ offer.status = Accepted
            /\ offers' = [offers EXCEPT ![<<l, o>>].refund = refund]
    BY <1>6 DEF UpdateRefund
  <2>2. new.status = offer.status /\ \A t \in Slots \ {<<l, o>>} : offers'[t] = offers[t]
    BY <1>1, <2>1 DEF Offer
  <2> QED
    BY <2>1, <2>2
<1> QED
  BY <1>2, <1>3, <1>4, <1>5, <1>6 DEF StepOn

\* Only a step on a live offer changes it.
LEMMA OnlyStepsOnIt ==
    ASSUME Wellformed, [Next]_vars, NEW l \in ListingIds, NEW o \in OfferIds,
           Live(<<l, o>>), offers'[<<l, o>>] # offers[<<l, o>>]
    PROVE  \E sender \in Accounts : StepOn(sender, l, o)
<1>1. <<l, o>> \in Slots /\ offers \in [Slots -> Offer] /\ o < numOffers[l]
  BY OfferFacts
<1>2. CASE ListingStep
  <2>1. ASSUME NEW sender \in Accounts, NEW amount \in Deposits, NEW manager \in Accounts,
               CreateListing(sender, amount, manager)
        PROVE  offers' = offers
    BY <2>1 DEF CreateListing, offerVars
  <2>2. ASSUME NEW sender \in Accounts, NEW k \in ListingIds,
               \/ \E amount \in Deposits : UpdateListing(sender, k, amount)
               \/ \E target \in Payees : WithdrawListing(sender, k, target)
               \/ \E target \in Payees, amount \in Deposits :
                        SendDeposit(sender, k, target, amount)
        PROVE  offers' = offers
    BY <2>2 DEF UpdateListing, WithdrawListing, SendDeposit, offerVars
  <2> QED
    <3>1. offers' = offers
      BY ONLY <1>2, <2>1, <2>2 DEF ListingStep
    <3> QED
      BY <3>1
<1>3. CASE MakeOfferStep
  <2>1. PICK sender \in Accounts, k \in ListingIds, finalizes \in Windows,
             affiliate \in Payees \cup {Null}, commission \in Commissions,
             value \in Values, currency \in Currencies, arbitrator \in Arbitrators :
            MakeOffer(sender, k, finalizes, affiliate, commission, value, currency,
                      arbitrator)
    BY <1>3 DEF MakeOfferStep
  <2>2. PICK new : new = [value |-> value, commission |-> commission, refund |-> 0,
                          currency |-> currency, buyer |-> sender,
                          affiliate |-> affiliate, arbitrator |-> arbitrator,
                          finalizes |-> finalizes, status |-> Created]
    OBVIOUS
  <2>3. offers' = [offers EXCEPT ![<<k, numOffers[k]>>] = new]
    BY <2>1, <2>2 DEF MakeOffer
  <2>4. numOffers[l] \in Nat /\ o # numOffers[l]
    BY <1>1, OfferFacts
  <2>5. <<k, numOffers[k]>> # <<l, o>>
    BY <2>4
  <2> QED
    BY <1>1, <2>3, <2>5
<1>4. CASE OfferStep
  <2>1. PICK sender \in Accounts, k \in ListingIds, p \in OfferIds : StepOn(sender, k, p)
    BY <1>4 DEF OfferStep, StepOn, CloseStep
  <2>2. \A t \in Slots \ {<<k, p>>} : offers'[t] = offers[t]
    BY <2>1, StepOnStores
  <2>3. <<k, p>> = <<l, o>>
    BY <1>1, <2>2
  <2> QED
    BY <2>1, <2>3
<1>5. CASE OwnerStep \/ Tick \/ UNCHANGED vars
  BY <1>5 DEF OwnerStep, SetTokenAddr, AddAffiliate, RemoveAffiliate, Tick, vars, offerVars
<1> QED
  BY <1>2, <1>3, <1>4, <1>5 DEF Next

\* A live offer whose status becomes Undefined has been closed.
LEMMA OnlyClosed ==
    ASSUME Wellformed, [Next]_vars, NEW l \in ListingIds, NEW o \in OfferIds,
           Live(<<l, o>>), offers'[<<l, o>>].status = Undefined
    PROVE  \E sender \in Accounts : CloseStep(sender, l, o)
<1>1. offers'[<<l, o>>] # offers[<<l, o>>]
  BY DEF Live
<1>2. PICK sender \in Accounts : StepOn(sender, l, o)
  BY <1>1, OnlyStepsOnIt
<1>3. PICK offer : offer = offers[<<l, o>>]
  OBVIOUS
<1>4. \/ CloseStep(sender, l, o) /\ offers'[<<l, o>>] = NoOffer
      \/ offer.status = Created /\ offers'[<<l, o>>].status = Accepted
      \/ offer.status = Accepted /\ offers'[<<l, o>>].status \in {Accepted, Disputed}
  BY <1>2, <1>3, StepOnStores
<1> QED
  BY <1>4 DEF Accepted, Disputed, Undefined

LEMMA DisputedFrozen ==
    ASSUME Wellformed, [Next]_vars
    PROVE  \A s \in Slots :
                offers[s].status = Disputed => offers'[s] \in {offers[s], NoOffer}
<1> SUFFICES ASSUME NEW s \in Slots, offers[s].status = Disputed, offers'[s] # offers[s]
             PROVE  offers'[s] = NoOffer
  OBVIOUS
<1>1. PICK l \in ListingIds, o \in OfferIds : s = <<l, o>>
  BY DEF Slots
<1>2. Live(<<l, o>>)
  BY <1>1 DEF Live, Disputed, Undefined
<1>3. PICK sender \in Accounts : StepOn(sender, l, o)
  BY <1>1, <1>2, OnlyStepsOnIt
<1>4. PICK offer : offer = offers[<<l, o>>]
  OBVIOUS
<1>5. \/ CloseStep(sender, l, o) /\ offers'[<<l, o>>] = NoOffer
      \/ offer.status = Created /\ offers'[<<l, o>>].status = Accepted
      \/ offer.status = Accepted /\ offers'[<<l, o>>].status \in {Accepted, Disputed}
  BY <1>3, <1>4, StepOnStores
<1> QED
  BY <1>1, <1>4, <1>5 DEF Created, Accepted, Disputed

\* Once disputed, an offer keeps its terms until the ruling deletes it: no call
\* of addFunds, updateRefund, acceptOffer or finalize reaches it.
THEOREM DisputedTermsFrozen == Spec => DisputeFreezesTerms
<1>1. Wellformed /\ [Next]_vars =>
        [\A s \in Slots :
            offers[s].status = Disputed => offers'[s] \in {offers[s], NoOffer}]_vars
  BY DisputedFrozen
<1> QED
  BY <1>1, WellformedAlways, PTL DEF Spec, DisputeFreezesTerms

LEMMA WindowKeepsCommission ==
    ASSUME Wellformed, [Next]_vars, NEW l \in ListingIds, NEW o \in OfferIds,
           offers[<<l, o>>].status = Accepted, now <= offers[<<l, o>>].finalizes,
           offers'[<<l, o>>].status = Undefined
    PROVE  deposit'[l] = deposit[l]
<1>1. PICK offer : offer = offers[<<l, o>>]
  OBVIOUS
<1>2. /\ Live(<<l, o>>) /\ offer.status # Created /\ offer.status # Disputed
      /\ offer.finalizes \in Nat /\ now \in Nat
  BY <1>1, OfferFacts DEF Live, Offer, Accepted, Created, Disputed, Undefined
<1>3. PICK sender \in Accounts : CloseStep(sender, l, o)
  BY <1>2, OnlyClosed
<1>4. Finalize(sender, l, o)
  <2>1. ~ WithdrawOffer(sender, l, o)
    BY <1>1, <1>2 DEF WithdrawOffer
  <2>2. ~ \E ruling \in Rulings, refund \in Refunds :
                ExecuteRuling(sender, l, o, ruling, refund)
    BY <1>1, <1>2 DEF ExecuteRuling
  <2> QED
    BY <1>3, <2>1, <2>2 DEF CloseStep
<1>5. sender = offer.buyer
  BY <1>1, <1>2, <1>4 DEF Finalize, MayFinalize
<1> QED
  BY <1>1, <1>4, <1>5 DEF Finalize

\* While its window is open an accepted offer's commission cannot return to the
\* deposit: whoever closes it then is the buyer, and the affiliate is paid.
THEOREM WindowReservesCommission == Spec => CommissionReservedInWindow
<1>1. Wellformed /\ [Next]_vars =>
        [\A l \in ListingIds, o \in OfferIds :
            LET offer == offers[<<l, o>>] IN
            (offer.status = Accepted /\ now <= offer.finalizes
                /\ offers'[<<l, o>>].status = Undefined)
            => deposit'[l] = deposit[l]]_vars
  BY WindowKeepsCommission
<1> QED
  BY <1>1, WellformedAlways, PTL DEF Spec, CommissionReservedInWindow

LEMMA ClosedInEther ==
    ASSUME Wellformed, [Next]_vars, NEW l \in ListingIds, NEW o \in OfferIds,
           NEW offer, offer = offers[<<l, o>>],
           Live(<<l, o>>), offer.currency = ETH, offers'[<<l, o>>].status = Undefined
    PROVE  /\ \A a \in Accounts \ {offer.buyer, seller[l]} : balance'[ETH][a] = balance[ETH][a]
           /\ balance'[ETH][Market] = balance[ETH][Market] - offer.value
<1>1. PICK sender \in Accounts : CloseStep(sender, l, o)
  BY OnlyClosed
<1>2. PartiesShare(l, offer)
  BY <1>1, WithdrawOfferShares, FinalizeShares, ExecuteRulingShares DEF CloseStep
<1>3. /\ offer \in Offer /\ offer.buyer \in Accounts /\ balance \in Balances
      /\ offer.value \in Nat /\ offer.commission \in Nat
      /\ ETH \in Currencies /\ ETH # tokenAddr /\ Market \in Holders
      /\ Market \notin Accounts /\ Accounts \subseteq Holders
      /\ \A h \in Holders : balance[ETH][h] \in Nat
  <2>1. offer \in Offer /\ offer.buyer \in Accounts /\ balance \in Balances
    BY OfferFacts
  <2>2. ETH # tokenAddr
    BY AddressAssumption DEF Wellformed, TypeOK
  <2>3. ETH \in Currencies
    BY AddressFacts
  <2> QED
    BY <2>1, <2>2, <2>3, AddressFacts DEF Offer, Balances
<1>4. \A a \in Accounts \ {offer.buyer, seller[l]} : balance'[ETH][a] = balance[ETH][a]
  <2>1. PICK back : Shared(balance, offer.buyer, seller[l],
                           Ether(offer.currency, offer.value), back)
    BY <1>2 DEF PartiesShare
  <2> SUFFICES ASSUME NEW a \in Accounts \ {offer.buyer, seller[l]}
               PROVE  balance'[ETH][a] = balance[ETH][a]
    OBVIOUS
  <2>2. balance'[ETH][a] = balance[ETH][a] + 0 + 0
    BY <2>1 DEF Shared
  <2>3. balance[ETH][a] \in Nat
    BY <1>3
  <2> QED
    BY ONLY <2>2, <2>3
<1>5. balance'[ETH][Market] = balance[ETH][Market] - offer.value
  <2>1. CASE WithdrawOffer(sender, l, o)
    <3>1. RefundBuyer(balance, offer.buyer, ETH, offer.value)
      BY <2>1 DEF WithdrawOffer
    <3>2. \A d \in Currencies :
            balance'[d][Market] = balance[d][Market]
                                    - (IF d = ETH THEN offer.value ELSE 0)
      BY ONLY <1>3, <3>1, RefundBuyerEffect
    <3> QED
      BY <1>3, <3>2
  <2>2. ASSUME NEW earned \in BOOLEAN, MoneyOut(offer, earned)
        PROVE  balance'[ETH][Market] = balance[ETH][Market] - offer.value
    BY <1>3, <2>2 DEF MoneyOut
  <2>3. CASE Finalize(sender, l, o)
    <3>1. PICK earned \in BOOLEAN : earned <=> sender = offer.buyer
      OBVIOUS
    <3>2. MoneyOut(offer, earned)
      BY <2>3, <3>1, FinalizeEffect
    <3> QED
      BY <2>2, <3>2
  <2>4. ASSUME NEW ruling \in Rulings, NEW refund \in Refunds,
               ExecuteRuling(sender, l, o, ruling, refund)
        PROVE  balance'[ETH][Market] = balance[ETH][Market] - offer.value
    <3>1. PICK earned \in BOOLEAN : earned <=> PaysCommission(ruling)
      OBVIOUS
    <3>2. MoneyOut(offer, earned)
      BY <2>4, <3>1, ExecuteRulingEffect
    <3> QED
      BY <2>2, <3>2
  <2> QED
    BY <1>1, <2>1, <2>3, <2>4 DEF CloseStep
<1> QED
  BY <1>4, <1>5

\* The Ether of an offer that is closed, by whichever of withdrawOffer, finalize
\* and executeRuling, goes to its buyer and its seller, to the unit.
THEOREM EtherGoesToTheParties == Spec => SplitBetweenParties
<1>1. Wellformed /\ [Next]_vars =>
        [\A l \in ListingIds, o \in OfferIds :
            LET offer == offers[<<l, o>>]
                party == {offer.buyer, seller[l]}
            IN  (Live(<<l, o>>) /\ offer.currency = ETH
                    /\ offers'[<<l, o>>].status = Undefined)
                => /\ \A a \in Accounts \ party : balance'[ETH][a] = balance[ETH][a]
                   /\ balance'[ETH][Market] = balance[ETH][Market] - offer.value]_vars
  BY ClosedInEther
<1> QED
  BY <1>1, WellformedAlways, PTL DEF Spec, SplitBetweenParties
=============================================================================
