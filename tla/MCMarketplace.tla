---------------------------- MODULE MCMarketplace ----------------------------
(***************************************************************************)
(* Instances of Marketplace for TLC, and the abstract escrow it implements *)
(* in Ether.                                                               *)
(***************************************************************************)
EXTENDS Marketplace

\* What an offer slot is in the abstract specification: a slot below the number
\* of offers whose struct has been deleted is settled for good.
PhaseOf(s) ==
    CASE offers[s].status = Created  -> "offered"
      [] offers[s].status = Accepted -> "agreed"
      [] offers[s].status = Disputed -> "contested"
      [] OTHER -> IF s[2] < numOffers[s[1]] THEN "settled" ELSE "empty"

EscrowOfETH ==
    INSTANCE Escrow WITH
        Nobody <- Null,
        phase  <- [s \in Slots |-> PhaseOf(s)],
        pot    <- ValueIn({ETH}),
        payer  <- [s \in Slots |-> offers[s].buyer],
        payee  <- [s \in Slots |-> seller[s[1]]],
        wallet <- [a \in Accounts |-> balance[ETH][a]]

\* The contract implements the escrow agent, as far as Ether is concerned.
ImplementsEscrow == EscrowOfETH!Spec
=============================================================================
