SPECIFICATION Spec
CONSTANTS
    Accounts = {alice, bob, carol}
    Market = market
    Null = null
    ETH = eth
    Tokens = {ogn}
    DepositTokens = {ogn}
    OriginToken = ogn
    Payees = {carol}
    Managed = {null, carol, market}
    Arbitrators = {null, carol}
    Payable = {alice, bob, carol}
    MaxListings = 1
    MaxOffers = 1
    Deposits = {0, 1}
    Values = {1}
    Commissions = {0, 1}
    Refunds = {0, 1, 2}
    Windows = {1, 3}
    RelativeLimit = 2
    Now0 = 2
    MaxNow = 4
    Funds = 2
INVARIANTS TypeOK Solvent RefundWithinValue NoOfferStranded
PROPERTIES CommissionReservedInWindow DisputeFreezesTerms SplitBetweenParties ImplementsEscrow
