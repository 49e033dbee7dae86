SPECIFICATION SourceSpec
CONSTANTS
    Accounts = {alice, bob}
    Market = market
    Null = null
    ETH = eth
    Tokens = {ogn}
    DepositTokens = {ogn}
    OriginToken = ogn
    Payees = {bob}
    Managed = {}
    Arbitrators = {bob}
    Payable = {alice, bob}
    MaxListings = 1
    MaxOffers = 1
    Deposits = {0}
    Values = {1}
    Commissions = {0}
    Refunds = {0, 1}
    Windows = {1}
    RelativeLimit = 2
    Now0 = 2
    MaxNow = 4
    Funds = 2
    MaxEvents = 5
INVARIANTS StatusShown TermsShown
