SPECIFICATION Spec
CONSTANTS
    u1 = u1
    u2 = u2
    NoTaker = NoTaker
    TxBytes <- AnyBytes
    Exact = 3
    Coarse = 3
    Users = {u1, u2}
    Tokens <- MCTokens
    Markets <- MCMarkets
    USDT <- MCUSDT
    Chains = {"POL"}
    ConfiguredChains = {"POL"}
    MaxTokenId = 2
    VerifiedTokens <- BothVerified
    DefaultDecimals <- BothVerified
    InitialUsers <- BothUsers
    InitialBalance = 3
    Offers <- TradeOffers
    Deposits = {}
    WithdrawAmounts = {}
    MaxNonce = 2
    MaxWithdraws = 0
INVARIANTS
    TypeOK
    Conservation
    Solvency
    Uncrossed
    OneOrderPerNonce
    EventIdsAdvance
CHECK_DEADLOCK FALSE
