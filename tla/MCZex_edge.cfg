SPECIFICATION Spec
CONSTANTS
    u1 = u1
    u2 = u2
    NoTaker = NoTaker
    TxBytes <- AnyBytes
    Exact = 3
    Coarse = 3
    Users = {u1}
    Tokens <- MCTokens
    Markets <- MCMarkets
    USDT <- MCUSDT
    Chains = {"POL"}
    ConfiguredChains = {"POL"}
    MaxTokenId = 2
    VerifiedTokens <- BothVerified
    DefaultDecimals <- BothVerified
    InitialUsers <- OneUser
    InitialBalance = 3
    Offers <- EdgeOffers
    Deposits = {}
    WithdrawAmounts = {}
    MaxNonce = 4
    MaxWithdraws = 0
INVARIANTS
    OneRegistry
PROPERTIES
    LevelsAreSums
    MatchEnds
CHECK_DEADLOCK FALSE
