SPECIFICATION Spec
CONSTANTS
    u1 = u1
    u2 = u2
    NoTaker = NoTaker
    TxBytes <- AnyBytes
    Exact = 3
    Coarse = 3
    Users = {u1, u2}
    Tokens <- MCTokens
    Markets <- MCMarkets
    USDT <- MCUSDT
    Chains = {"POL"}
    ConfiguredChains = {"POL"}
    MaxTokenId = 2
    VerifiedTokens <- BothVerified
    DefaultDecimals <- BothVerified
    InitialUsers <- BothUsers
    InitialBalance = 4
    Offers <- PromiseOffers
    Deposits = {}
    WithdrawAmounts = {}
    MaxNonce = 2
    MaxWithdraws = 0
PROPERTY
    KeepsPromise
CHECK_DEADLOCK FALSE
