SPECIFICATION FeedSpec
CONSTANTS
    u1 = u1
    u2 = u2
    NoTaker = NoTaker
    TxBytes <- AnyBytes
    Exact = 3
    Coarse = 3
    NoView = NoView
    Users = {u1, u2}
    Tokens <- MCTokens
    Markets <- FeedMarkets
    USDT <- MCUSDT
    Chains = {"POL"}
    ConfiguredChains = {"POL"}
    MaxTokenId = 2
    VerifiedTokens <- BothVerified
    DefaultDecimals <- BothVerified
    InitialUsers <- BothUsers
    InitialBalance = 3
    Offers <- FeedOffers
    Deposits = {}
    WithdrawAmounts = {}
    MaxNonce = 2
    MaxWithdraws = 0
INVARIANTS
    FeedComplete
    SnapshotCatchesUp
CHECK_DEADLOCK FALSE
