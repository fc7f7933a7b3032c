SPECIFICATION RecoverySpec
CONSTANTS
    u1 = u1
    u2 = u2
    NoTaker = NoTaker
    TxBytes <- RecBytes
    Exact = 2
    Coarse = 2
    Users = {u1, u2}
    Tokens <- MCTokens
    Markets <- RecMarkets
    USDT <- MCUSDT
    Chains = {"POL"}
    ConfiguredChains = {"POL"}
    MaxTokenId = 2
    VerifiedTokens <- BothVerified
    DefaultDecimals <- BothVerified
    InitialUsers <- BothUsers
    InitialBalance = 3
    Offers <- RecOffers
    Deposits <- RecDeposits
    WithdrawAmounts = {1}
    MaxNonce = 3
    MaxWithdraws = 2
    Batches <- RecBatches
    MaxBatches = 3
    SaveFrequency = 2
INVARIANTS
    SavedEveryN
CHECK_DEADLOCK FALSE
