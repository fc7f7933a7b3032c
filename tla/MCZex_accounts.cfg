SPECIFICATION Spec
CONSTANTS
    u1 = u1
    u2 = u2
    NoTaker = NoTaker
    TxBytes <- AnyBytes
    Exact = 3
    Coarse = 3
    Users = {u1, u2}
    Tokens <- AccTokens
    Markets <- AccMarkets
    USDT <- MCUSDT
    Chains = {"POL"}
    ConfiguredChains = {"POL"}
    MaxTokenId = 3
    VerifiedTokens <- UsdtVerified
    DefaultDecimals <- UsdtVerified
    InitialUsers <- NoUsers
    InitialBalance = 3
    Offers <- AccOffers
    Deposits <- AccDeposits
    WithdrawAmounts = {0, 1}
    MaxNonce = 1
    MaxWithdraws = 2
INVARIANTS
    Conservation
    CreditedOnce
    TokensApart
    WithdrawalsNumbered
PROPERTY
    KeepsPromise
CHECK_DEADLOCK FALSE
