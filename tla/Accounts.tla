------------------------------ MODULE Accounts ------------------------------
(***************************************************************************)
(* The account side of class Zex of app/zex.py: registration of public     *)
(* keys, the order nonce of every user, deposits credited from the chain   *)
(* monitors and withdrawals recorded for them.  Each operator is the       *)
(* handler of one transaction; a deposit transaction carries several       *)
(* deposits and is handled as that many transactions of one.               *)
(***************************************************************************)
EXTENDS Market, Sequences

CONSTANTS
    Chains,            \* chain codes that appear in transactions
    ConfiguredChains,  \* settings.zex.chains
    MaxTokenId,        \* bound on the token ids of a chain
    VerifiedTokens,    \* settings.zex.verified_tokens_id: contract -> id
    DefaultDecimals,   \* settings.zex.default_tokens_decimal
    USDT               \* settings.zex.usdt_mainnet

ASSUME AccountsAssumption ==
    /\ ConfiguredChains \subseteq Chains
    /\ MaxTokenId \in Nat
    /\ Tokens = Chains \X (1 .. MaxTokenId)
    /\ USDT \in Tokens
    /\ \A t \in Tokens : <<t, USDT>> \in Markets
    /\ DOMAIN VerifiedTokens = Chains
    /\ \A c \in Chains : \A x, y \in DOMAIN VerifiedTokens[c] :
           /\ VerifiedTokens[c][x] \in 1 .. MaxTokenId
           /\ VerifiedTokens[c][x] = VerifiedTokens[c][y] => x = y

VARIABLES
    publicToId, idToPublic, lastUserId,  \* the two lookups of users
    nonces,            \* next order nonce of every registered user
    listed,            \* the keys of assets: tokens that have a dictionary
    markets,           \* the keys of markets: pairs that have been created
    deposits,          \* (tx_hash, vout) of the deposits seen on every chain
    userDeposits,      \* credited deposits of every user
    contractToId, lastTokenId,           \* token ids of every chain
    decimals,          \* token_decimal_on_chain_lookup
    withdraws,         \* withdraws_on_chain
    userWithdraws,     \* user_withdraws_on_chain
    withdrawNonce, userWithdrawNonce     \* counters of withdrawals

userVars     == <<publicToId, idToPublic, lastUserId>>
depositVars  == <<deposits, userDeposits, contractToId, lastTokenId, decimals>>
withdrawVars == <<withdraws, userWithdraws, withdrawNonce, userWithdrawNonce>>
accountVars  == <<userVars, nonces, listed, markets, depositVars, withdrawVars>>

\* What an account operation leaves alone in the engine, assets apart.
bookkeeping == <<amounts, orders, bookVars, idVars, finalId, taker, remaining>>

Registered == DOMAIN publicToId

\* A KeyError raised before the handler changed anything.
KeyFault ==
    /\ fault' = "key"
    /\ UNCHANGED <<assets, bookkeeping, accountVars>>

-----------------------------------------------------------------------------
\* register_pub: a key that is known already is left as it is.
Register(u) ==
    /\ IF u \in Registered
         THEN UNCHANGED userVars
         ELSE /\ lastUserId' = lastUserId + 1
              /\ publicToId' = Put(publicToId, u, lastUserId + 1)
              /\ idToPublic' = Put(idToPublic, lastUserId + 1, u)
    /\ UNCHANGED <<assets, bookkeeping, fault, nonces, listed, markets,
                   depositVars, withdrawVars>>

-----------------------------------------------------------------------------
(* Deposits: [chain, contract, key, amount, decimal, user], user being the  *)
(* numeric id the monitor writes and amount the scaled amount.              *)

DepositIgnored__KeysNotCompared(d) == d.user < 1 \/ lastUserId < d.user

DepositIgnored(d) ==
    \/ d.user < 1
    \/ lastUserId < d.user
    \/ d.key \in deposits[d.chain]

TokenIdOf__LastId(d) ==
    IF d.contract \in DOMAIN contractToId[d.chain]
      THEN contractToId[d.chain][d.contract]
      ELSE lastTokenId[d.chain]

TokenIdOf(d) ==
    IF d.contract \in DOMAIN contractToId[d.chain]
      THEN contractToId[d.chain][d.contract]
      ELSE lastTokenId[d.chain] + 1

Deposit(d) ==
    LET c  == d.chain
        id == TokenIdOf(d)
        t  == <<c, id>>
        u  == idToPublic[d.user]
    IN  /\ ~ DepositIgnored(d)
        /\ id <= MaxTokenId
        /\ deposits' = [deposits EXCEPT ![c] = @ \cup {d.key}]
        /\ decimals' = [decimals EXCEPT ![c] = Put(@, d.contract, d.decimal)]
        /\ contractToId' = [contractToId EXCEPT ![c] = Put(@, d.contract, id)]
        /\ lastTokenId' = IF d.contract \in DOMAIN contractToId[c]
                            THEN lastTokenId
                            ELSE [lastTokenId EXCEPT ![c] = id]
        /\ listed' = listed \cup {t}
        /\ markets' = markets \cup {<<t, USDT>>}
        /\ userDeposits' = [userDeposits EXCEPT ![u] =
                               Append(@, [token |-> t, amount |-> d.amount])]
        /\ assets' = [assets EXCEPT ![t][u] = @ + d.amount]
        /\ UNCHANGED <<bookkeeping, fault, userVars, nonces, withdrawVars>>

-----------------------------------------------------------------------------
(* Withdrawals: [token, amount, nonce, user]; the chain is the token's. *)

ChainOf(t) == t[1]

WithdrawNonceOk__AnyNonce(w) == ChainOf(w.token) \in ConfiguredChains

\* The chain is served and the nonce is the user's next one there.
WithdrawNonceOk(w) ==
    /\ ChainOf(w.token) \in ConfiguredChains
    /\ w.nonce = userWithdrawNonce[ChainOf(w.token)][w.user]

HasFunds__OffByOne(w) == assets[w.token][w.user] + 1 >= w.amount

HasFunds(w) == assets[w.token][w.user] >= w.amount

WithdrawIgnored(w) ==
    \/ w.amount <= 0
    \/ ~ WithdrawNonceOk(w) /\ w.user \in Registered
    \/ /\ WithdrawNonceOk(w)
       /\ w.token \in listed
       /\ ~ HasFunds(w)

\* The log line of a refused nonce looks up nonces[public]; the balance of a
\* token nobody deposited has no dictionary.
WithdrawFault(w) ==
    /\ w.amount > 0
    /\ \/ ~ WithdrawNonceOk(w) /\ w.user \notin Registered
       \/ WithdrawNonceOk(w) /\ w.token \notin listed
    /\ KeyFault

Withdraw(w) ==
    LET c == ChainOf(w.token)
        u == w.user
    IN  /\ w.amount > 0
        /\ WithdrawNonceOk(w)
        /\ w.token \in listed
        /\ HasFunds(w)
        /\ assets' = [assets EXCEPT ![w.token][u] = @ - w.amount]
        /\ userWithdraws' = [userWithdraws EXCEPT ![c][u] = Append(@, w)]
        /\ withdrawNonce' = [withdrawNonce EXCEPT ![c] = @ + 1]
        /\ userWithdrawNonce' = [userWithdrawNonce EXCEPT ![c][u] = @ + 1]
        /\ withdraws' = [withdraws EXCEPT ![c] = Append(@, w)]
        /\ UNCHANGED <<bookkeeping, fault, userVars, nonces, listed, markets,
                       depositVars>>
=============================================================================
