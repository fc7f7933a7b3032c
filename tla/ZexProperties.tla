--------------------------- MODULE ZexProperties ----------------------------
(***************************************************************************)
(* What the exchange of Zex.tla has to guarantee.                          *)
(***************************************************************************)
EXTENDS Zex

IsLevels(f) == DOMAIN f \subseteq Int /\ \A p \in DOMAIN f : f[p] \in Int

BookTypeOK ==
    /\ DOMAIN book = Markets /\ DOMAIN updates = Markets
    /\ \A m \in Markets : DOMAIN book[m] = Sides /\ DOMAIN updates[m] = Sides
    /\ \A m \in Markets, s \in Sides :
           IsLevels(book[m][s]) /\ IsLevels(updates[m][s])

EngineTypeOK ==
    /\ assets \in [Tokens -> [Users -> Int]]
    /\ DOMAIN amounts \subseteq Order
    /\ \A o \in DOMAIN amounts : amounts[o] \in Nat
    /\ orders \in [Users -> SUBSET Order]
    /\ heap \in [Markets -> [Sides -> SUBSET Order]]
    /\ BookTypeOK
    /\ firstId \in [Markets -> Nat]
    /\ finalId \in [Markets -> Nat]
    /\ lastUpdateId \in [Markets -> Nat]
    /\ taker \in Order \cup {NoTaker}
    /\ remaining \in Nat
    /\ fault \in {"none", "key", "level"}

AccountTypeOK ==
    /\ lastUserId \in Nat
    /\ DOMAIN publicToId \subseteq Users
    /\ \A u \in DOMAIN publicToId : publicToId[u] \in 1 .. lastUserId
    /\ idToPublic \in [1 .. lastUserId -> Users]
    /\ nonces \in [Users -> Nat]
    /\ listed \subseteq Tokens
    /\ markets \subseteq Markets
    /\ DOMAIN contractToId = Chains
    /\ \A c \in Chains : \A x \in DOMAIN contractToId[c] :
           contractToId[c][x] \in 1 .. MaxTokenId
    /\ lastTokenId \in [Chains -> 0 .. MaxTokenId]

\* Every variable has its type; no balance of a resting order is negative.
TypeOK == EngineTypeOK /\ AccountTypeOK /\ modified \subseteq Markets

-----------------------------------------------------------------------------
(* Money *)

SumOver(S, F(_)) == SumFunctionOnSet([x \in S |-> F(x)], S)

InitialFunds(t) == IF t \in TestTokens
                     THEN InitialBalance * Cardinality(InitialSet) ELSE 0

Free(t) == SumOver(Users, LAMBDA u : assets[t][u])

Locked(t) == SumOver({o \in DOMAIN amounts : PayToken(o) = t},
                     LAMBDA o : Cost(o, amounts[o]))

\* How much of the token a list of deposits or withdrawals moves.
TotalOf(list, t) == SumOver({i \in DOMAIN list : list[i].token = t},
                            LAMBDA i : list[i].amount)

Deposited(t) == SumOver(Users, LAMBDA u : TotalOf(userDeposits[u], t))

Withdrawn(t) == TotalOf(withdraws[ChainOf(t)], t)

\* Nothing is created or lost: in every token, what users hold freely and what
\* their resting orders hold is what came in minus what was withdrawn, at every
\* step of a match and after a fault too.
Conservation ==
    \A t \in Tokens :
        Free(t) + Locked(t) = InitialFunds(t) + Deposited(t) - Withdrawn(t)

\* No balance is ever negative, and an order in its matching loop is paid for
\* to its last unit although its balance was checked once, before the first
\* trade.
Solvency ==
    /\ \A t \in Tokens, u \in Users : assets[t][u] >= 0
    /\ taker # NoTaker =>
           assets[PayToken(taker)][taker.user] >= Cost(taker, remaining)

-----------------------------------------------------------------------------
(* The order book *)

OrdersAgree ==
    \A u \in Users : orders[u] = {o \in DOMAIN amounts : o.user = u}

HeapsAgree ==
    \A m \in Markets, s \in Sides :
        heap[m][s] = {o \in DOMAIN amounts : o.market = m /\ o.side = s}

\* The three records of the resting orders (amounts, orders and the heaps)
\* hold the same orders.  A KeyError in the middle of a trade leaves them apart.
OneRegistry == fault # "level" => OrdersAgree /\ HeapsAgree

AtLevel(m, s, p) == {o \in DOMAIN amounts :
                        o.market = m /\ o.side = s /\ o.price = p}

LeftAt(m, s, p) == SumOver(AtLevel(m, s, p), LAMBDA o : amounts[o])

LevelsTell ==
    \A m \in Markets, s \in Sides :
        \A p \in DOMAIN book[m][s] \cup {o.price : o \in heap[m][s]} :
            LeftAt(m, s, p) = IF HasLevel(m, s, p) THEN book[m][s][p] ELSE 0

\* What rests at one price is few enough units to be added up exactly.
LevelsFit ==
    \A o \in DOMAIN amounts : LeftAt(o.market, o.side, o.price) <= Exact

\* A price level of the book is the sum of what is left of the orders resting
\* there; where orders rest without a level, nothing is left of any of them.  So
\* it is as long as the orders of no price have ever added up to more than the
\* decimal context can tell apart; a level that was rounded once stays wrong,
\* and may be deleted while an order rests there.
LevelsAreSums == []LevelsFit => []LevelsTell

\* No buy order rests at or above the price of a resting sell order, for orders
\* of a positive price and amount.
Uncrossed ==
    \A m \in Markets :
        \A b \in heap[m]["buy"], s \in heap[m]["sell"] :
            (b.price > 0 /\ s.price > 0 /\ b.amount > 0 /\ s.amount > 0)
                => b.price < s.price

LiveOrders == DOMAIN amounts \cup ({taker} \ {NoTaker})

\* A nonce is used by one order at most, and never again: the slice by which
\* cancel finds an order names one order of the user.
OneOrderPerNonce ==
    \A o \in LiveOrders :
        /\ o.nonce < nonces[o.user]
        /\ \A x \in LiveOrders : x.user = o.user /\ x.nonce = o.nonce => x = o

\* A match that has begun ends, by resting or filling its order or in a fault.
MatchEnds == taker # NoTaker ~> (taker = NoTaker \/ fault # "none")

-----------------------------------------------------------------------------
(* The numbering of depth events *)

\* An event about to be sent covers at least one id of its own: a modified
\* market, or one with levels not yet sent, has moved its final_id past the
\* last event's.
EventIdsAdvance ==
    \A m \in Markets :
        (m \in modified \/ \E s \in Sides : DOMAIN updates[m][s] # {})
            => lastUpdateId[m] < finalId[m] /\ firstId[m] <= finalId[m]

-----------------------------------------------------------------------------
(* Deposits and withdrawals *)

\* The entries of the user's list of deposits that are of the chain.
CreditsOn(c, u) == {i \in DOMAIN userDeposits[u] :
                        ChainOf(userDeposits[u][i].token) = c}

\* Every (tx_hash, vout) of a chain is credited once, to one user: reports of
\* a deposit already seen, or for a user who does not exist yet, add nothing,
\* and the latter may still be credited when it is reported again.
CreditedOnce ==
    \A c \in Chains :
        Cardinality(deposits[c]) =
            SumOver(Users, LAMBDA u : Cardinality(CreditsOn(c, u)))

\* The entries of the user in the chain's withdrawal log.
EntriesOf(c, u) == {i \in DOMAIN withdraws[c] : withdraws[c][i].user = u}

\* What the chains' withdrawal logs say, the users' lists and both counters
\* say too: a user's list holds the entries of the log that are the user's, in
\* the order of the log, and the n-th carries nonce n - 1, so the list can be
\* indexed by nonce.
WithdrawalsNumbered ==
    \A c \in Chains :
        /\ withdrawNonce[c] = Len(withdraws[c])
        /\ \A u \in Users :
               /\ userWithdrawNonce[c][u] = Len(userWithdraws[c][u])
               /\ \A n \in DOMAIN userWithdraws[c][u] :
                      /\ userWithdraws[c][u][n].nonce = n - 1
                      /\ \E i \in EntriesOf(c, u) :
                             withdraws[c][i] = userWithdraws[c][u][n]
               /\ \A i \in EntriesOf(c, u) :
                      LET n == withdraws[c][i].nonce + 1
                      IN  /\ n \in DOMAIN userWithdraws[c][u]
                          /\ userWithdraws[c][u][n] = withdraws[c][i]
               /\ \A i, j \in EntriesOf(c, u) :
                      i < j => withdraws[c][i].nonce < withdraws[c][j].nonce

\* Two contracts of a chain never share a token id, and no balance is held in
\* an id no contract has.
TokensApart ==
    \A c \in Chains :
        /\ \A x, y \in DOMAIN contractToId[c] :
               contractToId[c][x] = contractToId[c][y] => x = y
        /\ \A id \in 1 .. MaxTokenId :
               (\E u \in Users : assets[<<c, id>>][u] # 0)
                   => \E x \in DOMAIN contractToId[c] : contractToId[c][x] = id
=============================================================================
