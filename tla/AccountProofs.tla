--------------------------- MODULE AccountProofs ---------------------------
(***************************************************************************)
(* The account side of Zex.tla: no funds are created or lost, a deposit is *)
(* credited once, withdrawals are numbered by user and chain, and every    *)
(* balance is held in a token some contract stands for, however deposits,  *)
(* withdrawals, orders, trades and faults meet.                            *)
(***************************************************************************)
EXTENDS ZexProofs

-----------------------------------------------------------------------------
(* The ids a node starts with *)

\* Numbers that have a bound have a largest.
LEMMA LargestExists ==
    ASSUME NEW S, S \subseteq Nat, S # {}, NEW b \in Nat, \A x \in S : x <= b
    PROVE  \E x \in S : \A y \in S : x >= y
<1> DEFINE below == {b - x : x \in S}
<1>1. below \subseteq Nat /\ below # {}
  <2>1. \A x \in S : b - x \in Nat
    OBVIOUS
  <2>2. PICK x \in S : TRUE
    OBVIOUS
  <2>3. b - x \in below
    OBVIOUS
  <2> QED
    BY <2>1, <2>3
<1>2. PICK d \in below : \A e \in below : d <= e
  <2> HIDE DEF below
  <2> QED
    BY <1>1, LeastExists
<1>3. PICK x \in S : d = b - x
  OBVIOUS
<1>4. ASSUME NEW y \in S
      PROVE  x >= y
  <2>1. b - y \in below /\ b - y \in Nat /\ d \in Nat
    OBVIOUS
  <2>2. d <= b - y
    BY <1>2, <2>1
  <2> QED
    BY <1>3, <2>2
<1> QED
  BY <1>4

\* No configured token has an id above the last one.
LEMMA LastVerifiedIsLast ==
    ASSUME NEW c \in Chains
    PROVE  \A x \in DOMAIN VerifiedTokens[c] :
               VerifiedTokens[c][x] <= LastVerified(c)
<1> DEFINE ids == {0} \cup {VerifiedTokens[c][x] : x \in DOMAIN VerifiedTokens[c]}
<1>1. ids \subseteq Nat /\ MaxTokenId \in Nat /\ \A i \in ids : i <= MaxTokenId
  BY AccountsAssumption
<1>2. ids # {} /\ \A x \in DOMAIN VerifiedTokens[c] : VerifiedTokens[c][x] \in ids
  OBVIOUS
<1>3. LastVerified(c) = Max(ids)
  BY DEF LastVerified
<1> HIDE DEF ids
<1>4. \E i \in ids : \A j \in ids : i >= j
  BY <1>1, <1>2, LargestExists
<1>5. Max(ids) \in ids /\ \A j \in ids : Max(ids) >= j
  BY <1>4 DEF Max
<1>6. Max(ids) \in Nat
  BY <1>1, <1>5
<1> QED
  BY <1>1, <1>2, <1>3, <1>5, <1>6

-----------------------------------------------------------------------------
(* The invariant.  What an order holds was taken from a balance, so it is   *)
(* in a token with a contract, unless it is nothing: an order for nothing   *)
(* or at no price can name any token.                                       *)

NamedTokens ==
    {t \in Tokens : \E x \in DOMAIN contractToId[t[1]] :
                        contractToId[t[1]][x] = t[2]}

IdsApart ==
    \A c \in Chains :
        /\ \A x, y \in DOMAIN contractToId[c] :
               contractToId[c][x] = contractToId[c][y] => x = y
        /\ \A x \in DOMAIN contractToId[c] : contractToId[c][x] <= lastTokenId[c]

Held == \A t \in Tokens, u \in Users : assets[t][u] # 0 => t \in NamedTokens

LockedInNamed ==
    \A o \in DOMAIN amounts :
        PayToken(o) \in NamedTokens \/ Cost(o, amounts[o]) = 0

TakerPays == taker # NoTaker => PayToken(taker) \in NamedTokens

TokensInv == IdsApart /\ Held /\ LockedInNamed /\ TakerPays

\* Most steps name no contract.
LEMMA NamesStay ==
    ASSUME IdsApart, UNCHANGED <<contractToId, lastTokenId>>
    PROVE  IdsApart' /\ NamedTokens' = NamedTokens
  BY DEF IdsApart, NamedTokens

\* The types the steps below rely on.
LEMMA TokenTypes ==
    ASSUME IInv
    PROVE  /\ assets \in Balance
           /\ \A t \in Tokens, u \in Users : assets[t][u] \in Nat
           /\ \A o \in DOMAIN amounts :
                  o \in Order /\ amounts[o] \in Nat /\ o.price >= 0
<1>1. assets \in Balance
  BY Balances DEF IInv, Balance
<1>2. \A t \in Tokens, u \in Users : assets[t][u] \in Int /\ assets[t][u] >= 0
  BY <1>1, Balances DEF IInv, Balance
<1>3. \A o \in DOMAIN amounts :
          o \in Order /\ amounts[o] \in Nat /\ o.price >= 0
  BY DEF IInv, EngineInv, EngineTypeOK, RestingPrices
<1> QED
  BY <1>1, <1>2, <1>3

\* Who can pay for an order holds its token, or the order costs nothing.
LEMMA PaidInNamed ==
    ASSUME IInv, TokensInv, NEW o \in Order, NEW a \in Nat, o.price >= 0,
           assets[PayToken(o)][o.user] >= Cost(o, a)
    PROVE  PayToken(o) \in NamedTokens \/ Cost(o, a) = 0
<1>1. /\ PayToken(o) \in Tokens /\ o.user \in Users /\ Cost(o, a) \in Int
      /\ Cost(o, a) >= 0
  BY PayTypes, CostSign
<1>2. assets[PayToken(o)][o.user] \in Nat
  BY <1>1, TokenTypes
<1>3. assets[PayToken(o)][o.user] # 0 => PayToken(o) \in NamedTokens
  BY <1>1 DEF TokensInv, Held
<1> QED
  BY <1>1, <1>2, <1>3

-----------------------------------------------------------------------------
(* One lemma for each operation that moves funds *)

\* Steps that move none: an order that enters the loop is paid in a token that
\* has a contract.
LEMMA NoFundsMove ==
    ASSUME TokensInv, UNCHANGED <<contractToId, lastTokenId, assets, amounts>>,
           \/ taker' \in {taker, NoTaker}
           \/ PayToken(taker') \in NamedTokens
    PROVE  TokensInv'
<1>1. IdsApart' /\ NamedTokens' = NamedTokens
  BY NamesStay DEF TokensInv
<1>2. Held' /\ LockedInNamed'
  BY <1>1 DEF TokensInv, Held, LockedInNamed, PayToken, Cost
<1>3. TakerPays'
  BY <1>1 DEF TokensInv, TakerPays, PayToken
<1> QED
  BY <1>1, <1>2, <1>3 DEF TokensInv

\* An order that enters the loop costs something.
LEMMA MatchPaidInNamed ==
    ASSUME IInv, TokensInv, NEW o \in Order, MatchInstantly(o)
    PROVE  PayToken(o) \in NamedTokens
<1>1. /\ o.price > 0 /\ o.amount > 0 /\ o.price \in Int /\ o.amount \in Int
      /\ assets[PayToken(o)][o.user] >= Cost(o, o.amount)
  BY PayTypes DEF MatchInstantly, WillCross, CanPay
<1>2. o.amount \in Nat /\ o.price >= 0
  BY <1>1
<1>3. PayToken(o) \in NamedTokens \/ Cost(o, o.amount) = 0
  BY <1>1, <1>2, PaidInNamed
<1>4. o.amount * o.price > 0
  BY <1>1
<1>5. Cost(o, o.amount) # 0
  BY <1>1, <1>4 DEF Cost
<1> QED
  BY <1>3, <1>5

\* An order that comes to rest locks what it costs.
LEMMA RestInNamed ==
    ASSUME IInv, TokensInv, NEW o \in Order, NEW a \in Nat, Rest(o, a),
           PayToken(o) \in NamedTokens \/ Cost(o, a) = 0,
           taker' \in {taker, NoTaker}, UNCHANGED <<contractToId, lastTokenId>>
    PROVE  TokensInv'
<1>1. /\ PayToken(o) \in Tokens /\ o.user \in Users /\ Cost(o, a) \in Int
  BY PayTypes
<1>2. IdsApart' /\ NamedTokens' = NamedTokens
  BY NamesStay DEF TokensInv
<1>3. assets' = [assets EXCEPT ![PayToken(o)][o.user] = @ - Cost(o, a)]
  BY DEF Rest, Debit
<1>4. ASSUME NEW t \in Tokens, NEW u \in Users, assets'[t][u] # 0
      PROVE  t \in NamedTokens
  <2>1. assets[t][u] \in Nat /\ assets \in Balance
    BY TokenTypes
  <2>2. \/ t = PayToken(o) /\ Cost(o, a) # 0
        \/ assets[t][u] # 0
    BY <1>1, <1>3, <1>4, <2>1 DEF Balance
  <2> QED
    BY <2>2 DEF TokensInv, Held
<1>5. ASSUME NEW x \in DOMAIN amounts'
      PROVE  PayToken(x) \in NamedTokens \/ Cost(x, amounts'[x]) = 0
  <2>1. /\ DOMAIN amounts' = DOMAIN amounts \cup {o} /\ amounts'[o] = a
        /\ \A y \in DOMAIN amounts : y # o => amounts'[y] = amounts[y]
    BY DEF Rest, Put
  <2>2. CASE x = o
    BY <2>1, <2>2
  <2>3. CASE x # o
    BY <1>5, <2>1, <2>3 DEF TokensInv, LockedInNamed
  <2> QED
    BY <2>2, <2>3
<1>6. Held' /\ LockedInNamed' /\ TakerPays'
  BY <1>2, <1>4, <1>5 DEF Held, LockedInNamed, TakerPays, TokensInv, PayToken, Cost
<1> QED
  BY <1>2, <1>6 DEF TokensInv

\* A cancel gives back what the order had locked.
LEMMA CancelInNamed ==
    ASSUME IInv, TokensInv, fault = "none", NEW u \in Users, NEW o \in orders[u],
           Cancel(o), UNCHANGED <<contractToId, lastTokenId>>
    PROVE  TokensInv'
<1>1. o \in Order /\ o \in DOMAIN amounts /\ amounts[o] \in Nat
  BY RestingOrder DEF IInv
<1>2. PayToken(o) \in Tokens /\ o.user \in Users /\ Cost(o, amounts[o]) \in Int
  BY <1>1, PayTypes
<1>3. IdsApart' /\ NamedTokens' = NamedTokens
  BY NamesStay DEF TokensInv
<1>4. /\ assets' = [assets EXCEPT ![PayToken(o)][o.user] =
                        @ + Cost(o, amounts[o])]
      /\ amounts' = Drop(amounts, o) /\ taker' = taker
  BY DEF Cancel, Forget
<1>5. PayToken(o) \in NamedTokens \/ Cost(o, amounts[o]) = 0
  BY <1>1 DEF TokensInv, LockedInNamed
<1>6. ASSUME NEW t \in Tokens, NEW v \in Users, assets'[t][v] # 0
      PROVE  t \in NamedTokens
  <2>1. assets[t][v] \in Nat /\ assets \in Balance
    BY TokenTypes
  <2>2. \/ t = PayToken(o) /\ Cost(o, amounts[o]) # 0
        \/ assets[t][v] # 0
    BY <1>2, <1>4, <1>6, <2>1 DEF Balance
  <2> QED
    BY <1>5, <2>2 DEF TokensInv, Held
<1>7. ASSUME NEW x \in DOMAIN amounts'
      PROVE  PayToken(x) \in NamedTokens \/ Cost(x, amounts'[x]) = 0
  <2>1. x \in DOMAIN amounts /\ amounts'[x] = amounts[x]
    BY <1>4, <1>7, DropFacts
  <2> QED
    BY <2>1 DEF TokensInv, LockedInNamed
<1>8. Held' /\ LockedInNamed' /\ TakerPays'
  BY <1>3, <1>4, <1>6, <1>7
  DEF Held, LockedInNamed, TakerPays, TokensInv, PayToken, Cost
<1> QED
  BY <1>3, <1>8 DEF TokensInv

\* A withdrawal takes from a balance that covers it.
LEMMA WithdrawInNamed ==
    ASSUME IInv, TokensInv, NEW w \in Withdrawals, Withdraw(w)
    PROVE  TokensInv'
<1>1. w.token \in Tokens /\ w.user \in Users /\ w.amount \in Int
  BY ZexAssumption DEF Withdrawals
<1>2. /\ assets' = [assets EXCEPT ![w.token][w.user] = @ - w.amount]
      /\ assets[w.token][w.user] >= w.amount /\ w.amount > 0
      /\ UNCHANGED <<contractToId, lastTokenId, amounts, taker>>
  BY DEF Withdraw, HasFunds, depositVars, bookkeeping
<1>3. IdsApart' /\ NamedTokens' = NamedTokens
  BY <1>2, NamesStay DEF TokensInv
<1>4. ASSUME NEW t \in Tokens, NEW u \in Users, assets'[t][u] # 0
      PROVE  t \in NamedTokens
  <2>1. assets \in Balance /\ assets[t][u] \in Nat
        /\ assets[w.token][w.user] \in Nat
    BY <1>1, TokenTypes
  <2>2. assets[t][u] # 0
    BY <1>1, <1>2, <1>4, <2>1 DEF Balance
  <2> QED
    BY <2>2 DEF TokensInv, Held
<1>5. Held' /\ LockedInNamed' /\ TakerPays'
  BY <1>2, <1>3, <1>4 DEF Held, LockedInNamed, TakerPays, TokensInv, PayToken, Cost
<1> QED
  BY <1>3, <1>5 DEF TokensInv

\* A trade leaves the balances alone in every token it moves nothing of.
LEMMA OutsideStays ==
    ASSUME NEW o \in Order, NEW h \in Order, NEW q \in Int, NEW p \in Int,
           assets \in Balance, Settle(o, h, q, p),
           NEW t \in Tokens, NEW u \in Users, t # PayToken(o),
           t = Base(o.market) => q = 0, t = Quote(o.market) => p * q = 0
    PROVE  assets'[t][u] = assets[t][u]
<1>1. PICK x \in Int : x = p * q
  OBVIOUS
<1>2. PICK paid : paid = Paid(o, q, p)
  OBVIOUS
<1>3. PICK b \in Users : b = IF o.side = "buy" THEN o.user ELSE h.user
  BY PayTypes
<1>4. PICK s \in Users : s = IF o.side = "buy" THEN h.user ELSE o.user
  BY PayTypes
<1> DEFINE base  == [assets EXCEPT ![Base(o.market)][b] = @ + q]
           quote == [base EXCEPT ![Quote(o.market)][s] = @ + x]
<1>5. /\ Base(o.market) \in Tokens /\ Quote(o.market) \in Tokens
      /\ PayToken(o) \in Tokens
  BY PayTypes, PairTypes
<1>6. assets' = [quote EXCEPT ![PayToken(o)][o.user] = @ - paid]
  BY <1>1, <1>2, <1>3, <1>4 DEF Settle
<1>7. base \in Balance
  BY <1>5 DEF Balance
<1>8. base[t][u] = assets[t][u]
  <2>1. CASE t = Base(o.market)
    BY <1>5, <2>1 DEF Balance
  <2>2. CASE t # Base(o.market)
    BY <1>5, <2>2 DEF Balance
  <2> QED
    BY <2>1, <2>2
<1> HIDE DEF base
<1>9. quote \in Balance
  BY <1>5, <1>7 DEF Balance
<1>10. quote[t][u] = base[t][u]
  <2>1. CASE t = Quote(o.market)
    <3>1. x = 0 /\ base[t][u] \in Int
      BY <1>1, <1>7, <2>1 DEF Balance
    <3> QED
      BY <1>5, <1>7, <2>1, <3>1 DEF Balance
  <2>2. CASE t # Quote(o.market)
    BY <1>5, <1>7, <2>2 DEF Balance
  <2> QED
    BY <2>1, <2>2
<1> HIDE DEF quote
<1>11. assets'[t][u] = quote[t][u]
  BY <1>5, <1>6, <1>9 DEF Balance
<1> QED
  BY <1>8, <1>10, <1>11

\* In a trade each side gets what the other has locked or pays for: nothing, if
\* it is in a token without a contract.
LEMMA TradeInNamed ==
    ASSUME IInv, IInv', TokensInv, fault = "none", taker # NoTaker, NEW h,
           ExecuteTrade(h), UNCHANGED <<contractToId, lastTokenId>>
    PROVE  TokensInv'
<1> DEFINE m == taker.market
<1>1. PICK q : q = TradeAmount(h)
  OBVIOUS
<1>2. /\ taker \in Order /\ h \in Order /\ h \in DOMAIN amounts
      /\ h.market = m /\ h.side = Other(taker.side) /\ h.price \in Nat
      /\ amounts[h] \in Nat /\ q \in Nat /\ q <= amounts[h] /\ q <= remaining
      /\ remaining \in Nat /\ taker' = taker
  BY <1>1, TradedHead DEF ExecuteTrade, Heads, IInv, EngineInv, EngineTypeOK
<1>3. /\ taker.side \in Sides /\ taker.user \in Users /\ h.user \in Users
      /\ Base(m) \in Tokens /\ Quote(m) \in Tokens
  BY <1>2, PayTypes, PairTypes
<1>4. IdsApart' /\ NamedTokens' = NamedTokens
  BY NamesStay DEF TokensInv
<1>5. PICK x \in Int : x = h.price * q
  BY <1>2
<1>6. PayToken(taker) \in NamedTokens
  BY DEF TokensInv, TakerPays
<1>7. PayToken(h) \in NamedTokens \/ Cost(h, amounts[h]) = 0
  BY <1>2 DEF TokensInv, LockedInNamed
<1>8. Base(m) \notin NamedTokens => q = 0
  <2>1. SUFFICES ASSUME Base(m) \notin NamedTokens
                 PROVE  q = 0
    OBVIOUS
  <2>2. taker.side = "buy"
    BY <1>3, <1>6, <2>1 DEF PayToken, Sides
  <2>3. PayToken(h) = Base(m) /\ Cost(h, amounts[h]) = amounts[h]
    BY <1>2, <2>2 DEF PayToken, Cost, Other
  <2> QED
    BY <1>2, <1>7, <2>1, <2>3
<1>9. Quote(m) \notin NamedTokens => x = 0
  <2>1. SUFFICES ASSUME Quote(m) \notin NamedTokens
                 PROVE  x = 0
    OBVIOUS
  <2>2. taker.side # "buy"
    BY <1>6, <2>1 DEF PayToken
  <2>3. PayToken(h) = Quote(m) /\ Cost(h, amounts[h]) = amounts[h] * h.price
    BY <1>2, <2>2 DEF PayToken, Cost, Other
  <2>4. amounts[h] * h.price = 0
    BY <1>7, <2>1, <2>3
  <2>5. amounts[h] = 0 \/ h.price = 0
    BY <1>2, <2>4
  <2>6. q = 0 \/ h.price = 0
    BY <1>2, <2>5
  <2> QED
    BY <1>2, <1>5, <2>6
<1>10. ASSUME NEW t \in Tokens, NEW u \in Users, assets'[t][u] # 0
       PROVE  t \in NamedTokens
  <2>1. SUFFICES ASSUME t \notin NamedTokens
                 PROVE  FALSE
    OBVIOUS
  <2>2. assets[t][u] = 0 /\ assets \in Balance
    BY <2>1, TokenTypes DEF TokensInv, Held
  <2>3. PICK p \in Int : p = h.price
    BY <1>2
  <2>4. Settle(taker, h, q, p) /\ x = p * q
    BY <1>1, <1>5, <2>3 DEF ExecuteTrade
  <2>5. taker \in Order /\ h \in Order /\ q \in Int
    BY <1>2
  <2>6. t # PayToken(taker)
    BY <1>6, <2>1
  <2>7. /\ t = Base(taker.market) => q = 0
        /\ t = Quote(taker.market) => x = 0
    BY <1>8, <1>9, <2>1
  <2>8. t = Quote(taker.market) => p * q = 0
    BY <2>4, <2>7
  <2> HIDE DEF m
  <2>9. assets'[t][u] = assets[t][u]
    BY <2>2, <2>4, <2>5, <2>6, <2>7, <2>8, OutsideStays
  <2> QED
    BY <1>10, <2>2, <2>9
<1>11. ASSUME NEW o \in DOMAIN amounts'
       PROVE  PayToken(o) \in NamedTokens \/ Cost(o, amounts'[o]) = 0
  <2>1. /\ o \in DOMAIN amounts
        /\ o # h => amounts'[o] = amounts[o]
        /\ o = h => amounts'[h] = amounts[h] - q /\ amounts[h] > q
    BY <1>1, <1>2, <1>11 DEF ExecuteTrade, Forget, Drop
  <2>2. CASE o # h
    BY <2>1, <2>2 DEF TokensInv, LockedInNamed
  <2>3. CASE o = h /\ Cost(h, amounts[h]) = 0
    <3>1. amounts[h] # 0 /\ h.price \in Int
      BY <1>2, <2>1, <2>3
    <3>2. h.side = "buy" /\ h.price = 0
      BY <1>2, <2>3, <3>1 DEF Cost
    <3>3. amounts'[h] \in Int
      BY <1>2, <2>1, <2>3
    <3> QED
      BY <2>3, <3>2, <3>3 DEF Cost
  <2> QED
    BY <1>7, <2>2, <2>3
<1>12. Held' /\ LockedInNamed' /\ TakerPays'
  BY <1>2, <1>4, <1>10, <1>11
  DEF Held, LockedInNamed, TakerPays, TokensInv, PayToken, Cost
<1> QED
  BY <1>4, <1>12 DEF TokensInv

\* A deposit gives its contract the next id of the chain, or keeps the one it
\* has, and credits that token.
LEMMA DepositInNamed ==
    ASSUME IInv, TokensInv, NEW d \in Deposits, Deposit(d)
    PROVE  TokensInv'
<1> DEFINE c  == d.chain
           id == TokenIdOf(d)
           t  == <<c, id>>
           u  == idToPublic[d.user]
<1>1. c \in Chains /\ DOMAIN contractToId = Chains
  BY ZexAssumption DEF IInv, AccountTypeOK
<1>2. /\ contractToId' = [contractToId EXCEPT ![c] = Put(@, d.contract, id)]
      /\ lastTokenId' = IF d.contract \in DOMAIN contractToId[c]
                          THEN lastTokenId
                          ELSE [lastTokenId EXCEPT ![c] = id]
      /\ assets' = [assets EXCEPT ![t][u] = @ + d.amount]
      /\ amounts' = amounts /\ taker' = taker
  BY DEF Deposit, bookkeeping
<1>3. /\ \A k \in Chains : k # c => contractToId'[k] = contractToId[k]
      /\ contractToId'[c] = Put(contractToId[c], d.contract, id)
  BY <1>1, <1>2
<1>4. lastTokenId \in [Chains -> 0 .. MaxTokenId] /\ MaxTokenId \in Nat
      /\ \A k \in Chains : \A x \in DOMAIN contractToId[k] :
             contractToId[k][x] \in 1 .. MaxTokenId
  BY AccountsAssumption DEF IInv, AccountTypeOK
<1>5. /\ d.contract \in DOMAIN contractToId[c] =>
             id = contractToId[c][d.contract]
      /\ d.contract \notin DOMAIN contractToId[c] => id = lastTokenId[c] + 1
  BY DEF TokenIdOf
<1>6. /\ DOMAIN contractToId'[c] = DOMAIN contractToId[c] \cup {d.contract}
      /\ contractToId'[c][d.contract] = id
      /\ \A x \in DOMAIN contractToId[c] :
             contractToId'[c][x] = contractToId[c][x]
  <2>1. \A x \in DOMAIN contractToId[c] :
            x # d.contract => contractToId'[c][x] = contractToId[c][x]
    BY <1>3 DEF Put
  <2>2. /\ DOMAIN contractToId'[c] = DOMAIN contractToId[c] \cup {d.contract}
        /\ contractToId'[c][d.contract] = id
    BY <1>3 DEF Put
  <2> QED
    BY <1>5, <2>1, <2>2
<1> HIDE DEF id, u
<1>7. \A x \in DOMAIN contractToId[c] : contractToId[c][x] <= lastTokenId[c]
  BY <1>1 DEF TokensInv, IdsApart
<1>8. ASSUME NEW k \in Chains
      PROVE  /\ \A x, y \in DOMAIN contractToId'[k] :
                    contractToId'[k][x] = contractToId'[k][y] => x = y
             /\ \A x \in DOMAIN contractToId'[k] :
                    contractToId'[k][x] <= lastTokenId'[k]
  <2>1. CASE k # c
    <3>1. contractToId'[k] = contractToId[k] /\ lastTokenId'[k] = lastTokenId[k]
      BY <1>1, <1>2, <1>3, <1>4, <2>1
    <3> QED
      BY <3>1 DEF TokensInv, IdsApart
  <2>2. CASE k = c /\ d.contract \in DOMAIN contractToId[c]
    BY <1>1, <1>2, <1>6, <2>2 DEF TokensInv, IdsApart
  <2>3. CASE k = c /\ d.contract \notin DOMAIN contractToId[c]
    <3>1. lastTokenId'[c] = id /\ id = lastTokenId[c] + 1
          /\ lastTokenId[c] \in Int
      BY <1>1, <1>2, <1>4, <1>5, <2>3
    <3>2. \A x \in DOMAIN contractToId[c] :
              contractToId[c][x] \in Int /\ contractToId[c][x] < id
      BY <1>1, <1>4, <1>7, <3>1
    <3> QED
      BY <1>1, <1>6, <2>3, <3>1, <3>2 DEF TokensInv, IdsApart
  <2> QED
    BY <2>1, <2>2, <2>3
<1>9. NamedTokens \subseteq NamedTokens'
  <2>1. ASSUME NEW v \in NamedTokens
        PROVE  v \in NamedTokens'
    <3>1. PICK x \in DOMAIN contractToId[v[1]] : contractToId[v[1]][x] = v[2]
      BY DEF NamedTokens
    <3>2. v \in Tokens /\ v[1] \in Chains
      BY AccountsAssumption DEF NamedTokens
    <3>3. x \in DOMAIN contractToId'[v[1]] /\ contractToId'[v[1]][x] = v[2]
      BY <1>3, <1>6, <3>1, <3>2
    <3> QED
      BY <3>2, <3>3 DEF NamedTokens
  <2> QED
    BY <2>1
<1>10. t \in Tokens => t \in NamedTokens'
  BY <1>6 DEF NamedTokens
<1>11. ASSUME NEW v \in Tokens, NEW w \in Users, assets'[v][w] # 0
       PROVE  v \in NamedTokens'
  <2>1. assets \in Balance
    BY TokenTypes
  <2>2. v = t \/ assets'[v][w] = assets[v][w]
    BY <1>2, <2>1 DEF Balance
  <2> QED
    BY <1>9, <1>10, <1>11, <2>2 DEF TokensInv, Held
<1>12. IdsApart' /\ Held' /\ LockedInNamed' /\ TakerPays'
  BY <1>2, <1>8, <1>9, <1>11
  DEF IdsApart, Held, LockedInNamed, TakerPays, TokensInv, PayToken, Cost
<1> QED
  BY <1>12 DEF TokensInv

-----------------------------------------------------------------------------
(* The whole of process *)

\* A fresh node gives balances in configured tokens only, and has no orders.
LEMMA TokensStart ==
    ASSUME Init
    PROVE  TokensInv
<1>1. /\ contractToId = VerifiedTokens /\ assets = InitialAssets
      /\ lastTokenId = [c \in Chains |-> LastVerified(c)]
      /\ amounts = <<>> /\ taker = NoTaker
  BY DEF Init, InitMarkets, InitAccounts
<1>2. IdsApart
  BY <1>1, LastVerifiedIsLast, AccountsAssumption DEF IdsApart
<1>3. ASSUME NEW t \in Tokens, NEW u \in Users, assets[t][u] # 0
      PROVE  t \in NamedTokens
  <2>1. t \in TestTokens
    BY <1>1, <1>3 DEF InitialAssets
  <2>2. PICK c \in Chains : t \in VerifiedOf(c)
    BY <2>1 DEF TestTokens
  <2>3. PICK x \in DOMAIN VerifiedTokens[c] : t = <<c, VerifiedTokens[c][x]>>
    BY <2>2 DEF VerifiedOf
  <2> QED
    BY <1>1, <2>3 DEF NamedTokens
<1>4. Held /\ LockedInNamed /\ TakerPays
  BY <1>1, <1>3 DEF Held, LockedInNamed, TakerPays
<1> QED
  BY <1>2, <1>4 DEF TokensInv

\* What process does with one transaction.
LEMMA TransactionInNamed ==
    ASSUME IInv, TokensInv, ProcessTransaction
    PROVE  TokensInv'
<1>1. ASSUME NEW u \in Users, ProcessRegister(u) PROVE TokensInv'
  BY <1>1, NoFundsMove DEF ProcessRegister, Register, depositVars, bookkeeping
<1>2. ASSUME NEW d \in Deposits, ProcessDeposit(d) PROVE TokensInv'
  BY <1>2, DepositInNamed DEF ProcessDeposit
<1>3. ASSUME NEW w \in Withdrawals, ProcessWithdraw(w) PROVE TokensInv'
  <2>1. CASE Withdraw(w)
    BY <2>1, WithdrawInNamed
  <2>2. CASE WithdrawFault(w)
    BY <2>2, NoFundsMove
    DEF WithdrawFault, KeyFault, accountVars, depositVars, bookkeeping
  <2> QED
    BY <1>3, <2>1, <2>2 DEF ProcessWithdraw
<1>4. ASSUME NEW u \in Users, NEW f \in Offers, ProcessOrder(u, f)
      PROVE  TokensInv'
  <2>1. PICK o \in Order : o = OrderOf(f, u)
    BY OrderOfType DEF IInv
  <2>2. UNCHANGED <<contractToId, lastTokenId>>
    BY <1>4 DEF ProcessOrder, depositVars
  <2>3. CASE MatchInstantly(o)
    <3>1. PayToken(taker') \in NamedTokens /\ UNCHANGED <<assets, amounts>>
      BY <2>3, MatchPaidInNamed DEF MatchInstantly
    <3> QED
      BY <2>2, <3>1, NoFundsMove
  <2>4. CASE Place(o)
    <3>1. /\ o.amount \in Nat /\ o.price >= 0 /\ Rest(o, o.amount)
          /\ assets[PayToken(o)][o.user] >= Cost(o, o.amount)
          /\ taker' = taker
      BY <2>4, PayTypes DEF Place, CanPay
    <3>2. PayToken(o) \in NamedTokens \/ Cost(o, o.amount) = 0
      BY <3>1, PaidInNamed
    <3> QED
      BY <2>2, <3>1, <3>2, RestInNamed
  <2>5. CASE UNCHANGED engineVars
    BY <2>2, <2>5, NoFundsMove DEF engineVars
  <2> QED
    BY <1>4, <2>1, <2>3, <2>4, <2>5 DEF ProcessOrder
<1>5. ASSUME NEW u \in Users, NEW f \in Offers, ProcessBadNonce(u, f.market)
      PROVE  TokensInv'
  BY <1>5, NoFundsMove DEF ProcessBadNonce, depositVars, bookkeeping
<1>6. ASSUME NEW u \in Users, NEW o \in orders[u], ProcessCancel(o)
      PROVE  TokensInv'
  BY <1>6, CancelInNamed DEF ProcessCancel, Idle, accountVars, depositVars
<1>7. ASSUME NEW u \in Users, NEW f \in Offers, ProcessCancelFault(u, f.market)
      PROVE  TokensInv'
  BY <1>7, NoFundsMove
  DEF ProcessCancelFault, KeyFault, accountVars, depositVars, bookkeeping
<1> QED
  BY <1>1, <1>2, <1>3, <1>4, <1>5, <1>6, <1>7 DEF ProcessTransaction

\* An iteration of the matching loop, or its end.
LEMMA MatchInNamed ==
    ASSUME IInv, IInv', TokensInv, Match
    PROVE  TokensInv'
<1>1. CASE ProcessTrade
  <2>1. /\ taker # NoTaker /\ fault = "none"
        /\ UNCHANGED <<contractToId, lastTokenId>>
    BY <1>1 DEF ProcessTrade, accountVars, depositVars
  <2>2. PICK h : ExecuteTrade(h) \/ ExecuteTradeFault(h)
    BY <1>1 DEF ProcessTrade
  <2>3. CASE ExecuteTrade(h)
    BY <2>1, <2>3, TradeInNamed
  <2>4. CASE ExecuteTradeFault(h)
    BY <2>1, <2>4, NoFundsMove DEF ExecuteTradeFault
  <2> QED
    BY <2>2, <2>3, <2>4
<1>2. CASE ProcessMatched
  <2>1. /\ taker # NoTaker /\ UNCHANGED <<contractToId, lastTokenId>>
        /\ taker' = NoTaker /\ taker \in Order /\ remaining \in Nat
    BY <1>2 DEF ProcessMatched, FinishMatch, accountVars, depositVars, IInv,
                EngineInv, EngineTypeOK
  <2>2. PayToken(taker) \in NamedTokens
    BY <2>1 DEF TokensInv, TakerPays
  <2>3. CASE Rest(taker, remaining)
    BY <2>1, <2>2, <2>3, RestInNamed
  <2>4. CASE UNCHANGED <<assets, amounts>>
    BY <2>1, <2>4, NoFundsMove
  <2> QED
    BY <1>2, <2>3, <2>4 DEF ProcessMatched, FinishMatch
<1> QED
  BY <1>1, <1>2 DEF Match

\* Every step keeps the invariant.
LEMMA TokensStep ==
    ASSUME IInv, IInv', TokensInv, [Next]_zexVars
    PROVE  TokensInv'
<1>1. CASE EndBatch \/ AbortBatch \/ UNCHANGED zexVars
  BY <1>1, NoFundsMove
  DEF EndBatch, AbortBatch, GetOrderBookUpdate, zexVars, engineVars,
      accountVars, depositVars
<1> QED
  BY <1>1, TransactionInNamed, MatchInNamed DEF Next

\* The invariant keeps the ids apart, and balances in named tokens.
LEMMA TokensInvApart == IInv /\ TokensInv => TokensApart
<1>1. SUFFICES ASSUME TokensInv, NEW c \in Chains, NEW id \in 1 .. MaxTokenId,
                      NEW u \in Users, assets[<<c, id>>][u] # 0
               PROVE  \E x \in DOMAIN contractToId[c] : contractToId[c][x] = id
  BY DEF TokensApart, TokensInv, IdsApart
<1>2. <<c, id>> \in Tokens
  BY AccountsAssumption
<1> QED
  BY <1>1, <1>2 DEF TokensInv, Held, NamedTokens

\* Two contracts of a chain never get one id, whatever is configured and in
\* whatever order deposits name the others; and nobody ever holds a token that
\* no contract stands for, although orders may name any pair.
THEOREM TokensApartHolds == Spec => []TokensApart
<1>1. Init => TokensInv
  BY TokensStart
<1>2. IInv /\ IInv' /\ TokensInv /\ [Next]_zexVars => TokensInv'
  BY TokensStep
<1>3. IInv /\ TokensInv => TokensApart
  BY TokensInvApart
<1> QED
  BY <1>1, <1>2, <1>3, Invariance, PTL DEF Spec
-----------------------------------------------------------------------------
(* What users hold, and what their orders hold *)

FreeOf(A, t) == SumOver(Users, LAMBDA u : A[t][u])

\* It is a number.
LEMMA FreeTypes ==
    ASSUME NEW A \in Balance, NEW t \in Tokens
    PROVE  /\ IsIntegral([u \in Users |-> A[t][u]], Users)
           /\ FreeOf(A, t) \in Int
<1>1. IsIntegral([u \in Users |-> A[t][u]], Users)
  BY DEF IsIntegral, Balance
<1> QED
  BY <1>1, UsersAreFinite, SumStep DEF FreeOf, SumOver

\* One balance changes by v.
Moved(A, k, a, v) == [A EXCEPT ![k][a] = @ + v]

\* So does what users hold of the token.
LEMMA FreeMoves ==
    ASSUME NEW A \in Balance, NEW k \in Tokens, NEW a \in Users, NEW v \in Int,
           NEW t \in Tokens
    PROVE  /\ Moved(A, k, a, v) \in Balance
           /\ FreeOf(Moved(A, k, a, v), t) =
                  FreeOf(A, t) + (IF t = k THEN v ELSE 0)
<1>1. PICK B : B = Moved(A, k, a, v)
  OBVIOUS
<1>2. B \in Balance
  BY <1>1 DEF Balance, Moved
<1> DEFINE f == [u \in Users |-> A[t][u]]
           g == [u \in Users |-> B[t][u]]
<1>3. IsIntegral(f, Users) /\ SumFunctionOnSet(f, Users) \in Int
  BY FreeTypes DEF FreeOf, SumOver
<1>4. CASE t = k
  <2>1. \A u \in Users : g[u] = f[u] + (IF u = a THEN v ELSE 0)
    BY <1>1, <1>4 DEF Balance, Moved
  <2> HIDE DEF f, g
  <2>2. SumFunctionOnSet(g, Users) = SumFunctionOnSet(f, Users) + v
    BY <1>3, <2>1, UsersAreFinite, SumChange
  <2> QED
    BY <1>1, <1>2, <1>4, <2>2 DEF FreeOf, SumOver, f, g
<1>5. CASE t # k
  <2>1. \A u \in Users : g[u] = f[u]
    BY <1>1, <1>5 DEF Balance, Moved
  <2> HIDE DEF f, g
  <2>2. SumFunctionOnSet(g, Users) = SumFunctionOnSet(f, Users)
    BY <1>3, <2>1, UsersAreFinite, SumAgree
  <2> QED
    BY <1>1, <1>2, <1>3, <1>5, <2>2 DEF FreeOf, SumOver, f, g
<1> QED
  BY <1>4, <1>5

Taken(A, k, a, v) == [A EXCEPT ![k][a] = @ - v]

\* To take v from a balance is to add its opposite.
LEMMA TakenIsMoved ==
    ASSUME NEW A \in Balance, NEW k \in Tokens, NEW a \in Users, NEW v \in Int,
           NEW w \in Int, w = - v
    PROVE  Taken(A, k, a, v) = Moved(A, k, a, w)
<1>1. A[k][a] \in Int
  BY DEF Balance
<1>2. A[k][a] - v = A[k][a] + w
  BY <1>1
<1> QED
  BY <1>2 DEF Moved, Taken

\* The orders that pay in a token, and what a unit of an order is worth in it.
Paying(t) == {o \in Order : PayToken(o) = t}

Rate == [o \in Order |-> IF o.side = "buy" THEN o.price ELSE 1]

LockedIn(F, t) == Total(F, Paying(t), Rate)

Funds(A, F, t) == FreeOf(A, t) + LockedIn(F, t)

\* A rate is a number, and what an order holds is its amount at its rate.
LEMMA RateTypes ==
    /\ Rate \in [Order -> Int]
    /\ \A o \in Order : \A q \in Int : q * Rate[o] = Cost(o, q)
<1>1. \A o \in Order : o.price \in Int
  BY DEF Order
<1> QED
  BY <1>1 DEF Rate, Cost

\* What the orders hold, written over those that pay in the token.
LEMMA LockedIsTotal ==
    ASSUME IsAmounts(amounts), NEW t
    PROVE  LockedIn(amounts, t) = Locked(t)
<1> DEFINE S == {o \in DOMAIN amounts : PayToken(o) = t}
<1>1. DOMAIN amounts \cap Paying(t) = S
  BY DEF Paying, IsAmounts
<1>2. \A o \in DOMAIN amounts : amounts[o] * Rate[o] = Cost(o, amounts[o])
  BY RateTypes DEF IsAmounts
<1>3. Shares(amounts, Paying(t), Rate) = [o \in S |-> Cost(o, amounts[o])]
  BY <1>1, <1>2 DEF Shares
<1> QED
  BY <1>1, <1>3 DEF LockedIn, Total, Locked, SumOver

\* Funds are numbers.
LEMMA FundsTypes ==
    ASSUME NEW A \in Balance, NEW F, IsAmounts(F), NEW t \in Tokens
    PROVE  FreeOf(A, t) \in Int /\ LockedIn(F, t) \in Int
  BY FreeTypes, SharesTypes, RateTypes DEF LockedIn

-----------------------------------------------------------------------------
(* Orders and trades move funds, and leave their sum as it is. *)

\* An order that comes to rest holds what its owner no longer does.
LEMMA RestMoves ==
    ASSUME assets \in Balance, IsAmounts(amounts), NEW o \in Order,
           o \notin DOMAIN amounts, NEW a \in Nat, Rest(o, a), NEW t \in Tokens
    PROVE  /\ IsAmounts(amounts') /\ assets' \in Balance
           /\ Funds(assets', amounts', t) = Funds(assets, amounts, t)
<1>1. PICK v \in Int : v = Cost(o, a) /\ v = a * Rate[o]
  BY PayTypes, RateTypes
<1>2. o.user \in Users /\ PayToken(o) \in Tokens
  BY PayTypes
<1>3. PICK w \in Int : w = - v
  OBVIOUS
<1>4. /\ assets' \in Balance
      /\ FreeOf(assets', t) =
             FreeOf(assets, t) + (IF t = PayToken(o) THEN w ELSE 0)
  <2>1. assets' = Taken(assets, PayToken(o), o.user, v)
    BY <1>1 DEF Rest, Debit, Taken
  <2>2. assets' = Moved(assets, PayToken(o), o.user, w)
    BY <1>2, <1>3, <2>1, TakenIsMoved
  <2> QED
    BY <1>2, <2>2, FreeMoves
<1>5. /\ IsAmounts(amounts')
      /\ LockedIn(amounts', t) =
             LockedIn(amounts, t) + (IF o \in Paying(t) THEN v ELSE 0)
  <2>1. /\ IsAmounts(Put(amounts, o, a))
        /\ LockedIn(Put(amounts, o, a), t) =
               LockedIn(amounts, t) + (IF o \in Paying(t) THEN a * Rate[o] ELSE 0)
    <3>1. Rate \in [Order -> Int]
      BY RateTypes
    <3> QED
      BY <3>1, TotalGrows DEF LockedIn
  <2>2. amounts' = Put(amounts, o, a)
    BY DEF Rest
  <2> QED
    BY <1>1, <2>1, <2>2
<1>6. FreeOf(assets, t) \in Int /\ LockedIn(amounts, t) \in Int
  BY FundsTypes
<1>7. o \in Paying(t) <=> t = PayToken(o)
  BY DEF Paying
<1> QED
  BY <1>3, <1>4, <1>5, <1>6, <1>7 DEF Funds

\* A cancelled order gives back what it still holds.
LEMMA CancelMoves ==
    ASSUME assets \in Balance, IsAmounts(amounts), NEW o \in DOMAIN amounts,
           Cancel(o), NEW t \in Tokens
    PROVE  /\ IsAmounts(amounts') /\ assets' \in Balance
           /\ Funds(assets', amounts', t) = Funds(assets, amounts, t)
<1>1. o \in Order /\ amounts[o] \in Nat /\ amounts[o] \in 0 .. amounts[o]
  BY DEF IsAmounts
<1>2. PICK v \in Int : v = Cost(o, amounts[o]) /\ v = amounts[o] * Rate[o]
  BY <1>1, PayTypes, RateTypes
<1>3. o.user \in Users /\ PayToken(o) \in Tokens
  BY <1>1, PayTypes
<1>4. assets' = Moved(assets, PayToken(o), o.user, v)
      /\ amounts' = Drop(amounts, o)
  BY <1>2 DEF Cancel, Forget, Moved
<1>5. /\ assets' \in Balance
      /\ FreeOf(assets', t) =
             FreeOf(assets, t) + (IF t = PayToken(o) THEN v ELSE 0)
  BY <1>3, <1>4, FreeMoves
<1>6. /\ IsAmounts(amounts')
      /\ LockedIn(amounts', t) =
             LockedIn(amounts, t) - (IF o \in Paying(t) THEN v ELSE 0)
  <2>1. /\ IsAmounts(amounts')
        /\ LockedIn(amounts', t) =
               LockedIn(amounts, t) -
                   (IF o \in Paying(t) THEN amounts[o] * Rate[o] ELSE 0)
    BY <1>1, <1>4, RateTypes, TotalShrinks DEF LockedIn
  <2> QED
    BY <1>2, <2>1
<1>7. FreeOf(assets, t) \in Int /\ LockedIn(amounts, t) \in Int
  BY FundsTypes
<1>8. o \in Paying(t) <=> t = PayToken(o)
  BY <1>1 DEF Paying
<1> QED
  BY <1>5, <1>6, <1>7, <1>8 DEF Funds

\* What a trade makes of the balances.
LEMMA SettleMoves ==
    ASSUME NEW o \in Order, NEW h \in Order, NEW q \in Int, NEW p \in Int,
           assets \in Balance, NEW paid \in Int, paid = Paid(o, q, p),
           Settle(o, h, q, p), NEW x \in Int, x = p * q, NEW t \in Tokens
    PROVE  /\ assets' \in Balance
           /\ FreeOf(assets', t) = FreeOf(assets, t)
                  + (IF t = Base(o.market) THEN q ELSE 0)
                  + (IF t = Quote(o.market) THEN x ELSE 0)
                  - (IF t = PayToken(o) THEN paid ELSE 0)
<1>1. PICK b \in Users : b = IF o.side = "buy" THEN o.user ELSE h.user
  BY PayTypes
<1>2. PICK s \in Users : s = IF o.side = "buy" THEN h.user ELSE o.user
  BY PayTypes
<1>3. /\ Base(o.market) \in Tokens /\ Quote(o.market) \in Tokens
      /\ PayToken(o) \in Tokens /\ o.user \in Users
  BY PayTypes, PairTypes
<1>4. PICK base : base = Moved(assets, Base(o.market), b, q)
  OBVIOUS
<1>5. PICK quote : quote = Moved(base, Quote(o.market), s, x)
  OBVIOUS
<1>6. assets' = Taken(quote, PayToken(o), o.user, paid)
  BY <1>1, <1>2, <1>4, <1>5 DEF Settle, Moved, Taken
<1>7. /\ base \in Balance
      /\ FreeOf(base, t) =
             FreeOf(assets, t) + (IF t = Base(o.market) THEN q ELSE 0)
  BY <1>3, <1>4, FreeMoves
<1>8. /\ quote \in Balance
      /\ FreeOf(quote, t) =
             FreeOf(base, t) + (IF t = Quote(o.market) THEN x ELSE 0)
  BY <1>3, <1>5, <1>7, FreeMoves
<1>9. PICK w \in Int : w = - paid
  OBVIOUS
<1>10. /\ assets' \in Balance
       /\ FreeOf(assets', t) =
              FreeOf(quote, t) + (IF t = PayToken(o) THEN w ELSE 0)
  <2>1. assets' = Moved(quote, PayToken(o), o.user, w)
    BY <1>3, <1>6, <1>8, <1>9, TakenIsMoved
  <2> QED
    BY <1>3, <1>8, <2>1, FreeMoves
<1>11. FreeOf(assets, t) \in Int
  BY FreeTypes
<1> QED
  BY <1>7, <1>8, <1>9, <1>10, <1>11

\* What a trade gives to one side, the other side's order held, or the incoming
\* order pays; and the difference between the two limits stays with the taker.
LEMMA TradeMoves ==
    ASSUME IInv, IsAmounts(amounts), fault = "none", taker # NoTaker, NEW h,
           ExecuteTrade(h), NEW t \in Tokens
    PROVE  /\ IsAmounts(amounts') /\ assets' \in Balance
           /\ Funds(assets', amounts', t) = Funds(assets, amounts, t)
<1>1. /\ taker \in Order /\ h \in Order /\ h \in DOMAIN amounts
      /\ h.market = taker.market /\ h.side = Other(taker.side)
      /\ h.price \in Nat /\ amounts[h] \in Nat
      /\ TradeAmount(h) \in 0 .. amounts[h]
      /\ assets \in Balance
  BY TradedHead, TokenTypes DEF ExecuteTrade, Heads, IInv, EngineInv
<1>2. PICK q \in 0 .. amounts[h] : q = TradeAmount(h)
  BY <1>1
<1>3. PICK p \in Int : p = h.price
  BY <1>1
<1>4. PICK x \in Int : x = p * q
  BY <1>1
<1>5. /\ taker.side = "buy" => Paid(taker, q, p) = x /\ q * Rate[h] = q
      /\ taker.side # "buy" => Paid(taker, q, p) = q /\ q * Rate[h] = x
  <2>1. Rate[h] = IF h.side = "buy" THEN p ELSE 1
    BY <1>1, <1>3 DEF Rate
  <2>2. h.side = "buy" <=> taker.side # "buy"
    BY <1>1, PayTypes DEF Other, Sides
  <2>3. q * p = x /\ q * 1 = q
    BY <1>1, <1>4
  <2> QED
    BY <2>1, <2>2, <2>3 DEF Paid
<1>6. PICK paid \in Int : paid = Paid(taker, q, p)
  BY <1>1, <1>5
<1>7. PICK v \in Int : v = q * Rate[h]
  BY <1>1, <1>5
<1>8. Settle(taker, h, q, p)
  BY <1>2, <1>3 DEF ExecuteTrade
<1>9. /\ assets' \in Balance
      /\ FreeOf(assets', t) = FreeOf(assets, t)
             + (IF t = Base(taker.market) THEN q ELSE 0)
             + (IF t = Quote(taker.market) THEN x ELSE 0)
             - (IF t = PayToken(taker) THEN paid ELSE 0)
  <2>1. taker \in Order /\ h \in Order /\ assets \in Balance
    BY <1>1
  <2>2. q \in Int
    BY <1>1
  <2> QED
    BY <1>4, <1>6, <1>8, <2>1, <2>2, SettleMoves
<1>10. \/ amounts' = [amounts EXCEPT ![h] = @ - q]
       \/ amounts' = Drop(amounts, h) /\ q = amounts[h]
  <2>1. CASE amounts[h] > q
    BY <1>2, <2>1 DEF ExecuteTrade
  <2>2. CASE ~ (amounts[h] > q)
    BY <1>1, <1>2, <2>2 DEF ExecuteTrade, Forget
  <2> QED
    BY <2>1, <2>2
<1>11. /\ IsAmounts(amounts')
       /\ LockedIn(amounts', t) =
              LockedIn(amounts, t) - (IF h \in Paying(t) THEN v ELSE 0)
  <2>1. /\ IsAmounts(amounts')
        /\ LockedIn(amounts', t) =
               LockedIn(amounts, t) -
                   (IF h \in Paying(t) THEN q * Rate[h] ELSE 0)
    <3>1. Rate \in [Order -> Int] /\ h \in DOMAIN amounts
      BY <1>1, RateTypes
    <3> QED
      BY <1>10, <3>1, TotalShrinks DEF LockedIn
  <2> QED
    BY <1>7, <2>1
<1>12. FreeOf(assets, t) \in Int /\ LockedIn(amounts, t) \in Int
  BY <1>1, FundsTypes
<1>13. /\ taker.side = "buy" => /\ PayToken(taker) = Quote(taker.market)
                                /\ h \in Paying(t) <=> t = Base(taker.market)
       /\ taker.side # "buy" => /\ PayToken(taker) = Base(taker.market)
                                /\ h \in Paying(t) <=> t = Quote(taker.market)
  BY <1>1, PayTypes DEF Paying, PayToken, Other, Sides
<1>14. /\ taker.side = "buy" => paid = x /\ v = q
       /\ taker.side # "buy" => paid = q /\ v = x
  BY <1>5, <1>6, <1>7
<1>15. q \in Int
  BY <1>1
<1>16. FreeOf(assets', t) + LockedIn(amounts', t)
           = FreeOf(assets, t) + LockedIn(amounts, t)
  <2>1. CASE taker.side = "buy"
    BY <1>9, <1>11, <1>12, <1>13, <1>14, <1>15, <2>1
  <2>2. CASE taker.side # "buy"
    BY <1>9, <1>11, <1>12, <1>13, <1>14, <1>15, <2>2
  <2> QED
    BY <2>1, <2>2
<1> QED
  BY <1>9, <1>11, <1>16 DEF Funds

-----------------------------------------------------------------------------
(* What deposits and withdrawals add up to *)

\* An entry more in a list of deposits or withdrawals.
LEMMA TotalAppends ==
    ASSUME NEW E, \A x \in E : x.amount \in Int,
           NEW list \in Seq(E), NEW e \in E, NEW t
    PROVE  /\ TotalOf(list, t) \in Int
           /\ TotalOf(Append(list, e), t) =
                  TotalOf(list, t) + (IF e.token = t THEN e.amount ELSE 0)
<1> DEFINE n == Len(list)
           S == {i \in DOMAIN list : list[i].token = t}
           f == [i \in S |-> list[i].amount]
<1>1. PICK L : L = Append(list, e)
  OBVIOUS
<1> DEFINE T == {i \in DOMAIN L : L[i].token = t}
           g == [i \in T |-> L[i].amount]
<1>2. /\ n \in Nat /\ DOMAIN list = 1 .. n /\ DOMAIN L = 1 .. (n + 1)
      /\ L[n + 1] = e
      /\ \A i \in 1 .. n : L[i] = list[i] /\ list[i] \in E
  BY <1>1
<1>3. IsFiniteSet(S) /\ n + 1 \notin S
  <2>1. IsFiniteSet(1 .. n) /\ S \subseteq 1 .. n
    BY <1>2, FS_Interval
  <2>2. n + 1 \notin 1 .. n
    BY <1>2
  <2> QED
    BY <2>1, <2>2, FS_Subset
<1>4. IsIntegral(f, S)
  BY <1>2 DEF IsIntegral
<1>5. SumFunctionOnSet(f, S) \in Int
  BY <1>3, <1>4, SumStep
<1>6. T = S \cup (IF e.token = t THEN {n + 1} ELSE {})
  <2>1. 1 .. (n + 1) = (1 .. n) \cup {n + 1}
    BY <1>2
  <2> QED
    BY <1>2, <2>1
<1>7. \A i \in S : g[i] = f[i]
  BY <1>2, <1>6
<1>10. /\ TotalOf(list, t) = SumFunctionOnSet(f, S)
       /\ TotalOf(Append(list, e), t) = SumFunctionOnSet(g, T)
  BY <1>1 DEF TotalOf, SumOver
<1>8. CASE e.token = t
  <2>1. T = S \cup {n + 1} /\ g[n + 1] = e.amount /\ g[n + 1] \in Int
    BY <1>2, <1>6, <1>8
  <2> HIDE DEF f, g, S, T, n
  <2>2. SumFunctionOnSet(g, S \cup {n + 1}) =
            SumFunctionOnSet(f, S) + g[n + 1]
    BY <1>3, <1>4, <1>7, <2>1, SumAdd
  <2> QED
    BY <1>5, <1>8, <1>10, <2>1, <2>2
<1>9. CASE e.token # t
  <2>1. T = S
    BY <1>6, <1>9
  <2> HIDE DEF f, g, S, T, n
  <2>2. SumFunctionOnSet(g, S) = SumFunctionOnSet(f, S)
    BY <1>3, <1>4, <1>7, SumAgree
  <2> QED
    BY <1>5, <1>9, <1>10, <2>1, <2>2
<1> QED
  BY <1>8, <1>9

\* An empty list moves nothing.
LEMMA TotalOfNone == ASSUME NEW t PROVE TotalOf(<<>>, t) = 0
<1>1. {i \in DOMAIN <<>> : <<>>[i].token = t} = {}
  OBVIOUS
<1> QED
  BY <1>1, SumEmpty DEF TotalOf, SumOver

Credits == [token : Tokens, amount : Nat]

ListsTyped ==
    /\ userDeposits \in [Users -> Seq(Credits)]
    /\ withdraws \in [Chains -> Seq(Withdrawals)]

DepositedIn(D, t) == SumOver(Users, LAMBDA u : TotalOf(D[u], t))

WithdrawnIn(W, t) == TotalOf(W[ChainOf(t)], t)

\* Entries carry numbers.
LEMMA EntryAmounts ==
    /\ \A e \in Credits : e.amount \in Int
    /\ \A w \in Withdrawals : w.amount \in Int
<1>1. WithdrawAmounts \subseteq Int
  BY ZexAssumption
<1>2. \A w \in Withdrawals : w.amount \in WithdrawAmounts
  BY DEF Withdrawals
<1>3. \A e \in Credits : e.amount \in Int
  BY DEF Credits
<1> QED
  BY <1>1, <1>2, <1>3

\* What the lists add up to is a number.
LEMMA ListTotals ==
    ASSUME ListsTyped, NEW t \in Tokens
    PROVE  /\ IsIntegral([u \in Users |-> TotalOf(userDeposits[u], t)], Users)
           /\ DepositedIn(userDeposits, t) \in Int
           /\ WithdrawnIn(withdraws, t) \in Int
<1>1. ASSUME NEW u \in Users
      PROVE  TotalOf(userDeposits[u], t) \in Int
  <2>1. userDeposits[u] \in Seq(Credits)
    BY DEF ListsTyped
  <2>2. [token |-> t, amount |-> 0] \in Credits
    BY DEF Credits
  <2> QED
    BY <2>1, <2>2, EntryAmounts, TotalAppends
<1>2. IsIntegral([u \in Users |-> TotalOf(userDeposits[u], t)], Users)
  BY <1>1 DEF IsIntegral
<1>3. DepositedIn(userDeposits, t) \in Int
  BY <1>2, UsersAreFinite, SumStep DEF DepositedIn, SumOver
<1>4. WithdrawnIn(withdraws, t) \in Int
  <2>1. withdraws[ChainOf(t)] \in Seq(Withdrawals)
    BY AccountsAssumption DEF ListsTyped, ChainOf
  <2>2. CASE withdraws[ChainOf(t)] = <<>>
    BY <2>2, TotalOfNone DEF WithdrawnIn
  <2>3. CASE withdraws[ChainOf(t)] # <<>>
    <3>1. withdraws[ChainOf(t)][1] \in Withdrawals
      BY <2>1, <2>3
    <3> QED
      BY <2>1, <3>1, EntryAmounts, TotalAppends DEF WithdrawnIn
  <2> QED
    BY <2>2, <2>3
<1> QED
  BY <1>2, <1>3, <1>4

-----------------------------------------------------------------------------
(* Deposits and withdrawals move funds as much as the lists say. *)

Came(D, W, t) == InitialFunds(t) + DepositedIn(D, t) - WithdrawnIn(W, t)

Conserved ==
    \A t \in Tokens :
        Funds(assets, amounts, t) = Came(userDeposits, withdraws, t)

FundsInv == ListsTyped /\ Conserved

\* What a test node starts with is a number.
LEMMA InitialFundsTypes ==
    ASSUME NEW t
    PROVE  /\ InitialSet \in SUBSET Users /\ Cardinality(InitialSet) \in Nat
           /\ InitialFunds(t) \in Int
<1>1. InitialSet \in SUBSET Users
  BY ZexAssumption DEF InitialSet
<1>2. Cardinality(InitialSet) \in Nat
  BY <1>1, UsersAreFinite, FS_Subset, FS_CardinalityType
<1>3. InitialBalance * Cardinality(InitialSet) \in Int
  BY <1>2, ZexAssumption
<1> QED
  BY <1>1, <1>2, <1>3 DEF InitialFunds

\* Operations that move funds between users and orders only.
LEMMA FundsStay ==
    ASSUME FundsInv, UNCHANGED <<userDeposits, withdraws>>,
           \A t \in Tokens :
               Funds(assets', amounts', t) = Funds(assets, amounts, t)
    PROVE  FundsInv'
<1>1. ListsTyped'
  BY DEF FundsInv, ListsTyped
<1>2. Conserved'
  BY DEF FundsInv, Conserved
<1> QED
  BY <1>1, <1>2 DEF FundsInv

\* What is deposited is a token, and who it is for has been registered.
LEMMA DepositedWhere ==
    ASSUME IInv, NEW d \in Deposits, Deposit(d)
    PROVE  /\ d.chain \in Chains
           /\ <<d.chain, TokenIdOf(d)>> \in Tokens
           /\ idToPublic[d.user] \in Users
<1>1. d.chain \in Chains /\ TokenIdOf(d) <= MaxTokenId
  BY ZexAssumption DEF Deposit
<1>2. TokenIdOf(d) \in Nat /\ TokenIdOf(d) >= 1
  <2>1. /\ \A x \in DOMAIN contractToId[d.chain] :
               contractToId[d.chain][x] \in 1 .. MaxTokenId
        /\ lastTokenId[d.chain] \in 0 .. MaxTokenId /\ MaxTokenId \in Nat
    BY <1>1, AccountsAssumption DEF IInv, AccountTypeOK
  <2> QED
    BY <2>1 DEF TokenIdOf
<1>3. TokenIdOf(d) \in 1 .. MaxTokenId
  BY <1>1, <1>2, AccountsAssumption
<1>4. d.user \in Nat /\ lastUserId \in Nat
      /\ ~ (d.user < 1) /\ ~ (lastUserId < d.user)
  BY ZexAssumption DEF Deposit, DepositIgnored, IInv, AccountTypeOK
<1>5. d.user \in 1 .. lastUserId
  BY <1>4
<1>6. idToPublic[d.user] \in Users
  BY <1>5 DEF IInv, AccountTypeOK
<1> QED
  BY <1>1, <1>3, <1>6, AccountsAssumption

\* A deposit adds to a balance what it adds to the user's list.
LEMMA DepositMovesFunds ==
    ASSUME IInv, IsAmounts(amounts), FundsInv, NEW d \in Deposits, Deposit(d)
    PROVE  FundsInv'
<1>1. PICK k : k = <<d.chain, TokenIdOf(d)>>
  OBVIOUS
<1>2. PICK a : a = idToPublic[d.user]
  OBVIOUS
<1>3. PICK v \in Nat : v = d.amount
  BY ZexAssumption
<1>4. k \in Tokens
  BY <1>1, DepositedWhere
<1>5. a \in Users
  BY <1>2, DepositedWhere
<1>6. PICK e : e = [token |-> k, amount |-> v]
  OBVIOUS
<1>7. e \in Credits /\ e.token = k /\ e.amount = v
  BY <1>4, <1>6 DEF Credits
<1>8. /\ userDeposits' = [userDeposits EXCEPT ![a] = Append(@, e)]
      /\ UNCHANGED <<amounts, withdraws>>
      /\ assets' = Moved(assets, k, a, v)
  BY <1>1, <1>2, <1>3, <1>6 DEF Deposit, Moved, bookkeeping, withdrawVars
<1>9. userDeposits \in [Users -> Seq(Credits)]
      /\ userDeposits[a] \in Seq(Credits)
  BY <1>5 DEF FundsInv, ListsTyped
<1>10. ListsTyped'
  <2>1. Append(userDeposits[a], e) \in Seq(Credits)
    BY <1>7, <1>9
  <2> QED
    BY <1>8, <1>9, <2>1 DEF FundsInv, ListsTyped
<1>11. ASSUME NEW t \in Tokens
       PROVE  DepositedIn(userDeposits', t) =
                  DepositedIn(userDeposits, t) + (IF t = k THEN v ELSE 0)
  <2> DEFINE f == [u \in Users |-> TotalOf(userDeposits[u], t)]
             g == [u \in Users |-> TotalOf(userDeposits'[u], t)]
  <2>1. IsIntegral(f, Users)
    BY ListTotals DEF FundsInv
  <2>2. PICK w \in Int : w = IF t = k THEN v ELSE 0
    OBVIOUS
  <2>3. TotalOf(Append(userDeposits[a], e), t) =
            TotalOf(userDeposits[a], t) + (IF e.token = t THEN e.amount ELSE 0)
    BY <1>7, <1>9, EntryAmounts, TotalAppends
  <2>4. g[a] = f[a] + w
    BY <1>5, <1>7, <1>8, <1>9, <2>2, <2>3
  <2>5. \A u \in Users : u # a => g[u] = f[u]
    BY <1>8, <1>9
  <2>6. \A u \in Users : g[u] = f[u] + (IF u = a THEN w ELSE 0)
    BY <2>1, <2>4, <2>5 DEF IsIntegral
  <2> HIDE DEF f, g
  <2>7. SumFunctionOnSet(g, Users) = SumFunctionOnSet(f, Users) + w
    BY <1>5, <2>1, <2>6, UsersAreFinite, SumChange
  <2> QED
    BY <2>2, <2>7 DEF DepositedIn, SumOver, f, g
<1>12. ASSUME NEW t \in Tokens
       PROVE  Funds(assets', amounts', t) =
                  Came(userDeposits', withdraws', t)
  <2>1. assets \in Balance
    BY TokenTypes
  <2>2. FreeOf(assets', t) = FreeOf(assets, t) + (IF t = k THEN v ELSE 0)
    BY <1>4, <1>5, <1>8, <2>1, FreeMoves
  <2>3. FreeOf(assets, t) \in Int /\ LockedIn(amounts, t) \in Int
    BY <2>1, FundsTypes
  <2>4. /\ DepositedIn(userDeposits, t) \in Int
        /\ WithdrawnIn(withdraws, t) \in Int /\ InitialFunds(t) \in Int
    BY ListTotals, InitialFundsTypes DEF FundsInv
  <2>5. FreeOf(assets, t) + LockedIn(amounts, t) =
            InitialFunds(t) + DepositedIn(userDeposits, t)
                - WithdrawnIn(withdraws, t)
    BY DEF FundsInv, Conserved, Funds, Came
  <2>6. LockedIn(amounts', t) = LockedIn(amounts, t)
        /\ WithdrawnIn(withdraws', t) = WithdrawnIn(withdraws, t)
    BY <1>8
  <2>7. DepositedIn(userDeposits', t) =
            DepositedIn(userDeposits, t) + (IF t = k THEN v ELSE 0)
    BY <1>11
  <2> QED
    BY <2>2, <2>3, <2>4, <2>5, <2>6, <2>7 DEF Funds, Came
<1>13. Conserved'
  BY <1>12 DEF Conserved
<1> QED
  BY <1>10, <1>13 DEF FundsInv

\* A withdrawal takes from a balance what it adds to the chain's log.
LEMMA WithdrawMovesFunds ==
    ASSUME IInv, IsAmounts(amounts), FundsInv, NEW w \in Withdrawals,
           Withdraw(w)
    PROVE  FundsInv'
<1>1. w.token \in Tokens /\ w.user \in Users /\ w.amount \in Int
  BY EntryAmounts DEF Withdrawals
<1>2. PICK c \in Chains : c = ChainOf(w.token)
  BY <1>1, AccountsAssumption DEF ChainOf
<1>3. PICK v \in Int : v = - w.amount
  BY <1>1
<1>4. /\ withdraws' = [withdraws EXCEPT ![c] = Append(@, w)]
      /\ UNCHANGED <<amounts, userDeposits>>
      /\ assets' = Taken(assets, w.token, w.user, w.amount)
  BY <1>2 DEF Withdraw, Taken, bookkeeping, depositVars
<1>5. assets \in Balance
  BY TokenTypes
<1>6. assets' = Moved(assets, w.token, w.user, v)
  BY <1>1, <1>3, <1>4, <1>5, TakenIsMoved
<1>7. withdraws \in [Chains -> Seq(Withdrawals)]
  BY DEF FundsInv, ListsTyped
<1>8. ListsTyped'
  BY <1>4, <1>7 DEF FundsInv, ListsTyped
<1>9. ASSUME NEW t \in Tokens
      PROVE  WithdrawnIn(withdraws', t) =
                 WithdrawnIn(withdraws, t)
                     + (IF w.token = t THEN w.amount ELSE 0)
  <2>1. WithdrawnIn(withdraws, t) \in Int
    BY ListTotals DEF FundsInv
  <2>2. ChainOf(t) \in Chains
    BY AccountsAssumption DEF ChainOf
  <2>3. CASE ChainOf(t) = c
    <3>1. TotalOf(Append(withdraws[c], w), t) =
              TotalOf(withdraws[c], t) + (IF w.token = t THEN w.amount ELSE 0)
      BY <1>7, EntryAmounts, TotalAppends
    <3>2. withdraws'[c] = Append(withdraws[c], w)
      BY <1>4, <1>7
    <3> QED
      BY <2>3, <3>1, <3>2 DEF WithdrawnIn
  <2>4. CASE ChainOf(t) # c
    <3>1. withdraws'[ChainOf(t)] = withdraws[ChainOf(t)] /\ w.token # t
      BY <1>2, <1>4, <1>7, <2>2, <2>4
    <3> QED
      BY <2>1, <3>1 DEF WithdrawnIn
  <2> QED
    BY <2>3, <2>4
<1>10. ASSUME NEW t \in Tokens
       PROVE  Funds(assets', amounts', t) =
                  Came(userDeposits', withdraws', t)
  <2>1. FreeOf(assets', t) = FreeOf(assets, t) + (IF t = w.token THEN v ELSE 0)
    BY <1>1, <1>5, <1>6, FreeMoves
  <2>2. FreeOf(assets, t) \in Int /\ LockedIn(amounts, t) \in Int
    BY <1>5, FundsTypes
  <2>3. /\ DepositedIn(userDeposits, t) \in Int
        /\ WithdrawnIn(withdraws, t) \in Int /\ InitialFunds(t) \in Int
    BY ListTotals, InitialFundsTypes DEF FundsInv
  <2>4. FreeOf(assets, t) + LockedIn(amounts, t) =
            InitialFunds(t) + DepositedIn(userDeposits, t)
                - WithdrawnIn(withdraws, t)
    BY DEF FundsInv, Conserved, Funds, Came
  <2>5. LockedIn(amounts', t) = LockedIn(amounts, t)
        /\ DepositedIn(userDeposits', t) = DepositedIn(userDeposits, t)
    BY <1>4
  <2>6. WithdrawnIn(withdraws', t) =
            WithdrawnIn(withdraws, t) + (IF w.token = t THEN w.amount ELSE 0)
    BY <1>9
  <2> QED
    BY <1>1, <1>3, <2>1, <2>2, <2>3, <2>4, <2>5, <2>6 DEF Funds, Came
<1>11. Conserved'
  BY <1>10 DEF Conserved
<1> QED
  BY <1>8, <1>11 DEF FundsInv

\* What process does with one transaction.
LEMMA TransactionMovesFunds ==
    ASSUME IInv, IsAmounts(amounts), OneOrderPerNonce, FundsInv,
           ProcessTransaction
    PROVE  FundsInv'
<1>0. assets \in Balance
  BY TokenTypes
<1>1. ASSUME NEW u \in Users, NEW f \in Offers, ProcessOrder(u, f)
      PROVE  FundsInv'
  <2>1. PICK o \in Order : o = OrderOf(f, u) /\ o \notin DOMAIN amounts
    BY NewOrder
  <2>2. UNCHANGED <<userDeposits, withdraws>>
    BY <1>1 DEF ProcessOrder, depositVars, withdrawVars
  <2>3. CASE Place(o)
    <3>1. o.amount \in Nat /\ Rest(o, o.amount)
      BY <2>3, PayTypes DEF Place
    <3> QED
      BY <1>0, <2>1, <2>2, <3>1, RestMoves, FundsStay
  <2>4. CASE UNCHANGED <<assets, amounts>>
    BY <2>2, <2>4, FundsStay
  <2> QED
    BY <1>1, <2>1, <2>3, <2>4 DEF ProcessOrder, MatchInstantly, engineVars
<1>2. ASSUME NEW u \in Users, NEW o \in orders[u], ProcessCancel(o)
      PROVE  FundsInv'
  <2>1. fault = "none" /\ Cancel(o) /\ UNCHANGED <<userDeposits, withdraws>>
    BY <1>2 DEF ProcessCancel, Idle, accountVars, depositVars, withdrawVars
  <2>2. o \in DOMAIN amounts
    BY <1>2, <2>1, RestingOrder DEF IInv
  <2> QED
    BY <1>0, <2>1, <2>2, CancelMoves, FundsStay
<1>3. ASSUME NEW d \in Deposits, ProcessDeposit(d)
      PROVE  FundsInv'
  BY <1>3, DepositMovesFunds DEF ProcessDeposit
<1>4. ASSUME NEW w \in Withdrawals, Withdraw(w)
      PROVE  FundsInv'
  BY <1>4, WithdrawMovesFunds
<1>5. CASE UNCHANGED <<assets, amounts, userDeposits, withdraws>>
  BY <1>5, FundsStay
<1> QED
  BY <1>1, <1>2, <1>3, <1>4, <1>5
  DEF ProcessTransaction, ProcessRegister, Register, ProcessWithdraw,
      WithdrawFault, KeyFault, accountVars, depositVars, withdrawVars,
      bookkeeping, ProcessBadNonce, ProcessCancelFault

\* An iteration of the matching loop, or its end.
LEMMA MatchMovesFunds ==
    ASSUME IInv, AmountsInv, FundsInv, Match
    PROVE  FundsInv'
<1>1. /\ fault = "none" /\ taker # NoTaker /\ taker \in Order
      /\ remaining \in Nat /\ UNCHANGED <<userDeposits, withdraws>>
  BY DEF Match, ProcessTrade, ProcessMatched, IInv, EngineInv, EngineTypeOK,
         accountVars, depositVars, withdrawVars
<1>2. IsAmounts(amounts) /\ taker \notin DOMAIN amounts /\ assets \in Balance
  BY TokenTypes DEF AmountsInv, TakerRestsNot
<1>3. CASE ProcessTrade
  <2>1. PICK h : ExecuteTrade(h) \/ ExecuteTradeFault(h)
    BY <1>3 DEF ProcessTrade
  <2>2. CASE ExecuteTrade(h)
    BY <1>1, <1>2, <2>2, TradeMoves, FundsStay
  <2>3. CASE ExecuteTradeFault(h)
    BY <1>1, <2>3, FundsStay DEF ExecuteTradeFault
  <2> QED
    BY <2>1, <2>2, <2>3
<1>4. CASE ProcessMatched
  <2>1. CASE Rest(taker, remaining)
    BY <1>1, <1>2, <2>1, RestMoves, FundsStay
  <2>2. CASE UNCHANGED <<assets, amounts>>
    BY <1>1, <2>2, FundsStay
  <2> QED
    BY <1>4, <2>1, <2>2 DEF ProcessMatched, FinishMatch
<1> QED
  BY <1>3, <1>4 DEF Match

\* Every step moves funds as the lists say.
LEMMA FundsStep ==
    ASSUME IInv, AmountsInv, OneOrderPerNonce, FundsInv, [Next]_zexVars
    PROVE  FundsInv'
<1>1. CASE EndBatch \/ AbortBatch \/ UNCHANGED zexVars
  <2>1. UNCHANGED <<assets, amounts, userDeposits, withdraws>>
    BY <1>1 DEF EndBatch, AbortBatch, GetOrderBookUpdate, zexVars, engineVars,
                accountVars, depositVars, withdrawVars
  <2> QED
    BY <2>1, FundsStay
<1>2. IsAmounts(amounts)
  BY DEF AmountsInv
<1> QED
  BY <1>1, <1>2, TransactionMovesFunds, MatchMovesFunds DEF Next

\* A fresh node holds what initialize_test_mode gives it.
LEMMA FundsStart ==
    ASSUME Init
    PROVE  FundsInv
<1>1. /\ assets = InitialAssets /\ amounts = <<>>
      /\ userDeposits = [u \in Users |-> <<>>]
      /\ withdraws = [c \in Chains |-> <<>>]
  BY DEF Init, InitMarkets, InitAccounts
<1>2. ListsTyped
  BY <1>1 DEF ListsTyped
<1>3. ASSUME NEW t \in Tokens
      PROVE  Funds(assets, amounts, t) = Came(userDeposits, withdraws, t)
  <2>1. LockedIn(amounts, t) = 0
    <3>1. DOMAIN amounts \cap Paying(t) = {}
      BY <1>1
    <3> QED
      BY <3>1, SumEmpty DEF LockedIn, Total
  <2>2. DepositedIn(userDeposits, t) = 0
    <3> DEFINE f == [u \in Users |-> TotalOf(userDeposits[u], t)]
    <3>1. \A u \in Users : f[u] = 0
      BY <1>1, TotalOfNone
    <3>2. DepositedIn(userDeposits, t) = SumFunctionOnSet(f, Users)
      BY DEF DepositedIn, SumOver
    <3> HIDE DEF f
    <3> QED
      BY <3>1, <3>2, UsersAreFinite, SumZero
  <2>3. WithdrawnIn(withdraws, t) = 0
    <3>1. ChainOf(t) \in Chains
      BY AccountsAssumption DEF ChainOf
    <3> QED
      BY <1>1, <3>1, TotalOfNone DEF WithdrawnIn
  <2>4. FreeOf(assets, t) = InitialFunds(t)
    <3> DEFINE f == [u \in Users |-> assets[t][u]]
    <3>1. FreeOf(assets, t) = SumFunctionOnSet(f, Users)
      BY DEF FreeOf, SumOver
    <3>2. CASE t \in TestTokens
      <4>1. \A u \in Users :
                f[u] = IF u \in InitialSet THEN InitialBalance ELSE 0
        BY <1>1, <3>2 DEF InitialAssets
      <4>2. InitialBalance \in Int
        BY ZexAssumption
      <4> HIDE DEF f
      <4>3. SumFunctionOnSet(f, Users) =
                InitialBalance * Cardinality(InitialSet)
        BY <4>1, <4>2, InitialFundsTypes, UsersAreFinite, SumOfSame
      <4> QED
        BY <3>1, <3>2, <4>3 DEF InitialFunds
    <3>3. CASE t \notin TestTokens
      <4>1. \A u \in Users : f[u] = 0
        BY <1>1, <3>3 DEF InitialAssets
      <4> HIDE DEF f
      <4>2. SumFunctionOnSet(f, Users) = 0
        BY <4>1, UsersAreFinite, SumZero
      <4> QED
        BY <3>1, <3>3, <4>2 DEF InitialFunds
    <3> QED
      BY <3>2, <3>3
  <2>5. InitialFunds(t) \in Int
    BY InitialFundsTypes
  <2> QED
    BY <2>1, <2>2, <2>3, <2>4, <2>5 DEF Funds, Came
<1> QED
  BY <1>2, <1>3 DEF FundsInv, Conserved

\* Where the lists account for the funds, nothing was created or lost.
LEMMA FundsInvConserves == AmountsInv /\ FundsInv => Conservation
<1>1. SUFFICES ASSUME AmountsInv, FundsInv, NEW t \in Tokens
               PROVE  Free(t) + Locked(t) =
                          InitialFunds(t) + Deposited(t) - Withdrawn(t)
  BY DEF Conservation
<1>2. LockedIn(amounts, t) = Locked(t)
  BY <1>1, LockedIsTotal DEF AmountsInv
<1>3. FreeOf(assets, t) = Free(t)
  BY DEF FreeOf, Free
<1>4. DepositedIn(userDeposits, t) = Deposited(t)
      /\ WithdrawnIn(withdraws, t) = Withdrawn(t)
  BY DEF DepositedIn, Deposited, WithdrawnIn, Withdrawn
<1> QED
  BY <1>1, <1>2, <1>3, <1>4 DEF FundsInv, Conserved, Funds, Came

\* Nothing is created or lost in any token: through every iteration of a match,
\* an order that rests, is cancelled or dies half way, every deposit and every
\* withdrawal, users and orders hold together what came in and did not leave.
THEOREM ConservationHolds == Spec => []Conservation
<1>1. Init => FundsInv
  BY FundsStart
<1>2. IInv /\ AmountsInv /\ OneOrderPerNonce /\ FundsInv /\ [Next]_zexVars
          => FundsInv'
  BY FundsStep
<1>3. AmountsInv /\ FundsInv => Conservation
  BY FundsInvConserves
<1> QED
  BY <1>1, <1>2, <1>3, Invariance, AmountsInvariant, NoncesHold, PTL DEF Spec

-----------------------------------------------------------------------------
(* Deposits are credited once. *)

\* The entries of a list that are of the chain.
OnChain(list, c) == {i \in DOMAIN list : ChainOf(list[i].token) = c}

\* An entry more in a list of deposits.
LEMMA OnChainAppends ==
    ASSUME NEW list \in Seq(Credits), NEW e \in Credits, NEW c
    PROVE  /\ Cardinality(OnChain(list, c)) \in Nat
           /\ Cardinality(OnChain(Append(list, e), c)) =
                  Cardinality(OnChain(list, c))
                      + (IF ChainOf(e.token) = c THEN 1 ELSE 0)
<1> DEFINE n == Len(list)
<1>1. PICK L : L = Append(list, e)
  OBVIOUS
<1>2. /\ n \in Nat /\ DOMAIN list = 1 .. n /\ DOMAIN L = 1 .. (n + 1)
      /\ L[n + 1] = e /\ \A i \in 1 .. n : L[i] = list[i]
  BY <1>1
<1>3. IsFiniteSet(OnChain(list, c)) /\ n + 1 \notin OnChain(list, c)
  <2>1. IsFiniteSet(1 .. n) /\ OnChain(list, c) \subseteq 1 .. n
    BY <1>2, FS_Interval DEF OnChain
  <2>2. n + 1 \notin 1 .. n
    BY <1>2
  <2> QED
    BY <2>1, <2>2, FS_Subset
<1>4. Cardinality(OnChain(list, c)) \in Nat
  BY <1>3, FS_CardinalityType
<1>5. OnChain(L, c) = OnChain(list, c)
                          \cup (IF ChainOf(e.token) = c THEN {n + 1} ELSE {})
  <2>1. 1 .. (n + 1) = (1 .. n) \cup {n + 1}
    BY <1>2
  <2> QED
    BY <1>2, <2>1 DEF OnChain
<1>6. Cardinality(OnChain(L, c)) = Cardinality(OnChain(list, c))
                                       + (IF ChainOf(e.token) = c THEN 1 ELSE 0)
  <2>1. CASE ChainOf(e.token) = c
    <3>1. OnChain(L, c) = OnChain(list, c) \cup {n + 1}
      BY <1>5, <2>1
    <3> QED
      BY <1>3, <2>1, <3>1, FS_AddElement
  <2>2. CASE ChainOf(e.token) # c
    BY <1>4, <1>5, <2>2
  <2> QED
    BY <2>1, <2>2
<1> QED
  BY <1>1, <1>4, <1>6

CreditsIn(D, c) == SumOver(Users, LAMBDA u : Cardinality(OnChain(D[u], c)))

\* The deposits seen are finitely many, as many as were credited.
CreditsInv ==
    /\ userDeposits \in [Users -> Seq(Credits)]
    /\ DOMAIN deposits = Chains
    /\ \A c \in Chains :
           /\ IsFiniteSet(deposits[c])
           /\ Cardinality(deposits[c]) = CreditsIn(userDeposits, c)

\* A deposit that is not ignored has a key of its own.
LEMMA DepositCredits ==
    ASSUME IInv, CreditsInv, NEW d \in Deposits, Deposit(d)
    PROVE  CreditsInv'
<1>1. PICK a \in Users : a = idToPublic[d.user]
  BY DepositedWhere
<1>2. PICK k \in Tokens : k = <<d.chain, TokenIdOf(d)>>
  BY DepositedWhere
<1>3. d.chain \in Chains /\ ChainOf(k) = d.chain
  BY <1>2, DepositedWhere DEF ChainOf
<1>4. PICK e \in Credits : e.token = k /\ e = [token |-> k, amount |-> d.amount]
  BY ZexAssumption DEF Credits
<1>5. /\ userDeposits' = [userDeposits EXCEPT ![a] = Append(@, e)]
      /\ deposits' = [deposits EXCEPT ![d.chain] = @ \cup {d.key}]
      /\ d.key \notin deposits[d.chain]
  BY <1>1, <1>2, <1>4 DEF Deposit, DepositIgnored
<1>6. userDeposits \in [Users -> Seq(Credits)] /\ DOMAIN deposits = Chains
  BY DEF CreditsInv
<1>7. userDeposits' \in [Users -> Seq(Credits)] /\ DOMAIN deposits' = Chains
  <2>1. Append(userDeposits[a], e) \in Seq(Credits)
    BY <1>6
  <2> QED
    BY <1>5, <1>6, <2>1
<1>8. ASSUME NEW c \in Chains
      PROVE  /\ IsFiniteSet(deposits'[c])
             /\ Cardinality(deposits'[c]) = CreditsIn(userDeposits', c)
  <2> DEFINE f == [u \in Users |-> Cardinality(OnChain(userDeposits[u], c))]
             g == [u \in Users |-> Cardinality(OnChain(userDeposits'[u], c))]
  <2>1. PICK v \in Nat : v = IF c = d.chain THEN 1 ELSE 0
    OBVIOUS
  <2>2. ASSUME NEW u \in Users
        PROVE  f[u] \in Nat /\ g[u] = f[u] + (IF u = a THEN v ELSE 0)
    <3>1. userDeposits[u] \in Seq(Credits)
      BY <1>6
    <3>2. /\ f[u] \in Nat
          /\ Cardinality(OnChain(Append(userDeposits[u], e), c)) = f[u] + v
      BY <1>3, <1>4, <2>1, <3>1, OnChainAppends
    <3>3. userDeposits'[u] = IF u = a THEN Append(userDeposits[u], e)
                             ELSE userDeposits[u]
      BY <1>5, <1>6
    <3> QED
      BY <3>2, <3>3
  <2>3. CreditsIn(userDeposits, c) = SumFunctionOnSet(f, Users)
        /\ CreditsIn(userDeposits', c) = SumFunctionOnSet(g, Users)
    BY DEF CreditsIn, SumOver
  <2> HIDE DEF f, g
  <2>4. IsIntegral(f, Users)
    BY <2>2 DEF IsIntegral
  <2>5. SumFunctionOnSet(g, Users) = SumFunctionOnSet(f, Users) + v
    BY <2>2, <2>4, UsersAreFinite, SumChange
  <2>6. /\ IsFiniteSet(deposits'[c])
        /\ Cardinality(deposits'[c]) = Cardinality(deposits[c]) + v
    <3>1. IsFiniteSet(deposits[c]) /\ Cardinality(deposits[c]) \in Nat
      BY FS_CardinalityType DEF CreditsInv
    <3>2. deposits'[c] = IF c = d.chain THEN deposits[c] \cup {d.key}
                         ELSE deposits[c]
      BY <1>3, <1>5, <1>6
    <3>3. CASE c = d.chain
      BY <1>5, <2>1, <3>1, <3>2, <3>3, FS_AddElement
    <3>4. CASE c # d.chain
      BY <2>1, <3>1, <3>2, <3>4
    <3> QED
      BY <3>3, <3>4
  <2>7. Cardinality(deposits[c]) = CreditsIn(userDeposits, c)
    BY DEF CreditsInv
  <2> QED
    BY <2>3, <2>5, <2>6, <2>7
<1> QED
  BY <1>7, <1>8 DEF CreditsInv

\* Nothing else credits a deposit.
LEMMA CreditsStep ==
    ASSUME IInv, CreditsInv, [Next]_zexVars
    PROVE  CreditsInv'
<1>1. ASSUME NEW d \in Deposits, ProcessDeposit(d)
      PROVE  CreditsInv'
  BY <1>1, DepositCredits DEF ProcessDeposit
<1>2. CASE UNCHANGED <<deposits, userDeposits>>
  BY <1>2 DEF CreditsInv
<1> QED
  BY <1>1, <1>2
  DEF Next, ProcessTransaction, ProcessRegister, Register, ProcessWithdraw,
      Withdraw, WithdrawFault, KeyFault, ProcessOrder, ProcessBadNonce,
      ProcessCancel, ProcessCancelFault, Match, ProcessTrade, ProcessMatched,
      EndBatch, AbortBatch, zexVars, accountVars, depositVars

\* A fresh node has seen no deposit and credited none.
LEMMA CreditsStart == Init => CreditsInv
<1>1. SUFFICES ASSUME Init
               PROVE  CreditsInv
  OBVIOUS
<1>2. /\ userDeposits = [u \in Users |-> <<>>]
      /\ deposits = [c \in Chains |-> {}]
  BY <1>1 DEF Init, InitAccounts
<1>3. ASSUME NEW c \in Chains
      PROVE  CreditsIn(userDeposits, c) = 0
  <2> DEFINE f == [u \in Users |-> Cardinality(OnChain(userDeposits[u], c))]
  <2>1. OnChain(<<>>, c) = {}
    BY DEF OnChain
  <2>2. \A u \in Users : f[u] = 0
    BY <1>2, <2>1, FS_EmptySet
  <2>3. CreditsIn(userDeposits, c) = SumFunctionOnSet(f, Users)
    BY DEF CreditsIn, SumOver
  <2> HIDE DEF f
  <2> QED
    BY <2>2, <2>3, UsersAreFinite, SumZero
<1> QED
  BY <1>2, <1>3, FS_EmptySet DEF CreditsInv

\* As many were credited as were seen.
LEMMA CreditsInvOnce == CreditsInv => CreditedOnce
<1>1. SUFFICES ASSUME CreditsInv, NEW c \in Chains
               PROVE  Cardinality(deposits[c]) =
                          SumOver(Users, LAMBDA u : Cardinality(CreditsOn(c, u)))
  BY DEF CreditedOnce
<1>2. CreditsIn(userDeposits, c) =
          SumOver(Users, LAMBDA u : Cardinality(CreditsOn(c, u)))
  BY DEF CreditsIn, OnChain, CreditsOn
<1> QED
  BY <1>1, <1>2 DEF CreditsInv

\* Every deposit the monitors report is credited to one user, once, however often
\* and in whatever order its reports are finalized.
THEOREM CreditedOnceHolds == Spec => []CreditedOnce
<1>1. Init => CreditsInv
  BY CreditsStart
<1>2. IInv /\ CreditsInv /\ [Next]_zexVars => CreditsInv'
  BY CreditsStep
<1>3. CreditsInv => CreditedOnce
  BY CreditsInvOnce
<1> QED
  BY <1>1, <1>2, <1>3, Invariance, PTL DEF Spec

-----------------------------------------------------------------------------
(* Withdrawals are numbered by user and chain. *)

\* The entries of a log W that are the user's.
Own(W, u) == {i \in DOMAIN W : W[i].user = u}

\* The list L of a user and the log W of the chain.
Numbered(W, L, u) ==
    /\ \A n \in DOMAIN L : /\ L[n].nonce = n - 1
                           /\ \E i \in Own(W, u) : W[i] = L[n]
    /\ \A i \in Own(W, u) : /\ W[i].nonce + 1 \in DOMAIN L
                            /\ L[W[i].nonce + 1] = W[i]
    /\ \A i, j \in Own(W, u) : i < j => W[i].nonce < W[j].nonce

\* A withdrawal of the user with the next nonce.
LEMMA OwnWithdrawal ==
    ASSUME NEW W \in Seq(Withdrawals), NEW L \in Seq(Withdrawals),
           NEW w \in Withdrawals, Numbered(W, L, w.user), w.nonce = Len(L)
    PROVE  Numbered(Append(W, w), Append(L, w), w.user)
<1>1. PICK V : V = Append(W, w)
  OBVIOUS
<1>2. PICK M : M = Append(L, w)
  OBVIOUS
<1>3. PICK n \in Nat : n = Len(W)
  OBVIOUS
<1>4. PICK k \in Nat : k = Len(L)
  OBVIOUS
<1>5. /\ DOMAIN W = 1 .. n /\ DOMAIN V = 1 .. (n + 1) /\ V[n + 1] = w
      /\ \A i \in 1 .. n : V[i] = W[i] /\ W[i] \in Withdrawals
  BY <1>1, <1>3
<1>6. /\ DOMAIN L = 1 .. k /\ DOMAIN M = 1 .. (k + 1) /\ M[k + 1] = w
      /\ \A i \in 1 .. k : M[i] = L[i]
  BY <1>2, <1>4
<1>7. Own(V, w.user) = Own(W, w.user) \cup {n + 1}
  <2>1. 1 .. (n + 1) = (1 .. n) \cup {n + 1}
    OBVIOUS
  <2> QED
    BY <1>5, <2>1 DEF Own
<1>8. Own(W, w.user) \subseteq 1 .. n
  BY <1>5 DEF Own
<1>9. \A i \in 1 .. n : W[i].nonce \in Nat
  <2>1. \A x \in Withdrawals : x.nonce \in Nat
    BY ZexAssumption DEF Withdrawals
  <2> QED
    BY <1>5, <2>1
<1>10. ASSUME NEW i \in DOMAIN M
       PROVE  /\ M[i].nonce = i - 1
              /\ \E j \in Own(V, w.user) : V[j] = M[i]
  <2>1. CASE i = k + 1
    BY <1>4, <1>5, <1>6, <1>7, <2>1
  <2>2. CASE i # k + 1
    <3>1. i \in DOMAIN L /\ M[i] = L[i]
      BY <1>6, <2>2
    <3>2. L[i].nonce = i - 1 /\ \E j \in Own(W, w.user) : W[j] = L[i]
      BY <3>1 DEF Numbered
    <3> QED
      BY <1>5, <1>7, <1>8, <3>1, <3>2
  <2> QED
    BY <2>1, <2>2
<1>11. ASSUME NEW i \in Own(W, w.user)
       PROVE  /\ W[i].nonce + 1 \in 1 .. k
              /\ L[W[i].nonce + 1] = W[i]
              /\ V[i] = W[i] /\ i \in 1 .. n /\ W[i].nonce < k
  BY <1>5, <1>6, <1>8, <1>9 DEF Numbered
<1>12. ASSUME NEW i \in Own(V, w.user)
       PROVE  V[i].nonce + 1 \in DOMAIN M /\ M[V[i].nonce + 1] = V[i]
  <2>1. CASE i = n + 1
    BY <1>4, <1>5, <1>6, <2>1
  <2>2. CASE i # n + 1
    BY <1>6, <1>7, <1>11, <2>2
  <2> QED
    BY <2>1, <2>2
<1>13. ASSUME NEW i \in Own(V, w.user), NEW j \in Own(V, w.user), i < j
       PROVE  V[i].nonce < V[j].nonce
  <2>1. CASE j = n + 1
    <3>1. V[j] = w /\ w.nonce = k
      BY <1>4, <1>5, <2>1
    <3>2. i \in Own(W, w.user)
      BY <1>7, <1>13, <2>1
    <3> QED
      BY <1>11, <3>1, <3>2
  <2>2. CASE j # n + 1
    <3>1. i \in Own(W, w.user) /\ j \in Own(W, w.user)
      BY <1>7, <1>11, <1>13, <2>2
    <3> QED
      BY <1>11, <1>13, <3>1 DEF Numbered
  <2> QED
    BY <2>1, <2>2
<1> QED
  BY <1>1, <1>2, <1>10, <1>12, <1>13 DEF Numbered

\* A withdrawal of another.
LEMMA OtherWithdrawal ==
    ASSUME NEW W \in Seq(Withdrawals), NEW w \in Withdrawals, NEW u,
           u # w.user, NEW L, Numbered(W, L, u)
    PROVE  Numbered(Append(W, w), L, u)
<1>1. PICK V : V = Append(W, w)
  OBVIOUS
<1>2. PICK n \in Nat : n = Len(W)
  OBVIOUS
<1>3. /\ DOMAIN W = 1 .. n /\ DOMAIN V = 1 .. (n + 1) /\ V[n + 1] = w
      /\ \A i \in 1 .. n : V[i] = W[i]
  BY <1>1, <1>2
<1>4. Own(V, u) = Own(W, u) /\ \A i \in Own(W, u) : V[i] = W[i]
  <2>1. 1 .. (n + 1) = (1 .. n) \cup {n + 1}
    OBVIOUS
  <2> QED
    BY <1>3, <2>1 DEF Own
<1>5. /\ \A i \in DOMAIN L : /\ L[i].nonce = i - 1
                            /\ \E j \in Own(V, u) : V[j] = L[i]
      /\ \A i \in Own(V, u) : /\ V[i].nonce + 1 \in DOMAIN L
                              /\ L[V[i].nonce + 1] = V[i]
  BY <1>4 DEF Numbered
<1>6. \A i, j \in Own(V, u) : i < j => V[i].nonce < V[j].nonce
  BY <1>4 DEF Numbered
<1> QED
  BY <1>1, <1>5, <1>6 DEF Numbered

WithdrawTypes ==
    /\ withdraws \in [Chains -> Seq(Withdrawals)]
    /\ userWithdraws \in [Chains -> [Users -> Seq(Withdrawals)]]
    /\ withdrawNonce \in [Chains -> Nat]
    /\ userWithdrawNonce \in [Chains -> [Users -> Nat]]

WithdrawsInv ==
    /\ WithdrawTypes
    /\ \A c \in Chains :
           /\ withdrawNonce[c] = Len(withdraws[c])
           /\ \A u \in Users :
                  /\ userWithdrawNonce[c][u] = Len(userWithdraws[c][u])
                  /\ Numbered(withdraws[c], userWithdraws[c][u], u)

\* A withdrawal carries the next nonce of its user on its chain.
LEMMA WithdrawNumbers ==
    ASSUME WithdrawsInv, NEW w \in Withdrawals, Withdraw(w)
    PROVE  WithdrawsInv'
<1>1. w.token \in Tokens /\ w.user \in Users
  BY DEF Withdrawals
<1>2. PICK k \in Chains : k = ChainOf(w.token)
  BY <1>1, AccountsAssumption DEF ChainOf
<1>3. /\ withdraws' = [withdraws EXCEPT ![k] = Append(@, w)]
      /\ userWithdraws' = [userWithdraws EXCEPT ![k][w.user] = Append(@, w)]
      /\ withdrawNonce' = [withdrawNonce EXCEPT ![k] = @ + 1]
      /\ userWithdrawNonce' = [userWithdrawNonce EXCEPT ![k][w.user] = @ + 1]
      /\ w.nonce = userWithdrawNonce[k][w.user]
  BY <1>2 DEF Withdraw, WithdrawNonceOk
<1>4. WithdrawTypes
  BY DEF WithdrawsInv
<1>5. WithdrawTypes'
  <2>1. withdraws' \in [Chains -> Seq(Withdrawals)]
    BY <1>3, <1>4 DEF WithdrawTypes
  <2>2. userWithdraws' \in [Chains -> [Users -> Seq(Withdrawals)]]
    BY <1>1, <1>3, <1>4 DEF WithdrawTypes
  <2>3. withdrawNonce' \in [Chains -> Nat]
    BY <1>3, <1>4 DEF WithdrawTypes
  <2>4. userWithdrawNonce' \in [Chains -> [Users -> Nat]]
    BY <1>1, <1>3, <1>4 DEF WithdrawTypes
  <2> QED
    BY <2>1, <2>2, <2>3, <2>4 DEF WithdrawTypes
<1>6. ASSUME NEW c \in Chains
      PROVE  withdrawNonce'[c] = Len(withdraws'[c])
  BY <1>3, <1>4 DEF WithdrawsInv, WithdrawTypes
<1>7. ASSUME NEW c \in Chains, NEW u \in Users
      PROVE  /\ userWithdrawNonce'[c][u] = Len(userWithdraws'[c][u])
             /\ Numbered(withdraws'[c], userWithdraws'[c][u], u)
  <2>1. /\ withdraws[c] \in Seq(Withdrawals)
        /\ userWithdraws[c][u] \in Seq(Withdrawals)
        /\ userWithdrawNonce[c][u] = Len(userWithdraws[c][u])
        /\ Numbered(withdraws[c], userWithdraws[c][u], u)
    BY <1>4 DEF WithdrawsInv, WithdrawTypes
  <2>2. CASE c # k
    <3>1. /\ userWithdrawNonce'[c][u] = userWithdrawNonce[c][u]
          /\ userWithdraws'[c][u] = userWithdraws[c][u]
          /\ withdraws'[c] = withdraws[c]
      BY <1>3, <1>4, <2>2 DEF WithdrawTypes
    <3> QED
      BY <2>1, <3>1
  <2>3. CASE c = k /\ u # w.user
    <3>1. /\ userWithdrawNonce'[c][u] = userWithdrawNonce[c][u]
          /\ userWithdraws'[c][u] = userWithdraws[c][u]
          /\ withdraws'[c] = Append(withdraws[c], w)
      BY <1>3, <1>4, <2>3 DEF WithdrawTypes
    <3> QED
      BY <2>1, <2>3, <3>1, OtherWithdrawal
  <2>4. CASE c = k /\ u = w.user
    <3>1. /\ userWithdrawNonce'[c][u] = userWithdrawNonce[c][u] + 1
          /\ userWithdraws'[c][u] = Append(userWithdraws[c][u], w)
          /\ withdraws'[c] = Append(withdraws[c], w)
      BY <1>3, <1>4, <2>4 DEF WithdrawTypes
    <3>2. w.nonce = Len(userWithdraws[c][u])
      BY <1>3, <2>1, <2>4
    <3>3. Numbered(withdraws'[c], userWithdraws'[c][u], u)
      BY <2>1, <2>4, <3>1, <3>2, OwnWithdrawal
    <3> QED
      BY <2>1, <3>1, <3>3
  <2> QED
    BY <2>2, <2>3, <2>4
<1> QED
  BY <1>5, <1>6, <1>7 DEF WithdrawsInv

\* Nothing else touches the lists or the counters.
LEMMA WithdrawsStep ==
    ASSUME WithdrawsInv, [Next]_zexVars
    PROVE  WithdrawsInv'
<1>1. ASSUME NEW w \in Withdrawals, Withdraw(w)
      PROVE  WithdrawsInv'
  BY <1>1, WithdrawNumbers
<1>2. CASE UNCHANGED withdrawVars
  BY <1>2 DEF WithdrawsInv, WithdrawTypes, withdrawVars
<1> QED
  BY <1>1, <1>2
  DEF Next, ProcessTransaction, ProcessRegister, Register, ProcessWithdraw,
      ProcessDeposit, Deposit, WithdrawFault, KeyFault, ProcessOrder,
      ProcessBadNonce, ProcessCancel, ProcessCancelFault, Match, ProcessTrade,
      ProcessMatched, EndBatch, AbortBatch, zexVars, accountVars

\* A fresh node has recorded no withdrawal.
LEMMA WithdrawsStart == Init => WithdrawsInv
<1>1. SUFFICES ASSUME Init
               PROVE  WithdrawsInv
  OBVIOUS
<1>2. /\ withdraws = [c \in Chains |-> <<>>]
      /\ userWithdraws = [c \in Chains |-> [u \in Users |-> <<>>]]
      /\ withdrawNonce = [c \in Chains |-> 0]
      /\ userWithdrawNonce = [c \in Chains |-> [u \in Users |-> 0]]
  BY <1>1 DEF Init, InitAccounts
<1>3. \A u : Numbered(<<>>, <<>>, u)
  BY DEF Numbered, Own
<1>4. WithdrawTypes
  BY <1>2 DEF WithdrawTypes
<1> QED
  BY <1>2, <1>3, <1>4 DEF WithdrawsInv

\* The entries of a user in a log are the numbered ones.
LEMMA WithdrawsInvNumbers == WithdrawsInv => WithdrawalsNumbered
<1>1. \A c, u : EntriesOf(c, u) = Own(withdraws[c], u)
  BY DEF EntriesOf, Own
<1> QED
  BY <1>1 DEF WithdrawsInv, WithdrawalsNumbered, Numbered

\* The withdrawal of a user that has nonce n is found at index n of the user's
\* list and once in the chain's log, behind the user's earlier ones.
THEOREM WithdrawalsNumberedHolds == Spec => []WithdrawalsNumbered
<1>1. Init => WithdrawsInv
  BY WithdrawsStart
<1>2. WithdrawsInv /\ [Next]_zexVars => WithdrawsInv'
  BY WithdrawsStep
<1>3. WithdrawsInv => WithdrawalsNumbered
  BY WithdrawsInvNumbers
<1> QED
  BY <1>1, <1>2, <1>3, PTL DEF Spec
=============================================================================
