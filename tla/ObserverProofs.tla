--------------------------- MODULE ObserverProofs ---------------------------
(***************************************************************************)
(* What can be relied on from outside.  First, Zex.tla implements          *)
(* Exchange.tla under the mapping of ZexRefinement.tla: every step of      *)
(* process is a step of the promise, or changes nothing that it speaks of. *)
(* Then DepthFeed.tla: whoever follows the depth events has the books of   *)
(* the exchange, whatever the markets, orders and interleavings.           *)
(***************************************************************************)
EXTENDS ZexRefinement, DepthFeed, ZexProofs

-----------------------------------------------------------------------------
(* What orders and dictionaries are to the promise *)

\* The promise makes of a payload and its sender the order that process makes.
LEMMA SameOffer ==
    ASSUME NEW f, NEW u
    PROVE  Promise!OrderOf(f, u) = OrderOf(f, u)
  BY DEF Promise!OrderOf, OrderOf

-----------------------------------------------------------------------------
(* Balances *)

\* Balances are told apart by what single users have of single tokens.
LEMMA SameBalances ==
    ASSUME NEW f \in Balance, NEW g \in Balance,
           \A t \in Tokens, u \in Users : f[t][u] = g[t][u]
    PROVE  f = g
<1>1. \A t \in Tokens : f[t] = g[t]
  BY DEF Balance
<1> QED
  BY <1>1 DEF Balance

\* What can be spent, while an order is being matched and in between.
FreeInv ==
    /\ FreeNow \in Balance /\ assets \in Balance
    /\ \A t \in Tokens, u \in Users :
           FreeNow[t][u] = assets[t][u] - Reserved(t, u)
    /\ \A t \in Tokens, u \in Users : Reserved(t, u) \in Int
    /\ taker = NoTaker => FreeNow = assets

\* What FreeInv says holds in every state the engine keeps its invariant in,
LEMMA FreeFacts == EngineInv => FreeInv
<1> SUFFICES ASSUME EngineInv
             PROVE  FreeInv
  OBVIOUS
<1>1. assets \in Balance /\ remaining \in Nat
  BY DEF EngineInv, EngineTypeOK, Balance
<1>2. \A t \in Tokens, u \in Users : Reserved(t, u) \in Int
  <2>1. taker # NoTaker => Cost(taker, remaining) \in Int
    BY <1>1, PayTypes DEF EngineInv, EngineTypeOK
  <2> QED
    BY <2>1 DEF Reserved
<1>3. \A t \in Tokens, u \in Users :
          FreeNow[t][u] = assets[t][u] - Reserved(t, u)
  BY DEF FreeNow
<1>4. FreeNow \in Balance
  <2>1. \A t \in Tokens, u \in Users : assets[t][u] - Reserved(t, u) \in Int
    BY <1>1, <1>2 DEF Balance
  <2> QED
    BY <2>1 DEF FreeNow, Balance
<1>5. ASSUME taker = NoTaker
      PROVE  FreeNow = assets
  <2>1. \A t \in Tokens, u \in Users : FreeNow[t][u] = assets[t][u]
    BY <1>1, <1>3, <1>5 DEF Reserved, Balance
  <2> QED
    BY <1>1, <1>4, <2>1, SameBalances
<1> QED
  BY <1>1, <1>2, <1>3, <1>4, <1>5 DEF FreeInv

\* and in the state after a step of it.
LEMMA FreeFactsNext == EngineInv' => FreeInv'
  BY FreeFacts, PTL

\* Between two matches the open orders are those that rest.
LEMMA OpenIdle ==
    ASSUME EngineInv, taker = NoTaker
    PROVE  OpenNow = amounts
  BY DEF EngineInv, TakerPrice, OpenNow

\* Nothing the promise speaks of has changed.
LEMMA PromiseStutters ==
    ASSUME UNCHANGED <<assets, amounts, taker, remaining, nonces>>
    PROVE  UNCHANGED <<FreeNow, OpenNow, nonces>>
  BY DEF FreeNow, Reserved, OpenNow, PayToken, Cost

-----------------------------------------------------------------------------
(* Deposits and withdrawals *)

\* A deposit is one of the promise: it adds to what its user can spend.
LEMMA DepositPromised ==
    ASSUME IInv, IInv', NEW d \in Deposits, ProcessDeposit(d)
    PROVE  Promise!Next
<1> DEFINE t == <<d.chain, TokenIdOf(d)>>
           u == idToPublic[d.user]
<1>1. /\ taker = NoTaker /\ fault = "none" /\ Deposit(d)
      /\ UNCHANGED <<amounts, taker, remaining, nonces>>
      /\ assets' = [assets EXCEPT ![t][u] = @ + d.amount]
  BY DEF ProcessDeposit, Idle, Deposit, bookkeeping
<1>2. d.chain \in Chains /\ d.amount \in Nat /\ d.user \in Nat
  BY ZexAssumption
<1>3. u \in Users
  BY <1>1, <1>2 DEF Deposit, DepositIgnored, IInv, AccountTypeOK
<1>4. t \in Tokens
  <2>1. TokenIdOf(d) \in 1 .. MaxTokenId
    BY <1>1, <1>2, AccountsAssumption
    DEF Deposit, TokenIdOf, IInv, AccountTypeOK
  <2> QED
    BY <1>2, <2>1, AccountsAssumption
<1>5. FreeNow = assets /\ FreeNow' = assets'
  BY <1>1, FreeFacts, FreeFactsNext DEF IInv, FreeInv
<1>6. OpenNow' = OpenNow
  BY <1>1 DEF OpenNow
<1>7. Promise!Deposit(t, u, d.amount)
  BY <1>1, <1>2, <1>5, <1>6 DEF Promise!Deposit
<1>8. d.amount \in Moved
  BY DEF Moved
<1> HIDE DEF t, u
<1> QED
  BY <1>3, <1>4, <1>7, <1>8 DEF Promise!Next

\* A withdrawal takes from what can be spent, and no more than that.
LEMMA WithdrawPromised ==
    ASSUME IInv, IInv', NEW w \in Withdrawals, ProcessWithdraw(w)
    PROVE  Promise!Next \/ UNCHANGED <<FreeNow, OpenNow, nonces>>
<1>1. CASE WithdrawFault(w)
  <2>1. UNCHANGED <<assets, amounts, taker, remaining, nonces>>
    BY <1>1 DEF WithdrawFault, KeyFault, bookkeeping, accountVars
  <2> QED
    BY <2>1, PromiseStutters
<1>2. CASE Withdraw(w)
  <2>1. w.token \in Tokens /\ w.user \in Users /\ w.amount \in WithdrawAmounts
    BY DEF Withdrawals
  <2>2. /\ taker = NoTaker
        /\ UNCHANGED <<amounts, taker, remaining, nonces>>
        /\ assets' = [assets EXCEPT ![w.token][w.user] = @ - w.amount]
        /\ w.amount > 0 /\ assets[w.token][w.user] >= w.amount
    BY <1>2 DEF ProcessWithdraw, Idle, Withdraw, HasFunds, bookkeeping
  <2>3. FreeNow = assets /\ FreeNow' = assets'
    BY <2>2, FreeFacts, FreeFactsNext DEF IInv, FreeInv
  <2>4. OpenNow' = OpenNow
    BY <2>2 DEF OpenNow
  <2>5. w.amount \in Int /\ assets[w.token][w.user] \in Int
    BY <2>1, Balances, ZexAssumption DEF IInv
  <2>6. Promise!Withdraw(w.token, w.user, w.amount)
    BY <2>2, <2>3, <2>4, <2>5 DEF Promise!Withdraw
  <2>7. w.amount \in Moved
    BY <2>1 DEF Moved
  <2> QED
    BY <2>1, <2>6, <2>7 DEF Promise!Next
<1> QED
  BY <1>1, <1>2 DEF ProcessWithdraw

-----------------------------------------------------------------------------
(* Orders *)

\* An order is accepted when it enters the loop of a match, or comes to rest.
LEMMA AcceptPromised ==
    ASSUME IInv, IInv', NEW o \in Order, taker = NoTaker, CanPay(o),
           nonces' = [nonces EXCEPT ![o.user] = @ + 1],
           o.amount \in Nat, o.price >= 0,
           \/ MatchInstantly(o)
           \/ Place(o)
    PROVE  /\ FreeNow[PayToken(o)][o.user] >= Cost(o, o.amount)
           /\ FreeNow' = [FreeNow EXCEPT ![PayToken(o)][o.user] =
                              @ - Cost(o, o.amount)]
           /\ OpenNow' = Put(OpenNow, o, o.amount)
<1>1. /\ PayToken(o) \in Tokens /\ o.user \in Users
      /\ o.price \in Int /\ Cost(o, o.amount) \in Int
  BY PayTypes
<1>2. /\ FreeNow = assets /\ assets \in Balance
      /\ FreeNow' \in Balance
      /\ \A t \in Tokens, u \in Users :
             FreeNow'[t][u] = assets'[t][u] - Reserved(t, u)'
  BY FreeFacts, FreeFactsNext DEF IInv, FreeInv
<1> DEFINE debited ==
             [assets EXCEPT ![PayToken(o)][o.user] = @ - Cost(o, o.amount)]
<1>3. /\ debited \in Balance
      /\ \A t \in Tokens, u \in Users :
             debited[t][u] = assets[t][u] -
                 (IF t = PayToken(o) /\ u = o.user THEN Cost(o, o.amount) ELSE 0)
  BY <1>1, <1>2 DEF Balance
<1>4. OpenNow = amounts
  BY OpenIdle DEF IInv
<1>5. FreeNow' = debited /\ OpenNow' = Put(amounts, o, o.amount)
  <2>1. CASE MatchInstantly(o)
    <3>1. /\ taker' = o /\ remaining' = o.amount /\ assets' = assets
          /\ amounts' = amounts /\ o.amount > 0
      BY <2>1 DEF MatchInstantly, WillCross
    <3>2. OpenNow' = Put(amounts, o, o.amount)
      BY <3>1 DEF OpenNow
    <3>3. \A t \in Tokens, u \in Users :
              Reserved(t, u)' = IF t = PayToken(o) /\ u = o.user
                                  THEN Cost(o, o.amount) ELSE 0
      BY <3>1, NoTakerIsNoOrder DEF Reserved, PayToken, Cost
    <3>4. \A t \in Tokens, u \in Users : FreeNow'[t][u] = debited[t][u]
      BY <1>2, <1>3, <3>1, <3>3
    <3> HIDE DEF debited
    <3> QED
      BY <1>2, <1>3, <3>2, <3>4, SameBalances
  <2>2. CASE Place(o)
    <3>1. /\ taker' = NoTaker /\ remaining' = 0
          /\ assets' = debited /\ amounts' = Put(amounts, o, o.amount)
      BY <2>2 DEF Place, Rest, Debit, IInv, EngineInv, TakerPrice
    <3>2. FreeNow' = assets'
      BY <3>1, FreeFactsNext DEF IInv, FreeInv
    <3> QED
      BY <3>1, <3>2 DEF OpenNow
  <2> QED
    BY <2>1, <2>2
<1>6. FreeNow[PayToken(o)][o.user] >= Cost(o, o.amount)
  BY <1>2 DEF CanPay
<1> QED
  BY <1>2, <1>4, <1>5, <1>6

\* An order with the right nonce is accepted, or refused for a reason the
\* promise has.
LEMMA OrderPromised ==
    ASSUME IInv, IInv', NEW u \in Users, NEW f \in Offers, ProcessOrder(u, f)
    PROVE  Promise!Next
<1>1. PICK o \in Order : o = OrderOf(f, u) /\ o.user = u
  BY OrderOfType DEF IInv
<1>2. taker = NoTaker /\ nonces' = [nonces EXCEPT ![o.user] = @ + 1]
  BY <1>1 DEF ProcessOrder, Idle, UseNonce
<1>3. o.amount \in Int /\ o.price \in Int
  BY <1>1, PayTypes
<1>4. o = Promise!OrderOf(f, u)
  BY <1>1, SameOffer
<1>5. CASE MatchInstantly(o)
  <2>a. WillCross(o) /\ CanPay(o)
    BY <1>5 DEF MatchInstantly
  <2>b. o.amount > 0 /\ o.price > 0
    BY <2>a DEF WillCross
  <2>1. CanPay(o) /\ o.amount \in Nat /\ o.price >= 0
    BY <2>a, <2>b, <1>3
  <2>2. /\ FreeNow[PayToken(o)][o.user] >= Cost(o, o.amount)
        /\ FreeNow' = [FreeNow EXCEPT ![PayToken(o)][o.user] =
                           @ - Cost(o, o.amount)]
        /\ OpenNow' = Put(OpenNow, o, o.amount)
    BY <1>1, <1>2, <1>3, <1>5, <2>1, AcceptPromised
  <2>3. Promise!Accept(Promise!OrderOf(f, u))
    BY <1>2, <1>4, <2>1, <2>2
    DEF Promise!Accept, Promise!UseNonce, Promise!PayToken, PayToken,
        Promise!Cost, Cost, Promise!Put, Put, Promise!Base, Base,
        Promise!Quote, Quote
  <2>4. \E v \in Users, g \in Offers : Promise!Accept(Promise!OrderOf(g, v))
    BY <2>3 DEF Promise!Accept
  <2> QED
    BY <2>4 DEF Promise!Next
<1>6. CASE Place(o)
  <2>1. CanPay(o) /\ o.amount \in Nat /\ o.price >= 0
    BY <1>3, <1>6 DEF Place
  <2>2. /\ FreeNow[PayToken(o)][o.user] >= Cost(o, o.amount)
        /\ FreeNow' = [FreeNow EXCEPT ![PayToken(o)][o.user] =
                           @ - Cost(o, o.amount)]
        /\ OpenNow' = Put(OpenNow, o, o.amount)
    BY <1>1, <1>2, <1>3, <1>6, <2>1, AcceptPromised
  <2>3. Promise!Accept(Promise!OrderOf(f, u))
    BY <1>2, <1>4, <2>1, <2>2
    DEF Promise!Accept, Promise!UseNonce, Promise!PayToken, PayToken,
        Promise!Cost, Cost, Promise!Put, Put, Promise!Base, Base,
        Promise!Quote, Quote
  <2>4. \E v \in Users, g \in Offers : Promise!Accept(Promise!OrderOf(g, v))
    BY <2>3 DEF Promise!Accept
  <2> QED
    BY <2>4 DEF Promise!Next
<1>7. CASE UNCHANGED engineVars
  <2>1. FreeNow' = FreeNow /\ OpenNow' = OpenNow
    BY <1>7 DEF engineVars, FreeNow, Reserved, OpenNow, PayToken, Cost
  <2>2. Promise!Refuse(u)
    BY <1>1, <1>2, <2>1 DEF Promise!Refuse, Promise!UseNonce
  <2> QED
    BY <2>2 DEF Promise!Next
<1> QED
  BY <1>1, <1>5, <1>6, <1>7 DEF ProcessOrder


\* A cancel gives back what the order still holds, even when the level of the
\* order is not found.
LEMMA CancelPromised ==
    ASSUME IInv, IInv', NEW u \in Users, NEW o \in orders[u], ProcessCancel(o)
    PROVE  Promise!Next
<1>1. taker = NoTaker /\ fault = "none" /\ Cancel(o)
  BY DEF ProcessCancel, Idle
<1>2. o \in Order /\ o \in DOMAIN amounts
  BY <1>1, RestingOrder DEF IInv
<1>3. /\ amounts' = Drop(amounts, o)
      /\ assets' = [assets EXCEPT ![PayToken(o)][o.user] =
                        @ + Cost(o, amounts[o])]
      /\ UNCHANGED <<taker, remaining>>
  BY <1>1 DEF Cancel, Forget
<1>4. nonces' = nonces
  BY DEF ProcessCancel, accountVars
<1>5. FreeNow = assets /\ FreeNow' = assets'
  BY <1>1, <1>3, FreeFacts, FreeFactsNext DEF IInv, FreeInv
<1>6. OpenNow = amounts
  BY <1>1, OpenIdle DEF IInv
<1>7. OpenNow' = amounts'
  BY <1>3, <1>6, <1>1 DEF OpenNow, IInv, EngineInv, TakerPrice
<1>8. Promise!Cancel(o)
  BY <1>3, <1>4, <1>5, <1>6, <1>7
  DEF Promise!Cancel, Promise!PayToken, PayToken, Promise!Cost, Cost,
      Promise!Drop, Drop, Promise!Base, Base, Promise!Quote, Quote
<1>9. \E x \in DOMAIN OpenNow : Promise!Cancel(x)
  BY <1>2, <1>6, <1>8 DEF Promise!Cancel
<1> QED
  BY <1>9 DEF Promise!Next

-----------------------------------------------------------------------------
(* Trades *)

\* What an order no longer holds after a trade, beyond what it paid.
LEMMA PriceSaved ==
    ASSUME NEW o \in Order, NEW r \in Int, NEW q \in Int, NEW p \in Int
    PROVE  Cost(o, r) - Cost(o, r - q) - Paid(o, q, p)
               = IF o.side = "buy" THEN q * (o.price - p) ELSE 0
<1>1. o.price \in Int
  BY PayTypes
<1>2. CASE o.side = "buy"
  <2> DEFINE x == o.price
  <2>1. Cost(o, r) = r * x /\ Cost(o, r - q) = (r - q) * x
        /\ Paid(o, q, p) = q * p
    BY <1>2 DEF Cost, Paid
  <2>2. x \in Int
    BY <1>1
  <2> HIDE DEF x
  <2>3. r * x - (r - q) * x - q * p = q * (x - p)
    BY <2>2
  <2> QED
    BY <1>2, <2>1, <2>3 DEF x
<1>3. CASE o.side # "buy"
  BY <1>3 DEF Cost, Paid
<1> QED
  BY <1>2, <1>3

\* What can be spent after orders b and s have traded q at the price p.
Traded(f, b, s, q, p) ==
    LET saved  == [f EXCEPT ![Quote(b.market)][b.user] = @ + q * (b.price - p)]
        bought == [saved EXCEPT ![Base(b.market)][b.user] = @ + q]
    IN  [bought EXCEPT ![Quote(b.market)][s.user] = @ + q * p]

\* A trade moves what can be spent as the promise says: what the buyer's limit
\* saved, what was bought and what was paid for it.
LEMMA TradeMoves ==
    ASSUME IInv, IInv', fault = "none", taker # NoTaker, NEW h, ExecuteTrade(h),
           NEW q, q = TradeAmount(h), NEW p, p = h.price,
           NEW b, NEW s,
           b = IF taker.side = "buy" THEN taker ELSE h,
           s = IF taker.side = "buy" THEN h ELSE taker
    PROVE  FreeNow' = Traded(FreeNow, b, s, q, p)
<1> DEFINE m == b.market
<1>1. /\ taker \in Order /\ h \in Order /\ h.market = taker.market
      /\ p \in Nat /\ q \in 0 .. remaining /\ remaining \in Nat
      /\ b \in Order /\ s \in Order /\ m = taker.market /\ m \in Markets
  BY TradedHead, PayTypes
  DEF ExecuteTrade, Heads, IInv, EngineInv, EngineTypeOK
<1>2. /\ Base(m) \in Tokens /\ Quote(m) \in Tokens
      /\ b.user \in Users /\ s.user \in Users /\ b.price \in Int
      /\ taker.user \in Users /\ h.user \in Users /\ taker.side \in Sides
  BY <1>1, PayTypes, PairTypes
<1>3. PICK paid \in Int : paid = Paid(taker, q, p)
  BY <1>1, PaidWithinLimit DEF ExecuteTrade
<1>4. PICK x \in Int : x = p * q /\ x = q * p
  BY <1>1
<1>5. PICK d \in Int : d = q * (b.price - p)
  BY <1>1, <1>2
<1>6. PICK held \in Int, left \in Int :
          /\ held = Cost(taker, remaining) /\ left = Cost(taker, remaining - q)
  BY <1>1, PayTypes
<1>7. held - left - paid = IF taker.side = "buy" THEN d ELSE 0
  <2>1. remaining \in Int /\ q \in Int /\ p \in Int
    BY <1>1
  <2>2. Cost(taker, remaining) - Cost(taker, remaining - q) - Paid(taker, q, p)
            = IF taker.side = "buy" THEN q * (taker.price - p) ELSE 0
    BY <1>1, <2>1, PriceSaved
  <2> QED
    BY <1>3, <1>5, <1>6, <2>2
<1>8. taker.side = "sell" => d = 0
  BY <1>1, <1>2, <1>5

<1>9. ASSUME NEW t \in Tokens, NEW u \in Users
      PROVE  /\ FreeNow[t][u] \in Int
             /\ FreeNow'[t][u] = FreeNow[t][u]
                    + (IF t = Quote(m) /\ u = b.user THEN d ELSE 0)
                    + (IF t = Base(m) /\ u = b.user THEN q ELSE 0)
                    + (IF t = Quote(m) /\ u = s.user THEN x ELSE 0)
  <2>1. assets'[t][u] = assets[t][u]
            + (IF t = Base(m) /\ u = b.user THEN q ELSE 0)
            + (IF t = Quote(m) /\ u = s.user THEN x ELSE 0)
            - (IF t = PayToken(taker) /\ u = taker.user THEN paid ELSE 0)
    <3>1. assets \in Balance /\ Settle(taker, h, q, p)
      BY FreeFacts DEF IInv, FreeInv, ExecuteTrade
    <3>2. q \in Int /\ p \in Int /\ x = p * q
      BY <1>1, <1>4
    <3>3. taker \in Order /\ h \in Order /\ b.user \in Users /\ s.user \in Users
          /\ m = taker.market
      BY <1>1, <1>2
    <3>4. PICK buyer \in Users :
              buyer = b.user
              /\ buyer = IF taker.side = "buy" THEN taker.user ELSE h.user
      BY <3>3
    <3>5. PICK seller \in Users :
              seller = s.user
              /\ seller = IF taker.side = "buy" THEN h.user ELSE taker.user
      BY <3>3
    <3> HIDE DEF m
    <3>6. Settled(taker, buyer, seller, q, x, paid)
      <4>1. /\ taker \in Order /\ h \in Order /\ q \in Int /\ p \in Int
            /\ assets \in Balance /\ paid \in Int /\ paid = Paid(taker, q, p)
            /\ Settle(taker, h, q, p) /\ x \in Int /\ x = p * q
            /\ buyer \in Users /\ seller \in Users
        BY <1>3, <3>1, <3>2, <3>3
      <4>2. /\ buyer = IF taker.side = "buy" THEN taker.user ELSE h.user
            /\ seller = IF taker.side = "buy" THEN h.user ELSE taker.user
        BY <3>4, <3>5
      <4> QED
        BY ONLY <4>1, <4>2, SettleExactly
    <3> QED
      BY <3>3, <3>4, <3>5, <3>6 DEF Settled
  <2>2. /\ FreeNow[t][u] = assets[t][u] - Reserved(t, u)
        /\ FreeNow'[t][u] = assets'[t][u] - Reserved(t, u)'
        /\ FreeNow[t][u] \in Int /\ assets[t][u] \in Int
    BY FreeFacts, FreeFactsNext DEF IInv, FreeInv, Balance
  <2>3. Reserved(t, u) = IF t = PayToken(taker) /\ u = taker.user
                           THEN held ELSE 0
    BY <1>6 DEF Reserved
  <2>4. Reserved(t, u)' = IF t = PayToken(taker) /\ u = taker.user
                            THEN left ELSE 0
    BY <1>6 DEF Reserved, ExecuteTrade, PayToken, Cost
  <2>5. CASE taker.side = "buy"
    <3>1. PayToken(taker) = Quote(m) /\ taker.user = b.user
      BY <1>1, <2>5 DEF PayToken
    <3>2. held - left - paid = d /\ q \in Int
      BY <1>1, <1>7, <2>5
    <3> QED
      BY <2>1, <2>2, <2>3, <2>4, <3>1, <3>2
  <2>6. CASE taker.side = "sell"
    <3>1. PayToken(taker) = Base(m) /\ taker.user = s.user
      BY <1>1, <2>6 DEF PayToken
    <3>2. held - left = paid /\ d = 0 /\ q \in Int
      BY <1>1, <1>7, <1>8, <2>6
    <3> QED
      BY <2>1, <2>2, <2>3, <2>4, <3>1, <3>2
  <2> QED
    BY <1>2, <2>5, <2>6 DEF Sides
<1> DEFINE saved  == [FreeNow EXCEPT ![Quote(m)][b.user] = @ + d]
           bought == [saved EXCEPT ![Base(m)][b.user] = @ + q]
           got    == [bought EXCEPT ![Quote(m)][s.user] = @ + x]
<1>10. FreeNow \in Balance /\ FreeNow' \in Balance
  BY FreeFacts, FreeFactsNext DEF IInv, FreeInv
<1>11. q \in Int
  BY <1>1
<1>12. saved \in Balance
  BY <1>2, <1>10 DEF Balance
<1>13. ASSUME NEW t \in Tokens, NEW u \in Users
       PROVE  saved[t][u] = FreeNow[t][u]
                  + (IF t = Quote(m) /\ u = b.user THEN d ELSE 0)
  BY <1>2, <1>10 DEF Balance
<1> HIDE DEF saved
<1>14. bought \in Balance
  BY <1>2, <1>11, <1>12 DEF Balance
<1>15. ASSUME NEW t \in Tokens, NEW u \in Users
       PROVE  bought[t][u] = saved[t][u]
                  + (IF t = Base(m) /\ u = b.user THEN q ELSE 0)
  BY <1>2, <1>11, <1>12 DEF Balance
<1> HIDE DEF bought
<1>16. got \in Balance
  BY <1>2, <1>14 DEF Balance
<1>17. ASSUME NEW t \in Tokens, NEW u \in Users
       PROVE  got[t][u] = bought[t][u]
                  + (IF t = Quote(m) /\ u = s.user THEN x ELSE 0)
  BY <1>2, <1>14 DEF Balance
<1> HIDE DEF got
<1>18. \A t \in Tokens, u \in Users : FreeNow'[t][u] = got[t][u]
  BY <1>9, <1>13, <1>15, <1>17
<1>19. FreeNow' = got
  BY <1>10, <1>16, <1>18, SameBalances
<1> QED
  BY <1>4, <1>5, <1>19 DEF Traded, got, bought, saved


\* What is open while an order is in the loop.
LEMMA OpenInLoop ==
    ASSUME IInv, fault = "none", taker # NoTaker, taker \notin DOMAIN amounts,
           NEW h, ExecuteTrade(h), NEW q, q = TradeAmount(h)
    PROVE  /\ OpenNow = Put(amounts, taker, remaining)
           /\ h \in DOMAIN amounts
           /\ h \in DOMAIN OpenNow /\ taker \in DOMAIN OpenNow /\ h # taker
           /\ OpenNow[h] = amounts[h] /\ OpenNow[taker] = remaining
           /\ q \in Nat /\ remaining \in Nat /\ amounts[h] \in Nat
           /\ q <= OpenNow[h] /\ q <= OpenNow[taker]
<1>1. remaining > 0 /\ remaining \in Nat
  BY DEF ExecuteTrade, IInv, EngineInv, EngineTypeOK
<1>2. OpenNow = Put(amounts, taker, remaining)
  BY <1>1 DEF OpenNow
<1>3. /\ h \in DOMAIN amounts /\ amounts[h] \in Nat
      /\ q \in 0 .. remaining /\ q \in 0 .. amounts[h]
  BY <1>1, TradedHead DEF ExecuteTrade, Heads, IInv
<1>4. /\ DOMAIN OpenNow = DOMAIN amounts \cup {taker}
      /\ OpenNow[taker] = remaining
      /\ h # taker => OpenNow[h] = amounts[h]
  BY <1>2, <1>3 DEF Put
<1> QED
  BY <1>1, <1>2, <1>3, <1>4

\* A trade takes the same off both orders, and forgets what it filled.
LEMMA TradeFills ==
    ASSUME IInv, fault = "none", taker # NoTaker, taker \notin DOMAIN amounts,
           NEW h, ExecuteTrade(h), NEW q, q = TradeAmount(h),
           NEW b, NEW s,
           b = IF taker.side = "buy" THEN taker ELSE h,
           s = IF taker.side = "buy" THEN h ELSE taker
    PROVE  OpenNow' = [o \in {x \in DOMAIN OpenNow :
                                  x \notin {b, s} \/ OpenNow[x] # q} |->
                           IF o \in {b, s} THEN OpenNow[o] - q ELSE OpenNow[o]]
<1>1. /\ OpenNow = Put(amounts, taker, remaining)
      /\ h # taker /\ q \in Nat /\ remaining \in Nat /\ amounts[h] \in Nat
      /\ q <= amounts[h] /\ q <= remaining /\ h \in DOMAIN amounts
  <2>1. /\ OpenNow = Put(amounts, taker, remaining) /\ h # taker
        /\ h \in DOMAIN amounts /\ q <= OpenNow[h] /\ q <= OpenNow[taker]
        /\ OpenNow[h] = amounts[h] /\ OpenNow[taker] = remaining
        /\ q \in Nat /\ remaining \in Nat /\ amounts[h] \in Nat
    BY OpenInLoop
  <2> QED
    BY <2>1
<1>2. {b, s} = {taker, h}
  OBVIOUS
<1>3. DOMAIN OpenNow = DOMAIN amounts \cup {taker}
      /\ OpenNow[taker] = remaining
      /\ \A x \in DOMAIN amounts : OpenNow[x] = amounts[x]
  BY <1>1 DEF Put
<1>4. taker' = taker /\ remaining' = remaining - q
  BY DEF ExecuteTrade
<1>5. /\ DOMAIN amounts' = {x \in DOMAIN amounts : x # h \/ amounts[x] # q}
      /\ \A x \in DOMAIN amounts' :
             amounts'[x] = IF x = h THEN amounts[x] - q ELSE amounts[x]
  <2>1. CASE amounts[h] > q
    <3>1. amounts' = [amounts EXCEPT ![h] = @ - q]
      BY <2>1 DEF ExecuteTrade
    <3>2. /\ DOMAIN amounts' = DOMAIN amounts
          /\ \A x \in DOMAIN amounts :
                 amounts'[x] = IF x = h THEN amounts[x] - q ELSE amounts[x]
      BY <3>1
    <3>3. amounts[h] # q
      BY <1>1, <2>1
    <3> QED
      BY <3>2, <3>3
  <2>2. CASE ~ (amounts[h] > q)
    <3>1. amounts' = Drop(amounts, h) /\ amounts[h] = q
      BY <1>1, <2>2 DEF ExecuteTrade, Forget
    <3>2. /\ DOMAIN amounts' = DOMAIN amounts \ {h}
          /\ \A x \in DOMAIN amounts : x # h => amounts'[x] = amounts[x]
      BY <3>1 DEF Drop
    <3> QED
      BY <3>1, <3>2
  <2> QED
    BY <2>1, <2>2
<1>6. /\ DOMAIN OpenNow' = {x \in DOMAIN OpenNow :
                                x \notin {taker, h} \/ OpenNow[x] # q}
      /\ \A x \in DOMAIN OpenNow' :
             OpenNow'[x] = IF x \in {taker, h} THEN OpenNow[x] - q ELSE OpenNow[x]
      /\ OpenNow' = [x \in DOMAIN OpenNow' |-> OpenNow'[x]]
  <2>1. CASE remaining = q
    <3>1. OpenNow' = amounts'
      BY <1>1, <1>4, <2>1 DEF OpenNow
    <3>2. amounts' = [x \in DOMAIN amounts' |-> amounts'[x]]
      BY DEF ExecuteTrade, Forget, Drop
    <3> QED
      BY <1>1, <1>3, <1>5, <2>1, <3>1, <3>2
  <2>2. CASE remaining # q
    <3>1. OpenNow' = Put(amounts', taker, remaining - q)
      BY <1>1, <1>4, <2>2 DEF OpenNow, Put
    <3>2. /\ DOMAIN OpenNow' = DOMAIN amounts' \cup {taker}
          /\ OpenNow'[taker] = remaining - q
          /\ \A x \in DOMAIN amounts' : x # taker => OpenNow'[x] = amounts'[x]
      BY <3>1 DEF Put
    <3>3. OpenNow' = [x \in DOMAIN OpenNow' |-> OpenNow'[x]]
      BY <3>1 DEF Put
    <3> QED
      BY <1>1, <1>3, <1>5, <2>2, <3>2, <3>3
  <2> QED
    BY <2>1, <2>2
<1> QED
  BY <1>2, <1>6


\* An iteration of the loop is a trade at a price within both limits.
LEMMA TradePromised ==
    ASSUME IInv, IInv', fault = "none", taker # NoTaker,
           taker \notin DOMAIN amounts, NEW h, ExecuteTrade(h), nonces' = nonces
    PROVE  Promise!Next
<1>1. PICK q, p : q = TradeAmount(h) /\ p = h.price
  OBVIOUS
<1>2. PICK b, s : /\ b = IF taker.side = "buy" THEN taker ELSE h
                  /\ s = IF taker.side = "buy" THEN h ELSE taker
  OBVIOUS
<1>3. /\ taker \in Order /\ h \in Order /\ h.market = taker.market
      /\ h.side = Other(taker.side)
  BY TradedHead DEF ExecuteTrade, Heads, IInv
<1>4. /\ b \in Order /\ s \in Order /\ b.side = "buy" /\ s.side = "sell"
      /\ s.market = b.market /\ taker.side \in Sides
  BY <1>2, <1>3, PayTypes DEF Other, Sides
<1>5. b.price \in Int /\ s.price \in Int /\ p \in Int
  BY <1>1, <1>3, <1>4, PayTypes
<1>6. s.price <= p /\ p <= b.price
  <2>1. Crosses(taker, h)
    BY DEF ExecuteTrade
  <2> QED
    BY <1>1, <1>2, <1>5, <2>1 DEF Crosses
<1>7. /\ b \in DOMAIN OpenNow /\ s \in DOMAIN OpenNow
      /\ q \in Nat /\ OpenNow[s] \in Nat /\ q <= OpenNow[b] /\ q <= OpenNow[s]
  BY <1>1, <1>2, OpenInLoop
<1>8. FreeNow' = Traded(FreeNow, b, s, q, p)
  BY <1>1, <1>2, TradeMoves
<1>9. OpenNow' = [o \in {x \in DOMAIN OpenNow :
                             x \notin {b, s} \/ OpenNow[x] # q} |->
                      IF o \in {b, s} THEN OpenNow[o] - q ELSE OpenNow[o]]
  BY <1>1, <1>2, TradeFills
<1>10. Promise!Trade(b, s, q, p)
  BY <1>4, <1>6, <1>7, <1>8, <1>9
  DEF Traded, Promise!Trade, Promise!Fill, Promise!Base, Base,
      Promise!Quote, Quote
<1>11. q \in 0 .. OpenNow[s] /\ p \in s.price .. b.price
  BY <1>5, <1>6, <1>7
<1>12. \E x, y \in DOMAIN OpenNow :
           \E z \in 0 .. OpenNow[y], w \in y.price .. x.price :
               Promise!Trade(x, y, z, w)
  BY <1>7, <1>10, <1>11 DEF Promise!Trade, Promise!Fill
<1> QED
  BY <1>12 DEF Promise!Next

-----------------------------------------------------------------------------
(* The end of a match, and the steps the promise does not see *)

\* What remains of the order was held already; it only comes to rest.
LEMMA FinishStutters ==
    ASSUME IInv, IInv', fault = "none", taker # NoTaker, FinishMatch,
           nonces' = nonces
    PROVE  UNCHANGED <<FreeNow, OpenNow, nonces>>
<1>1. taker \in Order /\ remaining \in Nat /\ taker.price > 0
  BY DEF IInv, EngineInv, EngineTypeOK, TakerPrice
<1>2. /\ PayToken(taker) \in Tokens /\ taker.user \in Users
      /\ taker.price \in Int /\ Cost(taker, remaining) \in Int
  BY <1>1, PayTypes
<1>3. taker' = NoTaker /\ remaining' = 0
  BY DEF FinishMatch
<1>4. /\ FreeNow \in Balance /\ assets \in Balance
      /\ FreeNow' \in Balance /\ FreeNow' = assets'
      /\ \A t \in Tokens, u \in Users :
             FreeNow[t][u] = assets[t][u] - Reserved(t, u)
  BY <1>3, FreeFacts, FreeFactsNext DEF IInv, FreeInv
<1>5. OpenNow' = amounts'
  BY <1>3 DEF OpenNow
<1>6. CASE remaining > 0
  <2>1. /\ amounts' = Put(amounts, taker, remaining)
        /\ assets' = [assets EXCEPT ![PayToken(taker)][taker.user] =
                          @ - Cost(taker, remaining)]
    BY <1>6 DEF FinishMatch, Rest, Debit
  <2>2. OpenNow' = OpenNow
    BY <1>5, <1>6, <2>1 DEF OpenNow
  <2>3. ASSUME NEW t \in Tokens, NEW u \in Users
        PROVE  FreeNow'[t][u] = FreeNow[t][u]
    <3>1. assets'[t][u] = assets[t][u] -
              (IF t = PayToken(taker) /\ u = taker.user
                 THEN Cost(taker, remaining) ELSE 0)
      BY <1>2, <1>4, <2>1 DEF Balance
    <3> QED
      BY <1>4, <3>1 DEF Reserved
  <2>4. FreeNow' = FreeNow
    BY <1>4, <2>3, SameBalances
  <2> QED
    BY <2>2, <2>4
<1>7. CASE remaining = 0
  <2>1. amounts' = amounts /\ assets' = assets
    BY <1>7 DEF FinishMatch
  <2>2. OpenNow' = OpenNow
    BY <1>5, <1>7, <2>1 DEF OpenNow
  <2>3. Cost(taker, remaining) = 0
    BY <1>2, <1>7 DEF Cost
  <2>4. ASSUME NEW t \in Tokens, NEW u \in Users
        PROVE  FreeNow'[t][u] = FreeNow[t][u]
    BY <1>4, <2>1, <2>3 DEF Reserved, Balance
  <2>5. FreeNow' = FreeNow
    BY <1>4, <2>4, SameBalances
  <2> QED
    BY <2>2, <2>5
<1> QED
  BY <1>1, <1>6, <1>7


\* Registrations, refused nonces, faults and the ends of batches.
LEMMA OthersStutter ==
    ASSUME \/ \E u \in Users : ProcessRegister(u)
           \/ \E u \in Users, m \in Markets :
                  ProcessBadNonce(u, m) \/ ProcessCancelFault(u, m)
           \/ EndBatch \/ AbortBatch \/ UNCHANGED zexVars
           \/ \E h : ExecuteTradeFault(h) /\ UNCHANGED accountVars
    PROVE  UNCHANGED <<FreeNow, OpenNow, nonces>>
<1>1. ASSUME NEW u \in Users, ProcessRegister(u)
      PROVE  UNCHANGED <<assets, amounts, taker, remaining>>
  BY <1>1 DEF ProcessRegister, Register, bookkeeping
<1>2. ASSUME NEW u \in Users, ProcessRegister(u)
      PROVE  nonces' = nonces
  BY <1>2 DEF ProcessRegister, Register
<1>3. ASSUME NEW u \in Users, NEW m \in Markets,
             ProcessBadNonce(u, m) \/ ProcessCancelFault(u, m)
      PROVE  UNCHANGED <<assets, amounts, taker, remaining, nonces>>
  BY <1>3 DEF ProcessBadNonce, ProcessCancelFault, KeyFault, bookkeeping,
              accountVars
<1>4. ASSUME EndBatch \/ AbortBatch \/ UNCHANGED zexVars
      PROVE  UNCHANGED <<assets, amounts, taker, remaining, nonces>>
  BY <1>4 DEF EndBatch, AbortBatch, GetOrderBookUpdate, zexVars, engineVars,
              accountVars
<1>5. ASSUME NEW h, ExecuteTradeFault(h), UNCHANGED accountVars
      PROVE  UNCHANGED <<assets, amounts, taker, remaining, nonces>>
  BY <1>5 DEF ExecuteTradeFault, accountVars
<1>6. UNCHANGED <<assets, amounts, taker, remaining, nonces>>
  BY <1>1, <1>2, <1>3, <1>4, <1>5
<1> QED
  BY <1>6, PromiseStutters

-----------------------------------------------------------------------------
(* The whole of process *)

\* A fresh node has promised nothing.
LEMMA StartPromised ==
    ASSUME Init, IInv
    PROVE  Promise!Init
<1>1. /\ taker = NoTaker /\ remaining = 0 /\ amounts = <<>>
      /\ nonces = [u \in Users |-> 0]
  BY DEF Init, InitMarkets, InitAccounts
<1>2. FreeNow = assets
  BY <1>1, FreeFacts DEF IInv, FreeInv
<1>3. assets \in [Tokens -> [Users -> Nat]]
  <2>1. /\ assets \in [Tokens -> [Users -> Int]]
        /\ \A t \in Tokens, u \in Users : assets[t][u] >= 0
    BY Balances DEF IInv
  <2>2. \A t \in Tokens : assets[t] \in [Users -> Nat]
    BY <2>1
  <2> QED
    BY <2>1, <2>2
<1>4. OpenNow = <<>>
  BY <1>1 DEF OpenNow
<1> QED
  BY <1>1, <1>2, <1>3, <1>4 DEF Promise!Init

\* Every step is one the promise allows, or one it does not see.
LEMMA StepPromised ==
    ASSUME IInv, IInv', TakerRestsNot, [Next]_zexVars
    PROVE  Promise!Next \/ UNCHANGED <<FreeNow, OpenNow, nonces>>
<1>1. CASE ProcessTransaction
  <2>1. ASSUME NEW f \in Offers
        PROVE  f.market \in Markets
    BY ZexAssumption
  <2>2. CASE \E u \in Users, f \in Offers :
                 ProcessBadNonce(u, f.market) \/ ProcessCancelFault(u, f.market)
    BY <2>1, <2>2, OthersStutter
  <2>3. CASE \E u \in Users : ProcessRegister(u)
    BY <2>3, OthersStutter
  <2>4. CASE \E d \in Deposits : ProcessDeposit(d)
    BY <2>4, DepositPromised
  <2>5. CASE \E w \in Withdrawals : ProcessWithdraw(w)
    BY <2>5, WithdrawPromised
  <2>6. CASE \E u \in Users, f \in Offers : ProcessOrder(u, f)
    BY <2>6, OrderPromised
  <2>7. CASE \E u \in Users : \E o \in orders[u] : ProcessCancel(o)
    BY <2>7, CancelPromised
  <2> QED
    BY <1>1, <2>2, <2>3, <2>4, <2>5, <2>6, <2>7 DEF ProcessTransaction
<1>2. CASE ProcessTrade
  <2>1. /\ taker # NoTaker /\ fault = "none" /\ UNCHANGED accountVars
        /\ nonces' = nonces
    BY <1>2 DEF ProcessTrade, accountVars
  <2>2. PICK h : ExecuteTrade(h) \/ ExecuteTradeFault(h)
    BY <1>2 DEF ProcessTrade
  <2>3. CASE ExecuteTrade(h)
    BY <2>1, <2>3, TradePromised DEF TakerRestsNot
  <2>4. CASE ExecuteTradeFault(h)
    BY <2>1, <2>4, OthersStutter
  <2> QED
    BY <2>2, <2>3, <2>4
<1>3. CASE ProcessMatched
  <2>1. /\ taker # NoTaker /\ fault = "none" /\ FinishMatch
        /\ nonces' = nonces
    BY <1>3 DEF ProcessMatched, accountVars
  <2> QED
    BY <2>1, FinishStutters
<1>4. CASE EndBatch \/ AbortBatch \/ UNCHANGED zexVars
  BY <1>4, OthersStutter
<1> QED
  BY <1>1, <1>2, <1>3, <1>4 DEF Next, Match

\* Whatever the transactions, in whatever batches, and wherever a KeyError or a
\* ValueError cuts process short: accepted orders are paid for in full, trades
\* move funds within both limits, and a cancel gives back what is still held.
THEOREM PromiseKept == Spec => KeepsPromise
<1>1. Init => TakerRestsNot
  BY DEF Init, InitMarkets, TakerRestsNot
<1>2. IInv /\ IInv' /\ OneOrderPerNonce /\ TakerRestsNot /\ [Next]_zexVars
          => TakerRestsNot'
  BY TakerRestsNotKept
<1>3. Init /\ IInv => Promise!Init
  BY StartPromised
<1>4. IInv /\ IInv' /\ TakerRestsNot /\ [Next]_zexVars
          => [Promise!Next]_<<FreeNow, OpenNow, nonces>>
  BY StepPromised
<1> QED
  BY <1>1, <1>2, <1>3, <1>4, Invariance, NoncesHold, PTL
  DEF Spec, KeepsPromise, Promise!Spec, Promise!exchangeVars

-----------------------------------------------------------------------------
(* A client's book, the levels to be sent and the book they give *)

\* A level is set and recorded.
LEMMA SetInStep ==
    ASSUME NEW f, NEW u, NEW b, NEW p, NEW a, InStep(f, u, b)
    PROVE  InStep(f, Put(u, p, a), Put(b, p, a))
  BY DEF InStep, AmountAt, Put

\* A level is deleted, and recorded as 0.
LEMMA DeleteInStep ==
    ASSUME NEW f, NEW u, NEW b, NEW p, InStep(f, u, b)
    PROVE  InStep(f, Put(u, p, 0), Drop(b, p))
  BY DEF InStep, AmountAt, Put, Drop

\* The levels are sent, and applied.
LEMMA SentInStep ==
    ASSUME NEW f, NEW u, NEW b, InStep(f, u, b)
    PROVE  InStep(Applied(f, u), <<>>, b)
<1>1. \A p \in DOMAIN f \cup DOMAIN u :
          AmountAt(Applied(f, u), p) = IF p \in DOMAIN u THEN u[p] ELSE f[p]
  BY DEF Applied, AmountAt
<1>2. \A p : p \notin DOMAIN f \cup DOMAIN u => p \notin DOMAIN Applied(f, u)
  BY DEF Applied
<1>3. \A p : p \notin DOMAIN <<>>
  OBVIOUS
<1>4. ASSUME NEW p PROVE AmountAt(b, p) = AmountAt(Applied(f, u), p)
  <2>1. CASE p \in DOMAIN f \cup DOMAIN u
    BY <2>1, <1>1 DEF InStep, AmountAt
  <2>2. CASE p \notin DOMAIN f \cup DOMAIN u
    BY <2>2, <1>2 DEF InStep, AmountAt
  <2> QED BY <2>1, <2>2
<1> QED BY <1>3, <1>4 DEF InStep

\* A copy of the book is in step with it, if some client is: the levels to be
\* sent are as they are in the book.
LEMMA CopyInStep ==
    ASSUME NEW f, NEW u, NEW b, InStep(f, u, b)
    PROVE  InStep(b, u, b)
  BY DEF InStep

-----------------------------------------------------------------------------
(* Every change of the book is one that is recorded. *)

LevelStep ==
    \/ UNCHANGED <<book, updates>>
    \/ \E m \in Markets, s \in Sides :
           \E p, a : SetLevel(m, s, p, a) \/ DeleteLevel(m, s, p)

\* Adding to and removing from the book are such changes.
LEMMA BookStep ==
    ASSUME NEW m \in Markets, NEW s \in Sides, NEW p, NEW a,
           AddToBook(m, s, p, a) \/ RemoveFromBook(m, s, p, a)
    PROVE  LevelStep
  BY DEF AddToBook, RemoveFromBook, LevelStep

\* A transaction changes the book by placing an order or cancelling one.
LEMMA TransactionLevels ==
    ASSUME IInv, ProcessTransaction
    PROVE  LevelStep
<1>1. CASE \E u \in Users, f \in Offers : ProcessOrder(u, f)
  <2>1. PICK u \in Users, f \in Offers : ProcessOrder(u, f) BY <1>1
  <2> DEFINE o == OrderOf(f, u)
  <2>2. o.market \in Markets /\ o.side \in Sides
    BY OrderOfType, PayTypes DEF IInv
  <2>3. CASE Place(o)
    <3>1. AddToBook(o.market, o.side, o.price, o.amount)
      BY <2>3 DEF Place, Rest
    <3> QED BY <2>2, <3>1, BookStep
  <2>4. CASE UNCHANGED <<book, updates>> BY <2>4 DEF LevelStep
  <2> QED
    BY <2>1, <2>3, <2>4 DEF ProcessOrder, MatchInstantly, bookVars, engineVars
<1>2. CASE \E u \in Users : \E o \in orders[u] : ProcessCancel(o)
  <2>1. PICK o : o \in UNION {orders[u] : u \in Users} /\ ProcessCancel(o)
    BY <1>2
  <2>2. o \in Order BY <2>1 DEF IInv, EngineInv, EngineTypeOK
  <2>3. o.market \in Markets /\ o.side \in Sides BY <2>2, PayTypes
  <2>4. \/ RemoveFromBook(o.market, o.side, o.price, amounts[o])
        \/ UNCHANGED <<book, updates>>
    BY <2>1 DEF ProcessCancel, Cancel
  <2> QED BY <2>3, <2>4, BookStep DEF LevelStep
<1>3. CASE UNCHANGED bookkeeping
  BY <1>3 DEF bookkeeping, bookVars, LevelStep
<1> QED
  BY <1>1, <1>2, <1>3
  DEF ProcessTransaction, ProcessRegister, Register, ProcessDeposit, Deposit,
      ProcessWithdraw, Withdraw, WithdrawFault, KeyFault,
      ProcessBadNonce, ProcessCancelFault

\* A match changes it by a trade, or when what remains comes to rest.
LEMMA MatchLevels ==
    ASSUME IInv, Match
    PROVE  LevelStep
<1>1. /\ taker \in Order /\ taker # NoTaker /\ fault = "none"
  BY DEF IInv, EngineInv, EngineTypeOK, Match, ProcessTrade, ProcessMatched
<1>2. taker.market \in Markets /\ taker.side \in Sides
  BY <1>1, PayTypes
<1>3. CASE ProcessTrade
  <2>1. PICK h \in heap[taker.market][Other(taker.side)] :
            ExecuteTrade(h) \/ ExecuteTradeFault(h)
    BY <1>3 DEF ProcessTrade
  <2>2. CASE ExecuteTrade(h)
    <3>1. h.side \in Sides
      BY <1>1, <1>2, <2>1, <2>2, TradedHead, OtherSide DEF ExecuteTrade, IInv
    <3>2. \/ \E a : SetLevel(taker.market, h.side, h.price, a)
          \/ \E a : RemoveFromBook(taker.market, h.side, h.price, a)
      BY <2>2 DEF ExecuteTrade
    <3> QED BY <1>2, <3>1, <3>2, BookStep DEF LevelStep
  <2>3. CASE ExecuteTradeFault(h)
    BY <2>3 DEF ExecuteTradeFault, LevelStep
  <2> QED BY <2>1, <2>2, <2>3
<1>4. CASE ProcessMatched
  <2>1. CASE AddToBook(taker.market, taker.side, taker.price, remaining)
    BY <1>2, <2>1, BookStep
  <2>2. CASE UNCHANGED <<book, updates>> BY <2>2 DEF LevelStep
  <2> QED BY <1>4, <2>1, <2>2 DEF ProcessMatched, FinishMatch, Rest, bookVars
<1> QED BY <1>3, <1>4 DEF Match

\* Clients that are in step stay in step while levels change and are recorded.
LEMMA LevelStepInStep ==
    ASSUME BookTypeOK, LevelStep, NEW m \in Markets, NEW s \in Sides, NEW f,
           InStep(f, updates[m][s], book[m][s])
    PROVE  InStep(f, updates'[m][s], book'[m][s])
<1>1. CASE UNCHANGED <<book, updates>> BY <1>1
<1>2. ASSUME NEW n \in Markets, NEW z \in Sides, NEW p, NEW a,
             SetLevel(n, z, p, a)
      PROVE  InStep(f, updates'[m][s], book'[m][s])
  <2>1. CASE n = m /\ z = s
    <3>1. /\ updates'[m][s] = Put(updates[m][s], p, a)
          /\ book'[m][s] = Put(book[m][s], p, a)
      BY <1>2, <2>1 DEF SetLevel, BookTypeOK
    <3> QED BY <3>1, SetInStep
  <2>2. CASE ~ (n = m /\ z = s)
    <3>1. updates'[m][s] = updates[m][s] /\ book'[m][s] = book[m][s]
      BY <1>2, <2>2 DEF SetLevel, BookTypeOK
    <3> QED BY <3>1
  <2> QED BY <2>1, <2>2
<1>3. ASSUME NEW n \in Markets, NEW z \in Sides, NEW p, DeleteLevel(n, z, p)
      PROVE  InStep(f, updates'[m][s], book'[m][s])
  <2>1. CASE n = m /\ z = s
    <3>1. /\ updates'[m][s] = Put(updates[m][s], p, 0)
          /\ book'[m][s] = Drop(book[m][s], p)
      BY <1>3, <2>1 DEF DeleteLevel, BookTypeOK
    <3> QED BY <3>1, DeleteInStep
  <2>2. CASE ~ (n = m /\ z = s)
    <3>1. updates'[m][s] = updates[m][s] /\ book'[m][s] = book[m][s]
      BY <1>3, <2>2 DEF DeleteLevel, BookTypeOK
    <3> QED BY <3>1
  <2> QED BY <2>1, <2>2
<1> QED BY <1>1, <1>2, <1>3 DEF LevelStep

-----------------------------------------------------------------------------
(* The feed *)

FeedInv ==
    /\ viewed \in Markets \cup {NoView}
    /\ FeedComplete
    /\ SnapshotCatchesUp

\* At the start all three books are empty.
LEMMA InitFeed ==
    ASSUME FeedInit
    PROVE  FeedInv
<1>1. \A m \in Markets, s \in Sides :
          mirror[m][s] = <<>> /\ updates[m][s] = <<>> /\ book[m][s] = <<>>
  BY DEF FeedInit, Init, InitMarkets, NoEvents
<1>2. InStep(<<>>, <<>>, <<>>)
  BY DEF InStep
<1>3. FeedComplete BY <1>1, <1>2 DEF FeedComplete
<1>4. viewed = NoView BY DEF FeedInit
<1> QED BY <1>3, <1>4 DEF FeedInv, SnapshotCatchesUp

\* Whatever process does between two events.
LEMMA WorkKeepsFeed ==
    ASSUME IInv, FeedInv, Work
    PROVE  FeedInv'
<1>1. BookTypeOK /\ UNCHANGED <<mirror, viewed, view>>
  BY DEF IInv, EngineInv, EngineTypeOK, Work, clientVars
<1>2. LevelStep
  <2>1. CASE AbortBatch
    BY <2>1 DEF AbortBatch, engineVars, LevelStep
  <2> QED BY <2>1, TransactionLevels, MatchLevels DEF Work
<1>3. ASSUME NEW m \in Markets, NEW s \in Sides
      PROVE  InStep(mirror'[m][s], updates'[m][s], book'[m][s])
  BY <1>1, <1>2, LevelStepInStep DEF FeedInv, FeedComplete
<1>4. ASSUME viewed' # NoView, NEW s \in Sides
      PROVE  InStep(view'[s], updates'[viewed'][s], book'[viewed'][s])
  <2>1. viewed' = viewed /\ view' = view /\ viewed \in Markets
    BY <1>1, <1>4 DEF FeedInv
  <2>2. InStep(view[s], updates[viewed][s], book[viewed][s])
    BY <1>4, <2>1 DEF FeedInv, SnapshotCatchesUp
  <2> QED BY <1>1, <1>2, <2>1, <2>2, LevelStepInStep
<1>5. FeedComplete' BY <1>3 DEF FeedComplete
<1>6. SnapshotCatchesUp' BY <1>4 DEF SnapshotCatchesUp
<1> QED BY <1>1, <1>5, <1>6 DEF FeedInv

\* The end of a batch: the events are made, and applied by both clients.
LEMMA PublishKeepsFeed ==
    ASSUME FeedInv, Publish
    PROVE  FeedInv'
<1>1. /\ \A m \in Markets :
             updates'[m] = IF m \in modified THEN [s \in Sides |-> <<>>]
                           ELSE updates[m]
      /\ book' = book /\ viewed' = viewed
      /\ \A m \in Markets :
             mirror'[m] = IF m \in modified
                            THEN [s \in Sides |-> Applied(mirror[m][s], updates[m][s])]
                            ELSE mirror[m]
      /\ view' = IF viewed \in modified
                   THEN [s \in Sides |-> Applied(view[s], updates[viewed][s])]
                   ELSE view
  BY DEF Publish, EndBatch, GetOrderBookUpdate
<1>2. ASSUME NEW m \in Markets, NEW s \in Sides
      PROVE  InStep(mirror'[m][s], updates'[m][s], book'[m][s])
  <2>1. InStep(mirror[m][s], updates[m][s], book[m][s])
    BY DEF FeedInv, FeedComplete
  <2>2. CASE m \in modified
    <3>1. /\ mirror'[m][s] = Applied(mirror[m][s], updates[m][s])
          /\ updates'[m][s] = <<>> /\ book'[m][s] = book[m][s]
      BY <1>1, <2>2
    <3> QED BY <2>1, <3>1, SentInStep
  <2>3. CASE m \notin modified BY <1>1, <2>1, <2>3
  <2> QED BY <2>2, <2>3
<1>3. ASSUME viewed' # NoView, NEW s \in Sides
      PROVE  InStep(view'[s], updates'[viewed'][s], book'[viewed'][s])
  <2>1. viewed \in Markets /\ viewed' = viewed BY <1>1, <1>3 DEF FeedInv
  <2>2. InStep(view[s], updates[viewed][s], book[viewed][s])
    BY <1>3, <2>1 DEF FeedInv, SnapshotCatchesUp
  <2>3. CASE viewed \in modified
    <3>1. /\ view'[s] = Applied(view[s], updates[viewed][s])
          /\ updates'[viewed][s] = <<>> /\ book'[viewed][s] = book[viewed][s]
      BY <1>1, <2>1, <2>3
    <3> QED BY <2>1, <2>2, <3>1, SentInStep
  <2>4. CASE viewed \notin modified BY <1>1, <2>1, <2>2, <2>4
  <2> QED BY <2>3, <2>4
<1>4. FeedComplete' BY <1>2 DEF FeedComplete
<1>5. SnapshotCatchesUp' BY <1>3 DEF SnapshotCatchesUp
<1> QED BY <1>1, <1>4, <1>5 DEF FeedInv

\* A snapshot is as good as the subscriber's book.
LEMMA GetOrderBookKeepsFeed ==
    ASSUME FeedInv, NEW m \in Markets, GetOrderBook(m)
    PROVE  FeedInv'
<1>1. /\ UNCHANGED <<book, updates, mirror>>
      /\ viewed' = m /\ view' = book[m]
  BY DEF GetOrderBook, Copy, zexVars, engineVars
<1>2. ASSUME NEW s \in Sides
      PROVE  InStep(view'[s], updates'[viewed'][s], book'[viewed'][s])
  <2>1. InStep(mirror[m][s], updates[m][s], book[m][s])
    BY DEF FeedInv, FeedComplete
  <2> QED BY <1>1, <2>1, CopyInStep
<1>3. FeedComplete' BY <1>1 DEF FeedInv, FeedComplete
<1>4. SnapshotCatchesUp' BY <1>2 DEF SnapshotCatchesUp
<1> QED BY <1>1, <1>3, <1>4 DEF FeedInv

\* The exchange under observation is the exchange.
LEMMA FeedStep ==
    ASSUME [FeedNext]_feedVars
    PROVE  [Next]_zexVars
  BY DEF FeedNext, feedVars, Publish, Work, GetOrderBook, Next

\* Both invariants hold in every state of the observed exchange.
THEOREM FeedInvariance == FeedSpec => [](IInv /\ FeedInv)
<1>1. FeedInit => IInv /\ FeedInv
  BY InitKeeps, InitFeed DEF FeedInit
<1>2. IInv /\ FeedInv /\ [FeedNext]_feedVars => IInv' /\ FeedInv'
  <2> SUFFICES ASSUME IInv, FeedInv, [FeedNext]_feedVars
               PROVE  IInv' /\ FeedInv'
    OBVIOUS
  <2>1. IInv' BY FeedStep, StepKeeps
  <2>2. FeedInv'
    <3>1. CASE UNCHANGED feedVars
      BY <3>1 DEF feedVars, zexVars, engineVars, clientVars, FeedInv,
                  FeedComplete, SnapshotCatchesUp
    <3> QED
      BY <3>1, PublishKeepsFeed, WorkKeepsFeed, GetOrderBookKeepsFeed
      DEF FeedNext
  <2> QED BY <2>1, <2>2
<1> QED BY <1>1, <1>2, PTL DEF FeedSpec

\* A subscriber who applies every depth event has every level of every book
\* right, but for those waiting to be sent: no handler changes a level without
\* recording it.
THEOREM FeedCompleteHolds == FeedSpec => []FeedComplete
<1>1. FeedInv => FeedComplete BY DEF FeedInv
<1> QED BY <1>1, FeedInvariance, PTL

\* A client that starts from a snapshot of any moment catches up with the next
\* events.
THEOREM SnapshotHolds == FeedSpec => []SnapshotCatchesUp
<1>1. FeedInv => SnapshotCatchesUp BY DEF FeedInv
<1> QED BY <1>1, FeedInvariance, PTL
=============================================================================
