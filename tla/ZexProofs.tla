----------------------------- MODULE ZexProofs ------------------------------
(***************************************************************************)
(* Proofs about Zex.tla for every set of users, tokens and orders.  First  *)
(* the invariant that types and funds need; then, on top of it, the order  *)
(* book: nonces identify orders, the book is never crossed, every depth    *)
(* event has ids of its own, and, as long as the decimal context tells the *)
(* sums apart, every price level is the sum of what rests there and the    *)
(* process thread dies of a missing one over an empty order only.          *)
(***************************************************************************)
EXTENDS ZexProperties, SumProofs

-----------------------------------------------------------------------------
(* Orders and dictionaries *)

\* A pair is made of two tokens, and an order pays in one of them.
LEMMA PairTypes ==
    ASSUME NEW m \in Markets
    PROVE  Base(m) \in Tokens /\ Quote(m) \in Tokens
  BY MarketsAreTokenPairs DEF Base, Quote

\* An order's fields have their types, and so has what it pays for a quantity.
LEMMA PayTypes ==
    ASSUME NEW o \in Order, NEW q \in Int
    PROVE  /\ PayToken(o) \in Tokens
           /\ Cost(o, q) \in Int
           /\ o.market \in Markets /\ o.user \in Users /\ o.side \in Sides
           /\ o.price \in Int /\ o.amount \in Int /\ o.nonce \in Nat
  BY PairTypes DEF Order, PayToken, Cost, Sides

\* An order never costs less than nothing, and costs nothing for nothing.
LEMMA CostSign ==
    ASSUME NEW o \in Order, NEW q \in Nat, o.price >= 0
    PROVE  Cost(o, q) >= 0 /\ Cost(o, 0) = 0
<1>1. o.price \in Int BY DEF Order
<1>2. q * o.price >= 0 BY <1>1
<1> QED BY <1>1, <1>2 DEF Cost

\* What a dictionary holds after one key is set or deleted.
LEMMA PutFacts ==
    ASSUME NEW f, NEW k, NEW v
    PROVE  /\ DOMAIN Put(f, k, v) = DOMAIN f \cup {k}
           /\ Put(f, k, v)[k] = v
           /\ \A x \in DOMAIN f : x # k => Put(f, k, v)[x] = f[x]
  BY DEF Put

\* What is left of a dictionary when a key is deleted.
LEMMA DropFacts ==
    ASSUME NEW f, NEW k
    PROVE  /\ DOMAIN Drop(f, k) = DOMAIN f \ {k}
           /\ \A x \in DOMAIN f : x # k => Drop(f, k)[x] = f[x]
  BY DEF Drop

\* The other side of a side is a side.
LEMMA OtherSide == ASSUME NEW s \in Sides PROVE Other(s) \in Sides
  BY DEF Sides, Other

\* The order a user sends with the nonce validate_nonce accepts.
LEMMA OrderOfType ==
    ASSUME NEW u \in Users, NEW f \in Offers, AccountTypeOK
    PROVE  /\ OrderOf(f, u) \in Order
           /\ OrderOf(f, u).user = u
           /\ OrderOf(f, u).nonce = nonces[u]
           /\ OrderOf(f, u).market = f.market
           /\ f.market \in Markets
<1>1. f \in [side : Sides, market : Markets, amount : Int,
             price : Int, index : Nat]
  BY ZexAssumption
<1>2. nonces[u] \in Nat BY DEF AccountTypeOK
<1> QED BY <1>1, <1>2 DEF OrderOf, Order

-----------------------------------------------------------------------------
(* Price levels *)

\* Setting a price level keeps the book and the pending levels maps from prices
\* to amounts.
LEMMA SetLevelTypes ==
    ASSUME BookTypeOK, NEW m \in Markets, NEW s \in Sides, NEW p \in Int,
           NEW a \in Int, SetLevel(m, s, p, a)
    PROVE  BookTypeOK'
<1>1. /\ IsLevels(Put(book[m][s], p, a))
      /\ IsLevels(Put(updates[m][s], p, a))
  BY PutFacts DEF BookTypeOK, IsLevels, Put
<1>2. /\ DOMAIN book' = Markets /\ DOMAIN updates' = Markets
      /\ \A n \in Markets : DOMAIN book'[n] = Sides /\ DOMAIN updates'[n] = Sides
  BY DEF SetLevel, BookTypeOK
<1>3. \A n \in Markets, z \in Sides :
          /\ book'[n][z] = IF n = m /\ z = s THEN Put(book[m][s], p, a)
                           ELSE book[n][z]
          /\ updates'[n][z] = IF n = m /\ z = s THEN Put(updates[m][s], p, a)
                              ELSE updates[n][z]
  BY DEF SetLevel, BookTypeOK
<1> QED BY <1>1, <1>2, <1>3 DEF BookTypeOK

\* So does deleting one.
LEMMA DeleteLevelTypes ==
    ASSUME BookTypeOK, NEW m \in Markets, NEW s \in Sides, NEW p \in Int,
           DeleteLevel(m, s, p)
    PROVE  BookTypeOK'
<1>1. /\ IsLevels(Drop(book[m][s], p))
      /\ IsLevels(Put(updates[m][s], p, 0))
  BY PutFacts, DropFacts DEF BookTypeOK, IsLevels, Put, Drop
<1>2. /\ DOMAIN book' = Markets /\ DOMAIN updates' = Markets
      /\ \A n \in Markets : DOMAIN book'[n] = Sides /\ DOMAIN updates'[n] = Sides
  BY DEF DeleteLevel, BookTypeOK
<1>3. \A n \in Markets, z \in Sides :
          /\ book'[n][z] = IF n = m /\ z = s THEN Drop(book[m][s], p)
                           ELSE book[n][z]
          /\ updates'[n][z] = IF n = m /\ z = s THEN Put(updates[m][s], p, 0)
                              ELSE updates[n][z]
  BY DEF DeleteLevel, BookTypeOK
<1> QED BY <1>1, <1>2, <1>3 DEF BookTypeOK

\* The amount of a level that exists is a number.
LEMMA LevelTypes ==
    ASSUME BookTypeOK, NEW m \in Markets, NEW s \in Sides, NEW p,
           HasLevel(m, s, p)
    PROVE  book[m][s][p] \in Int
  BY DEF BookTypeOK, IsLevels, HasLevel

\* Rounding gives a number, and leaves alone one that the digits can tell.
LEMMA RoundedFacts ==
    ASSUME NEW x \in Int
    PROVE  Rounded(x) \in Int /\ (x <= Exact => Rounded(x) = x)
<1>1. Exact \in Nat /\ Coarse \in Nat \ {0}
  BY RoundingAssumption
<1>2. PICK b \in Int : b = x \div Coarse
  BY <1>1
<1>3. Coarse * b \in Int /\ Coarse * (b + 1) \in Int
  BY <1>1
<1> QED
  BY <1>1, <1>2, <1>3 DEF Rounded

\* Adding to and removing from the book keep it a book.
LEMMA AddToBookTypes ==
    ASSUME BookTypeOK, NEW m \in Markets, NEW s \in Sides, NEW p \in Int,
           NEW a \in Int, AddToBook(m, s, p, a)
    PROVE  BookTypeOK'
<1>1. CASE HasLevel(m, s, p)
  <2>1. Rounded(book[m][s][p] + a) \in Int
    <3>1. book[m][s][p] + a \in Int BY <1>1, LevelTypes
    <3> QED BY <3>1, RoundedFacts
  <2> QED BY <1>1, <2>1, SetLevelTypes DEF AddToBook
<1>2. CASE ~ HasLevel(m, s, p)
  BY <1>2, SetLevelTypes DEF AddToBook
<1> QED BY <1>1, <1>2

\* Taking an amount off a level, or the level off the book, keeps it a book.
LEMMA RemoveFromBookTypes ==
    ASSUME BookTypeOK, NEW m \in Markets, NEW s \in Sides, NEW p \in Int,
           NEW a \in Int, HasLevel(m, s, p), RemoveFromBook(m, s, p, a)
    PROVE  BookTypeOK'
<1>1. Rounded(book[m][s][p] - a) \in Int
  <2>1. book[m][s][p] - a \in Int BY LevelTypes
  <2> QED BY <2>1, RoundedFacts
<1> QED BY <1>1, SetLevelTypes, DeleteLevelTypes DEF RemoveFromBook

-----------------------------------------------------------------------------
(* The invariant behind the safety of the engine.  Orders come to rest and  *)
(* enter the loop at a price that is not negative, which the cost of an     *)
(* order needs, and the three registries agree, which makes the amount of   *)
(* the head of a heap the amount of a resting order.                        *)

RestingPrices == \A o \in DOMAIN amounts : o.price >= 0

TakerPrice == IF taker = NoTaker THEN remaining = 0 ELSE taker.price > 0

EngineInv == /\ EngineTypeOK
             /\ RestingPrices
             /\ TakerPrice
             /\ OneRegistry
             /\ Solvency

\* An order of a user's list or of a heap has an amount left, and its price is
\* not negative.
LEMMA RestingOrder ==
    ASSUME EngineInv, fault = "none", NEW o,
           \/ o \in UNION {orders[u] : u \in Users}
           \/ o \in UNION {heap[m][s] : m \in Markets, s \in Sides}
    PROVE  /\ o \in Order
           /\ o \in DOMAIN amounts
           /\ amounts[o] \in Nat
           /\ o.price >= 0
           /\ o \in heap[o.market][o.side]
           /\ o \in orders[o.user]
<1>1. o \in DOMAIN amounts
  BY DEF EngineInv, OneRegistry, OrdersAgree, HeapsAgree
<1>2. o \in Order /\ amounts[o] \in Nat /\ o.price >= 0
  BY <1>1 DEF EngineInv, EngineTypeOK, RestingPrices
<1>3. o.market \in Markets /\ o.side \in Sides /\ o.user \in Users
  BY <1>2, PayTypes
<1> QED BY <1>1, <1>2, <1>3 DEF EngineInv, OneRegistry, OrdersAgree, HeapsAgree

\* An order is never paid more than its own limit allows for the quantity.
LEMMA PaidWithinLimit ==
    ASSUME NEW o \in Order, NEW h \in Order, Crosses(o, h), h.price >= 0,
           NEW r \in Nat, NEW q \in 0 .. r
    PROVE  /\ Paid(o, q, h.price) \in Nat
           /\ Paid(o, q, h.price) + Cost(o, r - q) <= Cost(o, r)
<1>1. o.price \in Int /\ h.price \in Int BY DEF Order
<1>2. CASE o.side = "buy"
  <2>1. h.price <= o.price BY <1>2 DEF Crosses
  <2>2. q * h.price >= 0 /\ q * h.price \in Int BY <1>1
  <2>3. q * (o.price - h.price) >= 0 BY <1>1, <2>1
  <2>4. q * (o.price - h.price) = q * o.price - q * h.price BY <1>1
  <2>5. (r - q) * o.price = r * o.price - q * o.price BY <1>1
  <2>6. Paid(o, q, h.price) = q * h.price BY <1>2 DEF Paid
  <2>7. Cost(o, r - q) = (r - q) * o.price /\ Cost(o, r) = r * o.price
    BY <1>2 DEF Cost
  <2>8. /\ q * o.price \in Int /\ r * o.price \in Int
        /\ q * o.price >= q * h.price
    BY <1>1, <2>2, <2>3, <2>4
  <2> HIDE <1>2
  <2> QED BY <2>2, <2>5, <2>6, <2>7, <2>8
<1>3. CASE o.side # "buy"
  BY <1>3 DEF Paid, Cost
<1> QED BY <1>2, <1>3

\* A trade takes from nobody but the order that came in, and no more than it
\* pays; everyone else's balance stays or grows.
LEMMA SettleFacts ==
    ASSUME NEW o \in Order, NEW h \in Order, NEW q \in Nat, NEW p \in Nat,
           h.market = o.market, Paid(o, q, p) \in Nat,
           assets \in [Tokens -> [Users -> Int]],
           Settle(o, h, q, p)
    PROVE  /\ assets' \in [Tokens -> [Users -> Int]]
           /\ \A t \in Tokens, u \in Users :
                  assets'[t][u] >= assets[t][u] -
                      IF t = PayToken(o) /\ u = o.user
                        THEN Paid(o, q, p) ELSE 0
<1> DEFINE m == o.market
           buyer  == IF o.side = "buy" THEN o.user ELSE h.user
           seller == IF o.side = "buy" THEN h.user ELSE o.user
           base   == [assets EXCEPT ![Base(m)][buyer] = @ + q]
           quote  == [base EXCEPT ![Quote(m)][seller] = @ + p * q]
<1>1. /\ Base(m) \in Tokens /\ Quote(m) \in Tokens
      /\ buyer \in Users /\ seller \in Users
      /\ PayToken(o) \in Tokens /\ o.user \in Users
  BY PayTypes, PairTypes
<1>2. p * q \in Nat
  OBVIOUS
<1>3. /\ base \in [Tokens -> [Users -> Int]]
      /\ \A t \in Tokens, u \in Users : base[t][u] >= assets[t][u]
  BY <1>1
<1>4. /\ quote \in [Tokens -> [Users -> Int]]
      /\ \A t \in Tokens, u \in Users : quote[t][u] >= base[t][u]
  <2> HIDE DEF base
  <2> QED BY <1>1, <1>2, <1>3
<1>5. assets' = [quote EXCEPT ![PayToken(o)][o.user] = @ - Paid(o, q, p)]
  BY DEF Settle
<1> HIDE DEF base, quote, m, buyer, seller
<1>6. assets' \in [Tokens -> [Users -> Int]]
  BY <1>1, <1>4, <1>5
<1>7. ASSUME NEW t \in Tokens, NEW u \in Users
      PROVE  assets'[t][u] = quote[t][u] -
                 IF t = PayToken(o) /\ u = o.user THEN Paid(o, q, p) ELSE 0
  BY <1>1, <1>4, <1>5
<1>8. \A t \in Tokens, u \in Users : assets[t][u] \in Int /\ quote[t][u] \in Int
                                     /\ quote[t][u] >= assets[t][u]
  BY <1>3, <1>4
<1> QED BY <1>6, <1>7, <1>8

Balance == [Tokens -> [Users -> Int]]

\* What a trade of order o does to every balance: the buyer b gets q, the
\* seller s gets x, and what o pays is taken from its owner.
Settled(o, b, s, q, x, paid) ==
    \A t \in Tokens, u \in Users :
        assets'[t][u] = assets[t][u]
            + (IF t = Base(o.market) /\ u = b THEN q ELSE 0)
            + (IF t = Quote(o.market) /\ u = s THEN x ELSE 0)
            - (IF t = PayToken(o) /\ u = o.user THEN paid ELSE 0)

LEMMA SettleExactly ==
    ASSUME NEW o \in Order, NEW h \in Order, NEW q \in Int, NEW p \in Int,
           assets \in Balance, NEW paid \in Int, paid = Paid(o, q, p),
           Settle(o, h, q, p), NEW x \in Int, x = p * q,
           NEW b \in Users, NEW s \in Users,
           b = IF o.side = "buy" THEN o.user ELSE h.user,
           s = IF o.side = "buy" THEN h.user ELSE o.user
    PROVE  Settled(o, b, s, q, x, paid)
<1> DEFINE base  == [assets EXCEPT ![Base(o.market)][b] = @ + q]
           quote == [base EXCEPT ![Quote(o.market)][s] = @ + x]
<1>1. /\ Base(o.market) \in Tokens /\ Quote(o.market) \in Tokens
      /\ PayToken(o) \in Tokens /\ o.user \in Users
  BY PayTypes, PairTypes
<1>2. assets' = [quote EXCEPT ![PayToken(o)][o.user] = @ - paid]
  BY DEF Settle
<1>3. base \in Balance
  BY <1>1 DEF Balance
<1>4. ASSUME NEW t \in Tokens, NEW u \in Users
      PROVE  base[t][u] = assets[t][u]
                 + (IF t = Base(o.market) /\ u = b THEN q ELSE 0)
  BY <1>1 DEF Balance
<1> HIDE DEF base
<1>5. quote \in Balance
  BY <1>1, <1>3 DEF Balance
<1>6. ASSUME NEW t \in Tokens, NEW u \in Users
      PROVE  quote[t][u] = base[t][u]
                 + (IF t = Quote(o.market) /\ u = s THEN x ELSE 0)
  BY <1>1, <1>3 DEF Balance
<1> HIDE DEF quote
<1>7. ASSUME NEW t \in Tokens, NEW u \in Users
      PROVE  assets'[t][u] = quote[t][u]
                 - (IF t = PayToken(o) /\ u = o.user THEN paid ELSE 0)
  BY <1>1, <1>2, <1>5 DEF Balance
<1>8. \A t \in Tokens, u \in Users :
          /\ assets[t][u] \in Int /\ base[t][u] \in Int /\ quote[t][u] \in Int
  BY <1>3, <1>5 DEF Balance
<1> QED
  BY <1>4, <1>6, <1>7, <1>8 DEF Settled

-----------------------------------------------------------------------------
(* Every operation of the engine keeps its invariant. *)

\* match_instantly, when the order enters the loop.
LEMMA MatchInstantlyKeeps ==
    ASSUME EngineInv, NEW o \in Order, MatchInstantly(o)
    PROVE  EngineInv'
<1>1. EngineTypeOK'
  <2>1. o.amount \in Int /\ o.amount > 0 BY PayTypes DEF MatchInstantly, WillCross
  <2>2. BookTypeOK' BY DEF MatchInstantly, EngineInv, EngineTypeOK, BookTypeOK, bookVars
  <2> QED BY <2>1, <2>2
       DEF MatchInstantly, EngineInv, EngineTypeOK, bookVars, idVars
<1>2. RestingPrices' BY DEF MatchInstantly, EngineInv, RestingPrices
<1>3. TakerPrice' BY NoTakerIsNoOrder DEF MatchInstantly, WillCross, TakerPrice
<1>4. OneRegistry' BY DEF MatchInstantly, EngineInv, OneRegistry, OrdersAgree, HeapsAgree, bookVars
<1>5. Solvency'
  BY DEF MatchInstantly, CanPay, EngineInv, Solvency, PayToken, Cost
<1> QED BY <1>1, <1>2, <1>3, <1>4, <1>5 DEF EngineInv

\* An order that comes to rest, paid for by a balance that covers it.
LEMMA RestKeeps ==
    ASSUME EngineInv, fault = "none", NEW o \in Order, NEW a \in Nat,
           o.price >= 0, assets[PayToken(o)][o.user] >= Cost(o, a),
           taker = NoTaker \/ taker = o, Rest(o, a),
           taker' = NoTaker, remaining' = 0, fault' = fault,
           finalId' \in [Markets -> Nat], UNCHANGED idVars
    PROVE  EngineInv'
<1>0. /\ PayToken(o) \in Tokens /\ o.user \in Users /\ o.market \in Markets
      /\ o.side \in Sides /\ o.price \in Int /\ Cost(o, a) \in Int
  BY PayTypes
<1>1. /\ DOMAIN amounts' = DOMAIN amounts \cup {o}
      /\ amounts'[o] = a
      /\ \A x \in DOMAIN amounts : x # o => amounts'[x] = amounts[x]
  BY DEF Rest, Put
<1>2. /\ assets' \in [Tokens -> [Users -> Int]]
      /\ \A t \in Tokens, u \in Users : assets'[t][u] >= 0
  BY <1>0 DEF Rest, Debit, EngineInv, EngineTypeOK, Solvency
<1>3. /\ orders' \in [Users -> SUBSET Order]
      /\ \A u \in Users :
             orders'[u] = IF u = o.user THEN orders[u] \cup {o} ELSE orders[u]
  BY <1>0 DEF Rest, EngineInv, EngineTypeOK
<1>4. /\ heap' \in [Markets -> [Sides -> SUBSET Order]]
      /\ \A m \in Markets, s \in Sides :
             heap'[m][s] = IF m = o.market /\ s = o.side
                             THEN heap[m][s] \cup {o} ELSE heap[m][s]
  BY <1>0 DEF Rest, EngineInv, EngineTypeOK
<1>5. EngineTypeOK'
  <2>1. BookTypeOK'
    BY <1>0, AddToBookTypes DEF Rest, EngineInv, EngineTypeOK
  <2>2. DOMAIN amounts' \subseteq Order
    BY <1>1 DEF EngineInv, EngineTypeOK
  <2>3. \A x \in DOMAIN amounts' : amounts'[x] \in Nat
    BY <1>1 DEF EngineInv, EngineTypeOK
  <2> QED BY <1>2, <1>3, <1>4, <2>1, <2>2, <2>3
       DEF EngineInv, EngineTypeOK, idVars
<1>6. RestingPrices' BY <1>1 DEF EngineInv, RestingPrices
<1>7. TakerPrice' BY DEF TakerPrice
<1>8. OneRegistry'
  <2>1. OrdersAgree'
    BY <1>0, <1>1, <1>3 DEF EngineInv, OneRegistry, OrdersAgree
  <2>2. HeapsAgree'
    <3>1. HeapsAgree BY DEF EngineInv, OneRegistry
    <3>2. ASSUME NEW m \in Markets, NEW s \in Sides
          PROVE  heap'[m][s] = {x \in DOMAIN amounts' :
                                    x.market = m /\ x.side = s}
      <4>1. heap[m][s] = {x \in DOMAIN amounts : x.market = m /\ x.side = s}
        BY <3>1 DEF HeapsAgree
      <4>2. CASE m = o.market /\ s = o.side
        BY <1>1, <1>4, <4>1, <4>2
      <4>3. CASE ~ (m = o.market /\ s = o.side)
        <5>1. heap'[m][s] = heap[m][s]
          BY <1>4, <4>3
        <5>2. \A x \in DOMAIN amounts' :
                  x.market = m /\ x.side = s <=>
                      x \in DOMAIN amounts /\ x.market = m /\ x.side = s
          BY <1>1, <4>3
        <5>3. DOMAIN amounts \subseteq DOMAIN amounts'
          BY <1>1
        <5> QED
          BY <4>1, <5>1, <5>2, <5>3
      <4> QED BY <4>2, <4>3
    <3> QED BY <3>2 DEF HeapsAgree
  <2> QED BY <2>1, <2>2 DEF OneRegistry
<1>9. Solvency' BY <1>2 DEF Solvency
<1> QED BY <1>5, <1>6, <1>7, <1>8, <1>9 DEF EngineInv

\* place keeps the engine's invariant.
LEMMA PlaceKeeps ==
    ASSUME EngineInv, fault = "none", taker = NoTaker, NEW o \in Order, Place(o)
    PROVE  EngineInv'
<1>1. /\ o.price \in Int /\ o.amount \in Nat /\ o.market \in Markets
  BY PayTypes DEF Place
<1>2. finalId' \in [Markets -> Nat]
  BY <1>1 DEF Place, UseIds, EngineInv, EngineTypeOK
<1>3. taker' = NoTaker /\ remaining' = 0 /\ fault' = fault
  BY DEF Place, EngineInv, TakerPrice
<1>4. /\ o.price >= 0 /\ assets[PayToken(o)][o.user] >= Cost(o, o.amount)
      /\ Rest(o, o.amount) /\ UNCHANGED idVars
  BY DEF Place, CanPay
<1> QED BY <1>1, <1>2, <1>3, <1>4, RestKeeps

\* So does the end of the matching loop, whether its order rests or is filled.
LEMMA FinishMatchKeeps ==
    ASSUME EngineInv, fault = "none", taker # NoTaker, FinishMatch
    PROVE  EngineInv'
<1>1. /\ taker \in Order /\ taker.price > 0 /\ taker.price >= 0
      /\ remaining \in Nat /\ finalId' \in [Markets -> Nat]
      /\ assets[PayToken(taker)][taker.user] >= Cost(taker, remaining)
  BY PayTypes
  DEF EngineInv, EngineTypeOK, TakerPrice, Solvency, FinishMatch
<1>2. CASE remaining > 0
  BY <1>1, <1>2, RestKeeps DEF FinishMatch
<1>3. CASE remaining = 0
  <2>1. UNCHANGED <<assets, amounts, orders, heap, book, updates, finalId,
                    firstId, lastUpdateId, fault>>
    BY <1>3 DEF FinishMatch, bookVars, idVars
  <2>2. taker' = NoTaker /\ remaining' = 0 BY DEF FinishMatch
  <2>3. EngineTypeOK'
    BY <2>1, <2>2 DEF EngineInv, EngineTypeOK, BookTypeOK
  <2>4. RestingPrices' /\ TakerPrice' /\ OneRegistry' /\ Solvency'
    BY <2>1, <2>2
    DEF EngineInv, RestingPrices, TakerPrice, OneRegistry, OrdersAgree,
        HeapsAgree, Solvency
  <2> QED BY <2>3, <2>4 DEF EngineInv
<1> QED BY <1>1, <1>2, <1>3

\* The head a trade is made with, and what is left of both orders after it.
LEMMA TradedHead ==
    ASSUME EngineInv, fault = "none", taker # NoTaker, NEW h,
           h \in heap[taker.market][Other(taker.side)],
           remaining > 0
    PROVE  /\ taker \in Order /\ h \in Order /\ h \in DOMAIN amounts
           /\ h.market = taker.market /\ h.side = Other(taker.side)
           /\ h.price \in Nat
           /\ amounts[h] \in Nat
           /\ TradeAmount(h) \in 0 .. remaining
           /\ TradeAmount(h) \in 0 .. amounts[h]
<1>1. taker \in Order /\ remaining \in Nat BY DEF EngineInv, EngineTypeOK
<1>2. taker.market \in Markets /\ Other(taker.side) \in Sides
  BY <1>1, PayTypes, OtherSide
<1>3. h \in UNION {heap[m][s] : m \in Markets, s \in Sides} BY <1>2
<1>4. /\ h \in Order /\ h \in DOMAIN amounts /\ amounts[h] \in Nat
      /\ h.price >= 0
  BY <1>3, RestingOrder
<1>5. h.market = taker.market /\ h.side = Other(taker.side)
  BY <1>2 DEF EngineInv, OneRegistry, HeapsAgree
<1>6. h.price \in Nat BY <1>4, PayTypes
<1> QED BY <1>1, <1>4, <1>5, <1>6 DEF TradeAmount

\* A resting order that leaves leaves all three registries.
LEMMA ForgetFacts ==
    ASSUME EngineInv, fault = "none", NEW o \in DOMAIN amounts, o \in Order,
           Forget(o),
           heap' = [heap EXCEPT ![o.market][o.side] = @ \ {o}]
    PROVE  /\ DOMAIN amounts' = DOMAIN amounts \ {o}
           /\ \A x \in DOMAIN amounts' : amounts'[x] = amounts[x]
           /\ orders' \in [Users -> SUBSET Order]
           /\ heap' \in [Markets -> [Sides -> SUBSET Order]]
           /\ OneRegistry'
<1>0. o.user \in Users /\ o.market \in Markets /\ o.side \in Sides
  BY PayTypes
<1>1. /\ DOMAIN amounts' = DOMAIN amounts \ {o}
      /\ \A x \in DOMAIN amounts' : amounts'[x] = amounts[x]
  BY DropFacts DEF Forget
<1>2. /\ orders' \in [Users -> SUBSET Order]
      /\ \A u \in Users :
             orders'[u] = IF u = o.user THEN orders[u] \ {o} ELSE orders[u]
  BY <1>0 DEF Forget, EngineInv, EngineTypeOK
<1>3. /\ heap' \in [Markets -> [Sides -> SUBSET Order]]
      /\ \A m \in Markets, s \in Sides :
             heap'[m][s] = IF m = o.market /\ s = o.side
                             THEN heap[m][s] \ {o} ELSE heap[m][s]
  BY <1>0 DEF EngineInv, EngineTypeOK
<1>4. OrdersAgree'
  BY <1>0, <1>1, <1>2 DEF EngineInv, OneRegistry, OrdersAgree
<1>5. HeapsAgree'
  BY <1>0, <1>1, <1>3 DEF EngineInv, OneRegistry, HeapsAgree
<1> QED BY <1>1, <1>2, <1>3, <1>4, <1>5 DEF OneRegistry

\* A trade leaves everyone solvent, and the order that came in able to pay for
\* what remains of it.
LEMMA TradeSolvency ==
    ASSUME EngineInv, fault = "none", taker # NoTaker, NEW h,
           ExecuteTrade(h)
    PROVE  assets' \in [Tokens -> [Users -> Int]] /\ Solvency'
<1> DEFINE q == TradeAmount(h)
           paid == Paid(taker, q, h.price)
<1>1. /\ taker \in Order /\ h \in Order /\ h.market = taker.market
      /\ h.price \in Nat /\ q \in 0 .. remaining
      /\ remaining \in Nat
      /\ assets \in [Tokens -> [Users -> Int]]
  BY TradedHead DEF ExecuteTrade, Heads, EngineInv, EngineTypeOK
<1>2. Crosses(taker, h) BY DEF ExecuteTrade
<1>3. paid \in Nat /\ paid + Cost(taker, remaining - q) <= Cost(taker, remaining)
  BY <1>1, <1>2, PaidWithinLimit
<1>4. remaining - q \in Nat BY <1>1
<1>5. /\ Cost(taker, remaining - q) \in Int /\ Cost(taker, remaining) \in Int
      /\ PayToken(taker) \in Tokens /\ taker.user \in Users
  BY <1>1, <1>4, PayTypes
<1>6. taker.price >= 0
  BY <1>1, PayTypes DEF EngineInv, TakerPrice
<1>7. Cost(taker, remaining - q) >= 0
  BY <1>1, <1>4, <1>6, CostSign
<1>8. /\ Settle(taker, h, q, h.price) /\ taker' = taker
      /\ remaining' = remaining - q
  BY DEF ExecuteTrade
<1>9. /\ assets' \in [Tokens -> [Users -> Int]]
      /\ \A t \in Tokens, u \in Users :
             assets'[t][u] >= assets[t][u] -
                 IF t = PayToken(taker) /\ u = taker.user THEN paid ELSE 0
  BY <1>1, <1>3, <1>8, SettleFacts
<1>10. /\ \A t \in Tokens, u \in Users : assets[t][u] >= 0 /\ assets[t][u] \in Int
       /\ assets[PayToken(taker)][taker.user] >= Cost(taker, remaining)
  BY <1>1 DEF EngineInv, Solvency
<1> HIDE DEF q, paid
<1>11. assets'[PayToken(taker)][taker.user] >= Cost(taker, remaining - q)
  BY <1>3, <1>5, <1>9, <1>10
<1>12. ASSUME NEW t \in Tokens, NEW u \in Users PROVE assets'[t][u] >= 0
  <2>1. CASE t = PayToken(taker) /\ u = taker.user
    BY <2>1, <1>5, <1>7, <1>9, <1>11
  <2>2. CASE ~ (t = PayToken(taker) /\ u = taker.user)
    BY <2>2, <1>9, <1>10
  <2> QED BY <2>1, <2>2
<1>13. PayToken(taker)' = PayToken(taker) /\ Cost(taker, remaining)' = Cost(taker, remaining - q)
  BY <1>8 DEF PayToken, Cost
<1> QED BY <1>8, <1>9, <1>11, <1>12, <1>13 DEF Solvency

\* An iteration of the matching loop keeps the engine's invariant.
LEMMA ExecuteTradeKeeps ==
    ASSUME EngineInv, fault = "none", taker # NoTaker, NEW h,
           ExecuteTrade(h)
    PROVE  EngineInv'
<1> DEFINE q == TradeAmount(h)
<1>1. /\ taker \in Order /\ h \in Order /\ h \in DOMAIN amounts
      /\ h.market = taker.market /\ h.side = Other(taker.side)
      /\ h.price \in Nat /\ amounts[h] \in Nat
      /\ q \in 0 .. remaining /\ q \in 0 .. amounts[h]
      /\ remaining \in Nat
  BY TradedHead DEF ExecuteTrade, Heads, EngineInv, EngineTypeOK
<1>2. h.market \in Markets /\ h.side \in Sides /\ h.price \in Int
  BY <1>1, PayTypes
<1>3. /\ taker' = taker /\ fault' = fault /\ remaining' = remaining - q
      /\ HasLevel(h.market, h.side, h.price)
      /\ UNCHANGED <<firstId, lastUpdateId>>
  BY <1>1 DEF ExecuteTrade, idVars
<1>4. remaining' \in Nat BY <1>1, <1>3
<1>5. finalId' \in [Markets -> Nat]
  BY <1>1, <1>2 DEF ExecuteTrade, UseIds, EngineInv, EngineTypeOK
<1>6. assets' \in [Tokens -> [Users -> Int]] /\ Solvency' BY TradeSolvency
<1>7. TakerPrice'
  BY <1>3 DEF EngineInv, TakerPrice
<1>8. /\ DOMAIN amounts' \subseteq DOMAIN amounts
      /\ \A o \in DOMAIN amounts' : amounts'[o] \in Nat
      /\ orders' \in [Users -> SUBSET Order]
      /\ heap' \in [Markets -> [Sides -> SUBSET Order]]
      /\ BookTypeOK'
      /\ OneRegistry'
  <2>1. CASE amounts[h] > q
    <3>1. /\ SetLevel(h.market, h.side, h.price,
                      Rounded(book[h.market][h.side][h.price] - q))
          /\ amounts' = [amounts EXCEPT ![h] = @ - q]
          /\ UNCHANGED <<heap, orders>>
      BY <1>1, <2>1 DEF ExecuteTrade
    <3>2. BookTypeOK'
      <4>1. book[h.market][h.side][h.price] \in Int
        BY <1>2, <1>3, LevelTypes DEF EngineInv, EngineTypeOK
      <4>2. Rounded(book[h.market][h.side][h.price] - q) \in Int
        <5>1. book[h.market][h.side][h.price] - q \in Int BY <4>1, <1>1
        <5> QED BY <5>1, RoundedFacts
      <4> QED BY <3>1, <4>2, <1>2, SetLevelTypes DEF EngineInv, EngineTypeOK
    <3>3. /\ DOMAIN amounts' = DOMAIN amounts
          /\ \A o \in DOMAIN amounts' : amounts'[o] \in Nat
      BY <3>1, <1>1, <2>1 DEF EngineInv, EngineTypeOK
    <3>4. OneRegistry'
      BY <3>1, <3>3, <1>3 DEF EngineInv, OneRegistry, OrdersAgree, HeapsAgree
    <3> QED BY <3>1, <3>2, <3>3, <3>4 DEF EngineInv, EngineTypeOK
  <2>2. CASE ~ amounts[h] > q
    <3>1. /\ heap' = [heap EXCEPT ![h.market][h.side] = @ \ {h}]
          /\ RemoveFromBook(h.market, h.side, h.price, q)
          /\ Forget(h)
      BY <1>1, <2>2 DEF ExecuteTrade
    <3>2. BookTypeOK'
      BY <3>1, <1>1, <1>2, <1>3, RemoveFromBookTypes DEF EngineInv, EngineTypeOK
    <3>3. /\ DOMAIN amounts' = DOMAIN amounts \ {h}
          /\ \A x \in DOMAIN amounts' : amounts'[x] = amounts[x]
          /\ orders' \in [Users -> SUBSET Order]
          /\ heap' \in [Markets -> [Sides -> SUBSET Order]]
          /\ OneRegistry'
      BY <3>1, <1>1, ForgetFacts
    <3> QED BY <3>2, <3>3 DEF EngineInv, EngineTypeOK
  <2> QED BY <2>1, <2>2
<1>9. RestingPrices' BY <1>8 DEF EngineInv, RestingPrices
<1>10. EngineTypeOK'
  BY <1>3, <1>4, <1>5, <1>6, <1>8 DEF EngineInv, EngineTypeOK
<1> QED BY <1>6, <1>7, <1>8, <1>9, <1>10 DEF EngineInv

\* An iteration that dies of a KeyError keeps it too, the agreement of the
\* registries being asked for no longer.
LEMMA ExecuteTradeFaultKeeps ==
    ASSUME EngineInv, fault = "none", taker # NoTaker, NEW h,
           ExecuteTradeFault(h)
    PROVE  EngineInv'
<1>1. taker.market \in Markets /\ h.side \in Sides
  BY PayTypes, TradedHead, OtherSide
  DEF ExecuteTradeFault, Heads, EngineInv, EngineTypeOK
<1>2. heap' \in [Markets -> [Sides -> SUBSET Order]]
  BY <1>1 DEF ExecuteTradeFault, EngineInv, EngineTypeOK
<1>3. finalId' \in [Markets -> Nat]
  BY <1>1 DEF ExecuteTradeFault, UseIds, EngineInv, EngineTypeOK
<1>4. EngineTypeOK'
  BY <1>2, <1>3
  DEF ExecuteTradeFault, EngineInv, EngineTypeOK, BookTypeOK, idVars
<1>5. RestingPrices' /\ TakerPrice' /\ OneRegistry' /\ Solvency'
  BY DEF ExecuteTradeFault, EngineInv, RestingPrices, TakerPrice, OneRegistry,
         Solvency
<1> QED BY <1>4, <1>5 DEF EngineInv

\* cancel keeps it, with the price level found or not.
LEMMA CancelKeeps ==
    ASSUME EngineInv, fault = "none", taker = NoTaker, NEW u \in Users,
           NEW o \in orders[u], Cancel(o)
    PROVE  EngineInv'
<1>1. /\ o \in Order /\ o \in DOMAIN amounts /\ amounts[o] \in Nat
      /\ o.price >= 0
  BY RestingOrder
<1>2. /\ o.market \in Markets /\ o.side \in Sides /\ o.user \in Users
      /\ PayToken(o) \in Tokens /\ o.price \in Int
      /\ Cost(o, amounts[o]) \in Int /\ Cost(o, amounts[o]) >= 0
  BY <1>1, PayTypes, CostSign
<1>3. /\ Forget(o)
      /\ heap' = [heap EXCEPT ![o.market][o.side] = @ \ {o}]
      /\ assets' = [assets EXCEPT ![PayToken(o)][o.user] =
                         @ + Cost(o, amounts[o])]
      /\ taker' = taker /\ remaining' = remaining
      /\ UNCHANGED <<firstId, lastUpdateId>>
  BY DEF Cancel, idVars
<1>4. /\ DOMAIN amounts' = DOMAIN amounts \ {o}
      /\ \A x \in DOMAIN amounts' : amounts'[x] = amounts[x]
      /\ orders' \in [Users -> SUBSET Order]
      /\ heap' \in [Markets -> [Sides -> SUBSET Order]]
      /\ OneRegistry'
  BY <1>1, <1>3, ForgetFacts
<1>5. /\ assets' \in [Tokens -> [Users -> Int]]
      /\ \A t \in Tokens, v \in Users : assets'[t][v] >= 0
  BY <1>2, <1>3 DEF EngineInv, EngineTypeOK, Solvency
<1>6. /\ BookTypeOK' /\ finalId' \in [Markets -> Nat]
      /\ fault' \in {"none", "key", "level"}
  <2>1. CASE HasLevel(o.market, o.side, o.price)
    <3>1. /\ RemoveFromBook(o.market, o.side, o.price, amounts[o])
          /\ UseIds(o.market, 1) /\ fault' = fault
      BY <2>1 DEF Cancel
    <3>2. BookTypeOK'
      BY <3>1, <2>1, <1>1, <1>2, RemoveFromBookTypes DEF EngineInv, EngineTypeOK
    <3> QED BY <3>1, <3>2, <1>2 DEF UseIds, EngineInv, EngineTypeOK
  <2>2. CASE ~ HasLevel(o.market, o.side, o.price)
    <3>1. fault' = "level" /\ UNCHANGED <<book, updates, finalId>>
      BY <2>2 DEF Cancel
    <3> QED BY <3>1 DEF EngineInv, EngineTypeOK, BookTypeOK
  <2> QED BY <2>1, <2>2
<1>7. EngineTypeOK'
  BY <1>3, <1>4, <1>5, <1>6 DEF EngineInv, EngineTypeOK
<1>8. RestingPrices' BY <1>4 DEF EngineInv, RestingPrices
<1>9. TakerPrice' BY <1>3 DEF EngineInv, TakerPrice
<1>10. Solvency' BY <1>3, <1>5 DEF Solvency
<1> QED BY <1>4, <1>7, <1>8, <1>9, <1>10 DEF EngineInv

\* Handing out the pending levels keeps it.
LEMMA GetOrderBookUpdateKeeps ==
    ASSUME EngineInv, NEW ms, GetOrderBookUpdate(ms)
    PROVE  EngineInv'
<1>1. /\ firstId' \in [Markets -> Nat] /\ lastUpdateId' \in [Markets -> Nat]
  BY DEF GetOrderBookUpdate, EngineInv, EngineTypeOK
<1>2. BookTypeOK'
  <2>1. IsLevels(<<>>) BY DEF IsLevels
  <2>2. book' = book
    BY DEF GetOrderBookUpdate
  <2>3. \A m \in Markets : updates'[m] = IF m \in ms THEN [s \in Sides |-> <<>>]
                                        ELSE updates[m]
    BY DEF GetOrderBookUpdate
  <2>4. DOMAIN updates' = Markets BY DEF GetOrderBookUpdate
  <2> QED BY <2>1, <2>2, <2>3, <2>4 DEF EngineInv, EngineTypeOK, BookTypeOK
<1>3. EngineTypeOK'
  BY <1>1, <1>2 DEF GetOrderBookUpdate, EngineInv, EngineTypeOK
<1>4. RestingPrices' /\ TakerPrice' /\ OneRegistry' /\ Solvency'
  BY DEF GetOrderBookUpdate, EngineInv, RestingPrices, TakerPrice, OneRegistry,
         OrdersAgree, HeapsAgree, Solvency
<1> QED BY <1>3, <1>4 DEF EngineInv

-----------------------------------------------------------------------------
(* Every operation of the accounts keeps both invariants. *)

\* Between two orders the balances may change, if none becomes negative.
LEMMA AssetsKeep ==
    ASSUME EngineInv, fault = "none", taker = NoTaker, UNCHANGED bookkeeping,
           fault' \in {"none", "key"},
           assets' \in [Tokens -> [Users -> Int]],
           \A t \in Tokens, u \in Users : assets'[t][u] >= 0
    PROVE  EngineInv'
<1>1. UNCHANGED <<amounts, orders, heap, book, updates, firstId, lastUpdateId,
                  finalId, taker, remaining>>
  BY DEF bookkeeping, bookVars, idVars
<1>2. EngineTypeOK'
  BY <1>1 DEF EngineInv, EngineTypeOK, BookTypeOK
<1>3. RestingPrices' /\ TakerPrice' /\ OneRegistry' /\ Solvency'
  BY <1>1 DEF EngineInv, RestingPrices, TakerPrice, OneRegistry, OrdersAgree,
              HeapsAgree, Solvency
<1> QED BY <1>2, <1>3 DEF EngineInv

\* The balances of a state that satisfies the invariant.
LEMMA Balances ==
    ASSUME EngineInv
    PROVE  /\ assets \in [Tokens -> [Users -> Int]]
           /\ \A t \in Tokens, u \in Users : assets[t][u] >= 0
  BY DEF EngineInv, EngineTypeOK, Solvency

\* A KeyError raised before anything was changed.
LEMMA KeyFaultKeeps ==
    ASSUME EngineInv, AccountTypeOK, fault = "none", taker = NoTaker, KeyFault
    PROVE  EngineInv' /\ AccountTypeOK'
<1>1. UNCHANGED bookkeeping /\ assets' = assets /\ fault' = "key"
  BY DEF KeyFault
<1>2. EngineInv' BY <1>1, Balances, AssetsKeep
<1>3. AccountTypeOK'
  BY DEF KeyFault, accountVars, userVars, depositVars, AccountTypeOK
<1> QED BY <1>2, <1>3

\* register_pub gives a new user the next dense id.
LEMMA RegisterKeeps ==
    ASSUME EngineInv, AccountTypeOK, fault = "none", taker = NoTaker,
           NEW u \in Users, Register(u)
    PROVE  EngineInv' /\ AccountTypeOK'
<1>1. UNCHANGED bookkeeping /\ assets' = assets /\ fault' = fault
  BY DEF Register
<1>2. EngineInv' BY <1>1, Balances, AssetsKeep
<1>3. UNCHANGED <<nonces, listed, markets, contractToId, lastTokenId>>
  BY DEF Register, depositVars
<1>4. /\ lastUserId' \in Nat /\ DOMAIN publicToId' \subseteq Users
      /\ \A x \in DOMAIN publicToId' : publicToId'[x] \in 1 .. lastUserId'
      /\ idToPublic' \in [1 .. lastUserId' -> Users]
  <2>1. CASE u \in Registered
    BY <2>1 DEF Register, userVars, AccountTypeOK
  <2>2. CASE u \notin Registered
    <3>1. /\ lastUserId \in Nat
          /\ lastUserId' = lastUserId + 1
          /\ publicToId' = Put(publicToId, u, lastUserId + 1)
          /\ idToPublic' = Put(idToPublic, lastUserId + 1, u)
      BY <2>2 DEF Register, AccountTypeOK
    <3>2. 1 .. lastUserId' = (1 .. lastUserId) \cup {lastUserId + 1}
      BY <3>1
    <3>3. /\ DOMAIN publicToId' \subseteq Users
          /\ \A x \in DOMAIN publicToId' : publicToId'[x] \in 1 .. lastUserId'
      BY <3>1, <3>2 DEF AccountTypeOK, Put
    <3>4. idToPublic' \in [1 .. lastUserId' -> Users]
      BY <3>1, <3>2 DEF AccountTypeOK, Put
    <3> QED BY <3>1, <3>3, <3>4
  <2> QED BY <2>1, <2>2
<1>5. AccountTypeOK' BY <1>3, <1>4 DEF AccountTypeOK
<1> QED BY <1>2, <1>5

\* deposit credits a registered user in a token of the chain's range.
LEMMA DepositKeeps ==
    ASSUME EngineInv, AccountTypeOK, fault = "none", taker = NoTaker,
           NEW d \in Deposits, Deposit(d)
    PROVE  EngineInv' /\ AccountTypeOK'
<1> DEFINE c  == d.chain
           id == TokenIdOf(d)
           t  == <<c, id>>
           u  == idToPublic[d.user]
<1>1. c \in Chains /\ d.amount \in Nat /\ d.user \in Nat
  BY ZexAssumption
<1>2. u \in Users
  BY <1>1 DEF Deposit, DepositIgnored, AccountTypeOK
<1>3. id \in 1 .. MaxTokenId
  <2>1. CASE d.contract \in DOMAIN contractToId[c]
    BY <2>1, <1>1 DEF TokenIdOf, AccountTypeOK
  <2>2. CASE d.contract \notin DOMAIN contractToId[c]
    <3>1. lastTokenId[c] \in Nat BY <1>1, AccountsAssumption DEF AccountTypeOK
    <3>2. id = lastTokenId[c] + 1 BY <2>2 DEF TokenIdOf
    <3>3. id <= MaxTokenId BY DEF Deposit
    <3> QED BY <3>1, <3>2, <3>3, AccountsAssumption
  <2> QED BY <2>1, <2>2
<1>4. t \in Tokens /\ <<t, USDT>> \in Markets
  BY <1>1, <1>3, AccountsAssumption
<1>5. /\ UNCHANGED bookkeeping /\ fault' = fault
      /\ assets' = [assets EXCEPT ![t][u] = @ + d.amount]
      /\ UNCHANGED <<publicToId, idToPublic, lastUserId, nonces>>
      /\ listed' = listed \cup {t} /\ markets' = markets \cup {<<t, USDT>>}
      /\ contractToId' = [contractToId EXCEPT ![c] = Put(@, d.contract, id)]
      /\ lastTokenId' = IF d.contract \in DOMAIN contractToId[c]
                          THEN lastTokenId
                          ELSE [lastTokenId EXCEPT ![c] = id]
  BY DEF Deposit, userVars
<1> HIDE DEF id, u
<1>6. EngineInv'
  <2>1. /\ assets \in [Tokens -> [Users -> Int]] /\ d.amount >= 0
        /\ \A x \in Tokens, v \in Users : assets[x][v] >= 0
    BY <1>1, Balances
  <2>2. /\ t \in Tokens /\ u \in Users /\ d.amount \in Int
        /\ assets' = [assets EXCEPT ![t][u] = @ + d.amount]
    BY <1>1, <1>2, <1>4, <1>5
  <2> HIDE DEF t
  <2>3. assets' \in [Tokens -> [Users -> Int]]
    BY <2>1, <2>2
  <2>4. ASSUME NEW x \in Tokens, NEW v \in Users
        PROVE  assets'[x][v] >= 0
    <3>1. assets[x][v] \in Int /\ assets[x][v] >= 0
      BY <2>1
    <3> QED
      BY <2>1, <2>2, <3>1
  <2> QED BY <2>3, <2>4, <1>5, AssetsKeep
<1>7. AccountTypeOK'
  <2>1. listed' \subseteq Tokens /\ markets' \subseteq Markets
    BY <1>4, <1>5 DEF AccountTypeOK
  <2>2. lastTokenId' \in [Chains -> 0 .. MaxTokenId]
    <3>1. id \in 0 .. MaxTokenId BY <1>3
    <3> QED BY <3>1, <1>5 DEF AccountTypeOK
  <2>3. /\ DOMAIN contractToId' = Chains
        /\ \A k \in Chains : \A x \in DOMAIN contractToId'[k] :
               contractToId'[k][x] \in 1 .. MaxTokenId
    <3>1. \A k \in Chains :
              contractToId'[k] = IF k = c THEN Put(contractToId[c], d.contract, id)
                                 ELSE contractToId[k]
      BY <1>1, <1>5 DEF AccountTypeOK
    <3>2. \A x \in DOMAIN Put(contractToId[c], d.contract, id) :
              Put(contractToId[c], d.contract, id)[x] \in 1 .. MaxTokenId
      BY <1>1, <1>3 DEF Put, AccountTypeOK
    <3>3. DOMAIN contractToId' = Chains BY <1>5 DEF AccountTypeOK
    <3> QED BY <3>1, <3>2, <3>3 DEF AccountTypeOK
  <2> QED BY <1>5, <2>1, <2>2, <2>3 DEF AccountTypeOK
<1> QED BY <1>6, <1>7

\* withdraw takes no more than the user has.
LEMMA WithdrawKeeps ==
    ASSUME EngineInv, AccountTypeOK, fault = "none", taker = NoTaker,
           NEW w \in Withdrawals, Withdraw(w)
    PROVE  EngineInv' /\ AccountTypeOK'
<1>1. w.token \in Tokens /\ w.user \in Users /\ w.amount \in Int
  BY ZexAssumption DEF Withdrawals
<1>2. /\ UNCHANGED bookkeeping /\ fault' = fault
      /\ assets' = [assets EXCEPT ![w.token][w.user] = @ - w.amount]
      /\ assets[w.token][w.user] >= w.amount
      /\ UNCHANGED <<publicToId, idToPublic, lastUserId, nonces, listed,
                     markets, contractToId, lastTokenId>>
  BY DEF Withdraw, HasFunds, userVars, depositVars
<1>3. /\ assets' \in [Tokens -> [Users -> Int]]
      /\ \A x \in Tokens, v \in Users : assets'[x][v] >= 0
  BY <1>1, <1>2, Balances
<1>4. EngineInv' BY <1>2, <1>3, AssetsKeep
<1>5. AccountTypeOK' BY <1>2 DEF AccountTypeOK
<1> QED BY <1>4, <1>5

\* The part of process that every order goes through before its nonce is
\* looked at.
LEMMA CreateTypes ==
    ASSUME AccountTypeOK, NEW m \in Markets, Create(m)
    PROVE  listed' \subseteq Tokens /\ markets' \subseteq Markets
  BY PairTypes DEF Create, AccountTypeOK

-----------------------------------------------------------------------------
(* The inductive invariant of the specification *)

IInv == EngineInv /\ AccountTypeOK /\ modified \subseteq Markets

\* A fresh node, with or without the users of test mode.
LEMMA InitEngine ==
    ASSUME Init
    PROVE  EngineInv
<1> USE DEF Init, InitMarkets, InitialAssets, NoEvents
<1>1. DOMAIN amounts = {} /\ \A p : p \notin DOMAIN <<>>
  OBVIOUS
<1>2. assets \in [Tokens -> [Users -> Nat]]
  BY ZexAssumption
<1>3. BookTypeOK BY <1>1 DEF BookTypeOK, IsLevels
<1>4. EngineTypeOK
  BY <1>1, <1>2, <1>3 DEF EngineTypeOK
<1>5. ASSUME NEW t \in Tokens, NEW u \in Users PROVE assets[t][u] >= 0
  <2>1. assets[t][u] \in Nat BY ONLY <1>2
  <2> QED BY ONLY <2>1
<1>6. RestingPrices /\ TakerPrice /\ OneRegistry /\ Solvency
  BY <1>1, <1>5
  DEF RestingPrices, TakerPrice, OneRegistry, OrdersAgree, HeapsAgree, Solvency
<1> QED BY <1>4, <1>6 DEF EngineInv

\* The users of test mode are numbered in the order they are registered.
LEMMA InitAccountTypes ==
    ASSUME Init
    PROVE  AccountTypeOK
<1> USE DEF Init, InitAccounts, InitialIds
<1>1. /\ lastUserId = Len(InitialUsers) /\ InitialUsers \in Seq(Users)
      /\ DOMAIN InitialUsers = 1 .. lastUserId
  BY ZexAssumption
<1>2. lastUserId \in Nat /\ idToPublic \in [1 .. lastUserId -> Users]
  BY <1>1
<1>3. /\ DOMAIN publicToId \subseteq Users
      /\ \A u \in DOMAIN publicToId : publicToId[u] \in 1 .. lastUserId
  BY <1>1 DEF InitialSet
<1>4. listed \subseteq Tokens
  <2>1. \A c \in Chains : VerifiedOf(c) \subseteq Tokens
    BY AccountsAssumption DEF VerifiedOf
  <2> QED BY <2>1, AccountsAssumption DEF TestTokens
<1>5. /\ DOMAIN contractToId = Chains
      /\ \A c \in Chains : \A x \in DOMAIN contractToId[c] :
             contractToId[c][x] \in 1 .. MaxTokenId
  BY AccountsAssumption
<1>6. lastTokenId \in [Chains -> 0 .. MaxTokenId]
  BY LastVerifiedIsAnId
<1> QED BY <1>2, <1>3, <1>4, <1>5, <1>6 DEF AccountTypeOK

\* The invariant holds in the state a node starts in.
LEMMA InitKeeps ==
    ASSUME Init
    PROVE  IInv
  BY InitEngine, InitAccountTypes DEF IInv, Init

-----------------------------------------------------------------------------
(* Every transaction keeps it. *)

\* An order with a wrong nonce, or from an unknown key, only creates the pair.
LEMMA ProcessBadNonceKeeps ==
    ASSUME IInv, NEW u \in Users, NEW m \in Markets, ProcessBadNonce(u, m)
    PROVE  IInv'
<1>1. /\ fault = "none" /\ taker = NoTaker /\ Create(m)
      /\ UNCHANGED bookkeeping /\ assets' = assets
      /\ fault' \in {"none", "key"}
      /\ UNCHANGED <<publicToId, idToPublic, lastUserId, nonces, contractToId,
                     lastTokenId, modified>>
  BY DEF ProcessBadNonce, Idle, userVars, depositVars
<1>2. EngineInv' BY <1>1, Balances, AssetsKeep DEF IInv
<1>3. AccountTypeOK' BY <1>1, CreateTypes DEF IInv, AccountTypeOK
<1> QED BY <1>1, <1>2, <1>3 DEF IInv

\* An order whose nonce is accepted uses it up, whatever becomes of the order.
LEMMA ProcessOrderKeeps ==
    ASSUME IInv, NEW u \in Users, NEW f \in Offers, ProcessOrder(u, f)
    PROVE  IInv'
<1> DEFINE o == OrderOf(f, u)
<1>1. /\ o \in Order /\ f.market \in Markets
  BY OrderOfType DEF IInv
<1>2. /\ fault = "none" /\ taker = NoTaker
      /\ Create(f.market) /\ UseNonce(u)
      /\ UNCHANGED <<publicToId, idToPublic, lastUserId, contractToId,
                     lastTokenId>>
  BY DEF ProcessOrder, Idle, userVars, depositVars
<1>3. nonces' \in [Users -> Nat]
  BY <1>2 DEF UseNonce, IInv, AccountTypeOK
<1>4. AccountTypeOK'
  BY <1>1, <1>2, <1>3, CreateTypes DEF IInv, AccountTypeOK
<1>5. EngineInv' /\ modified' \subseteq Markets
  <2>1. CASE MatchInstantly(o) /\ UNCHANGED modified
    BY <2>1, <1>1, <1>2, MatchInstantlyKeeps DEF IInv
  <2>2. CASE Place(o) /\ modified' = modified \cup {f.market}
    BY <2>2, <1>1, <1>2, PlaceKeeps DEF IInv
  <2>3. CASE UNCHANGED <<engineVars, modified>>
    BY <2>3 DEF engineVars, IInv, EngineInv, EngineTypeOK, BookTypeOK,
                RestingPrices, TakerPrice, OneRegistry, OrdersAgree,
                HeapsAgree, Solvency
  <2> QED BY <2>1, <2>2, <2>3 DEF ProcessOrder
<1> QED BY <1>4, <1>5 DEF IInv

\* The account invariant speaks of account variables only.
LEMMA AccountsStay ==
    ASSUME AccountTypeOK, UNCHANGED accountVars
    PROVE  AccountTypeOK'
  BY DEF AccountTypeOK, accountVars, userVars, depositVars

\* An iteration of the matching loop, or its end.
LEMMA MatchKeeps ==
    ASSUME IInv, Match
    PROVE  IInv'
<1>1. CASE ProcessTrade
  <2>1. /\ fault = "none" /\ taker # NoTaker
        /\ UNCHANGED accountVars /\ modified' = modified
    BY <1>1 DEF ProcessTrade
  <2>2. PICK h : ExecuteTrade(h) \/ ExecuteTradeFault(h)
    BY <1>1 DEF ProcessTrade
  <2>3. EngineInv'
    BY <2>1, <2>2, ExecuteTradeKeeps, ExecuteTradeFaultKeeps DEF IInv
  <2> QED BY <2>1, <2>3, AccountsStay DEF IInv
<1>2. CASE ProcessMatched
  <2>1. /\ fault = "none" /\ taker # NoTaker /\ FinishMatch
        /\ UNCHANGED accountVars /\ modified' = modified \cup {taker.market}
    BY <1>2 DEF ProcessMatched
  <2>2. taker.market \in Markets
    <3>1. taker \in Order BY <2>1 DEF IInv, EngineInv, EngineTypeOK
    <3> QED BY <3>1, PayTypes
  <2>3. EngineInv' BY <2>1, FinishMatchKeeps DEF IInv
  <2> QED BY <2>1, <2>2, <2>3, AccountsStay DEF IInv
<1> QED BY <1>1, <1>2 DEF Match

\* A cancel transaction.
LEMMA ProcessCancelKeeps ==
    ASSUME IInv, NEW u \in Users, NEW o \in orders[u], ProcessCancel(o)
    PROVE  IInv'
<1>1. /\ fault = "none" /\ taker = NoTaker /\ Cancel(o)
      /\ UNCHANGED accountVars
      /\ modified' \in {modified, modified \cup {o.market}}
  BY DEF ProcessCancel, Idle
<1>2. EngineInv' BY <1>1, CancelKeeps DEF IInv
<1>3. o.market \in Markets
  BY PayTypes DEF IInv, EngineInv, EngineTypeOK
<1> QED BY <1>1, <1>2, <1>3, AccountsStay DEF IInv

\* The end of a batch sends the pending levels away, or keeps them.
LEMMA BatchEndKeeps ==
    ASSUME IInv, EndBatch \/ AbortBatch
    PROVE  IInv'
<1>1. UNCHANGED accountVars /\ modified' = {}
  BY DEF EndBatch, AbortBatch
<1>2. CASE EndBatch
  <2>1. EngineInv' BY <1>2, GetOrderBookUpdateKeeps DEF EndBatch, IInv
  <2> QED BY <1>1, <2>1, AccountsStay DEF IInv
<1>3. CASE AbortBatch
  <2>1. EngineInv'
    BY <1>3 DEF AbortBatch, engineVars, IInv, EngineInv, EngineTypeOK,
                BookTypeOK, RestingPrices, TakerPrice, OneRegistry,
                OrdersAgree, HeapsAgree, Solvency
  <2> QED BY <1>1, <2>1, AccountsStay DEF IInv
<1> QED BY <1>2, <1>3

\* What process does with one transaction.
LEMMA ProcessTransactionKeeps ==
    ASSUME IInv, ProcessTransaction
    PROVE  IInv'
<1>1. ASSUME NEW u \in Users, ProcessRegister(u) PROVE IInv'
  BY <1>1, RegisterKeeps DEF ProcessRegister, Idle, IInv
<1>2. ASSUME NEW d \in Deposits, ProcessDeposit(d) PROVE IInv'
  BY <1>2, DepositKeeps DEF ProcessDeposit, Idle, IInv
<1>3. ASSUME NEW w \in Withdrawals, ProcessWithdraw(w) PROVE IInv'
  BY <1>3, WithdrawKeeps, KeyFaultKeeps
  DEF ProcessWithdraw, WithdrawFault, Idle, IInv
<1>4. ASSUME NEW u \in Users, NEW f \in Offers, ProcessOrder(u, f) PROVE IInv'
  BY <1>4, ProcessOrderKeeps
<1>5. ASSUME NEW u \in Users, NEW f \in Offers, ProcessBadNonce(u, f.market)
      PROVE  IInv'
  BY <1>5, OrderOfType, ProcessBadNonceKeeps DEF IInv
<1>6. ASSUME NEW u \in Users, NEW o \in orders[u], ProcessCancel(o) PROVE IInv'
  BY <1>6, ProcessCancelKeeps
<1>7. ASSUME NEW u \in Users, NEW f \in Offers, ProcessCancelFault(u, f.market)
      PROVE  IInv'
  BY <1>7, KeyFaultKeeps DEF ProcessCancelFault, Idle, IInv
<1> QED BY <1>1, <1>2, <1>3, <1>4, <1>5, <1>6, <1>7 DEF ProcessTransaction

\* Every step keeps the invariant.
LEMMA StepKeeps ==
    ASSUME IInv, [Next]_zexVars
    PROVE  IInv'
<1>1. CASE Next
  BY <1>1, ProcessTransactionKeeps, MatchKeeps, BatchEndKeeps DEF Next
<1>2. CASE UNCHANGED zexVars
  <2>1. EngineInv'
    BY <1>2 DEF zexVars, engineVars, IInv, EngineInv, EngineTypeOK,
                BookTypeOK, RestingPrices, TakerPrice, OneRegistry,
                OrdersAgree, HeapsAgree, Solvency
  <2> QED BY <1>2, <2>1, AccountsStay DEF zexVars, IInv
<1> QED BY <1>1, <1>2

\* The invariant holds in every state the exchange reaches.
THEOREM Invariance == Spec => []IInv
<1>1. Init => IInv BY InitKeeps
<1>2. IInv /\ [Next]_zexVars => IInv' BY StepKeeps
<1> QED BY <1>1, <1>2, PTL DEF Spec

\* Every variable keeps its type; in particular what is left of a resting order
\* is never negative, the ids of users are dense and no token id leaves its
\* chain's range.
THEOREM TypeCorrect == Spec => []TypeOK
<1>1. IInv => TypeOK BY DEF IInv, EngineInv, TypeOK
<1> QED BY <1>1, Invariance, PTL

\* Nobody's balance ever becomes negative, and an order in its matching loop is
\* paid for to the last unit, although match_instantly compares the balance once
\* and trades at the prices of other orders.
THEOREM SolvencyHolds == Spec => []Solvency
<1>1. IInv => Solvency BY DEF IInv, EngineInv
<1> QED BY <1>1, Invariance, PTL

\* amounts, orders and the heaps hold the same orders, unless a KeyError in the
\* middle of a trade has ended the process thread.
THEOREM RegistryHolds == Spec => []OneRegistry
<1>1. IInv => OneRegistry BY DEF IInv, EngineInv
<1> QED BY <1>1, Invariance, PTL

-----------------------------------------------------------------------------
(* Nonces *)

\* An order that leaves frees nothing for another one to take.
LEMMA NoncesStay ==
    ASSUME OneOrderPerNonce, LiveOrders' \subseteq LiveOrders, nonces' = nonces
    PROVE  OneOrderPerNonce'
  BY DEF OneOrderPerNonce

\* An order that comes with the next nonce of its user uses it up.
LEMMA NonceTaken ==
    ASSUME AccountTypeOK, OneOrderPerNonce, LiveOrders \subseteq Order,
           NEW o \in Order, o.nonce = nonces[o.user],
           LiveOrders' \subseteq LiveOrders \cup {o},
           nonces' = [nonces EXCEPT ![o.user] = @ + 1]
    PROVE  OneOrderPerNonce'
<1>1. o.user \in Users /\ nonces[o.user] \in Nat
  BY PayTypes DEF AccountTypeOK
<1>2. ASSUME NEW x \in LiveOrders
      PROVE  /\ x.nonce < nonces[x.user] /\ x.nonce < nonces'[x.user]
             /\ x.user \in Users /\ x.nonce \in Nat
  <2>1. x.user \in Users /\ x.nonce \in Nat BY PayTypes
  <2>2. x.nonce < nonces[x.user] BY DEF OneOrderPerNonce
  <2>3. nonces[x.user] \in Nat BY <2>1 DEF AccountTypeOK
  <2>4. nonces'[x.user] = IF x.user = o.user THEN nonces[x.user] + 1
                          ELSE nonces[x.user]
    BY <2>1 DEF AccountTypeOK
  <2> QED BY <2>1, <2>2, <2>3, <2>4
<1>3. nonces'[o.user] = nonces[o.user] + 1
  BY <1>1 DEF AccountTypeOK
<1>4. o.nonce < nonces'[o.user] BY <1>1, <1>3
<1>5. \A x \in LiveOrders : ~ (x.user = o.user /\ x.nonce = o.nonce)
  BY <1>2, <1>1
<1>6. \A x, y \in LiveOrders : x.user = y.user /\ x.nonce = y.nonce => x = y
  BY DEF OneOrderPerNonce
<1> QED BY <1>2, <1>4, <1>5, <1>6 DEF OneOrderPerNonce

\* The live orders are orders.
LEMMA LiveOrdersType ==
    ASSUME EngineInv
    PROVE  LiveOrders \subseteq Order
  BY DEF EngineInv, EngineTypeOK, LiveOrders

\* No step but an accepted order adds a live order or touches a nonce.
LEMMA TransactionKeepsNonces ==
    ASSUME IInv, OneOrderPerNonce, ProcessTransaction
    PROVE  OneOrderPerNonce'
<1>1. CASE \E u \in Users, f \in Offers : ProcessOrder(u, f)
  <2>1. PICK u \in Users, f \in Offers : ProcessOrder(u, f) BY <1>1
  <2> DEFINE o == OrderOf(f, u)
  <2>2. o \in Order /\ o.user = u /\ o.nonce = nonces[u]
    BY OrderOfType DEF IInv
  <2>3. /\ taker = NoTaker
        /\ nonces' = [nonces EXCEPT ![o.user] = @ + 1]
    BY <2>1, <2>2 DEF ProcessOrder, Idle, UseNonce
  <2>4. LiveOrders' \subseteq LiveOrders \cup {o}
    <3>1. CASE MatchInstantly(o)
      BY <3>1, <2>3 DEF MatchInstantly, LiveOrders
    <3>2. CASE Place(o)
      <4>1. DOMAIN amounts' = DOMAIN amounts \cup {o}
        BY <3>2, PutFacts DEF Place, Rest
      <4>2. taker' = taker
        BY <3>2 DEF Place
      <4> QED
        BY <4>1, <4>2 DEF LiveOrders
    <3>3. CASE UNCHANGED engineVars
      BY <3>3 DEF engineVars, LiveOrders
    <3> QED BY <2>1, <3>1, <3>2, <3>3 DEF ProcessOrder
  <2> QED BY <2>2, <2>3, <2>4, NonceTaken, LiveOrdersType DEF IInv
<1>2. CASE \E u \in Users : \E o \in orders[u] : ProcessCancel(o)
  <2>1. PICK o : ProcessCancel(o) BY <1>2
  <2>2. LiveOrders' \subseteq LiveOrders
    <3>1. amounts' = Drop(amounts, o) /\ taker' = taker
      BY <2>1 DEF ProcessCancel, Cancel, Forget
    <3>2. DOMAIN amounts' = DOMAIN amounts \ {o}
      BY <3>1 DEF Drop
    <3> QED
      BY <3>1, <3>2 DEF LiveOrders
  <2>3. nonces' = nonces BY <2>1 DEF ProcessCancel, accountVars
  <2> QED BY <2>2, <2>3, NoncesStay
<1>3. CASE UNCHANGED <<bookkeeping, nonces>>
  BY <1>3, NoncesStay DEF bookkeeping, LiveOrders
<1> QED
  BY <1>1, <1>2, <1>3
  DEF ProcessTransaction, ProcessRegister, Register, ProcessDeposit, Deposit,
      ProcessWithdraw, Withdraw, WithdrawFault, KeyFault, accountVars,
      ProcessBadNonce, ProcessCancelFault

\* A trade changes the resting order it is made with, or removes it.
LEMMA TradedOrders ==
    ASSUME NEW h, ExecuteTrade(h) \/ ExecuteTradeFault(h)
    PROVE  DOMAIN amounts' \subseteq DOMAIN amounts
<1>1. CASE amounts' = amounts BY <1>1
<1>2. CASE amounts' = [amounts EXCEPT ![h] = @ - TradeAmount(h)] BY <1>2
<1>3. CASE amounts' = Drop(amounts, h) BY <1>3, DropFacts
<1> QED BY <1>1, <1>2, <1>3 DEF ExecuteTrade, ExecuteTradeFault, Forget

\* A trade removes an order at most; the remainder of a match is the same order.
LEMMA MatchKeepsNonces ==
    ASSUME IInv, OneOrderPerNonce, Match
    PROVE  OneOrderPerNonce'
<1>1. nonces' = nonces
  BY DEF Match, ProcessTrade, ProcessMatched, accountVars
<1>2. LiveOrders' \subseteq LiveOrders
  <2>1. CASE ProcessTrade
    <3>1. PICK h : ExecuteTrade(h) \/ ExecuteTradeFault(h)
      BY <2>1 DEF ProcessTrade
    <3>2. taker' = taker BY <3>1 DEF ExecuteTrade, ExecuteTradeFault
    <3>3. DOMAIN amounts' \subseteq DOMAIN amounts
      BY <3>1, TradedOrders
    <3> QED BY <3>2, <3>3 DEF LiveOrders
  <2>2. CASE ProcessMatched
    <3>1. taker # NoTaker /\ taker' = NoTaker
      BY <2>2 DEF ProcessMatched, FinishMatch
    <3>2. DOMAIN amounts' \subseteq DOMAIN amounts \cup {taker}
      <4>1. CASE amounts' = amounts BY <4>1
      <4>2. CASE amounts' = Put(amounts, taker, remaining)
        BY <4>2 DEF Put
      <4> QED BY <2>2, <4>1, <4>2 DEF ProcessMatched, FinishMatch, Rest
    <3> QED BY <3>1, <3>2 DEF LiveOrders
  <2> QED BY <2>1, <2>2 DEF Match
<1> QED BY <1>1, <1>2, NoncesStay

\* Every step keeps the nonces apart.
LEMMA NoncesStep ==
    ASSUME IInv, OneOrderPerNonce, [Next]_zexVars
    PROVE  OneOrderPerNonce'
<1>1. CASE EndBatch \/ AbortBatch \/ UNCHANGED zexVars
  <2>1. UNCHANGED <<amounts, taker, nonces>>
    BY <1>1 DEF EndBatch, AbortBatch, GetOrderBookUpdate, zexVars,
                engineVars, accountVars
  <2> QED BY <2>1, NoncesStay DEF LiveOrders
<1> QED BY <1>1, TransactionKeepsNonces, MatchKeepsNonces DEF Next

\* A fresh node has no orders.
LEMMA NoncesStart == Init => OneOrderPerNonce
  BY DEF Init, InitMarkets, NoEvents, OneOrderPerNonce, LiveOrders

\* A nonce is used by one order at most, and never again, although cancel
\* forgets an order altogether and a match may leave part of it resting.
THEOREM NoncesHold == Spec => []OneOrderPerNonce
<1>1. Init => OneOrderPerNonce BY NoncesStart
<1>2. IInv /\ OneOrderPerNonce /\ [Next]_zexVars => OneOrderPerNonce'
  BY NoncesStep
<1> QED BY <1>1, <1>2, Invariance, PTL DEF Spec

-----------------------------------------------------------------------------
(* The order in the loop rests nowhere. *)

\* The order in the loop does not rest at the same time: what is left of it would
\* be counted twice.
TakerRestsNot == taker \notin DOMAIN amounts

\* An order enters the loop with a nonce no other live order has, so it is not
\* one that rests; and it rests only when it leaves the loop.
LEMMA TakerRestsNotKept ==
    ASSUME IInv, IInv', OneOrderPerNonce, TakerRestsNot, [Next]_zexVars
    PROVE  TakerRestsNot'
<1>1. CASE taker' = NoTaker
  BY <1>1, NoTakerIsNoOrder
  DEF TakerRestsNot, IInv, EngineInv, EngineTypeOK
<1>2. ASSUME NEW u \in Users, NEW f \in Offers, ProcessOrder(u, f),
             MatchInstantly(OrderOf(f, u))
      PROVE  TakerRestsNot'
  <2>1. PICK o \in Order : o = OrderOf(f, u)
    BY OrderOfType DEF IInv
  <2>2. o.user = u /\ o.nonce = nonces[u] /\ nonces[u] \in Nat
    BY <2>1, OrderOfType DEF IInv, AccountTypeOK
  <2>3. taker' = o /\ amounts' = amounts
    BY <1>2, <2>1 DEF MatchInstantly
  <2>4. o \notin DOMAIN amounts
    BY <2>2 DEF OneOrderPerNonce, LiveOrders
  <2> QED
    BY <2>3, <2>4 DEF TakerRestsNot
<1>3. ASSUME UNCHANGED <<taker, amounts>>
      PROVE  TakerRestsNot'
  BY <1>3 DEF TakerRestsNot
<1>4. ASSUME NEW h, ExecuteTrade(h) \/ ExecuteTradeFault(h)
      PROVE  TakerRestsNot'
  BY <1>4, TradedOrders DEF TakerRestsNot, ExecuteTrade, ExecuteTradeFault
<1>5. CASE ProcessTransaction
  <2>1. taker = NoTaker
    BY <1>5 DEF ProcessTransaction, ProcessRegister, ProcessDeposit,
                ProcessWithdraw, ProcessOrder, ProcessBadNonce, ProcessCancel,
                ProcessCancelFault, Idle
  <2>2. ASSUME NEW u \in Users, NEW f \in Offers, ProcessOrder(u, f)
        PROVE  taker' = taker \/ MatchInstantly(OrderOf(f, u))
    BY <2>2 DEF ProcessOrder, Place, engineVars
  <2>3. \/ taker' = taker
        \/ \E u \in Users, f \in Offers :
               ProcessOrder(u, f) /\ MatchInstantly(OrderOf(f, u))
    BY <1>5, <2>2
    DEF ProcessTransaction, ProcessRegister, Register, ProcessDeposit, Deposit,
        ProcessWithdraw, Withdraw, WithdrawFault, ProcessBadNonce,
        ProcessCancel, Cancel, ProcessCancelFault, KeyFault, bookkeeping,
        engineVars
  <2> QED
    BY <1>1, <1>2, <2>1, <2>3
<1>6. CASE Match
  BY <1>1, <1>4, <1>6 DEF Match, ProcessTrade, ProcessMatched, FinishMatch
<1>7. CASE EndBatch \/ AbortBatch \/ UNCHANGED zexVars
  BY <1>3, <1>7 DEF EndBatch, AbortBatch, GetOrderBookUpdate, zexVars,
                    engineVars
<1> QED
  BY <1>5, <1>6, <1>7 DEF Next

-----------------------------------------------------------------------------
(* The book is never crossed. *)

\* Orders that leave cannot cross the book.
LEMMA UncrossedStays ==
    ASSUME Uncrossed,
           \A m \in Markets, s \in Sides : heap'[m][s] \subseteq heap[m][s]
    PROVE  Uncrossed'
<1>1. "buy" \in Sides /\ "sell" \in Sides BY DEF Sides
<1> QED BY <1>1 DEF Uncrossed

\* An order comes to rest without crossing the book if no head of the other side
\* crosses it, or if it never trades.
LEMMA UncrossedRests ==
    ASSUME EngineTypeOK, Uncrossed, NEW o \in Order,
           heap' = [heap EXCEPT ![o.market][o.side] = @ \cup {o}],
           o.price > 0 /\ o.amount > 0 =>
               \A h \in heap[o.market][Other(o.side)] : ~ Crosses(o, h)
    PROVE  Uncrossed'
<1>0. o.market \in Markets /\ o.side \in Sides /\ o.price \in Int
  BY PayTypes
<1>1. SUFFICES ASSUME NEW m \in Markets, NEW b \in heap'[m]["buy"],
                      NEW s \in heap'[m]["sell"],
                      b.price > 0, s.price > 0, b.amount > 0, s.amount > 0
               PROVE  b.price < s.price
  BY DEF Uncrossed
<1>2. \A n \in Markets, z \in Sides :
          /\ heap'[n][z] = IF n = o.market /\ z = o.side THEN heap[n][z] \cup {o}
                           ELSE heap[n][z]
          /\ heap[n][z] \subseteq Order
  BY <1>0 DEF EngineTypeOK
<1>3. "buy" \in Sides /\ "sell" \in Sides BY DEF Sides
<1>4. /\ b \in Order /\ s \in Order /\ b.price \in Int /\ s.price \in Int
  <2>0. \A n \in Markets, z \in Sides :
            \A x \in heap'[n][z] : x \in heap[n][z] \/ x = o
    BY <1>2
  <2>1. \A n \in Markets, z \in Sides : \A x \in heap'[n][z] : x \in Order
    BY <1>2, <2>0
  <2>2. b \in Order /\ s \in Order BY <1>3, <2>1
  <2> QED BY <2>2, PayTypes
<1>5. CASE b \in heap[m]["buy"] /\ s \in heap[m]["sell"]
  BY <1>1, <1>5 DEF Uncrossed
<1>6. CASE b \notin heap[m]["buy"]
  <2>1. b = o /\ o.market = m /\ o.side = "buy"
    BY <1>2, <1>3, <1>6
  <2>2. s \in heap[m]["sell"] BY <1>2, <1>3, <2>1
  <2>3. ~ Crosses(o, s) BY <1>1, <2>1, <2>2 DEF Other
  <2> QED BY <1>4, <2>1, <2>3 DEF Crosses
<1>7. CASE s \notin heap[m]["sell"]
  <2>1. s = o /\ o.market = m /\ o.side = "sell"
    BY <1>2, <1>3, <1>7
  <2>2. b \in heap[m]["buy"] BY <1>2, <1>3, <2>1
  <2>3. ~ Crosses(o, b) BY <1>1, <2>1, <2>2 DEF Other
  <2> QED BY <1>4, <2>1, <2>3 DEF Crosses
<1> QED BY <1>5, <1>6, <1>7

\* Only placement can add an order to a heap in a transaction, after
\* match_instantly found nothing to match it with.
LEMMA TransactionKeepsUncrossed ==
    ASSUME IInv, Uncrossed, ProcessTransaction
    PROVE  Uncrossed'
<1>1. CASE \E u \in Users, f \in Offers : ProcessOrder(u, f)
  <2>1. PICK u \in Users, f \in Offers : ProcessOrder(u, f) BY <1>1
  <2> DEFINE o == OrderOf(f, u)
  <2>2. o \in Order BY OrderOfType DEF IInv
  <2>3. CASE Place(o)
    <3>1. ~ WillCross(o)
          /\ heap' = [heap EXCEPT ![o.market][o.side] = @ \cup {o}]
      BY <2>3 DEF Place, Rest
    <3>2. o.price > 0 /\ o.amount > 0 =>
              \A h \in heap[o.market][Other(o.side)] : ~ Crosses(o, h)
      BY <3>1 DEF WillCross
    <3> QED BY <2>2, <3>1, <3>2, UncrossedRests DEF IInv, EngineInv
  <2>4. CASE heap' = heap BY <2>4, UncrossedStays
  <2> QED
    BY <2>1, <2>3, <2>4 DEF ProcessOrder, MatchInstantly, bookVars, engineVars
<1>2. CASE \E u \in Users : \E o \in orders[u] : ProcessCancel(o)
  <2>1. PICK o : o \in UNION {orders[u] : u \in Users} /\ ProcessCancel(o)
    BY <1>2
  <2>2. o \in Order BY <2>1 DEF IInv, EngineInv, EngineTypeOK
  <2>3. heap' = [heap EXCEPT ![o.market][o.side] = @ \ {o}]
    BY <2>1 DEF ProcessCancel, Cancel
  <2>4. \A m \in Markets, s \in Sides : heap'[m][s] \subseteq heap[m][s]
    BY <2>2, <2>3, PayTypes DEF IInv, EngineInv, EngineTypeOK
  <2> QED BY <2>4, UncrossedStays
<1>3. CASE UNCHANGED bookkeeping
  BY <1>3, UncrossedStays DEF bookkeeping, bookVars
<1> QED
  BY <1>1, <1>2, <1>3
  DEF ProcessTransaction, ProcessRegister, Register, ProcessDeposit, Deposit,
      ProcessWithdraw, Withdraw, WithdrawFault, KeyFault,
      ProcessBadNonce, ProcessCancelFault

\* What remains of a match rests only when no order of the other side crosses it.
LEMMA MatchKeepsUncrossed ==
    ASSUME IInv, Uncrossed, Match
    PROVE  Uncrossed'
<1>1. taker \in Order
  BY DEF Match, ProcessTrade, ProcessMatched, IInv, EngineInv, EngineTypeOK
<1>2. CASE ProcessTrade
  <2>1. PICK h : ExecuteTrade(h) \/ ExecuteTradeFault(h)
    BY <1>2 DEF ProcessTrade
  <2>2. \/ heap' = heap
        \/ heap' = [heap EXCEPT ![taker.market][h.side] = @ \ {h}]
    BY <2>1 DEF ExecuteTrade, ExecuteTradeFault
  <2>3. heap \in [Markets -> [Sides -> SUBSET Order]]
    BY DEF IInv, EngineInv, EngineTypeOK
  <2>4. \A m \in Markets, s \in Sides : heap'[m][s] \subseteq heap[m][s]
    <3>1. CASE heap' = heap BY <3>1
    <3>2. CASE heap' = [heap EXCEPT ![taker.market][h.side] = @ \ {h}]
      <4>1. taker.market \in Markets BY <1>1, PayTypes
      <4> QED BY <2>3, <3>2, <4>1
    <3> QED BY <2>2, <3>1, <3>2
  <2> QED BY <2>4, UncrossedStays
<1>3. CASE ProcessMatched
  <2>1. FinishMatch BY <1>3 DEF ProcessMatched
  <2>2. CASE remaining > 0
    <3>1. heap' = [heap EXCEPT ![taker.market][taker.side] = @ \cup {taker}]
      BY <2>1, <2>2 DEF FinishMatch, Rest
    <3>2. \A h \in heap[taker.market][Other(taker.side)] : ~ Crosses(taker, h)
      BY <2>1, <2>2 DEF FinishMatch, MatchOver
    <3> QED BY <1>1, <3>1, <3>2, UncrossedRests DEF IInv, EngineInv
  <2>3. CASE ~ remaining > 0
    BY <2>1, <2>3, UncrossedStays DEF FinishMatch, bookVars
  <2> QED BY <2>2, <2>3
<1> QED BY <1>2, <1>3 DEF Match

\* Every step keeps the book uncrossed.
LEMMA UncrossedStep ==
    ASSUME IInv, Uncrossed, [Next]_zexVars
    PROVE  Uncrossed'
<1>1. CASE EndBatch \/ AbortBatch \/ UNCHANGED zexVars
  <2>1. heap' = heap
    BY <1>1 DEF EndBatch, AbortBatch, GetOrderBookUpdate, zexVars, engineVars
  <2> QED BY <2>1, UncrossedStays
<1> QED BY <1>1, TransactionKeepsUncrossed, MatchKeepsUncrossed DEF Next

\* The heaps of a fresh node are empty.
LEMMA UncrossedStart == Init => Uncrossed
  BY DEF Init, InitMarkets, NoEvents, Uncrossed, Sides

\* No buy order rests at or above the price of a resting sell order, in any
\* market and between any two iterations of a match, although an incoming order is
\* compared with the heads of one heap only.
THEOREM UncrossedHolds == Spec => []Uncrossed
<1>1. Init => Uncrossed BY UncrossedStart
<1>2. IInv /\ Uncrossed /\ [Next]_zexVars => Uncrossed'
  BY UncrossedStep
<1> QED BY <1>1, <1>2, Invariance, PTL DEF Spec

-----------------------------------------------------------------------------
(* Depth events have ids of their own. *)

Pending(m) == \E s \in Sides : DOMAIN updates[m][s] # {}

HasOwnIds(m) == lastUpdateId[m] < finalId[m] /\ firstId[m] <= finalId[m]

\* first_id is at most one past final_id, and the last event's at most final_id.
NumbersInOrder(m) ==
    lastUpdateId[m] <= finalId[m] /\ firstId[m] <= finalId[m] + 1

\* An order in its matching loop has traded, or is about to: that is why the
\* end of the loop may add to the book without using an id.
TradesFirst ==
    taker # NoTaker =>
        \/ HasOwnIds(taker.market)
        \/ /\ remaining > 0
           /\ \E h \in heap[taker.market][Other(taker.side)] : Crosses(taker, h)

IdsInv ==
    /\ \A m \in Markets : NumbersInOrder(m)
    /\ \A m \in Markets : m \in modified \/ Pending(m) => HasOwnIds(m)
    /\ TradesFirst

\* A step that numbers nothing, and changes the levels of no market but m, which
\* has ids already.
LEMMA IdsStay ==
    ASSUME IdsInv, NEW m,
           UNCHANGED <<finalId, firstId, lastUpdateId>>,
           \A n \in Markets : n # m => updates'[n] = updates[n],
           modified' \subseteq modified \cup {m},
           m \in Markets =>
               \/ HasOwnIds(m)
               \/ updates'[m] = updates[m] /\ modified' = modified,
           TradesFirst'
    PROVE  IdsInv'
<1>1. \A n \in Markets : NumbersInOrder(n)'
  BY DEF IdsInv, NumbersInOrder
<1>2. ASSUME NEW n \in Markets, n \in modified' \/ Pending(n)'
      PROVE  HasOwnIds(n)'
  <2>1. CASE n = m
    <3>1. CASE HasOwnIds(m) BY <2>1, <3>1 DEF HasOwnIds
    <3>2. CASE updates'[m] = updates[m] /\ modified' = modified
      BY <1>2, <2>1, <3>2 DEF IdsInv, HasOwnIds, Pending
    <3> QED BY <2>1, <3>1, <3>2
  <2>2. CASE n # m
    BY <1>2, <2>2 DEF IdsInv, HasOwnIds, Pending
  <2> QED BY <2>1, <2>2
<1> QED BY <1>1, <1>2 DEF IdsInv

\* A step that uses k ids of the market m.
LEMMA IdsMoveOn ==
    ASSUME EngineTypeOK, IdsInv, NEW m \in Markets, NEW k \in 1 .. 2,
           UseIds(m, k), UNCHANGED <<firstId, lastUpdateId>>,
           \A n \in Markets : n # m => updates'[n] = updates[n],
           modified' \subseteq modified \cup {m},
           taker' = NoTaker \/ taker'.market = m
    PROVE  IdsInv'
<1>1. \A n \in Markets :
          /\ finalId[n] \in Nat /\ firstId[n] \in Nat /\ lastUpdateId[n] \in Nat
          /\ finalId'[n] = IF n = m THEN finalId[n] + k ELSE finalId[n]
          /\ firstId'[n] = firstId[n] /\ lastUpdateId'[n] = lastUpdateId[n]
  BY DEF UseIds, EngineTypeOK
<1>2. ASSUME NEW n \in Markets PROVE NumbersInOrder(n)'
  <2>1. NumbersInOrder(n) BY DEF IdsInv
  <2> QED BY <1>1, <2>1 DEF NumbersInOrder
<1>3. HasOwnIds(m)'
  <2>1. NumbersInOrder(m) BY DEF IdsInv
  <2> QED BY <1>1, <2>1 DEF NumbersInOrder, HasOwnIds
<1>4. ASSUME NEW n \in Markets, n \in modified' \/ Pending(n)'
      PROVE  HasOwnIds(n)'
  <2>1. CASE n = m BY <2>1, <1>3
  <2>2. CASE n # m
    <3>1. HasOwnIds(n) BY <1>4, <2>2 DEF IdsInv, Pending
    <3> QED BY <1>1, <2>2, <3>1 DEF HasOwnIds
  <2> QED BY <2>1, <2>2
<1>5. TradesFirst'
  <2>1. CASE taker' = NoTaker BY <2>1 DEF TradesFirst
  <2>2. CASE taker'.market = m BY <1>3, <2>2 DEF TradesFirst, HasOwnIds
  <2> QED BY <2>1, <2>2
<1> QED BY <1>2, <1>4, <1>5 DEF IdsInv

\* A level of one market is changed at a time.
LEMMA OneLevel ==
    ASSUME BookTypeOK, NEW m \in Markets, NEW s \in Sides, NEW p, NEW a,
           \/ SetLevel(m, s, p, a) \/ DeleteLevel(m, s, p)
           \/ AddToBook(m, s, p, a) \/ RemoveFromBook(m, s, p, a)
    PROVE  \A n \in Markets : n # m => updates'[n] = updates[n]
<1>1. \E x : updates' = [updates EXCEPT ![m][s] = x]
  BY DEF SetLevel, DeleteLevel, AddToBook, RemoveFromBook
<1>2. PICK x : updates' = [updates EXCEPT ![m][s] = x] BY <1>1
<1> QED BY <1>2 DEF BookTypeOK

\* What a transaction does to the levels of a market it also numbers, but for the
\* start of a match, which has an order to trade with.
LEMMA TransactionKeepsIds ==
    ASSUME IInv, IdsInv, ProcessTransaction
    PROVE  IdsInv'
<1>0. EngineTypeOK /\ BookTypeOK BY DEF IInv, EngineInv, EngineTypeOK
<1>1. CASE \E u \in Users, f \in Offers : ProcessOrder(u, f)
  <2>1. PICK u \in Users, f \in Offers : ProcessOrder(u, f) BY <1>1
  <2> DEFINE o == OrderOf(f, u)
  <2>2. /\ o \in Order /\ o.market = f.market /\ taker = NoTaker
        /\ o.market \in Markets /\ o.side \in Sides
    BY <2>1, OrderOfType, PayTypes DEF IInv, ProcessOrder, Idle
  <2> HIDE DEF o
  <2>3. CASE MatchInstantly(o) /\ UNCHANGED modified
    <3>1. /\ UNCHANGED <<heap, updates, finalId, firstId, lastUpdateId, modified>>
          /\ taker' = o /\ remaining' = o.amount
          /\ WillCross(o)
      BY <2>3 DEF MatchInstantly, bookVars, idVars
    <3>2. TradesFirst'
      BY <3>1 DEF TradesFirst, WillCross, Crosses
    <3> QED BY <3>1, <3>2, IdsStay
  <2>4. CASE Place(o) /\ modified' = modified \cup {f.market}
    <3>1. /\ UseIds(o.market, 1) /\ UNCHANGED <<firstId, lastUpdateId>>
          /\ AddToBook(o.market, o.side, o.price, o.amount)
          /\ taker' = NoTaker
      BY <2>2, <2>4 DEF Place, Rest, idVars
    <3>2. \A n \in Markets : n # o.market => updates'[n] = updates[n]
      BY <1>0, <2>2, <3>1, OneLevel
    <3> QED BY <1>0, <2>2, <2>4, <3>1, <3>2, IdsMoveOn
  <2>5. CASE UNCHANGED <<engineVars, modified>>
    <3>1. UNCHANGED <<heap, updates, finalId, firstId, lastUpdateId, modified,
                      taker>>
      BY <2>5 DEF engineVars
    <3>2. TradesFirst' BY <2>2, <3>1 DEF TradesFirst
    <3> QED BY <3>1, <3>2, IdsStay
  <2> QED BY <2>1, <2>3, <2>4, <2>5 DEF ProcessOrder, o
<1>2. CASE \E u \in Users : \E o \in orders[u] : ProcessCancel(o)
  <2>1. PICK o : o \in UNION {orders[u] : u \in Users} /\ ProcessCancel(o)
    BY <1>2
  <2>2. o \in Order BY <2>1 DEF IInv, EngineInv, EngineTypeOK
  <2>3. /\ o.market \in Markets /\ o.side \in Sides
        /\ taker' = NoTaker /\ UNCHANGED <<firstId, lastUpdateId>>
        /\ modified' \subseteq modified \cup {o.market}
    BY <2>1, <2>2, PayTypes DEF ProcessCancel, Cancel, Idle, idVars
  <2>4. CASE HasLevel(o.market, o.side, o.price)
    <3>1. /\ RemoveFromBook(o.market, o.side, o.price, amounts[o])
          /\ UseIds(o.market, 1)
      BY <2>1, <2>4 DEF ProcessCancel, Cancel
    <3>2. \A n \in Markets : n # o.market => updates'[n] = updates[n]
      BY <1>0, <2>3, <3>1, OneLevel
    <3> QED BY <1>0, <2>3, <3>1, <3>2, IdsMoveOn
  <2>5. CASE ~ HasLevel(o.market, o.side, o.price)
    <3>1. UNCHANGED <<updates, finalId, firstId, lastUpdateId, modified>>
      BY <2>1, <2>3, <2>5 DEF ProcessCancel, Cancel
    <3>2. TradesFirst' BY <2>3 DEF TradesFirst
    <3> QED BY <3>1, <3>2, IdsStay
  <2> QED BY <2>4, <2>5
<1>3. CASE UNCHANGED <<bookkeeping, modified>>
  <2>1. UNCHANGED <<heap, updates, finalId, firstId, lastUpdateId, modified,
                    taker, remaining>>
    BY <1>3 DEF bookkeeping, bookVars, idVars
  <2>2. TradesFirst' BY <2>1 DEF IdsInv, TradesFirst, HasOwnIds, Crosses
  <2> QED BY <2>1, <2>2, IdsStay
<1> QED
  BY <1>1, <1>2, <1>3
  DEF ProcessTransaction, ProcessRegister, Register, ProcessDeposit, Deposit,
      ProcessWithdraw, Withdraw, WithdrawFault, KeyFault,
      ProcessBadNonce, ProcessCancelFault

\* A trade uses two ids, a trade that dies one; the end of the loop comes after a
\* trade.
LEMMA MatchKeepsIds ==
    ASSUME IInv, IdsInv, Match
    PROVE  IdsInv'
<1>0. EngineTypeOK /\ BookTypeOK /\ taker # NoTaker
  BY DEF IInv, EngineInv, EngineTypeOK, Match, ProcessTrade, ProcessMatched
<1>1. taker.market \in Markets /\ taker.side \in Sides
  <2>1. taker \in Order BY <1>0 DEF EngineTypeOK
  <2> QED BY <2>1, PayTypes
<1>2. CASE ProcessTrade
  <2>1. PICK h \in heap[taker.market][Other(taker.side)] :
            ExecuteTrade(h) \/ ExecuteTradeFault(h)
    BY <1>2 DEF ProcessTrade
  <2>2. /\ UNCHANGED <<firstId, lastUpdateId, taker, modified>>
        /\ fault = "none" /\ remaining > 0
    BY <1>2, <2>1
    DEF ProcessTrade, ExecuteTrade, ExecuteTradeFault, idVars
  <2>3. h.side \in Sides
    BY <1>0, <1>1, <2>2, TradedHead, OtherSide DEF IInv
  <2>4. /\ \A n \in Markets : n # taker.market => updates'[n] = updates[n]
        /\ UseIds(taker.market, 2) \/ UseIds(taker.market, 1)
    <3>1. CASE ExecuteTrade(h)
      BY <3>1, <1>0, <1>1, <2>3, OneLevel DEF ExecuteTrade
    <3>2. CASE ExecuteTradeFault(h)
      BY <3>2 DEF ExecuteTradeFault
    <3> QED BY <2>1, <3>1, <3>2
  <2> QED BY <1>0, <1>1, <2>2, <2>4, IdsMoveOn
<1>3. CASE ProcessMatched
  <2>1. /\ FinishMatch /\ taker' = NoTaker
        /\ UNCHANGED <<finalId, firstId, lastUpdateId>>
        /\ modified' = modified \cup {taker.market}
    BY <1>3 DEF ProcessMatched, FinishMatch, idVars
  <2>2. HasOwnIds(taker.market)
    <3>1. remaining \in Nat BY <1>0 DEF EngineTypeOK
    <3> QED BY <2>1, <1>0, <3>1 DEF FinishMatch, MatchOver, IdsInv, TradesFirst
  <2>3. \A n \in Markets : n # taker.market => updates'[n] = updates[n]
    <3>1. CASE remaining > 0
      BY <3>1, <2>1, <1>0, <1>1, OneLevel DEF FinishMatch, Rest
    <3>2. CASE ~ remaining > 0
      BY <3>2, <2>1 DEF FinishMatch, bookVars
    <3> QED BY <3>1, <3>2
  <2>4. TradesFirst' BY <2>1 DEF TradesFirst
  <2> QED BY <2>1, <2>2, <2>3, <2>4, IdsStay
<1> QED BY <1>2, <1>3 DEF Match

\* An event takes the ids up to final_id; a batch that is aborted leaves its
\* levels pending, and their ids with them.
LEMMA BatchEndKeepsIds ==
    ASSUME IInv, IdsInv, EndBatch \/ AbortBatch
    PROVE  IdsInv'
<1>1. modified' = {} /\ finalId' = finalId /\ taker' = NoTaker
  BY DEF EndBatch, AbortBatch, GetOrderBookUpdate, Idle, engineVars
<1>2. TradesFirst' BY <1>1 DEF TradesFirst
<1>3. CASE EndBatch
  <2>1. \A m \in Markets :
            /\ finalId[m] \in Nat
            /\ updates'[m] = IF m \in modified THEN [s \in Sides |-> <<>>]
                             ELSE updates[m]
            /\ firstId'[m] = IF m \in modified THEN finalId[m] + 1 ELSE firstId[m]
            /\ lastUpdateId'[m] = IF m \in modified THEN finalId[m]
                                  ELSE lastUpdateId[m]
    BY <1>3 DEF EndBatch, GetOrderBookUpdate, IInv, EngineInv, EngineTypeOK
  <2>2. \A m \in Markets : NumbersInOrder(m)'
    BY <1>1, <2>1 DEF IdsInv, NumbersInOrder
  <2>3. ASSUME NEW m \in Markets, Pending(m)' PROVE HasOwnIds(m)'
    <3>1. m \notin modified BY <2>1, <2>3 DEF Pending
    <3>2. HasOwnIds(m) BY <2>1, <2>3, <3>1 DEF IdsInv, Pending
    <3> QED BY <1>1, <2>1, <3>1, <3>2 DEF HasOwnIds
  <2> QED BY <1>1, <1>2, <2>2, <2>3 DEF IdsInv
<1>4. CASE AbortBatch
  <2>1. UNCHANGED <<updates, finalId, firstId, lastUpdateId>>
    BY <1>4 DEF AbortBatch, engineVars
  <2> QED
    BY <1>1, <1>2, <2>1
    DEF IdsInv, NumbersInOrder, HasOwnIds, Pending
<1> QED BY <1>3, <1>4

\* Every step keeps the numbers of the events in order.
LEMMA IdsStep ==
    ASSUME IInv, IdsInv, [Next]_zexVars
    PROVE  IdsInv'
<1>1. CASE UNCHANGED zexVars
  <2>1. UNCHANGED <<heap, updates, finalId, firstId, lastUpdateId, modified,
                    taker, remaining>>
    BY <1>1 DEF zexVars, engineVars
  <2>2. TradesFirst' BY <2>1 DEF IdsInv, TradesFirst, HasOwnIds, Crosses
  <2> QED BY <2>1, <2>2, IdsStay
<1> QED
  BY <1>1, TransactionKeepsIds, MatchKeepsIds, BatchEndKeepsIds DEF Next

\* A fresh node has sent nothing and has nothing to send.
LEMMA IdsStart == Init => IdsInv
  BY DEF Init, InitMarkets, NoEvents, IdsInv, NumbersInOrder, Pending, TradesFirst

\* Where the numbers are in order, an event has ids of its own.
LEMMA IdsInvAdvances == IdsInv => EventIdsAdvance
  BY DEF IdsInv, EventIdsAdvance, HasOwnIds, Pending

\* A depth event never repeats the ids of the one before it, nor covers none,
\* although the remainder of a match enters the book without using an id and a
\* batch that is aborted leaves levels behind.
THEOREM EventIdsHold == Spec => []EventIdsAdvance
<1>1. Init => IdsInv BY IdsStart
<1>2. IInv /\ IdsInv /\ [Next]_zexVars => IdsInv'
  BY IdsStep
<1>3. IdsInv => EventIdsAdvance BY IdsInvAdvances
<1> QED BY <1>1, <1>2, <1>3, Invariance, PTL DEF Spec

-----------------------------------------------------------------------------
(* What resting orders add up to: the sum of what is left of those of a set, *)
(* each unit of an order counted at the order's rate.                        *)

\* The amounts of some orders, by order.
IsAmounts(F) == /\ IsFiniteSet(DOMAIN F) /\ DOMAIN F \subseteq Order
                /\ \A o \in DOMAIN F : F[o] \in Nat

Shares(F, K, rate) == [o \in DOMAIN F \cap K |-> F[o] * rate[o]]

Total(F, K, rate) == SumFunctionOnSet(Shares(F, K, rate), DOMAIN F \cap K)

\* The orders counted are finitely many, and what they add up to is a number.
LEMMA SharesTypes ==
    ASSUME NEW F, IsAmounts(F), NEW K, NEW rate \in [Order -> Int]
    PROVE  /\ IsFiniteSet(DOMAIN F \cap K)
           /\ IsIntegral(Shares(F, K, rate), DOMAIN F \cap K)
           /\ Total(F, K, rate) \in Int
<1>1. IsFiniteSet(DOMAIN F \cap K)
  BY FS_Subset DEF IsAmounts
<1>2. \A o \in DOMAIN F : F[o] \in Int /\ rate[o] \in Int
  BY DEF IsAmounts
<1>3. IsIntegral(Shares(F, K, rate), DOMAIN F \cap K)
  BY <1>2 DEF IsIntegral, Shares
<1> QED
  BY <1>1, <1>3, SumStep DEF Total

\* An order more.
LEMMA TotalGrows ==
    ASSUME NEW F, IsAmounts(F), NEW K, NEW rate \in [Order -> Int],
           NEW o \in Order, o \notin DOMAIN F, NEW a \in Nat
    PROVE  /\ IsAmounts(Put(F, o, a))
           /\ Total(Put(F, o, a), K, rate) =
                  Total(F, K, rate) + (IF o \in K THEN a * rate[o] ELSE 0)
<1> DEFINE G == Put(F, o, a)
           f == Shares(F, K, rate)
           g == Shares(G, K, rate)
           S == DOMAIN F \cap K
<1>1. /\ DOMAIN G = DOMAIN F \cup {o} /\ G[o] = a
      /\ \A x \in DOMAIN F : G[x] = F[x]
  BY DEF Put
<1> HIDE DEF G
<1>2. IsAmounts(G)
  <2>1. IsFiniteSet(DOMAIN G)
    BY <1>1, FS_AddElement DEF IsAmounts
  <2>2. DOMAIN G \subseteq Order /\ \A x \in DOMAIN G : G[x] \in Nat
    BY <1>1 DEF IsAmounts
  <2> QED
    BY <2>1, <2>2 DEF IsAmounts
<1>3. /\ IsFiniteSet(S) /\ IsIntegral(f, S)
      /\ SumFunctionOnSet(f, S) \in Int
  BY SharesTypes DEF Total
<1>4. PICK v \in Int : v = a * rate[o]
  OBVIOUS
<1>5. \A y \in S : g[y] = f[y]
  BY <1>1 DEF Shares
<1>6. CASE o \in K
  <2>1. DOMAIN G \cap K = S \cup {o} /\ o \notin S
    BY <1>1, <1>6
  <2>2. g[o] = v
    BY <1>1, <1>4, <1>6 DEF Shares
  <2> HIDE DEF f, g, S
  <2>3. SumFunctionOnSet(g, S \cup {o}) = SumFunctionOnSet(f, S) + v
    BY <1>3, <1>5, <2>1, <2>2, SumAdd
  <2> QED
    BY <1>2, <1>4, <1>6, <2>1, <2>3 DEF Total, G, f, g, S
<1>7. CASE o \notin K
  <2>1. DOMAIN G \cap K = S
    BY <1>1, <1>7
  <2> HIDE DEF f, g, S
  <2>2. SumFunctionOnSet(g, S) = SumFunctionOnSet(f, S)
    BY <1>3, <1>5, SumAgree
  <2> QED
    BY <1>2, <1>3, <1>7, <2>1, <2>2 DEF Total, G, f, g, S
<1> QED
  BY <1>6, <1>7

\* Less of an order, or an order less.
LEMMA TotalShrinks ==
    ASSUME NEW F, IsAmounts(F), NEW K, NEW rate \in [Order -> Int],
           NEW h \in DOMAIN F, NEW q \in 0 .. F[h], NEW G,
           \/ G = [F EXCEPT ![h] = @ - q]
           \/ G = Drop(F, h) /\ q = F[h]
    PROVE  /\ IsAmounts(G)
           /\ Total(G, K, rate) =
                  Total(F, K, rate) - (IF h \in K THEN q * rate[h] ELSE 0)
<1> DEFINE f == Shares(F, K, rate)
           g == Shares(G, K, rate)
           S == DOMAIN F \cap K
<1>1. /\ IsFiniteSet(S) /\ IsIntegral(f, S)
      /\ SumFunctionOnSet(f, S) \in Int
  BY SharesTypes DEF Total
<1>2. h \in Order /\ F[h] \in Nat /\ q \in Nat /\ rate[h] \in Int
  BY DEF IsAmounts
<1>3. PICK v \in Int : v = q * rate[h]
  BY <1>2
<1>4. \A x \in DOMAIN F : x # h => G[x] = F[x]
  <2>1. CASE G = [F EXCEPT ![h] = @ - q]
    BY <2>1
  <2>2. CASE G = Drop(F, h)
    BY <2>2, DropFacts
  <2> QED
    BY <2>1, <2>2
<1>5. CASE G = [F EXCEPT ![h] = @ - q]
  <2>1. DOMAIN G = DOMAIN F /\ G[h] = F[h] - q /\ F[h] - q \in Nat
    BY <1>2, <1>5
  <2>2. IsAmounts(G)
    BY <1>4, <2>1 DEF IsAmounts
  <2>3. \A x \in S : x # h => g[x] = f[x]
    BY <1>4, <2>1 DEF Shares
  <2>4. CASE h \in K
    <3>1. h \in S /\ f[h] = F[h] * rate[h] /\ g[h] = (F[h] - q) * rate[h]
      BY <2>1, <2>4 DEF Shares
    <3>2. (F[h] - q) * rate[h] = F[h] * rate[h] - q * rate[h]
      BY <1>2
    <3>3. f[h] \in Int
      BY <1>2, <3>1
    <3>4. g[h] = f[h] + (- v)
      BY <1>2, <1>3, <3>1, <3>2, <3>3
    <3> HIDE DEF f, g, S
    <3>5. \A x \in S : g[x] = f[x] + (IF x = h THEN - v ELSE 0)
      BY <1>1, <2>3, <3>4 DEF IsIntegral
    <3>6. SumFunctionOnSet(g, S) = SumFunctionOnSet(f, S) + (- v)
      BY <1>1, <3>1, <3>5, SumChange
    <3>7. SumFunctionOnSet(g, S) = SumFunctionOnSet(f, S) - v
      BY <1>1, <3>6
    <3> QED
      BY <1>3, <2>1, <2>2, <2>4, <3>7 DEF Total, f, g, S
  <2>5. CASE h \notin K
    <3>1. \A x \in S : g[x] = f[x]
      BY <2>3, <2>5
    <3> HIDE DEF f, g, S
    <3>2. SumFunctionOnSet(g, S) = SumFunctionOnSet(f, S)
      BY <1>1, <3>1, SumAgree
    <3> QED
      BY <1>1, <2>1, <2>2, <2>5, <3>2 DEF Total, f, g, S
  <2> QED
    BY <2>4, <2>5
<1>6. CASE G = Drop(F, h) /\ q = F[h]
  <2>1. DOMAIN G = DOMAIN F \ {h}
    BY <1>6, DropFacts
  <2>2. IsAmounts(G)
    BY <1>4, <2>1, FS_RemoveElement DEF IsAmounts
  <2>3. \A x \in S \ {h} : g[x] = f[x]
    <3> SUFFICES ASSUME NEW x \in S \ {h}
                 PROVE  g[x] = f[x]
      OBVIOUS
    <3>1. x \in DOMAIN F \cap K /\ x \in DOMAIN G \cap K
      BY <2>1
    <3>2. F[x] = G[x]
      BY <1>4, <3>1
    <3> QED
      BY <3>1, <3>2 DEF Shares
  <2>4. CASE h \in K
    <3>1. h \in S /\ f[h] = v /\ DOMAIN G \cap K = S \ {h}
      BY <1>3, <1>6, <2>1, <2>4 DEF Shares
    <3> HIDE DEF f, g, S
    <3>2. SumFunctionOnSet(g, S \ {h}) = SumFunctionOnSet(f, S) - v
      BY <1>1, <2>3, <3>1, SumRemove
    <3> QED
      BY <1>3, <2>2, <2>4, <3>1, <3>2 DEF Total, f, g, S
  <2>5. CASE h \notin K
    <3>1. DOMAIN G \cap K = S /\ \A x \in S : g[x] = f[x]
      BY <2>1, <2>3, <2>5
    <3> HIDE DEF f, g, S
    <3>2. SumFunctionOnSet(g, S) = SumFunctionOnSet(f, S)
      BY <1>1, <3>1, SumAgree
    <3> QED
      BY <1>1, <2>2, <2>5, <3>1, <3>2 DEF Total, f, g, S
  <2> QED
    BY <2>4, <2>5
<1> QED
  BY <1>5, <1>6

-----------------------------------------------------------------------------
(* Price levels are sums. *)

\* The orders there could be at a price.
Priced(m, s, p) == {o \in Order : o.market = m /\ o.side = s /\ o.price = p}

ByUnit == [o \in Order |-> 1]

Depth(m, s, p) == Total(amounts, Priced(m, s, p), ByUnit)

LevelOf(m, s, p) == IF HasLevel(m, s, p) THEN book[m][s][p] ELSE 0

\* At every price, also where no level is and no order rests.
BookAgrees ==
    \A m \in Markets, s \in Sides, p \in Int : Depth(m, s, p) = LevelOf(m, s, p)

\* The orders of no price add up to more than the decimal context tells apart.
Fits(F) == \A o \in DOMAIN F :
               Total(F, Priced(o.market, o.side, o.price), ByUnit) <= Exact

AmountsInv == IsAmounts(amounts) /\ TakerRestsNot

\* Each of the orders of a price has no more left than all of them.
LEMMA PartOfDepth ==
    ASSUME IsAmounts(amounts), NEW o \in DOMAIN amounts
    PROVE  amounts[o] <= Depth(o.market, o.side, o.price)
<1> DEFINE K == Priced(o.market, o.side, o.price)
           S == DOMAIN amounts \cap K
           f == Shares(amounts, K, ByUnit)
<1>1. o \in S
  BY DEF IsAmounts, Priced
<1>2. IsFiniteSet(S)
  BY FS_Subset DEF IsAmounts
<1>3. \A x \in S : f[x] = amounts[x] /\ amounts[x] \in Nat
  BY DEF Shares, IsAmounts, ByUnit
<1>4. f[o] <= SumFunctionOnSet(f, S)
  <2> HIDE DEF S, f
  <2> QED
    BY <1>1, <1>2, <1>3, SumBounds
<1> QED
  BY <1>1, <1>3, <1>4 DEF Depth, Total

\* A level is set, or deleted for want of an amount.
LevelBecomes(m, s, p, a) ==
    SetLevel(m, s, p, a) \/ (DeleteLevel(m, s, p) /\ a = 0)

\* What it is for the other levels.
LEMMA LevelSet ==
    ASSUME BookTypeOK, NEW m \in Markets, NEW s \in Sides, NEW p \in Int,
           NEW a \in Int,
           LevelBecomes(m, s, p, a),
           NEW n \in Markets, NEW z \in Sides, NEW r \in Int
    PROVE  LevelOf(n, z, r)' = IF n = m /\ z = s /\ r = p THEN a
                               ELSE LevelOf(n, z, r)
<1>1. CASE SetLevel(m, s, p, a)
  <2>1. book'[n][z] = IF n = m /\ z = s THEN Put(book[m][s], p, a)
                      ELSE book[n][z]
    BY <1>1 DEF SetLevel, BookTypeOK
  <2> QED
    BY <2>1 DEF LevelOf, HasLevel, Put
<1>2. CASE DeleteLevel(m, s, p) /\ a = 0
  <2>1. book'[n][z] = IF n = m /\ z = s THEN Drop(book[m][s], p)
                      ELSE book[n][z]
    BY <1>2 DEF DeleteLevel, BookTypeOK
  <2> QED
    BY <1>2, <2>1 DEF LevelOf, HasLevel, Drop
<1> QED
  BY <1>1, <1>2 DEF LevelBecomes

\* A step that changes the book and the amounts by the same.
LEMMA BookFollows ==
    ASSUME BookTypeOK, BookAgrees, NEW o \in Order, NEW a \in Int,
           LevelBecomes(o.market, o.side, o.price, a),
           \A m \in Markets, s \in Sides, p \in Int :
               Total(amounts', Priced(m, s, p), ByUnit) =
                   IF o \in Priced(m, s, p) THEN a ELSE Depth(m, s, p)
    PROVE  BookAgrees'
<1>1. o.market \in Markets /\ o.side \in Sides /\ o.price \in Int
  BY PayTypes
<1>2. ASSUME NEW m \in Markets, NEW s \in Sides, NEW p \in Int
      PROVE  Depth(m, s, p)' = LevelOf(m, s, p)'
  <2>1. LevelOf(m, s, p)' = IF m = o.market /\ s = o.side /\ p = o.price THEN a
                            ELSE LevelOf(m, s, p)
    BY <1>1, LevelSet
  <2>2. o \in Priced(m, s, p) <=> m = o.market /\ s = o.side /\ p = o.price
    BY DEF Priced
  <2> QED
    BY <2>1, <2>2 DEF BookAgrees, Depth
<1> QED
  BY <1>2 DEF BookAgrees

\* An order comes to rest.
LEMMA LevelsRest ==
    ASSUME BookTypeOK, IsAmounts(amounts), BookAgrees, NEW o \in Order,
           o \notin DOMAIN amounts, NEW a \in Nat, Rest(o, a), Fits(amounts')
    PROVE  BookAgrees'
<1>1. ByUnit \in [Order -> Int]
  BY DEF ByUnit
<1>2. amounts' = Put(amounts, o, a)
      /\ AddToBook(o.market, o.side, o.price, a)
  BY DEF Rest
<1>3. o \in DOMAIN amounts'
  BY <1>2 DEF Put
<1>4. ASSUME NEW m \in Markets, NEW s \in Sides, NEW p \in Int
      PROVE  Total(amounts', Priced(m, s, p), ByUnit) =
                 Depth(m, s, p) + (IF o \in Priced(m, s, p) THEN a ELSE 0)
  <2>1. Total(Put(amounts, o, a), Priced(m, s, p), ByUnit) =
            Depth(m, s, p) +
                (IF o \in Priced(m, s, p) THEN a * ByUnit[o] ELSE 0)
    BY <1>1, TotalGrows DEF Depth
  <2>2. a * ByUnit[o] = a
    BY DEF ByUnit
  <2> QED
    BY <1>2, <2>1, <2>2
<1>5. PICK d \in Int : d = Depth(o.market, o.side, o.price)
  BY <1>1, SharesTypes DEF Depth
<1>6. o.market \in Markets /\ o.side \in Sides /\ o.price \in Int
  BY PayTypes
<1>7. d = LevelOf(o.market, o.side, o.price)
  BY <1>5, <1>6 DEF BookAgrees
<1>8. PICK e \in Int : e = d + a
  OBVIOUS
<1>9. ASSUME NEW m \in Markets, NEW s \in Sides, NEW p \in Int
      PROVE  Total(amounts', Priced(m, s, p), ByUnit) =
                 IF o \in Priced(m, s, p) THEN e ELSE Depth(m, s, p)
  <2>1. o \in Priced(m, s, p) => Depth(m, s, p) = d
    BY <1>5 DEF Priced
  <2>2. Depth(m, s, p) \in Int
    BY <1>1, SharesTypes DEF Depth
  <2> QED
    BY <1>4, <1>8, <2>1, <2>2
<1>10. Rounded(e) = e
  <2>1. o \in Priced(o.market, o.side, o.price)
    BY DEF Priced
  <2>2. e = Total(amounts', Priced(o.market, o.side, o.price), ByUnit)
    BY <1>6, <1>9, <2>1
  <2> QED
    BY <1>3, <2>2, RoundedFacts DEF Fits
<1>11. LevelBecomes(o.market, o.side, o.price, e)
  <2>1. e = IF HasLevel(o.market, o.side, o.price)
              THEN Rounded(book[o.market][o.side][o.price] + a) ELSE a
    BY <1>7, <1>8, <1>10 DEF LevelOf
  <2> QED
    BY <1>2, <2>1 DEF AddToBook, LevelBecomes
<1> QED
  BY <1>9, <1>11, BookFollows

\* An order that rests at a level that is there gives up part of what is left of
\* it, or leaves with all of it.
LEMMA LevelsTake ==
    ASSUME BookTypeOK, IsAmounts(amounts), BookAgrees, NEW h \in DOMAIN amounts,
           NEW q \in 0 .. amounts[h], HasLevel(h.market, h.side, h.price),
           \/ amounts' = [amounts EXCEPT ![h] = @ - q]
           \/ amounts' = Drop(amounts, h) /\ q = amounts[h],
           \/ SetLevel(h.market, h.side, h.price,
                       Rounded(book[h.market][h.side][h.price] - q))
           \/ RemoveFromBook(h.market, h.side, h.price, q),
           Fits(amounts)
    PROVE  BookAgrees'
<1>1. ByUnit \in [Order -> Int] /\ h \in Order /\ amounts[h] \in Nat /\ q \in Nat
  BY DEF ByUnit, IsAmounts
<1>2. h.market \in Markets /\ h.side \in Sides /\ h.price \in Int
  BY <1>1, PayTypes
<1>3. Depth(h.market, h.side, h.price) <= Exact
  BY DEF Fits, Depth
<1>4. ASSUME NEW m \in Markets, NEW s \in Sides, NEW p \in Int
      PROVE  Total(amounts', Priced(m, s, p), ByUnit) =
                 Depth(m, s, p) - (IF h \in Priced(m, s, p) THEN q ELSE 0)
  <2>1. Total(amounts', Priced(m, s, p), ByUnit) =
            Depth(m, s, p) -
                (IF h \in Priced(m, s, p) THEN q * ByUnit[h] ELSE 0)
    BY <1>1, TotalShrinks DEF Depth
  <2>2. q * ByUnit[h] = q
    BY <1>1 DEF ByUnit
  <2> QED
    BY <2>1, <2>2
<1>5. PICK d \in Int : d = Depth(h.market, h.side, h.price)
  BY <1>1, SharesTypes DEF Depth
<1>6. d = book[h.market][h.side][h.price] /\ q <= d
  BY <1>1, <1>2, <1>5, PartOfDepth DEF BookAgrees, LevelOf
<1>7. PICK e \in Int : e = d - q
  BY <1>1
<1>8. Rounded(e) = e
  <2>1. Exact \in Int
    BY RoundingAssumption
  <2> QED
    BY <1>1, <1>3, <1>5, <1>7, <2>1, RoundedFacts
<1>9. LevelBecomes(h.market, h.side, h.price, e)
  <2>1. book[h.market][h.side][h.price] <= q => e = 0
    BY <1>1, <1>6, <1>7
  <2>2. Rounded(book[h.market][h.side][h.price] - q) = e
    BY <1>6, <1>7, <1>8
  <2> QED
    BY <2>1, <2>2 DEF RemoveFromBook, LevelBecomes
<1>10. ASSUME NEW m \in Markets, NEW s \in Sides, NEW p \in Int
      PROVE  Total(amounts', Priced(m, s, p), ByUnit) =
                 IF h \in Priced(m, s, p) THEN e ELSE Depth(m, s, p)
  <2>1. h \in Priced(m, s, p) => Depth(m, s, p) = d
    BY <1>5 DEF Priced
  <2>2. Depth(m, s, p) \in Int
    BY <1>1, SharesTypes DEF Depth
  <2> QED
    BY <1>1, <1>4, <1>7, <2>1, <2>2
<1> QED
  BY <1>1, <1>9, <1>10, BookFollows

\* An order at a price without a level has nothing left.
LEMMA NothingWithoutLevel ==
    ASSUME IsAmounts(amounts), BookAgrees, NEW o \in DOMAIN amounts,
           ~ HasLevel(o.market, o.side, o.price)
    PROVE  amounts[o] = 0
<1>1. o \in Order /\ amounts[o] \in Nat
  BY DEF IsAmounts
<1>2. Depth(o.market, o.side, o.price) = 0
  BY <1>1, PayTypes DEF BookAgrees, LevelOf
<1> QED
  BY <1>1, <1>2, PartOfDepth

\* A step that leaves the amounts and the book alone.
LEMMA LevelsStay ==
    ASSUME BookAgrees, UNCHANGED <<amounts, book>>
    PROVE  BookAgrees'
  BY DEF BookAgrees, Depth, LevelOf, HasLevel

\* An order that is cancelled leaves its level without what was left of it; if
\* there is no level, nothing was left.
LEMMA CancelKeepsLevels ==
    ASSUME IInv, AmountsInv, BookAgrees, Fits(amounts), fault = "none",
           NEW u \in Users, NEW o \in orders[u], Cancel(o)
    PROVE  BookAgrees'
<1>1. /\ o \in Order /\ o \in DOMAIN amounts /\ amounts[o] \in Nat
      /\ BookTypeOK /\ amounts' = Drop(amounts, o)
  BY RestingOrder DEF IInv, EngineInv, EngineTypeOK, Cancel, Forget
<1>2. CASE HasLevel(o.market, o.side, o.price)
  <2>1. RemoveFromBook(o.market, o.side, o.price, amounts[o])
    BY <1>2 DEF Cancel
  <2>2. amounts[o] \in 0 .. amounts[o]
    BY <1>1
  <2> QED
    BY <1>1, <1>2, <2>1, <2>2, LevelsTake DEF AmountsInv
<1>3. CASE ~ HasLevel(o.market, o.side, o.price)
  <2>1. amounts[o] = 0 /\ book' = book
    BY <1>1, <1>3, NothingWithoutLevel DEF Cancel, AmountsInv
  <2>2. ByUnit \in [Order -> Int]
    BY DEF ByUnit
  <2>3. 0 \in 0 .. amounts[o]
    BY <1>1
  <2>4. ASSUME NEW m \in Markets, NEW s \in Sides, NEW p \in Int
        PROVE  Total(amounts', Priced(m, s, p), ByUnit) = Depth(m, s, p)
    <3>1. Total(amounts', Priced(m, s, p), ByUnit) =
              Depth(m, s, p) -
                  (IF o \in Priced(m, s, p) THEN 0 * ByUnit[o] ELSE 0)
      BY <1>1, <2>1, <2>2, <2>3, TotalShrinks DEF Depth, AmountsInv
    <3>2. Depth(m, s, p) \in Int
      BY <2>2, SharesTypes DEF Depth, AmountsInv
    <3>3. 0 * ByUnit[o] = 0
      BY <1>1 DEF ByUnit
    <3> QED
      BY <3>1, <3>2, <3>3
  <2> QED
    BY <2>1, <2>4 DEF BookAgrees, Depth, LevelOf, HasLevel
<1> QED
  BY <1>2, <1>3

\* A trade takes as much off the level as off the order.
LEMMA TradeKeepsLevels ==
    ASSUME IInv, AmountsInv, BookAgrees, Fits(amounts), fault = "none",
           taker # NoTaker, NEW h, ExecuteTrade(h)
    PROVE  BookAgrees'
<1>1. /\ h \in DOMAIN amounts /\ amounts[h] \in Nat
      /\ h.market = taker.market
      /\ TradeAmount(h) \in 0 .. remaining
      /\ TradeAmount(h) \in 0 .. amounts[h]
  BY TradedHead DEF ExecuteTrade, Heads, IInv, EngineInv
<1>2. PICK q \in 0 .. amounts[h] : q = TradeAmount(h)
  BY <1>1
<1>3. HasLevel(h.market, h.side, h.price) /\ BookTypeOK
  BY <1>1 DEF ExecuteTrade, IInv, EngineInv, EngineTypeOK
<1>4. CASE amounts[h] > q
  <2>1. /\ amounts' = [amounts EXCEPT ![h] = @ - q]
        /\ SetLevel(h.market, h.side, h.price,
                    Rounded(book[h.market][h.side][h.price] - q))
    BY <1>1, <1>2, <1>4 DEF ExecuteTrade
  <2> QED
    BY <1>1, <1>3, <2>1, LevelsTake DEF AmountsInv
<1>5. CASE ~ (amounts[h] > q)
  <2>1. /\ amounts' = Drop(amounts, h)
        /\ RemoveFromBook(h.market, h.side, h.price, q)
    BY <1>1, <1>2, <1>5 DEF ExecuteTrade, Forget
  <2>2. q = amounts[h]
    BY <1>1, <1>2, <1>5
  <2> QED
    BY <1>1, <1>3, <2>1, <2>2, LevelsTake DEF AmountsInv
<1> QED
  BY <1>4, <1>5

\* An order whose nonce has just been used is new.
LEMMA NewOrder ==
    ASSUME IInv, OneOrderPerNonce, NEW u \in Users, NEW f \in Offers
    PROVE  OrderOf(f, u) \in Order /\ OrderOf(f, u) \notin DOMAIN amounts
<1>1. PICK o \in Order : o = OrderOf(f, u)
  BY OrderOfType DEF IInv
<1>2. o.user = u /\ o.nonce = nonces[u] /\ nonces[u] \in Nat
  BY <1>1, OrderOfType DEF IInv, AccountTypeOK
<1> QED
  BY <1>1, <1>2 DEF OneOrderPerNonce, LiveOrders

\* What process does with one transaction.
LEMMA TransactionKeepsLevels ==
    ASSUME IInv, OneOrderPerNonce, AmountsInv, BookAgrees, Fits(amounts),
           Fits(amounts'), ProcessTransaction
    PROVE  BookAgrees'
<1>1. CASE \E u \in Users, f \in Offers : ProcessOrder(u, f)
  <2>1. PICK u \in Users, f \in Offers : ProcessOrder(u, f)
    BY <1>1
  <2>2. PICK o \in Order : o = OrderOf(f, u) /\ o \notin DOMAIN amounts
    BY NewOrder
  <2>3. CASE Place(o)
    <3>1. o.amount \in Nat /\ Rest(o, o.amount) /\ BookTypeOK
      BY <2>3, PayTypes DEF Place, IInv, EngineInv, EngineTypeOK
    <3> QED
      BY <2>2, <3>1, LevelsRest DEF AmountsInv
  <2>4. CASE UNCHANGED <<amounts, book>>
    BY <2>4, LevelsStay
  <2> QED
    BY <2>1, <2>2, <2>3, <2>4
    DEF ProcessOrder, MatchInstantly, bookVars, engineVars
<1>2. CASE \E u \in Users : \E o \in orders[u] : ProcessCancel(o)
  BY <1>2, CancelKeepsLevels DEF ProcessCancel, Idle
<1>3. CASE UNCHANGED bookkeeping
  BY <1>3, LevelsStay DEF bookkeeping, bookVars
<1> QED
  BY <1>1, <1>2, <1>3
  DEF ProcessTransaction, ProcessRegister, Register, ProcessDeposit, Deposit,
      ProcessWithdraw, Withdraw, WithdrawFault, KeyFault,
      ProcessBadNonce, ProcessCancelFault

\* An iteration of the matching loop, or its end.
LEMMA MatchKeepsLevels ==
    ASSUME IInv, AmountsInv, BookAgrees, Fits(amounts), Fits(amounts'), Match
    PROVE  BookAgrees'
<1>1. fault = "none" /\ taker # NoTaker /\ taker \in Order /\ BookTypeOK
      /\ remaining \in Nat
  BY DEF Match, ProcessTrade, ProcessMatched, IInv, EngineInv, EngineTypeOK
<1>2. CASE ProcessTrade
  <2>1. PICK h : ExecuteTrade(h) \/ ExecuteTradeFault(h)
    BY <1>2 DEF ProcessTrade
  <2>2. CASE ExecuteTrade(h)
    BY <1>1, <2>2, TradeKeepsLevels
  <2>3. CASE ExecuteTradeFault(h)
    BY <2>3, LevelsStay DEF ExecuteTradeFault
  <2> QED
    BY <2>1, <2>2, <2>3
<1>3. CASE ProcessMatched
  <2>1. FinishMatch /\ taker \notin DOMAIN amounts
    BY <1>3 DEF ProcessMatched, AmountsInv, TakerRestsNot
  <2>2. CASE Rest(taker, remaining)
    BY <1>1, <2>1, <2>2, LevelsRest DEF AmountsInv
  <2>3. CASE UNCHANGED <<amounts, book>>
    BY <2>3, LevelsStay
  <2> QED
    BY <2>1, <2>2, <2>3 DEF FinishMatch, bookVars
<1> QED
  BY <1>2, <1>3 DEF Match

\* What rests stays finitely many orders, and the taker is none of them.
LEMMA AmountsStep ==
    ASSUME IInv, IInv', OneOrderPerNonce, AmountsInv, [Next]_zexVars
    PROVE  AmountsInv'
<1>1. TakerRestsNot'
  BY TakerRestsNotKept DEF AmountsInv
<1>2. DOMAIN amounts' \subseteq Order /\ \A o \in DOMAIN amounts' : amounts'[o] \in Nat
  BY DEF IInv, EngineInv, EngineTypeOK
<1>3. \E x : DOMAIN amounts' \subseteq DOMAIN amounts \cup {x}
  <2>1. ASSUME NEW o, NEW a, Rest(o, a)
        PROVE  DOMAIN amounts' \subseteq DOMAIN amounts \cup {o}
    BY <2>1, PutFacts DEF Rest
  <2>2. ASSUME NEW o, Forget(o)
        PROVE  DOMAIN amounts' \subseteq DOMAIN amounts
    BY <2>2, DropFacts DEF Forget
  <2>3. CASE ProcessTransaction
    <3>1. ASSUME NEW u \in Users, NEW f \in Offers, ProcessOrder(u, f)
          PROVE  \E x : DOMAIN amounts' \subseteq DOMAIN amounts \cup {x}
      BY <2>1, <3>1
      DEF ProcessOrder, Place, MatchInstantly, bookVars, engineVars
    <3>2. ASSUME NEW o, ProcessCancel(o)
          PROVE  DOMAIN amounts' \subseteq DOMAIN amounts
      BY <2>2, <3>2 DEF ProcessCancel, Cancel
    <3>3. CASE UNCHANGED amounts
      BY <3>3
    <3> QED
      BY <2>3, <3>1, <3>2, <3>3
      DEF ProcessTransaction, ProcessRegister, Register, ProcessDeposit,
          Deposit, ProcessWithdraw, Withdraw, WithdrawFault, KeyFault,
          ProcessBadNonce, ProcessCancelFault, bookkeeping, bookVars
  <2>4. ASSUME NEW h, ExecuteTrade(h)
        PROVE  DOMAIN amounts' \subseteq DOMAIN amounts
    BY <2>2, <2>4 DEF ExecuteTrade
  <2>5. CASE Match
    BY <2>1, <2>4, <2>5
    DEF Match, ProcessTrade, ExecuteTradeFault, ProcessMatched, FinishMatch,
        bookVars
  <2>6. CASE EndBatch \/ AbortBatch \/ UNCHANGED zexVars
    BY <2>6 DEF EndBatch, AbortBatch, GetOrderBookUpdate, zexVars, engineVars
  <2> QED
    BY <2>3, <2>5, <2>6 DEF Next
<1>4. IsFiniteSet(DOMAIN amounts')
  BY <1>3, FS_AddElement, FS_Subset DEF AmountsInv, IsAmounts
<1> QED
  BY <1>1, <1>2, <1>4 DEF AmountsInv, IsAmounts

\* A fresh node has no orders.
LEMMA AmountsStart ==
    ASSUME Init
    PROVE  AmountsInv /\ DOMAIN amounts = {}
  BY FS_EmptySet DEF Init, InitMarkets, AmountsInv, IsAmounts, TakerRestsNot

\* It is an invariant.
LEMMA AmountsInvariant == Spec => []AmountsInv
<1>1. Init => AmountsInv
  BY AmountsStart
<1>2. IInv /\ IInv' /\ OneOrderPerNonce /\ AmountsInv /\ [Next]_zexVars
          => AmountsInv'
  BY AmountsStep
<1> QED
  BY <1>1, <1>2, Invariance, NoncesHold, PTL DEF Spec

\* What the orders of a price add up to, written over the orders that rest there.
LEMMA TotalIsSum ==
    ASSUME NEW F, IsAmounts(F), NEW m, NEW s, NEW p, NEW S,
           S = {o \in DOMAIN F : o.market = m /\ o.side = s /\ o.price = p}
    PROVE  Total(F, Priced(m, s, p), ByUnit) =
               SumFunctionOnSet([o \in S |-> F[o]], S)
<1>1. DOMAIN F \cap Priced(m, s, p) = S
  BY DEF Priced, IsAmounts
<1>2. \A o \in DOMAIN F : F[o] * ByUnit[o] = F[o]
  BY DEF IsAmounts, ByUnit
<1>3. Shares(F, Priced(m, s, p), ByUnit) = [o \in S |-> F[o]]
  BY <1>1, <1>2 DEF Shares
<1> QED
  BY <1>1, <1>3 DEF Total

\* That the levels fit, of this state and of the next, said of those sums.
LEMMA FitsNow ==
    ASSUME IsAmounts(amounts), LevelsFit
    PROVE  Fits(amounts)
<1> SUFFICES ASSUME NEW o \in DOMAIN amounts
             PROVE  Total(amounts, Priced(o.market, o.side, o.price), ByUnit)
                        <= Exact
  BY DEF Fits
<1>1. LeftAt(o.market, o.side, o.price) <= Exact
  BY DEF LevelsFit
<1> QED
  BY <1>1, TotalIsSum DEF LeftAt, AtLevel, SumOver

LEMMA FitsNext ==
    ASSUME IsAmounts(amounts'), LevelsFit'
    PROVE  Fits(amounts')
<1> SUFFICES ASSUME NEW o \in DOMAIN amounts'
             PROVE  Total(amounts', Priced(o.market, o.side, o.price), ByUnit)
                        <= Exact
  BY DEF Fits
<1>1. LeftAt(o.market, o.side, o.price)' <= Exact
  BY DEF LevelsFit
<1> QED
  BY <1>1, TotalIsSum DEF LeftAt, AtLevel, SumOver

\* Every step keeps the levels the sums of what rests at them, as long as those
\* are not too much to tell apart.
LEMMA LevelsStep ==
    ASSUME IInv, OneOrderPerNonce, AmountsInv, AmountsInv', LevelsFit,
           LevelsFit', BookAgrees, [Next]_zexVars
    PROVE  BookAgrees'
<1>1. Fits(amounts) /\ Fits(amounts')
  BY FitsNow, FitsNext DEF AmountsInv
<1>2. CASE EndBatch \/ AbortBatch \/ UNCHANGED zexVars
  <2>1. UNCHANGED <<amounts, book>>
    BY <1>2 DEF EndBatch, AbortBatch, GetOrderBookUpdate, zexVars, engineVars
  <2> QED
    BY <2>1, LevelsStay
<1> QED
  BY <1>1, <1>2, TransactionKeepsLevels, MatchKeepsLevels DEF Next

\* A fresh node has no orders and no levels.
LEMMA LevelsStart ==
    ASSUME Init
    PROVE  BookAgrees
<1>1. /\ DOMAIN amounts = {}
      /\ book = [m \in Markets |-> [s \in Sides |-> <<>>]]
  BY AmountsStart DEF Init, InitMarkets
<1>2. ASSUME NEW m \in Markets, NEW s \in Sides, NEW p \in Int
      PROVE  Depth(m, s, p) = LevelOf(m, s, p)
  <2>1. DOMAIN amounts \cap Priced(m, s, p) = {}
    BY <1>1
  <2>2. Depth(m, s, p) = 0
    BY <2>1, SumEmpty DEF Depth, Total
  <2>3. ~ HasLevel(m, s, p)
    BY <1>1 DEF HasLevel
  <2> QED
    BY <2>2, <2>3 DEF LevelOf
<1> QED
  BY <1>2 DEF BookAgrees

\* It is an invariant of the behaviours in which the levels fit.
LEMMA LevelsInvariant == Spec /\ []LevelsFit => []BookAgrees
<1>1. Init => BookAgrees
  BY LevelsStart
<1>2. IInv /\ OneOrderPerNonce /\ AmountsInv /\ AmountsInv' /\ LevelsFit
          /\ LevelsFit' /\ BookAgrees /\ [Next]_zexVars
          => BookAgrees'
  BY LevelsStep
<1> QED
  BY <1>1, <1>2, Invariance, NoncesHold, AmountsInvariant, PTL DEF Spec

\* The sums at every price are the sums at the levels there are.
LEMMA LevelsAgreeTell == IInv /\ AmountsInv /\ BookAgrees => LevelsTell
<1>1. SUFFICES ASSUME IInv, AmountsInv, BookAgrees,
                      NEW m \in Markets, NEW s \in Sides,
                      NEW p \in DOMAIN book[m][s]
                                    \cup {o.price : o \in heap[m][s]}
               PROVE  LeftAt(m, s, p) = IF HasLevel(m, s, p) THEN book[m][s][p]
                                        ELSE 0
  BY DEF LevelsTell
<1>2. p \in Int
  <2>1. DOMAIN book[m][s] \subseteq Int
    BY <1>1 DEF IInv, EngineInv, EngineTypeOK, BookTypeOK, IsLevels
  <2>2. heap[m][s] \subseteq Order
    BY <1>1 DEF IInv, EngineInv, EngineTypeOK
  <2> QED
    BY <1>1, <2>1, <2>2, PayTypes
<1>3. Depth(m, s, p) = LevelOf(m, s, p)
  BY <1>1, <1>2 DEF BookAgrees
<1>4. Depth(m, s, p) = LeftAt(m, s, p)
  BY <1>1, TotalIsSum DEF AmountsInv, Depth, LeftAt, AtLevel, SumOver
<1> QED
  BY <1>3, <1>4 DEF LevelOf

\* Whatever order came to rest, traded, was filled or left, in whatever part of a
\* match and after a fault: a level shows what is left of its orders, as long as
\* that never was too much for the decimal context.
THEOREM LevelsAreSumsHolds == Spec => LevelsAreSums
<1>1. IInv /\ AmountsInv /\ BookAgrees => LevelsTell
  BY LevelsAgreeTell
<1> QED
  BY <1>1, Invariance, AmountsInvariant, LevelsInvariant, PTL DEF LevelsAreSums

\* The process thread dies in a trade or a cancel for want of a price level only
\* while an order with nothing left to trade is resting.
FaultNeedsEmptyOrder ==
    [][fault' = "level" /\ fault # "level"
           => \E o \in DOMAIN amounts : amounts[o] = 0]_zexVars

\* So it does as long as the decimal context tells the levels apart: an order with
\* nothing left is then the one cause of the missing level, which was deleted when
\* the amounts of the other orders had left it, or was never there.  Without that
\* condition it is false: a level that was rounded is deleted too early.
THEOREM FaultNeedsEmptyOrderHolds == Spec /\ []LevelsFit => FaultNeedsEmptyOrder
<1>1. ASSUME IInv, AmountsInv, BookAgrees, [Next]_zexVars,
             fault' = "level", fault # "level"
      PROVE  \E o \in DOMAIN amounts : amounts[o] = 0
  <2>1. ASSUME NEW u \in Users, NEW o \in orders[u], ProcessCancel(o)
        PROVE  \E x \in DOMAIN amounts : amounts[x] = 0
    <3>1. fault = "none" /\ Cancel(o)
      BY <2>1 DEF ProcessCancel, Idle
    <3>2. o \in DOMAIN amounts
      BY <1>1, <3>1, RestingOrder DEF IInv
    <3>3. ~ HasLevel(o.market, o.side, o.price)
      BY <1>1, <3>1 DEF Cancel
    <3> QED
      BY <1>1, <3>2, <3>3, NothingWithoutLevel DEF AmountsInv
  <2>2. ASSUME ProcessTrade
        PROVE  \E x \in DOMAIN amounts : amounts[x] = 0
    <3>1. PICK h : ExecuteTrade(h) \/ ExecuteTradeFault(h)
      BY <2>2 DEF ProcessTrade
    <3>2. ExecuteTradeFault(h) /\ fault = "none" /\ taker # NoTaker
      BY <1>1, <2>2, <3>1 DEF ProcessTrade, ExecuteTrade
    <3>3. h \in DOMAIN amounts /\ h.market = taker.market
      BY <1>1, <3>2, TradedHead DEF ExecuteTradeFault, Heads, IInv
    <3>4. ~ HasLevel(h.market, h.side, h.price)
      BY <3>2, <3>3 DEF ExecuteTradeFault
    <3> QED
      BY <1>1, <3>3, <3>4, NothingWithoutLevel DEF AmountsInv
  <2>3. \/ ProcessTrade
        \/ \E u \in Users : \E o \in orders[u] : ProcessCancel(o)
    <3>1. CASE ProcessTransaction
      <4>1. ASSUME NEW u \in Users, NEW f \in Offers, ProcessOrder(u, f)
            PROVE  fault' = fault
        BY <4>1 DEF ProcessOrder, MatchInstantly, Place, engineVars
      <4> QED
        BY <1>1, <3>1, <4>1
        DEF ProcessTransaction, ProcessRegister, Register, ProcessDeposit,
            Deposit, ProcessWithdraw, Withdraw, WithdrawFault, KeyFault,
            ProcessBadNonce, ProcessCancelFault
    <3>2. CASE ProcessMatched
      BY <1>1, <3>2 DEF ProcessMatched, FinishMatch
    <3>3. CASE EndBatch \/ AbortBatch \/ UNCHANGED zexVars
      BY <1>1, <3>3 DEF EndBatch, AbortBatch, GetOrderBookUpdate, zexVars,
                        engineVars
    <3> QED
      BY <1>1, <3>1, <3>2, <3>3 DEF Next, Match
  <2> QED
    BY <2>1, <2>2, <2>3
<1>2. IInv /\ AmountsInv /\ BookAgrees /\ [Next]_zexVars
          => [fault' = "level" /\ fault # "level"
                  => \E o \in DOMAIN amounts : amounts[o] = 0]_zexVars
  BY <1>1
<1> QED
  BY <1>2, Invariance, AmountsInvariant, LevelsInvariant, PTL
  DEF Spec, FaultNeedsEmptyOrder
=============================================================================
