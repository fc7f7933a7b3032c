---------------------------- MODULE CandleProofs ----------------------------
(***************************************************************************)
(* What a node remembers of the trades of a market, for any trades, any    *)
(* length of a day, any number of restarts and set backs of the clock: the *)
(* candles and the statistics drawn from them, the pages of a chart, and   *)
(* the trades of a user.                                                   *)
(***************************************************************************)
EXTENDS Candles, SumProofs, SequenceTheorems

-----------------------------------------------------------------------------
(* Largest, smallest, sums *)

\* A finite set of numbers has a largest and a smallest.
LEMMA MaxMin ==
    ASSUME NEW S, IsFiniteSet(S), S # {}, S \subseteq Int
    PROVE  /\ Max(S) \in S /\ \A y \in S : y <= Max(S)
           /\ Min(S) \in S /\ \A y \in S : Min(S) <= y
<1> DEFINE B == {t \in SUBSET S :
                     t = {} \/ /\ \E x \in t : \A y \in t : x >= y
                               /\ \E x \in t : \A y \in t : x =< y}
<1>1. {} \in B
  OBVIOUS
<1>2. ASSUME NEW t \in SUBSET S, NEW x \in S, t \in B, x \notin t
      PROVE  t \cup {x} \in B
  <2>1. CASE t = {}
    BY <2>1
  <2>2. CASE t # {}
    <3>1. PICK a \in t : \A y \in t : a >= y
      BY <1>2, <2>2
    <3>2. PICK b \in t : \A y \in t : b =< y
      BY <1>2, <2>2
    <3>3. \E z \in t \cup {x} : \A y \in t \cup {x} : z >= y
      <4>1. CASE a >= x
        BY <3>1, <4>1
      <4>2. CASE x >= a
        BY <3>1, <4>2
      <4> QED
        BY <4>1, <4>2
    <3>4. \E z \in t \cup {x} : \A y \in t \cup {x} : z =< y
      <4>1. CASE b =< x
        BY <3>2, <4>1
      <4>2. CASE x =< b
        BY <3>2, <4>2
      <4> QED
        BY <4>1, <4>2
    <3> QED
      BY <3>3, <3>4
  <2> QED
    BY <2>1, <2>2
<1> HIDE DEF B
<1>3. S \in B
  BY <1>1, <1>2, SubsetInduction
<1>4. /\ \E x \in S : \A y \in S : x >= y
      /\ \E x \in S : \A y \in S : x =< y
  BY <1>3 DEF B
<1>5. Max(S) \in S /\ \A y \in S : Max(S) >= y
  BY <1>4 DEF Max
<1>6. Min(S) \in S /\ \A y \in S : Min(S) =< y
  BY <1>4 DEF Min
<1> QED
  BY <1>5, <1>6

\* There is one such.
LEMMA MaxMinIs ==
    ASSUME NEW S, S \subseteq Int, NEW x \in S
    PROVE  /\ (\A y \in S : y <= x) => Max(S) = x
           /\ (\A y \in S : x <= y) => Min(S) = x
<1>1. ASSUME \A y \in S : y <= x
      PROVE  Max(S) = x
  <2>1. \E z \in S : \A y \in S : z >= y
    BY <1>1
  <2>2. Max(S) \in S /\ \A y \in S : Max(S) >= y
    BY <2>1 DEF Max
  <2>3. Max(S) \in Int /\ x \in Int /\ Max(S) <= x /\ Max(S) >= x
    BY <1>1, <2>2
  <2> QED
    BY <2>3
<1>2. ASSUME \A y \in S : x <= y
      PROVE  Min(S) = x
  <2>1. \E z \in S : \A y \in S : z =< y
    BY <1>2
  <2>2. Min(S) \in S /\ \A y \in S : Min(S) =< y
    BY <2>1 DEF Min
  <2>3. Min(S) \in Int /\ x \in Int /\ x <= Min(S) /\ Min(S) =< x
    BY <1>2, <2>2
  <2> QED
    BY <2>3
<1> QED
  BY <1>1, <1>2

LargerOf(x, y)  == IF x <= y THEN y ELSE x
SmallerOf(x, y) == IF y <= x THEN y ELSE x

\* The extremes of two numbers.
LEMMA MaxMinOfTwo ==
    ASSUME NEW x \in Int, NEW y \in Int, NEW t, \A z : z \in t <=> z = x \/ z = y
    PROVE  Max(t) = LargerOf(x, y) /\ Min(t) = SmallerOf(x, y)
<1>1. t \subseteq Int /\ x \in t /\ y \in t /\ \A z \in t : z = x \/ z = y
  OBVIOUS
<1>2. Max(t) = LargerOf(x, y)
  <2>1. CASE x <= y
    <3>1. \A z \in t : z <= y
      BY <1>1, <2>1
    <3> QED
      BY <1>1, <2>1, <3>1, MaxMinIs DEF LargerOf
  <2>2. CASE ~ (x <= y)
    <3>1. \A z \in t : z <= x
      BY <1>1, <2>2
    <3> QED
      BY <1>1, <2>2, <3>1, MaxMinIs DEF LargerOf
  <2> QED
    BY <2>1, <2>2
<1>3. Min(t) = SmallerOf(x, y)
  <2>1. CASE y <= x
    <3>1. \A z \in t : y <= z
      BY <1>1, <2>1
    <3> QED
      BY <1>1, <2>1, <3>1, MaxMinIs DEF SmallerOf
  <2>2. CASE ~ (y <= x)
    <3>1. \A z \in t : x <= z
      BY <1>1, <2>2
    <3> QED
      BY <1>1, <2>2, <3>1, MaxMinIs DEF SmallerOf
  <2> QED
    BY <2>1, <2>2
<1> QED
  BY <1>2, <1>3

\* One more number.
LEMMA MaxMinAdd ==
    ASSUME NEW S, IsFiniteSet(S), S # {}, S \subseteq Int, NEW x \in Int
    PROVE  /\ Max(S \cup {x}) = IF x <= Max(S) THEN Max(S) ELSE x
           /\ Min(S \cup {x}) = IF Min(S) <= x THEN Min(S) ELSE x
<1>1. PICK a \in S : a = Max(S) /\ \A y \in S : y <= a
  BY MaxMin
<1>2. PICK b \in S : b = Min(S) /\ \A y \in S : b <= y
  BY MaxMin
<1>3. PICK t : t = S \cup {x} /\ t \subseteq Int
  OBVIOUS
<1>4. Max(t) = IF x <= a THEN a ELSE x
  <2>1. CASE x <= a
    <3>1. a \in t /\ \A y \in t : y <= a
      BY <1>1, <1>3, <2>1
    <3> QED
      BY <1>3, <2>1, <3>1, MaxMinIs
  <2>2. CASE ~ (x <= a)
    <3>1. x \in t /\ \A y \in t : y <= x
      BY <1>1, <1>3, <2>2
    <3> QED
      BY <1>3, <2>2, <3>1, MaxMinIs
  <2> QED
    BY <2>1, <2>2
<1>5. Min(t) = IF b <= x THEN b ELSE x
  <2>1. CASE b <= x
    <3>1. b \in t /\ \A y \in t : b <= y
      BY <1>2, <1>3, <2>1
    <3> QED
      BY <1>3, <2>1, <3>1, MaxMinIs
  <2>2. CASE ~ (b <= x)
    <3>1. x \in t /\ \A y \in t : x <= y
      BY <1>2, <1>3, <2>2
    <3> QED
      BY <1>3, <2>2, <3>1, MaxMinIs
  <2> QED
    BY <2>1, <2>2
<1> QED
  BY <1>1, <1>2, <1>3, <1>4, <1>5

-----------------------------------------------------------------------------
(* What some trades of the log come to *)

Prices(lg, S) == {lg[i].price : i \in S}

AmountOf(lg, S) == SumFunctionOnSet([i \in S |-> lg[i].amount], S)

\* Trades of the log up to place d.
SomeTrades(lg, S, d) ==
    S \subseteq 1 .. d /\ \A i \in 1 .. d : lg[i] \in Trades

\* Any of them have a volume, a count, and extremes.
LEMMA TradesCount ==
    ASSUME NEW lg, NEW d \in Nat, NEW S, SomeTrades(lg, S, d)
    PROVE  /\ IsFiniteSet(S) /\ Cardinality(S) \in Nat
           /\ AmountOf(lg, S) \in Nat
           /\ IsFiniteSet(Prices(lg, S)) /\ Prices(lg, S) \subseteq Nat
           /\ \A i \in S : /\ lg[i].amount \in Nat /\ lg[i].price \in Nat
                           /\ lg[i].amount <= AmountOf(lg, S)
                           /\ 1 <= Cardinality(S)
<1>1. IsFiniteSet(S) /\ Cardinality(S) \in Nat
  <2>1. S \in SUBSET (1 .. d) /\ 1 \in Int /\ d \in Int
    BY DEF SomeTrades
  <2>2. IsFiniteSet(1 .. d)
    BY <2>1, FS_Interval
  <2>3. IsFiniteSet(S)
    BY <2>1, <2>2, FS_Subset
  <2> QED
    BY <2>3, FS_CardinalityType
<1>2. \A i \in S : lg[i].amount \in Nat /\ lg[i].price \in Nat
  BY TradesAssumption DEF SomeTrades
<1>3. PICK f : f = [i \in S |-> lg[i].amount]
  OBVIOUS
<1>4. /\ SumFunctionOnSet(f, S) \in Nat
      /\ \A i \in S : f[i] <= SumFunctionOnSet(f, S)
  BY <1>1, <1>2, <1>3, SumBounds
<1>5. IsFiniteSet(Prices(lg, S))
  <2>1. PICK p : p = [i \in S |-> lg[i].price]
    OBVIOUS
  <2>2. p \in Surjection(S, Prices(lg, S))
    BY <2>1 DEF Surjection, Prices
  <2> QED
    BY <1>1, <2>2, FS_Surjection
<1>6. ASSUME NEW i \in S
      PROVE  1 <= Cardinality(S)
  <2>1. Cardinality(S) # 0
    BY <1>1, FS_EmptySet
  <2> QED
    BY <1>1, <2>1
<1> QED
  BY <1>1, <1>2, <1>3, <1>4, <1>5, <1>6 DEF AmountOf, Prices

\* A single trade.
LEMMA OneTrade ==
    ASSUME NEW lg, NEW d \in Nat \ {0}, SomeTrades(lg, {d}, d)
    PROVE  /\ Max(Prices(lg, {d})) = lg[d].price
           /\ Min(Prices(lg, {d})) = lg[d].price
           /\ Max({d}) = d /\ Min({d}) = d
           /\ AmountOf(lg, {d}) = lg[d].amount
           /\ Cardinality({d}) = 1
<1>1. lg[d].price \in Nat /\ lg[d].amount \in Nat
  BY TradesCount
<1>2. Prices(lg, {d}) = {lg[d].price}
  BY DEF Prices
<1>3. \A x \in Int : Max({x}) = x /\ Min({x}) = x
  <2>1. ASSUME NEW x \in Int
        PROVE  Max({x}) = x /\ Min({x}) = x
    <3>1. {x} \subseteq Int /\ x \in {x} /\ \A y \in {x} : y <= x /\ x <= y
      OBVIOUS
    <3> QED
      BY <3>1, MaxMinIs
  <2> QED
    BY <2>1
<1>4. PICK f : f = [i \in {d} |-> lg[i].amount]
  OBVIOUS
<1>5. SumFunctionOnSet(f, {d}) = lg[d].amount
  <2>1. IsFiniteSet({}) /\ IsIntegral(f, {}) /\ d \notin {} /\ f[d] = lg[d].amount
    BY <1>4, FS_EmptySet DEF IsIntegral
  <2>2. SumFunctionOnSet(f, {} \cup {d}) = SumFunctionOnSet(f, {}) + f[d]
    BY <1>1, <2>1, SumAdd
  <2>3. {} \cup {d} = {d}
    OBVIOUS
  <2> QED
    BY <1>1, <2>1, <2>2, <2>3, SumEmpty
<1>6. AmountOf(lg, {d}) = lg[d].amount
  BY <1>4, <1>5 DEF AmountOf
<1>7. Cardinality({d}) = 1
  BY FS_Singleton
<1> QED
  BY <1>1, <1>2, <1>3, <1>6, <1>7

\* s is S without its element d.
Without(S, d, s) == d \notin s /\ \A i : i \in S <=> i \in s \/ i = d

\* A later trade adds to the volume and the count.
LEMMA OneMore ==
    ASSUME NEW lg, NEW d \in Nat \ {0}, NEW S, SomeTrades(lg, S, d),
           NEW s, Without(S, d, s)
    PROVE  /\ SomeTrades(lg, s, d)
           /\ AmountOf(lg, S) = AmountOf(lg, s) + lg[d].amount
           /\ Cardinality(S) = Cardinality(s) + 1
<1>1. /\ S = s \cup {d} /\ d \notin s /\ d \in S
      /\ \A i \in s : i \in S
  BY DEF Without
<1>2. SomeTrades(lg, s, d)
  BY <1>1 DEF SomeTrades
<1>3. /\ IsFiniteSet(s) /\ Cardinality(s) \in Nat
      /\ \A i \in S : lg[i].amount \in Nat
  <2>1. \A i \in S : lg[i].amount \in Nat
    BY TradesCount
  <2> QED
    BY <1>2, <2>1, TradesCount
<1>4. AmountOf(lg, S) = AmountOf(lg, s) + lg[d].amount
  <2>1. PICK f : f = [i \in s |-> lg[i].amount]
    OBVIOUS
  <2>2. PICK g : g = [i \in S |-> lg[i].amount]
    OBVIOUS
  <2>3. /\ \A y \in s : f[y] = lg[y].amount /\ g[y] = f[y] /\ f[y] \in Int
        /\ g[d] = lg[d].amount /\ g[d] \in Int
    <3>1. \A y \in S : g[y] = lg[y].amount /\ g[y] \in Int
      BY <1>3, <2>2
    <3>2. \A y \in s : y \in S /\ f[y] = lg[y].amount
      BY <1>1, <2>1
    <3> QED
      BY <1>1, <3>1, <3>2
  <2>4. SumFunctionOnSet(g, s \cup {d}) = SumFunctionOnSet(f, s) + g[d]
    <3>1. IsIntegral(f, s)
      BY <2>3 DEF IsIntegral
    <3>2. IsFiniteSet(s) /\ d \notin s /\ g[d] \in Int /\ \A y \in s : g[y] = f[y]
      BY <1>1, <1>3, <2>3
    <3> QED
      BY <3>1, <3>2, SumAdd
  <2> QED
    BY <1>1, <2>1, <2>2, <2>4 DEF AmountOf
<1>5. Cardinality(S) = Cardinality(s) + 1
  BY <1>1, <1>3, FS_AddElement
<1> QED
  BY <1>2, <1>4, <1>5

\* What a later trade does to all that is told of them.
Gains(lg, S, d, s) ==
    /\ Max(Prices(lg, S)) = LargerOf(lg[d].price, Max(Prices(lg, s)))
    /\ Min(Prices(lg, S)) = SmallerOf(lg[d].price, Min(Prices(lg, s)))
    /\ Max(S) = d /\ Min(S) = Min(s)
    /\ AmountOf(lg, S) = AmountOf(lg, s) + lg[d].amount
    /\ Cardinality(S) = Cardinality(s) + 1

\* One trade more, a later one.
LEMMA MoreTrades ==
    ASSUME NEW lg, NEW d \in Nat \ {0}, NEW S, SomeTrades(lg, S, d),
           NEW s, Without(S, d, s), s # {}
    PROVE  Gains(lg, S, d, s)
<1>1. /\ s # {} /\ S = s \cup {d} /\ d \notin s /\ d \in S
      /\ \A i \in s : i \in S
  BY DEF Without
<1>2. /\ SomeTrades(lg, s, d) /\ \A i \in s : i \in Nat /\ i < d
      /\ s \subseteq Int /\ S \subseteq Int
  BY <1>1 DEF SomeTrades
<1>3. /\ IsFiniteSet(s) /\ Cardinality(s) \in Nat
      /\ IsFiniteSet(Prices(lg, s)) /\ Prices(lg, s) \subseteq Nat
      /\ \A i \in S : lg[i].amount \in Nat /\ lg[i].price \in Nat
  <2>1. \A i \in S : lg[i].amount \in Nat /\ lg[i].price \in Nat
    BY TradesCount
  <2> QED
    BY <1>2, <2>1, TradesCount
<1>4. Prices(lg, S) = Prices(lg, s) \cup {lg[d].price} /\ Prices(lg, s) # {}
  <2>1. \A i : i \in S <=> i \in s \/ i = d
    BY <1>1
  <2>2. {lg[i].price : i \in S} = {lg[i].price : i \in s} \cup {lg[d].price}
    BY <2>1
  <2>3. /\ Prices(lg, S) = {lg[i].price : i \in S}
        /\ Prices(lg, s) = {lg[i].price : i \in s}
    BY DEF Prices
  <2>4. PICK i \in s : lg[i].price \in Prices(lg, s)
    BY <1>1, <2>3
  <2> QED
    BY <2>2, <2>3, <2>4
<1>5. /\ Max(Prices(lg, S)) = LargerOf(lg[d].price, Max(Prices(lg, s)))
      /\ Min(Prices(lg, S)) = SmallerOf(lg[d].price, Min(Prices(lg, s)))
  <2>1. PICK p : p = Prices(lg, s)
    OBVIOUS
  <2>2. IsFiniteSet(p) /\ p # {} /\ p \subseteq Int /\ lg[d].price \in Int
    BY <1>1, <1>3, <1>4, <2>1
  <2> QED
    BY <1>4, <2>1, <2>2, MaxMinAdd DEF LargerOf, SmallerOf
<1>6. Max(S) = d
  <2>1. \A y \in S : y <= d
    BY <1>1, <1>2
  <2> QED
    BY <1>1, <1>2, <2>1, MaxMinIs
<1>7. Min(S) = Min(s)
  <2>1. Min(s) \in s /\ \A y \in s : Min(s) <= y
    BY <1>1, <1>2, <1>3, MaxMin
  <2>2. Min(s) \in S /\ \A y \in S : Min(s) <= y
    <3>1. PICK m \in s : m = Min(s)
      BY <2>1
    <3>2. m \in Nat /\ m < d
      BY <1>2
    <3> QED
      BY <1>1, <2>1, <3>1, <3>2
  <2> QED
    BY <1>2, <2>2, MaxMinIs
<1> QED
  BY <1>5, <1>6, <1>7, OneMore DEF Gains

-----------------------------------------------------------------------------
(* A row *)

RowType ==
    [OpenTime : Nat, Open : Nat, High : Nat, Low : Nat, Close : Nat,
     Volume : Nat, NumberOfTrades : Nat]

\* What an update has left to write, after each of its writes.
Stages ==
    {Columns, <<"Low", "Close", "Volume", "NumberOfTrades">>,
     <<"Close", "Volume", "NumberOfTrades">>, <<"Volume", "NumberOfTrades">>,
     <<"NumberOfTrades">>, <<>>}

Pending(w) == {w[i] : i \in DOMAIN w}

\* The stages, one after the other.
LEMMA StageOf ==
    ASSUME NEW w \in Stages
    PROVE  \/ /\ w # <<>> /\ Head(w) = "High" /\ Tail(w) \in Stages
              /\ Pending(w) = {"High", "Low", "Close", "Volume", "NumberOfTrades"}
              /\ Pending(Tail(w)) = {"Low", "Close", "Volume", "NumberOfTrades"}
           \/ /\ w # <<>> /\ Head(w) = "Low" /\ Tail(w) \in Stages
              /\ Pending(w) = {"Low", "Close", "Volume", "NumberOfTrades"}
              /\ Pending(Tail(w)) = {"Close", "Volume", "NumberOfTrades"}
           \/ /\ w # <<>> /\ Head(w) = "Close" /\ Tail(w) \in Stages
              /\ Pending(w) = {"Close", "Volume", "NumberOfTrades"}
              /\ Pending(Tail(w)) = {"Volume", "NumberOfTrades"}
           \/ /\ w # <<>> /\ Head(w) = "Volume" /\ Tail(w) \in Stages
              /\ Pending(w) = {"Volume", "NumberOfTrades"}
              /\ Pending(Tail(w)) = {"NumberOfTrades"}
           \/ /\ w # <<>> /\ Head(w) = "NumberOfTrades" /\ Tail(w) \in Stages
              /\ Pending(w) = {"NumberOfTrades"} /\ Pending(Tail(w)) = {}
           \/ w = <<>> /\ Pending(w) = {}
<1>1. \A a, b, c, d, e :
          /\ Pending(<<a, b, c, d, e>>) = {a, b, c, d, e}
          /\ Pending(<<a, b, c, d>>) = {a, b, c, d}
          /\ Pending(<<a, b, c>>) = {a, b, c} /\ Pending(<<a, b>>) = {a, b}
          /\ Pending(<<a>>) = {a} /\ Pending(<<>>) = {}
  BY DEF Pending
<1>2. \A a, b, c, d, e :
          /\ <<a, b, c, d, e>> # <<>> /\ Head(<<a, b, c, d, e>>) = a
          /\ Tail(<<a, b, c, d, e>>) = <<b, c, d, e>>
          /\ <<a, b, c, d>> # <<>> /\ Head(<<a, b, c, d>>) = a
          /\ Tail(<<a, b, c, d>>) = <<b, c, d>>
          /\ <<a, b, c>> # <<>> /\ Head(<<a, b, c>>) = a
          /\ Tail(<<a, b, c>>) = <<b, c>>
          /\ <<a, b>> # <<>> /\ Head(<<a, b>>) = a /\ Tail(<<a, b>>) = <<b>>
          /\ <<a>> # <<>> /\ Head(<<a>>) = a /\ Tail(<<a>>) = <<>>
  OBVIOUS
<1>3. CASE w = Columns
  BY <1>1, <1>2, <1>3 DEF Columns, Stages
<1>4. CASE w = <<"Low", "Close", "Volume", "NumberOfTrades">>
  BY <1>1, <1>2, <1>4 DEF Stages
<1>5. CASE w = <<"Close", "Volume", "NumberOfTrades">>
  BY <1>1, <1>2, <1>5 DEF Stages
<1>6. CASE w = <<"Volume", "NumberOfTrades">>
  BY <1>1, <1>2, <1>6 DEF Stages
<1>7. CASE w = <<"NumberOfTrades">>
  BY <1>1, <1>2, <1>7 DEF Stages
<1>8. CASE w = <<>>
  BY <1>1, <1>8
<1> QED
  BY <1>3, <1>4, <1>5, <1>6, <1>7, <1>8 DEF Stages

Written(row, tr, c) == [row EXCEPT ![c] = UpdatedRow(row, tr)[c]]

ColumnNames == {"High", "Low", "Close", "Volume", "NumberOfTrades"}

\* q is the row with the column c brought up to the trade.
IsWritten(q, row, tr, c) ==
    /\ q \in RowType /\ q.OpenTime = row.OpenTime /\ q.Open = row.Open
    /\ q.High = IF c = "High" THEN LargerOf(tr.price, row.High) ELSE row.High
    /\ q.Low = IF c = "Low" THEN SmallerOf(tr.price, row.Low) ELSE row.Low
    /\ q.Close = IF c = "Close" THEN tr.price ELSE row.Close
    /\ q.Volume = IF c = "Volume" THEN row.Volume + tr.amount ELSE row.Volume
    /\ q.NumberOfTrades = IF c = "NumberOfTrades"
                            THEN row.NumberOfTrades + 1 ELSE row.NumberOfTrades

\* One write changes one column.
LEMMA WriteIs ==
    ASSUME NEW row \in RowType, NEW tr \in Trades, NEW c \in ColumnNames
    PROVE  IsWritten(Written(row, tr, c), row, tr, c)
<1> DEFINE q == Written(row, tr, c)
<1>1. tr.price \in Nat /\ tr.amount \in Nat
  BY TradesAssumption
<1>2. row.High \in Nat /\ row.Low \in Nat /\ row.Volume \in Nat
      /\ row.NumberOfTrades \in Nat
  BY DEF RowType
<1>3. PICK h \in Nat : h = LargerOf(tr.price, row.High)
  BY <1>1, <1>2 DEF LargerOf
<1>4. PICK l \in Nat : l = SmallerOf(tr.price, row.Low)
  BY <1>1, <1>2 DEF SmallerOf
<1>5. PICK u : /\ u = UpdatedRow(row, tr)
               /\ u["High"] = h /\ u["Low"] = l /\ u["Close"] = tr.price
               /\ u["Volume"] = row.Volume + tr.amount
               /\ u["NumberOfTrades"] = row.NumberOfTrades + 1
  <2>1. UpdatedRow(row, tr) =
            [row EXCEPT !.High = h, !.Low = l, !.Close = tr.price,
                        !.Volume = row.Volume + tr.amount,
                        !.NumberOfTrades = row.NumberOfTrades + 1]
    <3>1. PICK t : t = {tr.price, row.High}
      OBVIOUS
    <3>2. PICK v : v = {tr.price, row.Low}
      OBVIOUS
    <3>3. h = Max(t) /\ l = Min(v)
      <4>1. h = Max(t)
        BY <1>1, <1>2, <1>3, <3>1, MaxMinOfTwo
      <4>2. l = Min(v)
        BY <1>1, <1>2, <1>4, <3>2, MaxMinOfTwo
      <4> QED
        BY <4>1, <4>2
    <3> QED
      BY <3>1, <3>2, <3>3 DEF UpdatedRow
  <2> QED
    BY <2>1 DEF RowType
<1>6. q = [row EXCEPT ![c] = u[c]]
  BY <1>5 DEF Written
<1> HIDE DEF q
<1>7. CASE c = "High"
  <2>1. q = [row EXCEPT !.High = h]
    BY <1>5, <1>6, <1>7
  <2>2. h \in Nat
    OBVIOUS
  <2>3. q \in RowType
    BY <2>1, <2>2 DEF RowType
  <2>4. /\ q.High = h
        /\ q.OpenTime = row.OpenTime /\ q.Open = row.Open /\ q.Low = row.Low
        /\ q.Close = row.Close /\ q.Volume = row.Volume /\ q.NumberOfTrades = row.NumberOfTrades
    BY <2>1 DEF RowType
  <2> QED
    BY <1>3, <1>4, <1>6, <1>7, <2>3, <2>4 DEF IsWritten, q
<1>8. CASE c = "Low"
  <2>1. q = [row EXCEPT !.Low = l]
    BY <1>5, <1>6, <1>8
  <2>2. l \in Nat
    OBVIOUS
  <2>3. q \in RowType
    BY <2>1, <2>2 DEF RowType
  <2>4. /\ q.Low = l
        /\ q.OpenTime = row.OpenTime /\ q.Open = row.Open /\ q.High = row.High
        /\ q.Close = row.Close /\ q.Volume = row.Volume /\ q.NumberOfTrades = row.NumberOfTrades
    BY <2>1 DEF RowType
  <2> QED
    BY <1>3, <1>4, <1>6, <1>8, <2>3, <2>4 DEF IsWritten, q
<1>9. CASE c = "Close"
  <2>1. q = [row EXCEPT !.Close = tr.price]
    BY <1>5, <1>6, <1>9
  <2>2. tr.price \in Nat
    BY <1>1
  <2>3. q \in RowType
    BY <2>1, <2>2 DEF RowType
  <2>4. /\ q.Close = tr.price
        /\ q.OpenTime = row.OpenTime /\ q.Open = row.Open /\ q.High = row.High
        /\ q.Low = row.Low /\ q.Volume = row.Volume /\ q.NumberOfTrades = row.NumberOfTrades
    BY <2>1 DEF RowType
  <2> QED
    BY <1>3, <1>4, <1>6, <1>9, <2>3, <2>4 DEF IsWritten, q
<1>10. CASE c = "Volume"
  <2>1. q = [row EXCEPT !.Volume = row.Volume + tr.amount]
    BY <1>5, <1>6, <1>10
  <2>2. row.Volume + tr.amount \in Nat
    BY <1>1, <1>2
  <2>3. q \in RowType
    BY <2>1, <2>2 DEF RowType
  <2>4. /\ q.Volume = row.Volume + tr.amount
        /\ q.OpenTime = row.OpenTime /\ q.Open = row.Open /\ q.High = row.High
        /\ q.Low = row.Low /\ q.Close = row.Close /\ q.NumberOfTrades = row.NumberOfTrades
    BY <2>1 DEF RowType
  <2> QED
    BY <1>3, <1>4, <1>6, <1>10, <2>3, <2>4 DEF IsWritten, q
<1>11. CASE c = "NumberOfTrades"
  <2>1. q = [row EXCEPT !.NumberOfTrades = row.NumberOfTrades + 1]
    BY <1>5, <1>6, <1>11
  <2>2. row.NumberOfTrades + 1 \in Nat
    BY <1>2
  <2>3. q \in RowType
    BY <2>1, <2>2 DEF RowType
  <2>4. /\ q.NumberOfTrades = row.NumberOfTrades + 1
        /\ q.OpenTime = row.OpenTime /\ q.Open = row.Open /\ q.High = row.High
        /\ q.Low = row.Low /\ q.Close = row.Close /\ q.Volume = row.Volume
    BY <2>1 DEF RowType
  <2> QED
    BY <1>3, <1>4, <1>6, <1>11, <2>3, <2>4 DEF IsWritten, q
<1> QED
  BY <1>7, <1>8, <1>9, <1>10, <1>11 DEF q, ColumnNames

\* The trades that a column tells of, when d is the one being written.
Of(S, d, pend, c) == IF c \in pend THEN S \ {d} ELSE S

\* The row tells of the trades at S, in what is not pending of d too.
Told(row, lg, S, d, pend) ==
    /\ S # {} /\ (pend # {} => S \ {d} # {})
    /\ row.Open = lg[Min(S)].price
    /\ row.High = Max(Prices(lg, Of(S, d, pend, "High")))
    /\ row.Low = Min(Prices(lg, Of(S, d, pend, "Low")))
    /\ row.Close = lg[Max(Of(S, d, pend, "Close"))].price
    /\ row.Volume = AmountOf(lg, Of(S, d, pend, "Volume"))
    /\ row.NumberOfTrades = Cardinality(Of(S, d, pend, "NumberOfTrades"))

\* The row is within what was traded at S.
Within(row, lg, S, d, pend) ==
    /\ row.Low <= row.Open /\ row.Open <= row.High
    /\ row.Low <= row.Close /\ row.Close <= row.High
    /\ "Close" \in pend /\ "High" \notin pend => lg[d].price <= row.High
    /\ "Close" \in pend /\ "Low" \notin pend => row.Low <= lg[d].price
    /\ row.Volume + (IF "Volume" \in pend THEN lg[d].amount ELSE 0)
           <= AmountOf(lg, S)
    /\ row.NumberOfTrades + (IF "NumberOfTrades" \in pend THEN 1 ELSE 0)
           <= Cardinality(S)

\* A write brings one column up to the trade.
LEMMA WriteTold ==
    ASSUME NEW row \in RowType, NEW lg, NEW d \in Nat \ {0}, NEW S,
           SomeTrades(lg, S, d), d \in S, NEW w \in Stages, w # <<>>,
           Told(row, lg, S, d, Pending(w))
    PROVE  Told(Written(row, lg[d], Head(w)), lg, S, d, Pending(Tail(w)))
<1>1. PICK tr \in Trades : tr = lg[d]
  BY DEF SomeTrades
<1>2. PICK c : c = Head(w)
  OBVIOUS
<1>3. PICK q : q = Written(row, tr, c)
  OBVIOUS
<1>4. c \in ColumnNames
  BY <1>2, StageOf DEF ColumnNames
<1>5. PICK p : p = Pending(w) /\ p # {}
  BY StageOf
<1>6. PICK p1 : p1 = Pending(Tail(w))
  OBVIOUS
<1>7. /\ c \in p /\ c \notin p1 /\ \A x : x # c => (x \in p <=> x \in p1)
  BY <1>2, <1>5, <1>6, StageOf
<1>8. S \ {d} # {}
  BY <1>5 DEF Told
<1>9. PICK s : s = S \ {d} /\ s # {} /\ Without(S, d, s)
  BY <1>8 DEF Without
<1>10. /\ Max(Prices(lg, S)) = LargerOf(lg[d].price, Max(Prices(lg, s)))
       /\ Min(Prices(lg, S)) = SmallerOf(lg[d].price, Min(Prices(lg, s)))
       /\ Max(S) = d
       /\ AmountOf(lg, S) = AmountOf(lg, s) + lg[d].amount
       /\ Cardinality(S) = Cardinality(s) + 1
  <2>1. Gains(lg, S, d, s)
    BY <1>9, MoreTrades
  <2> QED
    BY <2>1 DEF Gains
<1>11. /\ q.Open = row.Open
       /\ q.High = IF c = "High" THEN LargerOf(tr.price, row.High) ELSE row.High
       /\ q.Low = IF c = "Low" THEN SmallerOf(tr.price, row.Low) ELSE row.Low
       /\ q.Close = IF c = "Close" THEN tr.price ELSE row.Close
       /\ q.Volume = IF c = "Volume" THEN row.Volume + tr.amount ELSE row.Volume
       /\ q.NumberOfTrades = IF c = "NumberOfTrades" THEN row.NumberOfTrades + 1
                                                     ELSE row.NumberOfTrades
  BY <1>1, <1>3, <1>4, WriteIs DEF IsWritten
<1>12. /\ S # {} /\ row.Open = lg[Min(S)].price
       /\ row.High = Max(Prices(lg, IF "High" \in p THEN s ELSE S))
       /\ row.Low = Min(Prices(lg, IF "Low" \in p THEN s ELSE S))
       /\ row.Close = lg[Max(IF "Close" \in p THEN s ELSE S)].price
       /\ row.Volume = AmountOf(lg, IF "Volume" \in p THEN s ELSE S)
       /\ row.NumberOfTrades = Cardinality(IF "NumberOfTrades" \in p THEN s ELSE S)
  BY <1>5, <1>9 DEF Told, Of
<1>13. /\ q.High = Max(Prices(lg, IF "High" \in p1 THEN s ELSE S))
       /\ q.Low = Min(Prices(lg, IF "Low" \in p1 THEN s ELSE S))
       /\ q.Close = lg[Max(IF "Close" \in p1 THEN s ELSE S)].price
       /\ q.Volume = AmountOf(lg, IF "Volume" \in p1 THEN s ELSE S)
       /\ q.NumberOfTrades = Cardinality(IF "NumberOfTrades" \in p1 THEN s ELSE S)
  <2>1. q.High = Max(Prices(lg, IF "High" \in p1 THEN s ELSE S))
    BY <1>1, <1>7, <1>10, <1>11, <1>12
  <2>2. q.Low = Min(Prices(lg, IF "Low" \in p1 THEN s ELSE S))
    BY <1>1, <1>7, <1>10, <1>11, <1>12
  <2>3. q.Close = lg[Max(IF "Close" \in p1 THEN s ELSE S)].price
    BY <1>1, <1>7, <1>10, <1>11, <1>12
  <2>4. q.Volume = AmountOf(lg, IF "Volume" \in p1 THEN s ELSE S)
    BY <1>1, <1>7, <1>10, <1>11, <1>12
  <2>5. q.NumberOfTrades = Cardinality(IF "NumberOfTrades" \in p1 THEN s ELSE S)
    BY <1>1, <1>7, <1>10, <1>11, <1>12
  <2> QED
    BY <2>1, <2>2, <2>3, <2>4, <2>5
<1>14. Told(q, lg, S, d, p1)
  BY <1>8, <1>9, <1>11, <1>12, <1>13 DEF Told, Of
<1> QED
  BY <1>1, <1>2, <1>3, <1>6, <1>14

\* A write leaves the row within what was traded.
LEMMA WriteWithin ==
    ASSUME NEW row \in RowType, NEW lg, NEW d \in Nat \ {0}, NEW S,
           SomeTrades(lg, S, d), d \in S, NEW w \in Stages, w # <<>>,
           Within(row, lg, S, d, Pending(w))
    PROVE  Within(Written(row, lg[d], Head(w)), lg, S, d, Pending(Tail(w)))
<1>1. PICK tr \in Trades : tr = lg[d]
  BY DEF SomeTrades
<1>2. tr.price \in Nat /\ tr.amount \in Nat
  BY <1>1, TradesAssumption
<1>3. PICK c : c = Head(w) /\ c \in ColumnNames
  BY StageOf DEF ColumnNames
<1>4. PICK q : q = Written(row, tr, c)
  OBVIOUS
<1>5. /\ q \in RowType /\ q.Open = row.Open
      /\ q.High = IF c = "High" THEN LargerOf(tr.price, row.High) ELSE row.High
      /\ q.Low = IF c = "Low" THEN SmallerOf(tr.price, row.Low) ELSE row.Low
      /\ q.Close = IF c = "Close" THEN tr.price ELSE row.Close
      /\ q.Volume = IF c = "Volume" THEN row.Volume + tr.amount
                                          ELSE row.Volume
      /\ q.NumberOfTrades = IF c = "NumberOfTrades"
                              THEN row.NumberOfTrades + 1 ELSE row.NumberOfTrades
  BY <1>1, <1>3, <1>4, WriteIs DEF IsWritten
<1>6. /\ row.High \in Nat /\ row.Low \in Nat /\ row.Open \in Nat
      /\ row.Close \in Nat /\ row.Volume \in Nat /\ row.NumberOfTrades \in Nat
  BY DEF RowType
<1>7. AmountOf(lg, S) \in Nat /\ Cardinality(S) \in Nat
  BY TradesCount
<1>8. Within(row, lg, S, d, Pending(w))
  OBVIOUS
<1>9. CASE c = "High"
  <2>1. /\ Pending(w) = {"High", "Low", "Close", "Volume", "NumberOfTrades"}
        /\ Pending(Tail(w)) = {"Low", "Close", "Volume", "NumberOfTrades"}
    BY <1>3, <1>9, StageOf
  <2>2. /\ row.Low <= row.Open /\ row.Open <= row.High
        /\ row.Low <= row.Close /\ row.Close <= row.High
        /\ row.Volume + lg[d].amount <= AmountOf(lg, S)
        /\ row.NumberOfTrades + 1 <= Cardinality(S)
    BY <1>8, <2>1 DEF Within
  <2>3. Within(q, lg, S, d, {"Low", "Close", "Volume", "NumberOfTrades"})
    <3>1. /\ q.Open = row.Open /\ q.Low = row.Low /\ q.Close = row.Close
          /\ q.Volume = row.Volume /\ q.NumberOfTrades = row.NumberOfTrades
          /\ q.High \in Nat /\ row.High <= q.High /\ tr.price <= q.High
      BY <1>2, <1>5, <1>6, <1>9 DEF LargerOf, SmallerOf
    <3>2. row.Open <= q.High /\ row.Close <= q.High
      BY <1>6, <2>2, <3>1
    <3>3. /\ q.Low <= q.Open /\ q.Low <= q.Close
          /\ q.Open <= q.High /\ q.Close <= q.High /\ lg[d].price <= q.High
          /\ q.Volume + lg[d].amount <= AmountOf(lg, S)
          /\ q.NumberOfTrades + 1 <= Cardinality(S)
      BY <1>1, <2>2, <3>1, <3>2
    <3> QED
      BY <3>3 DEF Within
  <2> QED
    BY <1>1, <1>3, <1>4, <2>1, <2>3
<1>10. CASE c = "Low"
  <2>1. /\ Pending(w) = {"Low", "Close", "Volume", "NumberOfTrades"}
        /\ Pending(Tail(w)) = {"Close", "Volume", "NumberOfTrades"}
    BY <1>3, <1>10, StageOf
  <2>2. /\ row.Low <= row.Open /\ row.Open <= row.High
        /\ row.Low <= row.Close /\ row.Close <= row.High
        /\ lg[d].price <= row.High
        /\ row.Volume + lg[d].amount <= AmountOf(lg, S)
        /\ row.NumberOfTrades + 1 <= Cardinality(S)
    BY <1>8, <2>1 DEF Within
  <2>3. Within(q, lg, S, d, {"Close", "Volume", "NumberOfTrades"})
    <3>1. /\ q.Open = row.Open /\ q.High = row.High /\ q.Close = row.Close
          /\ q.Volume = row.Volume /\ q.NumberOfTrades = row.NumberOfTrades
          /\ q.Low \in Nat /\ q.Low <= row.Low /\ q.Low <= tr.price
      BY <1>2, <1>5, <1>6, <1>10 DEF LargerOf, SmallerOf
    <3>2. q.Low <= row.Open /\ q.Low <= row.Close
      BY <1>6, <2>2, <3>1
    <3>3. /\ q.Low <= q.Open /\ q.Low <= q.Close
          /\ q.Open <= q.High /\ q.Close <= q.High /\ lg[d].price <= q.High
          /\ q.Low <= lg[d].price
          /\ q.Volume + lg[d].amount <= AmountOf(lg, S)
          /\ q.NumberOfTrades + 1 <= Cardinality(S)
      BY <1>1, <2>2, <3>1, <3>2
    <3> QED
      BY <3>3 DEF Within
  <2> QED
    BY <1>1, <1>3, <1>4, <2>1, <2>3
<1>11. CASE c = "Close"
  <2>1. /\ Pending(w) = {"Close", "Volume", "NumberOfTrades"}
        /\ Pending(Tail(w)) = {"Volume", "NumberOfTrades"}
    BY <1>3, <1>11, StageOf
  <2>2. /\ row.Low <= row.Open /\ row.Open <= row.High
        /\ row.Low <= row.Close /\ row.Close <= row.High
        /\ lg[d].price <= row.High
        /\ row.Low <= lg[d].price
        /\ row.Volume + lg[d].amount <= AmountOf(lg, S)
        /\ row.NumberOfTrades + 1 <= Cardinality(S)
    BY <1>8, <2>1 DEF Within
  <2>3. Within(q, lg, S, d, {"Volume", "NumberOfTrades"})
    <3>1. /\ q.Open = row.Open /\ q.High = row.High /\ q.Low = row.Low
          /\ q.Volume = row.Volume /\ q.NumberOfTrades = row.NumberOfTrades
          /\ q.Close = tr.price
      BY <1>2, <1>5, <1>6, <1>11 DEF LargerOf, SmallerOf
    <3> QED
      BY <1>1, <1>2, <1>6, <1>7, <2>2, <3>1 DEF Within
  <2> QED
    BY <1>1, <1>3, <1>4, <2>1, <2>3
<1>12. CASE c = "Volume"
  <2>1. /\ Pending(w) = {"Volume", "NumberOfTrades"}
        /\ Pending(Tail(w)) = {"NumberOfTrades"}
    BY <1>3, <1>12, StageOf
  <2>2. /\ row.Low <= row.Open /\ row.Open <= row.High
        /\ row.Low <= row.Close /\ row.Close <= row.High
        /\ row.Volume + lg[d].amount <= AmountOf(lg, S)
        /\ row.NumberOfTrades + 1 <= Cardinality(S)
    BY <1>8, <2>1 DEF Within
  <2>3. Within(q, lg, S, d, {"NumberOfTrades"})
    BY <1>1, <1>2, <1>5, <1>6, <1>7, <1>12, <2>2 DEF Within, LargerOf, SmallerOf
  <2> QED
    BY <1>1, <1>3, <1>4, <2>1, <2>3
<1>13. CASE c = "NumberOfTrades"
  <2>1. /\ Pending(w) = {"NumberOfTrades"}
        /\ Pending(Tail(w)) = {}
    BY <1>3, <1>13, StageOf
  <2>2. /\ row.Low <= row.Open /\ row.Open <= row.High
        /\ row.Low <= row.Close /\ row.Close <= row.High
        /\ row.Volume + 0 <= AmountOf(lg, S)
        /\ row.NumberOfTrades + 1 <= Cardinality(S)
    BY <1>8, <2>1 DEF Within
  <2>3. Within(q, lg, S, d, {})
    BY <1>1, <1>2, <1>5, <1>6, <1>7, <1>13, <2>2 DEF Within, LargerOf, SmallerOf
  <2> QED
    BY <1>1, <1>3, <1>4, <2>1, <2>3
<1> QED
  BY <1>3, <1>9, <1>10, <1>11, <1>12, <1>13 DEF ColumnNames

\* What is told of trades depends on no other trade of the log.
LEMMA SameTrades ==
    ASSUME NEW lg, NEW lg2, NEW S, \A i \in S : lg2[i] = lg[i]
    PROVE  Prices(lg2, S) = Prices(lg, S) /\ AmountOf(lg2, S) = AmountOf(lg, S)
<1>1. Prices(lg2, S) = Prices(lg, S)
  BY DEF Prices
<1>2. [i \in S |-> lg2[i].amount] = [i \in S |-> lg[i].amount]
  OBVIOUS
<1> QED
  BY <1>1, <1>2 DEF AmountOf

\* Nor, for a row that is not being written, on how many there are.
LEMMA SameWithin ==
    ASSUME NEW row, NEW lg, NEW lg2, NEW S, \A i \in S : lg2[i] = lg[i],
           NEW d, NEW d2, Within(row, lg, S, d, {})
    PROVE  Within(row, lg2, S, d2, {})
<1>1. AmountOf(lg2, S) = AmountOf(lg, S)
  BY SameTrades
<1> QED
  BY <1>1 DEF Within

\* ... nor does all that is told of them.
LEMMA SameTold ==
    ASSUME NEW row, NEW lg, NEW lg2, NEW S, \A i \in S : lg2[i] = lg[i],
           NEW n \in Nat, SomeTrades(lg, S, n),
           NEW d, NEW d2, Told(row, lg, S, d, {})
    PROVE  Told(row, lg2, S, d2, {})
<1>1. AmountOf(lg2, S) = AmountOf(lg, S) /\ Prices(lg2, S) = Prices(lg, S)
  BY SameTrades
<1>2. Min(S) \in S /\ Max(S) \in S
  <2>1. S # {} /\ S \subseteq Int /\ IsFiniteSet(S)
    <3>1. IsFiniteSet(S)
      BY TradesCount
    <3>2. S # {}
      BY DEF Told
    <3>3. S \subseteq Int
      BY DEF SomeTrades
    <3> QED
      BY <3>1, <3>2, <3>3
  <2> QED
    BY <2>1, MaxMin
<1>3. lg2[Min(S)] = lg[Min(S)] /\ lg2[Max(S)] = lg[Max(S)]
  BY <1>2
<1>4. /\ S # {} /\ row.Open = lg[Min(S)].price /\ row.High = Max(Prices(lg, S))
      /\ row.Low = Min(Prices(lg, S)) /\ row.Close = lg[Max(S)].price
      /\ row.Volume = AmountOf(lg, S) /\ row.NumberOfTrades = Cardinality(S)
  BY DEF Told, Of
<1> QED
  BY <1>1, <1>3, <1>4 DEF Told, Of

-----------------------------------------------------------------------------
(* The frame *)

\* The trades executed in the minute m.
At(op, d, m) == {i \in 1 .. d : op[i] = m}

\* k and op are what a node has after the first d trades of the log.
Frame(k, op, d, lg) ==
    /\ k \in Seq(RowType) /\ op \in Seq(Nat)
    /\ d \in Nat /\ Len(op) = d
    /\ lg \in Seq(Trades) /\ d <= Len(lg)

PendingOf(k, r, pend) == IF r = Len(k) THEN pend ELSE {}

\* Every row is within what was traded in its minute, and there is one at most.
Bounded(k, op, d, lg, pend) ==
    /\ \A r, q \in DOMAIN k : k[r].OpenTime = k[q].OpenTime => r = q
    /\ \A r \in DOMAIN k : Within(k[r], lg, At(op, d, k[r].OpenTime), d,
                                  PendingOf(k, r, pend))

\* The rows are in order, there is one for every trade, and each tells of all
\* the trades of its minute.
Exact(k, op, d, lg, pend) ==
    /\ \A r, q \in DOMAIN k : r < q => k[r].OpenTime < k[q].OpenTime
    /\ \A i \in 1 .. d : \E r \in DOMAIN k : k[r].OpenTime = op[i]
    /\ \A r \in DOMAIN k : Told(k[r], lg, At(op, d, k[r].OpenTime), d,
                                PendingOf(k, r, pend))

\* The trades of a minute are some of the log.
LEMMA AtTrades ==
    ASSUME NEW k, NEW op, NEW d, NEW lg, Frame(k, op, d, lg), NEW m
    PROVE  SomeTrades(lg, At(op, d, m), d)
  BY DEF SomeTrades, At, Frame

\* The next trade is one more of its own minute and of no other.
LEMMA AtAppend ==
    ASSUME NEW op \in Seq(Nat), NEW d \in Nat, Len(op) = d, NEW m \in Nat
    PROVE  /\ \A x : x # m => At(Append(op, m), d + 1, x) = At(op, d, x)
           /\ Without(At(Append(op, m), d + 1, m), d + 1, At(op, d, m))
<1> DEFINE new == Append(op, m)
<1>1. /\ new \in Seq(Nat) /\ new[d + 1] = m
      /\ \A i \in 1 .. d : new[i] = op[i]
  OBVIOUS
<1> HIDE DEF new
<1>2. \A i : i \in 1 .. d + 1 <=> i \in 1 .. d \/ i = d + 1
  OBVIOUS
<1>3. d + 1 \notin 1 .. d
  OBVIOUS
<1>4. ASSUME NEW x, x # m
      PROVE  At(new, d + 1, x) = At(op, d, x)
  <2>1. \A i : i \in At(new, d + 1, x) <=> i \in At(op, d, x)
    BY <1>1, <1>2, <1>4 DEF At
  <2> QED
    BY <2>1 DEF At
<1>5. Without(At(new, d + 1, m), d + 1, At(op, d, m))
  <2>1. \A i : i \in At(new, d + 1, m) <=> i \in At(op, d, m) \/ i = d + 1
    BY <1>1, <1>2 DEF At
  <2> QED
    BY <1>3, <2>1 DEF Without, At
<1> QED
  BY <1>4, <1>5 DEF new

\* The log grows at its end, which changes nothing of the trades before.
LEMMA LogGrows ==
    ASSUME NEW k, NEW op, NEW d, NEW lg, Frame(k, op, d, lg),
           NEW lg2 \in Seq(Trades), Len(lg) <= Len(lg2),
           \A i \in 1 .. Len(lg) : lg2[i] = lg[i]
    PROVE  /\ Frame(k, op, d, lg2)
           /\ Bounded(k, op, d, lg, {}) => Bounded(k, op, d, lg2, {})
           /\ Exact(k, op, d, lg, {}) => Exact(k, op, d, lg2, {})
<1>1. Frame(k, op, d, lg2)
  BY DEF Frame
<1>2. \A m : \A i \in At(op, d, m) : lg2[i] = lg[i]
  BY DEF Frame, At
<1>3. \A r : PendingOf(k, r, {}) = {}
  BY DEF PendingOf
<1>4. ASSUME Bounded(k, op, d, lg, {})
      PROVE  Bounded(k, op, d, lg2, {})
  <2>1. ASSUME NEW r \in DOMAIN k
        PROVE  Within(k[r], lg2, At(op, d, k[r].OpenTime), d, PendingOf(k, r, {}))
    <3>1. PICK S : S = At(op, d, k[r].OpenTime)
      OBVIOUS
    <3>2. Within(k[r], lg, S, d, {}) /\ \A i \in S : lg2[i] = lg[i]
      BY <1>2, <1>3, <1>4, <3>1 DEF Bounded
    <3>3. Within(k[r], lg2, S, d, {})
      BY <3>2, SameWithin
    <3> QED
      BY <1>3, <3>1, <3>3
  <2> QED
    BY <1>4, <2>1 DEF Bounded
<1>5. ASSUME Exact(k, op, d, lg, {})
      PROVE  Exact(k, op, d, lg2, {})
  <2>1. ASSUME NEW r \in DOMAIN k
        PROVE  Told(k[r], lg2, At(op, d, k[r].OpenTime), d, PendingOf(k, r, {}))
    <3>1. PICK S : S = At(op, d, k[r].OpenTime)
      OBVIOUS
    <3>2. Told(k[r], lg, S, d, {}) /\ \A i \in S : lg2[i] = lg[i]
      BY <1>2, <1>3, <1>5, <3>1 DEF Exact
    <3>3. SomeTrades(lg, S, d) /\ d \in Nat
      BY <3>1, AtTrades DEF Frame
    <3>4. Told(k[r], lg2, S, d, {})
      BY <3>2, <3>3, SameTold
    <3> QED
      BY <1>3, <3>1, <3>4
  <2> QED
    BY <1>5, <2>1 DEF Exact
<1> QED
  BY <1>1, <1>4, <1>5

\* The row has replaced the one of its minute.
Replaced(k, row, k2) ==
    /\ \E i \in DOMAIN k : k[i].OpenTime = row.OpenTime
    /\ Len(k2) = Len(k)
    /\ \A i \in DOMAIN k :
           k2[i] = IF k[i].OpenTime = row.OpenTime THEN row ELSE k[i]

\* The row stands at the end.
Added(k, row, k2) ==
    /\ \A i \in DOMAIN k : k[i].OpenTime # row.OpenTime
    /\ Len(k2) = Len(k) + 1 /\ k2[Len(k) + 1] = row
    /\ \A i \in DOMAIN k : k2[i] = k[i]

\* What writing a row to the frame does.
LEMMA SetRowIs ==
    ASSUME NEW k \in Seq(RowType), NEW row \in RowType
    PROVE  /\ SetRow(k, row) \in Seq(RowType)
           /\ Replaced(k, row, SetRow(k, row)) \/ Added(k, row, SetRow(k, row))
<1>0. PICK k2 : k2 = SetRow(k, row)
  OBVIOUS
<1>1. PICK n \in Nat : n = Len(k) /\ DOMAIN k = 1 .. n
  OBVIOUS
<1>2. CASE \E i \in DOMAIN k : k[i].OpenTime = row.OpenTime
  <2>1. k2 = [i \in 1 .. n |-> IF k[i].OpenTime = row.OpenTime THEN row ELSE k[i]]
    BY <1>0, <1>1, <1>2 DEF SetRow
  <2>2. \A i \in 1 .. n : (IF k[i].OpenTime = row.OpenTime THEN row ELSE k[i]) \in RowType
    BY <1>1
  <2>3. k2 \in Seq(RowType) /\ Len(k2) = n
    BY <2>1, <2>2
  <2> QED
    BY <1>0, <1>1, <1>2, <2>1, <2>3 DEF Replaced
<1>3. CASE ~ \E i \in DOMAIN k : k[i].OpenTime = row.OpenTime
  <2>1. k2 = Append(k, row)
    BY <1>0, <1>3 DEF SetRow
  <2> QED
    BY <1>0, <1>1, <1>3, <2>1 DEF Added
<1> QED
  BY <1>2, <1>3

\* The row stands once, and the others stay where they are.
LEMMA SetRowPlaces ==
    ASSUME NEW k \in Seq(RowType), NEW row \in RowType, NEW k2,
           k2 \in Seq(RowType), Replaced(k, row, k2) \/ Added(k, row, k2)
    PROVE  /\ \A r \in DOMAIN k2 :
                 \/ k2[r] = row
                 \/ r \in DOMAIN k /\ k2[r] = k[r] /\ k[r].OpenTime # row.OpenTime
           /\ \A i \in DOMAIN k :
                 i \in DOMAIN k2 /\ k2[i].OpenTime = k[i].OpenTime
           /\ \E r \in DOMAIN k2 : k2[r] = row
<1>1. PICK n \in Nat : n = Len(k) /\ DOMAIN k = 1 .. n
  OBVIOUS
<1>2. PICK n2 \in Nat : n2 = Len(k2) /\ DOMAIN k2 = 1 .. n2
  OBVIOUS
<1>3. CASE Replaced(k, row, k2)
  BY <1>1, <1>2, <1>3 DEF Replaced
<1>4. CASE Added(k, row, k2)
  <2>1. \A r : r \in DOMAIN k2 <=> r \in DOMAIN k \/ r = n + 1
    BY <1>1, <1>2, <1>4 DEF Added
  <2> QED
    BY <1>1, <1>4, <2>1 DEF Added
<1> QED
  BY <1>3, <1>4

\* The first row of a minute.
LEMMA NewRowIs ==
    ASSUME NEW m \in Nat, NEW tr \in Trades
    PROVE  NewRow(m, tr) \in RowType
<1>1. tr.price \in Nat /\ tr.amount \in Nat
  BY TradesAssumption
<1> QED
  BY <1>1 DEF NewRow, RowType

\* It tells of the trade that made it.
LEMMA NewRowTold ==
    ASSUME NEW lg \in Seq(Trades), NEW d \in 1 .. Len(lg), NEW m \in Nat
    PROVE  Told(NewRow(m, lg[d]), lg, {d}, d, {})
<1>1. d \in Nat \ {0} /\ SomeTrades(lg, {d}, d)
  BY DEF SomeTrades
<1>2. /\ Max(Prices(lg, {d})) = lg[d].price /\ Min(Prices(lg, {d})) = lg[d].price
      /\ Max({d}) = d /\ Min({d}) = d
      /\ AmountOf(lg, {d}) = lg[d].amount /\ Cardinality({d}) = 1
  BY <1>1, OneTrade
<1> QED
  BY <1>2 DEF Told, Of, NewRow

\* A new row is within what may be told of its trade.
LEMMA NewRowWithin ==
    ASSUME NEW lg \in Seq(Trades), NEW d \in 1 .. Len(lg), NEW m \in Nat,
           NEW S, SomeTrades(lg, S, d), d \in S
    PROVE  Within(NewRow(m, lg[d]), lg, S, d, {})
<1>1. /\ lg[d].price \in Nat /\ lg[d].amount \in Nat
      /\ lg[d].amount <= AmountOf(lg, S) /\ 1 <= Cardinality(S)
      /\ AmountOf(lg, S) \in Nat /\ Cardinality(S) \in Nat
  <2>1. d \in Nat
    OBVIOUS
  <2> QED
    BY <2>1, TradesCount
<1> QED
  BY <1>1 DEF Within, NewRow

\* An update that has written nothing yet: the row tells of the earlier trades.
LEMMA WithinMore ==
    ASSUME NEW row \in RowType, NEW lg, NEW d \in Nat \ {0}, NEW S,
           SomeTrades(lg, S, d), NEW s, Without(S, d, s), NEW e,
           Within(row, lg, s, e, {})
    PROVE  Within(row, lg, S, d, ColumnNames)
<1>1. /\ AmountOf(lg, S) = AmountOf(lg, s) + lg[d].amount
      /\ Cardinality(S) = Cardinality(s) + 1
      /\ SomeTrades(lg, s, d)
  BY OneMore
<1>2. lg[d].amount \in Nat
  BY TradesCount DEF Without
<1>3. AmountOf(lg, s) \in Nat /\ Cardinality(s) \in Nat
  BY <1>1, TradesCount
<1>4. row.Volume \in Nat /\ row.NumberOfTrades \in Nat
  BY DEF RowType
<1>5. /\ row.Low <= row.Open /\ row.Open <= row.High
      /\ row.Low <= row.Close /\ row.Close <= row.High
      /\ row.Volume + 0 <= AmountOf(lg, s)
      /\ row.NumberOfTrades + 0 <= Cardinality(s)
  BY DEF Within
<1> QED
  BY <1>1, <1>2, <1>3, <1>4, <1>5 DEF Within, ColumnNames

\* A row that tells its trades exactly still does when one more is to be written.
LEMMA ToldMore ==
    ASSUME NEW row \in RowType, NEW lg, NEW d \in Nat \ {0}, NEW S,
           SomeTrades(lg, S, d), NEW s, Without(S, d, s), NEW e,
           Told(row, lg, s, e, {})
    PROVE  Told(row, lg, S, d, ColumnNames)
<1>1. /\ s # {} /\ row.Open = lg[Min(s)].price /\ row.High = Max(Prices(lg, s))
      /\ row.Low = Min(Prices(lg, s)) /\ row.Close = lg[Max(s)].price
      /\ row.Volume = AmountOf(lg, s) /\ row.NumberOfTrades = Cardinality(s)
  BY DEF Told, Of
<1>2. Min(S) = Min(s)
  <2>1. Gains(lg, S, d, s)
    BY <1>1, MoreTrades
  <2> QED
    BY <2>1 DEF Gains
<1>3. s = S \ {d} /\ S # {}
  BY <1>1 DEF Without
<1>4. \A c \in ColumnNames : Of(S, d, ColumnNames, c) = s
  BY <1>3 DEF Of
<1> QED
  BY <1>1, <1>2, <1>3, <1>4 DEF Told, ColumnNames

\* A trade in the minute of the last row starts an update of that row.
LEMMA TradeUpdates ==
    ASSUME NEW k, NEW op, NEW d, NEW lg, Frame(k, op, d, lg), d < Len(lg),
           k # <<>>
    PROVE  LET op2 == Append(op, k[Len(k)].OpenTime) IN
           /\ Frame(k, op2, d + 1, lg)
           /\ Bounded(k, op, d, lg, {}) => Bounded(k, op2, d + 1, lg, ColumnNames)
           /\ Exact(k, op, d, lg, {}) => Exact(k, op2, d + 1, lg, ColumnNames)
<1>1. /\ k \in Seq(RowType) /\ op \in Seq(Nat) /\ d \in Nat /\ Len(op) = d
      /\ lg \in Seq(Trades) /\ Len(k) \in Nat /\ Len(k) \in DOMAIN k
      /\ DOMAIN k = 1 .. Len(k)
  BY DEF Frame
<1>2. PICK m \in Nat : m = k[Len(k)].OpenTime
  <2>1. k[Len(k)] \in RowType
    BY <1>1
  <2> QED
    BY <2>1 DEF RowType
<1>3. PICK op2 : op2 = Append(op, m)
  OBVIOUS
<1>4. Frame(k, op2, d + 1, lg) /\ op2[d + 1] = m /\ \A i \in 1 .. d : op2[i] = op[i]
  <2>1. op2 \in Seq(Nat) /\ Len(op2) = d + 1
    BY <1>1, <1>3
  <2>2. d + 1 <= Len(lg) /\ d + 1 \in Nat
    BY <1>1
  <2> QED
    BY <1>1, <1>3, <2>1, <2>2 DEF Frame
<1>5. /\ \A x : x # m => At(op2, d + 1, x) = At(op, d, x)
      /\ Without(At(op2, d + 1, m), d + 1, At(op, d, m))
  BY <1>1, <1>3, AtAppend
<1>6. \A x : SomeTrades(lg, At(op2, d + 1, x), d + 1)
  BY <1>4, AtTrades
<1>7. ASSUME Bounded(k, op, d, lg, {})
      PROVE  Bounded(k, op2, d + 1, lg, ColumnNames)
  <2>1. ASSUME NEW r \in DOMAIN k
        PROVE  Within(k[r], lg, At(op2, d + 1, k[r].OpenTime), d + 1,
                      PendingOf(k, r, ColumnNames))
    <3>1. PICK row : row = k[r] /\ row \in RowType
      BY <1>1
    <3>2. PICK s : s = At(op, d, row.OpenTime)
      OBVIOUS
    <3>3. Within(row, lg, s, d, {})
      BY <1>7, <3>1, <3>2 DEF Bounded, PendingOf
    <3>4. CASE r = Len(k)
      <4>1. PICK S : S = At(op2, d + 1, m)
        OBVIOUS
      <4>2. Without(S, d + 1, s) /\ SomeTrades(lg, S, d + 1) /\ d + 1 \in Nat \ {0}
        BY <1>1, <1>2, <1>5, <1>6, <3>1, <3>2, <3>4, <4>1
      <4>3. Within(row, lg, S, d + 1, ColumnNames)
        BY <3>1, <3>3, <4>2, WithinMore
      <4> QED
        BY <1>2, <3>1, <3>4, <4>1, <4>3 DEF PendingOf
    <3>5. CASE r # Len(k)
      <4>1. row.OpenTime # m
        BY <1>1, <1>2, <1>7, <3>1, <3>5 DEF Bounded
      <4>2. At(op2, d + 1, row.OpenTime) = s
        BY <1>5, <3>2, <4>1
      <4>3. Within(row, lg, s, d + 1, {})
        BY <3>3, SameWithin
      <4> QED
        BY <3>1, <3>5, <4>2, <4>3 DEF PendingOf
    <3> QED
      BY <3>4, <3>5
  <2> QED
    BY <1>7, <2>1 DEF Bounded
<1>8. ASSUME Exact(k, op, d, lg, {})
      PROVE  Exact(k, op2, d + 1, lg, ColumnNames)
  <2>1. ASSUME NEW r \in DOMAIN k
        PROVE  Told(k[r], lg, At(op2, d + 1, k[r].OpenTime), d + 1,
                    PendingOf(k, r, ColumnNames))
    <3>1. PICK row : row = k[r] /\ row \in RowType
      BY <1>1
    <3>2. PICK s : s = At(op, d, row.OpenTime)
      OBVIOUS
    <3>3. Told(row, lg, s, d, {})
      BY <1>8, <3>1, <3>2 DEF Exact, PendingOf
    <3>4. CASE r = Len(k)
      <4>1. PICK S : S = At(op2, d + 1, m)
        OBVIOUS
      <4>2. Without(S, d + 1, s) /\ SomeTrades(lg, S, d + 1) /\ d + 1 \in Nat \ {0}
        BY <1>1, <1>2, <1>5, <1>6, <3>1, <3>2, <3>4, <4>1
      <4>3. Told(row, lg, S, d + 1, ColumnNames)
        BY <3>1, <3>3, <4>2, ToldMore
      <4> QED
        BY <1>2, <3>1, <3>4, <4>1, <4>3 DEF PendingOf
    <3>5. CASE r # Len(k)
      <4>1. row.OpenTime # m
        <5>1. r \in Nat /\ r < Len(k)
          BY <1>1, <3>5
        <5>2. k[r].OpenTime < k[Len(k)].OpenTime
          BY <1>1, <1>8, <5>1 DEF Exact
        <5>3. row.OpenTime \in Nat
          BY <3>1 DEF RowType
        <5> QED
          BY <1>2, <3>1, <5>2, <5>3
      <4>2. At(op2, d + 1, row.OpenTime) = s
        BY <1>5, <3>2, <4>1
      <4>3. SomeTrades(lg, s, d)
        BY <3>2, AtTrades
      <4>4. Told(row, lg, s, d + 1, {})
        BY <1>1, <3>3, <4>3, SameTold
      <4> QED
        BY <3>1, <3>5, <4>2, <4>4 DEF PendingOf
    <3> QED
      BY <3>4, <3>5
  <2>2. ASSUME NEW i \in 1 .. d + 1
        PROVE  \E r \in DOMAIN k : k[r].OpenTime = op2[i]
    <3>1. CASE i = d + 1
      BY <1>1, <1>2, <1>4, <3>1
    <3>2. CASE i # d + 1
      <4>1. i \in 1 .. d
        BY <1>1, <3>2
      <4> QED
        BY <1>4, <1>8, <4>1 DEF Exact
    <3> QED
      BY <3>1, <3>2
  <2> QED
    BY <1>8, <2>1, <2>2 DEF Exact
<1> QED
  BY <1>2, <1>3, <1>4, <1>7, <1>8

\* Another trade writes a new row.
LEMMA TradeAdds ==
    ASSUME NEW k, NEW op, NEW d, NEW lg, Frame(k, op, d, lg), d < Len(lg),
           NEW m \in Nat, k = <<>> \/ m # k[Len(k)].OpenTime
    PROVE  LET k2  == SetRow(k, NewRow(m, lg[d + 1]))
               op2 == Append(op, m)
           IN  /\ Frame(k2, op2, d + 1, lg)
               /\ Bounded(k, op, d, lg, {}) => Bounded(k2, op2, d + 1, lg, {})
               /\ (/\ Exact(k, op, d, lg, {})
                   /\ \A i \in 1 .. d : op[i] <= m)
                      => Exact(k2, op2, d + 1, lg, {})
<1>1. /\ k \in Seq(RowType) /\ op \in Seq(Nat) /\ d \in Nat /\ Len(op) = d
      /\ lg \in Seq(Trades) /\ d + 1 \in 1 .. Len(lg) /\ d + 1 \in Nat \ {0}
      /\ lg[d + 1] \in Trades
  BY DEF Frame
<1>2. PICK row : row = NewRow(m, lg[d + 1])
  OBVIOUS
<1>3. row \in RowType /\ row.OpenTime = m
  <2>1. row \in RowType
    BY <1>1, <1>2, NewRowIs
  <2> QED
    BY <1>2, <2>1 DEF NewRow
<1>4. PICK k2 : /\ k2 = SetRow(k, row)
                /\ k2 \in Seq(RowType) /\ (Replaced(k, row, k2) \/ Added(k, row, k2))
  BY <1>1, <1>3, SetRowIs
<1>5. /\ \A r \in DOMAIN k2 :
            \/ k2[r] = row
            \/ r \in DOMAIN k /\ k2[r] = k[r] /\ k[r].OpenTime # m
      /\ \A i \in DOMAIN k : i \in DOMAIN k2 /\ k2[i].OpenTime = k[i].OpenTime
      /\ \E r \in DOMAIN k2 : k2[r] = row
  BY <1>1, <1>3, <1>4, SetRowPlaces
<1>6. PICK op2 : op2 = Append(op, m)
  OBVIOUS
<1>7. Frame(k2, op2, d + 1, lg) /\ op2[d + 1] = m /\ \A i \in 1 .. d : op2[i] = op[i]
  <2>1. op2 \in Seq(Nat) /\ Len(op2) = d + 1
    BY <1>1, <1>6
  <2> QED
    BY <1>1, <1>4, <1>6, <2>1 DEF Frame
<1>8. /\ \A x : x # m => At(op2, d + 1, x) = At(op, d, x)
      /\ Without(At(op2, d + 1, m), d + 1, At(op, d, m))
  BY <1>1, <1>6, AtAppend
<1>9. PICK S : /\ S = At(op2, d + 1, m) /\ d + 1 \in S
               /\ SomeTrades(lg, S, d + 1)
  BY <1>7, <1>8, AtTrades DEF Without
<1>10. \A r : PendingOf(k, r, {}) = {} /\ PendingOf(k2, r, {}) = {}
  BY DEF PendingOf
<1>11. ASSUME Bounded(k, op, d, lg, {})
       PROVE  Bounded(k2, op2, d + 1, lg, {})
  <2>1. ASSUME NEW r \in DOMAIN k2
        PROVE  Within(k2[r], lg, At(op2, d + 1, k2[r].OpenTime), d + 1, {})
    <3>1. CASE k2[r] = row
      <4>1. Within(row, lg, S, d + 1, {})
        BY <1>1, <1>2, <1>9, NewRowWithin
      <4> QED
        BY <1>3, <1>9, <3>1, <4>1
    <3>2. CASE r \in DOMAIN k /\ k2[r] = k[r] /\ k[r].OpenTime # m
      <4>1. PICK s : s = At(op, d, k[r].OpenTime) /\ s = At(op2, d + 1, k[r].OpenTime)
        BY <1>8, <3>2
      <4>2. PICK w : w = k[r]
        OBVIOUS
      <4>3. Within(w, lg, s, d, {})
        BY <1>10, <1>11, <3>2, <4>1, <4>2 DEF Bounded
      <4>4. Within(w, lg, s, d + 1, {})
        BY <4>3, SameWithin
      <4> QED
        BY <3>2, <4>1, <4>2, <4>4
    <3> QED
      BY <1>5, <3>1, <3>2
  <2>2. ASSUME NEW r \in DOMAIN k2, NEW q \in DOMAIN k2,
               k2[r].OpenTime = k2[q].OpenTime
        PROVE  r = q
    <3>1. CASE Replaced(k, row, k2)
      <4>1. DOMAIN k2 = DOMAIN k
        BY <1>1, <1>4, <3>1 DEF Replaced
      <4>2. k[r].OpenTime = k[q].OpenTime
        BY <1>5, <2>2, <4>1
      <4> QED
        BY <1>11, <4>1, <4>2 DEF Bounded
    <3>2. CASE Added(k, row, k2)
      <4>1. \A i : i \in DOMAIN k2 <=> i \in DOMAIN k \/ i = Len(k) + 1
        BY <1>1, <1>4, <3>2 DEF Added
      <4>2. /\ k2[Len(k) + 1].OpenTime = m
            /\ \A i \in DOMAIN k : k2[i].OpenTime = k[i].OpenTime /\ k[i].OpenTime # m
        BY <1>3, <3>2 DEF Added
      <4>3. CASE r \in DOMAIN k /\ q \in DOMAIN k
        BY <1>11, <2>2, <4>2, <4>3 DEF Bounded
      <4>4. CASE ~ (r \in DOMAIN k /\ q \in DOMAIN k)
        BY <2>2, <4>1, <4>2, <4>4
      <4> QED
        BY <4>3, <4>4
    <3> QED
      BY <1>4, <3>1, <3>2
  <2> QED
    BY <1>10, <2>1, <2>2 DEF Bounded
<1>12. ASSUME Exact(k, op, d, lg, {}), \A i \in 1 .. d : op[i] <= m
       PROVE  Exact(k2, op2, d + 1, lg, {})
  <2>1. \A r \in DOMAIN k : k[r] \in RowType /\ k[r].OpenTime \in Nat /\ k[r].OpenTime < m
    <3>1. ASSUME NEW r \in DOMAIN k
          PROVE  k[r] \in RowType /\ k[r].OpenTime \in Nat /\ k[r].OpenTime < m
      <4>1. k[r] \in RowType /\ DOMAIN k = 1 .. Len(k) /\ Len(k) \in Nat
        BY <1>1
      <4>2. k[r].OpenTime \in Nat
        BY <4>1 DEF RowType
      <4>3. PICK z : z = k[Len(k)] /\ z \in RowType /\ Len(k) \in DOMAIN k
        BY <1>1, <4>1
      <4>4. z.OpenTime \in Nat /\ z.OpenTime # m
        BY <4>1, <4>3 DEF RowType
      <4>5. PICK s : s = At(op, d, z.OpenTime) /\ s # {}
        BY <1>10, <1>12, <4>3 DEF Exact, Told
      <4>6. PICK i \in s : i \in 1 .. d /\ op[i] = z.OpenTime
        BY <4>5 DEF At
      <4>7. z.OpenTime < m
        BY <1>12, <4>4, <4>6
      <4>8. k[r].OpenTime <= z.OpenTime
        <5>1. CASE r = Len(k)
          BY <4>2, <4>3, <5>1
        <5>2. CASE r < Len(k)
          BY <1>12, <4>2, <4>3, <4>4, <5>2 DEF Exact
        <5> QED
          BY <4>1, <5>1, <5>2
      <4> QED
        BY <4>1, <4>2, <4>4, <4>7, <4>8
    <3> QED
      BY <3>1
  <2>2. Added(k, row, k2)
    <3>1. ~ Replaced(k, row, k2)
      BY <1>3, <2>1 DEF Replaced
    <3> QED
      BY <1>4, <3>1
  <2> DEFINE n == Len(k)
  <2>3. /\ n \in Nat /\ DOMAIN k = 1 .. n /\ DOMAIN k2 = 1 .. n + 1
        /\ k2[n + 1] = row /\ \A i \in 1 .. n : k2[i] = k[i]
    <3>1. Len(k) \in Nat /\ DOMAIN k = 1 .. Len(k) /\ DOMAIN k2 = 1 .. Len(k2)
      BY <1>1, <1>4
    <3>2. /\ Len(k2) = Len(k) + 1 /\ k2[Len(k) + 1] = row
          /\ \A i \in DOMAIN k : k2[i] = k[i]
      BY <2>2 DEF Added
    <3> QED
      BY <3>1, <3>2
  <2> HIDE DEF n
  <2>4. At(op, d, m) = {}
    <3>1. ASSUME NEW i \in 1 .. d
          PROVE  op[i] # m
      <4>1. PICK r \in DOMAIN k : k[r].OpenTime = op[i]
        BY <1>12 DEF Exact
      <4> QED
        BY <2>1, <4>1
    <3> QED
      BY <3>1 DEF At
  <2>5. S = {d + 1}
    BY <1>8, <1>9, <2>4 DEF Without
  <2>6. ASSUME NEW r \in DOMAIN k2
        PROVE  Told(k2[r], lg, At(op2, d + 1, k2[r].OpenTime), d + 1, {})
    <3>1. CASE k2[r] = row
      <4>1. Told(row, lg, {d + 1}, d + 1, {})
        BY <1>1, <1>2, NewRowTold
      <4> QED
        BY <1>3, <1>9, <2>5, <3>1, <4>1
    <3>2. CASE r \in DOMAIN k /\ k2[r] = k[r] /\ k[r].OpenTime # m
      <4>1. PICK s : s = At(op, d, k[r].OpenTime) /\ s = At(op2, d + 1, k[r].OpenTime)
        BY <1>8, <3>2
      <4>2. PICK w : w = k[r]
        OBVIOUS
      <4>3. Told(w, lg, s, d, {}) /\ SomeTrades(lg, s, d)
        <5>1. SomeTrades(lg, s, d)
          BY <4>1, AtTrades
        <5>2. Told(w, lg, s, d, {})
          BY <1>10, <1>12, <3>2, <4>1, <4>2 DEF Exact
        <5> QED
          BY <5>1, <5>2
      <4>4. Told(w, lg, s, d + 1, {})
        BY <1>1, <4>3, SameTold
      <4> QED
        BY <3>2, <4>1, <4>2, <4>4
    <3> QED
      BY <1>5, <3>1, <3>2
  <2>7. ASSUME NEW r \in DOMAIN k2, NEW q \in DOMAIN k2, r < q
        PROVE  k2[r].OpenTime < k2[q].OpenTime
    <3>1. r \in 1 .. n
      BY <2>3, <2>7
    <3>2. CASE q \in 1 .. n
      BY <1>12, <2>3, <2>7, <3>1, <3>2 DEF Exact
    <3>3. CASE q = n + 1
      BY <1>3, <2>1, <2>3, <3>1, <3>3
    <3> QED
      BY <2>3, <3>2, <3>3
  <2>8. ASSUME NEW i \in 1 .. d + 1
        PROVE  \E r \in DOMAIN k2 : k2[r].OpenTime = op2[i]
    <3>1. CASE i = d + 1
      BY <1>3, <1>5, <1>7, <3>1
    <3>2. CASE i # d + 1
      <4>1. i \in 1 .. d /\ op2[i] = op[i]
        BY <1>1, <1>7, <3>2
      <4>2. PICK r \in DOMAIN k : k[r].OpenTime = op[i]
        BY <1>12, <4>1 DEF Exact
      <4> QED
        BY <1>5, <4>1, <4>2
    <3> QED
      BY <3>1, <3>2
  <2> QED
    BY <1>10, <2>6, <2>7, <2>8 DEF Exact
<1> QED
  BY <1>2, <1>4, <1>6, <1>7, <1>11, <1>12

\* The frame after a write of an update.
RowWritten(k, lg, d, w) ==
    [k EXCEPT ![Len(k)] = Written(k[Len(k)], lg[d], Head(w))]

\* A write of an update leaves every other row alone.
LEMMA ColumnWritten ==
    ASSUME NEW k, NEW op, NEW d, NEW lg, Frame(k, op, d, lg),
           NEW w \in Stages, w # <<>>, k # <<>>, d > 0,
           op[d] = k[Len(k)].OpenTime
    PROVE  LET k2 == RowWritten(k, lg, d, w) IN
           /\ Frame(k2, op, d, lg)
           /\ k2 # <<>> /\ k2[Len(k2)].OpenTime = k[Len(k)].OpenTime
           /\ Bounded(k, op, d, lg, Pending(w)) =>
                 Bounded(k2, op, d, lg, Pending(Tail(w)))
           /\ Exact(k, op, d, lg, Pending(w)) =>
                 Exact(k2, op, d, lg, Pending(Tail(w)))
<1>1. /\ k \in Seq(RowType) /\ op \in Seq(Nat) /\ d \in Nat \ {0} /\ Len(op) = d
      /\ lg \in Seq(Trades) /\ d \in 1 .. Len(lg) /\ lg[d] \in Trades
  BY DEF Frame
<1>2. PICK n \in Nat : n = Len(k) /\ DOMAIN k = 1 .. n /\ n \in 1 .. n
  BY <1>1
<1>3. PICK row \in RowType : row = k[n]
  BY <1>1, <1>2
<1>4. PICK new : new = Written(row, lg[d], Head(w))
  OBVIOUS
<1>5. new \in RowType /\ new.OpenTime = row.OpenTime
  <2>1. PICK c \in ColumnNames : c = Head(w)
    BY StageOf DEF ColumnNames
  <2>2. PICK tr \in Trades : tr = lg[d]
    BY <1>1
  <2>3. IsWritten(Written(row, tr, c), row, tr, c)
    BY WriteIs
  <2> QED
    BY <1>4, <2>1, <2>2, <2>3 DEF IsWritten
<1>6. PICK k2 : k2 = [k EXCEPT ![n] = new]
  OBVIOUS
<1>7. /\ k2 \in Seq(RowType) /\ Len(k2) = n /\ DOMAIN k2 = 1 .. n
      /\ k2[n] = new /\ \A i \in 1 .. n : i # n => k2[i] = k[i]
  BY <1>1, <1>2, <1>5, <1>6
<1>8. \A i \in 1 .. n : k2[i].OpenTime = k[i].OpenTime
  BY <1>3, <1>5, <1>7
<1>9. Frame(k2, op, d, lg)
  BY <1>1, <1>7 DEF Frame
<1>10. PICK S : S = At(op, d, row.OpenTime) /\ d \in S /\ SomeTrades(lg, S, d)
  <2>1. d \in At(op, d, row.OpenTime)
    BY <1>1, <1>2, <1>3 DEF At
  <2> QED
    BY <2>1, AtTrades
<1>11. ASSUME Bounded(k, op, d, lg, Pending(w))
       PROVE  Bounded(k2, op, d, lg, Pending(Tail(w)))
  <2>1. Within(new, lg, S, d, Pending(Tail(w)))
    <3>1. Within(row, lg, S, d, Pending(w))
      BY <1>2, <1>3, <1>10, <1>11 DEF Bounded, PendingOf
    <3> QED
      BY <1>1, <1>4, <1>10, <3>1, WriteWithin
  <2>2. ASSUME NEW r \in 1 .. n
        PROVE  Within(k2[r], lg, At(op, d, k2[r].OpenTime), d,
                      PendingOf(k2, r, Pending(Tail(w))))
    <3>1. CASE r = n
      BY <1>5, <1>7, <1>10, <2>1, <3>1 DEF PendingOf
    <3>2. CASE r # n
      BY <1>2, <1>7, <1>11, <3>2 DEF Bounded, PendingOf
    <3> QED
      BY <3>1, <3>2
  <2> QED
    BY <1>2, <1>7, <1>8, <1>11, <2>2 DEF Bounded
<1>12. ASSUME Exact(k, op, d, lg, Pending(w))
       PROVE  Exact(k2, op, d, lg, Pending(Tail(w)))
  <2>1. Told(new, lg, S, d, Pending(Tail(w)))
    <3>1. Told(row, lg, S, d, Pending(w))
      BY <1>2, <1>3, <1>10, <1>12 DEF Exact, PendingOf
    <3> QED
      BY <1>1, <1>4, <1>10, <3>1, WriteTold
  <2>2. ASSUME NEW r \in 1 .. n
        PROVE  Told(k2[r], lg, At(op, d, k2[r].OpenTime), d,
                    PendingOf(k2, r, Pending(Tail(w))))
    <3>1. CASE r = n
      BY <1>5, <1>7, <1>10, <2>1, <3>1 DEF PendingOf
    <3>2. CASE r # n
      BY <1>2, <1>7, <1>12, <3>2 DEF Exact, PendingOf
    <3> QED
      BY <3>1, <3>2
  <2> QED
    BY <1>2, <1>7, <1>8, <1>12, <2>2 DEF Exact
<1> QED
  BY <1>2, <1>3, <1>4, <1>6, <1>7, <1>8, <1>9, <1>11, <1>12 DEF RowWritten

-----------------------------------------------------------------------------
(* The invariant *)

CandleTypes ==
    /\ clock \in Nat /\ setBacks \in Nat /\ writing \in Stages
    /\ Frame(kline, opened, done, log)
    /\ Frame(saved.kline, saved.opened, saved.done, log)

\* An update under way writes the last trade to the row of its minute.
Updating ==
    writing # <<>> => /\ kline # <<>> /\ done > 0 /\ current = log[done]
                      /\ opened[done] = kline[Len(kline)].OpenTime

RowsBounded ==
    /\ Bounded(kline, opened, done, log, Pending(writing))
    /\ Bounded(saved.kline, saved.opened, saved.done, log, {})

RowsExact ==
    setBacks = 0 =>
        /\ Exact(kline, opened, done, log, Pending(writing))
        /\ Exact(saved.kline, saved.opened, saved.done, log, {})
        /\ \A i \in 1 .. done : opened[i] <= OpenTime(clock)
        /\ \A i \in 1 .. saved.done : saved.opened[i] <= OpenTime(clock)

CandleInv == CandleTypes /\ Updating /\ RowsBounded /\ RowsExact

\* The minute of the clock is a time, and the clock's advance does not undo it.
LEMMA OpenTimes ==
    ASSUME NEW now \in Nat
    PROVE  /\ OpenTime(now) \in Nat
           /\ \A n \in Nat : OpenTime(now) <= OpenTime(now + n)
  BY DEF OpenTime

\* An update is over when it has nothing left to write.
LEMMA NonePending == Pending(<<>>) = {} /\ Pending(Columns) = ColumnNames
<1>1. Columns # <<>> /\ Head(Columns) = "High" /\ Columns \in Stages
  BY DEF Columns, Stages
<1>2. Pending(Columns) = {"High", "Low", "Close", "Volume", "NumberOfTrades"}
  BY <1>1, StageOf
<1>3. <<>> \in Stages
  BY DEF Stages
<1>4. Pending(<<>>) = {}
  BY DEF Pending
<1> QED
  BY <1>2, <1>4 DEF ColumnNames

\* The trade that is executed is the next one of the log, which keeps what it has.
LEMMA NextOfLog ==
    ASSUME CandleTypes, NEW tr \in Trades, ExecuteTrade(tr)
    PROVE  /\ log' \in Seq(Trades) /\ Len(log) <= Len(log')
           /\ \A i \in 1 .. Len(log) : log'[i] = log[i]
           /\ done < Len(log') /\ log'[done + 1] = tr /\ done' = done + 1
           /\ opened' = Append(opened, OpenTime(clock))
           /\ writing = <<>> /\ UpdateKline(tr)
           /\ UNCHANGED <<clock, setBacks, saved>>
<1>1. log \in Seq(Trades) /\ done \in Nat /\ done <= Len(log)
  BY DEF CandleTypes, Frame
<1>2. /\ done' = done + 1 /\ opened' = Append(opened, OpenTime(clock))
      /\ writing = <<>> /\ UpdateKline(tr) /\ UNCHANGED <<clock, setBacks, saved>>
      /\ IF done < Len(log) THEN tr = log[done + 1] /\ UNCHANGED log
                            ELSE Len(log) < MaxLog /\ log' = Append(log, tr)
  BY DEF ExecuteTrade
<1>3. CASE done < Len(log)
  BY <1>1, <1>2, <1>3
<1>4. CASE ~ (done < Len(log))
  <2>1. log' = Append(log, tr) /\ done = Len(log)
    BY <1>1, <1>2, <1>4
  <2> QED
    BY <1>1, <1>2, <2>1
<1> QED
  BY <1>3, <1>4

\* A trade keeps the invariant.
LEMMA ExecuteKeeps ==
    ASSUME CandleInv, NEW tr \in Trades, ExecuteTrade(tr)
    PROVE  CandleInv'
<1>1. /\ log' \in Seq(Trades) /\ Len(log) <= Len(log')
      /\ \A i \in 1 .. Len(log) : log'[i] = log[i]
      /\ done < Len(log') /\ log'[done + 1] = tr /\ done' = done + 1
      /\ opened' = Append(opened, OpenTime(clock))
      /\ writing = <<>> /\ UpdateKline(tr)
      /\ UNCHANGED <<clock, setBacks, saved>>
  BY NextOfLog DEF CandleInv
<1>2. /\ clock \in Nat /\ setBacks \in Nat /\ done \in Nat
      /\ Frame(kline, opened, done, log)
      /\ Frame(saved.kline, saved.opened, saved.done, log)
  BY DEF CandleInv, CandleTypes, Frame
<1>3. PICK m \in Nat : m = OpenTime(clock)
  BY <1>2, OpenTimes
<1>4. /\ Frame(kline, opened, done, log')
      /\ Bounded(kline, opened, done, log', {})
      /\ setBacks = 0 => Exact(kline, opened, done, log', {})
  <2>1. /\ Bounded(kline, opened, done, log, {})
        /\ setBacks = 0 => Exact(kline, opened, done, log, {})
    BY <1>1, NonePending DEF CandleInv, RowsBounded, RowsExact
  <2> QED
    BY <1>1, <1>2, <2>1, LogGrows
<1>5. /\ Frame(saved.kline, saved.opened, saved.done, log')
      /\ Bounded(saved.kline, saved.opened, saved.done, log', {})
      /\ setBacks = 0 => Exact(saved.kline, saved.opened, saved.done, log', {})
  <2>1. /\ Bounded(saved.kline, saved.opened, saved.done, log, {})
        /\ setBacks = 0 => Exact(saved.kline, saved.opened, saved.done, log, {})
    BY DEF CandleInv, RowsBounded, RowsExact
  <2> QED
    BY <1>1, <1>2, <2>1, LogGrows
<1>6. /\ setBacks = 0 => \A i \in 1 .. done : opened[i] <= m
      /\ setBacks = 0 => \A i \in 1 .. saved.done : saved.opened[i] <= m
  BY <1>3 DEF CandleInv, RowsExact
<1>7. setBacks = 0 => \A i \in 1 .. done + 1 : opened'[i] <= m
  <2>1. opened \in Seq(Nat) /\ Len(opened) = done
    BY <1>2 DEF Frame
  <2>2. opened' = Append(opened, m)
    BY <1>1, <1>3
  <2> QED
    BY <1>2, <1>6, <2>1, <2>2
<1>8. opened'[done + 1] = m
  <2>1. opened \in Seq(Nat) /\ Len(opened) = done
    BY <1>2 DEF Frame
  <2> QED
    BY <1>1, <1>3, <2>1
<1>9. CASE kline # <<>> /\ m = kline[Len(kline)].OpenTime
  <2>1. /\ current' = tr /\ writing' = Columns /\ kline' = kline
    BY <1>1, <1>3, <1>9 DEF UpdateKline
  <2>2. /\ Frame(kline, opened', done + 1, log')
        /\ Bounded(kline, opened', done + 1, log', ColumnNames)
        /\ setBacks = 0 => Exact(kline, opened', done + 1, log', ColumnNames)
    <3>1. opened' = Append(opened, kline[Len(kline)].OpenTime)
      BY <1>1, <1>3, <1>9
    <3> QED
      BY <1>1, <1>4, <1>9, <3>1, TradeUpdates
  <2>3. CandleTypes'
    BY <1>1, <1>2, <1>5, <2>1, <2>2 DEF CandleTypes, Stages
  <2>4. Updating'
    BY <1>1, <1>2, <1>8, <1>9, <2>1 DEF Updating
  <2>5. RowsBounded'
    BY <1>1, <1>5, <2>1, <2>2, NonePending DEF RowsBounded
  <2>6. RowsExact'
    BY <1>1, <1>3, <1>5, <1>6, <1>7, <2>1, <2>2, NonePending DEF RowsExact
  <2> QED
    BY <2>3, <2>4, <2>5, <2>6 DEF CandleInv
<1>10. CASE ~ (kline # <<>> /\ m = kline[Len(kline)].OpenTime)
  <2>1. /\ writing' = <<>> /\ kline' = SetRow(kline, NewRow(m, log'[done + 1]))
    BY <1>1, <1>3, <1>10 DEF UpdateKline
  <2>2. /\ Frame(kline', opened', done + 1, log')
        /\ Bounded(kline', opened', done + 1, log', {})
        /\ setBacks = 0 => Exact(kline', opened', done + 1, log', {})
    <3>1. opened' = Append(opened, m)
      BY <1>1, <1>3
    <3>2. kline = <<>> \/ m # kline[Len(kline)].OpenTime
      BY <1>10
    <3> QED
      BY <1>1, <1>4, <1>6, <2>1, <3>1, <3>2, TradeAdds
  <2>3. CandleTypes'
    BY <1>1, <1>2, <1>5, <2>1, <2>2 DEF CandleTypes, Stages
  <2>4. Updating'
    BY <2>1 DEF Updating
  <2>5. RowsBounded'
    BY <1>1, <1>5, <2>1, <2>2, NonePending DEF RowsBounded
  <2>6. RowsExact'
    BY <1>1, <1>3, <1>5, <1>6, <1>7, <2>1, <2>2, NonePending DEF RowsExact
  <2> QED
    BY <2>3, <2>4, <2>5, <2>6 DEF CandleInv
<1> QED
  BY <1>9, <1>10

\* A write of an update keeps the invariant.
LEMMA WriteKeeps ==
    ASSUME CandleInv, WriteColumn
    PROVE  CandleInv'
<1>1. /\ clock \in Nat /\ setBacks \in Nat /\ writing \in Stages
      /\ Frame(kline, opened, done, log)
      /\ Frame(saved.kline, saved.opened, saved.done, log)
  BY DEF CandleInv, CandleTypes
<1>2. /\ writing # <<>> /\ writing' = Tail(writing)
      /\ kline' = [kline EXCEPT ![Len(kline)][Head(writing)] =
                      UpdatedRow(kline[Len(kline)], current)[Head(writing)]]
      /\ UNCHANGED <<clock, setBacks, current, log, done, opened, saved>>
  BY DEF WriteColumn
<1>3. /\ kline # <<>> /\ done > 0 /\ current = log[done]
      /\ opened[done] = kline[Len(kline)].OpenTime
  BY <1>2 DEF CandleInv, Updating
<1>4. kline' = [kline EXCEPT ![Len(kline)] =
                   Written(kline[Len(kline)], log[done], Head(writing))]
  BY <1>2, <1>3 DEF Written
<1>5. /\ Bounded(kline, opened, done, log, Pending(writing))
      /\ Bounded(saved.kline, saved.opened, saved.done, log, {})
      /\ setBacks = 0 =>
            /\ Exact(kline, opened, done, log, Pending(writing))
            /\ Exact(saved.kline, saved.opened, saved.done, log, {})
            /\ \A i \in 1 .. done : opened[i] <= OpenTime(clock)
            /\ \A i \in 1 .. saved.done : saved.opened[i] <= OpenTime(clock)
  BY DEF CandleInv, RowsBounded, RowsExact
<1>6. /\ Frame(kline', opened, done, log)
      /\ kline' # <<>> /\ kline'[Len(kline')].OpenTime = kline[Len(kline)].OpenTime
      /\ Bounded(kline', opened, done, log, Pending(writing'))
      /\ setBacks = 0 => Exact(kline', opened, done, log, Pending(writing'))
  <2>1. PICK w \in Stages : w = writing /\ w # <<>>
    BY <1>1, <1>2
  <2>2. PICK k2 : k2 = RowWritten(kline, log, done, w)
    OBVIOUS
  <2>3. kline' = k2 /\ writing' = Tail(w)
    BY <1>2, <1>4, <2>1, <2>2 DEF RowWritten
  <2>4. Frame(k2, opened, done, log) /\ k2 # <<>>
    BY <1>1, <1>3, <2>1, <2>2, ColumnWritten
  <2>5. k2[Len(k2)].OpenTime = kline[Len(kline)].OpenTime
    BY <1>1, <1>3, <2>1, <2>2, ColumnWritten
  <2>6. /\ Bounded(kline, opened, done, log, Pending(w))
        /\ setBacks = 0 => Exact(kline, opened, done, log, Pending(w))
    BY <1>5, <2>1
  <2>7. /\ Bounded(k2, opened, done, log, Pending(Tail(w)))
        /\ setBacks = 0 => Exact(k2, opened, done, log, Pending(Tail(w)))
    BY <1>1, <1>3, <2>1, <2>2, <2>6, ColumnWritten
  <2> QED
    BY <2>3, <2>4, <2>5, <2>7
<1>7. writing' \in Stages
  BY <1>1, <1>2, StageOf
<1>8. CandleTypes' /\ Updating'
  BY <1>1, <1>2, <1>3, <1>6, <1>7 DEF CandleTypes, Updating
<1>9. RowsBounded' /\ RowsExact'
  BY <1>2, <1>5, <1>6 DEF RowsBounded, RowsExact
<1> QED
  BY <1>8, <1>9 DEF CandleInv

\* Saving the state keeps the invariant, and so does coming back with it.
LEMMA SaveKeeps ==
    ASSUME CandleInv, SaveState
    PROVE  CandleInv'
<1>1. /\ writing = <<>>
      /\ saved' = [kline |-> kline, trades |-> trades, done |-> done,
                   opened |-> opened]
      /\ UNCHANGED <<clock, setBacks, kline, writing, current, log, done, opened>>
  BY DEF SaveState, State
<1>2. /\ saved'.kline = kline /\ saved'.done = done /\ saved'.opened = opened
  BY <1>1
<1>3. Pending(writing) = {}
  BY <1>1, NonePending
<1>4. CandleTypes'
  BY <1>1, <1>2 DEF CandleInv, CandleTypes
<1>5. Updating'
  BY <1>1 DEF Updating
<1>6. RowsBounded'
  BY <1>1, <1>2, <1>3 DEF CandleInv, RowsBounded
<1>7. RowsExact'
  BY <1>1, <1>2, <1>3 DEF CandleInv, RowsExact
<1> QED
  BY <1>4, <1>5, <1>6, <1>7 DEF CandleInv

\* A restart brings back the rows, and the trades told by them.
LEMMA RestartKeeps ==
    ASSUME CandleInv, Restart
    PROVE  CandleInv'
<1>1. /\ writing' = <<>> /\ kline' = saved.kline
      /\ done' = saved.done /\ opened' = saved.opened
      /\ UNCHANGED <<clock, setBacks, current, log, saved>>
  BY DEF Restart
<1>2. Pending(writing') = {}
  BY <1>1, NonePending
<1>3. CandleTypes'
  BY <1>1 DEF CandleInv, CandleTypes, Stages
<1>4. Updating'
  BY <1>1 DEF Updating
<1>5. RowsBounded'
  BY <1>1, <1>2 DEF CandleInv, RowsBounded
<1>6. RowsExact'
  BY <1>1, <1>2 DEF CandleInv, RowsExact
<1> QED
  BY <1>3, <1>4, <1>5, <1>6 DEF CandleInv

\* The clock's advance keeps the invariant.
LEMMA TimeKeeps ==
    ASSUME CandleInv, NEW n \in Seconds, TimePasses(n)
    PROVE  CandleInv'
<1>1. /\ clock' = clock + n /\ n \in Nat /\ clock \in Nat
      /\ UNCHANGED <<setBacks, kline, writing, current, log, done, opened, saved>>
  BY NumbersAssumption DEF TimePasses, CandleInv, CandleTypes
<1>2. /\ OpenTime(clock) <= OpenTime(clock') /\ OpenTime(clock) \in Nat
      /\ OpenTime(clock') \in Nat
  <2>1. clock' \in Nat
    BY <1>1
  <2> QED
    BY <1>1, <2>1, OpenTimes
<1>3. CandleTypes' /\ Updating' /\ RowsBounded'
  BY <1>1 DEF CandleInv, CandleTypes, Updating, RowsBounded
<1>4. RowsExact'
  <2>1. \A i \in 1 .. done : opened[i] \in Nat
    BY DEF CandleInv, CandleTypes, Frame
  <2>2. \A i \in 1 .. saved.done : saved.opened[i] \in Nat
    BY DEF CandleInv, CandleTypes, Frame
  <2>3. \A i \in 1 .. done : opened[i] <= OpenTime(clock) =>
                                opened[i] <= OpenTime(clock')
    BY <1>2, <2>1
  <2>4. \A i \in 1 .. saved.done : saved.opened[i] <= OpenTime(clock) =>
                                      saved.opened[i] <= OpenTime(clock')
    BY <1>2, <2>2
  <2> QED
    BY <1>1, <2>3, <2>4 DEF CandleInv, RowsExact
<1> QED
  BY <1>3, <1>4 DEF CandleInv

\* Setting it back ends the promise that the candles are exact.
LEMMA SetBackKeeps ==
    ASSUME CandleInv, NEW n \in Seconds, SetBack(n)
    PROVE  CandleInv'
<1>1. /\ clock' = clock - n /\ n <= clock /\ n \in Nat /\ clock \in Nat
      /\ setBacks' = setBacks + 1 /\ setBacks \in Nat
      /\ UNCHANGED <<kline, writing, current, log, done, opened, saved>>
  BY NumbersAssumption DEF SetBack, CandleInv, CandleTypes
<1>2. clock' \in Nat /\ setBacks' \in Nat /\ setBacks' # 0
  BY <1>1
<1>3. CandleTypes' /\ Updating' /\ RowsBounded'
  BY <1>1, <1>2 DEF CandleInv, CandleTypes, Updating, RowsBounded
<1>4. RowsExact'
  BY <1>2 DEF RowsExact
<1> QED
  BY <1>3, <1>4 DEF CandleInv

\* A node starts with an empty frame.
LEMMA CandlesStart ==
    ASSUME CandlesInit
    PROVE  CandleInv
<1>1. /\ clock = 60 /\ setBacks = 0 /\ kline = <<>> /\ writing = <<>>
      /\ log = <<>> /\ done = 0 /\ opened = <<>>
      /\ saved.kline = <<>> /\ saved.done = 0 /\ saved.opened = <<>>
  BY DEF CandlesInit, State
<1>2. Frame(<<>>, <<>>, 0, <<>>)
  BY DEF Frame
<1>3. \A pend : Bounded(<<>>, <<>>, 0, <<>>, pend) /\ Exact(<<>>, <<>>, 0, <<>>, pend)
  BY DEF Bounded, Exact
<1>4. CandleTypes /\ Updating /\ RowsBounded
  BY <1>1, <1>2, <1>3 DEF CandleTypes, Updating, RowsBounded, Stages
<1>5. RowsExact
  BY <1>1, <1>3 DEF RowsExact
<1> QED
  BY <1>4, <1>5 DEF CandleInv

\* Every step keeps the invariant.
LEMMA CandleInvSteps ==
    ASSUME CandleInv, [CandlesNext]_candleVars
    PROVE  CandleInv'
<1>1. CASE UNCHANGED candleVars
  BY <1>1 DEF candleVars, CandleInv, CandleTypes, Updating, RowsBounded, RowsExact
<1>2. CASE CandlesNext
  BY <1>2, ExecuteKeeps, WriteKeeps, TimeKeeps, SetBackKeeps, SaveKeeps,
     RestartKeeps DEF CandlesNext
<1> QED
  BY <1>1, <1>2

\* The invariant holds in every state.
LEMMA CandleInvHolds == CandlesSpec => []CandleInv
<1>1. CandlesInit => CandleInv
  BY CandlesStart
<1>2. CandleInv /\ [CandlesNext]_candleVars => CandleInv'
  BY CandleInvSteps
<1> QED
  BY <1>1, <1>2, PTL DEF CandlesSpec

\* A row's trades are those executed while it was open.
LEMMA DuringIs ==
    ASSUME NEW row
    PROVE  /\ During(row) = At(opened, done, row.OpenTime)
           /\ \A S : Amounts(S) = AmountOf(log, S)
  BY DEF During, At, Amounts, AmountOf

\* For any trades, whatever the clock does and however often the node restarts:
\* between any two writes of update_kline a reader of the frame sees one candle
\* of a minute at most, with its opening and closing price within its extremes,
\* and no more traded in it than was.
THEOREM CandleBoundsHolds == CandlesSpec => []CandleBounds
<1>1. ASSUME CandleInv
      PROVE  CandleBounds
  <2>1. /\ Frame(kline, opened, done, log)
        /\ Bounded(kline, opened, done, log, Pending(writing)) /\ Updating
        /\ done \in Nat
    BY <1>1 DEF CandleInv, CandleTypes, RowsBounded, Frame
  <2>2. ASSUME NEW r \in DOMAIN kline
        PROVE  /\ kline[r].Low <= kline[r].Open /\ kline[r].Open <= kline[r].High
               /\ kline[r].Low <= kline[r].Close /\ kline[r].Close <= kline[r].High
               /\ kline[r].Volume <= Amounts(During(kline[r]))
               /\ kline[r].NumberOfTrades <= Cardinality(During(kline[r]))
    <3>1. PICK row \in RowType : row = kline[r]
      BY <2>1 DEF Frame
    <3>2. PICK S : S = During(row) /\ S = At(opened, done, row.OpenTime)
      BY DuringIs
    <3>3. PICK p : p = PendingOf(kline, r, Pending(writing))
      OBVIOUS
    <3>4. Within(row, log, S, done, p)
      BY <2>1, <3>1, <3>2, <3>3 DEF Bounded
    <3>5. AmountOf(log, S) \in Nat /\ Cardinality(S) \in Nat
      <4>1. SomeTrades(log, S, done)
        BY <2>1, <3>2, AtTrades
      <4> QED
        BY <2>1, <4>1, TradesCount
    <3>6. p # {} => log[done].amount \in Nat
      <4>1. ASSUME p # {}
            PROVE  log[done].amount \in Nat
        <5>1. writing # <<>>
          BY <3>3, <4>1, NonePending DEF PendingOf
        <5>2. done > 0 /\ done <= Len(log) /\ log \in Seq(Trades)
          BY <2>1, <5>1 DEF Updating, Frame
        <5>3. log[done] \in Trades
          BY <2>1, <5>2
        <5> QED
          BY <5>3, TradesAssumption
      <4> QED
        BY <4>1
    <3>7. row.Volume \in Nat /\ row.NumberOfTrades \in Nat
      BY DEF RowType
    <3>8. row.Volume <= AmountOf(log, S) /\ row.NumberOfTrades <= Cardinality(S)
      BY <3>4, <3>5, <3>6, <3>7 DEF Within
    <3>9. /\ row.Low <= row.Open /\ row.Open <= row.High
          /\ row.Low <= row.Close /\ row.Close <= row.High
      BY <3>4 DEF Within
    <3> QED
      BY <3>1, <3>2, <3>8, <3>9, DuringIs
  <2>3. \A r, q \in DOMAIN kline : kline[q].OpenTime = kline[r].OpenTime => q = r
    BY <2>1 DEF Bounded
  <2> QED
    BY <2>2, <2>3 DEF CandleBounds
<1> QED
  BY <1>1, CandleInvHolds, PTL

\* For any trades and any number of restarts, as long as the clock was not set
\* back: between two updates there is one candle for each minute with a trade, in
\* order, and it has exactly the first price, the last, the extremes, the volume
\* and the count of the trades executed in that minute.
THEOREM CandlesTellHolds == CandlesSpec => []CandlesTell
<1>1. ASSUME CandleInv
      PROVE  CandlesTell
  <2> SUFFICES ASSUME setBacks = 0, writing = <<>>
               PROVE  /\ Increasing
                      /\ {kline[i].OpenTime : i \in DOMAIN kline} =
                             {opened[i] : i \in 1 .. done}
                      /\ \A k \in DOMAIN kline :
                            LET S == During(kline[k]) IN
                            kline[k] =
                              [OpenTime |-> kline[k].OpenTime,
                               Open |-> log[Min(S)].price,
                               Close |-> log[Max(S)].price,
                               High |-> Max({log[i].price : i \in S}),
                               Low |-> Min({log[i].price : i \in S}),
                               Volume |-> Amounts(S),
                               NumberOfTrades |-> Cardinality(S)]
    BY DEF CandlesTell
  <2>1. /\ Frame(kline, opened, done, log)
        /\ Exact(kline, opened, done, log, {})
    BY <1>1, NonePending DEF CandleInv, CandleTypes, RowsExact
  <2>2. Increasing
    BY <2>1 DEF Exact, Increasing
  <2>3. ASSUME NEW r \in DOMAIN kline
        PROVE  Told(kline[r], log, During(kline[r]), done, {})
    BY <2>1, DuringIs DEF Exact, PendingOf
  <2>4. \A r \in DOMAIN kline : \E i \in 1 .. done : opened[i] = kline[r].OpenTime
    <3>1. ASSUME NEW r \in DOMAIN kline
          PROVE  \E i \in 1 .. done : opened[i] = kline[r].OpenTime
      <4>1. PICK i : i \in During(kline[r])
        BY <2>3 DEF Told
      <4> QED
        BY <4>1 DEF During
    <3> QED
      BY <3>1
  <2>5. {kline[i].OpenTime : i \in DOMAIN kline} = {opened[i] : i \in 1 .. done}
    BY <2>1, <2>4 DEF Exact
  <2>6. ASSUME NEW r \in DOMAIN kline, NEW S, S = During(kline[r])
        PROVE  kline[r] = [OpenTime |-> kline[r].OpenTime,
                           Open |-> log[Min(S)].price, Close |-> log[Max(S)].price,
                           High |-> Max({log[i].price : i \in S}),
                           Low |-> Min({log[i].price : i \in S}),
                           Volume |-> Amounts(S), NumberOfTrades |-> Cardinality(S)]
    <3>1. PICK row \in RowType : row = kline[r]
      BY <2>1 DEF Frame
    <3>2. /\ row.Open = log[Min(S)].price /\ row.High = Max(Prices(log, S))
          /\ row.Low = Min(Prices(log, S)) /\ row.Close = log[Max(S)].price
          /\ row.Volume = Amounts(S) /\ row.NumberOfTrades = Cardinality(S)
      BY <2>3, <2>6, <3>1, DuringIs DEF Told, Of
    <3>3. row = [OpenTime |-> row.OpenTime, Open |-> row.Open, High |-> row.High,
                 Low |-> row.Low, Close |-> row.Close, Volume |-> row.Volume,
                 NumberOfTrades |-> row.NumberOfTrades]
      BY DEF RowType
    <3> QED
      BY <3>1, <3>2, <3>3 DEF Prices
  <2> QED
    BY <2>2, <2>5, <2>6
<1> QED
  BY <1>1, CandleInvHolds, PTL

-----------------------------------------------------------------------------
(* Pages *)

\* Candles open at whole minutes.
WholeMinutes(op, d) == \A i \in 1 .. d : \E h \in Nat : op[i] = 60000 * h

Minutes == WholeMinutes(opened, done) /\ WholeMinutes(saved.opened, saved.done)

\* What OpenTime rounds to.
LEMMA WholeMinute ==
    ASSUME NEW c \in Nat
    PROVE  \E h \in Nat : c - (c % 60) = 60 * h
<1>1. /\ c \div 60 \in Int /\ c = 60 * (c \div 60) + (c % 60) /\ c % 60 \in 0 .. 59
  OBVIOUS
<1>2. c \div 60 \in Nat /\ c - (c % 60) = 60 * (c \div 60)
  BY <1>1
<1> QED
  BY <1>2

\* Every candle opens at a whole minute.
LEMMA MinutesHold == CandlesSpec => []Minutes
<1>1. CandlesInit => Minutes
  BY DEF CandlesInit, State, Minutes, WholeMinutes
<1>2. ASSUME CandleInv, Minutes, [CandlesNext]_candleVars
      PROVE  Minutes'
  <2>1. /\ opened \in Seq(Nat) /\ Len(opened) = done /\ done \in Nat
        /\ clock \in Nat
    BY <1>2 DEF CandleInv, CandleTypes, Frame
  <2>2. ASSUME NEW tr \in Trades, ExecuteTrade(tr)
        PROVE  Minutes'
    <3>1. /\ done' = done + 1 /\ opened' = Append(opened, OpenTime(clock))
          /\ saved' = saved
      BY <2>2 DEF ExecuteTrade
    <3>2. \E h \in Nat : OpenTime(clock) = 60000 * h
      <4>1. PICK h \in Nat : clock - (clock % 60) = 60 * h
        BY <2>1, WholeMinute
      <4>2. OpenTime(clock) = 60000 * h
        BY <4>1 DEF OpenTime
      <4> QED
        BY <4>2
    <3>3. /\ opened'[done + 1] = OpenTime(clock)
          /\ \A i \in 1 .. done : opened'[i] = opened[i]
      BY <2>1, <3>1
    <3>4. WholeMinutes(opened', done')
      <4>1. \A i \in 1 .. done + 1 : i \in 1 .. done \/ i = done + 1
        BY <2>1
      <4>2. \A i \in 1 .. done : \E h \in Nat : opened[i] = 60000 * h
        BY <1>2 DEF Minutes, WholeMinutes
      <4>3. \A i \in 1 .. done + 1 : \E h \in Nat : opened'[i] = 60000 * h
        BY <3>2, <3>3, <4>1, <4>2
      <4>4. WholeMinutes(opened', done + 1)
        BY <4>3 DEF WholeMinutes
      <4> QED
        BY <3>1, <4>4
    <3> QED
      BY <1>2, <3>1, <3>4 DEF Minutes
  <2>3. CASE UNCHANGED <<opened, done, saved>>
    BY <1>2, <2>3 DEF Minutes
  <2>4. CASE SaveState
    BY <1>2, <2>4 DEF SaveState, State, Minutes, WholeMinutes
  <2>5. CASE Restart
    BY <1>2, <2>5 DEF Restart, Minutes, WholeMinutes
  <2>6. CASE UNCHANGED candleVars
    BY <2>3, <2>6 DEF candleVars
  <2>7. CASE WriteColumn
    BY <2>3, <2>7 DEF WriteColumn
  <2>8. ASSUME NEW n \in Seconds, TimePasses(n) \/ SetBack(n)
        PROVE  Minutes'
    BY <2>3, <2>8 DEF TimePasses, SetBack
  <2> QED
    BY <1>2, <2>2, <2>4, <2>5, <2>6, <2>7, <2>8 DEF CandlesNext
<1> QED
  BY <1>1, <1>2, CandleInvHolds, PTL DEF CandlesSpec

\* How many places there are from a to b.
LEMMA Places ==
    ASSUME NEW a \in Int, NEW b \in Int, a <= b + 1
    PROVE  Cardinality(a .. b) = b - a + 1
<1>1. CASE a <= b
  BY <1>1, FS_Interval
<1>2. CASE a = b + 1
  <2>1. a .. b = {}
    BY <1>2
  <2> QED
    BY <1>2, <2>1, FS_EmptySet
<1> QED
  BY <1>1, <1>2

\* The rows from one place to another are a part of the frame.
LEMMA RowsOfInterval ==
    ASSUME kline \in Seq(RowType), NEW a \in Nat \ {0}, NEW b \in Nat,
           a <= b + 1, b <= Len(kline)
    PROVE  RowsAt(a .. b) = SubSeq(kline, a, b)
<1>1. Cardinality(a .. b) = b - a + 1
  BY Places
<1>2. ASSUME NEW n \in 1 .. b - a + 1
      PROVE  NthOf(a .. b, n) = a + n - 1
  <2>1. ASSUME NEW i \in a .. b
        PROVE  Cardinality({j \in a .. b : j <= i}) = i - a + 1
    <3>1. {j \in a .. b : j <= i} = a .. i
      OBVIOUS
    <3>2. Cardinality(a .. i) = i - a + 1
      BY Places
    <3> QED
      BY <3>1, <3>2
  <2>2. /\ a + n - 1 \in a .. b
        /\ Cardinality({j \in a .. b : j <= a + n - 1}) = n
    <3>1. PICK m : m = a + n - 1
      OBVIOUS
    <3>2. m \in a .. b /\ m - a + 1 = n
      BY <3>1
    <3>3. Cardinality({j \in a .. b : j <= m}) = n
      BY <2>1, <3>2
    <3> QED
      BY <3>1, <3>2, <3>3
  <2>3. \A i \in a .. b :
            Cardinality({j \in a .. b : j <= i}) = n => i = a + n - 1
    <3>1. ASSUME NEW i \in a .. b
          PROVE  Cardinality({j \in a .. b : j <= i}) = n => i = a + n - 1
      <4>1. Cardinality({j \in a .. b : j <= i}) = i - a + 1
        BY <2>1
      <4> QED
        BY <4>1
    <3> QED
      BY <3>1
  <2> QED
    BY <2>2, <2>3 DEF NthOf
<1>3. RowsAt(a .. b) = [n \in 1 .. b - a + 1 |-> kline[a + n - 1]]
  BY <1>1, <1>2 DEF RowsAt
<1>4. SubSeq(kline, a, b) = [n \in 1 .. b - a + 1 |-> kline[a + n - 1]]
  OBVIOUS
<1> QED
  BY <1>3, <1>4

\* The places of a page: the rows from start to end, and the last of them.
PlacesIn(start, end) ==
    {i \in DOMAIN kline : /\ start <= kline[i].OpenTime
                          /\ end >= CloseTime(kline[i])}

LastOf(P, limit) == {i \in P : Cardinality({j \in P : j >= i}) <= limit}

FirstOf(b, limit) == IF b + 1 - limit <= 1 THEN 1 ELSE b + 1 - limit

\* A page is made of those rows.
LEMMA KlinesIs ==
    ASSUME kline # <<>>, NEW limit \in Nat \ {0}, NEW endTime \in Int
    PROVE  Klines(0, endTime, limit) =
               RowsAt(LastOf(PlacesIn(kline[1].OpenTime,
                                      IF endTime = 0 THEN CloseTime(LastRow)
                                                     ELSE endTime), limit))
  BY DEF Klines, PlacesIn, LastOf

\* The last of the first b places.
LEMMA LastPlaces ==
    ASSUME NEW b \in Nat, NEW limit \in Nat \ {0}
    PROVE  /\ LastOf(1 .. b, limit) = FirstOf(b, limit) .. b
           /\ FirstOf(b, limit) \in 1 .. b + 1
           /\ b > 0 => FirstOf(b, limit) \in 1 .. b
<1>1. ASSUME NEW i \in 1 .. b
      PROVE  Cardinality({j \in 1 .. b : j >= i}) = b - i + 1
  <2>1. {j \in 1 .. b : j >= i} = i .. b
    OBVIOUS
  <2>2. Cardinality(i .. b) = b - i + 1
    BY Places
  <2> QED
    BY <2>1, <2>2
<1>2. FirstOf(b, limit) \in 1 .. b + 1 /\ (b > 0 => FirstOf(b, limit) \in 1 .. b)
  BY DEF FirstOf
<1>3. \A i : i \in LastOf(1 .. b, limit) <=> i \in 1 .. b /\ b - i + 1 <= limit
  BY <1>1 DEF LastOf
<1>4. \A i : i \in FirstOf(b, limit) .. b <=> i \in 1 .. b /\ b - i + 1 <= limit
  BY DEF FirstOf
<1> QED
  BY <1>2, <1>3, <1>4

\* The page of the first b rows.
LEMMA PageOf ==
    ASSUME kline # <<>>, kline \in Seq(RowType), NEW limit \in Nat \ {0},
           NEW endTime \in Int, NEW b \in Nat, b <= Len(kline),
           PlacesIn(kline[1].OpenTime, IF endTime = 0 THEN CloseTime(LastRow)
                                                      ELSE endTime) = 1 .. b
    PROVE  Klines(0, endTime, limit) = SubSeq(kline, FirstOf(b, limit), b)
<1>1. Klines(0, endTime, limit) = RowsAt(LastOf(1 .. b, limit))
  BY KlinesIs
<1>2. /\ LastOf(1 .. b, limit) = FirstOf(b, limit) .. b
      /\ FirstOf(b, limit) \in 1 .. b + 1
  BY LastPlaces
<1>3. PICK a \in Nat \ {0} : a = FirstOf(b, limit) /\ a <= b + 1
  BY <1>2
<1>4. RowsAt(a .. b) = SubSeq(kline, a, b)
  BY <1>3, RowsOfInterval
<1> QED
  BY <1>1, <1>2, <1>3, <1>4

\* A later candle opens after the earlier one has closed.
LEMMA ClosedBefore ==
    ASSUME CandleInv, Minutes, setBacks = 0, NEW i \in DOMAIN kline,
           NEW j \in DOMAIN kline
    PROVE  /\ kline[i].OpenTime \in Nat /\ kline[i].OpenTime # 1
           /\ i < j => CloseTime(kline[i]) <= kline[j].OpenTime - 1
<1>1. Exact(kline, opened, done, log, Pending(writing))
  BY DEF CandleInv, RowsExact
<1>2. ASSUME NEW r \in DOMAIN kline
      PROVE  \E h \in Nat : kline[r].OpenTime = 60000 * h
  <2>1. PICK x \in 1 .. done : opened[x] = kline[r].OpenTime
    BY <1>1 DEF Exact, Told, At
  <2> QED
    BY <2>1 DEF Minutes, WholeMinutes
<1>3. PICK hi \in Nat : kline[i].OpenTime = 60000 * hi
  BY <1>2
<1>4. PICK hj \in Nat : kline[j].OpenTime = 60000 * hj
  BY <1>2
<1>5. i < j => kline[i].OpenTime < kline[j].OpenTime
  BY <1>1 DEF Exact
<1>6. ASSUME i < j
      PROVE  CloseTime(kline[i]) <= kline[j].OpenTime - 1
  BY <1>3, <1>4, <1>5, <1>6 DEF CloseTime
<1>7. kline[i].OpenTime \in Nat /\ kline[i].OpenTime # 1
  BY <1>3
<1> QED
  BY <1>6, <1>7

\* Two parts that meet are one.
LEMMA PartsMeet ==
    ASSUME NEW T, NEW s \in Seq(T), NEW n \in Nat, n <= Len(s),
           NEW b \in 0 .. n, NEW c \in 1 .. b + 1
    PROVE  SubSeq(s, c, b) \o SubSeq(s, b + 1, n) = SubSeq(s, c, n)
<1>1. PICK p : p = SubSeq(s, c, b)
  OBVIOUS
<1>2. PICK q : q = SubSeq(s, b + 1, n)
  OBVIOUS
<1>3. PICK r : r = SubSeq(s, c, n)
  OBVIOUS
<1>4. /\ p \in Seq(T) /\ Len(p) = b - c + 1
      /\ \A i \in 1 .. b - c + 1 : p[i] = s[c + i - 1]
  BY <1>1
<1>5. /\ q \in Seq(T) /\ Len(q) = n - b
      /\ \A i \in 1 .. n - b : q[i] = s[b + i]
  BY <1>2
<1>6. /\ r \in Seq(T) /\ Len(r) = n - c + 1
      /\ \A i \in 1 .. n - c + 1 : r[i] = s[c + i - 1]
  BY <1>3
<1>7. p \o q \in Seq(T) /\ Len(p \o q) = Len(r)
  BY <1>4, <1>5, <1>6
<1>8. ASSUME NEW i \in 1 .. Len(r)
      PROVE  (p \o q)[i] = r[i]
  <2>1. CASE i <= b - c + 1
    BY <1>4, <1>5, <1>6, <2>1
  <2>2. CASE i > b - c + 1
    <3>1. (p \o q)[i] = q[i - (b - c + 1)]
      <4>1. i \in Int /\ i <= Len(p) + Len(q) /\ i > Len(p) /\ 1 <= i
        BY <1>4, <1>5, <1>6, <2>2
      <4>2. p \in Seq(T) /\ q \in Seq(T)
        BY <1>4, <1>5
      <4>3. (p \o q)[i] = q[i - Len(p)]
        BY <4>1, <4>2
      <4> QED
        BY <1>4, <4>3
    <3>2. i - (b - c + 1) \in 1 .. n - b
      BY <1>6, <2>2
    <3>3. q[i - (b - c + 1)] = s[b + (i - (b - c + 1))]
      BY <1>5, <3>2
    <3>4. b + (i - (b - c + 1)) = c + i - 1
      BY <1>6
    <3> QED
      BY <1>6, <3>1, <3>3, <3>4
  <2>3. i <= b - c + 1 \/ i > b - c + 1
    BY <1>6
  <2> QED
    BY <2>1, <2>2, <2>3
<1>9. p \o q = r
  BY <1>6, <1>7, <1>8, SeqEqual
<1> QED
  BY <1>1, <1>2, <1>3, <1>9

\* For any trades, any number of restarts and any size of the pages, as long as the
\* clock was not set back: the newest page of the klines route and the page that
\* ends just before its first candle are the last candles of the frame, each once.
THEOREM PagesMeetHolds == CandlesSpec => []PagesMeet
<1>1. ASSUME CandleInv, Minutes
      PROVE  PagesMeet
  <2> SUFFICES ASSUME setBacks = 0, kline # <<>>, NEW limit \in 1 .. MaxLog,
                      NEW page, page = Klines(0, 0, limit),
                      NEW older, older = Klines(0, page[1].OpenTime - 1, limit)
               PROVE  older \o page =
                          SubSeq(kline, Max({1, Len(kline) + 1 - 2 * limit}),
                                 Len(kline))
    BY DEF PagesMeet
  <2>1. kline \in Seq(RowType)
    BY <1>1 DEF CandleInv, CandleTypes, Frame
  <2>2. PICK n \in Nat \ {0} : n = Len(kline) /\ DOMAIN kline = 1 .. n
    BY <2>1
  <2>3. limit \in Nat \ {0}
    BY NumbersAssumption
  <2>4. /\ \A i \in 1 .. n : kline[i].OpenTime \in Nat /\ kline[i].OpenTime # 1
        /\ \A i, j \in 1 .. n : i < j => CloseTime(kline[i]) <= kline[j].OpenTime - 1
    BY <1>1, <2>2, ClosedBefore
  <2>5. \A i, j \in 1 .. n : i <= j => /\ kline[i].OpenTime <= kline[j].OpenTime
                                       /\ CloseTime(kline[i]) <= CloseTime(kline[j])
    <3>1. ASSUME NEW i \in 1 .. n, NEW j \in 1 .. n, i <= j
          PROVE  kline[i].OpenTime <= kline[j].OpenTime
      <4>1. /\ kline[i].OpenTime \in Nat /\ kline[j].OpenTime \in Nat
            /\ CloseTime(kline[i]) = kline[i].OpenTime + 59999
        BY <2>4 DEF CloseTime
      <4>2. CASE i = j
        BY <4>1, <4>2
      <4>3. CASE i < j
        <5>1. CloseTime(kline[i]) <= kline[j].OpenTime - 1
          BY <2>4, <4>3
        <5> QED
          BY <4>1, <5>1
      <4> QED
        BY <3>1, <4>2, <4>3
    <3> QED
      BY <2>4, <3>1 DEF CloseTime
  <2>6. PlacesIn(kline[1].OpenTime, CloseTime(LastRow)) = 1 .. n
    BY <2>2, <2>5 DEF PlacesIn, LastRow
  <2>7. PICK a \in 1 .. n : a = FirstOf(n, limit)
    BY <2>2, <2>3, LastPlaces
  <2>8. page = SubSeq(kline, a, n)
    <3>1. PlacesIn(kline[1].OpenTime, IF 0 = 0 THEN CloseTime(LastRow) ELSE 0) = 1 .. n
      BY <2>6
    <3> QED
      BY <2>1, <2>2, <2>3, <2>7, <3>1, PageOf
  <2>9. page[1] = kline[a]
    BY <2>1, <2>2, <2>7, <2>8
  <2>10. PICK e \in Int : e = kline[a].OpenTime - 1 /\ e # 0
    BY <2>4
  <2>11. PlacesIn(kline[1].OpenTime, e) = 1 .. a - 1
    <3>1. ASSUME NEW i \in 1 .. n
          PROVE  e >= CloseTime(kline[i]) <=> i < a
      <4>1. CASE i < a
        BY <2>4, <2>10, <4>1 DEF CloseTime
      <4>2. CASE ~ (i < a)
        <5>1. kline[a].OpenTime <= kline[i].OpenTime
          BY <2>5, <4>2
        <5>2. /\ kline[a].OpenTime \in Nat /\ kline[i].OpenTime \in Nat
              /\ CloseTime(kline[i]) = kline[i].OpenTime + 59999
          BY <2>4 DEF CloseTime
        <5>3. ~ (e >= CloseTime(kline[i]))
          BY <2>10, <5>1, <5>2
        <5> QED
          BY <4>2, <5>3
      <4> QED
        BY <4>1, <4>2
    <3>2. \A i \in 1 .. n : kline[1].OpenTime <= kline[i].OpenTime
      BY <2>5
    <3>3. \A i : i \in PlacesIn(kline[1].OpenTime, e) <=> i \in 1 .. n /\ i < a
      BY <2>2, <3>1, <3>2 DEF PlacesIn
    <3>4. \A i : i \in 1 .. a - 1 <=> i \in 1 .. n /\ i < a
      OBVIOUS
    <3> QED
      BY <3>3, <3>4
  <2>12. PICK b \in Nat : b = a - 1 /\ b <= n
    OBVIOUS
  <2>13. PICK c \in 1 .. b + 1 : c = FirstOf(b, limit)
    BY <2>3, LastPlaces
  <2>14. older = SubSeq(kline, c, b)
    <3>1. PlacesIn(kline[1].OpenTime, IF e = 0 THEN CloseTime(LastRow) ELSE e) = 1 .. b
      BY <2>10, <2>11, <2>12
    <3>2. Klines(0, e, limit) = SubSeq(kline, c, b)
      BY <2>1, <2>2, <2>3, <2>12, <2>13, <3>1, PageOf
    <3> QED
      BY <2>9, <2>10, <3>2
  <2>15. older \o page = SubSeq(kline, c, n)
    <3>1. n <= Len(kline) /\ b \in 0 .. n /\ b + 1 = a
      BY <2>2, <2>12
    <3>2. SubSeq(kline, c, b) \o SubSeq(kline, b + 1, n) = SubSeq(kline, c, n)
      BY <2>1, <3>1, PartsMeet
    <3> QED
      BY <2>8, <2>14, <3>1, <3>2
  <2>16. c = Max({1, n + 1 - 2 * limit})
    <3>1. c = IF n + 1 - 2 * limit <= 1 THEN 1 ELSE n + 1 - 2 * limit
      BY <2>3, <2>7, <2>12, <2>13 DEF FirstOf
    <3>2. PICK x \in Int : x = n + 1 - 2 * limit
      BY <2>3
    <3>3. PICK t : t = {1, x}
      OBVIOUS
    <3>4. Max(t) = LargerOf(1, x)
      BY <3>3, MaxMinOfTwo
    <3>5. LargerOf(1, x) = IF x <= 1 THEN 1 ELSE x
      BY DEF LargerOf
    <3> QED
      BY <3>1, <3>2, <3>3, <3>4, <3>5
  <2> QED
    BY <2>2, <2>15, <2>16
<1> QED
  BY <1>1, CandleInvHolds, MinutesHold, PTL

-----------------------------------------------------------------------------
(* The statistics of the day *)

\* The volume of two sets of trades.
LEMMA AmountUnion ==
    ASSUME NEW lg, NEW n \in Nat, NEW S, SomeTrades(lg, S, n),
           NEW T, SomeTrades(lg, T, n), S \cap T = {}
    PROVE  /\ SomeTrades(lg, S \cup T, n)
           /\ AmountOf(lg, S \cup T) = AmountOf(lg, S) + AmountOf(lg, T)
<1>1. SomeTrades(lg, S \cup T, n)
  BY DEF SomeTrades
<1>2. /\ IsFiniteSet(S) /\ \A i \in S : lg[i].amount \in Nat
      /\ IsFiniteSet(T) /\ \A i \in T : lg[i].amount \in Nat
  BY TradesCount
<1>3. PICK f : f = [i \in S |-> lg[i].amount]
  OBVIOUS
<1>4. PICK g : g = [i \in T |-> lg[i].amount]
  OBVIOUS
<1>5. PICK h : h = [i \in S \cup T |-> lg[i].amount]
  OBVIOUS
<1>6. IsIntegral(f, S) /\ IsIntegral(g, T) /\ IsIntegral(h, S) /\ IsIntegral(h, T)
  BY <1>2, <1>3, <1>4, <1>5 DEF IsIntegral
<1>7. SumFunctionOnSet(h, S \cup T) = SumFunctionOnSet(h, S) + SumFunctionOnSet(h, T)
  BY <1>2, <1>6, SumUnion
<1>8. SumFunctionOnSet(h, S) = SumFunctionOnSet(f, S)
  <2>1. \A x \in S : h[x] = f[x]
    BY <1>3, <1>5
  <2> QED
    BY <1>2, <1>6, <2>1, SumAgree
<1>9. SumFunctionOnSet(h, T) = SumFunctionOnSet(g, T)
  <2>1. \A x \in T : h[x] = g[x]
    BY <1>4, <1>5
  <2> QED
    BY <1>2, <1>6, <2>1, SumAgree
<1> QED
  BY <1>1, <1>3, <1>4, <1>5, <1>7, <1>8, <1>9 DEF AmountOf

\* The trades executed while one of some rows was open.
InRows(k, op, d, R) == {i \in 1 .. d : \E r \in R : op[i] = k[r].OpenTime}

\* The volumes of some rows are those of their trades.
LEMMA VolumesAre ==
    ASSUME NEW k, NEW op, NEW d, NEW lg, Frame(k, op, d, lg),
           Exact(k, op, d, lg, {}), NEW R, R \subseteq DOMAIN k
    PROVE  SumFunctionOnSet([r \in R |-> k[r].Volume], R) =
               AmountOf(lg, InRows(k, op, d, R))
<1>1. PICK f : f = [r \in R |-> k[r].Volume]
  OBVIOUS
<1>2. /\ k \in Seq(RowType) /\ d \in Nat /\ IsFiniteSet(R)
      /\ \A r \in R : k[r] \in RowType /\ k[r].Volume \in Nat /\ f[r] = k[r].Volume
  <2>1. k \in Seq(RowType) /\ d \in Nat
    BY DEF Frame
  <2>2. IsFiniteSet(1 .. Len(k)) /\ DOMAIN k = 1 .. Len(k)
    BY <2>1, FS_Interval
  <2>3. IsFiniteSet(R)
    BY <2>2, FS_Subset
  <2>4. \A r \in R : k[r] \in RowType
    BY <2>1
  <2>5. \A r \in R : k[r].Volume \in Nat
    BY <2>4 DEF RowType
  <2> QED
    BY <1>1, <2>1, <2>3, <2>4, <2>5
<1> DEFINE B == {t \in SUBSET R : SumFunctionOnSet(f, t) =
                                      AmountOf(lg, InRows(k, op, d, t))}
<1>3. \A t : SomeTrades(lg, InRows(k, op, d, t), d)
  BY DEF Frame, SomeTrades, InRows
<1>4. {} \in B
  <2>1. InRows(k, op, d, {}) = {}
    BY DEF InRows
  <2>2. AmountOf(lg, {}) = 0
    BY SumEmpty DEF AmountOf
  <2> QED
    BY <2>1, <2>2, SumEmpty
<1>5. ASSUME NEW t \in SUBSET R, NEW x \in R, t \in B, x \notin t
      PROVE  t \cup {x} \in B
  <2>1. PICK S : S = At(op, d, k[x].OpenTime)
    OBVIOUS
  <2>2. PICK T : T = InRows(k, op, d, t)
    OBVIOUS
  <2>3. k[x].Volume = AmountOf(lg, S)
    BY <2>1 DEF Exact, Told, Of, PendingOf
  <2>4. \A y \in t : k[y].OpenTime # k[x].OpenTime
    <3>1. ASSUME NEW y \in t
          PROVE  k[y].OpenTime # k[x].OpenTime
      <4>1. y \in Nat /\ x \in Nat /\ y # x /\ y \in DOMAIN k /\ x \in DOMAIN k
        BY <1>2, <1>5
      <4>2. k[y].OpenTime \in Nat /\ k[x].OpenTime \in Nat
        BY <1>2 DEF RowType
      <4>3. y < x => k[y].OpenTime < k[x].OpenTime
        BY <4>1 DEF Exact
      <4>4. x < y => k[x].OpenTime < k[y].OpenTime
        BY <4>1 DEF Exact
      <4> QED
        BY <4>1, <4>2, <4>3, <4>4
    <3> QED
      BY <3>1
  <2>5. InRows(k, op, d, t \cup {x}) = T \cup S /\ T \cap S = {}
    BY <2>1, <2>2, <2>4 DEF InRows, At
  <2>6. SomeTrades(lg, T, d) /\ SomeTrades(lg, S, d)
    BY <1>3, <2>1, <2>2, AtTrades
  <2>7. AmountOf(lg, T \cup S) = AmountOf(lg, T) + AmountOf(lg, S)
    <3>1. d \in Nat /\ T \cap S = {} /\ SomeTrades(lg, T, d) /\ SomeTrades(lg, S, d)
      BY <1>2, <2>5, <2>6
    <3> QED
      BY <3>1, AmountUnion
  <2>8. SumFunctionOnSet(f, t \cup {x}) = SumFunctionOnSet(f, t) + f[x]
    <3>1. IsFiniteSet(t)
      BY <1>2, FS_Subset
    <3>2. IsIntegral(f, t) /\ f[x] \in Int
      BY <1>2 DEF IsIntegral
    <3> QED
      BY <1>5, <3>1, <3>2, SumAdd
  <2>9. SumFunctionOnSet(f, t) = AmountOf(lg, T)
    BY <1>5, <2>2
  <2> QED
    BY <1>2, <2>3, <2>5, <2>7, <2>8, <2>9
<1> HIDE DEF B
<1>6. R \in B
  BY <1>2, <1>4, <1>5, SubsetInduction
<1> QED
  BY <1>1, <1>6 DEF B

\* The row p is the one where the day begins: it is the first one counted, all
\* the later ones opened within the day, and no earlier one did.
DayBegins(p) ==
    LET n == Len(kline)  edge == LastRow.OpenTime - Day IN
    /\ p \in 1 .. n /\ DayRows = p .. n
    /\ \A r \in 1 .. n : kline[r].OpenTime >= edge => r >= p
    /\ \A r \in 1 .. n : r > p => kline[r].OpenTime >= edge
    /\ Change24h = LastPrice - kline[p].Open
    /\ p = 1 => Change24hPercent = Share(kline[1])

\* There is such a row.
LEMMA DayHasBegin ==
    ASSUME kline \in Seq(RowType), kline # <<>>,
           \A r, q \in DOMAIN kline : r < q => kline[r].OpenTime < kline[q].OpenTime
    PROVE  \E p : DayBegins(p)
<1>1. PICK n \in Nat \ {0} : n = Len(kline) /\ DOMAIN kline = 1 .. n
  OBVIOUS
<1>2. \A r \in 1 .. n : kline[r] \in RowType /\ kline[r].OpenTime \in Nat
  <2>1. \A r \in 1 .. n : kline[r] \in RowType
    BY <1>1
  <2> QED
    BY <2>1 DEF RowType
<1>3. PICK edge \in Int : edge = LastRow.OpenTime - Day
  BY <1>1, <1>2, NumbersAssumption DEF LastRow
<1>4. \A r, q \in 1 .. n : r < q => kline[r].OpenTime < kline[q].OpenTime
  BY <1>1
<1>5. /\ Span > Day <=> kline[1].OpenTime < edge
      /\ Span >= Day <=> kline[1].OpenTime <= edge
  <2>1. PICK x \in Nat : x = kline[1].OpenTime
    BY <1>1, <1>2
  <2>2. PICK y \in Nat : y = LastRow.OpenTime
    BY <1>1, <1>2 DEF LastRow
  <2>3. Span = y - x /\ edge = y - Day /\ Day \in Nat
    BY <1>3, <2>1, <2>2, NumbersAssumption DEF Span
  <2> QED
    BY <2>1, <2>3
<1>6. PICK P : P = {i \in 1 .. n : kline[i].OpenTime <= edge}
  OBVIOUS
<1>7. PadIndex = Max(P)
  BY <1>1, <1>3, <1>6 DEF PadIndex
<1>8. CASE Span > Day
  <2>1. 1 \in P /\ P # {} /\ P \subseteq Int
    <3>1. 1 \in 1 .. n /\ kline[1].OpenTime <= edge
      BY <1>2, <1>5, <1>8
    <3> QED
      BY <1>6, <3>1
  <2>2. IsFiniteSet(P)
    <3>1. IsFiniteSet(1 .. n) /\ P \subseteq 1 .. n
      BY <1>6, FS_Interval
    <3> QED
      BY <3>1, FS_Subset
  <2>3. PICK p \in P : p = PadIndex /\ \A i \in P : i <= p
    BY <1>7, <2>1, <2>2, MaxMin
  <2>4. p \in 1 .. n /\ kline[p].OpenTime <= edge
    BY <1>6, <2>3
  <2>5. DayRows = p .. n
    BY <1>1, <1>8, <2>3 DEF DayRows
  <2>6. ASSUME NEW r \in 1 .. n
        PROVE  /\ kline[r].OpenTime >= edge => r >= p
               /\ r > p => kline[r].OpenTime >= edge
    <3>1. r < p => kline[r].OpenTime < kline[p].OpenTime
      BY <1>4, <2>4
    <3>2. r > p => r \notin P
      BY <2>3, <2>4
    <3>3. r \in P <=> kline[r].OpenTime <= edge
      BY <1>6
    <3> QED
      BY <1>2, <2>4, <3>1, <3>2, <3>3
  <2>7. Change24h = LastPrice - kline[p].Open
    BY <1>2, <1>5, <1>8, <2>3 DEF Change24h
  <2>8. p = 1 => Change24hPercent = Share(kline[1])
    <3>1. ASSUME p = 1
          PROVE  Change24hPercent = Share(kline[1])
      <4>1. PadIndex - 1 = 0
        BY <2>3, <3>1
      <4> QED
        BY <4>1 DEF Change24hPercent, FromEnd
    <3> QED
      BY <3>1
  <2>9. DayBegins(p)
    BY <1>1, <1>3, <2>4, <2>5, <2>6, <2>7, <2>8 DEF DayBegins
  <2> QED
    BY <2>9
<1>9. CASE ~ (Span > Day)
  <2>1. kline[1].OpenTime >= edge
    BY <1>2, <1>3, <1>5, <1>9
  <2>2. DayRows = 1 .. n
    BY <1>1, <1>9 DEF DayRows
  <2>3. \A r \in 1 .. n : kline[r].OpenTime >= edge
    <3>1. ASSUME NEW r \in 1 .. n
          PROVE  kline[r].OpenTime >= edge
      <4>1. r = 1 \/ kline[1].OpenTime < kline[r].OpenTime
        BY <1>4
      <4> QED
        BY <1>2, <2>1, <4>1
    <3> QED
      BY <3>1
  <2>4. Span >= Day => PadIndex = 1
    <3>1. ASSUME Span >= Day
          PROVE  PadIndex = 1
      <4>1. kline[1].OpenTime = edge
        BY <1>2, <1>5, <2>1, <3>1
      <4>2. \A i \in 1 .. n : i # 1 => kline[i].OpenTime > edge
        BY <1>2, <1>4, <4>1
      <4>3. P \subseteq Int /\ 1 \in P /\ \A i \in P : i <= 1
        BY <1>2, <1>6, <4>1, <4>2
      <4> QED
        BY <1>7, <4>3, MaxMinIs
    <3> QED
      BY <3>1
  <2>5. Change24h = LastPrice - kline[1].Open
    BY <2>4 DEF Change24h
  <2>6. Change24hPercent = Share(kline[1])
    <3>1. Span >= Day => PadIndex - 1 = 0
      BY <2>4
    <3> QED
      BY <3>1 DEF Change24hPercent, FromEnd
  <2>7. DayBegins(1)
    BY <1>1, <1>3, <2>2, <2>3, <2>5, <2>6 DEF DayBegins
  <2> QED
    BY <2>7
<1> QED
  BY <1>8, <1>9

\* For any trades, any length of the day and any number of restarts, as long as the
\* clock was not set back: the statistics of the day leave out no trade of the day
\* before the last candle, count one older candle at most, and the change is from
\* the opening price of the oldest candle that the volume counts.
THEOREM DayCoveredHolds == CandlesSpec => []DayCovered
<1>1. ASSUME CandleInv, setBacks = 0, writing = <<>>, kline # <<>>,
             NEW recent, recent = {i \in 1 .. done : opened[i] >= LastRow.OpenTime - Day},
             NEW older,
             older = {k \in DayRows : kline[k].OpenTime < LastRow.OpenTime - Day}
      PROVE  /\ Volume24h = Amounts(recent) +
                               SumFunctionOnSet([k \in older |-> kline[k].Volume],
                                                older)
             /\ Cardinality(older) <= 1
             /\ \A i \in recent : Low24h <= log[i].price /\ log[i].price <= High24h
             /\ Change24h = LastPrice - kline[Min(DayRows)].Open
             /\ Min(DayRows) = 1 => Change24hPercent = Share(kline[Min(DayRows)])
  <2>1. /\ Frame(kline, opened, done, log) /\ kline \in Seq(RowType)
        /\ done \in Nat /\ opened \in Seq(Nat)
        /\ Exact(kline, opened, done, log, {})
    BY <1>1, NonePending DEF CandleInv, CandleTypes, RowsExact, Frame
  <2>2. PICK n \in Nat \ {0} : n = Len(kline) /\ DOMAIN kline = 1 .. n
    BY <1>1, <2>1
  <2>3. /\ \A r, q \in 1 .. n : r < q => kline[r].OpenTime < kline[q].OpenTime
        /\ \A i \in 1 .. done : \E r \in 1 .. n : kline[r].OpenTime = opened[i]
    BY <2>1, <2>2 DEF Exact
  <2>4. \A r \in 1 .. n : /\ kline[r] \in RowType /\ kline[r].OpenTime \in Nat
                          /\ kline[r].Low \in Nat /\ kline[r].High \in Nat
                          /\ kline[r].Volume \in Nat
    <3>1. \A r \in 1 .. n : kline[r] \in RowType
      BY <2>1, <2>2
    <3> QED
      BY <3>1 DEF RowType
  <2>5. PICK p : DayBegins(p)
    BY <1>1, <2>1, <2>2, <2>3, DayHasBegin
  <2>6. PICK edge \in Int : edge = LastRow.OpenTime - Day
    BY <2>2, <2>4, NumbersAssumption DEF LastRow
  <2>7. /\ p \in 1 .. n /\ DayRows = p .. n
        /\ \A r \in 1 .. n : kline[r].OpenTime >= edge => r >= p
        /\ \A r \in 1 .. n : r > p => kline[r].OpenTime >= edge
        /\ Change24h = LastPrice - kline[p].Open
        /\ p = 1 => Change24hPercent = Share(kline[1])
    BY <2>2, <2>5, <2>6 DEF DayBegins
  <2>8. Min(DayRows) = p
    <3>1. p .. n \subseteq Int /\ p \in p .. n /\ \A y \in p .. n : p <= y
      BY <2>7
    <3> QED
      BY <2>7, <3>1, MaxMinIs
  <2>9. PICK R : R = {r \in p .. n : kline[r].OpenTime >= edge}
    OBVIOUS
  <2>10. /\ recent = InRows(kline, opened, done, R)
         /\ older = (p .. n) \ R /\ older \subseteq {p}
    <3>1. \A i : i \in recent <=> i \in 1 .. done /\ opened[i] >= edge
      BY <1>1, <2>6
    <3>2. ASSUME NEW i \in 1 .. done
          PROVE  opened[i] >= edge <=> \E r \in R : opened[i] = kline[r].OpenTime
      <4>1. PICK r \in 1 .. n : kline[r].OpenTime = opened[i]
        BY <2>3
      <4>2. opened[i] >= edge => r \in R
        BY <2>7, <2>9, <4>1
      <4> QED
        BY <2>9, <4>1, <4>2
    <3>3. recent = InRows(kline, opened, done, R)
      BY <3>1, <3>2 DEF InRows
    <3>4. \A r : r \in older <=> r \in p .. n /\ kline[r].OpenTime < edge
      BY <1>1, <2>6, <2>7
    <3>5. \A r \in p .. n : kline[r].OpenTime < edge <=> ~ (kline[r].OpenTime >= edge)
      BY <2>4, <2>7
    <3>6. older = (p .. n) \ R
      BY <2>9, <3>4, <3>5
    <3>7. \A r \in older : r = p
      <4>1. ASSUME NEW r \in older
            PROVE  r = p
        <5>1. r \in p .. n /\ ~ (kline[r].OpenTime >= edge) /\ r \in 1 .. n
          BY <2>7, <3>4, <3>5
        <5>2. ~ (r > p)
          BY <2>7, <5>1
        <5> QED
          BY <2>7, <5>1, <5>2
      <4> QED
        BY <4>1
    <3> QED
      BY <3>3, <3>6, <3>7
  <2>11. Volume24h = Amounts(recent) +
                        SumFunctionOnSet([k \in older |-> kline[k].Volume], older)
    <3>1. PICK f : f = [i \in p .. n |-> kline[i].Volume]
      OBVIOUS
    <3>2. PICK g : g = [k \in older |-> kline[k].Volume]
      OBVIOUS
    <3>3. PICK h : h = [r \in R |-> kline[r].Volume]
      OBVIOUS
    <3>4. IsFiniteSet(R) /\ IsFiniteSet(older) /\ R \cap older = {}
          /\ R \cup older = p .. n
      <4>1. IsFiniteSet(p .. n) /\ R \subseteq p .. n /\ older \subseteq p .. n
        BY <2>7, <2>9, <2>10, FS_Interval
      <4>2. IsFiniteSet(R) /\ IsFiniteSet(older)
        BY <4>1, FS_Subset
      <4> QED
        BY <2>9, <2>10, <4>1, <4>2
    <3>5. \A r \in p .. n : kline[r].Volume \in Nat
      BY <2>4, <2>7
    <3>6. /\ IsIntegral(f, R) /\ IsIntegral(f, older)
          /\ IsIntegral(g, older) /\ IsIntegral(h, R)
          /\ \A r \in R : f[r] = h[r]
          /\ \A r \in older : f[r] = g[r]
      BY <2>9, <2>10, <3>1, <3>2, <3>3, <3>5 DEF IsIntegral
    <3>7. SumFunctionOnSet(f, R \cup older) =
              SumFunctionOnSet(f, R) + SumFunctionOnSet(f, older)
      BY <3>4, <3>6, SumUnion
    <3>8. SumFunctionOnSet(f, R) = SumFunctionOnSet(h, R)
      BY <3>4, <3>6, SumAgree
    <3>9. SumFunctionOnSet(f, older) = SumFunctionOnSet(g, older)
      BY <3>4, <3>6, SumAgree
    <3>10. SumFunctionOnSet(h, R) = AmountOf(log, recent)
      <4>1. R \subseteq DOMAIN kline
        BY <2>2, <2>7, <2>9
      <4> QED
        BY <2>1, <2>10, <3>3, <4>1, VolumesAre
    <3>11. Volume24h = SumFunctionOnSet(f, p .. n)
      BY <2>7, <3>1 DEF Volume24h
    <3> QED
      BY <3>2, <3>4, <3>7, <3>8, <3>9, <3>10, <3>11, DuringIs
  <2>12. Cardinality(older) <= 1
    <3>1. IsFiniteSet({p}) /\ Cardinality({p}) = 1
      BY FS_Singleton
    <3> QED
      BY <2>10, <3>1, FS_Subset
  <2>13. ASSUME NEW i \in recent
         PROVE  Low24h <= log[i].price /\ log[i].price <= High24h
    <3>1. i \in 1 .. done
      BY <1>1
    <3>2. PICK r \in R : opened[i] = kline[r].OpenTime
      BY <2>10 DEF InRows
    <3>3. r \in p .. n /\ r \in 1 .. n /\ r \in DOMAIN kline
      BY <2>2, <2>7, <2>9
    <3>4. PICK S : S = At(opened, done, kline[r].OpenTime) /\ i \in S
      BY <3>1, <3>2 DEF At
    <3>5. kline[r].High = Max(Prices(log, S)) /\ kline[r].Low = Min(Prices(log, S))
      BY <2>1, <3>3, <3>4 DEF Exact, Told, Of, PendingOf
    <3>6. PICK q : q = Prices(log, S)
      OBVIOUS
    <3>7. /\ IsFiniteSet(q) /\ q \subseteq Int /\ log[i].price \in q /\ q # {}
      <4>1. SomeTrades(log, S, done)
        BY <2>1, <3>4, AtTrades
      <4>2. IsFiniteSet(q) /\ q \subseteq Nat
        BY <2>1, <3>6, <4>1, TradesCount
      <4>3. log[i].price \in q
        BY <3>4, <3>6 DEF Prices
      <4> QED
        BY <4>2, <4>3
    <3>8. Min(q) <= log[i].price /\ log[i].price <= Max(q)
      BY <3>7, MaxMin
    <3>9. PICK lows : lows = {kline[k].Low : k \in p .. n}
      OBVIOUS
    <3>10. PICK highs : highs = {kline[k].High : k \in p .. n}
      OBVIOUS
    <3>11. /\ IsFiniteSet(lows) /\ lows \subseteq Int /\ lows # {}
           /\ kline[r].Low \in lows
      <4>1. PICK f : f = [k \in p .. n |-> kline[k].Low]
        OBVIOUS
      <4>2. f \in Surjection(p .. n, lows)
        BY <3>9, <4>1 DEF Surjection
      <4>3. IsFiniteSet(lows)
        BY <2>7, <4>2, FS_Surjection, FS_Interval
      <4> QED
        BY <2>4, <2>7, <3>3, <3>9, <4>3
    <3>12. /\ IsFiniteSet(highs) /\ highs \subseteq Int /\ highs # {}
           /\ kline[r].High \in highs
      <4>1. PICK f : f = [k \in p .. n |-> kline[k].High]
        OBVIOUS
      <4>2. f \in Surjection(p .. n, highs)
        BY <3>10, <4>1 DEF Surjection
      <4>3. IsFiniteSet(highs)
        BY <2>7, <4>2, FS_Surjection, FS_Interval
      <4> QED
        BY <2>4, <2>7, <3>3, <3>10, <4>3
    <3>13. Min(lows) <= kline[r].Low /\ Min(lows) \in Int
      BY <3>11, MaxMin
    <3>14. kline[r].High <= Max(highs) /\ Max(highs) \in Int
      BY <3>12, MaxMin
    <3>15. Low24h = Min(lows) /\ High24h = Max(highs)
      BY <2>7, <3>9, <3>10 DEF Low24h, High24h
    <3>16. log[i].price \in Int
      BY <3>7
    <3> QED
      BY <2>4, <3>3, <3>5, <3>6, <3>8, <3>13, <3>14, <3>15, <3>16
  <2> QED
    BY <2>7, <2>8, <2>11, <2>12, <2>13
<1>2. ASSUME CandleInv
      PROVE  DayCovered
  BY <1>1, <1>2 DEF DayCovered
<1> QED
  BY <1>2, CandleInvHolds, PTL

-----------------------------------------------------------------------------
(* The trades of a user *)

\* The trades of a user among the first d, by the side he was on.
FillsTo(lg, d, u) == {f \in (1 .. d) \X Sides : lg[f[1]].user[f[2]] = u}

SomeFills(F, d) == F \subseteq (1 .. d) \X Sides

\* The list has some of these trades, each once; for every other there is a trade
\* no earlier in the log whose time left it too far behind.
Listing(L, lg, F, h) ==
    /\ h \in [1 .. Len(L) -> F]
    /\ \A i, j \in 1 .. Len(L) : h[i] = h[j] => i = j
    /\ \A j \in 1 .. Len(L) : L[j] = Entry(lg[h[j][1]], h[j][2])
    /\ \A f \in F : (\A j \in 1 .. Len(L) : h[j] # f) =>
          \E g \in F : g[1] >= f[1] /\ lg[g[1]].t - lg[f[1]].t > TRADES_TTL

EntryType == [t : Nat, amount : Nat, side : Sides, nonce : Nat]

\* The list spans no more than the time to live.
Short(L) == L # <<>> => L[Len(L)].t - L[1].t <= TRADES_TTL

Listed(L, lg, F) ==
    L \in Seq(EntryType) /\ Short(L) /\ \E h : Listing(L, lg, F, h)

\* An entry tells the trade's time, amount and order.
LEMMA EntryIs ==
    ASSUME NEW tr \in Trades, NEW s \in Sides
    PROVE  /\ Entry(tr, s) \in EntryType /\ Entry(tr, s).t = tr.t
           /\ Entry(tr, s).amount = tr.amount /\ Entry(tr, s).nonce = tr.nonce[s]
  BY TradesAssumption DEF Entry, EntryType, Sides

\* A list is cut in front, and never empty after a trade was added.
LEMMA PruneIs ==
    ASSUME NEW A \in Seq(EntryType), NEW t \in Nat, A # <<>>, A[Len(A)].t = t
    PROVE  \E m \in 1 .. Len(A) :
              /\ Prune(A, t) = SubSeq(A, m, Len(A))
              /\ t - A[m].t <= TRADES_TTL
              /\ \A i \in 1 .. m - 1 : t - A[i].t > TRADES_TTL
<1>1. PICK n \in Nat \ {0} : n = Len(A) /\ DOMAIN A = 1 .. n
  OBVIOUS
<1>2. \A i \in 1 .. n : A[i].t \in Nat
  <2>1. \A i \in 1 .. n : A[i] \in EntryType
    BY <1>1
  <2> QED
    BY <2>1 DEF EntryType
<1>3. PICK fresh : fresh = {i \in 1 .. n : t - A[i].t <= TRADES_TTL}
  OBVIOUS
<1>4. n \in fresh /\ fresh # {} /\ fresh \subseteq Int /\ IsFiniteSet(fresh)
  <2>1. t - A[n].t <= TRADES_TTL
    BY <1>1, NumbersAssumption
  <2>2. n \in fresh
    BY <1>1, <1>3, <2>1
  <2>3. fresh \subseteq 1 .. n
    BY <1>3
  <2>4. IsFiniteSet(1 .. n)
    BY FS_Interval
  <2>5. IsFiniteSet(fresh)
    BY <2>3, <2>4, FS_Subset
  <2> QED
    BY <2>2, <2>3, <2>5
<1>5. PICK m \in fresh : m = Min(fresh) /\ \A i \in fresh : m <= i
  BY <1>4, MaxMin
<1>6. m \in 1 .. n /\ t - A[m].t <= TRADES_TTL
  BY <1>3, <1>5
<1>7. ASSUME NEW i \in 1 .. m - 1
      PROVE  t - A[i].t > TRADES_TTL
  <2>1. i \in 1 .. n /\ i \notin fresh
    BY <1>5, <1>6
  <2>2. ~ (t - A[i].t <= TRADES_TTL)
    BY <1>3, <2>1
  <2>3. t - A[i].t \in Int /\ TRADES_TTL \in Int
    BY <1>2, <2>1, NumbersAssumption
  <2> QED
    BY <2>2, <2>3
<1>8. Prune(A, t) = SubSeq(A, m, n)
  BY <1>1, <1>3, <1>4, <1>5 DEF Prune
<1> QED
  BY <1>1, <1>6, <1>7, <1>8

\* A trade more: the list stays one of the user's trades.
LEMMA AddFill ==
    ASSUME NEW L, NEW lg, NEW F, Listed(L, lg, F),
           NEW d \in Nat \ {0}, SomeFills(F, d), lg[d] \in Trades,
           NEW s \in Sides, <<d, s>> \notin F
    PROVE  Listed(Prune(Append(L, Entry(lg[d], s)), lg[d].t), lg, F \cup {<<d, s>>})
<1>1. PICK h : Listing(L, lg, F, h) /\ L \in Seq(EntryType)
  BY DEF Listed
<1>2. PICK tr \in Trades : tr = lg[d] /\ tr.t \in Nat
  BY TradesAssumption
<1>3. PICK e \in EntryType : e = Entry(tr, s) /\ e.t = tr.t
  BY EntryIs
<1>4. PICK A : A = Append(L, e)
  OBVIOUS
<1>5. PICK k \in Nat : k = Len(L)
  BY <1>1
<1>6. /\ A \in Seq(EntryType) /\ Len(A) = k + 1 /\ A[k + 1] = e /\ A # <<>>
      /\ \A i \in 1 .. k : A[i] = L[i]
  BY <1>1, <1>4, <1>5
<1>7. PICK m \in 1 .. k + 1 :
          /\ Prune(A, tr.t) = SubSeq(A, m, k + 1)
          /\ tr.t - A[m].t <= TRADES_TTL
          /\ \A i \in 1 .. m - 1 : tr.t - A[i].t > TRADES_TTL
  BY <1>2, <1>3, <1>6, PruneIs
<1>8. PICK p : p = SubSeq(A, m, k + 1)
  OBVIOUS
<1>9. PICK n \in Nat \ {0} : n = k + 2 - m
  OBVIOUS
<1>10. /\ p \in Seq(EntryType) /\ Len(p) = n
       /\ \A j \in 1 .. n : p[j] = A[m + j - 1] /\ m + j - 1 \in 1 .. k + 1
  BY <1>6, <1>8, <1>9
<1>11. PICK f0 : f0 = <<d, s>> /\ f0[1] = d /\ f0[2] = s /\ f0 \notin F
  OBVIOUS
<1>12. PICK G : G = F \cup {f0}
  OBVIOUS
<1>13. PICK a : a = [i \in 1 .. k + 1 |-> IF i <= k THEN h[i] ELSE f0]
  OBVIOUS
<1>14. PICK b : b = [j \in 1 .. n |-> a[m + j - 1]]
  OBVIOUS
<1>15. /\ a[k + 1] = f0 /\ \A i \in 1 .. k : a[i] = h[i] /\ a[i] \in F
       /\ \A i \in 1 .. k + 1 : a[i] \in G
  <2>1. a[k + 1] = f0 /\ \A i \in 1 .. k : a[i] = h[i]
    BY <1>13
  <2>2. \A i \in 1 .. k : h[i] \in F
    BY <1>1, <1>5 DEF Listing
  <2>3. \A i \in 1 .. k + 1 : i \in 1 .. k \/ i = k + 1
    OBVIOUS
  <2> QED
    BY <1>12, <2>1, <2>2, <2>3
<1>16. \A i, j \in 1 .. k + 1 : a[i] = a[j] => i = j
  <2>1. \A i, j \in 1 .. k : a[i] = a[j] => i = j
    BY <1>1, <1>5, <1>15 DEF Listing
  <2>2. \A i \in 1 .. k : a[i] # f0
    BY <1>11, <1>15
  <2>3. \A i \in 1 .. k + 1 : i \in 1 .. k \/ i = k + 1
    OBVIOUS
  <2> QED
    BY <1>15, <2>1, <2>2, <2>3
<1>17. \A i \in 1 .. k + 1 : A[i] = Entry(lg[a[i][1]], a[i][2])
  <2>1. ASSUME NEW i \in 1 .. k + 1
        PROVE  A[i] = Entry(lg[a[i][1]], a[i][2])
    <3>1. CASE i \in 1 .. k
      BY <1>1, <1>5, <1>6, <1>15, <3>1 DEF Listing
    <3>2. CASE i = k + 1
      BY <1>2, <1>3, <1>6, <1>11, <1>15, <3>2
    <3> QED
      BY <3>1, <3>2
  <2> QED
    BY <2>1
<1>18. Listing(p, lg, G, b)
  <2>1. b \in [1 .. Len(p) -> G]
    BY <1>10, <1>14, <1>15
  <2>2. \A i, j \in 1 .. n : b[i] = b[j] => i = j
    <3>1. ASSUME NEW i \in 1 .. n, NEW j \in 1 .. n, b[i] = b[j]
          PROVE  i = j
      <4>1. m + i - 1 = m + j - 1
        BY <1>10, <1>14, <1>16, <3>1
      <4> QED
        BY <4>1
    <3> QED
      BY <3>1
  <2>3. \A j \in 1 .. n : p[j] = Entry(lg[b[j][1]], b[j][2])
    BY <1>10, <1>14, <1>17
  <2>4. ASSUME NEW f \in G, \A j \in 1 .. n : b[j] # f
        PROVE  \E g \in G : g[1] >= f[1] /\ lg[g[1]].t - lg[f[1]].t > TRADES_TTL
    <3>1. \A i \in m .. k + 1 : a[i] # f
      <4>1. ASSUME NEW i \in m .. k + 1
            PROVE  a[i] # f
        <5>1. PICK j \in 1 .. n : m + j - 1 = i
          <6>1. i - m + 1 \in 1 .. n /\ m + (i - m + 1) - 1 = i
            BY <1>9
          <6> QED
            BY <6>1
        <5> QED
          BY <1>14, <2>4, <5>1
      <4> QED
        BY <4>1
    <3>2. f # f0 /\ f \in F
      BY <1>12, <1>15, <3>1
    <3>3. CASE \A i \in 1 .. k : h[i] # f
      <4>1. PICK g \in F : g[1] >= f[1] /\ lg[g[1]].t - lg[f[1]].t > TRADES_TTL
        BY <1>1, <1>5, <3>2, <3>3 DEF Listing
      <4> QED
        BY <1>12, <4>1
    <3>4. CASE \E i \in 1 .. k : h[i] = f
      <4>1. PICK i \in 1 .. k : a[i] = f
        BY <1>15, <3>4
      <4>2. i \in 1 .. m - 1
        BY <3>1, <4>1
      <4>3. tr.t - A[i].t > TRADES_TTL
        BY <1>7, <4>2
      <4>4. f[1] \in 1 .. d /\ f[2] \in Sides
        BY <3>2 DEF SomeFills
      <4>5. A[i] = Entry(lg[f[1]], f[2])
        BY <1>17, <4>1
      <4>6. A[i].t = lg[f[1]].t
        BY <4>5 DEF Entry
      <4>7. f0[1] >= f[1] /\ lg[f0[1]].t - lg[f[1]].t > TRADES_TTL
        BY <1>2, <1>11, <4>3, <4>4, <4>6
      <4> QED
        BY <1>12, <4>7
    <3> QED
      BY <3>3, <3>4
  <2> QED
    BY <1>10, <2>1, <2>2, <2>3, <2>4 DEF Listing
<1>19. Short(p)
  <2>1. p[n] = A[k + 1] /\ p[1] = A[m]
    BY <1>9, <1>10
  <2> QED
    BY <1>3, <1>6, <1>7, <1>10, <2>1 DEF Short
<1>20. Listed(p, lg, G)
  BY <1>10, <1>18, <1>19 DEF Listed
<1> QED
  BY <1>2, <1>3, <1>4, <1>7, <1>8, <1>11, <1>12, <1>20

\* The lists of a node that has executed the first d trades of the log.
Lists(lists, lg, d) ==
    /\ lists \in [Users -> Seq(EntryType)]
    /\ \A u \in Users : Listed(lists[u], lg, FillsTo(lg, d, u))

ListsInv == Lists(trades, log, done) /\ Lists(saved.trades, log, saved.done)

\* The log grows at its end, which changes nothing of the lists.
LEMMA ListsGrow ==
    ASSUME NEW lists, NEW lg, NEW d \in Nat, Lists(lists, lg, d),
           NEW lg2, \A i \in 1 .. d : lg2[i] = lg[i]
    PROVE  Lists(lists, lg2, d)
<1>1. ASSUME NEW u \in Users
      PROVE  Listed(lists[u], lg2, FillsTo(lg2, d, u))
  <2>1. PICK F : F = FillsTo(lg, d, u)
    OBVIOUS
  <2>2. \A f \in (1 .. d) \X Sides : f[1] \in 1 .. d /\ f[2] \in Sides
    OBVIOUS
  <2>3. FillsTo(lg2, d, u) = F
    BY <2>1, <2>2 DEF FillsTo
  <2>4. \A f \in F : lg2[f[1]] = lg[f[1]]
    BY <2>1, <2>2 DEF FillsTo
  <2>5. PICK L : L = lists[u] /\ L \in Seq(EntryType) /\ Short(L)
    BY DEF Lists, Listed
  <2>6. PICK h : Listing(L, lg, F, h)
    BY <2>1, <2>5 DEF Lists, Listed
  <2>7. Listing(L, lg2, F, h)
    <3>1. \A j \in 1 .. Len(L) : h[j] \in F
      BY <2>6 DEF Listing
    <3>2. \A j \in 1 .. Len(L) : L[j] = Entry(lg2[h[j][1]], h[j][2])
      BY <2>4, <2>6, <3>1 DEF Listing
    <3>3. \A f \in F : (\A j \in 1 .. Len(L) : h[j] # f) =>
             \E g \in F : g[1] >= f[1] /\ lg2[g[1]].t - lg2[f[1]].t > TRADES_TTL
      BY <2>4, <2>6 DEF Listing
    <3> QED
      BY <2>6, <3>2, <3>3 DEF Listing
  <2> QED
    BY <2>3, <2>5, <2>7 DEF Listed
<1> QED
  BY <1>1 DEF Lists

\* Recording a trade for one of its two users.
LEMMA RecordIs ==
    ASSUME NEW lists \in [Users -> Seq(EntryType)], NEW lg,
           NEW d \in Nat \ {0}, NEW tr \in Trades, tr = lg[d], NEW s \in Sides, NEW F,
           \A u \in Users : Listed(lists[u], lg, F[u]) /\ SomeFills(F[u], d),
           <<d, s>> \notin F[tr.user[s]]
    PROVE  /\ Record(lists, tr, s) \in [Users -> Seq(EntryType)]
           /\ \A u \in Users :
                 Listed(Record(lists, tr, s)[u], lg,
                        IF u = tr.user[s] THEN F[u] \cup {<<d, s>>} ELSE F[u])
<1>1. PICK v \in Users : v = tr.user[s]
  BY TradesAssumption DEF Sides
<1>2. PICK new : new = Prune(Append(lists[v], Entry(tr, s)), tr.t)
  OBVIOUS
<1>3. Listed(new, lg, F[v] \cup {<<d, s>>}) /\ new \in Seq(EntryType)
  <2>1. PICK L : L = lists[v]
    OBVIOUS
  <2>2. PICK E : E = F[v]
    OBVIOUS
  <2>3. /\ Listed(L, lg, E) /\ SomeFills(E, d) /\ <<d, s>> \notin E
        /\ lg[d] \in Trades
    BY <1>1, <2>1, <2>2
  <2>4. Listed(Prune(Append(L, Entry(lg[d], s)), lg[d].t), lg, E \cup {<<d, s>>})
    BY <2>3, AddFill
  <2>5. Listed(new, lg, E \cup {<<d, s>>})
    BY <1>2, <2>1, <2>4
  <2> QED
    BY <2>2, <2>5 DEF Listed
<1>4. Record(lists, tr, s) = [lists EXCEPT ![v] = new]
  BY <1>1, <1>2 DEF Record
<1> QED
  BY <1>1, <1>3, <1>4

\* Recording it for both.
LEMMA RecordBoth ==
    ASSUME NEW lists, NEW lg \in Seq(Trades), NEW d \in Nat, d < Len(lg),
           Lists(lists, lg, d), NEW tr \in Trades, tr = lg[d + 1]
    PROVE  Lists(Record(Record(lists, tr, "buy"), tr, "sell"), lg, d + 1)
<1>1. PICK e \in Nat \ {0} : e = d + 1
  OBVIOUS
<1>2. tr = lg[e] /\ "buy" \in Sides /\ "sell" \in Sides /\ "buy" # "sell"
  BY <1>1 DEF Sides
<1>3. PICK F : F = [u \in Users |-> FillsTo(lg, d, u)]
  OBVIOUS
<1>4. \A u \in Users : /\ Listed(lists[u], lg, F[u]) /\ SomeFills(F[u], e)
                       /\ \A s : <<e, s>> \notin F[u]
  <2>1. \A u \in Users : F[u] = FillsTo(lg, d, u) /\ F[u] \subseteq (1 .. d) \X Sides
    BY <1>3 DEF FillsTo
  <2>2. (1 .. d) \X Sides \subseteq (1 .. e) \X Sides
    BY <1>1
  <2>3. \A s : <<e, s>> \notin (1 .. d) \X Sides
    BY <1>1
  <2> QED
    BY <2>1, <2>2, <2>3 DEF Lists, SomeFills
<1>5. tr.user["buy"] \in Users /\ tr.user["sell"] \in Users
  BY TradesAssumption
<1>6. PICK l1 : l1 = Record(lists, tr, "buy")
  OBVIOUS
<1>7. PICK F1 : F1 = [u \in Users |-> IF u = tr.user["buy"] THEN F[u] \cup {<<e, "buy">>}
                                                          ELSE F[u]]
  OBVIOUS
<1>8. /\ l1 \in [Users -> Seq(EntryType)]
      /\ \A u \in Users : Listed(l1[u], lg, F1[u])
  <2>1. lists \in [Users -> Seq(EntryType)]
    BY DEF Lists
  <2>2. /\ Record(lists, tr, "buy") \in [Users -> Seq(EntryType)]
        /\ \A u \in Users :
              Listed(Record(lists, tr, "buy")[u], lg,
                     IF u = tr.user["buy"] THEN F[u] \cup {<<e, "buy">>} ELSE F[u])
    BY <1>2, <1>4, <1>5, <2>1, RecordIs
  <2> QED
    BY <1>6, <1>7, <2>2
<1>9. \A u \in Users : SomeFills(F1[u], e) /\ <<e, "sell">> \notin F1[u]
  <2>1. <<e, "buy">> \in (1 .. e) \X Sides /\ <<e, "buy">> # <<e, "sell">>
    BY <1>2
  <2> QED
    BY <1>4, <1>7, <2>1 DEF SomeFills
<1>10. PICK l2 : l2 = Record(l1, tr, "sell")
  OBVIOUS
<1>11. /\ l2 \in [Users -> Seq(EntryType)]
       /\ \A u \in Users :
             Listed(l2[u], lg, IF u = tr.user["sell"] THEN F1[u] \cup {<<e, "sell">>}
                                                     ELSE F1[u])
  <2>1. /\ Record(l1, tr, "sell") \in [Users -> Seq(EntryType)]
        /\ \A u \in Users :
              Listed(Record(l1, tr, "sell")[u], lg,
                     IF u = tr.user["sell"] THEN F1[u] \cup {<<e, "sell">>} ELSE F1[u])
    BY <1>2, <1>5, <1>8, <1>9, RecordIs
  <2> QED
    BY <1>10, <2>1
<1>12. ASSUME NEW u \in Users
       PROVE  FillsTo(lg, e, u) = IF u = tr.user["sell"] THEN F1[u] \cup {<<e, "sell">>}
                                                        ELSE F1[u]
  <2>1. \A i, s : <<i, s>> \in (1 .. e) \X Sides <=>
                      <<i, s>> \in (1 .. d) \X Sides \/ (i = e /\ s \in {"buy", "sell"})
    BY <1>1 DEF Sides
  <2>2. \A i, s : <<i, s>> \in FillsTo(lg, e, u) <=>
                      \/ <<i, s>> \in FillsTo(lg, d, u)
                      \/ i = e /\ s = "buy" /\ tr.user["buy"] = u
                      \/ i = e /\ s = "sell" /\ tr.user["sell"] = u
    <3>1. \A i, s, n : <<i, s>> \in FillsTo(lg, n, u) <=>
                           <<i, s>> \in (1 .. n) \X Sides /\ lg[i].user[s] = u
      BY DEF FillsTo
    <3>2. ASSUME NEW i, NEW s
          PROVE  <<i, s>> \in FillsTo(lg, e, u) <=>
                     \/ <<i, s>> \in FillsTo(lg, d, u)
                     \/ i = e /\ s = "buy" /\ tr.user["buy"] = u
                     \/ i = e /\ s = "sell" /\ tr.user["sell"] = u
      <4>1. <<i, s>> \in FillsTo(lg, e, u) <=>
                \/ <<i, s>> \in (1 .. d) \X Sides /\ lg[i].user[s] = u
                \/ i = e /\ s \in {"buy", "sell"} /\ lg[i].user[s] = u
        BY <2>1, <3>1
      <4>2. <<i, s>> \in FillsTo(lg, d, u) <=>
                <<i, s>> \in (1 .. d) \X Sides /\ lg[i].user[s] = u
        BY <3>1
      <4>3. i = e => lg[i] = tr
        BY <1>2
      <4> QED
        BY <4>1, <4>2, <4>3
    <3> QED
      BY <3>2
  <2>3. FillsTo(lg, e, u) \subseteq (1 .. e) \X Sides
    BY DEF FillsTo
  <2>4. FillsTo(lg, d, u) \subseteq (1 .. d) \X Sides
    BY DEF FillsTo
  <2>5. PICK G : G = IF u = tr.user["sell"] THEN F1[u] \cup {<<e, "sell">>} ELSE F1[u]
    OBVIOUS
  <2>6. \A i, s : <<i, s>> \in G <=>
                      \/ <<i, s>> \in FillsTo(lg, d, u)
                      \/ i = e /\ s = "buy" /\ tr.user["buy"] = u
                      \/ i = e /\ s = "sell" /\ tr.user["sell"] = u
    BY <1>3, <1>7, <2>5
  <2>7. G \subseteq (1 .. e) \X Sides
    BY <1>2, <1>9, <2>5 DEF SomeFills
  <2>8. \A f : f \in FillsTo(lg, e, u) <=> f \in G
    BY <2>2, <2>3, <2>6, <2>7
  <2> QED
    BY <2>5, <2>8
<1>13. Lists(l2, lg, e)
  BY <1>11, <1>12 DEF Lists
<1> QED
  BY <1>1, <1>6, <1>10, <1>13

\* Every user's list is one of his trades, after any step.
LEMMA ListsHold == CandlesSpec => []ListsInv
<1>1. ASSUME CandlesInit
      PROVE  ListsInv
  <2>1. /\ trades = [u \in Users |-> <<>>] /\ log = <<>> /\ done = 0
        /\ saved.trades = trades /\ saved.done = done
    BY <1>1 DEF CandlesInit, State
  <2>2. \A u : FillsTo(<<>>, 0, u) = {}
    BY DEF FillsTo
  <2>3. Listed(<<>>, <<>>, {})
    <3>1. PICK h : h = [j \in {} |-> {}]
      OBVIOUS
    <3>2. Listing(<<>>, <<>>, {}, h)
      BY <3>1 DEF Listing
    <3> QED
      BY <3>2 DEF Listed, Short
  <2>4. Lists(trades, log, done)
    <3>1. trades \in [Users -> Seq(EntryType)]
      BY <2>1
    <3>2. \A u \in Users : trades[u] = <<>> /\ FillsTo(log, done, u) = {} /\ log = <<>>
      BY <2>1, <2>2
    <3>3. \A u \in Users : Listed(trades[u], log, FillsTo(log, done, u))
      BY <2>3, <3>2
    <3> QED
      BY <3>1, <3>3 DEF Lists
  <2> QED
    BY <2>1, <2>4 DEF ListsInv
<1>2. ASSUME CandleInv, ListsInv, [CandlesNext]_candleVars
      PROVE  ListsInv'
  <2>1. /\ done \in Nat /\ saved.done \in Nat /\ log \in Seq(Trades)
        /\ done <= Len(log) /\ saved.done <= Len(log)
    BY <1>2 DEF CandleInv, CandleTypes, Frame
  <2>2. ASSUME NEW tr \in Trades, ExecuteTrade(tr)
        PROVE  ListsInv'
    <3>1. /\ log' \in Seq(Trades) /\ Len(log) <= Len(log')
          /\ \A i \in 1 .. Len(log) : log'[i] = log[i]
          /\ done < Len(log') /\ log'[done + 1] = tr /\ done' = done + 1
          /\ saved' = saved
      BY <1>2, <2>2, NextOfLog DEF CandleInv
    <3>2. trades' = Record(Record(trades, tr, "buy"), tr, "sell")
      BY <2>2 DEF ExecuteTrade, RecordTrade
    <3>3. /\ \A i \in 1 .. done : log'[i] = log[i]
          /\ \A i \in 1 .. saved.done : log'[i] = log[i]
      <4>1. PICK k \in Nat : k = Len(log) /\ done <= k /\ saved.done <= k
        BY <2>1
      <4>2. \A i \in 1 .. k : log'[i] = log[i]
        BY <3>1, <4>1
      <4> QED
        BY <2>1, <4>1, <4>2
    <3>4. Lists(trades, log', done)
      BY <1>2, <2>1, <3>3, ListsGrow DEF ListsInv
    <3>5. Lists(saved.trades, log', saved.done)
      BY <1>2, <2>1, <3>3, ListsGrow DEF ListsInv
    <3>6. Lists(trades', log', done + 1)
      BY <2>1, <3>1, <3>2, <3>4, RecordBoth
    <3> QED
      BY <3>1, <3>5, <3>6 DEF ListsInv
  <2>3. CASE UNCHANGED <<trades, log, done, saved>>
    BY <1>2, <2>3 DEF ListsInv
  <2>4. CASE SaveState
    BY <1>2, <2>4 DEF SaveState, State, ListsInv
  <2>5. CASE Restart
    BY <1>2, <2>5 DEF Restart, ListsInv
  <2>6. CASE UNCHANGED candleVars
    BY <2>3, <2>6 DEF candleVars
  <2>7. CASE WriteColumn
    BY <2>3, <2>7 DEF WriteColumn
  <2>8. ASSUME NEW n \in Seconds, TimePasses(n) \/ SetBack(n)
        PROVE  ListsInv'
    BY <2>3, <2>8 DEF TimePasses, SetBack
  <2> QED
    BY <1>2, <2>2, <2>4, <2>5, <2>6, <2>7, <2>8 DEF CandlesNext
<1> QED
  BY <1>1, <1>2, CandleInvHolds, PTL DEF CandlesSpec

\* The entries of an order, its trades, and what each of them come to.
OfOrder(L, n) == {i \in DOMAIN L : L[i].nonce = n}

FillsOf(lg, F, n) == {f \in F : lg[f[1]].nonce[f[2]] = n}

EntrySum(L, J) == SumFunctionOnSet([i \in J |-> L[i].amount], J)

FillSum(lg, T) == SumFunctionOnSet([f \in T |-> lg[f[1]].amount], T)

\* What is added up for an order is what some of its trades come to.
LEMMA OrderAdded ==
    ASSUME NEW L \in Seq(EntryType), NEW lg, NEW d, NEW F, SomeFills(F, d),
           NEW h, Listing(L, lg, F, h),
           \A i \in 1 .. d : lg[i] \in Trades, NEW n
    PROVE  /\ ImageOf(h, OfOrder(L, n)) \subseteq FillsOf(lg, F, n)
           /\ EntrySum(L, OfOrder(L, n)) = FillSum(lg, ImageOf(h, OfOrder(L, n)))
<1>0. PICK J : J = OfOrder(L, n) /\ J = {i \in DOMAIN L : L[i].nonce = n}
  BY DEF OfOrder
<1>1. PICK k \in Nat : k = Len(L) /\ DOMAIN L = 1 .. k
  OBVIOUS
<1>2. \A j \in 1 .. k : h[j] \in F /\ L[j] = Entry(lg[h[j][1]], h[j][2])
  BY <1>1 DEF Listing
<1>3. ASSUME NEW j \in 1 .. k
      PROVE  /\ L[j].nonce = lg[h[j][1]].nonce[h[j][2]]
             /\ L[j].amount = lg[h[j][1]].amount /\ L[j].amount \in Nat
  <2>1. PICK f \in F : f = h[j] /\ f[1] \in 1 .. d /\ f[2] \in Sides
    BY <1>2 DEF SomeFills
  <2>2. L[j] = Entry(lg[f[1]], f[2]) /\ lg[f[1]] \in Trades
    BY <1>2, <2>1
  <2>3. L[j].nonce = lg[f[1]].nonce[f[2]] /\ L[j].amount = lg[f[1]].amount
    BY <2>2 DEF Entry
  <2>4. lg[f[1]].amount \in Nat
    BY <2>2, TradesAssumption
  <2> QED
    BY <2>1, <2>3, <2>4
<1>4. J \subseteq 1 .. k /\ IsFiniteSet(J)
  <2>1. J \subseteq 1 .. k
    BY <1>0, <1>1
  <2>2. IsFiniteSet(1 .. k)
    BY FS_Interval
  <2> QED
    BY <2>1, <2>2, FS_Subset
<1>5. PICK T : T = ImageOf(h, J) /\ T = {h[j] : j \in J}
  BY DEF ImageOf
<1>6. T \subseteq FillsOf(lg, F, n)
  <2>1. ASSUME NEW j \in J
        PROVE  h[j] \in FillsOf(lg, F, n)
    <3>1. j \in 1 .. k /\ L[j].nonce = n
      BY <1>0, <1>1
    <3> QED
      BY <1>2, <1>3, <3>1 DEF FillsOf
  <2> QED
    BY <1>5, <2>1
<1>7. PICK f : f = [i \in J |-> L[i].amount]
  OBVIOUS
<1>8. PICK g : g = [x \in T |-> lg[x[1]].amount]
  OBVIOUS
<1>9. IsIntegral(f, J) /\ \A j \in J : g[h[j]] = f[j]
  <2>1. \A j \in J : f[j] = L[j].amount /\ f[j] \in Int /\ f[j] = lg[h[j][1]].amount
    <3>1. \A j \in J : f[j] = L[j].amount /\ j \in 1 .. k
      BY <1>4, <1>7
    <3> QED
      BY <1>3, <3>1
  <2>2. \A j \in J : g[h[j]] = lg[h[j][1]].amount
    BY <1>5, <1>8
  <2> QED
    BY <2>1, <2>2 DEF IsIntegral
<1>10. \A i, j \in J : h[i] = h[j] => i = j
  BY <1>1, <1>4 DEF Listing
<1>11. SumFunctionOnSet(g, ImageOf(h, J)) = SumFunctionOnSet(f, J)
  BY <1>4, <1>9, <1>10, SumImage
<1> QED
  BY <1>0, <1>5, <1>6, <1>7, <1>8, <1>11 DEF EntrySum, FillSum

\* For any trades and any number of restarts: a user's order is reported with all
\* its trades as long as no later trade of his leaves one of them further behind
\* than the time to live; what is reported for an order is what some of its trades
\* come to, each counted once; and his list spans no more than the time to live.
THEOREM FillsReportedHolds == CandlesSpec => []FillsReported
<1>1. ASSUME CandleInv, ListsInv
      PROVE  FillsReported
  <2> SUFFICES
        ASSUME NEW u \in Users,
               NEW F, F = Fills(u),
               NEW L, L = trades[u]
        PROVE  LET mine(n)  == {f \in F : log[f[1]].nonce[f[2]] = n}
                   fresh(f) == \A g \in F : g[1] >= f[1] =>
                                   log[g[1]].t - log[f[1]].t <= TRADES_TTL
                   sum(S)   == SumFunctionOnSet([f \in S |-> log[f[1]].amount], S)
                   report   == UserTrades(u)
               IN  /\ \A n \in {log[f[1]].nonce[f[2]] : f \in F} :
                         (\A f \in mine(n) : fresh(f)) =>
                             n \in DOMAIN report /\ report[n].amount = sum(mine(n))
                   /\ \A n \in DOMAIN report :
                         \E S \in SUBSET mine(n) :
                             S # {} /\ report[n].amount = sum(S)
                   /\ L # <<>> => L[Len(L)].t - L[1].t <= TRADES_TTL
    BY DEF FillsReported
  <2> DEFINE mine(n)  == {f \in F : log[f[1]].nonce[f[2]] = n}
             fresh(f) == \A g \in F : g[1] >= f[1] =>
                             log[g[1]].t - log[f[1]].t <= TRADES_TTL
             sum(S)   == SumFunctionOnSet([f \in S |-> log[f[1]].amount], S)
             report   == UserTrades(u)
             of(n)    == {i \in DOMAIN L : L[i].nonce = n}
  <2>1. /\ log \in Seq(Trades) /\ done \in Nat /\ done <= Len(log)
        /\ \A i \in 1 .. done : log[i] \in Trades
    BY <1>1 DEF CandleInv, CandleTypes, Frame
  <2>2. F = FillsTo(log, done, u) /\ SomeFills(F, done)
    BY DEF Fills, FillsTo, SomeFills
  <2>3. L \in Seq(EntryType) /\ Short(L)
    BY <1>1, <2>2 DEF ListsInv, Lists, Listed
  <2>4. PICK h : Listing(L, log, F, h)
    BY <1>1, <2>2 DEF ListsInv, Lists, Listed
  <2>5. /\ DOMAIN report = {L[i].nonce : i \in DOMAIN L}
        /\ \A n \in DOMAIN report :
              report[n].amount = SumFunctionOnSet([i \in of(n) |-> L[i].amount], of(n))
    BY DEF UserTrades
  <2>6. ASSUME NEW n
        PROVE  \E T \in SUBSET mine(n) :
                  /\ T = {h[j] : j \in of(n)}
                  /\ SumFunctionOnSet([i \in of(n) |-> L[i].amount], of(n)) = sum(T)
    <3>1. /\ ImageOf(h, OfOrder(L, n)) \subseteq FillsOf(log, F, n)
          /\ EntrySum(L, OfOrder(L, n)) = FillSum(log, ImageOf(h, OfOrder(L, n)))
      BY <2>1, <2>2, <2>3, <2>4, OrderAdded
    <3>2. mine(n) = FillsOf(log, F, n) /\ of(n) = OfOrder(L, n)
      BY DEF FillsOf, OfOrder
    <3>3. PICK T : T = ImageOf(h, of(n)) /\ T = {h[j] : j \in of(n)}
      BY DEF ImageOf
    <3>4. T \in SUBSET mine(n) /\ EntrySum(L, of(n)) = FillSum(log, T)
      BY <3>1, <3>2, <3>3
    <3> QED
      BY <3>3, <3>4 DEF EntrySum, FillSum
  <2>7. ASSUME NEW n \in DOMAIN report
        PROVE  \E S \in SUBSET mine(n) : S # {} /\ report[n].amount = sum(S)
    <3>1. PICK i \in DOMAIN L : L[i].nonce = n
      BY <2>5
    <3>2. PICK T \in SUBSET mine(n) :
             /\ T = {h[j] : j \in of(n)}
             /\ SumFunctionOnSet([j \in of(n) |-> L[j].amount], of(n)) = sum(T)
      BY <2>6
    <3>3. i \in of(n) /\ h[i] \in T
      BY <3>1, <3>2
    <3> QED
      BY <2>5, <3>2, <3>3
  <2>8. ASSUME NEW n \in {log[f[1]].nonce[f[2]] : f \in F},
               \A f \in mine(n) : fresh(f)
        PROVE  n \in DOMAIN report /\ report[n].amount = sum(mine(n))
    <3>1. ASSUME NEW f \in mine(n)
          PROVE  \E j \in of(n) : h[j] = f
      <4>1. \E j \in 1 .. Len(L) : h[j] = f
        <5>1. ASSUME \A j \in 1 .. Len(L) : h[j] # f
              PROVE  FALSE
          <6>1. PICK g \in F : /\ g[1] >= f[1]
                               /\ log[g[1]].t - log[f[1]].t > TRADES_TTL
            BY <2>4, <5>1 DEF Listing
          <6>2. g[1] \in 1 .. done /\ f[1] \in 1 .. done
            BY <2>2 DEF SomeFills
          <6>3. log[g[1]].t \in Nat /\ log[f[1]].t \in Nat
            BY <2>1, <6>2, TradesAssumption
          <6>4. log[g[1]].t - log[f[1]].t <= TRADES_TTL
            BY <2>8, <6>1
          <6> QED
            BY <6>1, <6>3, <6>4, NumbersAssumption
        <5> QED
          BY <5>1
      <4>2. PICK j \in 1 .. Len(L) : h[j] = f
        BY <4>1
      <4>3. L[j] = Entry(log[f[1]], f[2])
        BY <2>4, <4>2 DEF Listing
      <4>4. L[j].nonce = n /\ j \in DOMAIN L
        BY <2>3, <4>2, <4>3 DEF Entry
      <4> QED
        BY <4>2, <4>4
    <3>2. PICK T \in SUBSET mine(n) :
             /\ T = {h[j] : j \in of(n)}
             /\ SumFunctionOnSet([j \in of(n) |-> L[j].amount], of(n)) = sum(T)
      BY <2>6
    <3>3. T = mine(n)
      BY <3>1, <3>2
    <3>4. n \in DOMAIN report
      <4>1. PICK f \in mine(n) : TRUE
        OBVIOUS
      <4>2. PICK j \in of(n) : h[j] = f
        BY <3>1
      <4> QED
        BY <2>5, <4>2
    <3> QED
      BY <2>5, <3>2, <3>3, <3>4
  <2> QED
    BY <2>3, <2>7, <2>8 DEF Short
<1> QED
  BY <1>1, CandleInvHolds, ListsHold, PTL
=============================================================================
