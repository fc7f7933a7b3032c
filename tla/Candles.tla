------------------------------- MODULE Candles ------------------------------
(***************************************************************************)
(* What a node remembers of the trades of one market: the candles of one   *)
(* minute, the statistics of the last day, and the trades of each user.    *)
(*                                                                         *)
(* The engine only writes all this and the API reads it from threads of    *)
(* its own, with no lock: a reader may come between any two of the writes  *)
(* of one update, so each of them is a step.  Candles go by the node's     *)
(* clock, which may be set back; the trades of a user go by the time that  *)
(* the taker wrote into his order.  A node that restarts has the candles   *)
(* and trades of its state file and repeats the trades since.              *)
(*                                                                         *)
(* Prices and amounts are integers for the code's floats and decimals; a   *)
(* trade that Market.tla makes is here a member of a set.                  *)
(***************************************************************************)
EXTENDS Integers, Sequences, FiniteSets, FiniteSetsExt, Functions

CONSTANTS
    Users,
    Trades,           \* the trades the engine may make
    TRADES_TTL,
    Day,              \* 24 hours in milliseconds, less in an instance
    Seconds,          \* by how much the clock may advance at once
    MaxClock,         \* bound: the clock's last second
    MaxLog,           \* bound: trades in all
    MaxSetBacks       \* bound: how often the clock is set back

Sides == {"buy", "sell"}

\* t is the time the taker's order carries; an order is known by its nonce.
ASSUME TradesAssumption ==
    \A tr \in Trades : /\ {tr.user["buy"], tr.user["sell"]} \subseteq Users
                       /\ {tr.nonce["buy"], tr.nonce["sell"]} \subseteq Nat
                       /\ tr.amount \in Nat \ {0} /\ tr.price \in Nat
                       /\ tr.t \in Nat

ASSUME NumbersAssumption ==
    /\ {TRADES_TTL, MaxClock, MaxLog, MaxSetBacks} \subseteq Nat
    /\ Day \in Nat \ {0}
    /\ Seconds \subseteq Nat \ {0}

VARIABLES
    clock,        \* the node's clock, in seconds
    setBacks,     \* how often it has been set back
    kline,        \* the rows of the frame of candles
    writing,      \* the columns of the last row an update has yet to write
    current,      \* the trade of that update
    trades,       \* the trades of each user
    log,          \* every trade of the market, as the sequencer orders them
    done,         \* how many of them this node has executed ...
    opened,       \* ... and the minute of the clock each was executed in
    saved         \* the state file

candleVars == <<clock, setBacks, kline, writing, current, trades, log, done,
                opened, saved>>

-----------------------------------------------------------------------------
\* A trade in a user's list, on the side he was on.
Entry(tr, s) ==
    [t |-> tr.t, amount |-> tr.amount, side |-> s, nonce |-> tr.nonce[s]]

Prune__AtTheLimit(list, t) ==
    LET fresh == {i \in DOMAIN list : t - list[i].t < TRADES_TTL}
    IN  IF fresh = {} THEN <<>> ELSE SubSeq(list, Min(fresh), Len(list))

\* A list without the trades at its front that are too old at time t.
Prune(list, t) ==
    LET fresh == {i \in DOMAIN list : t - list[i].t <= TRADES_TTL}
    IN  IF fresh = {} THEN <<>> ELSE SubSeq(list, Min(fresh), Len(list))

Record(lists, tr, s) ==
    [lists EXCEPT ![tr.user[s]] = Prune(Append(@, Entry(tr, s)), tr.t)]

RecordTrade(tr) == trades' = Record(Record(trades, tr, "buy"), tr, "sell")

-----------------------------------------------------------------------------
OpenTime(now) == (now - (now % 60)) * 1000

CloseTime(row) == row.OpenTime + 59999

NewRow(openTime, tr) ==
    [OpenTime |-> openTime, Open |-> tr.price, High |-> tr.price,
     Low |-> tr.price, Close |-> tr.price, Volume |-> tr.amount,
     NumberOfTrades |-> 1]

\* Writes to a row that is there replace it where it stands.
SetRow(k, row) ==
    IF \E i \in DOMAIN k : k[i].OpenTime = row.OpenTime
      THEN [i \in DOMAIN k |-> IF k[i].OpenTime = row.OpenTime THEN row ELSE k[i]]
      ELSE Append(k, row)

Columns__CloseFirst == <<"Close", "High", "Low", "Volume", "NumberOfTrades">>

Columns == <<"High", "Low", "Close", "Volume", "NumberOfTrades">>

UpdatedRow(row, tr) ==
    [row EXCEPT !.High = Max({tr.price, @}), !.Low = Min({tr.price, @}),
                !.Close = tr.price, !.Volume = @ + tr.amount,
                !.NumberOfTrades = @ + 1]

UpdateKline__NewRow(tr) ==
    /\ current' = tr
    /\ kline' = SetRow(kline, NewRow(OpenTime(clock), tr))
    /\ writing' = <<>>

\* A trade in the minute of the last row updates it, column by column.
UpdateKline(tr) ==
    LET openTime == OpenTime(clock) IN
    /\ current' = tr
    /\ IF kline # <<>> /\ openTime = kline[Len(kline)].OpenTime
         THEN writing' = Columns /\ UNCHANGED kline
         ELSE kline' = SetRow(kline, NewRow(openTime, tr)) /\ writing' = <<>>

WriteColumn ==
    /\ writing # <<>>
    /\ LET column == Head(writing)
           last   == Len(kline)
       IN  kline' = [kline EXCEPT ![last][column] =
                        UpdatedRow(kline[last], current)[column]]
    /\ writing' = Tail(writing)
    /\ UNCHANGED <<clock, setBacks, current, trades, log, done, opened, saved>>

\* The next trade of the log, or a new one when all have been executed.
ExecuteTrade(tr) ==
    /\ writing = <<>>
    /\ IF done < Len(log) THEN tr = log[done + 1] /\ UNCHANGED log
                          ELSE Len(log) < MaxLog /\ log' = Append(log, tr)
    /\ RecordTrade(tr)
    /\ UpdateKline(tr)
    /\ done' = done + 1
    /\ opened' = Append(opened, OpenTime(clock))
    /\ UNCHANGED <<clock, setBacks, saved>>

-----------------------------------------------------------------------------
TimePasses(n) ==
    /\ clock + n <= MaxClock
    /\ clock' = clock + n
    /\ UNCHANGED <<setBacks, kline, writing, current, trades, log, done, opened,
                   saved>>

SetBack(n) ==
    /\ setBacks < MaxSetBacks /\ n <= clock
    /\ clock' = clock - n
    /\ setBacks' = setBacks + 1
    /\ UNCHANGED <<kline, writing, current, trades, log, done, opened, saved>>

State == [kline |-> kline, trades |-> trades, done |-> done, opened |-> opened]

\* process saves between two batches, when no trade is under way.
SaveState ==
    /\ writing = <<>> /\ saved # State
    /\ saved' = State
    /\ UNCHANGED <<clock, setBacks, kline, writing, current, trades, log, done,
                   opened>>

\* A node that ended at any moment comes back with its state file.
Restart ==
    /\ State # saved \/ writing # <<>>
    /\ kline' = saved.kline /\ trades' = saved.trades
    /\ done' = saved.done /\ opened' = saved.opened
    /\ writing' = <<>>
    /\ UNCHANGED <<clock, setBacks, current, log, saved>>

CandlesInit ==
    /\ clock = 60 /\ setBacks = 0
    /\ kline = <<>> /\ writing = <<>> /\ current \in Trades
    /\ trades = [u \in Users |-> <<>>]
    /\ log = <<>> /\ done = 0 /\ opened = <<>>
    /\ saved = State

CandlesNext ==
    \/ \E tr \in Trades : ExecuteTrade(tr)
    \/ WriteColumn
    \/ \E n \in Seconds : TimePasses(n)
    \/ \E n \in Seconds : SetBack(n)
    \/ SaveState
    \/ Restart

CandlesSpec == CandlesInit /\ [][CandlesNext]_candleVars

-----------------------------------------------------------------------------
(* What the API reads.  The statistics of an empty frame are 0.            *)

LastRow == kline[Len(kline)]

LastPrice == LastRow.Close

Span == LastRow.OpenTime - kline[1].OpenTime

\* The position of the last row at or before a day before the last one
\* (get_indexer with method="pad").
PadIndex ==
    Max({i \in DOMAIN kline : kline[i].OpenTime <= LastRow.OpenTime - Day})

Change24h ==
    LastPrice - (IF Span >= Day THEN kline[PadIndex].Open ELSE kline[1].Open)

\* iloc[-i]: the row i rows from the end, but the first for i = 0.
FromEnd(i) == IF i = 0 THEN kline[1] ELSE kline[Len(kline) - i + 1]

\* A percentage is a pair: the change, and what it is a share of.
Share(row) ==
    IF row.Open = 0 THEN <<0, 1>> ELSE <<LastPrice - row.Open, row.Open>>

\* iloc counts from 0, TLA+ from 1.
Change24hPercent ==
    IF Span >= Day THEN Share(FromEnd(PadIndex - 1)) ELSE Share(kline[1])

DayRows__AfterPad ==
    IF Span > Day THEN PadIndex + 1 .. Len(kline) ELSE DOMAIN kline

DayRows == IF Span > Day THEN PadIndex .. Len(kline) ELSE DOMAIN kline

Volume24h == SumFunctionOnSet([i \in DayRows |-> kline[i].Volume], DayRows)
High24h   == Max({kline[i].High : i \in DayRows})
Low24h    == Min({kline[i].Low : i \in DayRows})

\* The n-th of some places.
NthOf(places, n) ==
    CHOOSE i \in places : Cardinality({j \in places : j <= i}) = n

\* The rows at these places, in their order.
RowsAt(places) ==
    [n \in 1 .. Cardinality(places) |-> kline[NthOf(places, n)]]

Klines__EndOpen(startTime, endTime, limit) ==
    LET start  == IF startTime = 0 THEN kline[1].OpenTime ELSE startTime
        end    == IF endTime = 0 THEN CloseTime(LastRow) + 1 ELSE endTime
        places == {i \in DOMAIN kline : /\ start <= kline[i].OpenTime
                                       /\ end > CloseTime(kline[i])}
        last   == {i \in places : Cardinality({j \in places : j >= i}) <= limit}
    IN  IF kline = <<>> THEN <<>>
        ELSE RowsAt(IF limit = 0 THEN places ELSE last)

\* The klines route; a start or an end of 0 is none given.  Of the rows in the
\* range, the last limit ones, but all of them for limit 0.
Klines(startTime, endTime, limit) ==
    LET start  == IF startTime = 0 THEN kline[1].OpenTime ELSE startTime
        end    == IF endTime = 0 THEN CloseTime(LastRow) ELSE endTime
        places == {i \in DOMAIN kline : /\ start <= kline[i].OpenTime
                                       /\ end >= CloseTime(kline[i])}
        last   == {i \in places : Cardinality({j \in places : j >= i}) <= limit}
    IN  IF kline = <<>> THEN <<>>
        ELSE RowsAt(IF limit = 0 THEN places ELSE last)

\* The user's trades, added up by the order they belong to.
UserTrades(u) ==
    LET of(n) == {i \in DOMAIN trades[u] : trades[u][i].nonce = n}
    IN  [n \in {trades[u][i].nonce : i \in DOMAIN trades[u]} |->
            [t      |-> trades[u][Min(of(n))].t,
             amount |-> SumFunctionOnSet([i \in of(n) |-> trades[u][i].amount],
                                         of(n))]]

-----------------------------------------------------------------------------
(* Properties                                                              *)

Increasing == \A i, j \in DOMAIN kline : i < j => kline[i].OpenTime < kline[j].OpenTime

Amounts(S) == SumFunctionOnSet([i \in S |-> log[i].amount], S)

\* The trades executed while a candle was open.
During(row) == {i \in 1 .. done : opened[i] = row.OpenTime}

\* Unless the clock was set back, the candles tell exactly what was traded in
\* each minute, also after a restart: there is one for every minute with a trade
\* and no other, in order, and it has the first price, the last, the extremes,
\* the volume and the count of that minute's trades, replayed ones included.
CandlesTell ==
    (setBacks = 0 /\ writing = <<>>) =>
        /\ Increasing
        /\ {kline[i].OpenTime : i \in DOMAIN kline} = {opened[i] : i \in 1 .. done}
        /\ \A k \in DOMAIN kline :
              LET S == During(kline[k]) IN
              kline[k] = [OpenTime |-> kline[k].OpenTime,
                          Open |-> log[Min(S)].price, Close |-> log[Max(S)].price,
                          High |-> Max({log[i].price : i \in S}),
                          Low |-> Min({log[i].price : i \in S}),
                          Volume |-> Amounts(S), NumberOfTrades |-> Cardinality(S)]

\* Whatever the clock does, and between any two writes of an update: a reader
\* never sees two candles of one minute, nor an opening or closing price outside
\* the extremes, nor more traded in a minute than was.
CandleBounds ==
    \A k \in DOMAIN kline :
        LET row == kline[k] IN
        /\ row.Low <= row.Open /\ row.Open <= row.High
        /\ row.Low <= row.Close /\ row.Close <= row.High
        /\ \A j \in DOMAIN kline : kline[j].OpenTime = row.OpenTime => j = k
        /\ row.Volume <= Amounts(During(row))
        /\ row.NumberOfTrades <= Cardinality(During(row))

\* The statistics of the day leave out no trade of the 24 hours before the last
\* candle, count at most one candle that is older, and all look at the same
\* candles, although each decides by itself where the day begins: the change is
\* from the opening price of the oldest candle that the volume counts.  Only the
\* change in percent may go by another one.
DayCovered ==
    (setBacks = 0 /\ writing = <<>> /\ kline # <<>>) =>
        LET recent == {i \in 1 .. done : opened[i] >= LastRow.OpenTime - Day}
            older  == {k \in DayRows : kline[k].OpenTime < LastRow.OpenTime - Day}
            oldest == kline[Min(DayRows)]
        IN  /\ Volume24h = Amounts(recent) +
                               SumFunctionOnSet([k \in older |-> kline[k].Volume],
                                                older)
            /\ Cardinality(older) <= 1
            /\ \A i \in recent : Low24h <= log[i].price /\ log[i].price <= High24h
            /\ Change24h = LastPrice - oldest.Open
            /\ Min(DayRows) = 1 => Change24hPercent = Share(oldest)

\* A chart that reads the newest page and then pages that end just before the
\* first candle it has, reads every candle once.
PagesMeet ==
    (setBacks = 0 /\ kline # <<>>) =>
        \A limit \in 1 .. MaxLog :
            LET page  == Klines(0, 0, limit)
                older == Klines(0, page[1].OpenTime - 1, limit)
            IN  older \o page =
                    SubSeq(kline, Max({1, Len(kline) + 1 - 2 * limit}), Len(kline))

\* The trades of a user, by the side he was on, that this node has executed.
Fills(u) == {f \in (1 .. done) \X Sides : log[f[1]].user[f[2]] = u}

\* A user's order is reported with all its trades as long as no later trade of
\* his, his counterparty's order being the taker or not, carries a time that
\* leaves one of them more than the time to live behind; no trade is reported
\* that was not his, none twice, and a restart changes nothing of it.
FillsReported ==
    \A u \in Users :
        LET mine(n)  == {f \in Fills(u) : log[f[1]].nonce[f[2]] = n}
            fresh(f) == \A g \in Fills(u) : g[1] >= f[1] =>
                            log[g[1]].t - log[f[1]].t <= TRADES_TTL
            sum(S)   == SumFunctionOnSet([f \in S |-> log[f[1]].amount], S)
            report   == UserTrades(u)
        IN  /\ \A n \in {log[f[1]].nonce[f[2]] : f \in Fills(u)} :
                  (\A f \in mine(n) : fresh(f)) =>
                      n \in DOMAIN report /\ report[n].amount = sum(mine(n))
            /\ \A n \in DOMAIN report :
                  \E S \in SUBSET mine(n) :
                      S # {} /\ report[n].amount = sum(S)
            /\ trades[u] # <<>> =>
                  trades[u][Len(trades[u])].t - trades[u][1].t <= TRADES_TTL

=============================================================================
