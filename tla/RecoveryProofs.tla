--------------------------- MODULE RecoveryProofs ---------------------------
(***************************************************************************)
(* For every log, every content of batches, every save frequency and any   *)
(* number of crashes: how far a node is from its state file, that what it  *)
(* does again after a crash is what it did before, and what it guards all  *)
(* along.                                                                  *)
(***************************************************************************)
EXTENDS Recovery, AccountProofs, SequenceTheorems

-----------------------------------------------------------------------------
(* How much a node would have to handle again *)


Counters ==
    /\ after \in Nat /\ lastTxIndex \in Nat /\ savedIndex \in Nat
    /\ FileIndex \in Nat

\* saved_state_index, which a start resets and only a save moves on, is never
\* ahead of the file once the save is over; during it both are at the batch
\* that has just been completed.
SavedInFile ==
    /\ Running("open") \/ Running("write") => lastTxIndex = savedIndex
    /\ Running("wait") \/ Running("txs") => savedIndex <= FileIndex

LagInv == Counters /\ SavedInFile /\ ReplayBounded

\* A node begins with no file and nothing to handle again.
LEMMA LagInit ==
    ASSUME RecoveryInit
    PROVE  LagInv
  BY RecoveryAssumption
  DEF RecoveryInit, LagInv, Counters, SavedInFile, ReplayBounded, Running,
      FileIndex, NoFile

\* A step that leaves the counters and the file alone, and begins no other
\* phase than handling or fetching, keeps what LagInv says of them.
LEMMA NothingSaved ==
    ASSUME LagInv, Running("wait") \/ Running("txs"),
           after' \in Nat, UNCHANGED <<lastTxIndex, savedIndex, file>>,
           phase' \in {"wait", "txs"}
    PROVE  LagInv'
  BY DEF LagInv, Counters, SavedInFile, ReplayBounded, Running, FileIndex

\* The end of a batch: either no save is due, and the batch is within the
\* frequency of the last one, or the save is begun.
LEMMA FinishBatchLag ==
    ASSUME LagInv, FinishBatch
    PROVE  LagInv'
<1>1. /\ Running("txs") /\ node' = "up"
      /\ after' = after /\ lastTxIndex' = after /\ FileIndex' = FileIndex
  BY DEF FinishBatch, AllHandled, Running, FileIndex
<1>2. CASE SaveDue(after)
  <2>1. savedIndex' = after /\ phase' = "open"
    BY <1>2 DEF FinishBatch
  <2> QED
    BY <1>1, <2>1
    DEF LagInv, Counters, SavedInFile, ReplayBounded, Running
<1>3. CASE ~ SaveDue(after)
  <2>1. savedIndex' = savedIndex /\ phase' = "wait"
    BY <1>3 DEF FinishBatch
  <2>2. savedIndex <= FileIndex
    BY <1>1 DEF LagInv, SavedInFile
  <2>3. after <= FileIndex + SaveFrequency
    BY <1>3, <2>2, RecoveryAssumption DEF SaveDue, LagInv, Counters
  <2> QED
    BY <1>1, <2>1, <2>2, <2>3
    DEF LagInv, Counters, SavedInFile, ReplayBounded, Running
<1> QED BY <1>2, <1>3

\* Opening the file empties it, but the save is not over until it is written,
\* and then the file is at the batch just completed.
LEMMA SaveLag ==
    ASSUME LagInv, OpenFile \/ WriteFile
    PROVE  LagInv'
<1>1. CASE OpenFile
  <2>1. FileIndex' = 0
    BY <1>1 DEF OpenFile, FileIndex, EmptyFile
  <2> QED
    BY <1>1, <2>1
    DEF OpenFile, LagInv, Counters, SavedInFile, ReplayBounded, Running
<1>2. CASE WriteFile
  <2>1. FileIndex' = lastTxIndex
    BY <1>2 DEF WriteFile, FileIndex, Saved, ToProtobuf
  <2>2. lastTxIndex = savedIndex
    BY <1>2 DEF WriteFile, LagInv, SavedInFile
  <2> QED
    BY <1>2, <2>1, <2>2, RecoveryAssumption
    DEF WriteFile, LagInv, Counters, SavedInFile, ReplayBounded, Running
<1> QED BY <1>1, <1>2

\* A node that is down owes nothing; what it starts from is its file or nothing.
LEMMA CrashAndStartLag ==
    ASSUME LagInv, Crash \/ StartFresh \/ LoadState \/ LoadCutFile
    PROVE  LagInv'
<1>1. CASE Crash
  <2>1. FileIndex' \in Nat
    BY <1>1 DEF Crash, FileIndex, CutFile, LagInv, Counters
  <2> QED
    BY <1>1, <2>1
    DEF Crash, LagInv, Counters, SavedInFile, ReplayBounded, Running
<1>2. ASSUME NEW i \in Nat, i <= FileIndex, Begin(i)
      PROVE  LagInv'
  <2>1. FileIndex' = FileIndex
    BY <1>2 DEF Begin, FileIndex
  <2> QED
    BY <1>2, <2>1, RecoveryAssumption
    DEF Begin, LagInv, Counters, SavedInFile, ReplayBounded, Running
<1>3. CASE StartFresh
  BY <1>2, <1>3 DEF StartFresh, LagInv, Counters
<1>4. CASE LoadState
  BY <1>2, <1>4 DEF LoadState, FileIndex, LagInv, Counters
<1>5. CASE LoadCutFile
  BY <1>5
  DEF LoadCutFile, LagInv, Counters, SavedInFile, ReplayBounded, Running,
      FileIndex
<1> QED BY <1>1, <1>3, <1>4, <1>5

\* Every step of a node keeps LagInv.
LEMMA LagNext ==
    ASSUME LagInv, [RecoveryNext]_recoveryVars
    PROVE  LagInv'
<1>1. CASE \E b \in Batches : Finalize(b)
  BY <1>1
  DEF Finalize, LagInv, Counters, SavedInFile, ReplayBounded, Running, FileIndex
<1>2. CASE TakeBatch
  BY <1>2, NothingSaved DEF TakeBatch, LagInv, Counters
<1>3. CASE HandleTransaction
  BY <1>3, NothingSaved DEF HandleTransaction, Running, LagInv, Counters
<1>4. CASE ContinueMatch
  BY <1>4, NothingSaved DEF ContinueMatch, loopVars, Running, LagInv, Counters
<1>5. CASE FinishBatch
  BY <1>5, FinishBatchLag
<1>6. CASE FailBatch
  BY <1>6, NothingSaved DEF FailBatch, AllHandled, LagInv, Counters
<1>7. CASE OpenFile \/ WriteFile
  BY <1>7, SaveLag
<1>8. CASE Crash \/ StartFresh \/ LoadState \/ LoadCutFile
  BY <1>8, CrashAndStartLag
<1>9. CASE UNCHANGED recoveryVars
  BY <1>9
  DEF recoveryVars, loopVars, LagInv, Counters, SavedInFile, ReplayBounded,
      Running, FileIndex
<1> QED
  BY <1>1, <1>2, <1>3, <1>4, <1>5, <1>6, <1>7, <1>8, <1>9
  DEF RecoveryNext, Process

\* While a node takes and handles batches it is at most the save frequency ahead
\* of its state file, whatever the batches, the crashes and the starts.
THEOREM ReplayBoundedHolds == RecoverySpec => []ReplayBounded
<1>1. LagInv => ReplayBounded
  BY DEF LagInv
<1> QED BY LagInit, LagNext, <1>1, PTL DEF RecoverySpec

-----------------------------------------------------------------------------
(***************************************************************************)
(* A replay is a second run of the same handlers.  To compare the two, what *)
(* a handler does is restated as a relation between two values: what is     *)
(* saved of the node, and what process keeps besides, before it and after.  *)
(***************************************************************************)

Core ==
    [s |-> ToProtobuf(lastTxIndex), ids |-> lastUserId, taker |-> taker,
     remaining |-> remaining, fault |-> fault, modified |-> modified,
     pos |-> pos]

\* The records that have these fields and no others.
IsSaved(p) ==
    p = [lastTxIndex |-> p.lastTxIndex,
         assets |-> p.assets, amounts |-> p.amounts, orders |-> p.orders,
         heap |-> p.heap, book |-> p.book,
         firstId |-> p.firstId, finalId |-> p.finalId,
         lastUpdateId |-> p.lastUpdateId,
         publicToId |-> p.publicToId, idToPublic |-> p.idToPublic,
         nonces |-> p.nonces, listed |-> p.listed, markets |-> p.markets,
         contractToId |-> p.contractToId, lastTokenId |-> p.lastTokenId,
         decimals |-> p.decimals,
         deposits |-> p.deposits, userDeposits |-> p.userDeposits,
         withdraws |-> p.withdraws, userWithdraws |-> p.userWithdraws,
         withdrawNonce |-> p.withdrawNonce,
         userWithdrawNonce |-> p.userWithdrawNonce]

IsNode(c) ==
    /\ IsSaved(c.s)
    /\ c = [s |-> c.s, ids |-> c.ids, taker |-> c.taker,
            remaining |-> c.remaining, fault |-> c.fault,
            modified |-> c.modified, pos |-> c.pos]

\* A node that begins a batch with what was saved as p.
Loaded(p) ==
    [s |-> p, ids |-> Max({0} \cup Range(p.publicToId)), taker |-> NoTaker,
     remaining |-> 0, fault |-> "none", modified |-> {}, pos |-> 0]

-----------------------------------------------------------------------------
(* What a handler leaves alone *)

SameEvents(c, d) ==
    /\ d.s.lastTxIndex = c.s.lastTxIndex
    /\ d.s.firstId = c.s.firstId /\ d.s.lastUpdateId = c.s.lastUpdateId

SameBook(c, d) ==
    /\ d.s.amounts = c.s.amounts /\ d.s.orders = c.s.orders
    /\ d.s.heap = c.s.heap /\ d.s.book = c.s.book
    /\ d.s.finalId = c.s.finalId

SameLoop(c, d) == d.taker = c.taker /\ d.remaining = c.remaining

SameUsers(c, d) ==
    /\ d.s.publicToId = c.s.publicToId /\ d.s.idToPublic = c.s.idToPublic
    /\ d.ids = c.ids

SameListed(c, d) == d.s.listed = c.s.listed /\ d.s.markets = c.s.markets

SameDeposits(c, d) ==
    /\ d.s.contractToId = c.s.contractToId
    /\ d.s.lastTokenId = c.s.lastTokenId /\ d.s.decimals = c.s.decimals
    /\ d.s.deposits = c.s.deposits /\ d.s.userDeposits = c.s.userDeposits

SameWithdraws(c, d) ==
    /\ d.s.withdraws = c.s.withdraws /\ d.s.userWithdraws = c.s.userWithdraws
    /\ d.s.withdrawNonce = c.s.withdrawNonce
    /\ d.s.userWithdrawNonce = c.s.userWithdrawNonce

SameAccounts(c, d) ==
    /\ SameUsers(c, d) /\ SameListed(c, d)
    /\ SameDeposits(c, d) /\ SameWithdraws(c, d)
    /\ d.s.nonces = c.s.nonces

SameEngine(c, d) ==
    /\ SameBook(c, d) /\ SameLoop(c, d)
    /\ d.s.assets = c.s.assets /\ d.modified = c.modified

-----------------------------------------------------------------------------
(* The handlers *)

Registers(c, d, u) ==
    /\ IF u \in DOMAIN c.s.publicToId
         THEN SameUsers(c, d)
         ELSE /\ d.ids = c.ids + 1
              /\ d.s.publicToId = Put(c.s.publicToId, u, c.ids + 1)
              /\ d.s.idToPublic = Put(c.s.idToPublic, c.ids + 1, u)
    /\ SameListed(c, d) /\ SameDeposits(c, d) /\ SameWithdraws(c, d)
    /\ d.s.nonces = c.s.nonces
    /\ SameEngine(c, d) /\ d.fault = c.fault

TakesDeposit(c, d, r) ==
    LET s  == c.s
        known == r.contract \in DOMAIN s.contractToId[r.chain]
        id == IF known THEN s.contractToId[r.chain][r.contract]
                       ELSE s.lastTokenId[r.chain] + 1
        t  == <<r.chain, id>>
        u  == s.idToPublic[r.user]
    IN  /\ d.s.deposits = [s.deposits EXCEPT ![r.chain] = @ \cup {r.key}]
        /\ d.s.decimals =
               [s.decimals EXCEPT ![r.chain] = Put(@, r.contract, r.decimal)]
        /\ d.s.contractToId =
               [s.contractToId EXCEPT ![r.chain] = Put(@, r.contract, id)]
        /\ d.s.lastTokenId =
               IF known THEN s.lastTokenId
                        ELSE [s.lastTokenId EXCEPT ![r.chain] = id]
        /\ d.s.listed = s.listed \cup {t}
        /\ d.s.markets = s.markets \cup {<<t, USDT>>}
        /\ d.s.userDeposits =
               [s.userDeposits EXCEPT ![u] =
                    Append(@, [token |-> t, amount |-> r.amount])]
        /\ d.s.assets = [s.assets EXCEPT ![t][u] = @ + r.amount]
        /\ SameUsers(c, d) /\ SameWithdraws(c, d) /\ d.s.nonces = s.nonces
        /\ SameBook(c, d) /\ SameLoop(c, d)
        /\ d.modified = c.modified /\ d.fault = c.fault

DepositRuns(c, d, r) ==
    IF r.user < 1 \/ c.ids < r.user \/ r.key \in c.s.deposits[r.chain]
      THEN SameAccounts(c, d) /\ SameEngine(c, d) /\ d.fault = c.fault
      ELSE TakesDeposit(c, d, r)

TakesWithdraw(c, d, w) ==
    LET s  == c.s
        ch == ChainOf(w.token)
        u  == w.user
    IN  /\ d.s.assets = [s.assets EXCEPT ![w.token][u] = @ - w.amount]
        /\ d.s.userWithdraws =
               [s.userWithdraws EXCEPT ![ch][u] = Append(@, w)]
        /\ d.s.withdrawNonce = [s.withdrawNonce EXCEPT ![ch] = @ + 1]
        /\ d.s.userWithdrawNonce =
               [s.userWithdrawNonce EXCEPT ![ch][u] = @ + 1]
        /\ d.s.withdraws = [s.withdraws EXCEPT ![ch] = Append(@, w)]
        /\ SameUsers(c, d) /\ SameListed(c, d) /\ SameDeposits(c, d)
        /\ d.s.nonces = s.nonces
        /\ SameBook(c, d) /\ SameLoop(c, d)
        /\ d.modified = c.modified /\ d.fault = c.fault

InTurn(c, w) ==
    /\ ChainOf(w.token) \in ConfiguredChains
    /\ w.nonce = c.s.userWithdrawNonce[ChainOf(w.token)][w.user]

WithdrawDies(c, w) ==
    /\ w.amount > 0
    /\ \/ ~ InTurn(c, w) /\ w.user \notin DOMAIN c.s.publicToId
       \/ InTurn(c, w) /\ w.token \notin c.s.listed

WithdrawRuns(c, d, w) ==
    IF /\ w.amount > 0 /\ InTurn(c, w) /\ w.token \in c.s.listed
       /\ c.s.assets[w.token][w.user] >= w.amount
      THEN TakesWithdraw(c, d, w)
      ELSE /\ SameAccounts(c, d) /\ SameEngine(c, d)
           /\ d.fault = IF WithdrawDies(c, w) THEN "key" ELSE c.fault

\* The order o comes to rest with the amount a.
Rests(c, d, o, a) ==
    LET s == c.s
        m == o.market
        level == s.book[m][o.side]
    IN  /\ d.s.heap = [s.heap EXCEPT ![m][o.side] = @ \cup {o}]
        /\ d.s.amounts = Put(s.amounts, o, a)
        /\ d.s.orders = [s.orders EXCEPT ![o.user] = @ \cup {o}]
        /\ d.s.book =
               [s.book EXCEPT ![m][o.side] =
                    Put(@, o.price, IF o.price \in DOMAIN level
                                      THEN Rounded(level[o.price] + a) ELSE a)]
        /\ d.s.assets =
               [s.assets EXCEPT ![PayToken(o)][o.user] = @ - Cost(o, a)]

Pays(c, o) == c.s.assets[PayToken(o)][o.user] >= Cost(o, o.amount)

Meets(c, o) ==
    /\ o.price > 0 /\ o.amount > 0
    /\ \E h \in c.s.heap[o.market][Other(o.side)] : Crosses(o, h)

\* What happens to an order whose nonce was accepted.
Entered(c, d, o) ==
    IF Pays(c, o) /\ Meets(c, o)
      THEN /\ d.taker = o /\ d.remaining = o.amount
           /\ SameBook(c, d) /\ d.s.assets = c.s.assets
           /\ d.modified = c.modified
      ELSE IF Pays(c, o) /\ o.price >= 0 /\ o.amount >= 0
      THEN /\ Rests(c, d, o, o.amount)
           /\ d.s.finalId = [c.s.finalId EXCEPT ![o.market] = @ + 1]
           /\ d.modified = c.modified \cup {o.market}
           /\ SameLoop(c, d)
      ELSE SameEngine(c, d)

Ordered(c, d, o) ==
    LET known == o.user \in DOMAIN c.s.publicToId
    IN  /\ d.s.markets = c.s.markets \cup {o.market}
        /\ d.s.listed = c.s.listed \cup {Base(o.market), Quote(o.market)}
        /\ SameUsers(c, d) /\ SameDeposits(c, d) /\ SameWithdraws(c, d)
        /\ IF known /\ o.nonce = c.s.nonces[o.user]
             THEN /\ d.s.nonces = [c.s.nonces EXCEPT ![o.user] = @ + 1]
                  /\ d.fault = c.fault
                  /\ Entered(c, d, o)
             ELSE /\ d.s.nonces = c.s.nonces
                  /\ d.fault = IF known THEN c.fault ELSE "key"
                  /\ SameEngine(c, d)

\* a leaves the level of the order o.
LeavesLevel(c, d, o, a) ==
    LET level == c.s.book[o.market][o.side]
    IN  d.s.book =
            [c.s.book EXCEPT ![o.market][o.side] =
                 IF level[o.price] <= a THEN Drop(@, o.price)
                 ELSE Put(@, o.price, Rounded(level[o.price] - a))]

HasItsLevel(c, o) == o.price \in DOMAIN c.s.book[o.market][o.side]

TakesCancel(c, d, o) ==
    LET s == c.s
        m == o.market
        a == s.amounts[o]
    IN  /\ d.s.amounts = Drop(s.amounts, o)
        /\ d.s.orders = [s.orders EXCEPT ![o.user] = @ \ {o}]
        /\ d.s.assets =
               [s.assets EXCEPT ![PayToken(o)][o.user] = @ + Cost(o, a)]
        /\ d.s.heap = [s.heap EXCEPT ![m][o.side] = @ \ {o}]
        /\ SameLoop(c, d) /\ SameAccounts(c, d)
        /\ IF HasItsLevel(c, o)
             THEN /\ LeavesLevel(c, d, o, a)
                  /\ d.s.finalId = [s.finalId EXCEPT ![m] = @ + 1]
                  /\ d.fault = "none"
                  /\ d.modified = c.modified \cup {m}
             ELSE /\ d.fault = "level"
                  /\ d.s.book = s.book /\ d.s.finalId = s.finalId
                  /\ d.modified = c.modified

Cancelled(c, d, o) ==
    IF o.market \in c.s.markets /\ o.user \in DOMAIN c.s.publicToId
      THEN IF o \in c.s.orders[o.user]
             THEN TakesCancel(c, d, o)
             ELSE /\ SameAccounts(c, d) /\ SameEngine(c, d)
                  /\ d.fault = c.fault
      ELSE SameAccounts(c, d) /\ SameEngine(c, d) /\ d.fault = "key"

\* One iteration of the matching loop against the order h.
Trades(c, d, h) ==
    LET s == c.s
        o == c.taker
        m == o.market
        all == ~ (c.remaining < s.amounts[h])
        q == IF all THEN s.amounts[h] ELSE c.remaining
        buyer  == IF o.side = "buy" THEN o.user ELSE h.user
        seller == IF o.side = "buy" THEN h.user ELSE o.user
        base  == [s.assets EXCEPT ![Base(m)][buyer] = @ + q]
        quote == [base EXCEPT ![Quote(m)][seller] = @ + h.price * q]
    IN  /\ IF s.amounts[h] > q
             THEN /\ d.s.book = [s.book EXCEPT ![m][h.side] =
                                    Put(@, h.price,
                                        Rounded(s.book[m][h.side][h.price] - q))]
                  /\ d.s.amounts = [s.amounts EXCEPT ![h] = @ - q]
                  /\ d.s.heap = s.heap /\ d.s.orders = s.orders
             ELSE /\ d.s.heap = [s.heap EXCEPT ![m][h.side] = @ \ {h}]
                  /\ d.s.book =
                         [s.book EXCEPT ![m][h.side] =
                              IF s.book[m][h.side][h.price] <= q
                                THEN Drop(@, h.price)
                                ELSE Put(@, h.price,
                                         Rounded(s.book[m][h.side][h.price] - q))]
                  /\ d.s.amounts = Drop(s.amounts, h)
                  /\ d.s.orders = [s.orders EXCEPT ![h.user] = @ \ {h}]
        /\ d.s.assets = [quote EXCEPT ![PayToken(o)][o.user] =
                                          @ - Paid(o, q, h.price)]
        /\ d.remaining = c.remaining - q
        /\ d.s.finalId = [s.finalId EXCEPT ![m] = @ + 2]
        /\ d.fault = c.fault

\* The same where the level of h is missing.
TradeDies(c, d, h) ==
    LET m == c.taker.market
    IN  /\ d.s.heap = IF c.s.amounts[h] > c.remaining THEN c.s.heap
                      ELSE [c.s.heap EXCEPT ![m][h.side] = @ \ {h}]
        /\ d.s.finalId = [c.s.finalId EXCEPT ![m] = @ + 1]
        /\ d.fault = "level"
        /\ d.s.assets = c.s.assets /\ d.s.amounts = c.s.amounts
        /\ d.s.orders = c.s.orders /\ d.s.book = c.s.book
        /\ d.remaining = c.remaining

Opposite(c) == c.s.heap[c.taker.market][Other(c.taker.side)]

\* The order the heap gives.
HeadOf(hs) == CHOOSE h \in hs : \A x \in hs : Ahead(h, x)

GoesOn(c) == c.remaining > 0 /\ \E h \in Opposite(c) : Crosses(c.taker, h)

Iterates(c, d) ==
    LET h == HeadOf(Opposite(c))
    IN  /\ IF h.price \in DOMAIN c.s.book[c.taker.market][h.side]
             THEN Trades(c, d, h) ELSE TradeDies(c, d, h)
        /\ d.taker = c.taker /\ d.modified = c.modified

Completes(c, d) ==
    /\ IF c.remaining > 0
         THEN Rests(c, d, c.taker, c.remaining)
         ELSE /\ d.s.assets = c.s.assets /\ d.s.amounts = c.s.amounts
              /\ d.s.orders = c.s.orders /\ d.s.heap = c.s.heap
              /\ d.s.book = c.s.book
    /\ d.taker = NoTaker /\ d.remaining = 0
    /\ d.s.finalId = c.s.finalId /\ d.fault = c.fault
    /\ d.modified = c.modified \cup {c.taker.market}

Matches(c, d) ==
    /\ SameAccounts(c, d)
    /\ IF GoesOn(c) THEN Iterates(c, d) ELSE Completes(c, d)

Handles(c, d, tx) ==
    \/ tx.kind = "register" /\ Registers(c, d, tx.user)
    \/ tx.kind = "deposit"  /\ DepositRuns(c, d, tx.deposit)
    \/ tx.kind = "withdraw" /\ WithdrawRuns(c, d, tx.withdraw)
    \/ tx.kind = "order"    /\ Ordered(c, d, tx.order)
    \/ tx.kind = "cancel"   /\ Cancelled(c, d, tx.order)

\* One step of process through the batch b.
Step(c, d, b) ==
    /\ c.fault = "none"
    /\ IsNode(d) /\ SameEvents(c, d)
    /\ \/ /\ c.taker = NoTaker /\ c.pos + 1 \in DOMAIN b.txs
          /\ Handles(c, d, b.txs[c.pos + 1])
          /\ d.pos = c.pos + 1
       \/ /\ c.taker # NoTaker
          /\ Matches(c, d)
          /\ d.pos = c.pos

Done(c, b) == c.fault = "none" /\ c.taker = NoTaker /\ c.pos = Len(b.txs)

\* The batch is handled, or the thread has ended.
Over(c, b) == c.fault # "none" \/ Done(c, b)

\* The end of b, the batch of number i.
Ended(c, d, b, i) ==
    IF b.bad
      THEN d.s = c.s
      ELSE /\ IsSaved(d.s)
           /\ SameAccounts(c, d) /\ SameBook(c, d) /\ d.s.assets = c.s.assets
           /\ d.s.lastTxIndex = i
           /\ d.s.firstId = [m \in Markets |->
                  IF m \in c.modified THEN c.s.finalId[m] + 1
                                      ELSE c.s.firstId[m]]
           /\ d.s.lastUpdateId = [m \in Markets |->
                  IF m \in c.modified THEN c.s.finalId[m]
                                      ELSE c.s.lastUpdateId[m]]

\* p goes n steps through the batch b.
Path(b, p, n) == \A k \in Nat : k < n => Step(p[k], p[k + 1], b)

\* Steps through the batch b lead from c to d.
Leads(b, c, d) ==
    \E n \in Nat : \E p : p[0] = c /\ p[n] = d /\ Path(b, p, n)

\* A node that begins b, of number i, with p comes to its end with q.
Handled(p, b, i, q) ==
    \E c, d : /\ Leads(b, Loaded(p), c)
              /\ Done(c, b) /\ Ended(c, d, b, i) /\ q = d.s

-----------------------------------------------------------------------------
(* The handlers of the specification are those relations *)

\* register.
LEMMA RegisterIs ==
    ASSUME NEW u, ProcessRegister(u), UNCHANGED lastTxIndex
    PROVE  Registers(Core, Core', u)
  BY DEF ProcessRegister, Register, Registers, Core, ToProtobuf, Registered,
         bookkeeping, bookVars, idVars, userVars, depositVars, withdrawVars,
         SameUsers, SameListed, SameDeposits, SameWithdraws, SameEngine,
         SameBook, SameLoop

\* A deposit, credited or seen before.
LEMMA DepositIs ==
    ASSUME NEW r, ProcessDeposit(r) \/ DepositReturns(r), UNCHANGED lastTxIndex
    PROVE  DepositRuns(Core, Core', r)
<1>1. CASE ProcessDeposit(r)
  <2>1. TakesDeposit(Core, Core', r)
    <3>1. /\ Core.s.deposits = deposits /\ Core.s.decimals = decimals
          /\ Core.s.contractToId = contractToId
          /\ Core.s.lastTokenId = lastTokenId /\ Core.s.listed = listed
          /\ Core.s.markets = markets /\ Core.s.assets = assets
          /\ Core.s.userDeposits = userDeposits
          /\ Core.s.idToPublic = idToPublic
      BY DEF Core, ToProtobuf
    <3>2. /\ Core'.s.deposits = deposits' /\ Core'.s.decimals = decimals'
          /\ Core'.s.contractToId = contractToId'
          /\ Core'.s.lastTokenId = lastTokenId' /\ Core'.s.listed = listed'
          /\ Core'.s.markets = markets' /\ Core'.s.assets = assets'
          /\ Core'.s.userDeposits = userDeposits'
      BY DEF Core, ToProtobuf
    <3>3. /\ SameUsers(Core, Core') /\ SameWithdraws(Core, Core')
          /\ SameBook(Core, Core') /\ SameLoop(Core, Core')
          /\ Core'.s.nonces = Core.s.nonces
          /\ Core'.modified = Core.modified /\ Core'.fault = Core.fault
      BY <1>1
      DEF ProcessDeposit, Deposit, Core, ToProtobuf, bookkeeping, bookVars,
          idVars, userVars, withdrawVars, SameUsers, SameWithdraws, SameBook,
          SameLoop
    <3> QED
      BY <1>1, <3>1, <3>2, <3>3
      DEF ProcessDeposit, Deposit, TokenIdOf, TakesDeposit
  <2>2. ~ (r.user < 1 \/ Core.ids < r.user
             \/ r.key \in Core.s.deposits[r.chain])
    BY <1>1
    DEF ProcessDeposit, Deposit, DepositIgnored, Core, ToProtobuf
  <2> QED
    BY <2>1, <2>2 DEF DepositRuns
<1>2. CASE DepositReturns(r)
  <2>1. SameAccounts(Core, Core') /\ SameEngine(Core, Core')
        /\ Core'.fault = Core.fault
    BY <1>2
    DEF DepositReturns, zexVars, engineVars, accountVars, bookVars, idVars,
        userVars, depositVars, withdrawVars, Core, ToProtobuf, SameAccounts,
        SameUsers, SameListed, SameDeposits, SameWithdraws, SameEngine,
        SameBook, SameLoop
  <2>2. r.user < 1 \/ Core.ids < r.user \/ r.key \in Core.s.deposits[r.chain]
    BY <1>2 DEF DepositReturns, DepositIgnored, Core, ToProtobuf
  <2> QED
    BY <2>1, <2>2 DEF DepositRuns
<1> QED
  BY <1>1, <1>2

\* A withdrawal: recorded, ignored, or the end of the thread.
LEMMA WithdrawIs ==
    ASSUME NEW w, w.amount \in Int,
           ProcessWithdraw(w) \/ WithdrawReturns(w), UNCHANGED lastTxIndex
    PROVE  WithdrawRuns(Core, Core', w)
<1> DEFINE enough == Core.s.assets[w.token][w.user] >= w.amount
           may == w.amount > 0 /\ InTurn(Core, w) /\ w.token \in Core.s.listed
<1>1. /\ enough <=> HasFunds(w)
      /\ InTurn(Core, w) <=> WithdrawNonceOk(w)
      /\ w.token \in Core.s.listed <=> w.token \in listed
      /\ w.user \in DOMAIN Core.s.publicToId <=> w.user \in Registered
  BY DEF Core, ToProtobuf, HasFunds, InTurn, WithdrawNonceOk, Registered
<1>2. CASE Withdraw(w) /\ UNCHANGED modified
  <2>1. TakesWithdraw(Core, Core', w)
    BY <1>2
    DEF Withdraw, Core, TakesWithdraw, ToProtobuf,
        bookkeeping, bookVars, idVars, userVars, depositVars,
        SameUsers, SameListed, SameDeposits, SameBook, SameLoop
  <2>2. may /\ enough
    BY <1>1, <1>2 DEF Withdraw
  <2> QED
    BY <2>1, <2>2 DEF WithdrawRuns
<1>3. CASE WithdrawFault(w) /\ UNCHANGED modified
  <2>1. SameAccounts(Core, Core') /\ SameEngine(Core, Core')
        /\ Core'.fault = "key"
    BY <1>3
    DEF WithdrawFault, KeyFault, bookkeeping, accountVars, bookVars, idVars,
        userVars, depositVars, withdrawVars, Core, ToProtobuf, SameAccounts,
        SameUsers, SameListed, SameDeposits, SameWithdraws, SameEngine,
        SameBook, SameLoop
  <2>2. WithdrawDies(Core, w) /\ ~ may
    BY <1>1, <1>3 DEF WithdrawFault, WithdrawDies
  <2> QED
    BY <2>1, <2>2 DEF WithdrawRuns
<1>4. CASE WithdrawReturns(w)
  <2>1. SameAccounts(Core, Core') /\ SameEngine(Core, Core')
        /\ Core'.fault = Core.fault
    BY <1>4
    DEF WithdrawReturns, zexVars, engineVars, accountVars, bookVars, idVars,
        userVars, depositVars, withdrawVars, Core, ToProtobuf, SameAccounts,
        SameUsers, SameListed, SameDeposits, SameWithdraws, SameEngine,
        SameBook, SameLoop
  <2>2. ~ WithdrawDies(Core, w) /\ ~ (may /\ enough)
    <3>1. WithdrawIgnored(w)
      BY <1>4 DEF WithdrawReturns
    <3>2. CASE w.amount <= 0
      <4>1. ~ (w.amount > 0)
        BY <3>2
      <4> QED
        BY <4>1 DEF WithdrawDies
    <3>3. CASE ~ (w.amount <= 0)
      BY <1>1, <3>1, <3>3 DEF WithdrawIgnored, WithdrawDies
    <3> QED
      BY <3>2, <3>3
  <2> QED
    BY <2>1, <2>2 DEF WithdrawRuns
<1> QED
  BY <1>2, <1>3, <1>4 DEF ProcessWithdraw

\* An order that comes to rest.
LEMMA RestIs ==
    ASSUME NEW o, NEW a, Rest(o, a)
    PROVE  Rests(Core, Core', o, a)
  BY DEF Rest, AddToBook, SetLevel, HasLevel, Debit, Rests, Core, ToProtobuf

\* An order the account accepts: matched, placed or refused.
LEMMA EnterIs ==
    ASSUME NEW o \in Order,
           \/ MatchInstantly(o) /\ UNCHANGED modified
           \/ Place(o) /\ modified' = modified \cup {o.market}
           \/ Refused(o) /\ UNCHANGED <<engineVars, modified>>
    PROVE  Entered(Core, Core', o)
<1>1. /\ Pays(Core, o) <=> CanPay(o)
      /\ Meets(Core, o) <=> WillCross(o)
  BY DEF Pays, Meets, CanPay, WillCross, Core, ToProtobuf
<1>2. CASE MatchInstantly(o) /\ UNCHANGED modified
  <2>1. /\ Core'.taker = o /\ Core'.remaining = o.amount
        /\ SameBook(Core, Core') /\ Core'.s.assets = Core.s.assets
        /\ Core'.modified = Core.modified
    BY <1>2 DEF MatchInstantly, SameBook, bookVars, idVars, Core, ToProtobuf
  <2>2. Pays(Core, o) /\ Meets(Core, o)
    BY <1>1, <1>2 DEF MatchInstantly
  <2> QED
    BY <2>1, <2>2 DEF Entered
<1>3. CASE Place(o) /\ modified' = modified \cup {o.market}
  <2>1. Rests(Core, Core', o, o.amount)
    BY <1>3, RestIs DEF Place
  <2>2. /\ Core'.s.finalId = [Core.s.finalId EXCEPT ![o.market] = @ + 1]
        /\ Core'.modified = Core.modified \cup {o.market}
        /\ SameLoop(Core, Core')
    BY <1>3 DEF Place, UseIds, SameLoop, Core, ToProtobuf
  <2>3. Pays(Core, o) /\ ~ Meets(Core, o) /\ o.price >= 0 /\ o.amount >= 0
    BY <1>1, <1>3 DEF Place
  <2> QED
    BY <2>1, <2>2, <2>3 DEF Entered
<1>4. CASE Refused(o) /\ UNCHANGED <<engineVars, modified>>
  <2>1. SameEngine(Core, Core')
    BY <1>4
    DEF engineVars, bookVars, idVars, SameEngine, SameBook, SameLoop, Core,
        ToProtobuf
  <2>2. ~ (Pays(Core, o) /\ o.price >= 0 /\ o.amount >= 0)
    BY <1>1, <1>4 DEF Refused, Order
  <2>3. Meets(Core, o) => o.price >= 0 /\ o.amount >= 0
    BY DEF Meets, Order
  <2> QED
    BY <2>1, <2>2, <2>3 DEF Entered
<1> QED
  BY <1>2, <1>3, <1>4

\* The order a transaction holds is the order that is processed.
LEMMA OrderOfIs ==
    ASSUME NEW o \in Order, o.nonce = nonces[o.user]
    PROVE  OrderOf(o, o.user) = o
  BY DEF OrderOf, Order

\* An order transaction.
LEMMA OrderIs ==
    ASSUME NEW o \in Order, TakeOrder(o), UNCHANGED lastTxIndex
    PROVE  Ordered(Core, Core', o)
<1> DEFINE good == o.user \in Registered /\ o.nonce = nonces[o.user]
<1>1. /\ o.user \in DOMAIN Core.s.publicToId <=> o.user \in Registered
      /\ Core.s.nonces = nonces
  BY DEF Core, ToProtobuf, Registered
<1>2. CASE good
  <2>1. ProcessOrder(o.user, o)
    BY <1>2 DEF TakeOrder
  <2>2. OrderOf(o, o.user) = o
    BY <1>2, OrderOfIs
  <2>3. Entered(Core, Core', o)
    BY <2>1, <2>2, EnterIs DEF ProcessOrder
  <2>4. /\ Core'.s.markets = Core.s.markets \cup {o.market}
        /\ Core'.s.listed = Core.s.listed \cup {Base(o.market),
                                                Quote(o.market)}
        /\ SameUsers(Core, Core') /\ SameDeposits(Core, Core')
        /\ SameWithdraws(Core, Core')
        /\ Core'.s.nonces = [Core.s.nonces EXCEPT ![o.user] = @ + 1]
    BY <2>1
    DEF ProcessOrder, Create, UseNonce, userVars, depositVars, withdrawVars,
        SameUsers, SameDeposits, SameWithdraws, Core, ToProtobuf
  <2>5. Core'.fault = Core.fault
    BY <2>1
    DEF ProcessOrder, MatchInstantly, Place, engineVars, Core
  <2> QED
    BY <1>1, <1>2, <2>3, <2>4, <2>5 DEF Ordered
<1>3. CASE ~ good
  <2>1. ProcessBadNonce(o.user, o.market)
    BY <1>3 DEF TakeOrder
  <2>2. /\ Core'.s.markets = Core.s.markets \cup {o.market}
        /\ Core'.s.listed = Core.s.listed \cup {Base(o.market),
                                                Quote(o.market)}
        /\ SameUsers(Core, Core') /\ SameDeposits(Core, Core')
        /\ SameWithdraws(Core, Core') /\ Core'.s.nonces = Core.s.nonces
        /\ SameEngine(Core, Core')
    BY <2>1
    DEF ProcessBadNonce, Create, userVars, depositVars, withdrawVars,
        bookkeeping, bookVars, idVars, SameUsers, SameDeposits, SameWithdraws,
        SameEngine, SameBook, SameLoop, Core, ToProtobuf
  <2>3. Core'.fault = IF o.user \in DOMAIN Core.s.publicToId
                        THEN Core.fault ELSE "key"
    BY <2>1 DEF ProcessBadNonce, Registered, Core, ToProtobuf
  <2> QED
    BY <1>1, <1>3, <2>2, <2>3 DEF Ordered
<1> QED
  BY <1>2, <1>3

\* A cancel transaction.
LEMMA CancelIs ==
    ASSUME NEW o, TakeCancel(o), UNCHANGED lastTxIndex
    PROVE  Cancelled(Core, Core', o)
<1>1. /\ o.user \in DOMAIN Core.s.publicToId <=> o.user \in Registered
      /\ Core.s.markets = markets /\ Core.s.orders = orders
      /\ Core.fault = fault
  BY DEF Core, ToProtobuf, Registered
<1>2. CASE o.market \in markets /\ o.user \in Registered /\ ProcessCancel(o)
  <2>1. /\ Core'.s.amounts = Drop(Core.s.amounts, o)
        /\ Core'.s.orders = [Core.s.orders EXCEPT ![o.user] = @ \ {o}]
        /\ Core'.s.assets = [Core.s.assets EXCEPT ![PayToken(o)][o.user] =
                                 @ + Cost(o, Core.s.amounts[o])]
        /\ Core'.s.heap = [Core.s.heap EXCEPT ![o.market][o.side] = @ \ {o}]
        /\ SameLoop(Core, Core') /\ SameAccounts(Core, Core')
    BY <1>2
    DEF ProcessCancel, Cancel, Forget, SameLoop, SameAccounts, SameUsers,
        SameListed, SameDeposits, SameWithdraws, accountVars, userVars,
        depositVars, withdrawVars, Core, ToProtobuf
  <2>2. ASSUME HasItsLevel(Core, o)
        PROVE  /\ LeavesLevel(Core, Core', o, Core.s.amounts[o])
               /\ Core'.s.finalId = [Core.s.finalId EXCEPT ![o.market] = @ + 1]
               /\ Core'.fault = "none"
               /\ Core'.modified = Core.modified \cup {o.market}
    <3>1. HasLevel(o.market, o.side, o.price)
      BY <2>2 DEF HasItsLevel, HasLevel, Core, ToProtobuf
    <3>2. /\ RemoveFromBook(o.market, o.side, o.price, amounts[o])
          /\ UseIds(o.market, 1) /\ fault' = "none"
      BY <1>2, <3>1 DEF ProcessCancel, Cancel, Idle
    <3>3. modified' = modified \cup {o.market}
      BY <1>2, <3>2 DEF ProcessCancel
    <3>4. LeavesLevel(Core, Core', o, Core.s.amounts[o])
      BY <3>2
      DEF RemoveFromBook, DeleteLevel, SetLevel, LeavesLevel, Core, ToProtobuf
    <3> QED
      BY <3>2, <3>3, <3>4 DEF UseIds, Core, ToProtobuf
  <2>3. ASSUME ~ HasItsLevel(Core, o)
        PROVE  /\ Core'.fault = "level"
               /\ Core'.s.book = Core.s.book /\ Core'.s.finalId = Core.s.finalId
               /\ Core'.modified = Core.modified
    <3>1. ~ HasLevel(o.market, o.side, o.price)
      BY <2>3 DEF HasItsLevel, HasLevel, Core, ToProtobuf
    <3>2. fault' = "level" /\ UNCHANGED <<book, finalId>>
      BY <1>2, <3>1 DEF ProcessCancel, Cancel
    <3>3. modified' = modified
      BY <1>2, <3>2 DEF ProcessCancel
    <3> QED
      BY <3>2, <3>3 DEF Core, ToProtobuf
  <2>4. o \in orders[o.user]
    BY <1>2 DEF ProcessCancel, Cancel
  <2>5. TakesCancel(Core, Core', o)
    BY <2>1, <2>2, <2>3 DEF TakesCancel
  <2> QED
    BY <1>1, <1>2, <2>4, <2>5 DEF Cancelled
<1>3. CASE o.market \in markets /\ o.user \in Registered /\ CancelIgnored(o)
  <2>1. SameAccounts(Core, Core') /\ SameEngine(Core, Core')
        /\ Core'.fault = Core.fault
    BY <1>3
    DEF CancelIgnored, zexVars, engineVars, accountVars, bookVars, idVars,
        userVars, depositVars, withdrawVars, Core, ToProtobuf, SameAccounts,
        SameUsers, SameListed, SameDeposits, SameWithdraws, SameEngine,
        SameBook, SameLoop
  <2> QED
    BY <1>1, <1>3, <2>1 DEF Cancelled, CancelIgnored
<1>4. CASE ~ (o.market \in markets /\ o.user \in Registered)
  <2>1. ProcessCancelFault(o.user, o.market)
    BY <1>4 DEF TakeCancel
  <2>2. SameAccounts(Core, Core') /\ SameEngine(Core, Core')
        /\ Core'.fault = "key"
    BY <2>1
    DEF ProcessCancelFault, KeyFault, bookkeeping, accountVars, bookVars,
        idVars, userVars, depositVars, withdrawVars, Core, ToProtobuf,
        SameAccounts, SameUsers, SameListed, SameDeposits, SameWithdraws,
        SameEngine, SameBook, SameLoop
  <2> QED
    BY <1>1, <1>4, <2>2 DEF Cancelled
<1> QED
  BY <1>2, <1>3, <1>4 DEF TakeCancel

-----------------------------------------------------------------------------
(* The matching loop *)

\* The heaps hold orders of the batches, each on its side.
OrderHeaps(hp) ==
    /\ hp \in [Markets -> [Sides -> SUBSET BatchOrders]]
    /\ \A m \in Markets : \A side \in Sides : \A o \in hp[m][side] :
           o.side = side

\* The orders of batches are orders.
LEMMA BatchOrdersAreOrders == BatchOrders \subseteq Order
<1> SUFFICES ASSUME NEW o \in BatchOrders
             PROVE  o \in Order
  OBVIOUS
<1>1. PICK b \in Batches : o \in OrdersOf(b)
  BY DEF BatchOrders
<1>2. PICK i \in DOMAIN b.txs : /\ b.txs[i].kind \in {"order", "cancel"}
                                /\ o = b.txs[i].order
  BY <1>1 DEF OrdersOf
<1>3. IsTransaction(b.txs[i])
  BY RecoveryAssumption
<1> QED
  BY <1>2, <1>3 DEF IsTransaction

\* Two orders of one side are in the same place in a heap only if they are one.
LEMMA AheadOnce ==
    ASSUME NEW x \in BatchOrders, NEW y \in BatchOrders, x.side = y.side,
           Ahead(x, y), Ahead(y, x)
    PROVE  x = y
<1>1. /\ x.price \in Int /\ y.price \in Int
      /\ x.index \in Nat /\ y.index \in Nat
  BY BatchOrdersAreOrders DEF Order
<1>2. TxBytes(x) \in Nat /\ TxBytes(y) \in Nat
  BY RecoveryAssumption
<1>3. TxBytes(x) <= TxBytes(y) /\ TxBytes(y) <= TxBytes(x)
  BY <1>1 DEF Ahead
<1>4. TxBytes(x) = TxBytes(y)
  BY <1>2, <1>3
<1> QED
  BY <1>4, RecoveryAssumption

\* A heap has one order to give.
LEMMA HeadIs ==
    ASSUME NEW hp, OrderHeaps(hp), NEW m \in Markets, NEW side \in Sides,
           NEW h \in hp[m][side], \A x \in hp[m][side] : Ahead(h, x)
    PROVE  HeadOf(hp[m][side]) = h
<1> DEFINE hs == hp[m][side]
           g  == HeadOf(hs)
<1>1. g \in hs /\ \A x \in hs : Ahead(g, x)
  BY DEF HeadOf
<1>2. /\ g \in BatchOrders /\ h \in BatchOrders
      /\ g.side = side /\ h.side = side
  BY <1>1 DEF OrderHeaps
<1>3. Ahead(g, h) /\ Ahead(h, g)
  BY <1>1
<1> QED
  BY <1>2, <1>3, AheadOnce

\* A trade, against the order the heap gives.
LEMMA TradeIs ==
    ASSUME NEW h, ExecuteTrade(h)
    PROVE  Trades(Core, Core', h)
<1> DEFINE q == TradeAmount(h)
           o == taker
           m == taker.market
           all == ~ (remaining < amounts[h])
<1>1. /\ Core.s.amounts = amounts /\ Core.s.book = book
      /\ Core.s.assets = assets /\ Core.s.heap = heap
      /\ Core.s.orders = orders /\ Core.taker = taker
      /\ Core.remaining = remaining /\ Core.s.finalId = finalId
      /\ Core.fault = fault
  BY DEF Core, ToProtobuf
<1>2. /\ Core'.s.amounts = amounts' /\ Core'.s.book = book'
      /\ Core'.s.assets = assets' /\ Core'.s.heap = heap'
      /\ Core'.s.orders = orders' /\ Core'.s.finalId = finalId'
      /\ Core'.remaining = remaining' /\ Core'.fault = fault'
  BY DEF Core, ToProtobuf
<1>3. q = IF all THEN amounts[h] ELSE remaining
  BY DEF TradeAmount
<1>4. IF amounts[h] > q
        THEN /\ book' = [book EXCEPT ![m][h.side] =
                            Put(@, h.price,
                                Rounded(book[m][h.side][h.price] - q))]
             /\ amounts' = [amounts EXCEPT ![h] = @ - q]
             /\ heap' = heap /\ orders' = orders
        ELSE /\ heap' = [heap EXCEPT ![m][h.side] = @ \ {h}]
             /\ book' = [book EXCEPT ![m][h.side] =
                             IF book[m][h.side][h.price] <= q
                               THEN Drop(@, h.price)
                               ELSE Put(@, h.price,
                                        Rounded(book[m][h.side][h.price] - q))]
             /\ amounts' = Drop(amounts, h)
             /\ orders' = [orders EXCEPT ![h.user] = @ \ {h}]
  <2>1. CASE amounts[h] > q
    BY <2>1 DEF ExecuteTrade, SetLevel
  <2>2. CASE ~ (amounts[h] > q)
    BY <2>2 DEF ExecuteTrade, RemoveFromBook, DeleteLevel, SetLevel, Forget
  <2> QED
    BY <2>1, <2>2
<1>5. Settle(taker, h, q, h.price) /\ remaining' = remaining - q
  BY DEF ExecuteTrade
<1>6. finalId' = [finalId EXCEPT ![m] = @ + 2] /\ fault' = fault
  BY DEF ExecuteTrade, UseIds
<1> HIDE DEF q
<1> QED
  BY <1>1, <1>2, <1>3, <1>4, <1>5, <1>6 DEF Trades, Settle

\* One whose level is missing.
LEMMA TradeFaultIs ==
    ASSUME NEW h, ExecuteTradeFault(h)
    PROVE  TradeDies(Core, Core', h)
  BY DEF ExecuteTradeFault, UseIds, TradeDies, Core, ToProtobuf

\* The match, while it goes on and when it is over.
LEMMA MatchIs ==
    ASSUME Match, OrderHeaps(heap), taker \in BatchOrders,
           UNCHANGED lastTxIndex
    PROVE  Matches(Core, Core')
<1> DEFINE m == taker.market
           side == Other(taker.side)
<1>1. m \in Markets /\ side \in Sides
  BY BatchOrdersAreOrders DEF Order, Other, Sides
<1>2. /\ Opposite(Core) = heap[m][side] /\ Core.remaining = remaining
      /\ Core.taker = taker /\ Core.s.book = book
  BY DEF Opposite, Core, ToProtobuf
<1>3. SameAccounts(Core, Core')
  BY DEF Match, ProcessTrade, ProcessMatched, accountVars, userVars,
         depositVars, withdrawVars, SameAccounts, SameUsers, SameListed,
         SameDeposits, SameWithdraws, Core, ToProtobuf
<1>4. CASE ProcessTrade
  <2>1. PICK h \in heap[m][side] : ExecuteTrade(h) \/ ExecuteTradeFault(h)
    BY <1>4 DEF ProcessTrade
  <2>2. /\ remaining > 0 /\ h \in Heads(m, side) /\ Crosses(taker, h)
        /\ UNCHANGED taker
    BY <2>1 DEF ExecuteTrade, ExecuteTradeFault
  <2>3. HeadOf(Opposite(Core)) = h
    BY <1>1, <1>2, <2>2, HeadIs DEF Heads
  <2>4. GoesOn(Core)
    BY <1>2, <2>1, <2>2 DEF GoesOn
  <2>5. IF h.price \in DOMAIN Core.s.book[m][h.side]
          THEN Trades(Core, Core', h) ELSE TradeDies(Core, Core', h)
    <3>1. CASE h.price \in DOMAIN book[m][h.side]
      <4>1. ExecuteTrade(h)
        BY <2>1, <3>1 DEF ExecuteTradeFault, HasLevel
      <4> QED
        BY <1>2, <3>1, <4>1, TradeIs
    <3>2. CASE ~ (h.price \in DOMAIN book[m][h.side])
      <4>1. ExecuteTradeFault(h)
        BY <2>1, <3>2 DEF ExecuteTrade, HasLevel
      <4> QED
        BY <1>2, <3>2, <4>1, TradeFaultIs
    <3> QED
      BY <3>1, <3>2
  <2>6. Core'.taker = Core.taker /\ Core'.modified = Core.modified
    BY <1>4, <2>2 DEF ProcessTrade, Core
  <2>7. Iterates(Core, Core')
    BY <1>2, <2>3, <2>5, <2>6 DEF Iterates
  <2> QED
    BY <1>3, <2>4, <2>7 DEF Matches
<1>5. CASE ProcessMatched
  <2>1. ~ GoesOn(Core)
    BY <1>2, <1>5 DEF ProcessMatched, FinishMatch, MatchOver, GoesOn
  <2>2. IF remaining > 0
          THEN Rests(Core, Core', taker, remaining)
          ELSE /\ Core'.s.assets = Core.s.assets
               /\ Core'.s.amounts = Core.s.amounts
               /\ Core'.s.orders = Core.s.orders
               /\ Core'.s.heap = Core.s.heap
               /\ Core'.s.book = Core.s.book
    <3>1. CASE remaining > 0
      BY <1>5, <3>1, RestIs DEF ProcessMatched, FinishMatch
    <3>2. CASE ~ (remaining > 0)
      BY <1>5, <3>2
      DEF ProcessMatched, FinishMatch, bookVars, Core, ToProtobuf
    <3> QED
      BY <3>1, <3>2
  <2>3. /\ Core'.taker = NoTaker /\ Core'.remaining = 0
        /\ Core'.s.finalId = Core.s.finalId /\ Core'.fault = Core.fault
        /\ Core'.modified = Core.modified \cup {taker.market}
    BY <1>5 DEF ProcessMatched, FinishMatch, Core, ToProtobuf
  <2>4. Completes(Core, Core')
    BY <1>2, <2>2, <2>3 DEF Completes
  <2> QED
    BY <1>3, <2>1, <2>4 DEF Matches
<1> QED
  BY <1>4, <1>5 DEF Match

\* What there is of a node has the fields of one.
LEMMA CoreIsNode == IsNode(Core) /\ IsNode(Core)'
  BY DEF IsNode, IsSaved, Core, ToProtobuf

\* No handler numbers events.
LEMMA EventsKept ==
    ASSUME HandleTransaction \/ ContinueMatch
    PROVE  SameEvents(Core, Core')
  BY DEF HandleTransaction, ContinueMatch, loopVars, Handle, ProcessRegister,
         Register, ProcessDeposit, Deposit, DepositReturns, ProcessWithdraw,
         Withdraw, WithdrawFault, KeyFault, WithdrawReturns, TakeOrder,
         ProcessOrder, MatchInstantly, Place, ProcessBadNonce, TakeCancel,
         ProcessCancel, Cancel, CancelIgnored, ProcessCancelFault, Match,
         ProcessTrade, ExecuteTrade, ExecuteTradeFault, ProcessMatched,
         FinishMatch, bookkeeping, zexVars, engineVars, idVars, SameEvents,
         Core, ToProtobuf

\* What the specification does of a batch is a step of it.
LEMMA StepIs ==
    ASSUME HandleTransaction \/ ContinueMatch, OrderHeaps(heap),
           taker # NoTaker => taker \in BatchOrders,
           log[after] \in Batches, pos \in Nat
    PROVE  Step(Core, Core', log[after])
<1>1. IsNode(Core') /\ SameEvents(Core, Core')
  BY CoreIsNode, EventsKept
<1>2. /\ Core.taker = taker /\ Core.pos = pos /\ Core'.pos = pos'
      /\ Core.fault = fault /\ UNCHANGED lastTxIndex
  BY DEF Core, HandleTransaction, ContinueMatch, loopVars
<1>3. CASE HandleTransaction
  <2> DEFINE tx == log[after].txs[pos + 1]
  <2>1. Handle(tx) /\ pos' = pos + 1
    BY <1>3 DEF HandleTransaction
  <2>2. taker = NoTaker /\ fault = "none"
    BY <2>1 DEF Handle, ProcessRegister, ProcessDeposit, DepositReturns,
       ProcessWithdraw, WithdrawReturns, TakeOrder, ProcessOrder,
       ProcessBadNonce, TakeCancel, ProcessCancel, CancelIgnored,
       ProcessCancelFault, Idle
  <2>3. IsTransaction(tx) /\ pos + 1 \in DOMAIN log[after].txs
    <3>1. /\ Len(log[after].txs) \in Nat
          /\ DOMAIN log[after].txs = 1 .. Len(log[after].txs)
          /\ \A i \in DOMAIN log[after].txs : IsTransaction(log[after].txs[i])
      BY RecoveryAssumption
    <3>2. pos < Len(log[after].txs)
      BY <1>3 DEF HandleTransaction
    <3>3. pos + 1 \in DOMAIN log[after].txs
      BY <3>1, <3>2
    <3> QED
      BY <3>1, <3>3
  <2> HIDE DEF tx
  <2>4. tx.kind = "withdraw" => tx.withdraw.amount \in Int
    BY <2>3, EntryAmounts DEF IsTransaction
  <2>5. tx.kind \in {"order", "cancel"} => tx.order \in Order
    BY <2>3 DEF IsTransaction
  <2>6. Handles(Core, Core', tx)
    <3>1. ASSUME tx.kind = "register", ProcessRegister(tx.user)
          PROVE  Handles(Core, Core', tx)
      BY <1>2, <3>1, RegisterIs DEF Handles
    <3>2. ASSUME tx.kind = "deposit",
                 ProcessDeposit(tx.deposit) \/ DepositReturns(tx.deposit)
          PROVE  Handles(Core, Core', tx)
      BY <1>2, <3>2, DepositIs DEF Handles
    <3>3. ASSUME tx.kind = "withdraw",
                 ProcessWithdraw(tx.withdraw) \/ WithdrawReturns(tx.withdraw)
          PROVE  Handles(Core, Core', tx)
      BY <1>2, <2>4, <3>3, WithdrawIs DEF Handles
    <3>4. ASSUME tx.kind = "order", TakeOrder(tx.order)
          PROVE  Handles(Core, Core', tx)
      BY <1>2, <2>5, <3>4, OrderIs DEF Handles
    <3>5. ASSUME tx.kind = "cancel", TakeCancel(tx.order)
          PROVE  Handles(Core, Core', tx)
      BY <1>2, <3>5, CancelIs DEF Handles
    <3> QED
      BY <2>1, <3>1, <3>2, <3>3, <3>4, <3>5 DEF Handle
  <2> QED
    BY <1>1, <1>2, <2>1, <2>2, <2>3, <2>6 DEF Step, tx
<1>4. CASE ContinueMatch
  <2>1. Match /\ taker # NoTaker /\ fault = "none" /\ pos' = pos
    BY <1>4 DEF ContinueMatch, loopVars, Match, ProcessTrade, ProcessMatched
  <2>2. Matches(Core, Core')
    BY <1>2, <2>1, MatchIs
  <2> QED
    BY <1>1, <1>2, <2>1, <2>2 DEF Step
<1> QED
  BY <1>3, <1>4

-----------------------------------------------------------------------------
(* A step has one outcome *)

\* What is saved is told by its fields.
LEMMA SavedOnce ==
    ASSUME NEW c, NEW d, IsSaved(c.s), IsSaved(d.s),
           SameEvents(c, d), SameAccounts(c, d), SameBook(c, d),
           d.s.assets = c.s.assets
    PROVE  c.s = d.s
<1> DEFINE p == c.s
           q == d.s
<1>1. /\ p.lastTxIndex = q.lastTxIndex /\ p.firstId = q.firstId
      /\ p.lastUpdateId = q.lastUpdateId /\ p.finalId = q.finalId
      /\ p.amounts = q.amounts /\ p.orders = q.orders
      /\ p.heap = q.heap /\ p.book = q.book /\ p.assets = q.assets
      /\ p.publicToId = q.publicToId /\ p.idToPublic = q.idToPublic
      /\ p.nonces = q.nonces /\ p.listed = q.listed /\ p.markets = q.markets
      /\ p.contractToId = q.contractToId /\ p.lastTokenId = q.lastTokenId
      /\ p.decimals = q.decimals /\ p.deposits = q.deposits
      /\ p.userDeposits = q.userDeposits /\ p.withdraws = q.withdraws
      /\ p.userWithdraws = q.userWithdraws
      /\ p.withdrawNonce = q.withdrawNonce
      /\ p.userWithdrawNonce = q.userWithdrawNonce
  BY DEF SameEvents, SameAccounts, SameUsers, SameListed, SameDeposits,
         SameWithdraws, SameBook
<1>2. IsSaved(p) /\ IsSaved(q)
  OBVIOUS
<1> HIDE DEF p, q
<1>3. p = q
  BY <1>1, <1>2 DEF IsSaved
<1> QED
  BY <1>3 DEF p, q

\* So is a node.
LEMMA NodeOnce ==
    ASSUME NEW c, NEW d, IsNode(c), IsNode(d),
           SameEvents(c, d), SameAccounts(c, d), SameEngine(c, d),
           d.fault = c.fault, d.pos = c.pos
    PROVE  c = d
<1>1. c.s = d.s
  BY SavedOnce DEF IsNode, SameEngine
<1>2. /\ c.ids = d.ids /\ c.taker = d.taker /\ c.remaining = d.remaining
      /\ c.modified = d.modified
  BY DEF SameAccounts, SameUsers, SameEngine, SameLoop
<1> QED
  BY <1>1, <1>2 DEF IsNode

Agree(d, e) ==
    SameAccounts(d, e) /\ SameEngine(d, e) /\ e.fault = d.fault

\* A registration has one outcome.
LEMMA RegistersOnce ==
    ASSUME NEW c, NEW d, NEW e, NEW u, Registers(c, d, u), Registers(c, e, u)
    PROVE  Agree(d, e)
  BY DEF Registers, Agree, SameAccounts, SameUsers, SameListed, SameDeposits,
         SameWithdraws, SameEngine, SameBook, SameLoop

\* So has a deposit.
LEMMA DepositedOnce ==
    ASSUME NEW c, NEW d, NEW e, NEW r, DepositRuns(c, d, r), DepositRuns(c, e, r)
    PROVE  Agree(d, e)
<1> DEFINE ignored ==
        r.user < 1 \/ c.ids < r.user \/ r.key \in c.s.deposits[r.chain]
<1>1. CASE ignored
  BY <1>1
  DEF DepositRuns, Agree, SameAccounts, SameUsers, SameListed, SameDeposits,
      SameWithdraws, SameEngine, SameBook, SameLoop
<1>2. CASE ~ ignored
  <2>1. TakesDeposit(c, d, r) /\ TakesDeposit(c, e, r)
    BY <1>2 DEF DepositRuns
  <2>2. /\ d.s.contractToId = e.s.contractToId
        /\ d.s.lastTokenId = e.s.lastTokenId /\ d.s.decimals = e.s.decimals
        /\ d.s.deposits = e.s.deposits
        /\ d.s.userDeposits = e.s.userDeposits
    BY <2>1 DEF TakesDeposit
  <2>3. d.s.assets = e.s.assets /\ SameListed(d, e)
    BY <2>1 DEF TakesDeposit, SameListed
  <2>4. /\ SameUsers(d, e) /\ SameWithdraws(d, e) /\ SameBook(d, e)
        /\ SameLoop(d, e) /\ d.s.nonces = e.s.nonces
        /\ d.modified = e.modified /\ d.fault = e.fault
    BY <2>1
    DEF TakesDeposit, SameUsers, SameWithdraws, SameBook, SameLoop
  <2> QED
    BY <2>2, <2>3, <2>4 DEF Agree, SameAccounts, SameDeposits, SameEngine
<1> QED
  BY <1>1, <1>2

\* So has a withdrawal.
LEMMA WithdrawnOnce ==
    ASSUME NEW c, NEW d, NEW e, NEW w, WithdrawRuns(c, d, w), WithdrawRuns(c, e, w)
    PROVE  Agree(d, e)
<1> DEFINE granted ==
        /\ w.amount > 0 /\ InTurn(c, w) /\ w.token \in c.s.listed
        /\ c.s.assets[w.token][w.user] >= w.amount
<1>1. CASE ~ granted
  BY <1>1
  DEF WithdrawRuns, Agree, SameAccounts, SameUsers, SameListed, SameDeposits,
      SameWithdraws, SameEngine, SameBook, SameLoop
<1>2. CASE granted
  <2>1. TakesWithdraw(c, d, w) /\ TakesWithdraw(c, e, w)
    BY <1>2 DEF WithdrawRuns
  <2>2. SameWithdraws(d, e) /\ d.s.assets = e.s.assets
    BY <2>1 DEF TakesWithdraw, SameWithdraws
  <2>3. /\ SameUsers(d, e) /\ SameListed(d, e) /\ SameDeposits(d, e)
        /\ SameBook(d, e) /\ SameLoop(d, e) /\ d.s.nonces = e.s.nonces
        /\ d.modified = e.modified /\ d.fault = e.fault
    BY <2>1
    DEF TakesWithdraw, SameUsers, SameListed, SameDeposits, SameBook, SameLoop
  <2> QED
    BY <2>2, <2>3 DEF Agree, SameAccounts, SameEngine
<1> QED
  BY <1>1, <1>2

\* So has the entry of an order whose nonce was accepted.
LEMMA EnteredOnce ==
    ASSUME NEW c, NEW d, NEW e, NEW o, Entered(c, d, o), Entered(c, e, o)
    PROVE  SameEngine(d, e)
  BY DEF Entered, Rests, SameEngine, SameBook, SameLoop

\* So has an order.
LEMMA OrderedOnce ==
    ASSUME NEW c, NEW d, NEW e, NEW o, Ordered(c, d, o), Ordered(c, e, o)
    PROVE  Agree(d, e)
<1>1. SameEngine(d, e)
  <2>1. CASE o.user \in DOMAIN c.s.publicToId /\ o.nonce = c.s.nonces[o.user]
    BY <2>1, EnteredOnce DEF Ordered
  <2>2. CASE ~ (/\ o.user \in DOMAIN c.s.publicToId
                /\ o.nonce = c.s.nonces[o.user])
    BY <2>2 DEF Ordered, SameEngine, SameBook, SameLoop
  <2> QED
    BY <2>1, <2>2
<1> QED
  BY <1>1 DEF Ordered, Agree, SameAccounts, SameUsers, SameListed,
     SameDeposits, SameWithdraws

\* So has the cancel of an order that is there.
LEMMA TakesCancelOnce ==
    ASSUME NEW c, NEW d, NEW e, NEW o, TakesCancel(c, d, o),
           TakesCancel(c, e, o)
    PROVE  Agree(d, e)
<1>1. SameAccounts(d, e) /\ SameLoop(d, e)
  BY DEF TakesCancel, SameAccounts, SameUsers, SameListed, SameDeposits,
         SameWithdraws, SameLoop
<1>2. /\ d.s.amounts = e.s.amounts /\ d.s.orders = e.s.orders
      /\ d.s.assets = e.s.assets /\ d.s.heap = e.s.heap
  BY DEF TakesCancel
<1>3. /\ d.s.book = e.s.book /\ d.s.finalId = e.s.finalId
      /\ d.fault = e.fault /\ d.modified = e.modified
  <2>1. CASE HasItsLevel(c, o)
    BY <2>1 DEF TakesCancel, LeavesLevel
  <2>2. CASE ~ HasItsLevel(c, o)
    BY <2>2 DEF TakesCancel
  <2> QED
    BY <2>1, <2>2
<1> QED
  BY <1>1, <1>2, <1>3 DEF Agree, SameEngine, SameBook

\* So has any cancel.
LEMMA CancelledOnce ==
    ASSUME NEW c, NEW d, NEW e, NEW o, Cancelled(c, d, o), Cancelled(c, e, o)
    PROVE  Agree(d, e)
<1>1. CASE /\ o.market \in c.s.markets /\ o.user \in DOMAIN c.s.publicToId
           /\ o \in c.s.orders[o.user]
  BY <1>1, TakesCancelOnce DEF Cancelled
<1>2. CASE ~ (/\ o.market \in c.s.markets /\ o.user \in DOMAIN c.s.publicToId
              /\ o \in c.s.orders[o.user])
  BY <1>2 DEF Cancelled, Agree, SameAccounts, SameUsers, SameListed,
     SameDeposits, SameWithdraws, SameEngine, SameBook, SameLoop
<1> QED
  BY <1>1, <1>2

\* So has an iteration of the matching loop.
LEMMA IteratesOnce ==
    ASSUME NEW c, NEW d, NEW e, Iterates(c, d), Iterates(c, e)
    PROVE  SameEngine(d, e) /\ e.fault = d.fault
<1> DEFINE h == HeadOf(Opposite(c))
<1>1. CASE h.price \in DOMAIN c.s.book[c.taker.market][h.side]
  <2>1. Trades(c, d, h) /\ Trades(c, e, h)
    BY <1>1 DEF Iterates
  <2>2. /\ d.s.heap = e.s.heap /\ d.s.book = e.s.book
        /\ d.s.amounts = e.s.amounts /\ d.s.orders = e.s.orders
    <3> HIDE DEF h
    <3> QED
      BY <2>1 DEF Trades
  <2>3. /\ d.s.assets = e.s.assets /\ d.remaining = e.remaining
        /\ d.s.finalId = e.s.finalId /\ d.fault = e.fault
    <3> HIDE DEF h
    <3> QED
      BY <2>1 DEF Trades
  <2>4. d.taker = e.taker /\ d.modified = e.modified
    BY DEF Iterates
  <2> QED
    BY <2>2, <2>3, <2>4 DEF SameEngine, SameBook, SameLoop
<1>2. CASE ~ (h.price \in DOMAIN c.s.book[c.taker.market][h.side])
  <2>1. TradeDies(c, d, h) /\ TradeDies(c, e, h)
    BY <1>2 DEF Iterates
  <2>2. d.taker = e.taker /\ d.modified = e.modified
    BY DEF Iterates
  <2> HIDE DEF h
  <2> QED
    BY <2>1, <2>2 DEF TradeDies, SameEngine, SameBook, SameLoop
<1> QED
  BY <1>1, <1>2

\* So has a step of the matching loop, be it an iteration or its end.
LEMMA MatchesOnce ==
    ASSUME NEW c, NEW d, NEW e, Matches(c, d), Matches(c, e)
    PROVE  Agree(d, e)
<1>1. SameAccounts(d, e)
  BY DEF Matches, SameAccounts, SameUsers, SameListed, SameDeposits,
         SameWithdraws
<1>2. CASE GoesOn(c)
  BY <1>1, <1>2, IteratesOnce DEF Matches, Agree
<1>3. CASE ~ GoesOn(c)
  <2>1. Completes(c, d) /\ Completes(c, e)
    BY <1>3 DEF Matches
  <2> QED
    BY <1>1, <2>1
    DEF Completes, Rests, Agree, SameEngine, SameBook, SameLoop
<1> QED
  BY <1>2, <1>3

\* No step of a batch has two outcomes.
LEMMA StepOnce ==
    ASSUME NEW b, NEW c, NEW d, NEW e, Step(c, d, b), Step(c, e, b)
    PROVE  d = e
<1> DEFINE tx == b.txs[c.pos + 1]
<1>1. Agree(d, e)
  <2>1. CASE c.taker = NoTaker
    <3>1. Handles(c, d, tx) /\ Handles(c, e, tx)
      BY <2>1 DEF Step
    <3> HIDE DEF tx
    <3> QED
      BY <3>1, RegistersOnce, DepositedOnce, WithdrawnOnce, OrderedOnce,
         CancelledOnce
      DEF Handles
  <2>2. CASE c.taker # NoTaker
    BY <2>2, MatchesOnce DEF Step
  <2> QED
    BY <2>1, <2>2
<1>2. /\ IsNode(d) /\ IsNode(e) /\ d.pos = e.pos
      /\ SameEvents(c, d) /\ SameEvents(c, e)
  BY DEF Step
<1>3. SameEvents(d, e)
  BY <1>2 DEF SameEvents
<1> QED
  BY <1>1, <1>2, <1>3, NodeOnce DEF Agree

-----------------------------------------------------------------------------
(* A batch has one outcome *)

\* A node that is through with a batch does nothing more of it.
LEMMA OverEnds ==
    ASSUME NEW b \in Batches, NEW c, NEW d, Over(c, b)
    PROVE  ~ Step(c, d, b)
<1>1. Len(b.txs) \in Nat /\ DOMAIN b.txs = 1 .. Len(b.txs)
  BY RecoveryAssumption
<1>2. ASSUME Done(c, b), c.pos + 1 \in DOMAIN b.txs
      PROVE  FALSE
  BY <1>1, <1>2 DEF Done
<1> QED
  BY <1>2 DEF Over, Step, Done

\* No steps lead where they began.
LEMMA LeadsSelf == ASSUME NEW b, NEW c PROVE Leads(b, c, c)
<1> DEFINE p == [k \in Nat |-> c]
<1>1. p[0] = c /\ Path(b, p, 0)
  BY DEF Path
<1> QED
  BY <1>1 DEF Leads

\* One more step leads on.
LEMMA LeadsExtends ==
    ASSUME NEW b, NEW c, NEW d, NEW e, Leads(b, c, d), Step(d, e, b)
    PROVE  Leads(b, c, e)
<1>1. PICK n \in Nat : \E p : p[0] = c /\ p[n] = d /\ Path(b, p, n)
  BY DEF Leads
<1>2. PICK p : p[0] = c /\ p[n] = d /\ Path(b, p, n)
  BY <1>1
<1> DEFINE q == [k \in Nat |-> IF k <= n THEN p[k] ELSE e]
<1>3. q[0] = c /\ q[n + 1] = e
  BY <1>2
<1>4. ASSUME NEW k \in Nat, k < n + 1
      PROVE  Step(q[k], q[k + 1], b)
  <2>1. CASE k = n
    <3>1. q[k] = d /\ q[k + 1] = e
      BY <1>2, <2>1
    <3> HIDE DEF q
    <3> QED
      BY <3>1
  <2>2. CASE k < n
    <3>1. q[k] = p[k] /\ q[k + 1] = p[k + 1]
      BY <2>2
    <3> HIDE DEF q
    <3> QED
      BY <1>2, <2>2, <3>1 DEF Path
  <2> QED
    BY <1>4, <2>1, <2>2
<1> HIDE DEF q
<1>5. n + 1 \in Nat /\ Path(b, q, n + 1)
  BY <1>4 DEF Path
<1> QED
  BY <1>3, <1>5 DEF Leads

\* Steps from one node are the same steps.
LEMMA PathOnce ==
    ASSUME NEW b, NEW n \in Nat, NEW p, NEW m \in Nat, NEW q, p[0] = q[0],
           Path(b, p, n), Path(b, q, m)
    PROVE  \A k \in Nat : k <= n /\ k <= m => p[k] = q[k]
<1> DEFINE bad == {k \in Nat : k <= n /\ k <= m /\ p[k] # q[k]}
<1>1. SUFFICES ASSUME bad # {}
               PROVE  FALSE
  OBVIOUS
<1>2. PICK k \in bad : \A j \in bad : k <= j
  BY <1>1, LeastExists
<1>3. k \in Nat /\ k <= n /\ k <= m /\ p[k] # q[k] /\ k # 0
  OBVIOUS
<1>4. k - 1 \in Nat /\ k - 1 < n /\ k - 1 < m /\ (k - 1) + 1 = k
  BY <1>3
<1>5. p[k - 1] = q[k - 1]
  <2>1. k - 1 \notin bad
    BY <1>2, <1>3
  <2> QED
    BY <1>3, <1>4, <2>1
<1> HIDE DEF bad
<1>6. Step(p[k - 1], p[k], b) /\ Step(q[k - 1], q[k], b)
  BY <1>4 DEF Path
<1>7. p[k] = q[k]
  BY <1>5, <1>6, StepOnce
<1> QED
  BY <1>3, <1>7

\* Two nodes that began alike, and are through with the batch, are alike.
LEMMA LeadsOnce ==
    ASSUME NEW b \in Batches, NEW c, NEW d, NEW e,
           Leads(b, c, d), Over(d, b), Leads(b, c, e), Over(e, b)
    PROVE  d = e
<1>1. PICK n \in Nat : \E p : p[0] = c /\ p[n] = d /\ Path(b, p, n)
  BY DEF Leads
<1>2. PICK p : p[0] = c /\ p[n] = d /\ Path(b, p, n)
  BY <1>1
<1>3. PICK m \in Nat : \E q : q[0] = c /\ q[m] = e /\ Path(b, q, m)
  BY DEF Leads
<1>4. PICK q : q[0] = c /\ q[m] = e /\ Path(b, q, m)
  BY <1>3
<1>5. \A k \in Nat : k <= n /\ k <= m => p[k] = q[k]
  <2>1. p[0] = q[0]
    BY <1>2, <1>4
  <2> QED
    BY <1>2, <1>4, <2>1, PathOnce
<1>6. ~ (n < m)
  <2> SUFFICES ASSUME n < m
               PROVE  FALSE
    OBVIOUS
  <2>1. q[n] = d
    BY <1>2, <1>5
  <2>2. Step(q[n], q[n + 1], b)
    BY <1>4 DEF Path
  <2> QED
    BY <2>1, <2>2, OverEnds
<1>7. ~ (m < n)
  <2> SUFFICES ASSUME m < n
               PROVE  FALSE
    OBVIOUS
  <2>1. p[m] = e
    BY <1>4, <1>5
  <2>2. Step(p[m], p[m + 1], b)
    BY <1>2 DEF Path
  <2> QED
    BY <2>1, <2>2, OverEnds
<1>8. n = m
  BY <1>6, <1>7
<1> QED
  BY <1>2, <1>4, <1>5, <1>8

\* The end of a batch has one outcome.
LEMMA EndedOnce ==
    ASSUME NEW b, NEW i, NEW c, NEW d, NEW e, Ended(c, d, b, i),
           Ended(c, e, b, i)
    PROVE  d.s = e.s
<1>1. CASE b.bad
  BY <1>1 DEF Ended
<1>2. CASE ~ b.bad
  <2>1. /\ IsSaved(d.s) /\ IsSaved(e.s) /\ e.s.assets = d.s.assets
        /\ SameAccounts(c, d) /\ SameAccounts(c, e)
        /\ SameBook(c, d) /\ SameBook(c, e)
    BY <1>2 DEF Ended
  <2>2. SameEvents(d, e)
    BY <1>2 DEF Ended, SameEvents
  <2>3. SameAccounts(d, e) /\ SameBook(d, e)
    BY <2>1 DEF SameAccounts, SameUsers, SameListed, SameDeposits,
       SameWithdraws, SameBook
  <2> QED
    BY <2>1, <2>2, <2>3, SavedOnce
<1> QED
  BY <1>1, <1>2

\* So does the batch, and a node that handles it again comes to the same state.
LEMMA HandledOnce ==
    ASSUME NEW b \in Batches, NEW i, NEW p, NEW q, Handled(p, b, i, q),
           NEW c, Leads(b, Loaded(p), c), Over(c, b)
    PROVE  /\ Done(c, b)
           /\ \A d : Ended(c, d, b, i) => d.s = q
<1>1. PICK e, f : /\ Leads(b, Loaded(p), e)
                  /\ Done(e, b) /\ Ended(e, f, b, i) /\ q = f.s
  BY DEF Handled
<1>2. e = c
  BY <1>1, LeadsOnce DEF Over
<1> QED
  BY <1>1, <1>2, EndedOnce

-----------------------------------------------------------------------------
(* What makes a node's next step the one step there is *)

\* n is the largest of the ids in f, or 0 where there is none.
Counts(f, n) ==
    /\ n \in Nat
    /\ \A u \in DOMAIN f : f[u] \in 1 .. n
    /\ n = 0 \/ \E u \in DOMAIN f : f[u] = n

Sane(c) ==
    /\ OrderHeaps(c.s.heap)
    /\ Counts(c.s.publicToId, c.ids)
    /\ IF c.taker = NoTaker THEN c.remaining = 0 ELSE c.taker \in BatchOrders
    /\ c.pos \in Nat

WellSaved(p) ==
    /\ IsSaved(p)
    /\ OrderHeaps(p.heap)
    /\ \E n \in Nat : Counts(p.publicToId, n)

\* What from_protobuf computes.
LEMMA CountsMax ==
    ASSUME NEW f, NEW n, Counts(f, n)
    PROVE  Max({0} \cup Range(f)) = n
<1> DEFINE S == {0} \cup Range(f)
<1>1. n \in S /\ \A x \in S : x \in Nat /\ x <= n
  BY DEF Counts, Range
<1> HIDE DEF S
<1>2. Max(S) \in S /\ \A x \in S : x <= Max(S)
  BY <1>1 DEF Max
<1>3. n \in Nat /\ Max(S) \in Nat /\ n <= Max(S) /\ Max(S) <= n
  BY <1>1, <1>2
<1>4. Max(S) = n
  BY <1>3
<1> QED
  BY <1>4 DEF S

\* One more key has the next id.
LEMMA CountsPut ==
    ASSUME NEW f, NEW n, Counts(f, n), NEW u, u \notin DOMAIN f
    PROVE  Counts(Put(f, u, n + 1), n + 1)
<1> DEFINE g == Put(f, u, n + 1)
<1>1. /\ DOMAIN g = DOMAIN f \cup {u} /\ g[u] = n + 1
      /\ \A v \in DOMAIN f : g[v] = f[v]
  BY DEF Put
<1> HIDE DEF g
<1>2. n + 1 \in Nat /\ \A v \in DOMAIN f : f[v] \in 1 .. n
  BY DEF Counts
<1>3. Counts(g, n + 1)
  BY <1>1, <1>2 DEF Counts
<1> QED
  BY <1>3 DEF g

\* An order that comes to rest is put on its side.
LEMMA HeapsAdd ==
    ASSUME NEW hp, OrderHeaps(hp), NEW o \in BatchOrders
    PROVE  OrderHeaps([hp EXCEPT ![o.market][o.side] = @ \cup {o}])
<1> DEFINE hq == [hp EXCEPT ![o.market][o.side] = @ \cup {o}]
<1>1. o.market \in Markets /\ o.side \in Sides
  BY BatchOrdersAreOrders DEF Order
<1>2. hp \in [Markets -> [Sides -> SUBSET BatchOrders]]
  BY DEF OrderHeaps
<1>3. hq \in [Markets -> [Sides -> SUBSET BatchOrders]]
  BY <1>1, <1>2
<1>4. ASSUME NEW m \in Markets, NEW side \in Sides, NEW x \in hq[m][side]
      PROVE  x.side = side
  <2>1. hq[m][side] = IF m = o.market /\ side = o.side
                        THEN hp[m][side] \cup {o} ELSE hp[m][side]
    BY <1>1, <1>2
  <2> HIDE DEF hq
  <2>2. x \in hp[m][side] \/ (x = o /\ side = o.side)
    BY <1>4, <2>1
  <2> QED
    BY <2>2 DEF OrderHeaps
<1> HIDE DEF hq
<1>5. OrderHeaps(hq)
  BY <1>3, <1>4 DEF OrderHeaps
<1> QED
  BY <1>5 DEF hq

\* One that leaves leaves the rest.
LEMMA HeapsRemove ==
    ASSUME NEW hp, OrderHeaps(hp), NEW m, NEW side, NEW o
    PROVE  OrderHeaps([hp EXCEPT ![m][side] = @ \ {o}])
<1> DEFINE hq == [hp EXCEPT ![m][side] = @ \ {o}]
<1>2. hp \in [Markets -> [Sides -> SUBSET BatchOrders]]
  BY DEF OrderHeaps
<1>3. hq \in [Markets -> [Sides -> SUBSET BatchOrders]]
  BY <1>2
<1>4. ASSUME NEW k \in Markets, NEW t \in Sides, NEW x \in hq[k][t]
      PROVE  x.side = t
  <2>1. hq[k][t] \subseteq hp[k][t]
    BY <1>2
  <2> HIDE DEF hq
  <2>2. x \in hp[k][t]
    BY <1>4, <2>1
  <2> QED
    BY <2>2 DEF OrderHeaps
<1> HIDE DEF hq
<1>5. OrderHeaps(hq)
  BY <1>3, <1>4 DEF OrderHeaps
<1> QED
  BY <1>5 DEF hq

\* The heaps after a step.
LEMMA StepHeaps ==
    ASSUME NEW b \in Batches, NEW c, NEW d, Step(c, d, b), Sane(c)
    PROVE  OrderHeaps(d.s.heap)
<1>1. OrderHeaps(c.s.heap)
  BY DEF Sane
<1>2. ASSUME NEW o \in BatchOrders, NEW a, Rests(c, d, o, a)
      PROVE  OrderHeaps(d.s.heap)
  <2>1. d.s.heap = [c.s.heap EXCEPT ![o.market][o.side] = @ \cup {o}]
    BY <1>2 DEF Rests
  <2> QED
    BY <1>1, <2>1, HeapsAdd
<1>3. ASSUME NEW m, NEW side, NEW o,
             d.s.heap = [c.s.heap EXCEPT ![m][side] = @ \ {o}]
      PROVE  OrderHeaps(d.s.heap)
  <2>1. OrderHeaps([c.s.heap EXCEPT ![m][side] = @ \ {o}])
    BY <1>1, HeapsRemove
  <2> QED
    BY <1>3, <2>1
<1>4. CASE c.taker = NoTaker
  <2> DEFINE tx == b.txs[c.pos + 1]
  <2>1. Handles(c, d, tx) /\ c.pos + 1 \in DOMAIN b.txs
    BY <1>4 DEF Step
  <2>2. tx.kind \in {"order", "cancel"} => tx.order \in BatchOrders
    BY <2>1 DEF BatchOrders, OrdersOf
  <2> HIDE DEF tx
  <2>3. CASE d.s.heap = c.s.heap
    BY <1>1, <2>3
  <2>4. CASE tx.kind = "order" /\ Ordered(c, d, tx.order) /\ d.s.heap # c.s.heap
    <3>1. Rests(c, d, tx.order, tx.order.amount)
      BY <2>4 DEF Ordered, Entered, SameEngine, SameBook
    <3> QED
      BY <1>2, <2>2, <2>4, <3>1
  <2>5. CASE tx.kind = "cancel" /\ Cancelled(c, d, tx.order)
             /\ d.s.heap # c.s.heap
    <3>1. TakesCancel(c, d, tx.order)
      BY <2>5 DEF Cancelled, SameEngine, SameBook
    <3>2. d.s.heap = [c.s.heap EXCEPT
                          ![tx.order.market][tx.order.side] = @ \ {tx.order}]
      BY <3>1 DEF TakesCancel
    <3> QED
      BY <1>3, <3>2
  <2>6. CASE ~ tx.kind \in {"order", "cancel"}
    <3>1. d.s.heap = c.s.heap
      BY <2>1, <2>6
      DEF Handles, Registers, DepositRuns, TakesDeposit, WithdrawRuns,
          TakesWithdraw, SameEngine, SameBook
    <3> QED
      BY <1>1, <3>1
  <2> QED
    BY <2>1, <2>3, <2>4, <2>5, <2>6 DEF Handles
<1>5. CASE c.taker # NoTaker
  <2>1. Matches(c, d) /\ c.taker \in BatchOrders
    BY <1>5 DEF Step, Sane
  <2>2. CASE d.s.heap = c.s.heap
    BY <1>1, <2>2
  <2>3. CASE Iterates(c, d) /\ d.s.heap # c.s.heap
    <3> DEFINE h == HeadOf(Opposite(c))
    <3>1. Trades(c, d, h) \/ TradeDies(c, d, h)
      BY <2>3 DEF Iterates
    <3> HIDE DEF h
    <3>2. d.s.heap = [c.s.heap EXCEPT ![c.taker.market][h.side] = @ \ {h}]
      BY <2>3, <3>1 DEF Trades, TradeDies
    <3> QED
      BY <1>3, <3>2
  <2>4. CASE Completes(c, d) /\ d.s.heap # c.s.heap
    <3>1. Rests(c, d, c.taker, c.remaining)
      BY <2>4 DEF Completes
    <3> QED
      BY <1>2, <2>1, <3>1
  <2> QED
    BY <2>1, <2>2, <2>3, <2>4 DEF Matches
<1> QED
  BY <1>4, <1>5

\* The ids after a step.
LEMMA StepCounts ==
    ASSUME NEW b, NEW c, NEW d, Step(c, d, b), Sane(c)
    PROVE  Counts(d.s.publicToId, d.ids)
<1>1. Counts(c.s.publicToId, c.ids)
  BY DEF Sane
<1>2. CASE SameUsers(c, d)
  BY <1>1, <1>2 DEF SameUsers
<1>3. CASE ~ SameUsers(c, d)
  <2>1. PICK u : Registers(c, d, u)
    <3> DEFINE tx == b.txs[c.pos + 1]
    <3>1. ~ Matches(c, d)
      BY <1>3 DEF Matches, SameAccounts
    <3>2. Handles(c, d, tx)
      BY <3>1 DEF Step
    <3> HIDE DEF tx
    <3>3. /\ ~ DepositRuns(c, d, tx.deposit) /\ ~ WithdrawRuns(c, d, tx.withdraw)
          /\ ~ Ordered(c, d, tx.order)
      BY <1>3
      DEF DepositRuns, TakesDeposit, WithdrawRuns, TakesWithdraw, Ordered,
          SameAccounts
    <3>4. ~ Cancelled(c, d, tx.order)
      BY <1>3 DEF Cancelled, TakesCancel, SameAccounts
    <3> QED
      BY <3>2, <3>3, <3>4 DEF Handles
  <2>2. /\ u \notin DOMAIN c.s.publicToId /\ d.ids = c.ids + 1
        /\ d.s.publicToId = Put(c.s.publicToId, u, c.ids + 1)
    BY <1>3, <2>1 DEF Registers
  <2> QED
    BY <1>1, <2>2, CountsPut
<1> QED
  BY <1>2, <1>3

\* The order in the matching loop after a step.
LEMMA StepTaker ==
    ASSUME NEW b \in Batches, NEW c, NEW d, Step(c, d, b), Sane(c)
    PROVE  /\ IF d.taker = NoTaker THEN d.remaining = 0
                                   ELSE d.taker \in BatchOrders
           /\ d.pos \in Nat
<1>1. /\ IF c.taker = NoTaker THEN c.remaining = 0 ELSE c.taker \in BatchOrders
      /\ c.pos \in Nat
  BY DEF Sane
<1>2. d.pos \in Nat
  BY <1>1 DEF Step
<1>3. CASE SameLoop(c, d)
  BY <1>1, <1>2, <1>3 DEF SameLoop
<1>4. CASE ~ SameLoop(c, d)
  <2>1. CASE c.taker = NoTaker
    <3> DEFINE tx == b.txs[c.pos + 1]
    <3>1. Handles(c, d, tx) /\ c.pos + 1 \in DOMAIN b.txs
      BY <2>1 DEF Step
    <3>2. tx.kind \in {"order", "cancel"} => tx.order \in BatchOrders
      BY <3>1 DEF BatchOrders, OrdersOf
    <3> HIDE DEF tx
    <3>3. /\ ~ DepositRuns(c, d, tx.deposit) /\ ~ WithdrawRuns(c, d, tx.withdraw)
          /\ ~ Registers(c, d, tx.user)
      BY <1>4
      DEF Registers, DepositRuns, TakesDeposit, WithdrawRuns, TakesWithdraw,
          SameEngine
    <3>4. ~ Cancelled(c, d, tx.order)
      BY <1>4 DEF Cancelled, TakesCancel, SameEngine
    <3>5. tx.kind = "order" /\ Ordered(c, d, tx.order)
      BY <3>1, <3>3, <3>4 DEF Handles
    <3>6. d.taker = tx.order
      BY <1>4, <3>5 DEF Ordered, Entered, SameEngine
    <3>7. d.taker \in BatchOrders /\ d.taker # NoTaker
      BY <3>2, <3>5, <3>6, BatchOrdersAreOrders, NoTakerIsNoOrder
    <3> QED
      BY <1>2, <3>7
  <2>2. CASE c.taker # NoTaker
    <3>1. Matches(c, d)
      BY <2>2 DEF Step
    <3>2. Iterates(c, d) \/ Completes(c, d)
      BY <3>1 DEF Matches
    <3>3. CASE Iterates(c, d)
      <4>1. d.taker = c.taker
        BY <3>3 DEF Iterates
      <4> QED
        BY <1>1, <1>2, <2>2, <4>1
    <3>4. CASE Completes(c, d)
      BY <1>2, <3>4 DEF Completes
    <3> QED
      BY <3>2, <3>3, <3>4
  <2> QED
    BY <2>1, <2>2
<1> QED
  BY <1>3, <1>4

\* Every step of a batch leaves a node whose next step is determined.
LEMMA StepSane ==
    ASSUME NEW b \in Batches, NEW c, NEW d, Step(c, d, b), Sane(c)
    PROVE  Sane(d)
  BY StepHeaps, StepCounts, StepTaker DEF Sane

-----------------------------------------------------------------------------
(* The history *)

\* What a node that began the batch of number i began it with.
Before(rs, i) == IF i = 1 THEN FreshState ELSE rs[i - 1]

\* Every recorded state is the outcome of its batch after the state before it.
HistoryOf(lg, rs) ==
    /\ lg \in Seq(Batches)
    /\ \E S : rs \in Seq(S)
    /\ Len(rs) <= Len(lg)
    /\ \A i \in 1 .. Len(rs) :
           WellSaved(rs[i]) /\ Handled(Before(rs, i), lg[i], i, rs[i])

HistoryInv == HistoryOf(log, results)

\* The file holds a recorded state, that of the batch it names.
FileOf(f, rs) ==
    f.kind = "saved" =>
        /\ f.state.lastTxIndex \in 1 .. Len(rs)
        /\ f.state = rs[f.state.lastTxIndex]

FileInv == FileOf(file, results)

\* Between two batches with p.
AtRest(c, p) ==
    c.s = p /\ c.taker = NoTaker /\ c.fault = "none" /\ c.modified = {}

\* A node that is up has a recorded state, or is on its way from one through
\* the batch in hand.
NodeOf(lg, rs, c, ph, n) ==
    /\ n \in Nat /\ n <= Len(lg)
    /\ Sane(c)
    /\ ph \in {"wait", "txs", "open", "write"}
    /\ ph # "txs" => n <= Len(rs) /\ AtRest(c, Before(rs, n + 1))
    /\ ph \in {"open", "write"} => c.s.lastTxIndex = n /\ n >= 1
    /\ ph = "txs" => /\ 1 <= n /\ n <= Len(rs) + 1
                     /\ Leads(lg[n], Loaded(Before(rs, n)), c)

NodeInv == node = "up" => NodeOf(log, results, Core, phase, after)

ReplayInv == HistoryInv /\ FileInv /\ NodeInv

\* The ids initialize_test_mode gives.
LEMMA InitialCounts == Counts(InitialIds, Len(InitialUsers))
<1> DEFINE n == Len(InitialUsers)
<1>1. /\ InitialUsers \in Seq(Users)
      /\ \A i, j \in DOMAIN InitialUsers :
             InitialUsers[i] = InitialUsers[j] => i = j
  BY ZexAssumption
<1>2. n \in Nat /\ DOMAIN InitialUsers = 1 .. n
  BY <1>1
<1>3. DOMAIN InitialIds = InitialSet
  BY DEF InitialIds
<1>4. ASSUME NEW u \in InitialSet
      PROVE  InitialIds[u] \in 1 .. n /\ InitialUsers[InitialIds[u]] = u
  <2>1. \E i \in DOMAIN InitialUsers : InitialUsers[i] = u
    BY DEF InitialSet
  <2> QED
    BY <1>2, <2>1 DEF InitialIds
<1>5. ASSUME n # 0
      PROVE  \E u \in InitialSet : InitialIds[u] = n
  <2>1. n \in DOMAIN InitialUsers
    BY <1>2, <1>5
  <2>2. InitialUsers[n] \in InitialSet
    BY <2>1 DEF InitialSet
  <2>3. InitialIds[InitialUsers[n]] = n
    BY <1>1, <1>2, <1>4, <2>1, <2>2
  <2> QED
    BY <2>2, <2>3
<1> HIDE DEF n
<1>6. Counts(InitialIds, n)
  BY <1>2, <1>3, <1>4, <1>5 DEF Counts
<1> QED
  BY <1>6 DEF n

\* A fresh node could be saved.
LEMMA FreshIsWell == WellSaved(FreshState) /\ FreshState.lastTxIndex = 0
<1>1. IsSaved(FreshState) /\ FreshState.lastTxIndex = 0
  BY DEF IsSaved, FreshState
<1>2. OrderHeaps(FreshState.heap)
  BY DEF FreshState, OrderHeaps
<1>3. Counts(FreshState.publicToId, Len(InitialUsers))
  BY InitialCounts DEF FreshState
<1> QED
  BY <1>1, <1>2, <1>3 DEF WellSaved, Counts

\* The state a batch of the history began with could be saved.
LEMMA BeforeIsWell ==
    ASSUME NEW lg, NEW rs, HistoryOf(lg, rs), NEW i \in 1 .. Len(rs) + 1
    PROVE  WellSaved(Before(rs, i))
<1>1. Len(rs) \in Nat
  BY DEF HistoryOf
<1>2. CASE i = 1
  BY <1>2, FreshIsWell DEF Before
<1>3. CASE i # 1
  <2>1. i - 1 \in 1 .. Len(rs)
    BY <1>1, <1>3
  <2> QED
    BY <1>3, <2>1 DEF HistoryOf, Before
<1> QED
  BY <1>2, <1>3

\* A node that begins with p.
LEMMA LoadedIs ==
    ASSUME NEW c, NEW p, IsNode(c), Sane(c), AtRest(c, p), c.pos = 0
    PROVE  c = Loaded(p)
<1>1. c.ids = Max({0} \cup Range(p.publicToId))
  BY CountsMax DEF Sane, AtRest
<1>2. c.remaining = 0
  BY DEF Sane, AtRest
<1> QED
  BY <1>1, <1>2 DEF Loaded, AtRest, IsNode

\* A start gives what was saved.
LEMMA FromProtobufIs ==
    ASSUME NEW p, WellSaved(p), FromProtobuf(p), lastTxIndex' = p.lastTxIndex,
           pos' = 0
    PROVE  AtRest(Core', p) /\ Sane(Core')
<1>1. ToProtobuf(lastTxIndex)' = p
  BY DEF WellSaved, IsSaved, FromProtobuf, LoadMarkets, LoadChains, LoadUsers,
         LoadTokens, ToProtobuf
<1>2. AtRest(Core', p)
  BY <1>1 DEF AtRest, Core, FromProtobuf
<1>3. PICK n \in Nat : Counts(p.publicToId, n)
  BY DEF WellSaved
<1>4. Core'.ids = n
  BY <1>3, CountsMax DEF Core, FromProtobuf, LoadUsers
<1>5. Core'.remaining = 0 /\ Core'.pos = 0
  BY DEF Core, FromProtobuf
<1> QED
  BY <1>2, <1>3, <1>4, <1>5 DEF Sane, AtRest, WellSaved

\* What leaves the variables of the exchange and the place in the log alone
\* leaves the node.
LEMMA CoreKept ==
    ASSUME UNCHANGED <<zexVars, lastTxIndex, pos>>
    PROVE  Core' = Core
  BY DEF zexVars, engineVars, accountVars, bookVars, idVars, userVars,
         depositVars, withdrawVars, Core, ToProtobuf

-----------------------------------------------------------------------------
(* Every step keeps the invariant *)

\* A node begins with an empty history.
LEMMA ReplayInit == RecoveryInit => ReplayInv
<1> SUFFICES ASSUME RecoveryInit
             PROVE  ReplayInv
  OBVIOUS
<1>1. log = <<>> /\ results = <<>> /\ file = NoFile /\ after = 0
      /\ phase = "wait" /\ pos = 0 /\ lastTxIndex = 0 /\ Init
  BY DEF RecoveryInit
<1>2. HistoryInv
  <2>1. <<>> \in Seq(Batches) /\ <<>> \in Seq({}) /\ Len(<<>>) = 0
    OBVIOUS
  <2> QED
    BY <1>1, <2>1 DEF HistoryInv, HistoryOf
<1>3. FileInv
  BY <1>1 DEF FileInv, FileOf, NoFile
<1>4. AtRest(Core, FreshState)
  <2>1. ToProtobuf(0) = FreshState
    BY <1>1 DEF Init, InitMarkets, InitAccounts, ToProtobuf, FreshState
  <2> QED
    BY <1>1, <2>1 DEF AtRest, Core, Init, InitMarkets
<1>5. Sane(Core)
  <2>1. Core.ids = Len(InitialUsers) /\ Core.remaining = 0 /\ Core.pos = 0
    BY <1>1 DEF Core, Init, InitMarkets, InitAccounts
  <2>2. FreshState.publicToId = InitialIds
    BY DEF FreshState
  <2> QED
    BY <1>4, <2>1, <2>2, FreshIsWell, InitialCounts
    DEF Sane, AtRest, WellSaved
<1>6. NodeOf(log, results, Core, phase, after)
  <2>1. Len(log) = 0 /\ Len(results) = 0 /\ Before(results, 1) = FreshState
    BY <1>1 DEF Before
  <2> QED
    BY <1>1, <1>4, <1>5, <2>1 DEF NodeOf
<1> QED
  BY <1>2, <1>3, <1>6 DEF ReplayInv, NodeInv

\* The log grows.
LEMMA FinalizeKeeps ==
    ASSUME ReplayInv, NEW b \in Batches, Finalize(b)
    PROVE  ReplayInv'
<1>1. /\ log' = Append(log, b)
      /\ UNCHANGED <<zexVars, node, phase, after, pos, lastTxIndex, file,
                     results>>
  BY DEF Finalize, historyVars
<1>2. Core' = Core
  BY <1>1, CoreKept
<1>3. HistoryOf(log, results)
  BY DEF ReplayInv, HistoryInv
<1>4. log \in Seq(Batches) /\ Len(results) \in Nat /\ Len(results) <= Len(log)
  BY <1>3 DEF HistoryOf
<1>5. /\ log' \in Seq(Batches) /\ Len(log') = Len(log) + 1
      /\ \A i \in 1 .. Len(log) : log'[i] = log[i]
      /\ Len(log) \in Nat
  BY <1>1, <1>4
<1>6. HistoryOf(log', results)
  <2>1. ASSUME NEW i \in 1 .. Len(results)
        PROVE  WellSaved(results[i])
               /\ Handled(Before(results, i), log'[i], i, results[i])
    <3>1. log'[i] = log[i]
      BY <1>4, <1>5
    <3> QED
      BY <1>3, <3>1 DEF HistoryOf
  <2> QED
    BY <1>3, <1>4, <1>5, <2>1 DEF HistoryOf
<1>7. ASSUME NodeOf(log, results, Core, phase, after)
      PROVE  NodeOf(log', results, Core, phase, after)
  <2>1. after \in Nat /\ after <= Len(log)
    BY <1>7 DEF NodeOf
  <2>2. phase = "txs" => log'[after] = log[after]
    BY <1>5, <1>7, <2>1 DEF NodeOf
  <2> QED
    BY <1>5, <1>7, <2>1, <2>2 DEF NodeOf
<1>8. HistoryInv'
  BY <1>1, <1>6 DEF HistoryInv
<1>9. FileInv'
  BY <1>1 DEF FileInv, ReplayInv
<1>10. NodeInv'
  BY <1>1, <1>2, <1>7 DEF NodeInv, ReplayInv
<1> QED
  BY <1>8, <1>9, <1>10 DEF ReplayInv

\* What leaves the log, the file and the results alone leaves two parts.
LEMMA RestKept ==
    ASSUME ReplayInv, UNCHANGED <<log, results, file>>
    PROVE  HistoryInv' /\ FileInv'
  BY DEF ReplayInv, HistoryInv, FileInv

\* The batches in hand and in the past are batches of the log.
LEMMA LogHolds ==
    ASSUME ReplayInv
    PROVE  /\ Len(log) \in Nat /\ Len(results) \in Nat
           /\ Len(results) <= Len(log)
           /\ \A i \in 1 .. Len(log) : log[i] \in Batches
  BY DEF ReplayInv, HistoryInv, HistoryOf

\* A batch begins with what the one before it left.
LEMMA TakeBatchKeeps ==
    ASSUME ReplayInv, TakeBatch
    PROVE  ReplayInv'
<1>1. /\ node = "up" /\ phase = "wait" /\ after < Len(log)
      /\ after' = after + 1 /\ phase' = "txs" /\ pos' = 0
      /\ UNCHANGED <<zexVars, log, node, lastTxIndex, file, results>>
  BY DEF TakeBatch, Running, historyVars
<1>2. NodeOf(log, results, Core, phase, after)
  BY <1>1 DEF ReplayInv, NodeInv
<1>3. Core' = [Core EXCEPT !.pos = 0]
  BY <1>1 DEF zexVars, engineVars, accountVars, bookVars, idVars, userVars,
     depositVars, withdrawVars, Core, ToProtobuf
<1>4. /\ Core'.s = Core.s /\ Core'.ids = Core.ids /\ Core'.taker = Core.taker
      /\ Core'.remaining = Core.remaining /\ Core'.fault = Core.fault
      /\ Core'.modified = Core.modified /\ Core'.pos = 0
  BY <1>3 DEF Core
<1>5. /\ Sane(Core) /\ AtRest(Core, Before(results, after + 1))
      /\ after \in Nat /\ after <= Len(results)
  BY <1>1, <1>2 DEF NodeOf
<1>6. Sane(Core') /\ AtRest(Core', Before(results, after'))
  BY <1>1, <1>4, <1>5 DEF Sane, AtRest
<1>7. Core' = Loaded(Before(results, after'))
  BY <1>4, <1>6, CoreIsNode, LoadedIs
<1>8. Leads(log[after'], Loaded(Before(results, after')), Core')
  BY <1>7, LeadsSelf
<1>9. /\ after' \in Nat /\ after' <= Len(log)
      /\ 1 <= after' /\ after' <= Len(results) + 1
  BY <1>1, <1>5, LogHolds
<1>10. NodeOf(log, results, Core', phase', after')
  BY <1>1, <1>6, <1>8, <1>9 DEF NodeOf
<1> QED
  BY <1>1, <1>10, RestKept DEF ReplayInv, NodeInv

\* A transaction, or an iteration of the matching loop.
LEMMA ReplayStepKeeps ==
    ASSUME ReplayInv, HandleTransaction \/ ContinueMatch
    PROVE  ReplayInv'
<1>1. /\ node = "up" /\ phase = "txs"
      /\ UNCHANGED <<log, node, phase, after, lastTxIndex, file, results>>
  BY DEF HandleTransaction, ContinueMatch, loopVars, historyVars, Running
<1>2. NodeOf(log, results, Core, phase, after)
  BY <1>1 DEF ReplayInv, NodeInv
<1>3. /\ Sane(Core) /\ after \in Nat /\ after <= Len(log) /\ 1 <= after
      /\ after <= Len(results) + 1
      /\ Leads(log[after], Loaded(Before(results, after)), Core)
  BY <1>1, <1>2 DEF NodeOf
<1>4. log[after] \in Batches
  BY <1>3, LogHolds
<1>5. /\ OrderHeaps(heap) /\ (taker # NoTaker => taker \in BatchOrders)
      /\ pos \in Nat
  BY <1>3 DEF Sane, Core, ToProtobuf
<1>6. Step(Core, Core', log[after])
  BY <1>4, <1>5, StepIs
<1>7. Sane(Core')
  BY <1>3, <1>4, <1>6, StepSane
<1>8. Leads(log[after], Loaded(Before(results, after)), Core')
  BY <1>3, <1>6, LeadsExtends
<1>9. NodeOf(log, results, Core', phase, after)
  BY <1>1, <1>3, <1>7, <1>8 DEF NodeOf
<1> QED
  BY <1>1, <1>9, RestKept DEF ReplayInv, NodeInv

\* The end of a batch, as a relation.
LEMMA EndIs ==
    ASSUME FinishBatch \/ FailBatch
    PROVE  /\ Ended(Core, Core', log[after], after)
           /\ Done(Core, log[after])
           /\ Core'.s.heap = Core.s.heap /\ Core'.ids = Core.ids
           /\ Core'.s.publicToId = Core.s.publicToId
           /\ Core'.remaining = Core.remaining /\ Core'.pos = Core.pos
           /\ AtRest(Core', Core'.s)
<1>1. Done(Core, log[after])
  BY DEF FinishBatch, FailBatch, AllHandled, Idle, Done, Core
<1>2. CASE FinishBatch
  <2>1. ~ log[after].bad /\ EndBatch /\ lastTxIndex' = after /\ pos' = pos
        /\ taker = NoTaker /\ fault = "none"
    BY <1>2 DEF FinishBatch, AllHandled, Idle
  <2>2. SameAccounts(Core, Core') /\ SameBook(Core, Core')
        /\ Core'.s.assets = Core.s.assets
    BY <2>1
    DEF EndBatch, GetOrderBookUpdate, accountVars, userVars, depositVars,
        withdrawVars, SameAccounts, SameUsers, SameListed, SameDeposits,
        SameWithdraws, SameBook, Core, ToProtobuf
  <2>3. /\ Core'.s.lastTxIndex = after
        /\ Core'.s.firstId = [m \in Markets |->
               IF m \in Core.modified THEN Core.s.finalId[m] + 1
                                      ELSE Core.s.firstId[m]]
        /\ Core'.s.lastUpdateId = [m \in Markets |->
               IF m \in Core.modified THEN Core.s.finalId[m]
                                      ELSE Core.s.lastUpdateId[m]]
    BY <2>1 DEF EndBatch, GetOrderBookUpdate, Core, ToProtobuf
  <2>4. Ended(Core, Core', log[after], after)
    BY <2>1, <2>2, <2>3, CoreIsNode DEF Ended, IsNode
  <2>5. AtRest(Core', Core'.s) /\ Core'.remaining = Core.remaining
        /\ Core'.pos = Core.pos
    BY <2>1 DEF EndBatch, GetOrderBookUpdate, AtRest, Core
  <2> QED
    BY <1>1, <2>2, <2>4, <2>5 DEF SameAccounts, SameUsers, SameBook
<1>3. CASE FailBatch
  <2>1. /\ log[after].bad /\ taker = NoTaker /\ fault = "none"
        /\ modified' = {}
        /\ UNCHANGED <<engineVars, accountVars, lastTxIndex, pos>>
    BY <1>3 DEF FailBatch, AbortBatch, AllHandled, Idle
  <2>2. Core' = [Core EXCEPT !.modified = {}]
    BY <2>1 DEF engineVars, accountVars, bookVars, idVars, userVars,
       depositVars, withdrawVars, Core, ToProtobuf
  <2>3. /\ Core'.s = Core.s /\ Core'.ids = Core.ids
        /\ Core'.taker = Core.taker /\ Core'.remaining = Core.remaining
        /\ Core'.fault = Core.fault /\ Core'.modified = {}
        /\ Core'.pos = Core.pos
    BY <2>2 DEF Core
  <2>4. Core.taker = NoTaker /\ Core.fault = "none"
    BY <2>1 DEF Core
  <2> QED
    BY <1>1, <2>1, <2>3, <2>4 DEF Ended, AtRest
<1> QED
  BY <1>2, <1>3

\* A batch that ends for the first time adds its outcome to the history.
LEMMA HistoryGrows ==
    ASSUME NEW lg, NEW rs, HistoryOf(lg, rs), Len(rs) + 1 <= Len(lg), NEW q,
           WellSaved(q),
           Handled(Before(rs, Len(rs) + 1), lg[Len(rs) + 1], Len(rs) + 1, q)
    PROVE  /\ HistoryOf(lg, Append(rs, q))
           /\ \A i \in 1 .. Len(rs) : Append(rs, q)[i] = rs[i]
           /\ Len(Append(rs, q)) = Len(rs) + 1
           /\ Append(rs, q)[Len(rs) + 1] = q
<1> DEFINE n == Len(rs)
           ts == Append(rs, q)
<1>1. PICK S : rs \in Seq(S)
  BY DEF HistoryOf
<1>2. rs \in Seq(S \cup {q})
  BY <1>1
<1>3. /\ ts \in Seq(S \cup {q}) /\ Len(ts) = n + 1 /\ ts[n + 1] = q
      /\ \A i \in 1 .. n : ts[i] = rs[i]
      /\ n \in Nat
  BY <1>2
<1> HIDE DEF ts
<1>4. ASSUME NEW i \in 1 .. n + 1
      PROVE  Before(ts, i) = Before(rs, i)
  <2>1. CASE i = 1
    BY <2>1 DEF Before
  <2>2. CASE i # 1
    <3>1. i - 1 \in 1 .. n
      BY <1>3, <2>2
    <3> QED
      BY <1>3, <2>2, <3>1 DEF Before
  <2> QED
    BY <2>1, <2>2
<1>5. ASSUME NEW i \in 1 .. n + 1
      PROVE  WellSaved(ts[i]) /\ Handled(Before(ts, i), lg[i], i, ts[i])
  <2>1. CASE i = n + 1
    BY <1>3, <1>4, <2>1
  <2>2. CASE i # n + 1
    <3>1. i \in 1 .. n
      BY <1>3, <2>2
    <3>2. ts[i] = rs[i] /\ Before(ts, i) = Before(rs, i)
      BY <1>3, <1>4, <3>1
    <3> QED
      BY <3>1, <3>2 DEF HistoryOf
  <2> QED
    BY <2>1, <2>2
<1>6. HistoryOf(lg, ts)
  BY <1>3, <1>5 DEF HistoryOf
<1> QED
  BY <1>3, <1>6 DEF ts

\* The end of a batch: its outcome is added, or is the one that was.
LEMMA EndKeeps ==
    ASSUME ReplayInv, FinishBatch \/ FailBatch
    PROVE  ReplayInv'
<1> DEFINE b == log[after]
           q == Core'.s
<1>1. /\ node = "up" /\ phase = "txs" /\ after' = after
      /\ phase' \in {"wait", "open"} /\ UNCHANGED <<log, node, file>>
      /\ (phase' = "open" => lastTxIndex' = after)
  BY DEF FinishBatch, FailBatch, AllHandled, Running
<1>2. /\ Sane(Core) /\ after \in Nat /\ after <= Len(log) /\ 1 <= after
      /\ after <= Len(results) + 1
      /\ Leads(b, Loaded(Before(results, after)), Core)
  BY <1>1 DEF ReplayInv, NodeInv, NodeOf
<1>3. /\ b \in Batches /\ Len(log) \in Nat /\ Len(results) \in Nat
  BY <1>2, LogHolds
<1>4. /\ Ended(Core, Core', b, after) /\ Done(Core, b)
      /\ AtRest(Core', q)
  BY EndIs
<1>5. Sane(Core')
  BY <1>2, EndIs DEF Sane, AtRest, Done
<1>6. WellSaved(q)
  BY <1>5, CoreIsNode DEF Sane, WellSaved, IsNode, Counts
<1>7. results' = IF after > Len(results) THEN Append(results, q) ELSE results
  <2>1. CASE FinishBatch
    BY <2>1 DEF FinishBatch, Record, Core, ToProtobuf
  <2>2. CASE FailBatch
    BY <2>2 DEF FailBatch, Record, Core, ToProtobuf
  <2> QED
    BY <2>1, <2>2
<1>8. HistoryOf(log, results) /\ FileOf(file, results)
  BY DEF ReplayInv, HistoryInv, FileInv
<1>9. /\ HistoryOf(log, results') /\ FileOf(file, results')
      /\ after <= Len(results') /\ q = Before(results', after + 1)
  <2>1. CASE after > Len(results)
    <3>1. after = Len(results) + 1 /\ results' = Append(results, q)
      BY <1>2, <1>3, <1>7, <2>1
    <3>2. Handled(Before(results, after), b, after, q)
      BY <1>2, <1>4 DEF Handled
    <3>3. /\ HistoryOf(log, results') /\ Len(results') = Len(results) + 1
          /\ \A i \in 1 .. Len(results) : results'[i] = results[i]
          /\ results'[after] = q
      BY <1>2, <1>6, <1>8, <3>1, <3>2, HistoryGrows
    <3>4. q = Before(results', after + 1)
      BY <1>2, <3>3 DEF Before
    <3>5. FileOf(file, results')
      BY <1>3, <1>8, <3>3 DEF FileOf
    <3> QED
      BY <1>3, <3>1, <3>3, <3>4, <3>5
  <2>2. CASE ~ (after > Len(results))
    <3>1. results' = results /\ after \in 1 .. Len(results)
      BY <1>2, <1>3, <1>7, <2>2
    <3>2. Handled(Before(results, after), b, after, results[after])
      BY <1>8, <3>1 DEF HistoryOf
    <3>3. q = results[after]
      BY <1>2, <1>3, <1>4, <3>2, HandledOnce DEF Over
    <3>4. after + 1 # 1 /\ (after + 1) - 1 = after
      BY <1>2
    <3>5. Before(results', after + 1) = results'[after]
      BY <3>4 DEF Before
    <3>6. q = Before(results', after + 1)
      BY <3>1, <3>3, <3>5
    <3> QED
      BY <1>8, <3>1, <3>6
  <2> QED
    BY <2>1, <2>2
<1>10. phase' = "open" => Core'.s.lastTxIndex = after /\ after >= 1
  BY <1>1, <1>2 DEF Core, ToProtobuf
<1>11. NodeOf(log, results', Core', phase', after)
  BY <1>1, <1>2, <1>4, <1>5, <1>9, <1>10 DEF NodeOf
<1> QED
  BY <1>1, <1>9, <1>11 DEF ReplayInv, HistoryInv, FileInv, NodeInv

\* The save.
LEMMA SaveKeeps ==
    ASSUME ReplayInv, OpenFile \/ WriteFile
    PROVE  ReplayInv'
<1>1. /\ node = "up" /\ phase \in {"open", "write"}
      /\ UNCHANGED <<zexVars, log, node, after, pos, lastTxIndex, results>>
  BY DEF OpenFile, WriteFile, Running, historyVars
<1>2. Core' = Core
  BY <1>1, CoreKept
<1>3. NodeOf(log, results, Core, phase, after)
  BY <1>1 DEF ReplayInv, NodeInv
<1>4. /\ after \in Nat /\ after >= 1 /\ after <= Len(results)
      /\ Core.s.lastTxIndex = after
      /\ AtRest(Core, Before(results, after + 1))
  BY <1>1, <1>3 DEF NodeOf
<1>5. phase' \in {"write", "wait"}
  BY DEF OpenFile, WriteFile
<1>6. NodeOf(log, results, Core, phase', after)
  BY <1>1, <1>3, <1>5 DEF NodeOf
<1>7. FileOf(file', results)
  <2>1. CASE OpenFile
    BY <2>1 DEF OpenFile, EmptyFile, FileOf
  <2>2. CASE WriteFile
    <3>1. file'.state = Core.s
      BY <2>2 DEF WriteFile, Saved, Core
    <3>2. Core.s = results[after]
      BY <1>4 DEF AtRest, Before
    <3>3. after \in 1 .. Len(results)
      BY <1>4, LogHolds
    <3> QED
      BY <1>4, <3>1, <3>2, <3>3 DEF FileOf
  <2> QED
    BY <2>1, <2>2
<1> QED
  BY <1>1, <1>2, <1>6, <1>7 DEF ReplayInv, HistoryInv, FileInv, NodeInv

\* A node that is not up owes nothing but its file.
LEMMA CrashKeeps ==
    ASSUME ReplayInv, Crash \/ LoadCutFile
    PROVE  ReplayInv'
<1>1. node' # "up" /\ UNCHANGED <<log, results>>
      /\ (file' = file \/ file' = CutFile)
  BY DEF Crash, LoadCutFile, historyVars
<1>2. FileOf(file', results)
  BY <1>1 DEF ReplayInv, FileInv, FileOf, CutFile
<1> QED
  BY <1>1, <1>2 DEF ReplayInv, HistoryInv, FileInv, NodeInv

\* A start, with nothing or from the file.
LEMMA StartKeeps ==
    ASSUME ReplayInv, StartFresh \/ LoadState
    PROVE  ReplayInv'
<1>1. ASSUME NEW p, NEW i, WellSaved(p), p.lastTxIndex = i, FromProtobuf(p),
             Begin(i), i \in 0 .. Len(results), p = Before(results, i + 1)
      PROVE  ReplayInv'
  <2>1. /\ phase' = "wait" /\ after' = i /\ pos' = 0 /\ lastTxIndex' = i
        /\ UNCHANGED <<log, file, results>>
    BY <1>1 DEF Begin
  <2>2. AtRest(Core', p) /\ Sane(Core')
    BY <1>1, <2>1, FromProtobufIs
  <2>3. i \in Nat /\ i <= Len(results) /\ i <= Len(log)
    BY <1>1, LogHolds
  <2>4. NodeOf(log, results, Core', phase', after')
    BY <1>1, <2>1, <2>2, <2>3 DEF NodeOf
  <2> QED
    BY <2>1, <2>4, RestKept DEF ReplayInv, NodeInv
<1>2. CASE StartFresh
  <2>1. 0 \in 0 .. Len(results) /\ FreshState = Before(results, 0 + 1)
    BY LogHolds DEF Before
  <2> QED
    BY <1>1, <1>2, <2>1, FreshIsWell DEF StartFresh
<1>3. CASE LoadState
  <2> DEFINE i == file.state.lastTxIndex
  <2>1. i \in 1 .. Len(results) /\ file.state = results[i]
    BY <1>3 DEF LoadState, ReplayInv, FileInv, FileOf
  <2>2. i \in 0 .. Len(results) /\ results[i] = Before(results, i + 1)
    BY <2>1, LogHolds DEF Before
  <2>3. WellSaved(file.state)
    BY <2>1 DEF ReplayInv, HistoryInv, HistoryOf
  <2>4. FromProtobuf(file.state) /\ Begin(i)
    BY <1>3 DEF LoadState
  <2> QED
    BY <1>1, <2>1, <2>2, <2>3, <2>4
<1> QED
  BY <1>2, <1>3

\* Every step of a node keeps ReplayInv.
LEMMA ReplayNext ==
    ASSUME ReplayInv, [RecoveryNext]_recoveryVars
    PROVE  ReplayInv'
<1>1. CASE UNCHANGED recoveryVars
  <2>1. /\ UNCHANGED <<zexVars, log, node, phase, after, pos, lastTxIndex,
                       file, results>>
    BY <1>1 DEF recoveryVars, loopVars, historyVars
  <2>2. Core' = Core
    BY <2>1, CoreKept
  <2> QED
    BY <2>1, <2>2 DEF ReplayInv, HistoryInv, FileInv, NodeInv
<1>2. CASE RecoveryNext
  BY <1>2, FinalizeKeeps, TakeBatchKeeps, ReplayStepKeeps, EndKeeps, SaveKeeps,
     CrashKeeps, StartKeeps
  DEF RecoveryNext, Process
<1> QED
  BY <1>1, <1>2

\* Where the invariant holds, a replay agrees with the first run.
LEMMA ReplayInvAgrees == ReplayInv => ReplayAgrees
<1> SUFFICES ASSUME ReplayInv, node = "up"
             PROVE  ReplayAgrees
  BY DEF ReplayAgrees, Running
<1>1. NodeOf(log, results, Core, phase, after)
  BY DEF ReplayInv, NodeInv
<1>2. Core.s = ToProtobuf(lastTxIndex) /\ Core.fault = fault
  BY DEF Core
<1>3. ASSUME phase = "wait"
      PROVE  ToProtobuf(lastTxIndex) =
                 IF after = 0 THEN FreshState ELSE results[after]
  <2>1. after \in Nat /\ AtRest(Core, Before(results, after + 1))
    BY <1>1, <1>3 DEF NodeOf
  <2> QED
    BY <1>2, <2>1 DEF AtRest, Before
<1>4. ASSUME after \in 1 .. Len(results)
      PROVE  fault = "none"
  <2>1. CASE phase # "txs"
    BY <1>1, <1>2, <2>1 DEF NodeOf, AtRest
  <2>2. CASE phase = "txs"
    <3>1. /\ Leads(log[after], Loaded(Before(results, after)), Core)
          /\ log[after] \in Batches
      BY <1>1, <2>2, LogHolds DEF NodeOf
    <3>2. Handled(Before(results, after), log[after], after, results[after])
      BY <1>4 DEF ReplayInv, HistoryInv, HistoryOf
    <3>3. Over(Core, log[after]) => Done(Core, log[after])
      BY <3>1, <3>2, HandledOnce
    <3> QED
      BY <1>2, <3>3 DEF Over, Done
  <2> QED
    BY <2>1, <2>2
<1> QED
  BY <1>3, <1>4 DEF ReplayAgrees, Running

\* What a node loses in a crash it gets back: between two batches its state is
\* the one the first run reached there, however it came by it, whatever the
\* batches hold, the crashes and the save frequency, and a batch that was once
\* handled does not end the thread when it comes again.
THEOREM ReplayAgreesHolds == RecoverySpec => []ReplayAgrees
<1> QED BY ReplayInit, ReplayNext, ReplayInvAgrees, PTL DEF RecoverySpec

-----------------------------------------------------------------------------
(* Two nodes on one log *)

\* A batch has one outcome, whoever handles it.
LEMMA OutcomeOnce ==
    ASSUME NEW b \in Batches, NEW i, NEW p, NEW q, NEW r,
           Handled(p, b, i, q), Handled(p, b, i, r)
    PROVE  q = r
<1>1. PICK c, d : /\ Leads(b, Loaded(p), c)
                  /\ Done(c, b) /\ Ended(c, d, b, i) /\ r = d.s
  BY DEF Handled
<1>2. \A e : Ended(c, e, b, i) => e.s = q
  BY <1>1, HandledOnce DEF Over
<1> QED
  BY <1>1, <1>2

\* Two histories of one log are the same as far as they both go.
LEMMA HistoryOnce ==
    ASSUME NEW lg, NEW rs, NEW ts, HistoryOf(lg, rs), HistoryOf(lg, ts)
    PROVE  \A i \in 1 .. Len(rs) : i <= Len(ts) => rs[i] = ts[i]
<1> DEFINE bad == {i \in 1 .. Len(rs) : i <= Len(ts) /\ rs[i] # ts[i]}
<1>1. SUFFICES ASSUME bad # {}
               PROVE  FALSE
  OBVIOUS
<1>2. /\ Len(lg) \in Nat /\ Len(rs) \in Nat /\ Len(ts) \in Nat
      /\ Len(rs) <= Len(lg) /\ \A i \in 1 .. Len(lg) : lg[i] \in Batches
  BY DEF HistoryOf
<1>3. bad \subseteq Nat
  BY <1>2
<1>4. PICK k \in bad : \A j \in bad : k <= j
  BY <1>1, <1>3, LeastExists
<1>5. /\ k \in 1 .. Len(rs) /\ k \in 1 .. Len(ts) /\ rs[k] # ts[k]
      /\ k \in 1 .. Len(lg)
  BY <1>2
<1>6. ASSUME k # 1
      PROVE  rs[k - 1] = ts[k - 1]
  <2>1. k - 1 \in 1 .. Len(rs) /\ k - 1 <= Len(ts) /\ k - 1 < k
    BY <1>2, <1>5, <1>6
  <2>2. k - 1 \notin bad
    BY <1>3, <1>4, <2>1
  <2> QED
    BY <2>1, <2>2
<1> HIDE DEF bad
<1>7. Before(rs, k) = Before(ts, k)
  BY <1>6 DEF Before
<1>8. Handled(Before(rs, k), lg[k], k, rs[k])
      /\ Handled(Before(ts, k), lg[k], k, ts[k])
  BY <1>5 DEF HistoryOf
<1>9. rs[k] = ts[k]
  BY <1>2, <1>5, <1>7, <1>8, OutcomeOnce
<1> QED
  BY <1>5, <1>9

\* The states of this node are a history of the log, and any other history of
\* it, that of a second node for one, has the state this node is in at the
\* place this node is at.
LogDecides ==
    /\ HistoryOf(log, results)
    /\ \A rs : HistoryOf(log, rs) /\ Running("wait") /\ after \in 1 .. Len(rs)
                  => ToProtobuf(lastTxIndex) = rs[after]

\* The log decides the state: nodes that read the same log, each with crashes
\* and starts of its own, are in the same state between the same two batches.
\* process, process_loop and initialize_zex leave no other choice.
THEOREM LogDecidesHolds == RecoverySpec => []LogDecides
<1>1. ASSUME ReplayInv
      PROVE  LogDecides
  <2>1. HistoryOf(log, results)
    BY <1>1 DEF ReplayInv, HistoryInv
  <2>2. ASSUME NEW rs, HistoryOf(log, rs), Running("wait"),
               after \in 1 .. Len(rs)
        PROVE  ToProtobuf(lastTxIndex) = rs[after]
    <3>1. NodeOf(log, results, Core, phase, after) /\ phase = "wait"
      BY <1>1, <2>2 DEF ReplayInv, NodeInv, Running
    <3>2. /\ Core.s = ToProtobuf(lastTxIndex)
          /\ Core.s = Before(results, after + 1)
          /\ after \in Nat /\ after <= Len(results)
      BY <3>1 DEF NodeOf, AtRest, Core
    <3>3. Len(rs) \in Nat /\ Len(results) \in Nat
      BY <2>1, <2>2 DEF HistoryOf
    <3>4. after \in 1 .. Len(results) /\ after <= Len(rs) /\ after + 1 # 1
          /\ (after + 1) - 1 = after
      BY <2>2, <3>2, <3>3
    <3>5. Before(results, after + 1) = results[after]
      BY <3>4 DEF Before
    <3>6. results[after] = rs[after]
      BY <2>1, <2>2, <3>4, HistoryOnce
    <3> QED
      BY <3>2, <3>5, <3>6
  <2> QED
    BY <2>1, <2>2 DEF LogDecides
<1> QED BY ReplayInit, ReplayNext, <1>1, PTL DEF RecoverySpec

-----------------------------------------------------------------------------
(* What a node guards                                                       *)
(*                                                                          *)
(* Between two transactions the invariants of the exchange relate what is   *)
(* saved only: a file written there holds them all, and a node that begins  *)
(* with the file has them all again.                                        *)

\* What every step of the exchange keeps.
ZexInv ==
    /\ IInv /\ OneOrderPerNonce /\ Uncrossed /\ IdsInv
    /\ AmountsInv /\ FundsInv /\ CreditsInv /\ WithdrawsInv /\ TokensInv

\* A fresh node.
LEMMA ZexStart == Init => ZexInv
  BY InitKeeps, NoncesStart, UncrossedStart, IdsStart, AmountsStart, FundsStart,
     CreditsStart, WithdrawsStart, TokensStart
  DEF ZexInv

\* A transaction, an iteration of the matching loop or the end of a batch.
LEMMA ZexStep ==
    ASSUME ZexInv, [Next]_zexVars
    PROVE  ZexInv'
<1>1. IInv /\ IInv' /\ OneOrderPerNonce /\ AmountsInv
  BY StepKeeps DEF ZexInv
<1>2. OneOrderPerNonce' /\ Uncrossed' /\ IdsInv'
  BY NoncesStep, UncrossedStep, IdsStep DEF ZexInv
<1>3. AmountsInv' /\ FundsInv'
  BY <1>1, AmountsStep, FundsStep DEF ZexInv
<1>4. CreditsInv' /\ WithdrawsInv' /\ TokensInv'
  BY <1>1, CreditsStep, WithdrawsStep, TokensStep DEF ZexInv
<1> QED
  BY <1>1, <1>2, <1>3, <1>4 DEF ZexInv

\* The promises of the exchange.
LEMMA ZexInvGuards == ZexInv => StaysSound
<1> SUFFICES ASSUME ZexInv
             PROVE  StaysSound
  OBVIOUS
<1>1. Conservation
  BY FundsInvConserves DEF ZexInv
<1>2. Solvency /\ OneRegistry
  BY DEF ZexInv, IInv, EngineInv
<1>3. EventIdsAdvance /\ CreditedOnce /\ TokensApart /\ WithdrawalsNumbered
  BY IdsInvAdvances, CreditsInvOnce, TokensInvApart, WithdrawsInvNumbers
  DEF ZexInv
<1> QED
  BY <1>1, <1>2, <1>3 DEF StaysSound, ZexInv

\* What a batch holds are transactions of the exchange.
LEMMA HandleIsStep ==
    ASSUME NEW tx, IsTransaction(tx), Handle(tx)
    PROVE  [Next]_zexVars
<1>1. CASE tx.kind = "register"
  <2>1. ProcessRegister(tx.user) /\ tx.user \in Users
    BY <1>1 DEF Handle, IsTransaction
  <2> QED
    BY <2>1 DEF Next, ProcessTransaction
<1>2. CASE tx.kind = "deposit"
  <2>1. /\ ProcessDeposit(tx.deposit) \/ DepositReturns(tx.deposit)
        /\ tx.deposit \in Deposits
    BY <1>2 DEF Handle, IsTransaction
  <2> QED
    BY <2>1 DEF Next, ProcessTransaction, DepositReturns
<1>3. CASE tx.kind = "withdraw"
  <2>1. /\ ProcessWithdraw(tx.withdraw) \/ WithdrawReturns(tx.withdraw)
        /\ tx.withdraw \in Withdrawals
    BY <1>3 DEF Handle, IsTransaction
  <2> QED
    BY <2>1 DEF Next, ProcessTransaction, WithdrawReturns
<1>4. CASE tx.kind \in {"order", "cancel"}
  <2>1. PICK o : o = tx.order
    OBVIOUS
  <2>2. o \in Order /\ OfferOf(o) \in Offers
    BY <1>4, <2>1 DEF IsTransaction
  <2>3. o.user \in Users /\ OfferOf(o).market = o.market
    BY <2>2, PayTypes DEF OfferOf
  <2>4. CASE tx.kind = "order"
    <3>1. TakeOrder(o)
      BY <2>1, <2>4 DEF Handle
    <3>2. CASE ProcessBadNonce(o.user, o.market)
      BY <2>2, <2>3, <3>2 DEF Next, ProcessTransaction
    <3>3. CASE ProcessOrder(o.user, o) /\ o.nonce = nonces[o.user]
      <4>1. OrderOf(OfferOf(o), o.user) = OrderOf(o, o.user)
        BY DEF OrderOf, OfferOf
      <4>2. ProcessOrder(o.user, OfferOf(o))
        BY <2>3, <3>3, <4>1 DEF ProcessOrder
      <4> QED
        BY <2>2, <2>3, <4>2 DEF Next, ProcessTransaction
    <3> QED
      BY <3>1, <3>2, <3>3 DEF TakeOrder
  <2>5. CASE tx.kind = "cancel"
    <3>1. TakeCancel(o)
      BY <2>1, <2>5 DEF Handle
    <3>2. CASE ProcessCancel(o)
      <4>1. o \in orders[o.user]
        BY <3>2 DEF ProcessCancel, Cancel
      <4> QED
        BY <2>3, <3>2, <4>1 DEF Next, ProcessTransaction
    <3>3. CASE CancelIgnored(o)
      BY <3>3 DEF CancelIgnored
    <3>4. CASE ProcessCancelFault(o.user, o.market)
      BY <2>2, <2>3, <3>4 DEF Next, ProcessTransaction
    <3> QED
      BY <3>1, <3>2, <3>3, <3>4 DEF TakeCancel
  <2> QED
    BY <1>4, <2>4, <2>5
<1> QED
  BY <1>1, <1>2, <1>3, <1>4 DEF Handle

-----------------------------------------------------------------------------
(* A sound file *)

\* Balances, and the three records of the resting orders.
SoundEngine(s) ==
    /\ s.assets \in Balance
    /\ \A t \in Tokens, u \in Users : s.assets[t][u] >= 0
    /\ \A o \in DOMAIN s.amounts : o.price >= 0
    /\ s.orders \in [Users -> SUBSET Order]
    /\ \A u \in Users : s.orders[u] = {o \in DOMAIN s.amounts : o.user = u}
    /\ s.heap \in [Markets -> [Sides -> SUBSET Order]]
    /\ \A m \in Markets, k \in Sides :
           s.heap[m][k] = {o \in DOMAIN s.amounts : o.market = m /\ o.side = k}

\* The orders are finitely many, the levels are levels, and no two orders cross.
SoundBook(s) ==
    /\ IsAmounts(s.amounts)
    /\ DOMAIN s.book = Markets
    /\ \A m \in Markets : DOMAIN s.book[m] = Sides
    /\ \A m \in Markets, k \in Sides : IsLevels(s.book[m][k])
    /\ \A m \in Markets :
           \A b \in s.heap[m]["buy"], a \in s.heap[m]["sell"] :
               (b.price > 0 /\ a.price > 0 /\ b.amount > 0 /\ a.amount > 0)
                   => b.price < a.price

\* The numbers of the events, and the nonces.
SoundNumbers(s) ==
    /\ s.firstId \in [Markets -> Nat] /\ s.finalId \in [Markets -> Nat]
    /\ s.lastUpdateId \in [Markets -> Nat]
    /\ \A m \in Markets : /\ s.lastUpdateId[m] <= s.finalId[m]
                           /\ s.firstId[m] <= s.finalId[m] + 1
    /\ s.nonces \in [Users -> Nat]
    /\ \A o \in DOMAIN s.amounts :
           /\ o.nonce < s.nonces[o.user]
           /\ \A x \in DOMAIN s.amounts :
                  x.user = o.user /\ x.nonce = o.nonce => x = o

\* The two lookups of users; the ids go up to the largest there is.
SoundUsers(s) ==
    LET n == Max({0} \cup Range(s.publicToId))
    IN  /\ n \in Nat
        /\ DOMAIN s.publicToId \subseteq Users
        /\ \A u \in DOMAIN s.publicToId : s.publicToId[u] \in 1 .. n
        /\ s.idToPublic \in [1 .. n -> Users]

\* The tokens that have a contract.
NamedIn(ids) ==
    {t \in Tokens : \E x \in DOMAIN ids[t[1]] : ids[t[1]][x] = t[2]}

\* Token ids, and who holds what in them.
SoundTokens(s) ==
    /\ s.listed \subseteq Tokens /\ s.markets \subseteq Markets
    /\ DOMAIN s.contractToId = Chains
    /\ s.lastTokenId \in [Chains -> 0 .. MaxTokenId]
    /\ \A c \in Chains :
           /\ \A x \in DOMAIN s.contractToId[c] :
                  /\ s.contractToId[c][x] \in 1 .. MaxTokenId
                  /\ s.contractToId[c][x] <= s.lastTokenId[c]
           /\ \A x, y \in DOMAIN s.contractToId[c] :
                  s.contractToId[c][x] = s.contractToId[c][y] => x = y
    /\ \A t \in Tokens, u \in Users :
           s.assets[t][u] # 0 => t \in NamedIn(s.contractToId)
    /\ \A o \in DOMAIN s.amounts :
           \/ PayToken(o) \in NamedIn(s.contractToId)
           \/ Cost(o, s.amounts[o]) = 0

\* Funds are what the lists say, and credits as many as deposits seen.
SoundDeposits(s) ==
    /\ s.userDeposits \in [Users -> Seq(Credits)]
    /\ \A t \in Tokens : Funds(s.assets, s.amounts, t)
                              = Came(s.userDeposits, s.withdraws, t)
    /\ DOMAIN s.deposits = Chains
    /\ \A c \in Chains :
           /\ IsFiniteSet(s.deposits[c])
           /\ Cardinality(s.deposits[c]) = CreditsIn(s.userDeposits, c)

\* The log of withdrawals, the lists of the users and the counters.
SoundWithdraws(s) ==
    /\ s.withdraws \in [Chains -> Seq(Withdrawals)]
    /\ s.userWithdraws \in [Chains -> [Users -> Seq(Withdrawals)]]
    /\ s.withdrawNonce \in [Chains -> Nat]
    /\ s.userWithdrawNonce \in [Chains -> [Users -> Nat]]
    /\ \A c \in Chains :
           /\ s.withdrawNonce[c] = Len(s.withdraws[c])
           /\ \A u \in Users :
                  /\ s.userWithdrawNonce[c][u] = Len(s.userWithdraws[c][u])
                  /\ Numbered(s.withdraws[c], s.userWithdraws[c][u], u)

Sound(s) ==
    /\ SoundEngine(s) /\ SoundBook(s) /\ SoundNumbers(s) /\ SoundUsers(s)
    /\ SoundTokens(s) /\ SoundDeposits(s) /\ SoundWithdraws(s)

\* What is saved between two transactions is sound.
LEMMA SaveIsSound ==
    ASSUME ZexInv, NEW i, taker = NoTaker, fault = "none",
           lastUserId = Max({0} \cup Range(publicToId))
    PROVE  Sound(ToProtobuf(i))
<1>1. PICK s : s = ToProtobuf(i)
  OBVIOUS
<1>2. /\ s.assets = assets /\ s.amounts = amounts /\ s.orders = orders
      /\ s.heap = heap /\ s.book = book /\ s.firstId = firstId
      /\ s.finalId = finalId /\ s.lastUpdateId = lastUpdateId
  BY <1>1 DEF ToProtobuf
<1>3. /\ s.publicToId = publicToId /\ s.idToPublic = idToPublic
      /\ s.nonces = nonces /\ s.listed = listed /\ s.markets = markets
      /\ s.contractToId = contractToId /\ s.lastTokenId = lastTokenId
  BY <1>1 DEF ToProtobuf
<1>4. /\ s.deposits = deposits /\ s.userDeposits = userDeposits
      /\ s.withdraws = withdraws /\ s.userWithdraws = userWithdraws
      /\ s.withdrawNonce = withdrawNonce
      /\ s.userWithdrawNonce = userWithdrawNonce
  BY <1>1 DEF ToProtobuf
<1>5. SoundEngine(s)
  BY <1>2
  DEF ZexInv, IInv, EngineInv, EngineTypeOK, RestingPrices, OneRegistry,
      OrdersAgree, HeapsAgree, Solvency, SoundEngine, Balance
<1>6. SoundBook(s)
  BY <1>2
  DEF ZexInv, AmountsInv, Uncrossed, IInv, EngineInv, EngineTypeOK, BookTypeOK,
      SoundBook
<1>7. SoundNumbers(s)
  BY <1>2, <1>3
  DEF ZexInv, IInv, EngineInv, EngineTypeOK, AccountTypeOK, IdsInv,
      NumbersInOrder, OneOrderPerNonce, LiveOrders, SoundNumbers
<1>8. SoundUsers(s)
  BY <1>3 DEF ZexInv, IInv, AccountTypeOK, SoundUsers
<1>9. SoundTokens(s)
  <2>1. NamedTokens = NamedIn(s.contractToId)
    BY <1>3 DEF NamedTokens, NamedIn
  <2> QED
    BY <1>2, <1>3, <2>1
    DEF ZexInv, IInv, AccountTypeOK, TokensInv, IdsApart, Held, LockedInNamed,
        SoundTokens
<1>10. SoundDeposits(s)
  BY <1>2, <1>4
  DEF ZexInv, FundsInv, Conserved, ListsTyped, CreditsInv, SoundDeposits
<1>11. SoundWithdraws(s)
  BY <1>4 DEF ZexInv, WithdrawsInv, WithdrawTypes, SoundWithdraws
<1> QED
  BY <1>1, <1>5, <1>6, <1>7, <1>8, <1>9, <1>10, <1>11 DEF Sound

\* A node that begins with a sound file guards what it has to.
LEMMA LoadIsSound ==
    ASSUME NEW s, Sound(s), FromProtobuf(s)
    PROVE  ZexInv'
<1>1. /\ assets' = s.assets /\ amounts' = s.amounts /\ orders' = s.orders
      /\ heap' = s.heap /\ book' = s.book /\ firstId' = s.firstId
      /\ finalId' = s.finalId /\ lastUpdateId' = s.lastUpdateId
      /\ updates' = [m \in Markets |-> [side \in Sides |-> <<>>]]
  BY DEF FromProtobuf, LoadMarkets
<1>2. /\ publicToId' = s.publicToId /\ idToPublic' = s.idToPublic
      /\ lastUserId' = Max({0} \cup Range(s.publicToId))
      /\ nonces' = s.nonces /\ listed' = s.listed /\ markets' = s.markets
      /\ contractToId' = s.contractToId /\ lastTokenId' = s.lastTokenId
  BY DEF FromProtobuf, LoadUsers, LoadTokens
<1>3. /\ deposits' = s.deposits /\ userDeposits' = s.userDeposits
      /\ withdraws' = s.withdraws /\ userWithdraws' = s.userWithdraws
      /\ withdrawNonce' = s.withdrawNonce
      /\ userWithdrawNonce' = s.userWithdrawNonce
  BY DEF FromProtobuf, LoadChains
<1>4. taker' = NoTaker /\ remaining' = 0 /\ fault' = "none" /\ modified' = {}
  BY DEF FromProtobuf
<1>5. /\ SoundEngine(s) /\ SoundBook(s) /\ SoundNumbers(s) /\ SoundUsers(s)
      /\ SoundTokens(s) /\ SoundDeposits(s) /\ SoundWithdraws(s)
  BY DEF Sound
<1>6. \A o \in DOMAIN s.amounts : o \in Order /\ s.amounts[o] \in Nat
  BY <1>5 DEF SoundBook, IsAmounts
<1>7. IInv'
  <2>1. BookTypeOK'
    <3>1. IsLevels(<<>>)
      BY DEF IsLevels
    <3> QED
      BY <1>1, <1>5, <3>1 DEF BookTypeOK, SoundBook
  <2>2. EngineTypeOK'
    BY <1>1, <1>4, <1>5, <1>6, <2>1
    DEF EngineTypeOK, SoundEngine, SoundNumbers, Balance
  <2>3. OneRegistry'
    BY <1>1, <1>5 DEF OneRegistry, OrdersAgree, HeapsAgree, SoundEngine
  <2>4. RestingPrices' /\ TakerPrice' /\ Solvency'
    BY <1>1, <1>4, <1>5
    DEF RestingPrices, TakerPrice, Solvency, SoundEngine
  <2>5. AccountTypeOK'
    BY <1>2, <1>5
    DEF AccountTypeOK, SoundNumbers, SoundUsers, SoundTokens
  <2> QED
    BY <1>4, <2>2, <2>3, <2>4, <2>5 DEF IInv, EngineInv
<1>8. LiveOrders' = DOMAIN s.amounts
  BY <1>1, <1>4 DEF LiveOrders
<1>9. OneOrderPerNonce'
  BY <1>2, <1>5, <1>8 DEF OneOrderPerNonce, SoundNumbers
<1>10. Uncrossed'
  BY <1>1, <1>5 DEF Uncrossed, SoundBook
<1>11. IdsInv'
  <2>1. \A m \in Markets : ~ Pending(m)'
    BY <1>1 DEF Pending
  <2> QED
    BY <1>1, <1>4, <1>5, <2>1
    DEF IdsInv, NumbersInOrder, TradesFirst, SoundNumbers
<1>12. AmountsInv'
  <2>1. TakerRestsNot'
    BY <1>1, <1>4, <1>6, NoTakerIsNoOrder DEF TakerRestsNot
  <2> QED
    BY <1>1, <1>5, <2>1 DEF AmountsInv, SoundBook
<1>13. FundsInv'
  BY <1>1, <1>3, <1>5
  DEF FundsInv, ListsTyped, Conserved, SoundDeposits, SoundWithdraws
<1>14. CreditsInv'
  BY <1>3, <1>5 DEF CreditsInv, SoundDeposits
<1>15. WithdrawsInv'
  BY <1>3, <1>5 DEF WithdrawsInv, WithdrawTypes, SoundWithdraws
<1>16. TokensInv'
  <2>1. NamedTokens' = NamedIn(s.contractToId)
    BY <1>2 DEF NamedTokens, NamedIn
  <2> QED
    BY <1>1, <1>2, <1>4, <1>5, <2>1
    DEF TokensInv, IdsApart, Held, LockedInNamed, TakerPays, SoundTokens
<1> QED
  BY <1>7, <1>9, <1>10, <1>11, <1>12, <1>13, <1>14, <1>15, <1>16 DEF ZexInv

-----------------------------------------------------------------------------
(* The node over its lifetime *)

FileSound == file.kind = "saved" => Sound(file.state)

SoundInv ==
    /\ Sound(FreshState)
    /\ FileSound
    /\ node = "up" => ZexInv

\* A node begins sound, and so would one that began with nothing.
LEMMA SoundInit == RecoveryInit => SoundInv
<1> SUFFICES ASSUME RecoveryInit
             PROVE  SoundInv
  OBVIOUS
<1>1. Init /\ file = NoFile
  BY DEF RecoveryInit
<1>2. ZexInv
  BY <1>1, ZexStart
<1>3. ToProtobuf(0) = FreshState
  BY <1>1 DEF Init, InitMarkets, InitAccounts, ToProtobuf, FreshState
<1>4. /\ taker = NoTaker /\ fault = "none"
      /\ publicToId = InitialIds /\ lastUserId = Len(InitialUsers)
  BY <1>1 DEF Init, InitMarkets, InitAccounts
<1>5. lastUserId = Max({0} \cup Range(publicToId))
  BY <1>4, InitialCounts, CountsMax
<1>6. Sound(ToProtobuf(0))
  BY <1>2, <1>4, <1>5, SaveIsSound
<1> QED
  BY <1>1, <1>2, <1>3, <1>6 DEF SoundInv, FileSound, NoFile

\* The process thread handles transactions and batches as the exchange does.
LEMMA ProcessIsStep ==
    ASSUME ReplayInv,
           HandleTransaction \/ ContinueMatch \/ FinishBatch \/ FailBatch
    PROVE  [Next]_zexVars /\ node = "up" /\ UNCHANGED <<node, file>>
<1>1. node = "up" /\ phase = "txs" /\ UNCHANGED <<node, file>>
  BY DEF HandleTransaction, ContinueMatch, FinishBatch, FailBatch, AllHandled,
         Running, loopVars
<1>2. CASE HandleTransaction
  <2>1. NodeOf(log, results, Core, phase, after) /\ Core.pos = pos
    BY <1>1 DEF ReplayInv, NodeInv, Core
  <2>2. /\ after \in Nat /\ 1 <= after /\ after <= Len(log) /\ pos \in Nat
    BY <1>1, <2>1 DEF NodeOf, Sane
  <2>3. log[after] \in Batches
    BY <2>2, LogHolds
  <2>4. PICK b \in Batches : b = log[after]
    BY <2>3
  <2>5. pos < Len(b.txs) /\ Handle(b.txs[pos + 1])
    BY <1>2, <2>4 DEF HandleTransaction
  <2>6. pos + 1 \in DOMAIN b.txs
    BY <2>2, <2>5, RecoveryAssumption
  <2>7. IsTransaction(b.txs[pos + 1])
    BY <2>6, RecoveryAssumption
  <2> QED
    BY <1>1, <2>5, <2>7, HandleIsStep
<1>3. CASE ContinueMatch \/ FinishBatch \/ FailBatch
  BY <1>1, <1>3 DEF ContinueMatch, FinishBatch, FailBatch, Next
<1> QED
  BY <1>2, <1>3

LEMMA ProcessIsSound ==
    ASSUME ReplayInv, SoundInv,
           HandleTransaction \/ ContinueMatch \/ FinishBatch \/ FailBatch
    PROVE  SoundInv'
  BY ProcessIsStep, ZexStep DEF SoundInv, FileSound

\* What leaves the exchange alone; a save finds it between two transactions.
LEMMA SaveKeepsSound ==
    ASSUME ReplayInv, SoundInv, UNCHANGED <<zexVars, node>>,
           UNCHANGED file \/ OpenFile \/ WriteFile
    PROVE  SoundInv'
<1>1. node = "up" => ZexInv'
  BY ZexStep DEF SoundInv
<1>2. FileSound'
  <2>1. CASE UNCHANGED file
    BY <2>1 DEF SoundInv, FileSound
  <2>2. CASE OpenFile
    BY <2>2 DEF OpenFile, EmptyFile, FileSound
  <2>3. CASE WriteFile
    <3>1. /\ node = "up" /\ phase = "write"
          /\ file' = Saved(ToProtobuf(lastTxIndex))
      BY <2>3 DEF WriteFile, Running
    <3>2. NodeOf(log, results, Core, phase, after)
      BY <3>1 DEF ReplayInv, NodeInv
    <3>3. Sane(Core) /\ Core.taker = NoTaker /\ Core.fault = "none"
      BY <3>1, <3>2 DEF NodeOf, AtRest
    <3>4. /\ taker = NoTaker /\ fault = "none"
          /\ Counts(publicToId, lastUserId)
      BY <3>3 DEF Sane, Core, ToProtobuf
    <3>5. Sound(ToProtobuf(lastTxIndex))
      BY <3>1, <3>4, CountsMax, SaveIsSound DEF SoundInv
    <3> QED
      BY <3>1, <3>5 DEF FileSound, Saved
  <2> QED
    BY <2>1, <2>2, <2>3
<1> QED
  BY <1>1, <1>2 DEF SoundInv

\* A node that is not up owes nothing but its file.
LEMMA CrashKeepsSound ==
    ASSUME SoundInv, Crash \/ LoadCutFile
    PROVE  SoundInv'
<1>1. node' # "up" /\ (file' = file \/ file' = CutFile)
  BY DEF Crash, LoadCutFile
<1> QED
  BY <1>1 DEF SoundInv, FileSound, CutFile

\* A start, with nothing or from the file.
LEMMA StartIsSound ==
    ASSUME SoundInv, StartFresh \/ LoadState
    PROVE  SoundInv'
<1>1. UNCHANGED file
  BY DEF StartFresh, LoadState, Begin
<1>2. ZexInv'
  <2>1. CASE StartFresh
    BY <2>1, LoadIsSound DEF StartFresh, SoundInv
  <2>2. CASE LoadState
    <3>1. file.kind = "saved" /\ FromProtobuf(file.state)
      BY <2>2 DEF LoadState
    <3> QED
      BY <3>1, LoadIsSound DEF SoundInv, FileSound
  <2> QED
    BY <2>1, <2>2
<1> QED
  BY <1>1, <1>2 DEF SoundInv, FileSound

\* Every step of a node keeps it.
LEMMA SoundNext ==
    ASSUME ReplayInv, SoundInv, [RecoveryNext]_recoveryVars
    PROVE  SoundInv'
<1>1. CASE UNCHANGED recoveryVars \/ TakeBatch \/ OpenFile \/ WriteFile
           \/ \E b \in Batches : Finalize(b)
  BY <1>1, SaveKeepsSound
  DEF recoveryVars, loopVars, TakeBatch, OpenFile, WriteFile, Finalize
<1> QED
  BY <1>1, ProcessIsSound, CrashKeepsSound, StartIsSound
  DEF RecoveryNext, Process

\* Funds, orders, nonces, event numbers, credits, withdrawals and token ids are in
\* order whenever a node is up, however many times it crashed, in whatever part
\* of a match or of a write, and whatever it came up with.
THEOREM StaysSoundHolds == RecoverySpec => []StaysSound
<1>1. SoundInv => StaysSound
  BY ZexInvGuards DEF SoundInv, StaysSound
<1> QED BY <1>1, ReplayInit, ReplayNext, SoundInit, SoundNext, PTL
        DEF RecoverySpec

-----------------------------------------------------------------------------
(* Levels over the lifetime of a node *)

\* The levels of a file are what its orders add up to.
LevelsSaved(s) ==
    \A m \in Markets, k \in Sides, p \in Int :
        Total(s.amounts, Priced(m, k, p), ByUnit) =
            IF p \in DOMAIN s.book[m][k] THEN s.book[m][k][p] ELSE 0

UpFits == node = "up" => LevelsFit

LevelsKept ==
    /\ LevelsSaved(FreshState)
    /\ file.kind = "saved" => LevelsSaved(file.state)
    /\ node = "up" => BookAgrees

\* What agrees is saved so, and what is loaded agrees as the file did.
LEMMA LevelsOfFile ==
    ASSUME BookAgrees, NEW i
    PROVE  LevelsSaved(ToProtobuf(i))
  BY DEF ToProtobuf, LevelsSaved, BookAgrees, Depth, LevelOf, HasLevel

LEMMA LevelsLoaded ==
    ASSUME NEW s, LevelsSaved(s), FromProtobuf(s)
    PROVE  BookAgrees'
<1>1. amounts' = s.amounts /\ book' = s.book
  BY DEF FromProtobuf, LoadMarkets
<1> QED
  BY <1>1 DEF LevelsSaved, BookAgrees, Depth, LevelOf, HasLevel

\* A node begins with no levels, and so would one that began with nothing.
LEMMA LevelsKeptInit == RecoveryInit => LevelsKept
<1> SUFFICES ASSUME RecoveryInit
             PROVE  LevelsKept
  OBVIOUS
<1>1. Init /\ file = NoFile
  BY DEF RecoveryInit
<1>2. BookAgrees
  BY <1>1, LevelsStart
<1>3. ToProtobuf(0) = FreshState
  BY <1>1 DEF Init, InitMarkets, InitAccounts, ToProtobuf, FreshState
<1>4. LevelsSaved(ToProtobuf(0))
  BY <1>2, LevelsOfFile
<1> QED
  BY <1>1, <1>2, <1>3, <1>4 DEF LevelsKept, NoFile

\* Every step of a node keeps them, as long as they fit while it is up.
LEMMA LevelsKeptNext ==
    ASSUME ReplayInv, SoundInv, SoundInv', UpFits, UpFits', LevelsKept,
           [RecoveryNext]_recoveryVars
    PROVE  LevelsKept'
<1>1. LevelsSaved(FreshState)
  BY DEF LevelsKept
<1>2. ASSUME [Next]_zexVars, node = "up", node' = "up"
      PROVE  BookAgrees'
  BY <1>2, LevelsStep DEF SoundInv, ZexInv, UpFits, LevelsKept
<1>3. CASE HandleTransaction \/ ContinueMatch \/ FinishBatch \/ FailBatch
  BY <1>1, <1>2, <1>3, ProcessIsStep DEF LevelsKept
<1>4. CASE UNCHANGED recoveryVars \/ TakeBatch \/ OpenFile \/ WriteFile
           \/ \E b \in Batches : Finalize(b)
  <2>1. UNCHANGED <<zexVars, node>>
    BY <1>4
    DEF recoveryVars, loopVars, TakeBatch, OpenFile, WriteFile, Finalize
  <2>2. \/ UNCHANGED file \/ file' = EmptyFile
        \/ node = "up" /\ file' = Saved(ToProtobuf(lastTxIndex))
    BY <1>4
    DEF recoveryVars, loopVars, TakeBatch, OpenFile, WriteFile, Finalize,
        Running
  <2>3. file'.kind = "saved" => LevelsSaved(file'.state)
    BY <2>2, LevelsOfFile DEF LevelsKept, EmptyFile, Saved
  <2> QED
    BY <1>1, <1>2, <2>1, <2>3 DEF LevelsKept
<1>5. CASE Crash \/ LoadCutFile
  <2>1. node' # "up" /\ (file' = file \/ file' = CutFile)
    BY <1>5 DEF Crash, LoadCutFile
  <2> QED
    BY <1>1, <2>1 DEF LevelsKept, CutFile
<1>6. CASE StartFresh \/ LoadState
  <2>1. UNCHANGED file
    BY <1>6 DEF StartFresh, LoadState, Begin
  <2>2. BookAgrees'
    BY <1>6, LevelsLoaded DEF StartFresh, LoadState, LevelsKept
  <2> QED
    BY <1>1, <2>1, <2>2 DEF LevelsKept
<1> QED
  BY <1>3, <1>4, <1>5, <1>6 DEF RecoveryNext, Process

\* A level shows what is left of its orders whenever a node is up, whatever part of
\* it came from a file and whatever part was computed since, as long as that never
\* was too much for the decimal context in any life of the node.
THEOREM LevelsSurviveHolds == RecoverySpec => LevelsSurvive
<1>1. RecoveryInit => ReplayInv /\ SoundInv /\ LevelsKept
  BY ReplayInit, SoundInit, LevelsKeptInit
<1>2. ReplayInv /\ SoundInv /\ [RecoveryNext]_recoveryVars
          => ReplayInv' /\ SoundInv'
  BY ReplayNext, SoundNext
<1>3. ReplayInv /\ SoundInv /\ SoundInv' /\ UpFits /\ UpFits' /\ LevelsKept
          /\ [RecoveryNext]_recoveryVars => LevelsKept'
  BY LevelsKeptNext
<1>4. SoundInv /\ LevelsKept => (node = "up" => LevelsTell)
  BY LevelsAgreeTell DEF SoundInv, ZexInv, LevelsKept
<1>5. UpFits <=> (node = "up" => LevelsFit)
  BY DEF UpFits
<1> QED
  BY <1>1, <1>2, <1>3, <1>4, <1>5, PTL DEF RecoverySpec, LevelsSurvive
=============================================================================
