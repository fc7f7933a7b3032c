------------------------------ MODULE Transmit ------------------------------
(***************************************************************************)
(* The way of a transaction from a POST to the state: zseq_deque, the      *)
(* thread of transmit_tx, the verifier, the redis list that stands in for  *)
(* the sequencer (MockZellular), and the thread of process_loop which      *)
(* reads the list and trims it.  Crashes and restarts of the node lose     *)
(* what is in memory; the list and the state file stay.                    *)
(*                                                                         *)
(* A transaction is named by its place among all that were ever posted.    *)
(* What a batch does to the state is in Recovery.tla, and so is when the   *)
(* state is saved: here it may be saved after any batch.                   *)
(***************************************************************************)
EXTENDS Integers, FiniteSetsExt, SequencesExt

CONSTANTS
    Requests,      \* lists of transactions a client may post
    Genuine,       \* transactions whose signature the verifier accepts
    MaxPosted,     \* bound on the transactions posted
    MaxCrashes,    \* bound on the crashes of the node
    NumProcesses,  \* worker processes of the verifier
    LenThreshold,  \* len_threshold of MockZellular
    FetchSize      \* elements one lrange returns

ASSUME TransmitAssumption ==
    /\ \A txs \in Requests : txs \in Seq(ToSet(txs))
    /\ MaxPosted \in Nat /\ MaxCrashes \in Nat
    /\ NumProcesses \in Nat \ {0}
    /\ LenThreshold \in Nat \ {0} /\ FetchSize \in Nat \ {0}

VARIABLES
    posted,        \* history: every transaction posted, in order
    deque,         \* zseq_deque
    sender,        \* thread of transmit_tx: "idle", "verify", "send", "ended"
    hand,          \* txs of transmit_tx
    list,          \* the redis list
    pushed,        \* history: every batch ever pushed on the list
    reader,        \* thread of process_loop: "fetch", "batch", "trim", "ended"
    fetched,       \* batches of the last lrange that wait to be yielded
    after,         \* batches taken, and the index of the last of them
    offset,        \* offset of MockZellular
    applied,       \* the places in pushed of the batches that made the state
    file,          \* after and applied as last saved
    crashes,       \* crashes so far
    removed,       \* history: elements ever popped from the list
    misplaced,     \* history: a node began to read a list that had been trimmed
    lost           \* history: transactions that were in memory in a failure

clientVars   == <<posted, deque>>
senderVars   == <<sender, hand>>
listVars     == <<list, pushed, removed>>
readerVars   == <<reader, fetched, after, offset, applied, file>>
nodeVars     == <<crashes, misplaced, lost>>
transmitVars == <<clientVars, senderVars, listVars, readerVars, nodeVars>>

-----------------------------------------------------------------------------
(* TransactionVerifier *)

IsGenuine(n) == posted[n] \in Genuine

ChunkSize(n) == n \div NumProcesses + 1

\* range(0, len(lst), chunk_size) has this many members.
Chunks(n) == (n + ChunkSize(n) - 1) \div ChunkSize(n)

Chunkify(txs) ==
    LET size == ChunkSize(Len(txs))
    IN  [k \in 1 .. Chunks(Len(txs)) |->
            SubSeq(txs, (k - 1) * size + 1, Min({k * size, Len(txs)}))]

VerifyChunk(txs) == [i \in DOMAIN txs |-> IsGenuine(txs[i])]

\* The verdicts of all chunks, in one row.
Verdicts__FirstChunkAgain(txs) ==
    LET chunks == Chunkify(txs)
    IN  FlattenSeq([k \in DOMAIN chunks |-> VerifyChunk(chunks[1])])

Verdicts(txs) ==
    LET chunks == Chunkify(txs)
    IN  FlattenSeq([k \in DOMAIN chunks |-> VerifyChunk(chunks[k])])

NoTx == 0

\* A list without its refused transactions.
Kept(txs) ==
    LET kept[i \in 0 .. Len(txs)] ==
            IF i = 0 THEN <<>>
            ELSE IF txs[i] = NoTx THEN kept[i - 1]
            ELSE Append(kept[i - 1], txs[i])
    IN  kept[Len(txs)]

\* verify puts None in the place of a refused transaction, and transmit_tx
\* leaves it out.
Verified(txs) ==
    LET verdicts == Verdicts(txs)
    IN  Kept([i \in DOMAIN txs |-> IF verdicts[i] THEN txs[i] ELSE NoTx])

-----------------------------------------------------------------------------
(* Clients *)

\* A handler extends the deque under the lock.
Post(txs) ==
    /\ sender # "down"
    /\ Len(posted) + Len(txs) <= MaxPosted
    /\ posted' = posted \o txs
    /\ deque' = deque \o [i \in DOMAIN txs |-> Len(posted) + i]
    /\ UNCHANGED <<senderVars, listVars, readerVars, nodeVars>>

-----------------------------------------------------------------------------
(* transmit_tx *)

\* Everything is popped under the lock.
Take ==
    /\ sender = "idle" /\ deque # <<>>
    /\ hand' = deque
    /\ deque' = <<>>
    /\ sender' = "verify"
    /\ UNCHANGED <<posted, listVars, readerVars, nodeVars>>

Verify ==
    /\ sender = "verify"
    /\ hand' = Verified(hand)
    /\ sender' = "send"
    /\ UNCHANGED <<clientVars, listVars, readerVars, nodeVars>>

\* rpush.  A batch may be empty.
Push ==
    /\ list' = Append(list, hand)
    /\ pushed' = Append(pushed, hand)
    /\ UNCHANGED removed

Send ==
    /\ sender = "send"
    /\ Push
    /\ hand' = <<>>
    /\ sender' = "idle"
    /\ UNCHANGED <<clientVars, readerVars, nodeVars>>

\* Any exception ends the thread: a transaction the workers cannot take apart,
\* or redis gone, before it has done the push or before its answer.
EndSender ==
    /\ sender \in {"verify", "send"}
    /\ sender' = "ended"
    /\ hand' = <<>>
    /\ \/ lost' = lost \cup ToSet(hand) /\ UNCHANGED listVars
       \/ sender = "send" /\ Push /\ UNCHANGED lost
    /\ UNCHANGED <<clientVars, readerVars, crashes, misplaced>>

-----------------------------------------------------------------------------
(* process_loop over MockZellular.batches *)

Fetch__EndExclusive ==
    /\ reader = "fetch"
    /\ fetched' = SubSeq(list, after - offset + 1,
                         Min({after - offset + FetchSize, Len(list) - 1}))
    /\ reader' = IF fetched' = <<>> THEN "trim" ELSE "batch"
    /\ UNCHANGED <<clientVars, senderVars, listVars, nodeVars, after, offset,
                   applied, file>>

\* lrange, from where the list would go on if only it had been trimmed right.
Fetch ==
    /\ reader = "fetch"
    /\ fetched' = SubSeq(list, after - offset + 1,
                         Min({after - offset + FetchSize, Len(list)}))
    /\ reader' = IF fetched' = <<>> THEN "trim" ELSE "batch"
    /\ UNCHANGED <<clientVars, senderVars, listVars, nodeVars, after, offset,
                   applied, file>>

\* The place among all batches of the one the reader has in hand.  The list is
\* not trimmed while it works through what it has fetched.
Place == removed + after - offset + 1

Apply__NoEnd ==
    /\ reader = "batch"
    /\ after' = after + 1
    /\ applied' = Append(applied, Place)
    /\ \/ UNCHANGED file
       \/ file' = [after |-> after', applied |-> applied']
    /\ fetched' = Tail(fetched)
    /\ reader' = "batch"
    /\ UNCHANGED <<clientVars, senderVars, listVars, nodeVars, offset>>

\* The next batch goes to Zex.process, which saves the state when it is time.
Apply ==
    /\ reader = "batch"
    /\ after' = after + 1
    /\ applied' = Append(applied, Place)
    /\ \/ UNCHANGED file
       \/ file' = [after |-> after', applied |-> applied']
    /\ fetched' = Tail(fetched)
    /\ reader' = IF fetched' = <<>> THEN "trim" ELSE "batch"
    /\ UNCHANGED <<clientVars, senderVars, listVars, nodeVars, offset>>

TrimDue__TooEarly == after >= 1

TrimDue == after - offset >= LenThreshold

Trim__ListKept ==
    /\ reader = "trim"
    /\ IF TrimDue
         THEN /\ UNCHANGED <<list, removed>>
              /\ offset' = after
         ELSE UNCHANGED <<list, removed, offset>>
    /\ reader' = "fetch"
    /\ UNCHANGED <<clientVars, senderVars, nodeVars, pushed, fetched, after,
                   applied, file>>

\* lpop(name, after): the number of batches ever taken, not those on the list.
Trim ==
    /\ reader = "trim"
    /\ IF TrimDue
         THEN /\ list' = SubSeq(list, after + 1, Len(list))
              /\ removed' = removed + Min({after, Len(list)})
              /\ offset' = after
         ELSE UNCHANGED <<list, removed, offset>>
    /\ reader' = "fetch"
    /\ UNCHANGED <<clientVars, senderVars, nodeVars, pushed, fetched, after,
                   applied, file>>

\* Whatever is not a ValueError ends the thread: redis gone, a KeyError.
EndReader ==
    /\ reader \in {"fetch", "batch", "trim"}
    /\ reader' = "ended"
    /\ UNCHANGED <<clientVars, senderVars, listVars, nodeVars, fetched, after,
                   offset, applied, file>>

-----------------------------------------------------------------------------
Crash ==
    /\ sender # "down" /\ crashes < MaxCrashes
    /\ crashes' = crashes + 1
    /\ sender' = "down" /\ reader' = "down"
    /\ deque' = <<>> /\ hand' = <<>> /\ fetched' = <<>>
    /\ lost' = lost \cup ToSet(deque) \cup ToSet(hand)
    /\ UNCHANGED <<posted, listVars, after, offset, applied, file, misplaced>>

\* offset is not saved: a new MockZellular begins with 0.
Start ==
    /\ sender = "down"
    /\ sender' = "idle" /\ reader' = "fetch"
    /\ after' = file.after /\ applied' = file.applied
    /\ offset' = 0
    /\ misplaced' = (misplaced \/ removed > 0)
    /\ UNCHANGED <<clientVars, hand, listVars, fetched, file, crashes, lost>>

-----------------------------------------------------------------------------
TransmitInit ==
    /\ posted = <<>> /\ deque = <<>>
    /\ sender = "idle" /\ hand = <<>>
    /\ list = <<>> /\ pushed = <<>> /\ removed = 0
    /\ reader = "fetch" /\ fetched = <<>>
    /\ after = 0 /\ offset = 0 /\ applied = <<>>
    /\ file = [after |-> 0, applied |-> <<>>]
    /\ crashes = 0 /\ misplaced = FALSE /\ lost = {}

Transmitter == Take \/ Verify \/ Send
Reader      == Fetch \/ Apply \/ Trim

TransmitNext ==
    \/ \E txs \in Requests : Post(txs)
    \/ Transmitter \/ EndSender
    \/ Reader \/ EndReader
    \/ Crash \/ Start

\* Each thread goes on as long as it has something to do; a node that is down
\* need not come up.
TransmitSpec ==
    /\ TransmitInit /\ [][TransmitNext]_transmitVars
    /\ WF_transmitVars(Transmitter) /\ WF_transmitVars(Reader)

-----------------------------------------------------------------------------
TypeOK ==
    /\ sender \in {"idle", "verify", "send", "ended", "down"}
    /\ reader \in {"fetch", "batch", "trim", "ended", "down"}
    /\ sender = "down" <=> reader = "down"
    /\ sender \in {"idle", "ended", "down"} => hand = <<>>
    /\ reader \in {"fetch", "trim", "down"} => fetched = <<>>
    /\ reader = "batch" => fetched # <<>>
    /\ reader = "batch" => Head(fetched) = pushed[Place]
    /\ offset <= after
    /\ removed + Len(list) = Len(pushed)

\* Where a transaction may be on its way, the foremost first.
InLine == pushed \o <<hand, deque>>

\* The log, what transmit_tx has in hand and what waits in the deque are in the
\* order of the posts, only genuine transactions are in the log, and those that
\* are nowhere were in memory in a failure: across requests that come while
\* others are verified, chunks of unlike sizes, and crashes, nothing is doubled,
\* overtaken, let through or left out.
LogIsPosted ==
    /\ \A i, j \in DOMAIN InLine :
          \A k \in DOMAIN InLine[i], l \in DOMAIN InLine[j] :
              i < j \/ (i = j /\ k < l) => InLine[i][k] < InLine[j][l]
    /\ \A i \in DOMAIN InLine : ToSet(InLine[i]) \subseteq DOMAIN posted
    /\ \A i \in DOMAIN pushed : \A n \in ToSet(pushed[i]) : IsGenuine(n)
    /\ \A n \in DOMAIN posted : IsGenuine(n) =>
          (n \in lost <=> \A i \in DOMAIN InLine : n \notin ToSet(InLine[i]))

\* The place where the reader goes on is where it left off: until the list has
\* come to twice its threshold, when a second trim may take batches that nobody
\* has read, and until a node starts on a list that was trimmed, when it skips
\* as many batches as were.
InStep == ~ misplaced /\ Len(pushed) < 2 * LenThreshold

\* As long as the list is in step the first batches make the state without a gap.
NoGap == InStep => applied = [i \in 1 .. after |-> i]

\* Whatever is skipped, no batch is ever applied twice or after a later one,
\* whenever the node crashed, saved and trimmed.
NothingTwice ==
    \A i, j \in DOMAIN applied : i < j => applied[i] < applied[j]

Applied(n) == \E i \in DOMAIN applied : n \in ToSet(pushed[applied[i]])

\* A genuine transaction whose POST was answered gets into the state, if its
\* node stays up, both threads live and the list is still in step.
PostedIsApplied ==
    \A n \in 1 .. MaxPosted :
        [](n \in DOMAIN posted /\ (n \in DOMAIN posted => IsGenuine(n)) =>
              <>(\/ Applied(n) \/ n \in lost
                 \/ sender \in {"ended", "down"} \/ reader \in {"ended", "down"}
                 \/ ~ InStep))
=============================================================================
