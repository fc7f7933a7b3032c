--------------------------- MODULE MonitorProofs ----------------------------
(***************************************************************************)
(* First, what process_loop makes of a list it trims itself, for every     *)
(* threshold, any number of batches, crashes and restarts, and whatever    *)
(* the verifier lets through.  Then that the verifier, in as many          *)
(* processes as one likes, and transmit_tx bring to that list just what    *)
(* was posted.  Last what the Bitcoin monitor, one of those who post,      *)
(* reports: for every number of confirmations, users, blocks and starts,   *)
(* whatever the node and the chain do meanwhile.                           *)
(***************************************************************************)
EXTENDS BtcMonitor, SumProofs, SequenceTheorems, FiniteSetTheorems, TLAPS

-----------------------------------------------------------------------------
(* Sequences *)

\* A sequence of anything: what a batch holds does not matter here.
IsSeq(s) == s \in Seq({s[i] : i \in DOMAIN s})

\* What Sequences calls a sequence is one.
LEMMA SeqIsSeq ==
    ASSUME NEW S, NEW s \in Seq(S)
    PROVE  IsSeq(s)
<1>1. s \in [1 .. Len(s) -> S] /\ Len(s) \in Nat /\ DOMAIN s = 1 .. Len(s)
  BY LenProperties
<1>2. s \in [1 .. Len(s) -> {s[i] : i \in DOMAIN s}]
  BY <1>1
<1> QED
  BY <1>1, <1>2, SeqDef DEF IsSeq

\* Its length is a number.
LEMMA LengthOfSeq ==
    ASSUME NEW s, IsSeq(s)
    PROVE  Len(s) \in Nat /\ DOMAIN s = 1 .. Len(s)
  BY LenProperties DEF IsSeq

\* The empty sequence is one.
LEMMA EmptyIsSeq == IsSeq(<<>>) /\ Len(<<>>) = 0
  BY SeqIsSeq, EmptySeq

\* One more element.
LEMMA AppendIsSeq ==
    ASSUME NEW s, NEW e, IsSeq(s)
    PROVE  /\ IsSeq(Append(s, e))
           /\ Len(Append(s, e)) = Len(s) + 1
           /\ \A i \in 1 .. Len(s) : Append(s, e)[i] = s[i]
           /\ Append(s, e)[Len(s) + 1] = e
<1> DEFINE S == {s[i] : i \in DOMAIN s} \cup {e}
<1>1. s \in Seq(S)
  BY SeqMonotonic DEF IsSeq
<1>2. e \in S
  OBVIOUS
<1> HIDE DEF S
<1>3. /\ Append(s, e) \in Seq(S)
      /\ Len(Append(s, e)) = Len(s) + 1
      /\ \A i \in 1 .. Len(s) : Append(s, e)[i] = s[i]
      /\ Append(s, e)[Len(s) + 1] = e
  BY <1>1, <1>2, AppendProperties
<1>4. IsSeq(Append(s, e))
  BY <1>3, SeqIsSeq
<1> QED
  BY <1>3, <1>4

\* A part of a sequence.
LEMMA SubSeqIsSeq ==
    ASSUME NEW s, IsSeq(s), NEW m \in Nat, m >= 1, NEW n \in Int, n <= Len(s)
    PROVE  /\ IsSeq(SubSeq(s, m, n))
           /\ Len(SubSeq(s, m, n)) = IF m <= n THEN n - m + 1 ELSE 0
           /\ \A i \in 1 .. Len(SubSeq(s, m, n)) :
                  SubSeq(s, m, n)[i] = s[m + i - 1]
<1> DEFINE S == {s[i] : i \in DOMAIN s}
<1>1. s \in Seq(S) /\ Len(s) \in Nat
  BY LengthOfSeq DEF IsSeq
<1> HIDE DEF S
<1>2. CASE m <= n
  <2>1. SubSeq(s, m, n) \in Seq(S) /\ Len(SubSeq(s, m, n)) = n - m + 1
    BY <1>1, <1>2, SubSeqProperties
  <2>2. \A i \in 1 .. n - m + 1 : SubSeq(s, m, n)[i] = s[m + i - 1]
    BY <1>1, <1>2, SubSeqProperties
  <2> QED
    BY <1>2, <2>1, <2>2, SeqIsSeq
<1>3. CASE ~ (m <= n)
  <2>1. SubSeq(s, m, n) = <<>>
    BY <1>1, <1>3, SubSeqEmpty
  <2> QED
    BY <1>3, <2>1, EmptyIsSeq
<1> QED
  BY <1>2, <1>3

\* All but its first element.
LEMMA TailIsSeq ==
    ASSUME NEW s, IsSeq(s), s # <<>>
    PROVE  /\ IsSeq(Tail(s))
           /\ Len(s) >= 1
           /\ Len(Tail(s)) = Len(s) - 1
           /\ \A i \in 1 .. Len(Tail(s)) : Tail(s)[i] = s[i + 1]
           /\ Head(s) = s[1]
<1> DEFINE S == {s[i] : i \in DOMAIN s}
<1>1. s \in Seq(S) /\ Len(s) \in Nat
  BY LengthOfSeq DEF IsSeq
<1>2. Len(s) >= 1
  BY <1>1, EmptySeq
<1> HIDE DEF S
<1>3. Tail(s) \in Seq(S) /\ Len(Tail(s)) = Len(s) - 1 /\ Head(s) = s[1]
  BY <1>1, <1>2, HeadTailProperties
<1>4. \A i \in 1 .. Len(Tail(s)) : Tail(s)[i] = s[i + 1]
  BY <1>1, <1>2, HeadTailProperties
<1> QED
  BY <1>2, <1>3, <1>4, SeqIsSeq


-----------------------------------------------------------------------------
SeqTypes ==
    /\ IsSeq(list) /\ IsSeq(pushed) /\ IsSeq(fetched)
    /\ applied \in Seq(Nat) /\ file.applied \in Seq(Nat)
    /\ after \in Nat /\ offset \in Nat /\ removed \in Nat /\ file.after \in Nat
    /\ offset <= after

Phases ==
    /\ sender \in {"idle", "verify", "send", "ended", "down"}
    /\ reader \in {"fetch", "batch", "trim", "ended", "down"}
    /\ sender = "down" <=> reader = "down"
    /\ sender \in {"idle", "ended", "down"} => hand = <<>>
    /\ reader \in {"fetch", "trim", "down"} => fetched = <<>>

\* The list is the end of what was ever pushed.
ListInv ==
    /\ removed + Len(list) = Len(pushed)
    /\ \A i \in 1 .. Len(list) : list[i] = pushed[removed + i]

\* What waits to be yielded is still on the list, from the index the reader
\* counts by.
FetchInv ==
    reader = "batch" =>
        /\ fetched # <<>>
        /\ after - offset + Len(fetched) <= Len(list)
        /\ \A i \in 1 .. Len(fetched) : fetched[i] = list[after - offset + i]

StateInv == SeqTypes /\ Phases /\ ListInv /\ FetchInv

\* A node that has seen nothing.
LEMMA StateInit ==
    ASSUME TransmitInit
    PROVE  StateInv
<1> USE DEF TransmitInit
<1>1. SeqTypes
  BY EmptyIsSeq, EmptySeq DEF SeqTypes
<1>2. Phases /\ FetchInv
  BY DEF Phases, FetchInv
<1>3. ListInv
  BY EmptyIsSeq DEF ListInv
<1> QED
  BY <1>1, <1>2, <1>3 DEF StateInv

\* A batch pushed while the reader is anywhere.
LEMMA PushKeeps ==
    ASSUME StateInv, Push, UNCHANGED readerVars,
           Phases'
    PROVE  StateInv'
<1>1. /\ IsSeq(list') /\ IsSeq(pushed')
      /\ Len(list') = Len(list) + 1 /\ Len(pushed') = Len(pushed) + 1
      /\ \A i \in 1 .. Len(list) : list'[i] = list[i]
      /\ list'[Len(list) + 1] = hand
      /\ \A i \in 1 .. Len(pushed) : pushed'[i] = pushed[i]
      /\ pushed'[Len(pushed) + 1] = hand
  BY AppendIsSeq DEF StateInv, SeqTypes, Push
<1>2. Len(list) \in Nat /\ Len(pushed) \in Nat /\ Len(fetched) \in Nat
  BY LengthOfSeq DEF StateInv, SeqTypes
<1>3. SeqTypes'
  BY <1>1 DEF StateInv, SeqTypes, readerVars, Push
<1>4. ListInv'
  <2>1. removed' + Len(list') = Len(pushed')
    <3>1. /\ removed' = removed /\ removed \in Nat
          /\ removed + Len(list) = Len(pushed)
      BY DEF StateInv, SeqTypes, ListInv, Push
    <3>2. Len(list') = Len(list) + 1 /\ Len(pushed') = Len(pushed) + 1
      BY <1>1
    <3> QED
      BY <1>2, <3>1, <3>2
  <2>2. ASSUME NEW i \in 1 .. Len(list')
        PROVE  list'[i] = pushed'[removed' + i]
    <3>1. CASE i \in 1 .. Len(list)
      <4>1. removed + i \in 1 .. Len(pushed) /\ removed' = removed
        BY <1>2, <3>1 DEF StateInv, SeqTypes, ListInv, Push
      <4> QED
        BY <1>1, <3>1, <4>1 DEF StateInv, ListInv
    <3>2. CASE i = Len(list) + 1
      <4>0. removed \in Nat /\ removed + Len(list) = Len(pushed)
        BY DEF StateInv, SeqTypes, ListInv
      <4>1. removed + i = Len(pushed) + 1 /\ removed' = removed
        BY <1>2, <3>2, <4>0 DEF Push
      <4> QED
        BY <1>1, <3>2, <4>1
    <3> QED
      BY <1>1, <1>2, <3>1, <3>2
  <2> QED
    BY <2>1, <2>2 DEF ListInv
<1>5. FetchInv'
  <2> SUFFICES ASSUME reader = "batch"
               PROVE  FetchInv'
    BY DEF FetchInv, readerVars
  <2>1. /\ fetched # <<>>
        /\ after - offset + Len(fetched) <= Len(list)
        /\ \A i \in 1 .. Len(fetched) : fetched[i] = list[after - offset + i]
    BY DEF StateInv, FetchInv
  <2>2. \A i \in 1 .. Len(fetched) : after - offset + i \in 1 .. Len(list)
    BY <1>2, <2>1 DEF StateInv, SeqTypes
  <2>3. \A i \in 1 .. Len(fetched) : fetched[i] = list'[after - offset + i]
    BY <1>1, <2>1, <2>2
  <2>4. after - offset + Len(fetched) <= Len(list')
    BY <1>1, <1>2, <2>1 DEF StateInv, SeqTypes
  <2> QED
    BY <2>1, <2>3, <2>4 DEF FetchInv, readerVars
<1> QED
  BY <1>3, <1>4, <1>5 DEF StateInv

\* What is fetched lies on the list where the index says.
LEMMA FetchKeeps ==
    ASSUME StateInv, Fetch
    PROVE  StateInv'
<1> DEFINE last == Min({after - offset + FetchSize, Len(list)})
<1>1. /\ Len(list) \in Nat /\ after - offset \in Nat
      /\ IsSeq(list)
      /\ after - offset + FetchSize \in Nat
  BY LengthOfSeq, TransmitAssumption DEF StateInv, SeqTypes
<1>2. last \in Nat /\ last <= Len(list)
  <2>1. \/ last = after - offset + FetchSize /\ last <= Len(list)
        \/ last = Len(list)
    BY <1>1 DEF Min
  <2> QED
    BY <1>1, <2>1
<1>3. /\ fetched' = SubSeq(list, after - offset + 1, last)
      /\ reader = "fetch"
      /\ reader' = IF fetched' = <<>> THEN "trim" ELSE "batch"
      /\ UNCHANGED <<list, pushed, removed, sender, hand, after, offset, applied,
                     file>>
  BY DEF Fetch, clientVars, senderVars, listVars, nodeVars
<1> HIDE DEF last
<1>4. /\ IsSeq(fetched')
      /\ Len(fetched') = IF after - offset + 1 <= last
                           THEN last - (after - offset + 1) + 1 ELSE 0
      /\ \A i \in 1 .. Len(fetched') :
             fetched'[i] = list[after - offset + 1 + i - 1]
  <2>1. after - offset + 1 \in Nat /\ after - offset + 1 >= 1 /\ last \in Int
    BY <1>1, <1>2
  <2> QED
    BY <1>1, <1>2, <1>3, <2>1, SubSeqIsSeq
<1>5. SeqTypes' /\ ListInv'
  BY <1>3, <1>4 DEF StateInv, SeqTypes, ListInv
<1>6. Phases'
  BY <1>3 DEF StateInv, Phases
<1>7. FetchInv'
  <2> SUFFICES ASSUME reader' = "batch"
               PROVE  FetchInv'
    BY DEF FetchInv
  <2>1. fetched' # <<>>
    BY <1>3
  <2>2. Len(fetched') # 0
    BY <1>4, <2>1, EmptySeq DEF IsSeq
  <2>3. after - offset + Len(fetched') <= Len(list)
    BY <1>1, <1>2, <1>4, <2>2
  <2>4. \A i \in 1 .. Len(fetched') : fetched'[i] = list[after - offset + i]
    <3>1. \A i \in 1 .. Len(fetched') : after - offset + 1 + i - 1 = after - offset + i
      BY <1>1, <1>4, LengthOfSeq
    <3> QED
      BY <1>4, <3>1
  <2> QED
    BY <1>3, <2>1, <2>3, <2>4 DEF FetchInv
<1> QED
  BY <1>5, <1>6, <1>7 DEF StateInv

\* The next batch leaves the rest of what was fetched where it lies.
LEMMA ApplyKeeps ==
    ASSUME StateInv, Apply
    PROVE  StateInv'
<1>1. /\ reader = "batch" /\ fetched # <<>>
      /\ after - offset + Len(fetched) <= Len(list)
      /\ \A i \in 1 .. Len(fetched) : fetched[i] = list[after - offset + i]
      /\ IsSeq(fetched)
  BY DEF Apply, StateInv, FetchInv, SeqTypes
<1>2. /\ Len(list) \in Nat /\ after - offset \in Nat /\ Place \in Nat
      /\ after \in Nat /\ offset \in Nat
  BY LengthOfSeq DEF StateInv, SeqTypes, Place
<1>3. /\ IsSeq(fetched') /\ Len(fetched) >= 1
      /\ Len(fetched') = Len(fetched) - 1
      /\ \A i \in 1 .. Len(fetched') : fetched'[i] = fetched[i + 1]
  BY <1>1, TailIsSeq DEF Apply
<1>4. /\ after' = after + 1
      /\ reader' = IF fetched' = <<>> THEN "trim" ELSE "batch"
      /\ UNCHANGED <<list, pushed, removed, sender, hand, offset>>
  BY DEF Apply, clientVars, senderVars, listVars, nodeVars
<1>5. SeqTypes'
  <2>1. applied' \in Seq(Nat)
    BY <1>2, AppendProperties DEF Apply, StateInv, SeqTypes
  <2>2. file'.after \in Nat /\ file'.applied \in Seq(Nat)
    <3>1. CASE UNCHANGED file
      BY <3>1 DEF StateInv, SeqTypes
    <3>2. CASE file' = [after |-> after', applied |-> applied']
      BY <1>2, <1>4, <2>1, <3>2
    <3> QED
      BY <3>1, <3>2 DEF Apply
  <2> QED
    BY <1>2, <1>3, <1>4, <2>1, <2>2 DEF StateInv, SeqTypes
<1>6. ListInv'
  BY <1>4 DEF StateInv, ListInv
<1>7. Phases'
  BY <1>1, <1>4 DEF StateInv, Phases
<1>8. FetchInv'
  <2> SUFFICES ASSUME reader' = "batch"
               PROVE  FetchInv'
    BY DEF FetchInv
  <2>1. fetched' # <<>>
    BY <1>4
  <2>2. Len(fetched) \in Nat
    BY <1>1, LengthOfSeq
  <2>3. after' - offset + Len(fetched') <= Len(list)
    BY <1>1, <1>2, <1>3, <1>4, <2>2
  <2>4. ASSUME NEW i \in 1 .. Len(fetched')
        PROVE  fetched'[i] = list[after' - offset + i]
    <3>1. i + 1 \in 1 .. Len(fetched)
      BY <1>3, <2>2
    <3>2. after - offset + (i + 1) = after' - offset + i
      BY <1>2, <1>4
    <3> QED
      BY <1>1, <1>3, <3>1, <3>2
  <2> QED
    BY <1>4, <2>1, <2>3, <2>4 DEF FetchInv
<1> QED
  BY <1>5, <1>6, <1>7, <1>8 DEF StateInv

\* A trim takes the same from the list and from what is counted as removed.
LEMMA TrimKeeps ==
    ASSUME StateInv, Trim
    PROVE  StateInv'
<1>1. /\ reader = "trim" /\ reader' = "fetch"
      /\ UNCHANGED <<pushed, sender, hand, fetched, after, applied, file>>
  BY DEF Trim, clientVars, senderVars, nodeVars
<1>2. /\ IsSeq(list) /\ Len(list) \in Nat /\ after \in Nat /\ removed \in Nat
      /\ removed + Len(list) = Len(pushed)
      /\ \A i \in 1 .. Len(list) : list[i] = pushed[removed + i]
  BY LengthOfSeq DEF StateInv, SeqTypes, ListInv
<1>3. Phases' /\ FetchInv'
  BY <1>1 DEF StateInv, Phases, FetchInv
<1>4. CASE ~ TrimDue
  <2>1. UNCHANGED <<list, removed, offset>>
    BY <1>4 DEF Trim
  <2> QED
    BY <1>1, <1>3, <2>1 DEF StateInv, SeqTypes, ListInv
<1>5. CASE TrimDue
  <2>1. /\ list' = SubSeq(list, after + 1, Len(list))
        /\ removed' = removed + Min({after, Len(list)})
        /\ offset' = after
    BY <1>5 DEF Trim
  <2>2. /\ IsSeq(list')
        /\ Len(list') = IF after + 1 <= Len(list)
                          THEN Len(list) - (after + 1) + 1 ELSE 0
        /\ \A i \in 1 .. Len(list') : list'[i] = list[after + 1 + i - 1]
    <3>1. /\ IsSeq(list) /\ Len(list) \in Nat
          /\ after + 1 \in Nat /\ after + 1 >= 1
      BY <1>2
    <3>2. PICK rest : rest = SubSeq(list, after + 1, Len(list))
      OBVIOUS
    <3>3. /\ IsSeq(rest)
          /\ Len(rest) = IF after + 1 <= Len(list)
                           THEN Len(list) - (after + 1) + 1 ELSE 0
          /\ \A i \in 1 .. Len(rest) : rest[i] = list[after + 1 + i - 1]
      BY <3>1, <3>2, SubSeqIsSeq
    <3> QED
      BY <2>1, <3>2, <3>3
  <2>3. CASE after + 1 <= Len(list)
    <3>1. removed' = removed + after
      <4>1. Min({after, Len(list)}) = after
        BY <1>2, <2>3 DEF Min
      <4> QED
        BY <2>1, <4>1
    <3>2. Len(list') = Len(list) - after
      BY <1>2, <2>2, <2>3
    <3>3. removed' \in Nat /\ removed' + Len(list') = Len(pushed)
      BY <1>2, <3>1, <3>2
    <3>4. ASSUME NEW i \in 1 .. Len(list')
          PROVE  list'[i] = pushed[removed' + i]
      <4>1. /\ after + 1 + i - 1 = after + i /\ after + i \in 1 .. Len(list)
            /\ removed + (after + i) = removed' + i
        BY <1>2, <2>3, <3>1, <3>2
      <4> QED
        BY <1>2, <2>2, <4>1
    <3>5. SeqTypes'
      BY <1>1, <1>2, <2>1, <2>2, <3>3 DEF StateInv, SeqTypes
    <3>6. ListInv'
      BY <1>1, <3>3, <3>4 DEF ListInv
    <3> QED
      BY <1>3, <3>5, <3>6 DEF StateInv
  <2>4. CASE ~ (after + 1 <= Len(list))
    <3>1. Min({after, Len(list)}) = Len(list)
      BY <1>2, <2>4 DEF Min
    <3>2. removed' \in Nat /\ Len(list') = 0 /\ removed' + Len(list') = Len(pushed)
      BY <1>2, <2>1, <2>2, <2>4, <3>1
    <3> QED
      BY <1>1, <1>3, <2>1, <2>2, <3>2 DEF StateInv, SeqTypes, ListInv
  <2> QED
    BY <2>3, <2>4
<1> QED
  BY <1>4, <1>5

\* A start reads the list from its beginning, trimmed or not.
LEMMA StartKeeps ==
    ASSUME StateInv, Start
    PROVE  StateInv'
<1>1. /\ UNCHANGED <<hand, list, pushed, removed, fetched, file>>
      /\ sender = "down" /\ sender' = "idle" /\ reader' = "fetch"
      /\ after' = file.after /\ applied' = file.applied /\ offset' = 0
  BY DEF Start, clientVars, listVars
<1>2. SeqTypes' /\ ListInv'
  BY <1>1 DEF StateInv, SeqTypes, ListInv
<1>3. Phases' /\ FetchInv'
  BY <1>1 DEF StateInv, Phases, FetchInv
<1> QED
  BY <1>2, <1>3 DEF StateInv

\* A crash takes what is in memory only.
LEMMA CrashKeeps ==
    ASSUME StateInv, Crash
    PROVE  StateInv'
<1>1. /\ UNCHANGED <<list, pushed, removed, after, offset, applied, file>>
      /\ sender' = "down" /\ reader' = "down" /\ hand' = <<>> /\ fetched' = <<>>
  BY DEF Crash, listVars
<1>2. SeqTypes' /\ ListInv'
  BY <1>1, EmptyIsSeq DEF StateInv, SeqTypes, ListInv
<1>3. Phases' /\ FetchInv'
  BY <1>1 DEF StateInv, Phases, FetchInv
<1> QED
  BY <1>2, <1>3 DEF StateInv

\* Every step keeps the types and the agreement of the list with the history.
LEMMA StateStep ==
    ASSUME StateInv, [TransmitNext]_transmitVars
    PROVE  StateInv'
<1> USE DEF clientVars, senderVars, listVars, readerVars, nodeVars
<1>1. ASSUME NEW txs \in Requests, Post(txs)
      PROVE  StateInv'
  BY <1>1 DEF Post, StateInv, SeqTypes, Phases, ListInv, FetchInv
<1>2. ASSUME Take
      PROVE  StateInv'
  BY <1>2 DEF Take, StateInv, SeqTypes, Phases, ListInv, FetchInv
<1>3. ASSUME Verify
      PROVE  StateInv'
  BY <1>3 DEF Verify, StateInv, SeqTypes, Phases, ListInv, FetchInv
<1>4. ASSUME Send
      PROVE  StateInv'
  <2>1. Phases'
    BY <1>4 DEF Send, Push, StateInv, Phases
  <2> QED
    BY <1>4, <2>1, PushKeeps DEF Send
<1>5. ASSUME EndSender
      PROVE  StateInv'
  <2>1. Phases'
    BY <1>5 DEF EndSender, StateInv, Phases
  <2>2. CASE UNCHANGED listVars
    BY <1>5, <2>1, <2>2 DEF EndSender, StateInv, SeqTypes, ListInv, FetchInv
  <2>3. CASE Push
    BY <1>5, <2>1, <2>3, PushKeeps DEF EndSender
  <2> QED
    BY <1>5, <2>2, <2>3 DEF EndSender
<1>6. ASSUME EndReader
      PROVE  StateInv'
  BY <1>6 DEF EndReader, StateInv, SeqTypes, Phases, ListInv, FetchInv
<1>7. ASSUME UNCHANGED transmitVars
      PROVE  StateInv'
  BY <1>7 DEF transmitVars, StateInv, SeqTypes, Phases, ListInv, FetchInv
<1> QED
  BY <1>1, <1>2, <1>3, <1>4, <1>5, <1>6, <1>7,
     FetchKeeps, ApplyKeeps, TrimKeeps, CrashKeeps, StartKeeps
  DEF TransmitNext, Transmitter, Reader

\* Every variable keeps its type, and the batch process_loop is about to apply
\* is the one at Place among all that were pushed, however often the list has
\* been trimmed and the node started.
THEOREM TransmitTypes == TransmitSpec => []TypeOK
<1>1. StateInv => TypeOK
  <2> SUFFICES ASSUME StateInv
               PROVE  TypeOK
    OBVIOUS
  <2>1. ASSUME reader = "batch"
        PROVE  fetched # <<>> /\ Head(fetched) = pushed[Place]
    <3>1. /\ fetched # <<>> /\ Len(fetched) >= 1 /\ Head(fetched) = fetched[1]
      BY <2>1, TailIsSeq DEF StateInv, SeqTypes, FetchInv
    <3>2. /\ Len(fetched) \in Nat /\ Len(list) \in Nat /\ after - offset \in Nat
          /\ removed \in Nat
      BY LengthOfSeq DEF StateInv, SeqTypes
    <3>3. after - offset + Len(fetched) <= Len(list)
      BY <2>1 DEF StateInv, FetchInv
    <3>4. fetched[1] = list[after - offset + 1]
      BY <2>1, <3>1, <3>2 DEF StateInv, FetchInv
    <3>5. after - offset + 1 \in 1 .. Len(list)
      BY <3>1, <3>2, <3>3
    <3>6. list[after - offset + 1] = pushed[removed + (after - offset + 1)]
      BY <3>5 DEF StateInv, ListInv
    <3>7. removed + (after - offset + 1) = Place
      BY <3>2 DEF Place, StateInv, SeqTypes
    <3> QED
      BY <3>1, <3>4, <3>6, <3>7
  <2> QED
    BY <2>1 DEF TypeOK, StateInv, SeqTypes, Phases, ListInv
<1> QED
  BY <1>1, StateInit, StateStep, PTL DEF TransmitSpec

-----------------------------------------------------------------------------
\* The places in s go up, and none is beyond the n first or the last pushed.
Ordered(s, n) ==
    /\ \A i, j \in 1 .. Len(s) : i < j => s[i] < s[j]
    /\ \A i \in 1 .. Len(s) : s[i] <= n /\ s[i] <= Len(pushed)

\* What is applied was in the list before the place the reader is at, and what
\* a start would apply again before the place it would read from.
OrderInv ==
    /\ Ordered(applied, removed + after - offset)
    /\ Ordered(file.applied, removed + file.after)

\* A batch is applied at the place the reader is at, after all before it.
LEMMA OrderApply ==
    ASSUME StateInv, OrderInv, Apply
    PROVE  OrderInv'
<1> DEFINE n == removed + after - offset
<1>1. /\ after' = after + 1 /\ applied' = Append(applied, Place)
      /\ UNCHANGED <<list, pushed, removed, offset>>
  BY DEF Apply, listVars
<1>2. /\ after \in Nat /\ offset \in Nat /\ removed \in Nat /\ offset <= after
      /\ n \in Nat /\ Place = n + 1 /\ Place \in Nat
      /\ removed' + after' - offset' = n + 1
      /\ applied \in Seq(Nat) /\ Len(applied) \in Nat
  BY <1>1, LenProperties DEF StateInv, SeqTypes, Place
<1>3. Place <= Len(pushed)
  <2>1. /\ IsSeq(fetched) /\ fetched # <<>> /\ IsSeq(list)
        /\ after - offset + Len(fetched) <= Len(list)
        /\ removed + Len(list) = Len(pushed)
    BY DEF Apply, StateInv, SeqTypes, FetchInv, ListInv
  <2>2. Len(fetched) >= 1 /\ Len(fetched) \in Nat /\ Len(list) \in Nat
    BY <2>1, TailIsSeq, LengthOfSeq
  <2> QED
    BY <1>2, <2>1, <2>2 DEF Place
<1>4. /\ Len(applied') = Len(applied) + 1
      /\ \A i \in 1 .. Len(applied) : applied'[i] = applied[i]
      /\ applied'[Len(applied) + 1] = Place
  BY <1>1, <1>2, AppendProperties
<1>5. \A i \in 1 .. Len(applied) : applied[i] \in Nat /\ applied[i] <= n
                                   /\ applied[i] <= Len(pushed)
  BY <1>2, ElementOfSeq DEF OrderInv, Ordered
<1> HIDE DEF n
<1>6. \A i \in 1 .. Len(applied') : applied'[i] <= n + 1
                                    /\ applied'[i] <= Len(pushed)
  <2>1. TAKE i \in 1 .. Len(applied')
  <2>2. CASE i \in 1 .. Len(applied)
    <3>1. applied'[i] = applied[i] /\ applied[i] \in Nat
          /\ applied[i] <= n /\ applied[i] <= Len(pushed)
      BY <1>4, <1>5, <2>2
    <3> QED
      BY <1>2, <3>1
  <2>3. CASE i = Len(applied) + 1
    BY <1>2, <1>3, <1>4, <2>3
  <2> QED
    BY <1>2, <1>4, <2>2, <2>3
<1>7. ASSUME NEW i \in 1 .. Len(applied'), NEW j \in 1 .. Len(applied'), i < j
      PROVE  applied'[i] < applied'[j]
  <2>1. i \in 1 .. Len(applied)
    BY <1>2, <1>4, <1>7
  <2>2. CASE j \in 1 .. Len(applied)
    BY <1>4, <1>7, <2>1, <2>2 DEF OrderInv, Ordered
  <2>3. CASE j = Len(applied) + 1
    BY <1>2, <1>4, <1>5, <2>1, <2>3
  <2> QED
    BY <1>2, <1>4, <2>2, <2>3
<1>8. Ordered(applied, removed + after - offset)'
  BY <1>1, <1>2, <1>6, <1>7 DEF Ordered
<1>9. Ordered(file.applied, removed + file.after)'
  <2>1. CASE UNCHANGED file
    BY <1>1, <2>1 DEF OrderInv, Ordered
  <2>2. CASE file' = [after |-> after', applied |-> applied']
    <3>1. file'.applied = applied' /\ file'.after = after'
      BY <2>2
    <3>2. removed' + file'.after \in Nat /\ n + 1 <= removed' + file'.after
      BY <1>1, <1>2, <3>1 DEF n
    <3>3. \A i \in 1 .. Len(applied') : applied'[i] \in Nat
      BY <1>2, <1>4, <1>5
    <3>4. \A i \in 1 .. Len(applied') : applied'[i] <= removed' + file'.after
      BY <1>2, <1>6, <3>2, <3>3
    <3> QED
      BY <1>1, <1>6, <1>7, <3>1, <3>4 DEF Ordered
  <2> QED
    BY <2>1, <2>2 DEF Apply
<1> QED
  BY <1>8, <1>9 DEF OrderInv

\* A trim moves that place on, or leaves it.
LEMMA OrderTrim ==
    ASSUME StateInv, OrderInv, Trim
    PROVE  OrderInv'
<1>1. UNCHANGED <<pushed, after, applied, file>>
  BY DEF Trim
<1>2. /\ after \in Nat /\ offset \in Nat /\ removed \in Nat /\ offset <= after
      /\ Len(list) \in Nat /\ removed + Len(list) = Len(pushed)
      /\ applied \in Seq(Nat) /\ file.applied \in Seq(Nat) /\ file.after \in Nat
  BY LengthOfSeq DEF StateInv, SeqTypes, ListInv
<1>3. CASE ~ TrimDue
  BY <1>1, <1>3 DEF Trim, OrderInv, Ordered
<1>4. CASE TrimDue
  <2>1. removed' = removed + Min({after, Len(list)}) /\ offset' = after
    BY <1>4 DEF Trim
  <2>2. \/ Min({after, Len(list)}) = after
        \/ Min({after, Len(list)}) = Len(list)
    BY <1>2 DEF Min
  <2>3. /\ removed' \in Nat /\ removed <= removed'
        /\ removed' + after' - offset' = removed'
        /\ removed + after - offset <= removed' \/ Len(pushed) = removed'
    BY <1>1, <1>2, <2>1, <2>2
  <2>4. Ordered(applied, removed + after - offset)'
    <3>1. removed + after - offset \in Nat /\ Len(pushed) \in Nat
      BY <1>2
    <3>2. removed + after - offset <= removed' \/ Len(pushed) <= removed'
      BY <2>3, <1>2
    <3>3. \A i \in 1 .. Len(applied) : applied[i] \in Nat
      BY <1>2, ElementOfSeq
    <3>4. \A i \in 1 .. Len(applied) :
             applied[i] <= removed + after - offset /\ applied[i] <= Len(pushed)
      BY DEF OrderInv, Ordered
    <3>5. \A i \in 1 .. Len(applied) : applied[i] <= removed'
      BY <2>3, <3>1, <3>2, <3>3, <3>4
    <3>6. \A i, j \in 1 .. Len(applied) : i < j => applied[i] < applied[j]
      BY DEF OrderInv, Ordered
    <3> QED
      BY <1>1, <2>3, <3>4, <3>5, <3>6 DEF Ordered
  <2>5. Ordered(file.applied, removed + file.after)'
    <3>1. \A i \in 1 .. Len(file.applied) : file.applied[i] \in Nat
      BY <1>2, ElementOfSeq
    <3>2. \A i \in 1 .. Len(file.applied) :
             /\ file.applied[i] <= removed + file.after
             /\ file.applied[i] <= Len(pushed)
      BY DEF OrderInv, Ordered
    <3>3. \A i \in 1 .. Len(file.applied) : file.applied[i] <= removed' + file.after
      <4>1. /\ removed + file.after \in Nat /\ removed' + file.after \in Nat
            /\ removed + file.after <= removed' + file.after
        BY <1>2, <2>3
      <4> QED
        BY <3>1, <3>2, <4>1
    <3>4. \A i, j \in 1 .. Len(file.applied) :
             i < j => file.applied[i] < file.applied[j]
      BY DEF OrderInv, Ordered
    <3> QED
      BY <1>1, <3>2, <3>3, <3>4 DEF Ordered
  <2> QED
    BY <2>4, <2>5 DEF OrderInv
<1> QED
  BY <1>3, <1>4

\* A push adds batches behind it.
LEMMA OrderPush ==
    ASSUME StateInv, OrderInv, Push, UNCHANGED readerVars
    PROVE  OrderInv'
<1>1. Len(pushed) \in Nat /\ Len(pushed') = Len(pushed) + 1 /\ removed' = removed
  BY AppendIsSeq, LengthOfSeq DEF StateInv, SeqTypes, Push
<1>2. /\ \A i \in 1 .. Len(applied) : applied[i] \in Nat
      /\ \A i \in 1 .. Len(file.applied) : file.applied[i] \in Nat
  BY ElementOfSeq DEF StateInv, SeqTypes
<1> QED
  BY <1>1, <1>2 DEF OrderInv, Ordered, readerVars

\* A start goes back to the place the file has.
LEMMA OrderStart ==
    ASSUME StateInv, OrderInv, Start
    PROVE  OrderInv'
<1>1. /\ UNCHANGED <<list, pushed, removed, file>>
      /\ after' = file.after /\ applied' = file.applied /\ offset' = 0
  BY DEF Start, listVars
<1>2. removed' + after' - offset' = removed + file.after
  BY <1>1 DEF StateInv, SeqTypes
<1> QED
  BY <1>1, <1>2 DEF OrderInv, Ordered

\* Every step keeps the order.
LEMMA OrderStep ==
    ASSUME StateInv, OrderInv, [TransmitNext]_transmitVars
    PROVE  OrderInv'
<1> USE DEF clientVars, senderVars, listVars, readerVars, nodeVars
<1>1. ASSUME UNCHANGED <<pushed, removed, after, offset, applied, file>>
      PROVE  OrderInv'
  BY <1>1 DEF OrderInv, Ordered
<1>2. ASSUME Send
      PROVE  OrderInv'
  BY <1>2, OrderPush DEF Send
<1>3. ASSUME EndSender
      PROVE  OrderInv'
  <2>1. CASE UNCHANGED listVars
    BY <1>1, <1>3, <2>1 DEF EndSender
  <2>2. CASE Push
    BY <1>3, <2>2, OrderPush DEF EndSender
  <2> QED
    BY <1>3, <2>1, <2>2 DEF EndSender
<1>4. ASSUME NEW txs \in Requests, Post(txs)
      PROVE  OrderInv'
  BY <1>1, <1>4 DEF Post
<1>5. ASSUME Take \/ Verify \/ Fetch \/ EndReader \/ Crash \/ UNCHANGED transmitVars
      PROVE  OrderInv'
  BY <1>1, <1>5 DEF Take, Verify, Fetch, EndReader, Crash, transmitVars
<1> QED
  BY <1>2, <1>3, <1>4, <1>5, OrderApply, OrderTrim, OrderStart
  DEF TransmitNext, Transmitter, Reader

\* Nothing has been applied.
LEMMA OrderInit ==
    ASSUME TransmitInit
    PROVE  OrderInv
<1>1. Len(applied) = 0 /\ Len(file.applied) = 0
  BY EmptySeq DEF TransmitInit
<1> QED
  BY <1>1 DEF OrderInv, Ordered

\* No batch is ever applied twice or after a later one, for every threshold and
\* fetch size, any number of crashes, and wherever a start begins to read: what
\* process_loop takes next is always beyond everything in the state.
THEOREM NothingTwiceHolds == TransmitSpec => []NothingTwice
<1>1. StateInv /\ OrderInv => NothingTwice
  BY LenProperties DEF StateInv, SeqTypes, OrderInv, Ordered, NothingTwice
<1> QED
  BY <1>1, OrderInit, StateInit, StateStep, OrderStep, PTL DEF TransmitSpec

-----------------------------------------------------------------------------
FirstPlaces(n) == [i \in 1 .. n |-> i]

\* As long as the second trim has not come and no node began on a trimmed list,
\* the index the reader counts by is the right one: the offset is what has been
\* removed, and a trim removes at least a threshold, all of it read.
GapInv ==
    ~ misplaced /\ Len(pushed) < 2 * LenThreshold =>
        /\ applied = FirstPlaces(after)
        /\ file.applied = FirstPlaces(file.after)
        /\ after <= Len(pushed) /\ file.after <= Len(pushed)
        /\ reader # "down" => offset = removed
        /\ removed = 0 \/ removed >= LenThreshold

\* The first places and the next one.
LEMMA NextPlace ==
    ASSUME NEW n \in Nat
    PROVE  Append(FirstPlaces(n), n + 1) = FirstPlaces(n + 1)
<1>1. FirstPlaces(n) \in Seq(Nat) /\ Len(FirstPlaces(n)) = n
  <2>1. FirstPlaces(n) \in [1 .. n -> Nat]
    BY DEF FirstPlaces
  <2>2. FirstPlaces(n) \in Seq(Nat)
    BY <2>1, SeqDef
  <2>3. Len(FirstPlaces(n)) \in Nat /\ 1 .. n = 1 .. Len(FirstPlaces(n))
    BY <2>1, <2>2, LenProperties
  <2> QED
    BY <2>2, <2>3
<1>2. FirstPlaces(n + 1) \in Seq(Nat) /\ Len(FirstPlaces(n + 1)) = n + 1
  <2>1. FirstPlaces(n + 1) \in [1 .. n + 1 -> Nat]
    BY DEF FirstPlaces
  <2>2. FirstPlaces(n + 1) \in Seq(Nat)
    BY <2>1, SeqDef
  <2>3. Len(FirstPlaces(n + 1)) \in Nat /\ 1 .. n + 1 = 1 .. Len(FirstPlaces(n + 1))
    BY <2>1, <2>2, LenProperties
  <2> QED
    BY <2>2, <2>3
<1>3. /\ Append(FirstPlaces(n), n + 1) \in Seq(Nat)
      /\ Len(Append(FirstPlaces(n), n + 1)) = n + 1
      /\ \A i \in 1 .. n : Append(FirstPlaces(n), n + 1)[i] = FirstPlaces(n)[i]
      /\ Append(FirstPlaces(n), n + 1)[n + 1] = n + 1
  BY <1>1, AppendProperties
<1>4. \A i \in 1 .. n + 1 :
          Append(FirstPlaces(n), n + 1)[i] = FirstPlaces(n + 1)[i]
  <2>1. \A i \in 1 .. n : FirstPlaces(n)[i] = i
    BY DEF FirstPlaces
  <2>2. \A i \in 1 .. n + 1 : FirstPlaces(n + 1)[i] = i
    BY DEF FirstPlaces
  <2> QED
    BY <1>3, <2>1, <2>2
<1> QED
  BY <1>2, <1>3, <1>4, SeqEqual

\* The next batch is applied without a gap.
LEMMA GapApply ==
    ASSUME StateInv, OrderInv, GapInv, Apply
    PROVE  GapInv'
<1>1. /\ after' = after + 1 /\ applied' = Append(applied, Place)
      /\ reader = "batch" /\ reader' # "down"
      /\ UNCHANGED <<list, pushed, removed, offset, misplaced>>
  BY DEF Apply, listVars, nodeVars
<1> SUFFICES ASSUME ~ misplaced, Len(pushed) < 2 * LenThreshold
             PROVE  GapInv'
  BY <1>1 DEF GapInv
<1>2. /\ after \in Nat /\ offset \in Nat /\ removed \in Nat
      /\ offset = removed /\ applied = FirstPlaces(after)
      /\ file.applied = FirstPlaces(file.after)
      /\ file.after <= Len(pushed)
      /\ removed = 0 \/ removed >= LenThreshold
  BY <1>1 DEF StateInv, SeqTypes, GapInv
<1>3. Place = after + 1
  BY <1>2 DEF Place
<1>4. Place <= Len(pushed)
  <2>1. /\ IsSeq(fetched) /\ fetched # <<>> /\ IsSeq(list)
        /\ after - offset + Len(fetched) <= Len(list)
        /\ removed + Len(list) = Len(pushed)
    BY DEF Apply, StateInv, SeqTypes, FetchInv, ListInv
  <2>2. Len(fetched) >= 1 /\ Len(fetched) \in Nat /\ Len(list) \in Nat
    BY <2>1, TailIsSeq, LengthOfSeq
  <2> QED
    BY <1>2, <2>1, <2>2 DEF Place
<1>5. applied' = FirstPlaces(after')
  BY <1>1, <1>2, <1>3, NextPlace
<1>6. file'.applied = FirstPlaces(file'.after) /\ file'.after <= Len(pushed)
  <2>1. CASE UNCHANGED file
    BY <1>2, <2>1
  <2>2. CASE file' = [after |-> after', applied |-> applied']
    BY <1>1, <1>3, <1>4, <1>5, <2>2
  <2> QED
    BY <2>1, <2>2 DEF Apply
<1> QED
  BY <1>1, <1>2, <1>3, <1>4, <1>5, <1>6 DEF GapInv

\* The first trim takes what has been applied; the second needs as many again.
LEMMA GapTrim ==
    ASSUME StateInv, GapInv, Trim
    PROVE  GapInv'
<1>1. /\ reader = "trim" /\ reader' = "fetch"
      /\ UNCHANGED <<pushed, after, applied, file, misplaced>>
  BY DEF Trim, nodeVars
<1> SUFFICES ASSUME ~ misplaced, Len(pushed) < 2 * LenThreshold
             PROVE  GapInv'
  BY <1>1 DEF GapInv
<1>2. /\ after \in Nat /\ offset \in Nat /\ removed \in Nat /\ Len(list) \in Nat
      /\ removed + Len(list) = Len(pushed)
      /\ offset = removed /\ after <= Len(pushed)
      /\ removed = 0 \/ removed >= LenThreshold
  BY <1>1, LengthOfSeq DEF StateInv, SeqTypes, ListInv, GapInv
<1>3. CASE ~ TrimDue
  BY <1>1, <1>3 DEF Trim, GapInv
<1>4. CASE TrimDue
  <2>1. removed' = removed + Min({after, Len(list)}) /\ offset' = after
    BY <1>4 DEF Trim
  <2>2. after - offset >= LenThreshold
    BY <1>4 DEF TrimDue
  <2>3. removed = 0
    BY <1>2, <2>2, TransmitAssumption
  <2>4. Min({after, Len(list)}) = after
    BY <1>2, <2>3 DEF Min
  <2>5. removed' = after /\ after >= LenThreshold
    BY <1>2, <2>1, <2>2, <2>3, <2>4
  <2> QED
    BY <1>1, <2>1, <2>5 DEF GapInv
<1> QED
  BY <1>3, <1>4

\* A push may end the time for which anything is said.
LEMMA GapPush ==
    ASSUME StateInv, GapInv, Push, UNCHANGED readerVars, UNCHANGED misplaced
    PROVE  GapInv'
<1>1. Len(pushed) \in Nat /\ Len(pushed') = Len(pushed) + 1 /\ removed' = removed
  BY AppendIsSeq, LengthOfSeq DEF StateInv, SeqTypes, Push
<1> QED
  BY <1>1, TransmitAssumption DEF GapInv, StateInv, SeqTypes, readerVars

\* A start on a list that was never trimmed reads it from the right place.
LEMMA GapStart ==
    ASSUME StateInv, GapInv, Start
    PROVE  GapInv'
<1>1. /\ UNCHANGED <<pushed, removed, file>>
      /\ after' = file.after /\ applied' = file.applied /\ offset' = 0
  BY DEF Start, listVars
<1>2. misplaced' = (misplaced \/ removed > 0)
  BY DEF Start
<1> SUFFICES ASSUME ~ misplaced', Len(pushed) < 2 * LenThreshold
             PROVE  GapInv'
  BY <1>1 DEF GapInv
<1>3. ~ misplaced /\ ~ (removed > 0)
  BY <1>2, Zenon
<1>4. /\ removed = 0
      /\ file.applied = FirstPlaces(file.after) /\ file.after <= Len(pushed)
  BY <1>3 DEF StateInv, SeqTypes, GapInv
<1>5. removed' = 0 /\ file' = file /\ pushed' = pushed
  BY <1>1, <1>4
<1>6. /\ applied' = FirstPlaces(after') /\ after' <= Len(pushed')
      /\ file'.applied = FirstPlaces(file'.after)
      /\ file'.after <= Len(pushed')
      /\ offset' = removed'
  BY <1>1, <1>4, <1>5
<1> QED
  BY <1>5, <1>6 DEF GapInv

\* Every step keeps the invariant.
LEMMA GapStep ==
    ASSUME StateInv, OrderInv, GapInv, [TransmitNext]_transmitVars
    PROVE  GapInv'
<1> USE DEF clientVars, senderVars, listVars, readerVars, nodeVars
<1>1. ASSUME UNCHANGED <<pushed, removed, after, offset, applied, file, misplaced>>,
             reader' # "down" => reader # "down"
      PROVE  GapInv'
  BY <1>1 DEF GapInv
<1>2. ASSUME Send
      PROVE  GapInv'
  BY <1>2, GapPush DEF Send
<1>3. ASSUME EndSender
      PROVE  GapInv'
  <2>1. CASE UNCHANGED listVars
    BY <1>1, <1>3, <2>1 DEF EndSender
  <2>2. CASE Push
    BY <1>3, <2>2, GapPush DEF EndSender
  <2> QED
    BY <1>3, <2>1, <2>2 DEF EndSender
<1>4. ASSUME NEW txs \in Requests, Post(txs)
      PROVE  GapInv'
  BY <1>1, <1>4 DEF Post
<1>5. ASSUME Take \/ Verify \/ Fetch \/ EndReader \/ Crash \/ UNCHANGED transmitVars
      PROVE  GapInv'
  BY <1>1, <1>5 DEF Take, Verify, Fetch, EndReader, Crash, transmitVars
<1> QED
  BY <1>2, <1>3, <1>4, <1>5, GapApply, GapTrim, GapStart
  DEF TransmitNext, Transmitter, Reader

\* The state is made of the first batches, without a gap, until the list has
\* come to twice its threshold or a node has begun on a trimmed list.
THEOREM NoGapHolds == TransmitSpec => []NoGap
<1>1. TransmitInit => GapInv
  BY DEF TransmitInit, GapInv, FirstPlaces
<1>2. GapInv => NoGap
  BY DEF GapInv, NoGap, InStep, FirstPlaces
<1> QED
  BY <1>1, <1>2, StateInit, StateStep, OrderInit, OrderStep, GapStep, PTL
  DEF TransmitSpec

-----------------------------------------------------------------------------
(* Sequences and numbers *)

\* Two sequences in a row are one.
LEMMA ConcatIsSeq ==
    ASSUME NEW s, NEW t, IsSeq(s), IsSeq(t)
    PROVE  /\ IsSeq(s \o t)
           /\ Len(s \o t) = Len(s) + Len(t)
           /\ \A i \in 1 .. Len(s) + Len(t) :
                  (s \o t)[i] = IF i <= Len(s) THEN s[i] ELSE t[i - Len(s)]
<1> DEFINE S == {s[i] : i \in DOMAIN s} \cup {t[i] : i \in DOMAIN t}
<1>1. s \in Seq(S) /\ t \in Seq(S)
  BY SeqMonotonic DEF IsSeq
<1> HIDE DEF S
<1>2. /\ s \o t \in Seq(S)
      /\ Len(s \o t) = Len(s) + Len(t)
      /\ \A i \in 1 .. Len(s) + Len(t) :
             (s \o t)[i] = IF i <= Len(s) THEN s[i] ELSE t[i - Len(s)]
  BY <1>1, ConcatProperties
<1> QED
  BY <1>2, SeqIsSeq

\* A function on the numbers up to n is a sequence of that length.
LEMMA FunctionIsSeq ==
    ASSUME NEW n \in Nat, NEW s, DOMAIN s = 1 .. n, s = [i \in 1 .. n |-> s[i]]
    PROVE  IsSeq(s) /\ Len(s) = n
<1>1. s \in [1 .. n -> {s[i] : i \in DOMAIN s}]
  OBVIOUS
<1>2. s \in Seq({s[i] : i \in DOMAIN s})
  BY <1>1, SeqDef
<1> QED
  BY <1>1, <1>2, LenProperties DEF IsSeq

\* The larger of two numbers is one of them and below neither.
LEMMA LargerOfTwo ==
    ASSUME NEW a \in Nat, NEW b \in Nat
    PROVE  /\ Max({a, b}) \in Nat
           /\ Max({a, b}) >= a /\ Max({a, b}) >= b
<1>1. \E x \in {a, b} : \A y \in {a, b} : x >= y
  <2>1. CASE a >= b
    BY <2>1
  <2>2. CASE b >= a
    BY <2>2
  <2> QED
    BY <2>1, <2>2
<1>2. /\ Max({a, b}) \in {a, b}
      /\ \A y \in {a, b} : Max({a, b}) >= y
  BY <1>1 DEF Max
<1> QED
  BY <1>2

-----------------------------------------------------------------------------
(* The verifier *)

Rising(s) == \A k, l \in DOMAIN s : k < l => s[k] < s[l]

\* The empty list.
LEMMA EmptyRises == <<>> \in Seq(Nat) /\ Rising(<<>>) /\ ToSet(<<>>) = {}
  BY DEF Rising, ToSet

\* A list that goes on with a larger number.
LEMMA AppendRises ==
    ASSUME NEW s \in Seq(Nat), NEW n \in Nat, Rising(s), \A m \in ToSet(s) : m < n
    PROVE  LET z == Append(s, n)
           IN  z \in Seq(Nat) /\ Rising(z) /\ ToSet(z) = ToSet(s) \cup {n}
<1> DEFINE z == Append(s, n)
<1>1. PICK k \in Nat : k = Len(s) /\ DOMAIN s = 1 .. k
  OBVIOUS
<1>2. /\ z \in Seq(Nat) /\ Len(z) = k + 1 /\ DOMAIN z = 1 .. k + 1
      /\ z[k + 1] = n /\ \A i \in 1 .. k : z[i] = s[i]
  BY <1>1
<1> HIDE DEF z
<1>3. \A i \in 1 .. k : s[i] \in ToSet(s) /\ s[i] \in Nat
  BY <1>1 DEF ToSet
<1>4. Rising(z)
  <2>1. ASSUME NEW i \in 1 .. k + 1, NEW j \in 1 .. k + 1, i < j
        PROVE  z[i] < z[j]
    <3>1. i \in 1 .. k
      BY <1>1, <2>1
    <3>2. CASE j \in 1 .. k
      BY <1>1, <1>2, <2>1, <3>1, <3>2 DEF Rising
    <3>3. CASE j = k + 1
      BY <1>2, <1>3, <3>1, <3>3
    <3> QED
      BY <1>1, <3>2, <3>3
  <2> QED
    BY <1>2, <2>1 DEF Rising
<1>5. ToSet(z) = ToSet(s) \cup {n}
  <2>1. 1 .. k + 1 = 1 .. k \cup {k + 1}
    BY <1>1
  <2>2. ToSet(z) = {z[i] : i \in 1 .. k} \cup {n}
    BY <1>2, <2>1 DEF ToSet
  <2>3. {z[i] : i \in 1 .. k} = ToSet(s)
    BY <1>1, <1>2 DEF ToSet
  <2> QED
    BY <2>2, <2>3
<1> QED
  BY <1>2, <1>4, <1>5 DEF z

\* The lists that Kept goes through.
KeptUpTo(g, v, n) ==
    /\ g \in [0 .. n -> Seq(Nat)] /\ g[0] = <<>>
    /\ \A i \in 1 .. n : g[i] = IF v[i] = NoTx THEN g[i - 1]
                                               ELSE Append(g[i - 1], v[i])

\* They go on to any place of the list.
LEMMA KeptExists ==
    ASSUME NEW v \in Seq(Nat), NEW k \in 0 .. Len(v)
    PROVE  \E g : KeptUpTo(g, v, k)
<1> DEFINE bad == {n \in 0 .. Len(v) : ~ \E g : KeptUpTo(g, v, n)}
<1>0. Len(v) \in Nat
  OBVIOUS
<1> SUFFICES ASSUME bad # {}
             PROVE  FALSE
  OBVIOUS
<1>1. bad \subseteq Nat
  BY <1>0
<1>2. PICK n \in bad : \A m \in bad : n <= m
  BY <1>1, LeastExists
<1>3. n \in 0 .. Len(v) /\ n \in Nat /\ ~ \E g : KeptUpTo(g, v, n)
  BY <1>0, <1>2
<1>4. CASE n = 0
  <2>1. [i \in 0 .. 0 |-> <<>>] \in [0 .. 0 -> Seq(Nat)]
    OBVIOUS
  <2>2. KeptUpTo([i \in 0 .. 0 |-> <<>>], v, 0)
    BY <2>1 DEF KeptUpTo
  <2> QED
    BY <1>3, <1>4, <2>2
<1>5. CASE n # 0
  <2>1. n - 1 \in 0 .. Len(v) /\ n - 1 \in Nat /\ n - 1 < n
    BY <1>0, <1>3, <1>5
  <2>2. n - 1 \notin bad
    <3> SUFFICES ASSUME n - 1 \in bad
                 PROVE  FALSE
      OBVIOUS
    <3>1. n <= n - 1
      BY <1>2
    <3> QED
      BY <1>3, <3>1
  <2>3. PICK g : KeptUpTo(g, v, n - 1)
    BY <2>1, <2>2
  <2>4. PICK x : x = IF v[n] = NoTx THEN g[n - 1] ELSE Append(g[n - 1], v[n])
    OBVIOUS
  <2>5. /\ n \in 1 .. Len(v) /\ v[n] \in Nat
        /\ g \in [0 .. n - 1 -> Seq(Nat)] /\ g[n - 1] \in Seq(Nat)
    <3>1. n \in 1 .. Len(v)
      BY <1>0, <1>3, <1>5
    <3>2. n - 1 \in 0 .. n - 1
      BY <2>1
    <3>3. g \in [0 .. n - 1 -> Seq(Nat)]
      BY <2>3 DEF KeptUpTo
    <3> QED
      BY <3>1, <3>2, <3>3
  <2>6. x \in Seq(Nat)
    BY <2>4, <2>5
  <2>7. PICK h : h = [i \in 0 .. n |-> IF i = n THEN x ELSE g[i]]
    OBVIOUS
  <2>8. /\ h \in [0 .. n -> Seq(Nat)] /\ h[n] = x
        /\ \A i \in 0 .. n - 1 : h[i] = g[i]
    <3>1. \A i \in 0 .. n : i # n => i \in 0 .. n - 1
      BY <1>3
    <3>2. \A i \in 0 .. n : (IF i = n THEN x ELSE g[i]) \in Seq(Nat)
      BY <2>5, <2>6, <3>1
    <3>3. h \in [0 .. n -> Seq(Nat)]
      BY <2>7, <3>2
    <3>4. \A i \in 0 .. n - 1 : i \in 0 .. n /\ i # n
      BY <1>3
    <3>5. n \in 0 .. n
      BY <1>3
    <3> QED
      BY <2>7, <3>3, <3>4, <3>5
  <2>9. h[0] = <<>>
    BY <1>3, <1>5, <2>3, <2>8 DEF KeptUpTo
  <2>10. ASSUME NEW i \in 1 .. n
         PROVE  h[i] = IF v[i] = NoTx THEN h[i - 1] ELSE Append(h[i - 1], v[i])
    <3>1. i - 1 \in 0 .. n - 1 /\ h[i - 1] = g[i - 1]
      BY <1>3, <2>8
    <3>2. CASE i = n
      BY <2>4, <2>8, <3>1, <3>2
    <3>3. CASE i # n
      <4>1. i \in 1 .. n - 1 /\ i \in 0 .. n - 1
        BY <1>3, <3>3
      <4>2. g[i] = IF v[i] = NoTx THEN g[i - 1] ELSE Append(g[i - 1], v[i])
        BY <2>3, <4>1 DEF KeptUpTo
      <4> QED
        BY <2>8, <3>1, <4>1, <4>2
    <3> QED
      BY <3>2, <3>3
  <2>11. KeptUpTo(h, v, n)
    BY <2>8, <2>9, <2>10 DEF KeptUpTo
  <2> QED
    BY <1>3, <2>11
<1> QED
  BY <1>4, <1>5

\* Kept is the last of them.
LEMMA KeptIsLast ==
    ASSUME NEW v \in Seq(Nat)
    PROVE  \E g : KeptUpTo(g, v, Len(v)) /\ Kept(v) = g[Len(v)]
<1>1. PICK n \in Nat : n = Len(v)
  OBVIOUS
<1> DEFINE body(f) == [i \in 0 .. n |-> IF i = 0 THEN <<>>
                                        ELSE IF v[i] = NoTx THEN f[i - 1]
                                        ELSE Append(f[i - 1], v[i])]
           kept == CHOOSE f : f = body(f)
<1>2. Kept(v) = kept[n]
  BY <1>1 DEF Kept
<1>3. PICK g : KeptUpTo(g, v, n)
  BY <1>1, KeptExists
<1>4. g = body(g)
  <2>1. \A i \in 0 .. n : i = 0 \/ i \in 1 .. n
    BY <1>1
  <2>2. \A i \in 0 .. n : g[i] = body(g)[i]
    BY <1>3, <2>1 DEF KeptUpTo
  <2>3. g \in [0 .. n -> Seq(Nat)]
    BY <1>3 DEF KeptUpTo
  <2>4. g = [i \in 0 .. n |-> g[i]]
    BY <2>3
  <2> QED
    BY <2>2, <2>4
<1>5. kept = body(kept)
  BY <1>4
<1>6. /\ kept[0] = <<>>
      /\ \A i \in 1 .. n : kept[i] = IF v[i] = NoTx THEN kept[i - 1]
                                     ELSE Append(kept[i - 1], v[i])
  <2>1. \A i \in 0 .. n : kept[i] = IF i = 0 THEN <<>>
                                    ELSE IF v[i] = NoTx THEN kept[i - 1]
                                    ELSE Append(kept[i - 1], v[i])
    <3> HIDE DEF kept
    <3> QED
      BY <1>5
  <2>2. 0 \in 0 .. n /\ \A i \in 1 .. n : i \in 0 .. n /\ i # 0
    BY <1>1
  <2> HIDE DEF kept
  <2> QED
    BY <2>1, <2>2
<1> HIDE DEF kept
<1>7. \A i \in 0 .. n : kept[i] = g[i]
  <2> DEFINE bad == {i \in 0 .. n : kept[i] # g[i]}
  <2> SUFFICES ASSUME bad # {}
               PROVE  FALSE
    OBVIOUS
  <2>1. PICK i \in bad : \A j \in bad : i <= j
    <3>1. bad \subseteq Nat
      BY <1>1
    <3> QED
      BY <3>1, LeastExists
  <2>2. i # 0
    BY <1>3, <1>6, <2>1 DEF KeptUpTo
  <2>3. i \in 1 .. n /\ i - 1 \in 0 .. n /\ i - 1 < i
    BY <1>1, <2>1, <2>2
  <2>4. kept[i - 1] = g[i - 1]
    BY <2>1, <2>3
  <2> QED
    BY <1>3, <1>6, <2>1, <2>3, <2>4 DEF KeptUpTo
<1>8. n \in 0 .. n
  BY <1>1
<1> QED
  BY <1>1, <1>2, <1>3, <1>7, <1>8

\* What is left of a list whose transactions rise, but for the refused ones,
\* rises, and is what was not refused.
LEMMA KeptRises ==
    ASSUME NEW v \in Seq(Nat),
           \A k, l \in DOMAIN v :
               k < l /\ v[k] # NoTx /\ v[l] # NoTx => v[k] < v[l]
    PROVE  /\ Kept(v) \in Seq(Nat) /\ Rising(Kept(v))
           /\ ToSet(Kept(v)) = ToSet(v) \ {NoTx}
<1>1. PICK n \in Nat : n = Len(v) /\ DOMAIN v = 1 .. n
  OBVIOUS
<1>2. PICK g : KeptUpTo(g, v, n) /\ Kept(v) = g[n]
  BY <1>1, KeptIsLast
<1> DEFINE Good(i) == /\ g[i] \in Seq(Nat) /\ Rising(g[i])
                      /\ ToSet(g[i]) = {v[j] : j \in 1 .. i} \ {NoTx}
           bad == {i \in 0 .. n : ~ Good(i)}
<1>3. bad = {}
  <2> SUFFICES ASSUME bad # {}
               PROVE  FALSE
    OBVIOUS
  <2>1. PICK i \in bad : \A j \in bad : i <= j
    <3>1. bad \subseteq Nat
      BY <1>1
    <3> QED
      BY <3>1, LeastExists
  <2>2. i \in 0 .. n /\ i \in Nat /\ ~ Good(i)
    BY <1>1, <2>1
  <2>3. CASE i = 0
    <3>1. g[i] = <<>>
      BY <1>2, <2>3 DEF KeptUpTo
    <3>2. {v[j] : j \in 1 .. i} = {}
      BY <2>3
    <3> QED
      BY <2>2, <3>1, <3>2, EmptyRises
  <2>4. CASE i # 0
    <3>1. i \in 1 .. n /\ i - 1 \in 0 .. n /\ i - 1 < i
      BY <1>1, <2>2, <2>4
    <3>2. i - 1 \notin bad
      <4> HIDE DEF bad, Good
      <4> QED
        BY <2>1, <2>2, <3>1
    <3>3. Good(i - 1)
      BY <3>1, <3>2
    <3>4. g[i] = IF v[i] = NoTx THEN g[i - 1] ELSE Append(g[i - 1], v[i])
      BY <1>2, <3>1 DEF KeptUpTo
    <3>5. {v[j] : j \in 1 .. i} = {v[j] : j \in 1 .. i - 1} \cup {v[i]}
      <4>1. 1 .. i = 1 .. i - 1 \cup {i}
        BY <2>2, <2>4
      <4> QED
        BY <4>1
    <3>6. CASE v[i] = NoTx
      BY <2>2, <3>3, <3>4, <3>5, <3>6
    <3>7. CASE v[i] # NoTx
      <4>1. v[i] \in Nat
        BY <1>1, <3>1
      <4>2. \A m \in ToSet(g[i - 1]) : m < v[i]
        <5>1. ASSUME NEW j \in 1 .. i - 1, v[j] # NoTx
              PROVE  v[j] < v[i]
          <6>1. j \in 1 .. n /\ j < i
            BY <1>1, <2>2, <3>1
          <6> QED
            BY <1>1, <3>1, <3>7, <5>1, <6>1
        <5> QED
          BY <3>3, <5>1
      <4>3. PICK z : z = Append(g[i - 1], v[i])
        OBVIOUS
      <4>4. /\ z \in Seq(Nat) /\ Rising(z)
            /\ ToSet(z) = ToSet(g[i - 1]) \cup {v[i]}
        BY <3>3, <4>1, <4>2, <4>3, AppendRises
      <4>5. g[i] = z
        BY <3>4, <3>7, <4>3
      <4>6. ToSet(z) = {v[j] : j \in 1 .. i} \ {NoTx}
        BY <3>3, <3>5, <3>7, <4>4
      <4> QED
        BY <2>2, <4>4, <4>5, <4>6
    <3> QED
      BY <3>6, <3>7
  <2> QED
    BY <2>3, <2>4
<1>4. Good(n)
  <2>1. n \in 0 .. n
    BY <1>1
  <2> QED
    BY <1>3, <2>1
<1>5. ToSet(v) = {v[j] : j \in 1 .. n}
  BY <1>1 DEF ToSet
<1>6. Kept(v) = g[n]
  BY <1>2
<1> QED
  BY <1>4, <1>5, <1>6

\* Two parts of a sequence, the second from where the first ends.
LEMMA JoinParts ==
    ASSUME NEW S, NEW row \in Seq(S), NEW a \in 0 .. Len(row),
           NEW b \in 0 .. Len(row), a <= b
    PROVE  SubSeq(row, 1, a) \o SubSeq(row, a + 1, b) = SubSeq(row, 1, b)
<1>1. PICK n \in Nat : n = Len(row) /\ DOMAIN row = 1 .. n
  OBVIOUS
<1>2. /\ a \in Nat /\ b \in Nat /\ b <= n /\ a + 1 \in Int
      /\ \A i \in 1 .. n : row[i] \in S
  BY <1>1
<1>3. PICK x : x = SubSeq(row, 1, a)
  OBVIOUS
<1>4. PICK y : y = SubSeq(row, a + 1, b)
  OBVIOUS
<1>5. PICK z : z = SubSeq(row, 1, b)
  OBVIOUS
<1>6. x \in Seq(S) /\ Len(x) = a /\ \A i \in 1 .. a : x[i] = row[i]
  <2>1. \A i \in 1 .. a : row[i] \in S
    BY <1>2
  <2>2. /\ x \in Seq(S) /\ Len(x) = IF 1 <= a THEN a - 1 + 1 ELSE 0
        /\ \A i \in 1 .. a - 1 + 1 : x[i] = row[1 + i - 1]
    BY <1>2, <1>3, <2>1, SubSeqProperties
  <2>3. a - 1 + 1 = a /\ \A i \in 1 .. a : 1 + i - 1 = i
    BY <1>2
  <2> QED
    BY <1>2, <2>2, <2>3
<1>7. y \in Seq(S) /\ Len(y) = b - a /\ \A i \in 1 .. b - a : y[i] = row[a + i]
  <2>1. \A i \in a + 1 .. b : row[i] \in S
    BY <1>2
  <2>2. /\ y \in Seq(S) /\ Len(y) = IF a + 1 <= b THEN b - (a + 1) + 1 ELSE 0
        /\ \A i \in 1 .. b - (a + 1) + 1 : y[i] = row[a + 1 + i - 1]
    BY <1>2, <1>4, <2>1, SubSeqProperties
  <2>3. b - (a + 1) + 1 = b - a /\ \A i \in 1 .. b - a : a + 1 + i - 1 = a + i
    BY <1>2
  <2> QED
    BY <1>2, <2>2, <2>3
<1>8. z \in Seq(S) /\ Len(z) = b /\ \A i \in 1 .. b : z[i] = row[i]
  <2>1. \A i \in 1 .. b : row[i] \in S
    BY <1>2
  <2>2. /\ z \in Seq(S) /\ Len(z) = IF 1 <= b THEN b - 1 + 1 ELSE 0
        /\ \A i \in 1 .. b - 1 + 1 : z[i] = row[1 + i - 1]
    BY <1>2, <1>5, <2>1, SubSeqProperties
  <2>3. b - 1 + 1 = b /\ \A i \in 1 .. b : 1 + i - 1 = i
    BY <1>2
  <2> QED
    BY <1>2, <2>2, <2>3
<1>9. /\ x \o y \in Seq(S) /\ Len(x \o y) = a + (b - a)
      /\ \A i \in 1 .. a + (b - a) :
            (x \o y)[i] = IF i <= a THEN x[i] ELSE y[i - a]
  <2>1. /\ x \o y \in Seq(S) /\ Len(x \o y) = Len(x) + Len(y)
        /\ \A i \in 1 .. Len(x) + Len(y) :
              (x \o y)[i] = IF i <= Len(x) THEN x[i] ELSE y[i - Len(x)]
    BY <1>6, <1>7, ConcatProperties
  <2> QED
    BY <1>6, <1>7, <2>1
<1>10. PICK w : w = x \o y
  OBVIOUS
<1>11. w \in Seq(S) /\ Len(w) = b /\ \A i \in 1 .. b : w[i] = row[i]
  <2>1. w \in Seq(S) /\ Len(w) = b
    BY <1>2, <1>9, <1>10
  <2>2. ASSUME NEW i \in 1 .. b
        PROVE  w[i] = row[i]
    <3>1. w[i] = IF i <= a THEN x[i] ELSE y[i - a]
      BY <1>2, <1>9, <1>10
    <3>2. CASE i <= a
      BY <1>2, <1>6, <3>1, <3>2
    <3>3. CASE ~ (i <= a)
      <4>1. i - a \in 1 .. b - a /\ a + (i - a) = i
        BY <1>2, <3>3
      <4> QED
        BY <1>7, <3>1, <3>3, <4>1
    <3> QED
      BY <3>2, <3>3
  <2> QED
    BY <2>1, <2>2
<1>12. w = z
  BY <1>8, <1>11, SeqEqual
<1> QED
  BY <1>3, <1>4, <1>5, <1>10, <1>12

\* The parts of a sequence, each from where the one before it ends, together.
LEMMA FlattenParts ==
    ASSUME NEW S, NEW row \in Seq(S), NEW m \in Nat, m # 0,
           NEW e \in [0 .. m -> 0 .. Len(row)], e[0] = 0, e[m] = Len(row),
           NEW parts, Len(parts) = m,
           \A k \in 1 .. m : /\ e[k - 1] <= e[k]
                             /\ parts[k] = SubSeq(row, e[k - 1] + 1, e[k])
    PROVE  FlattenSeq(parts) = row
<1> DEFINE body(f) == [i \in 1 .. m |-> IF i = 1 THEN parts[i]
                                        ELSE f[i - 1] \o parts[i]]
           flat == CHOOSE f : f = body(f)
           g == [i \in 1 .. m |-> SubSeq(row, 1, e[i])]
<1>1. FlattenSeq(parts) = flat[m]
  BY DEF FlattenSeq
<1>2. g = body(g)
  <2>1. ASSUME NEW i \in 1 .. m
        PROVE  g[i] = IF i = 1 THEN parts[i] ELSE g[i - 1] \o parts[i]
    <3>1. CASE i = 1
      <4>1. i - 1 = 0 /\ e[0] + 1 = 1
        BY <3>1
      <4>2. parts[i] = SubSeq(row, 1, e[i])
        BY <4>1
      <4> QED
        BY <3>1, <4>2
    <3>2. CASE i # 1
      <4>1. i - 1 \in 1 .. m /\ i - 1 \in 0 .. m /\ i \in 0 .. m
        BY <3>2
      <4>2. /\ e[i - 1] \in 0 .. Len(row) /\ e[i] \in 0 .. Len(row)
            /\ e[i - 1] <= e[i]
        BY <4>1
      <4>3. SubSeq(row, 1, e[i - 1]) \o SubSeq(row, e[i - 1] + 1, e[i]) =
                SubSeq(row, 1, e[i])
        BY <4>2, JoinParts
      <4>4. g[i - 1] = SubSeq(row, 1, e[i - 1])
        BY <4>1
      <4>5. parts[i] = SubSeq(row, e[i - 1] + 1, e[i])
        OBVIOUS
      <4>6. g[i] = SubSeq(row, 1, e[i])
        OBVIOUS
      <4> HIDE DEF g
      <4> QED
        BY <3>2, <4>3, <4>4, <4>5, <4>6
    <3> QED
      BY <3>1, <3>2
  <2>2. g = [i \in 1 .. m |-> g[i]]
    OBVIOUS
  <2> HIDE DEF g
  <2> QED
    BY <2>1, <2>2
<1>3. flat = body(flat)
  <2> HIDE DEF g
  <2> QED
    BY <1>2
<1>4. \A i \in 1 .. m : flat[i] = IF i = 1 THEN parts[i]
                                  ELSE flat[i - 1] \o parts[i]
  <2> HIDE DEF flat
  <2> QED
    BY <1>3
<1>5. \A i \in 1 .. m : g[i] = IF i = 1 THEN parts[i] ELSE g[i - 1] \o parts[i]
  <2> HIDE DEF g
  <2> QED
    BY <1>2
<1>6. g[m] = row
  <2>1. m \in 1 .. m
    OBVIOUS
  <2>2. g[m] = SubSeq(row, 1, Len(row))
    BY <2>1
  <2>3. SubSeq(row, 1, Len(row)) = row
    OBVIOUS
  <2> QED
    BY <2>2, <2>3
<1> HIDE DEF flat, g
<1>7. \A i \in 1 .. m : flat[i] = g[i]
  <2> DEFINE bad == {i \in 1 .. m : flat[i] # g[i]}
  <2> SUFFICES ASSUME bad # {}
               PROVE  FALSE
    OBVIOUS
  <2>1. PICK i \in bad : \A j \in bad : i <= j
    <3>1. bad \subseteq Nat
      OBVIOUS
    <3> QED
      BY <3>1, LeastExists
  <2>2. i \in 1 .. m /\ flat[i] # g[i]
    BY <2>1
  <2>3. i # 1
    BY <1>4, <1>5, <2>2
  <2>4. i - 1 \in 1 .. m /\ i - 1 < i
    BY <2>2, <2>3
  <2>5. flat[i - 1] = g[i - 1]
    BY <2>1, <2>2, <2>4
  <2> QED
    BY <1>4, <1>5, <2>2, <2>3, <2>5
<1>8. m \in 1 .. m
  OBVIOUS
<1> QED
  BY <1>1, <1>6, <1>7, <1>8

\* The verdicts on a part of a list are that part of the verdicts.
LEMMA VerifyPart ==
    ASSUME NEW txs \in Seq(Nat), NEW a \in Nat, NEW b \in 0 .. Len(txs), a <= b
    PROVE  /\ VerifyChunk(txs) \in Seq(BOOLEAN)
           /\ Len(VerifyChunk(txs)) = Len(txs)
           /\ VerifyChunk(SubSeq(txs, a + 1, b)) = SubSeq(VerifyChunk(txs), a + 1, b)
<1>1. PICK n \in Nat : n = Len(txs) /\ DOMAIN txs = 1 .. n /\ b \in Nat /\ b <= n
  OBVIOUS
<1>2. ASSUME NEW s \in Seq(Nat)
      PROVE  /\ VerifyChunk(s) \in Seq(BOOLEAN) /\ Len(VerifyChunk(s)) = Len(s)
             /\ \A i \in 1 .. Len(s) : VerifyChunk(s)[i] = IsGenuine(s[i])
  <2>1. PICK k \in Nat : k = Len(s) /\ DOMAIN s = 1 .. k
    OBVIOUS
  <2>2. PICK r : r = [i \in 1 .. k |-> IsGenuine(s[i])]
    OBVIOUS
  <2>3. \A i \in 1 .. k : IsGenuine(s[i]) \in BOOLEAN
    BY DEF IsGenuine
  <2>4. r \in [1 .. k -> BOOLEAN]
    BY <2>2, <2>3
  <2>5. r \in Seq(BOOLEAN) /\ Len(r) = k
    BY <2>4
  <2>6. VerifyChunk(s) = r
    BY <2>1, <2>2 DEF VerifyChunk
  <2>7. \A i \in 1 .. k : r[i] = IsGenuine(s[i])
    BY <2>2
  <2> QED
    BY <2>1, <2>5, <2>6, <2>7
<1>3. PICK c : c = SubSeq(txs, a + 1, b)
  OBVIOUS
<1>4. /\ c \in Seq(Nat) /\ Len(c) = b - a
      /\ \A i \in 1 .. b - a : c[i] = txs[a + i]
  <2>1. PICK p \in Int : p = a + 1
    OBVIOUS
  <2>2. c = SubSeq(txs, p, b) /\ b \in Int /\ \A i \in p .. b : txs[i] \in Nat
    BY <1>1, <1>3, <2>1
  <2>3. /\ c \in Seq(Nat) /\ Len(c) = IF p <= b THEN b - p + 1 ELSE 0
        /\ \A i \in 1 .. b - p + 1 : c[i] = txs[p + i - 1]
    BY <2>2, SubSeqProperties
  <2>4. /\ b - p + 1 = b - a /\ \A i \in 1 .. b - a : p + i - 1 = a + i
        /\ (IF p <= b THEN b - p + 1 ELSE 0) = b - a
    BY <1>1, <2>1
  <2> QED
    BY <2>3, <2>4
<1>5. PICK r : /\ r = VerifyChunk(txs) /\ r \in Seq(BOOLEAN) /\ Len(r) = n
               /\ \A i \in 1 .. n : r[i] = IsGenuine(txs[i])
  BY <1>1, <1>2
<1>6. PICK d : d = SubSeq(r, a + 1, b)
  OBVIOUS
<1>7. /\ d \in Seq(BOOLEAN) /\ Len(d) = b - a
      /\ \A i \in 1 .. b - a : d[i] = r[a + i]
  <2>1. PICK p \in Int : p = a + 1
    OBVIOUS
  <2>2. /\ d = SubSeq(r, p, b) /\ b \in Int
        /\ \A i \in p .. b : r[i] \in BOOLEAN
    BY <1>1, <1>5, <1>6, <2>1
  <2>3. /\ d \in Seq(BOOLEAN) /\ Len(d) = IF p <= b THEN b - p + 1 ELSE 0
        /\ \A i \in 1 .. b - p + 1 : d[i] = r[p + i - 1]
    BY <2>2, SubSeqProperties
  <2>4. /\ b - p + 1 = b - a /\ \A i \in 1 .. b - a : p + i - 1 = a + i
        /\ (IF p <= b THEN b - p + 1 ELSE 0) = b - a
    BY <1>1, <2>1
  <2> QED
    BY <2>3, <2>4
<1>8. PICK v : /\ v = VerifyChunk(c) /\ v \in Seq(BOOLEAN) /\ Len(v) = b - a
               /\ \A i \in 1 .. b - a : v[i] = IsGenuine(c[i])
  <2>1. /\ VerifyChunk(c) \in Seq(BOOLEAN) /\ Len(VerifyChunk(c)) = Len(c)
        /\ \A i \in 1 .. Len(c) : VerifyChunk(c)[i] = IsGenuine(c[i])
    BY <1>2, <1>4
  <2> QED
    BY <1>4, <2>1
<1>9. ASSUME NEW i \in 1 .. b - a
      PROVE  v[i] = d[i]
  <2>1. a + i \in 1 .. n
    BY <1>1
  <2>2. v[i] = IsGenuine(c[i]) /\ c[i] = txs[a + i]
    BY <1>4, <1>8
  <2>3. d[i] = r[a + i] /\ r[a + i] = IsGenuine(txs[a + i])
    BY <1>5, <1>7, <2>1
  <2> QED
    BY <2>2, <2>3
<1>10. v = d
  BY <1>7, <1>8, <1>9, SeqEqual
<1> QED
  BY <1>1, <1>3, <1>5, <1>6, <1>8, <1>10

\* Every chunk begins in the list, and the last one ends with it.
LEMMA ChunkNumbers ==
    ASSUME NEW n \in Nat, n # 0
    PROVE  /\ ChunkSize(n) \in Nat /\ ChunkSize(n) # 0
           /\ Chunks(n) \in Nat /\ Chunks(n) # 0
           /\ n <= Chunks(n) * ChunkSize(n)
           /\ \A k \in 1 .. Chunks(n) : (k - 1) * ChunkSize(n) < n
<1>1. PICK p : p = NumProcesses /\ p \in Nat \ {0}
  BY TransmitAssumption
<1>2. PICK s : s = ChunkSize(n)
  OBVIOUS
<1>3. s \in Nat \ {0}
  <2>1. n \div p \in Nat
    BY <1>1
  <2> QED
    BY <1>1, <1>2, <2>1 DEF ChunkSize
<1>4. PICK m : m = Chunks(n)
  OBVIOUS
<1>5. PICK x \in Nat : x = n + s - 1
  BY <1>3
<1>6. m = x \div s
  BY <1>2, <1>4, <1>5 DEF Chunks
<1>7. m \in Nat
  BY <1>3, <1>6
<1>8. m * s <= x /\ x < m * s + s
  <2>1. s * (x \div s) <= x /\ x < s * (x \div s) + s
    BY <1>3
  <2> QED
    BY <1>3, <1>6, <1>7, <2>1
<1>9. m * s \in Nat
  BY <1>3, <1>7
<1>10. n <= m * s
  BY <1>3, <1>5, <1>8, <1>9
<1>11. m # 0
  <2>1. 0 * s = 0
    BY <1>3
  <2> QED
    BY <1>10, <2>1
<1>12. ASSUME NEW k \in 1 .. m
       PROVE  (k - 1) * s < n
  <2>1. k * s <= m * s
    BY <1>3, <1>7
  <2>2. (k - 1) * s = k * s - s /\ k * s \in Nat
    BY <1>3, <1>7
  <2> QED
    BY <1>3, <1>5, <1>8, <1>9, <2>1, <2>2
<1> QED
  BY <1>2, <1>3, <1>4, <1>7, <1>10, <1>11, <1>12

\* Each transaction gets its own verdict, whatever the chunks.
LEMMA VerdictsAre ==
    ASSUME NEW txs \in Seq(Nat)
    PROVE  Verdicts(txs) = VerifyChunk(txs)
<1>1. PICK n \in Nat : n = Len(txs) /\ DOMAIN txs = 1 .. n
  OBVIOUS
<1>2. PICK s : s = ChunkSize(n)
  OBVIOUS
<1>3. PICK m : m = Chunks(n)
  OBVIOUS
<1>4. PICK chunks :
          chunks = [k \in 1 .. m |->
                       SubSeq(txs, (k - 1) * s + 1, Min({k * s, n}))]
  OBVIOUS
<1>5. Chunkify(txs) = chunks
  BY <1>1, <1>2, <1>3, <1>4 DEF Chunkify
<1>6. PICK parts : parts = [k \in 1 .. m |-> VerifyChunk(chunks[k])]
  OBVIOUS
<1>7. Verdicts(txs) = FlattenSeq(parts)
  <2>1. DOMAIN chunks = 1 .. m
    BY <1>4
  <2> QED
    BY <1>5, <1>6, <2>1 DEF Verdicts
<1>8. PICK row : row = VerifyChunk(txs)
  OBVIOUS
<1>9. row \in Seq(BOOLEAN) /\ Len(row) = n
  <2>1. 0 \in Nat /\ 0 \in 0 .. Len(txs) /\ 0 <= 0
    BY <1>1
  <2> QED
    BY <1>1, <1>8, <2>1, VerifyPart
<1>10. CASE n = 0
  <2>1. m = 0
    <3>1. 0 \div NumProcesses = 0
      BY TransmitAssumption
    <3>2. s = 1
      BY <1>2, <1>10, <3>1 DEF ChunkSize
    <3>3. (0 + 1 - 1) \div 1 = 0
      OBVIOUS
    <3> QED
      BY <1>2, <1>3, <1>10, <3>2, <3>3 DEF Chunks
  <2>2. parts = <<>>
    BY <1>6, <2>1
  <2>3. FlattenSeq(parts) = <<>>
    BY <2>2 DEF FlattenSeq
  <2>4. row = <<>>
    BY <1>9, <1>10
  <2> QED
    BY <1>7, <1>8, <2>3, <2>4
<1>11. CASE n # 0
  <2>1. /\ s \in Nat /\ s # 0 /\ m \in Nat /\ m # 0 /\ n <= m * s
        /\ \A k \in 1 .. m : (k - 1) * s < n
    BY <1>2, <1>3, <1>11, ChunkNumbers
  <2>2. PICK e : e = [k \in 0 .. m |-> Min({k * s, n})]
    OBVIOUS
  <2>3. \A k \in 0 .. m : k * s \in Nat
    BY <2>1
  <2>4. ASSUME NEW x \in Nat
        PROVE  Min({x, n}) = IF x <= n THEN x ELSE n
    BY <1>1, <2>4 DEF Min
  <2>5. \A k \in 0 .. m : e[k] = IF k * s <= n THEN k * s ELSE n
    BY <2>2, <2>3, <2>4
  <2>6. e \in [0 .. m -> 0 .. n]
    <3>1. \A k \in 0 .. m : e[k] \in 0 .. n
      BY <1>1, <2>3, <2>5
    <3> QED
      BY <2>2, <3>1
  <2>7. e[0] = 0 /\ e[m] = n
    <3>1. 0 \in 0 .. m /\ m \in 0 .. m /\ 0 * s = 0
      BY <2>1
    <3> QED
      BY <1>1, <2>1, <2>3, <2>5, <3>1
  <2>8. ASSUME NEW k \in 1 .. m
        PROVE  e[k - 1] <= e[k] /\ parts[k] = SubSeq(row, e[k - 1] + 1, e[k])
    <3>1. k \in 0 .. m /\ k - 1 \in 0 .. m
      BY <2>1
    <3>2. (k - 1) * s < n
      BY <2>1
    <3>3. e[k - 1] = (k - 1) * s
      BY <1>1, <2>3, <2>5, <3>1, <3>2
    <3>4. (k - 1) * s <= k * s
      <4>1. (k - 1) * s = k * s - s
        BY <2>1
      <4> QED
        BY <2>1, <2>3, <3>1, <4>1
    <3>5. e[k - 1] <= e[k] /\ e[k] \in 0 .. n /\ e[k - 1] \in Nat
      BY <1>1, <2>3, <2>5, <2>6, <3>1, <3>2, <3>3, <3>4
    <3>6. chunks[k] = SubSeq(txs, e[k - 1] + 1, e[k])
      BY <1>4, <2>2, <3>1, <3>3
    <3>7. VerifyChunk(SubSeq(txs, e[k - 1] + 1, e[k])) =
              SubSeq(row, e[k - 1] + 1, e[k])
      BY <1>1, <1>8, <3>5, VerifyPart
    <3>8. parts[k] = VerifyChunk(chunks[k])
      BY <1>6
    <3> QED
      BY <3>5, <3>6, <3>7, <3>8
  <2>9. Len(parts) = m
    BY <1>6, <2>1
  <2>10. FlattenSeq(parts) = row
    <3>1. \A k \in 1 .. m : /\ e[k - 1] <= e[k]
                            /\ parts[k] = SubSeq(row, e[k - 1] + 1, e[k])
      BY <2>8
    <3>2. e \in [0 .. m -> 0 .. Len(row)] /\ e[m] = Len(row)
      BY <1>9, <2>6, <2>7
    <3> QED
      BY <1>9, <2>1, <2>7, <2>9, <3>1, <3>2, FlattenParts
  <2> QED
    BY <1>7, <1>8, <2>10
<1> QED
  BY <1>10, <1>11

\* What verify leaves of a list that rises: the genuine transactions, in order.
LEMMA VerifiedAre ==
    ASSUME NEW txs \in Seq(Nat), NoTx \notin ToSet(txs), Rising(txs)
    PROVE  /\ Verified(txs) \in Seq(Nat) /\ Rising(Verified(txs))
           /\ ToSet(Verified(txs)) = {n \in ToSet(txs) : IsGenuine(n)}
<1>1. PICK n \in Nat : n = Len(txs) /\ DOMAIN txs = 1 .. n
  OBVIOUS
<1>2. \A i \in 1 .. n : Verdicts(txs)[i] = IsGenuine(txs[i])
  BY <1>1, VerdictsAre DEF VerifyChunk
<1>3. PICK v : v = [i \in 1 .. n |-> IF Verdicts(txs)[i] THEN txs[i] ELSE NoTx]
  OBVIOUS
<1>4. Verified(txs) = Kept(v)
  BY <1>1, <1>3 DEF Verified
<1>5. \A i \in 1 .. n : v[i] = IF IsGenuine(txs[i]) THEN txs[i] ELSE NoTx
  BY <1>2, <1>3
<1>6. \A i \in 1 .. n : txs[i] \in Nat /\ txs[i] # NoTx
  BY <1>1 DEF ToSet
<1>7. v \in Seq(Nat) /\ DOMAIN v = 1 .. n
  <2>1. \A i \in 1 .. n : v[i] \in Nat
    BY <1>5, <1>6 DEF NoTx
  <2>2. v \in [1 .. n -> Nat]
    BY <1>3, <2>1
  <2> QED
    BY <1>1, <2>2
<1>8. \A k, l \in DOMAIN v : k < l /\ v[k] # NoTx /\ v[l] # NoTx => v[k] < v[l]
  BY <1>1, <1>5, <1>7 DEF Rising
<1>9. ToSet(v) \ {NoTx} = {x \in ToSet(txs) : IsGenuine(x)}
  BY <1>1, <1>5, <1>6, <1>7 DEF ToSet
<1> QED
  BY <1>4, <1>7, <1>8, <1>9, KeptRises

-----------------------------------------------------------------------------
(* The way of a transaction to the log *)

Before(s, t) == \A m \in ToSet(s), n \in ToSet(t) : m < n

\* A part of what was posted, when n transactions were, in the order posted.
Numbers(s, n) == s \in Seq(Nat) /\ Rising(s) /\ ToSet(s) \subseteq 1 .. n

OnLog(n) == \E i \in 1 .. Len(pushed) : n \in ToSet(pushed[i])

LineInv ==
    /\ IsSeq(posted) /\ IsSeq(pushed)
    /\ Numbers(hand, Len(posted)) /\ Numbers(deque, Len(posted))
    /\ Before(hand, deque)
    /\ \A i \in 1 .. Len(pushed) :
          /\ Numbers(pushed[i], Len(posted))
          /\ Before(pushed[i], hand) /\ Before(pushed[i], deque)
    /\ \A i, j \in 1 .. Len(pushed) : i < j => Before(pushed[i], pushed[j])

\* Nothing is pushed that the verifier has not seen.
GenuineInv ==
    /\ sender \in {"idle", "verify", "send", "ended", "down"}
    /\ sender \in {"idle", "ended", "down"} => hand = <<>>
    /\ sender = "send" => \A n \in ToSet(hand) : IsGenuine(n)
    /\ \A i \in 1 .. Len(pushed) : \A n \in ToSet(pushed[i]) : IsGenuine(n)

LostInv ==
    /\ lost \subseteq 1 .. Len(posted)
    /\ \A n \in 1 .. Len(posted) : IsGenuine(n) =>
          (n \in lost <=> ~ OnLog(n) /\ n \notin ToSet(hand) \cup ToSet(deque))

PostInv == LineInv /\ GenuineInv /\ LostInv

\* Two lists, the second with the larger numbers.
LEMMA JoinRises ==
    ASSUME NEW n \in Nat, NEW s, NEW t, Numbers(s, n), Numbers(t, n), Before(s, t)
    PROVE  Numbers(s \o t, n) /\ ToSet(s \o t) = ToSet(s) \cup ToSet(t)
<1>1. PICK k \in Nat : k = Len(s) /\ DOMAIN s = 1 .. k
  BY DEF Numbers
<1>2. PICK l \in Nat : l = Len(t) /\ DOMAIN t = 1 .. l
  BY DEF Numbers
<1>3. PICK z : z = s \o t
  OBVIOUS
<1>4. /\ z \in Seq(Nat) /\ Len(z) = k + l /\ DOMAIN z = 1 .. k + l
      /\ \A i \in 1 .. k + l : z[i] = IF i <= k THEN s[i] ELSE t[i - k]
  <2>1. s \in Seq(Nat) /\ t \in Seq(Nat)
    BY DEF Numbers
  <2>2. /\ z \in Seq(Nat) /\ Len(z) = k + l
        /\ \A i \in 1 .. k + l : z[i] = IF i <= k THEN s[i] ELSE t[i - k]
    BY <1>1, <1>2, <1>3, <2>1, ConcatProperties
  <2> QED
    BY <2>2
<1>5. /\ \A i \in 1 .. k : z[i] = s[i]
      /\ \A i \in 1 .. l : z[k + i] = t[i]
  <2>1. \A i \in 1 .. k : i \in 1 .. k + l /\ i <= k
    OBVIOUS
  <2>2. \A i \in 1 .. l : k + i \in 1 .. k + l /\ ~ (k + i <= k) /\ k + i - k = i
    OBVIOUS
  <2> QED
    BY <1>4, <2>1, <2>2
<1>6. Rising(z)
  <2>1. ASSUME NEW i \in 1 .. k + l, NEW j \in 1 .. k + l, i < j
        PROVE  z[i] < z[j]
    <3>1. CASE j <= k
      <4>1. i \in 1 .. k /\ j \in 1 .. k
        BY <2>1, <3>1
      <4>2. s[i] < s[j]
        BY <1>1, <2>1, <4>1 DEF Numbers, Rising
      <4> QED
        BY <1>5, <4>1, <4>2
    <3>2. CASE i <= k /\ k < j
      <4>1. i \in 1 .. k /\ j - k \in 1 .. l /\ k + (j - k) = j
        BY <2>1, <3>2
      <4>2. s[i] < t[j - k]
        BY <1>1, <1>2, <4>1 DEF Before, ToSet
      <4> QED
        BY <1>5, <4>1, <4>2
    <3>3. CASE k < i
      <4>1. /\ i - k \in 1 .. l /\ k + (i - k) = i
            /\ j - k \in 1 .. l /\ k + (j - k) = j /\ i - k < j - k
        BY <2>1, <3>3
      <4>2. t[i - k] < t[j - k]
        BY <1>2, <4>1 DEF Numbers, Rising
      <4> QED
        BY <1>5, <4>1, <4>2
    <3> QED
      BY <2>1, <3>1, <3>2, <3>3
  <2> QED
    BY <1>4, <2>1 DEF Rising
<1>7. ToSet(z) = ToSet(s) \cup ToSet(t)
  <2>1. ToSet(z) = {z[i] : i \in 1 .. k + l}
    BY <1>4 DEF ToSet
  <2>2. ToSet(s) = {z[i] : i \in 1 .. k}
    BY <1>1, <1>5 DEF ToSet
  <2>3. ToSet(t) = {z[k + i] : i \in 1 .. l}
    BY <1>2, <1>5 DEF ToSet
  <2>4. /\ 1 .. k \subseteq 1 .. k + l
        /\ \A i \in 1 .. l : k + i \in 1 .. k + l
    OBVIOUS
  <2>5. \A i \in 1 .. k + l : i \in 1 .. k \/ \E m \in 1 .. l : i = k + m
    <3>1. ASSUME NEW i \in 1 .. k + l, i \notin 1 .. k
          PROVE  i - k \in 1 .. l /\ i = k + (i - k)
      BY <3>1
    <3> QED
      BY <3>1
  <2> QED
    BY <2>1, <2>2, <2>3, <2>4, <2>5
<1> QED
  BY <1>3, <1>4, <1>6, <1>7 DEF Numbers

\* The empty list has a place everywhere.
LEMMA EmptyFits ==
    /\ \A n \in Nat : Numbers(<<>>, n)
    /\ \A s : Before(<<>>, s) /\ Before(s, <<>>)
    /\ ToSet(<<>>) = {}
  BY EmptyRises DEF Numbers, Before

\* A POST gets the next numbers.
LEMMA PostKeeps ==
    ASSUME PostInv, NEW txs \in Requests, Post(txs)
    PROVE  PostInv'
<1>1. /\ posted' = posted \o txs
      /\ deque' = deque \o [i \in DOMAIN txs |-> Len(posted) + i]
      /\ pushed' = pushed /\ hand' = hand /\ sender' = sender /\ lost' = lost
  BY DEF Post, senderVars, listVars, nodeVars
<1>2. PICK k \in Nat : k = Len(posted) /\ DOMAIN posted = 1 .. k /\ IsSeq(posted)
  BY LengthOfSeq DEF PostInv, LineInv
<1>3. PICK l \in Nat : l = Len(txs) /\ DOMAIN txs = 1 .. l /\ IsSeq(txs)
  <2>1. IsSeq(txs)
    BY TransmitAssumption, SeqIsSeq
  <2> QED
    BY <2>1, LengthOfSeq
<1>4. /\ IsSeq(posted') /\ Len(posted') = k + l
      /\ \A i \in 1 .. k : posted'[i] = posted[i]
  <2>1. /\ IsSeq(posted \o txs) /\ Len(posted \o txs) = k + l
        /\ \A i \in 1 .. k + l :
              (posted \o txs)[i] = IF i <= k THEN posted[i] ELSE txs[i - k]
    BY <1>2, <1>3, ConcatIsSeq
  <2> QED
    BY <1>1, <2>1
<1>5. PICK new : new = [i \in 1 .. l |-> k + i]
  OBVIOUS
<1>6. /\ Numbers(new, k + l) /\ ToSet(new) = k + 1 .. k + l
      /\ deque' = deque \o new
  <2>1. new \in [1 .. l -> Nat] /\ DOMAIN new = 1 .. l
    BY <1>5
  <2>2. new \in Seq(Nat)
    BY <2>1
  <2>3. Rising(new)
    BY <1>5, <2>1 DEF Rising
  <2>4. ToSet(new) = k + 1 .. k + l
    <3>1. ToSet(new) = {k + i : i \in 1 .. l}
      BY <1>5, <2>1 DEF ToSet
    <3>2. ASSUME NEW x \in k + 1 .. k + l
          PROVE  x \in {k + i : i \in 1 .. l}
      <4>1. x - k \in 1 .. l /\ x = k + (x - k)
        OBVIOUS
      <4> QED
        BY <4>1
    <3> QED
      BY <3>1, <3>2
  <2>5. k + 1 .. k + l \subseteq 1 .. k + l
    OBVIOUS
  <2> QED
    BY <1>1, <1>2, <1>3, <1>5, <2>2, <2>3, <2>4, <2>5 DEF Numbers
<1>7. \A s : Numbers(s, k) => Numbers(s, k + l) /\ Before(s, new)
  <2>1. 1 .. k \subseteq 1 .. k + l /\ \A m \in 1 .. k, n \in k + 1 .. k + l : m < n
    OBVIOUS
  <2> QED
    BY <1>6, <2>1 DEF Numbers, Before
<1>8. Numbers(deque', k + l) /\ ToSet(deque') = ToSet(deque) \cup (k + 1 .. k + l)
  <2>1. Numbers(deque, k)
    BY <1>2 DEF PostInv, LineInv
  <2>2. Numbers(deque, k + l) /\ Before(deque, new) /\ k + l \in Nat
    BY <1>7, <2>1
  <2> QED
    BY <1>6, <2>2, JoinRises
<1>9. \A s : Numbers(s, k) /\ Before(s, deque) => Before(s, deque')
  BY <1>6, <1>7, <1>8 DEF Before
<1>10. LineInv'
  <2>1. /\ Numbers(hand, k) /\ Before(hand, deque)
        /\ \A i \in 1 .. Len(pushed) :
              /\ Numbers(pushed[i], k)
              /\ Before(pushed[i], hand) /\ Before(pushed[i], deque)
        /\ \A i, j \in 1 .. Len(pushed) : i < j => Before(pushed[i], pushed[j])
        /\ IsSeq(pushed)
    BY <1>2 DEF PostInv, LineInv
  <2>2. /\ Numbers(hand, k + l) /\ Before(hand, deque')
        /\ \A i \in 1 .. Len(pushed) :
              Numbers(pushed[i], k + l) /\ Before(pushed[i], deque')
    BY <1>7, <1>9, <2>1
  <2> QED
    BY <1>1, <1>4, <1>8, <2>1, <2>2 DEF LineInv
<1>11. \A n \in 1 .. k : IsGenuine(n)' = IsGenuine(n)
  BY <1>4 DEF IsGenuine
<1>12. GenuineInv'
  <2>1. /\ \A n \in ToSet(hand) : n \in 1 .. k
        /\ \A i \in 1 .. Len(pushed) : \A n \in ToSet(pushed[i]) : n \in 1 .. k
    BY <1>2 DEF PostInv, LineInv, Numbers
  <2> QED
    BY <1>1, <1>11, <2>1 DEF PostInv, GenuineInv
<1>13. LostInv'
  <2>1. lost \subseteq 1 .. k
    BY <1>2 DEF PostInv, LostInv
  <2>2. 1 .. k \subseteq 1 .. k + l
    OBVIOUS
  <2>3. \A n : OnLog(n)' <=> OnLog(n)
    BY <1>1 DEF OnLog
  <2>4. ASSUME NEW n \in 1 .. k + l, IsGenuine(n)'
        PROVE  n \in lost <=> ~ OnLog(n) /\ n \notin ToSet(hand) \cup ToSet(deque')
    <3>1. CASE n \in 1 .. k
      <4>1. n \notin k + 1 .. k + l /\ IsGenuine(n)
        BY <1>11, <2>4, <3>1
      <4> QED
        BY <1>2, <1>8, <3>1, <4>1 DEF PostInv, LostInv
    <3>2. CASE n \notin 1 .. k
      <4>1. n \in k + 1 .. k + l
        BY <3>2
      <4> QED
        BY <1>8, <2>1, <3>2, <4>1
    <3> QED
      BY <3>1, <3>2
  <2> QED
    BY <1>1, <1>4, <2>1, <2>2, <2>3, <2>4 DEF LostInv
<1> QED
  BY <1>10, <1>12, <1>13 DEF PostInv

\* transmit_tx takes all that waits.
LEMMA TakeKeeps ==
    ASSUME PostInv, Take
    PROVE  PostInv'
<1>1. /\ sender = "idle" /\ hand' = deque /\ deque' = <<>> /\ sender' = "verify"
      /\ pushed' = pushed /\ posted' = posted /\ lost' = lost
  BY DEF Take, listVars, nodeVars
<1>2. Len(posted) \in Nat
  BY LengthOfSeq DEF PostInv, LineInv
<1>3. LineInv'
  BY <1>1, <1>2, EmptyFits DEF PostInv, LineInv
<1>4. GenuineInv'
  BY <1>1 DEF PostInv, GenuineInv, IsGenuine
<1>5. LostInv'
  <2>1. ToSet(hand) = {}
    BY <1>1, EmptyFits DEF PostInv, GenuineInv
  <2>2. ToSet(hand') \cup ToSet(deque') = ToSet(hand) \cup ToSet(deque)
    BY <1>1, <2>1, EmptyFits
  <2> QED
    BY <1>1, <2>2 DEF PostInv, LostInv, OnLog, IsGenuine
<1> QED
  BY <1>3, <1>4, <1>5 DEF PostInv

\* The genuine ones of what it has in hand stay there.
LEMMA VerifyKeeps ==
    ASSUME PostInv, Verify
    PROVE  PostInv'
<1>1. /\ sender = "verify" /\ hand' = Verified(hand) /\ sender' = "send"
      /\ deque' = deque /\ pushed' = pushed /\ posted' = posted /\ lost' = lost
  BY DEF Verify, clientVars, listVars, nodeVars
<1>2. Numbers(hand, Len(posted)) /\ Len(posted) \in Nat
  BY LengthOfSeq DEF PostInv, LineInv
<1>3. /\ hand' \in Seq(Nat) /\ Rising(hand')
      /\ ToSet(hand') = {n \in ToSet(hand) : IsGenuine(n)}
  <2>1. NoTx \notin ToSet(hand)
    BY <1>2 DEF Numbers, NoTx
  <2> QED
    BY <1>1, <1>2, <2>1, VerifiedAre DEF Numbers
<1>4. Numbers(hand', Len(posted)) /\ ToSet(hand') \subseteq ToSet(hand)
  BY <1>2, <1>3 DEF Numbers
<1>5. LineInv'
  <2>1. /\ Before(hand', deque)
        /\ \A i \in 1 .. Len(pushed) : Before(pushed[i], hand')
    BY <1>4 DEF PostInv, LineInv, Before
  <2> QED
    BY <1>1, <1>4, <2>1 DEF PostInv, LineInv
<1>6. GenuineInv'
  BY <1>1, <1>3 DEF PostInv, GenuineInv, IsGenuine
<1>7. LostInv'
  <2>1. \A n : IsGenuine(n) => (n \in ToSet(hand') <=> n \in ToSet(hand))
    BY <1>3
  <2> QED
    BY <1>1, <2>1 DEF PostInv, LostInv, OnLog, IsGenuine
<1> QED
  BY <1>5, <1>6, <1>7 DEF PostInv

\* What was verified goes behind all that is on the log.
LEMMA PushKeepsLine ==
    ASSUME PostInv, sender = "send", Push, hand' = <<>>,
           sender' \in {"idle", "ended"}, UNCHANGED <<posted, deque, lost>>
    PROVE  PostInv'
<1>1. PICK p \in Nat : p = Len(pushed) /\ IsSeq(pushed)
  BY LengthOfSeq DEF PostInv, LineInv
<1>2. /\ IsSeq(pushed') /\ Len(pushed') = p + 1
      /\ \A i \in 1 .. p : pushed'[i] = pushed[i]
      /\ pushed'[p + 1] = hand
  BY <1>1, AppendIsSeq DEF Push
<1>3. 1 .. p + 1 = 1 .. p \cup {p + 1}
  OBVIOUS
<1>4. Len(posted) \in Nat
  BY LengthOfSeq DEF PostInv, LineInv
<1>5. LineInv'
  <2>1. \A i \in 1 .. p + 1 : Numbers(pushed'[i], Len(posted))
                              /\ Before(pushed'[i], deque)
    BY <1>1, <1>2, <1>3 DEF PostInv, LineInv
  <2>2. ASSUME NEW i \in 1 .. p + 1, NEW j \in 1 .. p + 1, i < j
        PROVE  Before(pushed'[i], pushed'[j])
    <3>1. i \in 1 .. p
      BY <2>2
    <3>2. CASE j \in 1 .. p
      BY <1>1, <1>2, <2>2, <3>1, <3>2 DEF PostInv, LineInv
    <3>3. CASE j = p + 1
      BY <1>1, <1>2, <3>1, <3>3 DEF PostInv, LineInv
    <3> QED
      BY <3>2, <3>3
  <2>3. /\ IsSeq(posted') /\ Numbers(hand', Len(posted')) /\ Before(hand', deque')
        /\ Numbers(deque', Len(posted'))
    BY <1>4, EmptyFits DEF PostInv, LineInv
  <2>4. \A i \in 1 .. p + 1 : Before(pushed'[i], hand')
    BY EmptyFits
  <2> QED
    BY <1>2, <2>1, <2>2, <2>3, <2>4 DEF LineInv
<1>6. GenuineInv'
  <2>1. \A i \in 1 .. p + 1 : \A n \in ToSet(pushed'[i]) : IsGenuine(n)
    BY <1>1, <1>2, <1>3 DEF PostInv, GenuineInv
  <2>2. \A i \in 1 .. Len(pushed') : \A n \in ToSet(pushed'[i]) : IsGenuine(n)'
    BY <1>2, <2>1 DEF IsGenuine
  <2>3. sender' \in {"idle", "verify", "send", "ended", "down"} /\ sender' # "send"
    OBVIOUS
  <2> QED
    BY <2>2, <2>3 DEF GenuineInv
<1>7. LostInv'
  <2>1. \A n : OnLog(n)' <=> OnLog(n) \/ n \in ToSet(hand)
    BY <1>1, <1>2, <1>3 DEF OnLog
  <2>2. ToSet(hand') = {}
    BY EmptyFits
  <2> QED
    BY <2>1, <2>2 DEF PostInv, LostInv, IsGenuine
<1> QED
  BY <1>5, <1>6, <1>7 DEF PostInv

\* What was in memory is lost: all that was in hand, and in a crash all that
\* waited.
LEMMA LosingKeeps ==
    ASSUME PostInv, hand' = <<>>, sender' \in {"ended", "down"},
           UNCHANGED <<posted, pushed>>,
           \/ deque' = deque /\ lost' = lost \cup ToSet(hand)
           \/ deque' = <<>> /\ lost' = lost \cup ToSet(deque) \cup ToSet(hand)
    PROVE  PostInv'
<1>1. Len(posted) \in Nat
  BY LengthOfSeq DEF PostInv, LineInv
<1>2. LineInv'
  BY <1>1, EmptyFits DEF PostInv, LineInv
<1>3. GenuineInv'
  BY DEF PostInv, GenuineInv, IsGenuine
<1>4. LostInv'
  <2>1. /\ ToSet(hand) \subseteq 1 .. Len(posted)
        /\ ToSet(deque) \subseteq 1 .. Len(posted)
        /\ lost \subseteq 1 .. Len(posted)
    BY DEF PostInv, LineInv, LostInv, Numbers
  <2>2. ASSUME NEW n \in ToSet(hand)
        PROVE  ~ OnLog(n) /\ n \notin ToSet(deque)
    <3>1. n \in Nat /\ ~ (n < n)
      BY <1>1, <2>1
    <3> QED
      BY <3>1 DEF PostInv, LineInv, OnLog, Before
  <2>3. ASSUME NEW n \in ToSet(deque)
        PROVE  ~ OnLog(n)
    <3>1. n \in Nat /\ ~ (n < n)
      BY <1>1, <2>1
    <3> QED
      BY <3>1 DEF PostInv, LineInv, OnLog, Before
  <2>4. \A n : OnLog(n)' <=> OnLog(n)
    BY DEF OnLog
  <2>5. \A n \in 1 .. Len(posted) : IsGenuine(n) =>
            (n \in lost <=> ~ OnLog(n) /\ n \notin ToSet(hand) \cup ToSet(deque))
    BY DEF PostInv, LostInv
  <2>6. ToSet(hand') = {}
    BY EmptyFits
  <2>7. CASE deque' = deque /\ lost' = lost \cup ToSet(hand)
    <3>1. \A n \in 1 .. Len(posted) : IsGenuine(n) =>
              (n \in lost' <=> ~ OnLog(n) /\ n \notin ToSet(hand') \cup ToSet(deque'))
      BY <2>2, <2>5, <2>6, <2>7
    <3> QED
      BY <2>1, <2>4, <2>7, <3>1 DEF LostInv, IsGenuine
  <2>8. CASE deque' = <<>> /\ lost' = lost \cup ToSet(deque) \cup ToSet(hand)
    <3>1. ToSet(deque') = {}
      BY <2>8, EmptyFits
    <3>2. \A n \in 1 .. Len(posted) : IsGenuine(n) =>
              (n \in lost' <=> ~ OnLog(n) /\ n \notin ToSet(hand') \cup ToSet(deque'))
      BY <2>2, <2>3, <2>5, <2>6, <2>8, <3>1
    <3> QED
      BY <2>1, <2>4, <2>8, <3>2 DEF LostInv, IsGenuine
  <2> QED
    BY <2>7, <2>8
<1> QED
  BY <1>2, <1>3, <1>4 DEF PostInv

\* The reader, and a node that comes up, leave all this alone.
LEMMA OthersKeepLine ==
    ASSUME PostInv, UNCHANGED <<clientVars, pushed, hand, lost>>,
           sender' = sender \/ (sender = "down" /\ sender' = "idle")
    PROVE  PostInv'
<1> USE DEF clientVars
<1>1. LineInv' /\ LostInv'
  BY DEF PostInv, LineInv, LostInv, OnLog, IsGenuine
<1>2. GenuineInv'
  BY DEF PostInv, GenuineInv, IsGenuine
<1> QED
  BY <1>1, <1>2 DEF PostInv

\* Every step keeps the line.
LEMMA PostStep ==
    ASSUME PostInv, [TransmitNext]_transmitVars
    PROVE  PostInv'
<1> USE DEF clientVars, senderVars, listVars, readerVars, nodeVars
<1>1. ASSUME Send
      PROVE  PostInv'
  BY <1>1, PushKeepsLine DEF Send
<1>2. ASSUME EndSender
      PROVE  PostInv'
  <2>1. CASE lost' = lost \cup ToSet(hand) /\ UNCHANGED listVars
    BY <1>2, <2>1, LosingKeeps DEF EndSender
  <2>2. CASE sender = "send" /\ Push /\ UNCHANGED lost
    BY <1>2, <2>2, PushKeepsLine DEF EndSender
  <2> QED
    BY <1>2, <2>1, <2>2 DEF EndSender
<1>3. ASSUME Crash
      PROVE  PostInv'
  BY <1>3, LosingKeeps DEF Crash
<1>4. ASSUME Reader \/ EndReader \/ UNCHANGED transmitVars
      PROVE  PostInv'
  <2>1. UNCHANGED <<clientVars, pushed, hand, lost, sender>>
    BY <1>4 DEF Reader, Fetch, Apply, Trim, EndReader, transmitVars
  <2> QED
    BY <2>1, OthersKeepLine
<1>5. ASSUME Start
      PROVE  PostInv'
  BY <1>5, OthersKeepLine DEF Start
<1> QED
  BY <1>1, <1>2, <1>3, <1>4, <1>5, PostKeeps, TakeKeeps, VerifyKeeps
  DEF TransmitNext, Transmitter

\* Nothing is posted yet.
LEMMA PostStart ==
    ASSUME TransmitInit
    PROVE  PostInv
<1>1. /\ posted = <<>> /\ deque = <<>> /\ hand = <<>> /\ pushed = <<>>
      /\ lost = {} /\ sender = "idle" /\ Len(<<>>) = 0 /\ IsSeq(<<>>)
  BY EmptyIsSeq DEF TransmitInit
<1>2. 0 \in Nat /\ 1 .. 0 = {}
  OBVIOUS
<1>3. LineInv
  BY <1>1, <1>2, EmptyFits DEF LineInv
<1>4. GenuineInv /\ LostInv
  BY <1>1, <1>2 DEF GenuineInv, LostInv
<1> QED
  BY <1>3, <1>4 DEF PostInv

\* The log, the hand and the deque, one behind the other.
LEMMA LineIsLog ==
    ASSUME PostInv
    PROVE  LogIsPosted
<1>1. PICK p \in Nat : p = Len(pushed) /\ IsSeq(pushed) /\ DOMAIN pushed = 1 .. p
  BY LengthOfSeq DEF PostInv, LineInv
<1>2. PICK n \in Nat : n = Len(posted) /\ DOMAIN posted = 1 .. n
  BY LengthOfSeq DEF PostInv, LineInv
<1>3. PICK line : line = InLine
  OBVIOUS
<1>4. /\ DOMAIN line = 1 .. p + 2
      /\ \A i \in 1 .. p : line[i] = pushed[i]
      /\ line[p + 1] = hand /\ line[p + 2] = deque
  <2>1. PICK t : t = <<hand, deque>>
    OBVIOUS
  <2>2. t \in Seq({hand, deque}) /\ Len(t) = 2 /\ t[1] = hand /\ t[2] = deque
    BY <2>1
  <2>3. IsSeq(t)
    BY <2>2, SeqIsSeq
  <2>4. line = pushed \o t
    BY <1>3, <2>1 DEF InLine
  <2>5. /\ IsSeq(line) /\ Len(line) = p + 2
        /\ \A i \in 1 .. p + 2 : line[i] = IF i <= p THEN pushed[i] ELSE t[i - p]
    <3>1. /\ IsSeq(pushed \o t) /\ Len(pushed \o t) = Len(pushed) + Len(t)
          /\ \A i \in 1 .. Len(pushed) + Len(t) :
                (pushed \o t)[i] =
                    IF i <= Len(pushed) THEN pushed[i] ELSE t[i - Len(pushed)]
      BY <1>1, <2>3, ConcatIsSeq
    <3>2. Len(pushed) = p /\ Len(t) = 2
      BY <1>1, <2>2
    <3> QED
      BY <2>4, <3>1, <3>2
  <2>6. DOMAIN line = 1 .. p + 2
    BY <2>5, LengthOfSeq
  <2>7. /\ p + 1 \in 1 .. p + 2 /\ ~ (p + 1 <= p) /\ p + 1 - p = 1
        /\ p + 2 \in 1 .. p + 2 /\ ~ (p + 2 <= p) /\ p + 2 - p = 2
        /\ \A i \in 1 .. p : i \in 1 .. p + 2 /\ i <= p
    OBVIOUS
  <2> QED
    BY <2>2, <2>5, <2>6, <2>7
<1>5. 1 .. p + 2 = 1 .. p \cup {p + 1, p + 2}
  OBVIOUS
<1>6. \A i \in 1 .. p + 2 : Numbers(line[i], n)
  BY <1>1, <1>2, <1>4, <1>5 DEF PostInv, LineInv
<1>7. ASSUME NEW i \in 1 .. p + 2, NEW j \in 1 .. p + 2, i < j
      PROVE  Before(line[i], line[j])
  <2>1. CASE j \in 1 .. p
    <3>1. i \in 1 .. p
      BY <1>7, <2>1
    <3> QED
      BY <1>1, <1>4, <1>7, <2>1, <3>1 DEF PostInv, LineInv
  <2>2. CASE j = p + 1
    <3>1. i \in 1 .. p
      BY <1>7, <2>2
    <3> QED
      BY <1>1, <1>4, <2>2, <3>1 DEF PostInv, LineInv
  <2>3. CASE j = p + 2
    <3>1. i \in 1 .. p \/ i = p + 1
      BY <1>7, <2>3
    <3> QED
      BY <1>1, <1>4, <2>3, <3>1 DEF PostInv, LineInv
  <2> QED
    BY <1>5, <2>1, <2>2, <2>3
<1>8. \A i \in 1 .. p + 2 : \A k \in DOMAIN line[i] : line[i][k] \in ToSet(line[i])
  BY DEF ToSet
<1>9. ASSUME NEW i \in 1 .. p + 2, NEW j \in 1 .. p + 2,
             NEW k \in DOMAIN line[i], NEW l \in DOMAIN line[j],
             i < j \/ (i = j /\ k < l)
      PROVE  line[i][k] < line[j][l]
  <2>1. CASE i < j
    BY <1>7, <1>8, <2>1 DEF Before
  <2>2. CASE i = j /\ k < l
    BY <1>6, <2>2 DEF Numbers, Rising
  <2> QED
    BY <1>9, <2>1, <2>2
<1>10. \A i \in 1 .. p + 2 : ToSet(line[i]) \subseteq 1 .. n
  BY <1>6 DEF Numbers
<1>11. \A i \in 1 .. p : \A m \in ToSet(pushed[i]) : IsGenuine(m)
  BY <1>1 DEF PostInv, GenuineInv
<1>12. ASSUME NEW m \in 1 .. n, IsGenuine(m)
       PROVE  m \in lost <=> \A i \in 1 .. p + 2 : m \notin ToSet(line[i])
  <2>1. m \in lost <=> ~ OnLog(m) /\ m \notin ToSet(hand) \cup ToSet(deque)
    BY <1>2, <1>12 DEF PostInv, LostInv
  <2>2. OnLog(m) <=> \E i \in 1 .. p : m \in ToSet(line[i])
    BY <1>1, <1>4 DEF OnLog
  <2> QED
    BY <1>4, <1>5, <2>1, <2>2
<1> QED
  BY <1>1, <1>2, <1>3, <1>4, <1>9, <1>10, <1>11, <1>12 DEF LogIsPosted

\* Whatever is posted while transmit_tx verifies and sends, however many
\* processes verify it and whatever they refuse, and wherever the thread or the
\* node fails: the log, the hand and the deque hold the numbers posted in their
\* order, the log only genuine ones, and a genuine one is missing if and only if
\* a failure took it.
THEOREM LogIsPostedHolds == TransmitSpec => []LogIsPosted
<1>1. PostInv /\ [TransmitNext]_transmitVars => PostInv'
  BY PostStep
<1> QED
  BY <1>1, PostStart, LineIsLog, PTL DEF TransmitSpec

-----------------------------------------------------------------------------
(* The monitor.  A reorganization is never as deep as the confirmations,  *)
(* so a block that is final once stays where it is.  The monitor asks for   *)
(* users only when the next block is final, and that block pays to nobody   *)
(* who gets an id later.                                                    *)

Final == Len(chain) - (Confirmations - 1)

ChainInv ==
    /\ IsSeq(chain) /\ mined \in Nat /\ assigned \in Nat
    /\ \A h \in 1 .. Len(chain) : chain[h].pays \subseteq 1 .. assigned

ProgressInv ==
    /\ processed \in Nat /\ addresses \in Nat
    /\ monitor \in {"count", "users", "block", "post", "ended"}
    /\ processed > 0 => processed <= Final
    /\ monitor \in {"users", "block"} => processed < Final
    /\ monitor # "post" => found = {}

UsersKnown ==
    monitor = "block" /\ processed + 1 \notin blind =>
        chain[processed + 1].pays \subseteq 1 .. addresses

BtcInv ==
    /\ IsSeq(posted) /\ ChainInv /\ ProgressInv /\ UsersKnown
    /\ ReportedIsFinal /\ NoneOverlooked

\* Posting one transaction adds what it reports.
LEMMA PostAdds ==
    ASSUME IsSeq(posted), NEW tx, Post(<<tx>>)
    PROVE  /\ IsSeq(posted')
           /\ tx.kind = "deposit" => Reported' = Reported \cup tx.outputs
           /\ tx.kind # "deposit" => Reported' = Reported
<1>1. posted' = posted \o <<tx>>
  BY DEF Post
<1>2. Len(posted) \in Nat /\ DOMAIN posted = 1 .. Len(posted)
  BY LengthOfSeq
<1>3. IsSeq(<<tx>>) /\ Len(<<tx>>) = 1 /\ <<tx>>[1] = tx
  <2>1. <<tx>> \in Seq({tx})
    OBVIOUS
  <2> QED
    BY <2>1, SeqIsSeq
<1>4. /\ IsSeq(posted') /\ Len(posted') = Len(posted) + 1
      /\ \A i \in 1 .. Len(posted) : posted'[i] = posted[i]
      /\ posted'[Len(posted) + 1] = tx
  BY <1>1, <1>2, <1>3, ConcatIsSeq
<1>5. DOMAIN posted' = 1 .. Len(posted) + 1
  BY <1>4, LengthOfSeq
<1> DEFINE Reports(p) == {m \in DOMAIN p : p[m].kind = "deposit"}
<1>6. Reports(posted') = IF tx.kind = "deposit"
                           THEN Reports(posted) \cup {Len(posted) + 1}
                           ELSE Reports(posted)
  BY <1>2, <1>4, <1>5
<1>7. \A n \in Reports(posted) : posted'[n].outputs = posted[n].outputs
  BY <1>2, <1>4
<1>8. /\ Reported = UNION {posted[n].outputs : n \in Reports(posted)}
      /\ Reported' = UNION {posted'[n].outputs : n \in Reports(posted')}
  BY DEF Reported
<1> HIDE DEF Reports
<1>9. CASE tx.kind = "deposit"
  <2> DEFINE new == Len(posted) + 1
  <2>1. /\ Reports(posted') = Reports(posted) \cup {new}
        /\ posted'[new].outputs = tx.outputs
    BY <1>4, <1>6, <1>9
  <2> HIDE DEF new
  <2>2. {posted'[n].outputs : n \in Reports(posted')}
            = {posted[n].outputs : n \in Reports(posted)} \cup {tx.outputs}
    BY <1>7, <2>1
  <2>3. Reported' = Reported \cup tx.outputs
    BY <1>8, <2>2
  <2> QED
    BY <1>4, <1>9, <2>3
<1>10. CASE tx.kind # "deposit"
  <2>1. {posted'[n].outputs : n \in Reports(posted')}
            = {posted[n].outputs : n \in Reports(posted)}
    BY <1>6, <1>7, <1>10
  <2>2. Reported' = Reported
    BY <1>8, <2>1
  <2> QED
    BY <1>4, <1>10, <2>2
<1> QED
  BY <1>4, <1>9, <1>10

\* What the node says of its users is a number.
LEMMA UserIdIsNumber ==
    ASSUME IsSeq(posted)
    PROVE  LastUserId \in Nat
<1>1. DOMAIN posted = 1 .. Len(posted) /\ Len(posted) \in Nat
  BY LengthOfSeq
<1>2. IsFiniteSet(DOMAIN posted)
  BY <1>1, FS_Interval
<1>3. IsFiniteSet({n \in DOMAIN posted \cap InState : posted[n].kind = "register"})
  BY <1>2, FS_Subset
<1> QED
  BY <1>3, FS_CardinalityType DEF LastUserId

\* So is what it says after a step.
LEMMA UserIdIsNumberNext == IsSeq(posted)' => (LastUserId \in Nat)'
  BY UserIdIsNumber, PTL


-----------------------------------------------------------------------------
(* The chain *)

\* A branch that replaces fewer blocks than the confirmations, and is no
\* shorter, leaves the final blocks in their places.
LEMMA ExtendKeepsFinal ==
    ASSUME ChainInv, NEW kept \in 0 .. Len(chain), NEW n \in Nat,
           kept >= Final, kept + n >= Len(chain), Extend(kept, n)
    PROVE  /\ ChainInv'
           /\ Len(chain') >= Len(chain) /\ Len(chain) \in Nat
           /\ \A h \in 1 .. Len(chain) :
                  h <= Final => h \in 1 .. Len(chain') /\ chain'[h] = chain[h]
<1> DEFINE start == SubSeq(chain, 1, kept)
<1>1. Len(chain) \in Nat /\ IsSeq(chain)
  BY LengthOfSeq DEF ChainInv
<1>2. PICK paid \in [1 .. n -> SUBSET (1 .. assigned)] :
          chain' = start \o [i \in 1 .. n |-> [id |-> mined + i, pays |-> paid[i]]]
  BY DEF Extend
<1> DEFINE end == [i \in 1 .. n |-> [id |-> mined + i, pays |-> paid[i]]]
<1>3. /\ IsSeq(start) /\ Len(start) = kept
      /\ \A i \in 1 .. kept : start[i] = chain[i]
  BY <1>1, SubSeqIsSeq
<1>4. /\ IsSeq(end) /\ Len(end) = n
      /\ \A i \in 1 .. n : end[i].pays \subseteq 1 .. assigned
  BY FunctionIsSeq
<1>5. chain' = start \o end
  BY <1>2
<1> HIDE DEF start, end
<1>6. /\ IsSeq(chain') /\ Len(chain') = kept + n
      /\ \A i \in 1 .. kept + n :
             chain'[i] = IF i <= kept THEN start[i] ELSE end[i - kept]
  BY <1>3, <1>4, <1>5, ConcatIsSeq
<1>7. assigned' = assigned /\ mined' = mined + n
  BY DEF Extend, btcHistory
<1>8. ASSUME NEW h \in 1 .. kept + n
      PROVE  chain'[h].pays \subseteq 1 .. assigned
  <2>1. CASE h <= kept
    <3>1. h \in 1 .. kept /\ h \in 1 .. Len(chain)
      BY <1>1, <2>1
    <3>2. chain'[h] = chain[h]
      BY <1>3, <1>6, <2>1, <3>1
    <3> QED
      BY <3>1, <3>2 DEF ChainInv
  <2>2. CASE ~ (h <= kept)
    <3>1. h - kept \in 1 .. n
      BY <2>2
    <3>2. chain'[h] = end[h - kept]
      BY <1>6, <2>2
    <3> QED
      BY <1>4, <3>1, <3>2
  <2> QED
    BY <2>1, <2>2
<1>9. ChainInv'
  <2>1. mined' \in Nat
    BY <1>7 DEF ChainInv
  <2> QED
    BY <1>6, <1>7, <1>8, <2>1 DEF ChainInv
<1>10. ASSUME NEW h \in 1 .. Len(chain), h <= Final
       PROVE  h \in 1 .. Len(chain') /\ chain'[h] = chain[h]
  <2>1. Final \in Int
    BY <1>1, BtcMonitorAssumption DEF Final
  <2>2. h \in 1 .. kept
    BY <1>1, <1>10, <2>1
  <2> QED
    BY <1>3, <1>6, <2>2
<1> QED
  BY <1>1, <1>6, <1>9, <1>10

\* The chain only grows, or gets a branch.
LEMMA ChainSteps ==
    ASSUME ChainInv, Mine \/ Reorganize
    PROVE  /\ ChainInv'
           /\ Len(chain') >= Len(chain) /\ Len(chain) \in Nat
           /\ \A h \in 1 .. Len(chain) :
                  h <= Final => h \in 1 .. Len(chain') /\ chain'[h] = chain[h]
<1>1. Len(chain) \in Nat /\ Confirmations \in Nat /\ Confirmations >= 1
  BY LengthOfSeq, BtcMonitorAssumption DEF ChainInv
<1>2. CASE Mine
  <2>1. /\ Extend(Len(chain), 1) /\ Len(chain) \in 0 .. Len(chain)
        /\ Len(chain) >= Final /\ Len(chain) + 1 >= Len(chain)
    BY <1>1, <1>2 DEF Mine, Final
  <2> QED
    BY <2>1, ExtendKeepsFinal
<1>3. CASE Reorganize
  <2>1. PICK depth \in 1 .. Len(chain) :
            depth < Confirmations /\ Extend(Len(chain) - depth, depth)
    BY <1>3 DEF Reorganize
  <2>2. /\ Len(chain) - depth \in 0 .. Len(chain) /\ depth \in Nat
        /\ Len(chain) - depth >= Final
        /\ Len(chain) - depth + depth >= Len(chain)
    BY <1>1, <2>1 DEF Final
  <2> QED
    BY <2>1, <2>2, ExtendKeepsFinal
<1> QED
  BY <1>2, <1>3


\* What final blocks pay for is not taken back.
FinalOutputs == UNION {Outputs(b) : b \in FinalBlocks}

\* Final heights are heights of the chain, and what their blocks pay is final.
LEMMA FinalTypes ==
    ASSUME ChainInv
    PROVE  /\ Len(chain) \in Nat /\ Final \in Int /\ Final <= Len(chain)
           /\ \A h \in 1 .. Final :
                  h \in 1 .. Len(chain) /\ Outputs(chain[h]) \subseteq FinalOutputs
<1>1. Len(chain) \in Nat /\ Confirmations \in Nat /\ Confirmations >= 1
  BY LengthOfSeq, BtcMonitorAssumption DEF ChainInv
<1>2. Final \in Int /\ Final <= Len(chain)
  BY <1>1 DEF Final
<1>3. ASSUME NEW h \in 1 .. Final
      PROVE  h \in 1 .. Len(chain) /\ Outputs(chain[h]) \subseteq FinalOutputs
  <2>1. h \in 1 .. Len(chain)
    BY <1>1, <1>2
  <2>2. chain[h] \in FinalBlocks
    BY DEF FinalBlocks, Final
  <2> QED
    BY <2>1, <2>2 DEF FinalOutputs
<1> QED
  BY <1>1, <1>2, <1>3

\* Neither a new block nor a branch takes back what is final.
LEMMA FinalOutputsStay ==
    ASSUME ChainInv, Mine \/ Reorganize
    PROVE  FinalOutputs \subseteq FinalOutputs' /\ Final' \in Int /\ Final <= Final'
<1>1. /\ ChainInv' /\ Len(chain') >= Len(chain) /\ Len(chain) \in Nat
      /\ \A h \in 1 .. Len(chain) :
             h <= Final => h \in 1 .. Len(chain') /\ chain'[h] = chain[h]
  BY ChainSteps
<1>2. Final \in Int /\ Final <= Len(chain)
  BY FinalTypes
<1>3. Len(chain') \in Nat /\ Final' \in Int /\ Final <= Final'
  <2>1. Len(chain') \in Nat
    BY <1>1, LengthOfSeq DEF ChainInv
  <2> QED
    BY <1>1, <2>1, BtcMonitorAssumption DEF Final
<1>4. FinalBlocks \subseteq FinalBlocks'
  <2>1. ASSUME NEW h \in 1 .. Final
        PROVE  chain[h] \in FinalBlocks'
    <3>1. h \in 1 .. Len(chain) /\ h <= Final /\ h \in 1 .. Final'
      BY <1>1, <1>2, <1>3
    <3>2. chain'[h] = chain[h]
      BY <1>1, <3>1
    <3> QED
      BY <3>1, <3>2 DEF FinalBlocks, Final
  <2> QED
    BY <2>1 DEF FinalBlocks, Final
<1> QED
  BY <1>3, <1>4 DEF FinalOutputs, Outputs


-----------------------------------------------------------------------------
(* One lemma for each kind of step *)

\* A new block or a branch leaves the final blocks to the monitor as they were.
LEMMA ChainKeepsInv ==
    ASSUME BtcInv, Mine \/ Reorganize
    PROVE  BtcInv'
<1>1. UNCHANGED <<posted, monitor, processed, addresses, found, blind>>
  BY DEF Mine, Reorganize, Extend, transmitVars, clientVars, monitorVars,
         btcHistory
<1>2. Reported' = Reported
  BY <1>1 DEF Reported
<1>3. /\ ChainInv /\ ChainInv' /\ Final \in Int /\ Final' \in Int
      /\ Final <= Final' /\ FinalOutputs \subseteq FinalOutputs'
  BY ChainSteps, FinalTypes, FinalOutputsStay DEF BtcInv
<1>4. ASSUME NEW h \in 1 .. Final
      PROVE  chain'[h] = chain[h]
  BY <1>3, FinalTypes, ChainSteps
<1>5. ProgressInv'
  BY <1>1, <1>3 DEF BtcInv, ProgressInv
<1>6. UsersKnown'
  <2>1. monitor = "block" => processed + 1 \in 1 .. Final
    BY <1>3 DEF BtcInv, ProgressInv
  <2> QED
    BY <1>1, <1>4, <2>1 DEF BtcInv, UsersKnown
<1>7. ReportedIsFinal'
  BY <1>1, <1>2, <1>3 DEF BtcInv, ReportedIsFinal, FinalOutputs
<1>8. NoneOverlooked'
  <2>1. ASSUME NEW h \in 1 .. processed
        PROVE  chain'[h] = chain[h]
    <3>1. h \in 1 .. Final
      BY <1>3 DEF BtcInv, ProgressInv
    <3> QED
      BY <1>4, <3>1
  <2> QED
    BY <1>1, <1>2, <2>1 DEF BtcInv, NoneOverlooked, Outputs
<1>9. IsSeq(posted)'
  BY <1>1 DEF BtcInv, IsSeq
<1> QED
  BY <1>3, <1>5, <1>6, <1>7, <1>8, <1>9 DEF BtcInv

\* The node only adds to the users it ever had.
LEMMA NodeKeepsInv ==
    ASSUME BtcInv,
           UNCHANGED <<posted, chain, mined, monitor, processed, addresses,
                       found, blind>>,
           assigned' \in Nat, assigned' >= assigned
    PROVE  BtcInv'
<1>1. ChainInv'
  <2>1. 1 .. assigned \subseteq 1 .. assigned'
    BY DEF BtcInv, ChainInv
  <2> QED
    BY <2>1 DEF BtcInv, ChainInv, IsSeq
<1>2. ProgressInv' /\ UsersKnown' /\ IsSeq(posted)'
  BY DEF BtcInv, ProgressInv, UsersKnown, Final, IsSeq
<1>3. ReportedIsFinal' /\ NoneOverlooked'
  BY DEF BtcInv, ReportedIsFinal, NoneOverlooked, Reported, FinalBlocks,
         Outputs
<1> QED
  BY <1>1, <1>2, <1>3 DEF BtcInv

\* The threads of the node, its failures and its start post nothing.
LEMMA NodeStepsKeepInv ==
    ASSUME BtcInv,
           SenderWorks \/ ReaderWorks \/ NodeFails \/ NodeStarts
               \/ UNCHANGED btcVars
    PROVE  BtcInv'
<1>1. posted' = posted
  BY DEF SenderWorks, Transmitter, Take, Verify, Send, ReaderWorks, Reader,
         Fetch, Apply, Trim, NodeFails, Crash, EndSender, EndReader, NodeStarts,
         Start, btcVars, transmitVars, clientVars
<1>2. UNCHANGED <<chain, mined, monitor, processed, addresses, found, blind>>
  BY DEF SenderWorks, ReaderWorks, NodeFails, NodeStarts, btcVars, chainVars,
         monitorVars, btcHistory
<1>3. assigned \in Nat /\ IsSeq(posted)
  BY DEF BtcInv, ChainInv
<1>4. assigned' \in Nat /\ assigned' >= assigned
  <2>1. CASE ReaderWorks
    <3>1. IsSeq(posted)'
      BY <1>1, <1>3 DEF IsSeq
    <3>2. LastUserId' \in Nat
      BY <3>1, UserIdIsNumberNext
    <3>3. assigned' = Max({assigned, LastUserId'})
      BY <2>1 DEF ReaderWorks
    <3> QED
      BY <1>3, <3>2, <3>3, LargerOfTwo
  <2>2. CASE ~ ReaderWorks
    BY <1>3, <2>2 DEF SenderWorks, NodeFails, NodeStarts, btcVars, btcHistory
  <2> QED
    BY <2>1, <2>2
<1> QED
  BY <1>1, <1>2, <1>4, NodeKeepsInv

\* A registration is posted, and reports nothing.
LEMMA RegisterKeepsInv ==
    ASSUME BtcInv, Register
    PROVE  BtcInv'
<1>1. UNCHANGED <<chain, mined, monitor, processed, addresses, found, blind,
                  assigned>>
  BY DEF Register, chainVars, monitorVars, btcHistory
<1>2. IsSeq(posted) /\ Post(<<RegisterTx>>) /\ RegisterTx.kind # "deposit"
  BY DEF BtcInv, Register, RegisterTx
<1>3. IsSeq(posted)' /\ Reported' = Reported
  BY <1>2, PostAdds DEF IsSeq
<1>4. ChainInv' /\ ProgressInv' /\ UsersKnown'
  BY <1>1 DEF BtcInv, ChainInv, ProgressInv, UsersKnown, Final, IsSeq
<1>5. ReportedIsFinal' /\ NoneOverlooked'
  BY <1>1, <1>3 DEF BtcInv, ReportedIsFinal, NoneOverlooked, FinalBlocks,
                    Outputs
<1> QED
  BY <1>3, <1>4, <1>5 DEF BtcInv


\* Asking for the count and for the users, and a request that fails.
LEMMA AskKeepsInv ==
    ASSUME BtcInv, AskCount \/ AskUsers \/ BlockFails
    PROVE  BtcInv'
<1>1. UNCHANGED <<posted, chain, mined, processed, found, assigned>>
  BY DEF AskCount, AskUsers, BlockFails, transmitVars, clientVars, chainVars,
         btcHistory
<1>2. Reported' = Reported /\ FinalBlocks' = FinalBlocks /\ Final' = Final
  BY <1>1 DEF Reported, FinalBlocks, Final
<1>3. IsSeq(posted)' /\ ChainInv' /\ ReportedIsFinal'
  BY <1>1, <1>2 DEF BtcInv, ChainInv, ReportedIsFinal, IsSeq, Outputs
<1>4. blind \subseteq blind' /\ monitor # "ended" /\ found = {}
  BY DEF BtcInv, ProgressInv, AskCount, AskUsers, BlockFails, btcHistory
<1>5. NoneOverlooked'
  BY <1>1, <1>2, <1>4 DEF BtcInv, NoneOverlooked, Outputs
<1>6. CASE AskCount
  <2>1. processed < Final
    BY <1>6 DEF AskCount, Confirmed, Final
  <2>2. monitor' = "users" /\ addresses' = addresses /\ monitor = "count"
    BY <1>6 DEF AskCount
  <2>3. ProgressInv' /\ UsersKnown'
    BY <1>1, <1>2, <1>4, <2>1, <2>2 DEF BtcInv, ProgressInv, UsersKnown
  <2> QED
    BY <1>3, <1>5, <2>3 DEF BtcInv
<1>7. CASE AskUsers
  <2>1. /\ monitor = "users" /\ monitor' = "block"
        /\ addresses' = Max({addresses, LastUserId})
        /\ blind' = IF LastUserId < assigned THEN blind \cup {processed + 1}
                    ELSE blind
    BY <1>7 DEF AskUsers, Learned
  <2>2. LastUserId \in Nat /\ addresses \in Nat /\ assigned \in Nat
    BY UserIdIsNumber DEF BtcInv, ProgressInv, ChainInv
  <2>3. /\ addresses' \in Nat /\ addresses' >= addresses
        /\ addresses' >= LastUserId
    BY <2>1, <2>2, LargerOfTwo
  <2>4. ProgressInv'
    BY <1>1, <1>2, <1>4, <2>1, <2>3 DEF BtcInv, ProgressInv
  <2>5. UsersKnown'
    <3>1. processed + 1 \in 1 .. Len(chain)
      BY <2>1, FinalTypes DEF BtcInv, ProgressInv
    <3>2. chain[processed + 1].pays \subseteq 1 .. assigned
      BY <3>1 DEF BtcInv, ChainInv
    <3>3. processed + 1 \notin blind' => addresses' >= assigned
      BY <2>1, <2>2, <2>3
    <3>4. addresses' >= assigned => 1 .. assigned \subseteq 1 .. addresses'
      BY <2>2, <2>3
    <3> QED
      BY <1>1, <3>2, <3>3, <3>4 DEF UsersKnown
  <2> QED
    BY <1>3, <1>5, <2>4, <2>5 DEF BtcInv
<1>8. CASE BlockFails
  <2>1. monitor' = "count" /\ addresses' = addresses
    BY <1>8 DEF BlockFails
  <2>2. ProgressInv' /\ UsersKnown'
    BY <1>1, <1>2, <1>4, <2>1 DEF BtcInv, ProgressInv, UsersKnown
  <2> QED
    BY <1>3, <1>5, <2>2 DEF BtcInv
<1> QED
  BY <1>6, <1>7, <1>8

\* The block that is scanned is final, and pays to users the monitor knows.
LEMMA ScanKeepsInv ==
    ASSUME BtcInv, ScanBlock
    PROVE  BtcInv'
<1> DEFINE block == chain[processed + 1]
<1>1. /\ UNCHANGED <<posted, chain, mined, addresses, assigned, blind>>
      /\ monitor = "block" /\ processed' = processed + 1
      /\ found' = {o \in Outputs(block) : o[2] <= addresses}
      /\ monitor' = IF found' = {} THEN "count" ELSE "post"
  BY DEF ScanBlock, transmitVars, clientVars, chainVars, btcHistory
<1>2. Reported' = Reported /\ FinalBlocks' = FinalBlocks /\ Final' = Final
  BY <1>1 DEF Reported, FinalBlocks, Final
<1>3. /\ processed \in Nat /\ processed < Final /\ Final \in Int /\ found = {}
      /\ Outputs(block) \subseteq FinalOutputs
  BY <1>1, FinalTypes DEF BtcInv, ProgressInv
<1>4. IsSeq(posted)' /\ ChainInv'
  BY <1>1 DEF BtcInv, ChainInv, IsSeq
<1>5. ProgressInv' /\ UsersKnown'
  BY <1>1, <1>2, <1>3 DEF BtcInv, ProgressInv, UsersKnown
<1>6. ReportedIsFinal'
  <2>1. found' \subseteq FinalOutputs /\ Reported \subseteq FinalOutputs
    BY <1>1, <1>3 DEF BtcInv, ReportedIsFinal, FinalOutputs
  <2> QED
    BY <1>2, <2>1 DEF ReportedIsFinal, FinalOutputs, Outputs
<1>7. processed + 1 \notin blind => Outputs(block) \subseteq found'
  <2> SUFFICES ASSUME processed + 1 \notin blind, NEW o \in Outputs(block)
               PROVE  o[2] <= addresses
    BY <1>1
  <2>1. o[2] \in block.pays
    BY DEF Outputs
  <2>2. block.pays \subseteq 1 .. addresses
    BY <1>1 DEF BtcInv, UsersKnown
  <2> QED
    BY <2>1, <2>2 DEF BtcInv, ProgressInv
<1>8. NoneOverlooked'
  <2>1. ASSUME NEW h \in 1 .. processed + 1, h \notin blind
        PROVE  Outputs(chain[h]) \subseteq Reported \cup found'
    <3>1. CASE h = processed + 1
      BY <1>7, <2>1, <3>1
    <3>2. CASE h # processed + 1
      <4>1. h \in 1 .. processed
        BY <1>3, <3>2
      <4> QED
        BY <1>1, <1>3, <2>1, <4>1 DEF BtcInv, NoneOverlooked
    <3> QED
      BY <3>1, <3>2
  <2> QED
    BY <1>1, <1>2, <2>1 DEF NoneOverlooked, Outputs
<1> QED
  BY <1>4, <1>5, <1>6, <1>8 DEF BtcInv

\* What was found is posted, so that it is reported and no longer in hand.
LEMMA PostKeepsInv ==
    ASSUME BtcInv, PostDeposits
    PROVE  BtcInv'
<1>1. /\ UNCHANGED <<chain, mined, processed, addresses, blind, assigned>>
      /\ monitor = "post" /\ monitor' = "count" /\ found' = {}
  BY DEF PostDeposits, chainVars, btcHistory
<1>2. /\ IsSeq(posted) /\ Post(<<DepositTx(found)>>)
      /\ DepositTx(found).kind = "deposit" /\ DepositTx(found).outputs = found
  BY DEF BtcInv, PostDeposits, DepositTx
<1>3. IsSeq(posted)' /\ Reported' = Reported \cup found
  BY <1>2, PostAdds DEF IsSeq
<1>4. ChainInv' /\ ProgressInv' /\ UsersKnown'
  BY <1>1 DEF BtcInv, ChainInv, ProgressInv, UsersKnown, Final, IsSeq
<1>5. ReportedIsFinal' /\ NoneOverlooked'
  BY <1>1, <1>3 DEF BtcInv, ReportedIsFinal, NoneOverlooked, FinalBlocks,
                    Outputs
<1> QED
  BY <1>3, <1>4, <1>5 DEF BtcInv

\* The end of the monitor and its next start.
LEMMA LifeKeepsInv ==
    ASSUME BtcInv, EndMonitor \/ StartMonitor
    PROVE  BtcInv'
<1>1. /\ UNCHANGED <<posted, chain, mined, assigned>>
      /\ found' = {}
      /\ addresses' \in Nat /\ processed' \in Nat
      /\ \/ monitor' = "ended" /\ processed' = processed
         \/ monitor' = "count" /\ processed' = 0
  BY DEF EndMonitor, StartMonitor, transmitVars, clientVars, chainVars,
         btcHistory, BtcInv, ProgressInv
<1>2. Reported' = Reported /\ FinalBlocks' = FinalBlocks /\ Final' = Final
  BY <1>1 DEF Reported, FinalBlocks, Final
<1>3. IsSeq(posted)' /\ ChainInv'
  BY <1>1 DEF BtcInv, ChainInv, IsSeq
<1>4. ProgressInv' /\ UsersKnown'
  BY <1>1, <1>2 DEF BtcInv, ProgressInv, UsersKnown
<1>5. ReportedIsFinal' /\ NoneOverlooked'
  BY <1>1, <1>2 DEF BtcInv, ReportedIsFinal, NoneOverlooked, Outputs
<1> QED
  BY <1>3, <1>4, <1>5 DEF BtcInv

-----------------------------------------------------------------------------
\* Nothing has been mined, found or reported.
LEMMA BtcInvStart ==
    ASSUME BtcInit
    PROVE  BtcInv
<1>1. /\ posted = <<>> /\ chain = <<>> /\ mined = 0 /\ monitor = "count"
      /\ processed = 0 /\ addresses = 0 /\ found = {} /\ assigned = 0
  BY DEF BtcInit, TransmitInit
<1>2. IsSeq(posted) /\ IsSeq(chain) /\ Len(chain) = 0
  BY <1>1, EmptyIsSeq
<1>3. Reported = {}
  BY <1>1 DEF Reported
<1>4. ChainInv /\ ProgressInv /\ UsersKnown
  BY <1>1, <1>2 DEF ChainInv, ProgressInv, UsersKnown
<1>5. ReportedIsFinal /\ NoneOverlooked
  BY <1>1, <1>3 DEF ReportedIsFinal, NoneOverlooked
<1> QED
  BY <1>2, <1>4, <1>5 DEF BtcInv

\* Every step keeps the invariant,
LEMMA BtcInvStep ==
    ASSUME BtcInv, [BtcNext]_btcVars
    PROVE  BtcInv'
  BY RegisterKeepsInv, ChainKeepsInv, AskKeepsInv, ScanKeepsInv, PostKeepsInv,
     LifeKeepsInv, NodeStepsKeepInv
  DEF BtcNext, Monitor

\* which therefore holds in every state.
LEMMA BtcInvariance == BtcSpec => []BtcInv
<1>1. BtcInit => BtcInv
  BY BtcInvStart
<1>2. BtcInv /\ [BtcNext]_btcVars => BtcInv'
  BY BtcInvStep
<1> QED
  BY <1>1, <1>2, PTL DEF BtcSpec

\* What is reported stays in the chain, however many confirmations the monitor
\* waits for, and as long as no reorganization is deeper.
THEOREM ReportedIsFinalHolds == BtcSpec => []ReportedIsFinal
<1>1. BtcInv => ReportedIsFinal
  BY DEF BtcInv
<1> QED
  BY <1>1, BtcInvariance, PTL

\* A monitor passes over no output, however many users register between its
\* requests, unless the node has told it of fewer users than it once had.
THEOREM NoneOverlookedHolds == BtcSpec => []NoneOverlooked
<1>1. BtcInv => NoneOverlooked
  BY DEF BtcInv
<1> QED
  BY <1>1, BtcInvariance, PTL
=============================================================================
