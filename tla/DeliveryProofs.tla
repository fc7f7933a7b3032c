---------------------------- MODULE DeliveryProofs ----------------------------
(***************************************************************************)
(* What Delivery.tla promises, proved for any clients, symbols and         *)
(* channels, and any number of tasks and requests.                         *)
(*                                                                         *)
(* Four invariants, each proved from the ones before it: the values of the *)
(* variables (Values) and who has the thread (Control); what the two       *)
(* threads leave behind them in the manager (Manager); what a task still   *)
(* has before it (Before), from which OthersServed and EndedForgotten      *)
(* follow; and the order of what the clients got (Order).                  *)
(***************************************************************************)
EXTENDS Delivery, SumProofs, SequenceTheorems

-----------------------------------------------------------------------------
(* Values and control *)

Entry == [channel : Channels, set : Nat]

Removal ==
    [stage : {"none"}]
        \cup [stage : {"look", "drop"}, client : Clients, at : Nat,
              seen : SUBSET Nat, size : Nat]

Task ==
    [symbol : Symbols, details : {"kline", "depth"},
     status : {"new", "run", "wait", "done", "dead"},
     left : Seq(Entry), channel : Channels \cup {<<>>},
     todo : SUBSET Clients, to : SUBSET Clients,
     owed : SUBSET (Clients \X Channels), gone : SUBSET Clients]

Message == Nat \X (Channels \cup {<<>>})

Values ==
    /\ conn \in [Clients -> {"none", "open", "ended"}]
    /\ active \subseteq Clients
    /\ subscriptions \in Seq(Entry) /\ members \in Seq(SUBSET Clients)
    /\ removal \in [Threads -> Removal]
    /\ loop \in {"batch", "pass"}
    /\ tasks \in Seq(Task) /\ running \in Nat
    /\ received \in [Clients -> Seq(Message)]
    /\ waited \subseteq Nat /\ failed \subseteq Clients

\* A set is named by its number in members, which only grows.
Sets == DOMAIN members

SetsKnown ==
    /\ \A i \in DOMAIN subscriptions : subscriptions[i].set \in Sets
    /\ \A th \in Threads : removal[th].stage = "drop" =>
           removal[th].at \in {0} \cup Sets
    /\ \A t \in DOMAIN tasks : \A j \in DOMAIN tasks[t].left :
           tasks[t].left[j].set \in Sets

\* Who has the process thread.
ThreadTaken ==
    /\ running \in {0} \cup DOMAIN tasks
    /\ loop = "batch" => running = 0
    /\ running = 0 => ProcessFree
    /\ \A t \in DOMAIN tasks :
          /\ tasks[t].status = "run" <=> running = t
          /\ tasks[t].status = "wait" <=> tasks[t].to # {}

Control == SetsKnown /\ ThreadTaken

-----------------------------------------------------------------------------
(* The manager *)

\* A channel has one entry of the dict, and a set one channel.
OneEntryEach ==
    \A i, j \in DOMAIN subscriptions :
        \/ subscriptions[i].channel = subscriptions[j].channel
        \/ subscriptions[i].set = subscriptions[j].set
        => i = j

\* Who is in a set, or has been copied out of one, has connected; and who has
\* not left is there to be sent to, unless a send to it has failed.
Known ==
    /\ \A k \in Sets : \A c \in members[k] : conn[c] # "none"
    /\ \A t \in DOMAIN tasks : \A c \in tasks[t].todo \cup tasks[t].to :
           conn[c] # "none"
    /\ \A c \in Clients : conn[c] = "open" => c \in active \cup failed

\* Nobody is removed who has not left or failed.
LeftOrFailed(c) == conn[c] = "ended" \/ (conn[c] = "open" /\ c \in failed)

Removing(th) ==
    removal[th].stage # "none" => LeftOrFailed(removal[th].client)

Manager == OneEntryEach /\ Known /\ \A th \in Threads : Removing(th)

-----------------------------------------------------------------------------
(* What a task has before it *)

Begun(t) == tasks[t].status \in {"run", "wait"}

\* The copy of the dict: each channel once, not the one it is at, and a set
\* that is still in the dict is there under the same channel.
Copied(t) ==
    /\ \A j \in DOMAIN tasks[t].left :
          /\ tasks[t].left[j].channel # tasks[t].channel
          /\ \A k \in DOMAIN tasks[t].left :
                tasks[t].left[j].channel = tasks[t].left[k].channel => j = k
          /\ \A i \in DOMAIN subscriptions :
                tasks[t].left[j].set = subscriptions[i].set =>
                    tasks[t].left[j].channel = subscriptions[i].channel
    /\ \A c, d \in tasks[t].to : c = d
    /\ tasks[t].todo \cap tasks[t].to = {}

\* A client that is owed an event has got it, or has failed, or has still to
\* be come to.
Comes(t, p) ==
    \/ \E j \in DOMAIN tasks[t].left :
          /\ Wanted(t, tasks[t].left[j])
          /\ tasks[t].left[j].channel = p[2]
          /\ p[1] \in members[tasks[t].left[j].set]
    \/ /\ tasks[t].channel = p[2]
       /\ p[1] \in tasks[t].todo \cup tasks[t].to

OwedCome(t) ==
    \A p \in tasks[t].owed :
        /\ conn[p[1]] = "open"
        /\ <<t, p[2]>> \in ToSet(received[p[1]]) \/ p[1] \in failed \/ Comes(t, p)

\* A connection that had ended when the task began and is still in a channel
\* of the task has still to be come to, or is being removed; a set in which
\* the removal has seen it no more stays without it.
IsRemoving(t, c) ==
    /\ running = t /\ removal["process"].stage # "none"
    /\ removal["process"].client = c

MeetsGone(t, c, i) ==
    \/ \E j \in DOMAIN tasks[t].left :
          tasks[t].left[j].set = subscriptions[i].set
    \/ tasks[t].channel = subscriptions[i].channel /\ c \in tasks[t].todo
    \/ IsRemoving(t, c)

GoneMet(t) ==
    \A c \in tasks[t].gone :
        /\ conn[c] = "ended"
        /\ \A i \in DOMAIN subscriptions :
              Wanted(t, subscriptions[i]) /\ c \in members[subscriptions[i].set] =>
                  MeetsGone(t, c, i)
        /\ IsRemoving(t, c) =>
              \A k \in removal["process"].seen \cap Sets : c \notin members[k]

Fresh(t) == tasks[t].channel = <<>> /\ tasks[t].todo = {}

AllBefore(t) ==
    /\ tasks[t].status = "new" => Fresh(t)
    /\ Begun(t) => Copied(t) /\ OwedCome(t) /\ GoneMet(t)

Before == \A t \in DOMAIN tasks : AllBefore(t)

-----------------------------------------------------------------------------
(* The order of what the clients got *)

\* Tasks begin in the order they were made, and one that has not waited since
\* is the last that has begun.
InTurn ==
    \A t \in DOMAIN tasks :
        /\ tasks[t].status = "new" \/ (running = t /\ t \notin waited) =>
               \A u \in DOMAIN tasks : u > t => tasks[u].status = "new"
        /\ tasks[t].status = "wait" => t \in waited

\* What a client has got of a task is not what it has still to get of it.
GotOnce(c, m) ==
    /\ m[1] \in DOMAIN tasks
    /\ tasks[m[1]].status # "new"
    /\ Begun(m[1]) =>
          /\ \A j \in DOMAIN tasks[m[1]].left : tasks[m[1]].left[j].channel # m[2]
          /\ m[2] = tasks[m[1]].channel =>
                 c \notin tasks[m[1]].todo \cup tasks[m[1]].to

Order ==
    /\ InTurn
    /\ \A c \in Clients : \A n \in DOMAIN received[c] : GotOnce(c, received[c][n])
    /\ LateOnlyIfWaited

-----------------------------------------------------------------------------
(* Sequences and records *)

\* The least of some naturals is one of them.
LEMMA MinIn ==
    ASSUME NEW S, S \subseteq Nat, S # {}
    PROVE  Min(S) \in S /\ \A m \in S : Min(S) <= m
<1>1. PICK n \in S : \A m \in S : n <= m
  BY LeastExists
<1> QED
  BY <1>1 DEF Min

\* A sequence with one element changed.
LEMMA SeqExcept ==
    ASSUME NEW S, NEW s \in Seq(S), NEW i \in DOMAIN s, NEW e \in S
    PROVE  LET z == [s EXCEPT ![i] = e]
           IN  /\ z \in Seq(S) /\ DOMAIN z = DOMAIN s /\ Len(z) = Len(s)
               /\ z[i] = e /\ \A j \in DOMAIN s : j # i => z[j] = s[j]
  BY ExceptSeq

\* A sequence with one element more.
LEMMA SeqAppend ==
    ASSUME NEW S, NEW s \in Seq(S), NEW e \in S
    PROVE  LET z == Append(s, e)
           IN  /\ z \in Seq(S) /\ Len(z) = Len(s) + 1
               /\ DOMAIN z = DOMAIN s \cup {Len(s) + 1}
               /\ Len(s) + 1 \notin DOMAIN s
               /\ z[Len(s) + 1] = e /\ \A j \in DOMAIN s : z[j] = s[j]
  OBVIOUS

\* A sequence with one element less: the others keep their order.
LEMMA SeqRemove ==
    ASSUME NEW S, NEW s \in Seq(S), NEW i \in DOMAIN s
    PROVE  LET z == RemoveAt(s, i)
           IN  /\ z \in Seq(S) /\ Len(z) = Len(s) - 1
               /\ \A j \in DOMAIN z :
                     z[j] = IF j < i THEN s[j] ELSE s[j + 1]
<1> DEFINE a == SubSeq(s, 1, i - 1)
           b == SubSeq(s, i + 1, Len(s))
<1>1. PICK n \in Nat : n = Len(s) /\ i \in 1 .. n
  OBVIOUS
<1>2. /\ a \in Seq(S) /\ Len(a) = i - 1
      /\ \A j \in 1 .. i - 1 : a[j] = s[j]
  BY <1>1
<1>3. /\ b \in Seq(S) /\ Len(b) = n - i
      /\ \A j \in 1 .. n - i : b[j] = s[i + j]
  <2>1. b = SubSeq(s, i + 1, n)
    BY <1>1
  <2>2. i + 1 \in Int /\ n \in Int /\ \A j \in i + 1 .. n : s[j] \in S
    BY <1>1
  <2> HIDE DEF a, b
  <2>3. /\ b \in Seq(S)
        /\ Len(b) = IF i + 1 <= n THEN n - (i + 1) + 1 ELSE 0
        /\ \A j \in 1 .. n - (i + 1) + 1 : b[j] = s[(i + 1) + j - 1]
    BY <2>1, <2>2, SubSeqProperties
  <2>4. /\ n - (i + 1) + 1 = n - i
        /\ (IF i + 1 <= n THEN n - (i + 1) + 1 ELSE 0) = n - i
        /\ \A j \in 1 .. n - i : (i + 1) + j - 1 = i + j
    BY <1>1
  <2> QED
    BY <2>3, <2>4
<1> HIDE DEF a, b
<1>4. /\ a \o b \in Seq(S) /\ Len(a \o b) = n - 1
      /\ \A j \in 1 .. n - 1 :
            (a \o b)[j] = IF j <= i - 1 THEN a[j] ELSE b[j - (i - 1)]
  <2>1. /\ a \o b \in Seq(S) /\ Len(a \o b) = (i - 1) + (n - i)
        /\ \A j \in 1 .. ((i - 1) + (n - i)) :
              (a \o b)[j] = IF j <= i - 1 THEN a[j] ELSE b[j - (i - 1)]
    <3>1. a \in Seq(S) /\ b \in Seq(S)
      BY <1>2, <1>3
    <3>2. /\ a \o b \in Seq(S) /\ Len(a \o b) = Len(a) + Len(b)
          /\ \A j \in 1 .. (Len(a) + Len(b)) :
                (a \o b)[j] = IF j <= Len(a) THEN a[j] ELSE b[j - Len(a)]
      BY <3>1, ConcatProperties
    <3>3. Len(a) = i - 1 /\ Len(b) = n - i
      BY <1>2, <1>3
    <3> QED
      BY <3>2, <3>3
  <2>2. (i - 1) + (n - i) = n - 1
    BY <1>1
  <2> QED
    BY <2>1, <2>2
<1>5. RemoveAt(s, i) = a \o b
  BY DEF RemoveAt, a, b
<1>6. ASSUME NEW j \in 1 .. n - 1
      PROVE  (a \o b)[j] = IF j < i THEN s[j] ELSE s[j + 1]
  <2>1. CASE j < i
    BY <1>1, <1>2, <1>4, <2>1
  <2>2. CASE ~ (j < i)
    <3>1. j - (i - 1) \in 1 .. n - i /\ i + (j - (i - 1)) = j + 1
      BY <1>1, <2>2
    <3>2. (a \o b)[j] = b[j - (i - 1)]
      BY <1>1, <1>4, <2>2
    <3> QED
      BY <1>3, <2>2, <3>1, <3>2
  <2> QED
    BY <2>1, <2>2
<1>7. DOMAIN (a \o b) = 1 .. n - 1
  BY <1>4
<1> QED
  BY <1>1, <1>4, <1>5, <1>6, <1>7

\* A task with one entry of the list changed.
LEMMA TaskFields ==
    ASSUME NEW r \in Task
    PROVE  /\ r.symbol \in Symbols /\ r.details \in {"kline", "depth"}
           /\ r.status \in {"new", "run", "wait", "done", "dead"}
           /\ r.left \in Seq(Entry) /\ r.channel \in Channels \cup {<<>>}
           /\ r.todo \subseteq Clients /\ r.to \subseteq Clients
           /\ r.owed \subseteq Clients \X Channels /\ r.gone \subseteq Clients
  BY DEF Task

\* A task that is over keeps its type.
LEMMA OverIsTask ==
    ASSUME NEW r \in Task, NEW how \in {"done", "dead"}
    PROVE  Over(r, how) \in Task
<1>1. PICK e : e = <<>> /\ e \in Seq(Entry) /\ e \in Channels \cup {<<>>}
  <2>1. <<>> \in Seq(Entry)
    OBVIOUS
  <2>2. <<>> \in Channels \cup {<<>>}
    OBVIOUS
  <2> QED
    BY <2>1, <2>2, Zenon
<1>2. Over(r, how) = [r EXCEPT !.status = how, !.left = e, !.channel = e,
                               !.todo = {}, !.owed = {}, !.gone = {}]
  BY <1>1 DEF Over
<1>3. \A S : {} \in SUBSET S
  OBVIOUS
<1> QED
  BY <1>1, <1>2, <1>3 DEF Task

-----------------------------------------------------------------------------
(* Every step keeps the values. *)

Inv1 == Values /\ Control

\* One task becomes r.
Becomes(t, r) == tasks' = [tasks EXCEPT ![t] = r]

\* A step of one task changes that task alone.
LEMMA TaskBecomes ==
    ASSUME Values, NEW t \in DOMAIN tasks, NEW r \in Task, Becomes(t, r)
    PROVE  /\ tasks' \in Seq(Task) /\ DOMAIN tasks' = DOMAIN tasks
           /\ tasks'[t] = r /\ \A u \in DOMAIN tasks : u # t => tasks'[u] = tasks[u]
  BY SeqExcept DEF Values, Becomes

\* What an unsubscription or an end leaves of every task.
LEMMA NotOwedTasks ==
    ASSUME Values, NEW P, NotOwed(P)
    PROVE  /\ tasks' \in Seq(Task) /\ DOMAIN tasks' = DOMAIN tasks
           /\ \A t \in DOMAIN tasks : tasks'[t] = [tasks[t] EXCEPT !.owed = @ \ P]
<1>1. ASSUME NEW r \in Task
      PROVE  [r EXCEPT !.owed = @ \ P] \in Task
  BY DEF Task
<1>2. \A t \in DOMAIN tasks : tasks[t] \in Task
  BY DEF Values
<1>3. \A t \in DOMAIN tasks : [tasks[t] EXCEPT !.owed = @ \ P] \in Task
  BY <1>1, <1>2
<1>4. PICK n \in Nat : n = Len(tasks) /\ DOMAIN tasks = 1 .. n
  BY DEF Values
<1>5. tasks' = [t \in 1 .. n |-> [tasks[t] EXCEPT !.owed = @ \ P]]
  BY <1>4 DEF NotOwed
<1>6. tasks' \in Seq(Task)
  BY <1>3, <1>4, <1>5
<1> QED
  BY <1>4, <1>5, <1>6

\* The stages of a removal are values of their type.
LEMMA RemovalTypes ==
    ASSUME Values
    PROVE  /\ NoRemoval \in Removal
           /\ \A c \in Clients : Begin(c) \in Removal
           /\ \A th \in Threads : removal[th] \in Removal
           /\ \A th \in Threads, k \in Nat :
                 removal[th].stage # "none" =>
                    /\ [removal[th] EXCEPT !.stage = "drop", !.at = k] \in Removal
                    /\ Seen(removal[th], k) \in Removal
<1>1. NoRemoval \in Removal
  BY DEF NoRemoval, Removal
<1>2. \A c \in Clients : Begin(c) \in Removal
  BY DEF Begin, Removal
<1>3. \A th \in Threads : removal[th] \in Removal
  BY DEF Values
<1>4. ASSUME NEW th \in Threads, NEW k \in Nat, removal[th].stage # "none"
      PROVE  /\ [removal[th] EXCEPT !.stage = "drop", !.at = k] \in Removal
             /\ Seen(removal[th], k) \in Removal
  <2>1. PICK r \in [stage : {"look", "drop"}, client : Clients, at : Nat,
              seen : SUBSET Nat, size : Nat] : r = removal[th]
    BY <1>3, <1>4 DEF Removal
  <2>2. [r EXCEPT !.stage = "drop", !.at = k] \in Removal
    BY DEF Removal
  <2>3. Len(subscriptions) \in Nat
    BY DEF Values
  <2>4. Seen(r, k) \in Removal
    BY <2>3 DEF Removal, Seen
  <2> QED
    BY <2>1, <2>2, <2>4
<1> QED
  BY <1>1, <1>2, <1>3, <1>4

\* The exception of a removal ends a task at most.
LEMMA RaisedTypes ==
    ASSUME Inv1, NEW th \in Threads, removal[th].stage # "none", RaisedIn(th)
    PROVE  tasks' \in Seq(Task) /\ running' \in Nat
<1>1. CASE UNCHANGED <<tasks, running>>
  BY <1>1 DEF Inv1, Values
<1>2. CASE th = "process"
  <2>1. running \in DOMAIN tasks
    BY <1>2 DEF Inv1, Control, ThreadTaken, ProcessFree, NoRemoval
  <2>2. tasks[running] \in Task
    BY <2>1 DEF Inv1, Values
  <2>3. Over(tasks[running], "dead") \in Task
    BY <2>2, OverIsTask
  <2>4. Becomes(running, Over(tasks[running], "dead")) /\ running' = 0
    BY <1>2 DEF RaisedIn, Becomes
  <2> QED
    BY <2>1, <2>3, <2>4, TaskBecomes DEF Inv1
<1> QED
  BY <1>1, <1>2 DEF RaisedIn

\* The search of a removal for its next set.
LEMMA LookValues ==
    ASSUME Inv1, NEW th \in Threads, RemoveLook(th)
    PROVE  Values'
<1>1. removal' \in [Threads -> Removal]
  <2>1. PICK r : r = removal[th] /\ r \in Removal
    BY RemovalTypes DEF Inv1
  <2>2. ASSUME NEW k \in Nat, LookAt(th, k)
        PROVE  removal' \in [Threads -> Removal]
    BY <2>2, RemovalTypes DEF Inv1, LookAt, RemoveLook, Values
  <2>3. ASSUME removal' = [removal EXCEPT ![th] = NoRemoval]
        PROVE  removal' \in [Threads -> Removal]
    BY <2>3, RemovalTypes DEF Inv1, Values
  <2>4. ASSUME Unseen(r) # {}
        PROVE  subscriptions[Min(Unseen(r))].set \in Nat
    <3>1. Unseen(r) \subseteq DOMAIN subscriptions /\ DOMAIN subscriptions \subseteq Nat
      BY DEF Inv1, Values, Unseen
    <3>2. Min(Unseen(r)) \in DOMAIN subscriptions
      BY <2>4, <3>1, MinIn
    <3>3. subscriptions[Min(Unseen(r))] \in Entry
      BY <3>2 DEF Inv1, Values
    <3> QED
      BY <3>3 DEF Entry
  <2> QED
    BY <2>1, <2>2, <2>3, <2>4 DEF RemoveLook, RaisedIn
<1>2. tasks' \in Seq(Task) /\ running' \in Nat
  <2>1. CASE UNCHANGED <<tasks, running>>
    BY <2>1 DEF Inv1, Values
  <2>2. CASE RaisedIn(th)
    BY <2>2, RaisedTypes DEF RemoveLook
  <2> QED
    BY <2>1, <2>2 DEF RemoveLook, LookAt
<1> QED
  BY <1>1, <1>2 DEF Inv1, Values, RemoveLook, managerVars, historyVars

\* The task that has the thread.
LEMMA Runs ==
    ASSUME Inv1, running # 0
    PROVE  /\ running \in DOMAIN tasks /\ tasks[running] \in Task
           /\ tasks[running].status = "run" /\ tasks[running].to = {}
           /\ loop = "pass"
<1>1. running \in DOMAIN tasks
  BY DEF Inv1, Control, ThreadTaken
<1>2. tasks[running] \in Task
  BY <1>1 DEF Inv1, Values
<1>3. tasks[running].status = "run" /\ ~ (tasks[running].status = "wait")
  BY <1>1 DEF Inv1, Control, ThreadTaken
<1>4. tasks[running].to = {}
  BY <1>1, <1>3 DEF Inv1, Control, ThreadTaken
<1>5. loop = "pass"
  BY DEF Inv1, Control, ThreadTaken, Values
<1> QED
  BY <1>1, <1>2, <1>3, <1>4, <1>5

\* A removal takes its client out of a set.
LEMMA DropValues ==
    ASSUME Inv1, NEW th \in Threads, RemoveDrop(th)
    PROVE  Values'
<1>1. PICK r : r = removal[th] /\ r \in Removal
  BY RemovalTypes DEF Inv1
<1>2. r.at \in {0} \cup Sets /\ r.at \in Nat
  BY <1>1 DEF RemoveDrop, Inv1, Control, SetsKnown, Removal, Values
<1>3. CASE Holds(r.at, r.client)
  <2>1. active' \subseteq Clients
    BY <1>1, <1>3 DEF RemoveDrop, Inv1, Values
  <2>2. members' \in Seq(SUBSET Clients)
    <3>1. CASE r.at = 0
      BY <1>1, <1>3, <3>1 DEF RemoveDrop, Inv1, Values
    <3>2. CASE r.at # 0
      <4>1. /\ r.at \in DOMAIN members /\ members \in Seq(SUBSET Clients)
            /\ members[r.at] \ {r.client} \in SUBSET Clients
        BY <1>2, <3>2 DEF Inv1, Values, Sets
      <4>2. members' = [members EXCEPT ![r.at] = members[r.at] \ {r.client}]
        BY <1>1, <1>3, <3>2 DEF RemoveDrop
      <4> QED
        BY <4>1, <4>2, SeqExcept
    <3> QED
      BY <3>1, <3>2
  <2>3. removal' \in [Threads -> Removal]
    <3>1. Seen(r, r.at) \in Removal
      BY <1>1, <1>2, RemovalTypes DEF RemoveDrop, Inv1
    <3>2. removal' = [removal EXCEPT ![th] = Seen(r, r.at)]
      BY <1>1, <1>3 DEF RemoveDrop
    <3> QED
      BY <3>1, <3>2 DEF Inv1, Values
  <2> QED
    BY <1>1, <1>3, <2>1, <2>2, <2>3
    DEF RemoveDrop, Inv1, Values, managerVars, historyVars
<1>4. CASE ~ Holds(r.at, r.client)
  <2>1. RaisedIn(th) /\ UNCHANGED <<active, members>>
    BY <1>1, <1>4 DEF RemoveDrop
  <2>2. removal' \in [Threads -> Removal]
    BY <2>1, RemovalTypes DEF RaisedIn, Inv1, Values
  <2>3. tasks' \in Seq(Task) /\ running' \in Nat
    BY <2>1, RaisedTypes, <1>1 DEF RemoveDrop, Threads
  <2> QED
    BY <2>1, <2>2, <2>3 DEF RemoveDrop, Inv1, Values, historyVars
<1> QED
  BY <1>3, <1>4

\* The answer to a SUBSCRIBE or an UNSUBSCRIBE.
LEMMA SubscribeValues ==
    ASSUME Inv1, NEW c \in Clients, NEW ch \in Channels,
           Subscribe(c, ch) \/ Unsubscribe(c, ch)
    PROVE  Values'
<1>1. subscriptions \in Seq(Entry) /\ members \in Seq(SUBSET Clients)
  BY DEF Inv1, Values
<1>2. \A i \in DOMAIN subscriptions : subscriptions[i] \in Entry
                                      /\ subscriptions[i].set \in DOMAIN members
  BY <1>1 DEF Inv1, Control, SetsKnown, Sets
<1>3. CASE Subscribe(c, ch)
  <2>1. CASE EntriesOf(ch) = {} /\ members' = Append(members, {c})
             /\ subscriptions' =
                    Append(subscriptions, [channel |-> ch, set |-> Len(members) + 1])
    <3>1. {c} \in SUBSET Clients
          /\ [channel |-> ch, set |-> Len(members) + 1] \in Entry
      BY <1>1 DEF Entry
    <3>2. members' \in Seq(SUBSET Clients) /\ subscriptions' \in Seq(Entry)
      BY <1>1, <2>1, <3>1, SeqAppend
    <3> QED
      BY <1>3, <3>2 DEF Subscribe, Requested, taskVars, historyVars, Inv1, Values
  <2>2. ASSUME NEW i \in EntriesOf(ch),
               members' = [members EXCEPT ![subscriptions[i].set] = @ \cup {c}],
               UNCHANGED subscriptions
        PROVE  Values'
    <3>1. PICK k : k = subscriptions[i].set /\ k \in DOMAIN members
      BY <1>2 DEF EntriesOf
    <3>2. members[k] \cup {c} \in SUBSET Clients
      BY <1>1, <3>1
    <3>3. members' = [members EXCEPT ![k] = members[k] \cup {c}]
      BY <2>2, <3>1
    <3>4. members' \in Seq(SUBSET Clients)
      BY <1>1, <3>1, <3>2, <3>3, SeqExcept
    <3> QED
      BY <1>3, <2>2, <3>4 DEF Subscribe, Requested, taskVars, historyVars, Inv1, Values
  <2> QED
    BY <1>3, <2>1, <2>2 DEF Subscribe
<1>4. CASE Unsubscribe(c, ch)
  <2>0. PICK i \in EntriesOf(ch) : \E k :
            /\ k = subscriptions[i].set /\ c \in members[k]
            /\ members' = [members EXCEPT ![k] = members[k] \ {c}]
            /\ subscriptions' = IF members[k] = {c} THEN RemoveAt(subscriptions, i)
                                                    ELSE subscriptions
    BY <1>4 DEF Unsubscribe
  <2>1. PICK k :
            /\ k = subscriptions[i].set /\ c \in members[k]
            /\ members' = [members EXCEPT ![k] = members[k] \ {c}]
            /\ subscriptions' = IF members[k] = {c} THEN RemoveAt(subscriptions, i)
                                                    ELSE subscriptions
    BY <2>0
  <2>2. i \in DOMAIN subscriptions /\ k \in DOMAIN members
        /\ members[k] \ {c} \in SUBSET Clients
    BY <1>1, <1>2, <2>1 DEF EntriesOf
  <2>3. members' \in Seq(SUBSET Clients)
    BY <1>1, <2>1, <2>2, SeqExcept
  <2>4. subscriptions' \in Seq(Entry)
    BY <1>1, <2>1, <2>2, SeqRemove
  <2>5. tasks' \in Seq(Task)
    BY <1>4, NotOwedTasks DEF Unsubscribe, Inv1
  <2> QED
    BY <1>4, <2>3, <2>4, <2>5
    DEF Unsubscribe, Requested, historyVars, Inv1, Values
<1> QED
  BY <1>3, <1>4

\* A connection that begins or ends.
LEMMA EndsValues ==
    ASSUME Inv1, NEW c \in Clients, Connect(c) \/ Leave(c) \/ Break(c)
    PROVE  Values'
<1>1. CASE Connect(c)
  BY <1>1 DEF Connect, taskVars, historyVars, Inv1, Values
<1>2. CASE Leave(c) \/ Break(c)
  <2>1. tasks' \in Seq(Task)
    BY <1>2, NotOwedTasks DEF Leave, Break, Ends, Inv1
  <2>2. removal' \in [Threads -> Removal]
    BY <1>2, RemovalTypes DEF Leave, Break, Inv1, Values
  <2>3. conn' \in [Clients -> {"none", "open", "ended"}]
    BY <1>2 DEF Leave, Break, Ends, Inv1, Values
  <2> QED
    BY <1>2, <2>1, <2>2, <2>3
    DEF Leave, Break, Ends, managerVars, historyVars, Inv1, Values
<1> QED
  BY <1>1, <1>2

\* The tasks of a batch's events.
LEMMA NewTasks ==
    ASSUME NEW s \in Symbols, NEW candle \in BOOLEAN
    PROVE  TasksFor(s, candle) \in Seq(Task)
<1>1. \A d \in {"kline", "depth"} : NewTask(s, d) \in Task
  <2>1. <<>> \in Seq(Entry)
    OBVIOUS
  <2>2. <<>> \in Channels \cup {<<>>}
    OBVIOUS
  <2>3. \A S : {} \in SUBSET S
    OBVIOUS
  <2>4. PICK e : e = <<>> /\ e \in Seq(Entry) /\ e \in Channels \cup {<<>>}
    BY <2>1, <2>2, Zenon
  <2>5. ASSUME NEW d \in {"kline", "depth"}
        PROVE  NewTask(s, d) \in Task
    <3>1. NewTask(s, d) =
              [symbol |-> s, details |-> d, status |-> "new",
               left |-> e, channel |-> e, todo |-> {}, to |-> {},
               owed |-> {}, gone |-> {}]
      BY <2>4 DEF NewTask
    <3>2. "new" \in {"new", "run", "wait", "done", "dead"}
      OBVIOUS
    <3> QED
      BY <2>3, <2>4, <3>1, <3>2 DEF Task
  <2> QED
    BY <2>5
<1> QED
  BY <1>1 DEF TasksFor

\* A batch that makes events.
LEMMA BatchValues ==
    ASSUME Inv1, Batch
    PROVE  Values'
<1>1. CASE UNCHANGED tasks
  BY <1>1 DEF Batch, Inv1, Values, managerVars, historyVars
<1>2. ASSUME NEW s \in Symbols, NEW candle \in BOOLEAN,
             tasks' = tasks \o TasksFor(s, candle)
      PROVE  Values'
  <2>3. tasks' \in Seq(Task)
    BY <1>2, NewTasks, ConcatProperties DEF Inv1, Values
  <2> QED
    BY <2>3 DEF Batch, Inv1, Values, managerVars, historyVars
<1> QED
  BY <1>1, <1>2 DEF Batch

\* The task that runs next exists and is new.
LEMMA FirstIsNew ==
    ASSUME Inv1, Tasks("new") # {}
    PROVE  /\ FirstTask \in DOMAIN tasks /\ tasks[FirstTask].status = "new"
           /\ tasks[FirstTask] \in Task
           /\ \A t \in Tasks("new") : FirstTask <= t
<1>1. Tasks("new") \subseteq Nat
  BY DEF Tasks, Inv1, Values
<1>2. FirstTask \in Tasks("new") /\ \A t \in Tasks("new") : FirstTask <= t
  BY <1>1, MinIn DEF FirstTask
<1> QED
  BY <1>2 DEF Tasks, Inv1, Values

\* The start of a task is a step of that task.
LEMMA StartIs ==
    ASSUME Inv1, StartTask
    PROVE  /\ FirstTask \in DOMAIN tasks /\ Started(FirstTask) \in Task
           /\ Becomes(FirstTask, Started(FirstTask)) /\ running' = FirstTask
<1>1. PICK t : t = FirstTask /\ t \in DOMAIN tasks /\ tasks[t] \in Task
  BY FirstIsNew DEF StartTask
<1>2. /\ SubscribedTo(t) \in SUBSET (Clients \X Channels)
      /\ {c \in Clients : conn[c] = "ended"} \in SUBSET Clients
      /\ subscriptions \in Seq(Entry)
  BY DEF SubscribedTo, Inv1, Values
<1>3. Started(t) \in Task
  <2>1. PICK r, o, g : r = tasks[t] /\ o = SubscribedTo(t)
                       /\ g = {c \in Clients : conn[c] = "ended"}
    OBVIOUS
  <2>2. [r EXCEPT !.status = "run", !.left = subscriptions, !.owed = o, !.gone = g]
            \in Task
    BY <1>1, <1>2, <2>1 DEF Task
  <2> QED
    BY <2>1, <2>2 DEF Started
<1> QED
  BY <1>1, <1>3 DEF StartTask, Becomes, Started

\* A task that comes to an entry of its copy keeps its type.
LEMMA EntryIsTask ==
    ASSUME NEW r \in Task, NEW l \in Seq(Entry), NEW c \in Channels,
           NEW s \in SUBSET Clients
    PROVE  [r EXCEPT !.left = l, !.channel = c, !.todo = s] \in Task
BY DEF Task

\* The task that comes to the next entry of its copy.
LEMMA NextIs ==
    ASSUME Inv1, NextChannel, NEW t, t = running
    PROVE  /\ t \in DOMAIN tasks /\ ProcessFree
           /\ \E j \in Ahead(t) :
                 /\ \A k \in Ahead(t) : j <= k
                 /\ j \in DOMAIN tasks[t].left
                 /\ tasks[t].left[j] \in Entry
                 /\ tasks[t].left[j].set \in DOMAIN members
                 /\ \/ /\ NoParts(tasks[t].left[j])
                       /\ Over(tasks[t], "dead") \in Task
                       /\ Becomes(t, Over(tasks[t], "dead"))
                       /\ running' = 0
                    \/ /\ ~ NoParts(tasks[t].left[j])
                       /\ AtEntry(tasks[t], j) \in Task
                       /\ Becomes(t, AtEntry(tasks[t], j))
                       /\ running' = running
<1>1. t # 0 /\ ProcessFree /\ t \in DOMAIN tasks /\ tasks[t] \in Task
  BY Runs DEF NextChannel, InTask
<1>2. tasks[t].left \in Seq(Entry)
  BY <1>1, TaskFields
<1>3. PICK j : j = Min(Ahead(t))
  OBVIOUS
<1>4. Ahead(t) \subseteq Nat /\ Ahead(t) # {} /\ Ahead(t) \subseteq DOMAIN tasks[t].left
  BY <1>2 DEF Ahead, NextChannel
<1>5. j \in Ahead(t) /\ \A k \in Ahead(t) : j <= k
  BY <1>3, <1>4, MinIn
<1>6. j \in DOMAIN tasks[t].left /\ tasks[t].left[j] \in Entry
  BY <1>2, <1>4, <1>5
<1>7. tasks[t].left[j].set \in DOMAIN members
  BY <1>1, <1>6 DEF Inv1, Control, SetsKnown, Sets
<1>8. CASE NoParts(tasks[t].left[j])
  BY <1>1, <1>3, <1>5, <1>6, <1>7, <1>8, OverIsTask DEF NextChannel, Becomes
<1>9. CASE ~ NoParts(tasks[t].left[j])
  <2>1. AtEntry(tasks[t], j) \in Task
    <3>1. PICK r : r = tasks[t] /\ r \in Task
      BY <1>1
    <3>2. PICK l : l = SubSeq(r.left, j + 1, Len(r.left)) /\ l \in Seq(Entry)
      <4>1. PICK n \in Nat : n = Len(r.left) /\ DOMAIN r.left = 1 .. n
        BY <1>2, <3>1
      <4>2. j + 1 \in Int /\ n \in Int /\ \A i \in j + 1 .. n : r.left[i] \in Entry
        BY <1>2, <1>6, <3>1, <4>1
      <4>3. SubSeq(r.left, j + 1, n) \in Seq(Entry)
        BY <4>2, SubSeqProperties
      <4> QED
        BY <4>1, <4>3
    <3>3. PICK e : e = r.left[j] /\ e.channel \in Channels
      BY <1>6, <3>1 DEF Entry
    <3>4. PICK s : s = members[e.set] /\ s \in SUBSET Clients
      BY <1>7, <3>1, <3>3 DEF Inv1, Values
    <3>5. [r EXCEPT !.left = l, !.channel = e.channel, !.todo = s] \in Task
      BY <3>1, <3>2, <3>3, <3>4, EntryIsTask
    <3> QED
      BY <3>1, <3>2, <3>3, <3>4, <3>5 DEF AtEntry
  <2>2. Becomes(t, AtEntry(tasks[t], j)) /\ running' = running
    BY <1>3, <1>9 DEF NextChannel, Becomes
  <2> QED
    BY <1>1, <1>5, <1>6, <1>7, <1>9, <2>1, <2>2
<1> QED
  BY <1>8, <1>9

\* The task that has the thread, when it takes c from those it has to come to.
LEMMA SkipIs ==
    ASSUME Inv1, NEW c \in Clients, SkipClient(c) \/ Send(c), NEW t, t = running
    PROVE  LET r == [tasks[t] EXCEPT !.todo = @ \ {c}]
           IN  t \in DOMAIN tasks /\ r \in Task /\ Becomes(t, r)
<1>1. t \in DOMAIN tasks /\ tasks[t] \in Task
  BY Runs DEF SkipClient, Send, Sendable, InTask
<1>2. [tasks[t] EXCEPT !.todo = @ \ {c}] \in Task
  BY <1>1 DEF Task
<1> QED
  BY <1>1, <1>2 DEF SkipClient, Send, Becomes

\* A send that waits is a step of the task in it.
LEMMA WaitIs ==
    ASSUME Inv1, NEW c \in Clients, SendWaits(c), NEW t, t = running
    PROVE  LET r == InSend(tasks[t], c)
           IN  t \in DOMAIN tasks /\ r \in Task /\ Becomes(t, r)
<1>1. t \in DOMAIN tasks /\ tasks[t] \in Task
  BY Runs DEF SendWaits, Sendable, InTask
<1>2. InSend(tasks[t], c) \in Task
  BY <1>1 DEF Task, InSend
<1> QED
  BY <1>1, <1>2 DEF SendWaits, Becomes

\* A task that gives up a client keeps its type.
LEMMA GivenUpIsTask ==
    ASSUME NEW r \in Task, NEW S, NEW P
    PROVE  [r EXCEPT !.todo = @ \ S, !.to = {}, !.status = "run",
                     !.owed = @ \ P] \in Task
BY DEF Task

\* A send that raises is a step of the task in it.
LEMMA CaughtIs ==
    ASSUME Inv1, NEW t \in DOMAIN tasks, NEW c, Caught(t, c)
    PROVE  LET r == GivenUp(tasks[t], c)
           IN  r \in Task /\ Becomes(t, r)
<1>1. tasks[t] \in Task
  BY DEF Inv1, Values
<1>2. GivenUp(tasks[t], c) \in Task
  BY <1>1, GivenUpIsTask DEF GivenUp
<1> QED
  BY <1>2 DEF Caught, Becomes

\* A send that ends is a step of the task in it.
LEMMA ResumeIs ==
    ASSUME Inv1, NEW t \in DOMAIN tasks, Resume(t)
    PROVE  LET r == [tasks[t] EXCEPT !.status = "run", !.to = {}]
           IN  r \in Task /\ Becomes(t, r)
<1>1. tasks[t] \in Task
  BY DEF Inv1, Values
<1>2. [tasks[t] EXCEPT !.status = "run", !.to = {}] \in Task
  BY <1>1 DEF Task
<1>3. tasks' = [tasks EXCEPT ![t] = [tasks[t] EXCEPT !.status = "run", !.to = {}]]
  BY <1>1 DEF Resume, Inv1, Values
<1> QED
  BY <1>2, <1>3 DEF Becomes

\* What each change of a task leaves and makes of its fields.
LEMMA OverFields ==
    ASSUME NEW r \in Task, NEW how, NEW z, z = Over(r, how)
    PROVE  /\ z.symbol = r.symbol /\ z.details = r.details /\ z.status = how
           /\ z.left = <<>> /\ z.channel = <<>> /\ z.todo = {} /\ z.to = r.to
           /\ z.owed = {} /\ z.gone = {}
  BY DEF Task, Over

\* The fields of a task that starts.
LEMMA StartedFields ==
    ASSUME NEW t, tasks[t] \in Task, NEW z, z = Started(t), NEW r, r = tasks[t]
    PROVE  /\ z.symbol = r.symbol /\ z.details = r.details /\ z.status = "run"
           /\ z.left = subscriptions /\ z.channel = r.channel /\ z.todo = r.todo
           /\ z.to = r.to /\ z.owed = SubscribedTo(t)
           /\ z.gone = {c \in Clients : conn[c] = "ended"}
  BY DEF Task, Started

\* The fields of a task that comes to an entry of its copy.
LEMMA AtEntryFields ==
    ASSUME NEW r \in Task, NEW j, NEW z, z = AtEntry(r, j)
    PROVE  /\ z.symbol = r.symbol /\ z.details = r.details /\ z.status = r.status
           /\ z.left = SubSeq(r.left, j + 1, Len(r.left))
           /\ z.channel = r.left[j].channel /\ z.todo = members[r.left[j].set]
           /\ z.to = r.to /\ z.owed = r.owed /\ z.gone = r.gone
  BY DEF Task, AtEntry

\* The fields of a task that passes over a client.
LEMMA SkipFields ==
    ASSUME NEW r \in Task, NEW c, NEW z, z = [r EXCEPT !.todo = @ \ {c}]
    PROVE  /\ z.symbol = r.symbol /\ z.details = r.details /\ z.status = r.status
           /\ z.left = r.left /\ z.channel = r.channel /\ z.todo = r.todo \ {c}
           /\ z.to = r.to /\ z.owed = r.owed /\ z.gone = r.gone
  BY DEF Task

\* The fields of a task that is in a send.
LEMMA InSendFields ==
    ASSUME NEW r \in Task, NEW c, NEW z, z = InSend(r, c)
    PROVE  /\ z.symbol = r.symbol /\ z.details = r.details /\ z.status = "wait"
           /\ z.left = r.left /\ z.channel = r.channel /\ z.todo = r.todo \ {c}
           /\ z.to = {c} /\ z.owed = r.owed /\ z.gone = r.gone
  BY DEF Task, InSend

\* The fields of a task that gives up a client.
LEMMA GivenUpFields ==
    ASSUME NEW r \in Task, NEW c, NEW z, z = GivenUp(r, c)
    PROVE  /\ z.symbol = r.symbol /\ z.details = r.details /\ z.status = "run"
           /\ z.left = r.left /\ z.channel = r.channel /\ z.todo = r.todo \ {c}
           /\ z.to = {} /\ z.owed = r.owed \ ({c} \X Channels) /\ z.gone = r.gone
  BY DEF Task, GivenUp

\* The fields of a task whose send has ended.
LEMMA ResumeFields ==
    ASSUME NEW r \in Task, NEW z, z = [r EXCEPT !.status = "run", !.to = {}]
    PROVE  /\ z.symbol = r.symbol /\ z.details = r.details /\ z.status = "run"
           /\ z.left = r.left /\ z.channel = r.channel /\ z.todo = r.todo
           /\ z.to = {} /\ z.owed = r.owed /\ z.gone = r.gone
  BY DEF Task

\* The fields of a task that owes less.
LEMMA NotOwedFields ==
    ASSUME NEW r \in Task, NEW P, NEW z, z = [r EXCEPT !.owed = @ \ P]
    PROVE  /\ z.symbol = r.symbol /\ z.details = r.details /\ z.status = r.status
           /\ z.left = r.left /\ z.channel = r.channel /\ z.todo = r.todo
           /\ z.to = r.to /\ z.owed = r.owed \ P /\ z.gone = r.gone
  BY DEF Task

\* A client gets a message.
LEMMA GotValues ==
    ASSUME Inv1, NEW t \in DOMAIN tasks, NEW c \in Clients, Got(t, c)
    PROVE  received' \in [Clients -> Seq(Message)]
<1>1. <<t, tasks[t].channel>> \in Message
  <2>1. t \in Nat /\ tasks[t] \in Task
    BY DEF Inv1, Values
  <2>2. PICK ch : ch = tasks[t].channel /\ ch \in Channels \cup {<<>>}
    BY <2>1, TaskFields
  <2>3. <<t, ch>> \in Nat \X (Channels \cup {<<>>})
    BY <2>1, <2>2
  <2> QED
    BY <2>2, <2>3 DEF Message
<1>2. Append(received[c], <<t, tasks[t].channel>>) \in Seq(Message)
  BY <1>1, AppendProperties DEF Inv1, Values
<1> QED
  BY <1>2 DEF Got, Inv1, Values

\* A send to a client fails.
LEMMA FailedValues ==
    ASSUME Inv1, NEW t \in DOMAIN tasks, NEW c \in Clients, Failed(t, c),
           UNCHANGED <<conn, active, subscriptions, members, loop, received, waited>>
    PROVE  Values'
<1>1. tasks' \in Seq(Task)
  BY CaughtIs, TaskBecomes DEF Failed, Inv1
<1>2. removal' \in [Threads -> Removal]
  BY RemovalTypes DEF Failed, Caught, Inv1, Values
<1>3. running' \in Nat /\ failed' \subseteq Clients
  BY DEF Failed, Inv1, Values
<1> QED
  BY <1>1, <1>2, <1>3 DEF Inv1, Values

\* A step of the task that has the thread.
LEMMA RunValues ==
    ASSUME Inv1, RunTask
    PROVE  Values'
<1>1. CASE StartTask
  BY <1>1, StartIs, TaskBecomes
  DEF StartTask, managerVars, historyVars, Inv1, Values
<1>2. CASE NextChannel
  <2>1. tasks' \in Seq(Task) /\ running' \in Nat
    BY <1>2, NextIs, TaskBecomes DEF Inv1, Values
  <2> QED
    BY <1>2, <2>1 DEF NextChannel, managerVars, historyVars, Inv1, Values
<1>3. CASE FinishTask
  <2>1. running \in DOMAIN tasks /\ tasks[running] \in Task
    BY <1>3, Runs DEF FinishTask, AtEnd, InTask
  <2>2. Over(tasks[running], "done") \in Task
    BY <2>1, OverIsTask
  <2>3. tasks' \in Seq(Task)
    BY <1>3, <2>1, <2>2, TaskBecomes DEF FinishTask, Becomes, Inv1
  <2> QED
    BY <1>3, <2>3 DEF FinishTask, managerVars, historyVars, Inv1, Values
<1>4. ASSUME NEW c \in Clients, SkipClient(c)
      PROVE  Values'
  <2>1. tasks' \in Seq(Task)
    BY <1>4, SkipIs, TaskBecomes DEF Inv1
  <2>2. removal' \in [Threads -> Removal]
    BY <1>4, RemovalTypes DEF SkipClient, Inv1, Values
  <2> QED
    BY <1>4, <2>1, <2>2 DEF SkipClient, managerVars, historyVars, Inv1, Values
<1>5. ASSUME NEW c \in Clients, Send(c)
      PROVE  Values'
  <2>1. tasks' \in Seq(Task)
    BY <1>5, SkipIs, TaskBecomes DEF Inv1
  <2>2. received' \in [Clients -> Seq(Message)]
    BY <1>5, Runs, GotValues DEF Send, Sendable, InTask
  <2> QED
    BY <1>5, <2>1, <2>2 DEF Send, managerVars, historyVars, Inv1, Values
<1>6. ASSUME NEW c \in Clients, SendWaits(c)
      PROVE  Values'
  <2>1. tasks' \in Seq(Task)
    BY <1>6, WaitIs, TaskBecomes DEF Inv1
  <2>2. waited' \subseteq Nat /\ running' \in Nat
    BY <1>6 DEF SendWaits, Inv1, Values
  <2> QED
    BY <1>6, <2>1, <2>2 DEF SendWaits, managerVars, historyVars, Inv1, Values
<1>7. ASSUME NEW c \in Clients, SendFails(c)
      PROVE  Values'
  BY <1>7, Runs, FailedValues DEF SendFails, Sendable, InTask, Failed, managerVars
<1> QED
  BY <1>1, <1>2, <1>3, <1>4, <1>5, <1>6, <1>7 DEF RunTask

\* A task that waits wakes.
LEMMA WakeValues ==
    ASSUME Inv1, NEW t \in DOMAIN tasks, WakeTask(t)
    PROVE  Values'
<1>1. tasks[t].to \subseteq Clients
  BY TaskFields DEF Inv1, Values
<1>2. CASE Resume(t)
  <2>1. tasks' \in Seq(Task)
    BY <1>2, ResumeIs, TaskBecomes DEF Inv1
  <2>2. received' \in [Clients -> Seq(Message)]
    BY <1>1, <1>2, GotValues DEF Resume
  <2>3. running' \in Nat
    BY <1>2 DEF Resume, Inv1, Values
  <2> QED
    BY <1>2, <2>1, <2>2, <2>3 DEF Resume, managerVars, historyVars, Inv1, Values
<1>3. CASE ResumeFails(t)
  BY <1>1, <1>3, FailedValues DEF ResumeFails, Failed, managerVars
<1> QED
  BY <1>2, <1>3 DEF WakeTask

-----------------------------------------------------------------------------
(* Every step keeps the sets known. *)

\* Steps in which a task's copy of the dict stays what it is, or is cut short.
SameOrEnd(r, z) ==
    \A j \in DOMAIN z.left : \E k \in DOMAIN r.left : z.left[j] = r.left[k]

\* A copy that stays, is cut or is given up holds known sets.
LEMMA CopiesKnown ==
    ASSUME Inv1, Sets \subseteq Sets', DOMAIN tasks' = DOMAIN tasks,
           \A t \in DOMAIN tasks : SameOrEnd(tasks[t], tasks'[t])
    PROVE  \A t \in DOMAIN tasks' : \A j \in DOMAIN tasks'[t].left :
               tasks'[t].left[j].set \in Sets'
<1>1. ASSUME NEW t \in DOMAIN tasks', NEW j \in DOMAIN tasks'[t].left
      PROVE  tasks'[t].left[j].set \in Sets'
  <2>1. PICK k \in DOMAIN tasks[t].left : tasks'[t].left[j] = tasks[t].left[k]
    BY <1>1 DEF SameOrEnd
  <2>2. tasks[t].left[k].set \in Sets
    BY <1>1 DEF Inv1, Control, SetsKnown
  <2> QED
    BY <2>1, <2>2
<1> QED
  BY <1>1

\* A copy that stays, or is given up.
LEMMA SameIsSame ==
    ASSUME NEW r, NEW z, z.left = r.left \/ z.left = <<>>
    PROVE  SameOrEnd(r, z)
<1>1. DOMAIN <<>> = {}
  OBVIOUS
<1> QED
  BY <1>1 DEF SameOrEnd

\* A copy that is cut.
LEMMA CutIsSame ==
    ASSUME NEW r \in Task, NEW j \in DOMAIN r.left
    PROVE  SameOrEnd(r, AtEntry(r, j))
<1>1. r.left \in Seq(Entry)
  BY TaskFields
<1>2. PICK n \in Nat : n = Len(r.left) /\ DOMAIN r.left = 1 .. n
  BY <1>1
<1>3. j \in Int /\ n \in Int /\ j \in 1 .. n
  BY <1>2
<1>4. PICK l : l = SubSeq(r.left, j + 1, n)
  OBVIOUS
<1>5. \A i \in j + 1 .. n : r.left[i] \in Entry
  BY <1>1, <1>2, <1>3
<1>6. /\ l \in Seq(Entry)
      /\ Len(l) = IF j + 1 <= n THEN n - (j + 1) + 1 ELSE 0
      /\ \A i \in 1 .. n - (j + 1) + 1 : l[i] = r.left[(j + 1) + i - 1]
  BY <1>3, <1>4, <1>5, SubSeqProperties
<1>7. DOMAIN l = 1 .. Len(l)
  BY <1>6
<1>8. ASSUME NEW i \in DOMAIN l
      PROVE  \E k \in DOMAIN r.left : l[i] = r.left[k]
  <2>1. i \in 1 .. n - j /\ j + i \in 1 .. n
    BY <1>3, <1>6, <1>7, <1>8
  <2>2. l[i] = r.left[j + i]
    BY <1>3, <1>6, <2>1
  <2> QED
    BY <1>2, <2>1, <2>2
<1>9. AtEntry(r, j).left = l
  BY <1>2, <1>4, AtEntryFields
<1> QED
  BY <1>8, <1>9 DEF SameOrEnd

\* One task changes.
LEMMA OneCopyKnown ==
    ASSUME Inv1, Sets \subseteq Sets', NEW t \in DOMAIN tasks, NEW r \in Task,
           Becomes(t, r), SameOrEnd(tasks[t], r)
    PROVE  \A u \in DOMAIN tasks' : \A j \in DOMAIN tasks'[u].left :
               tasks'[u].left[j].set \in Sets'
<1>1. /\ DOMAIN tasks' = DOMAIN tasks /\ tasks'[t] = r
      /\ \A u \in DOMAIN tasks : u # t => tasks'[u] = tasks[u]
  BY TaskBecomes DEF Inv1
<1>2. \A u \in DOMAIN tasks : SameOrEnd(tasks[u], tasks'[u])
  BY <1>1, SameIsSame
<1> QED
  BY <1>1, <1>2, CopiesKnown

\* What a removal may come to.
LEMMA RemovalKnown ==
    ASSUME Inv1, Sets \subseteq Sets', NEW th \in Threads, NEW x,
           removal' = [removal EXCEPT ![th] = x],
           x.stage = "drop" => x.at \in {0} \cup Sets
    PROVE  \A h \in Threads : removal'[h].stage = "drop" =>
               removal'[h].at \in {0} \cup Sets'
  BY DEF Inv1, Values, Control, SetsKnown

\* A removal that raises leaves every set known.
LEMMA RaisedKnown ==
    ASSUME Inv1, NEW th \in Threads, removal[th].stage # "none", RaisedIn(th),
           UNCHANGED <<subscriptions, members>>
    PROVE  SetsKnown'
<1>1. Sets' = Sets
  BY DEF Sets
<1>2. \A h \in Threads : removal'[h].stage = "drop" =>
          removal'[h].at \in {0} \cup Sets'
  <2>1. NoRemoval.stage # "drop"
    BY DEF NoRemoval
  <2> QED
    BY <1>1, <2>1, RemovalKnown DEF RaisedIn
<1>3. \A u \in DOMAIN tasks' : \A j \in DOMAIN tasks'[u].left :
          tasks'[u].left[j].set \in Sets'
  <2>1. CASE th = "process"
    <3>1. running \in DOMAIN tasks /\ tasks[running] \in Task
      BY <2>1, Runs DEF Inv1, Control, ThreadTaken, ProcessFree, NoRemoval
    <3>2. PICK z : z = Over(tasks[running], "dead") /\ z \in Task
      BY <3>1, OverIsTask
    <3>3. SameOrEnd(tasks[running], z)
      BY <3>1, <3>2, OverFields, SameIsSame
    <3>4. Becomes(running, z)
      BY <2>1, <3>2 DEF RaisedIn, Becomes
    <3> QED
      BY <1>1, <3>1, <3>2, <3>3, <3>4, OneCopyKnown
  <2>2. CASE UNCHANGED tasks
    BY <1>1, <2>2 DEF Inv1, Control, SetsKnown
  <2> QED
    BY <2>1, <2>2 DEF RaisedIn
<1> QED
  BY <1>1, <1>2, <1>3 DEF SetsKnown, Inv1, Control

\* The call a thread is in, when it is in one.
LEMMA LookIsRecord ==
    ASSUME Values, NEW th \in Threads, removal[th].stage # "none",
           NEW r, r = removal[th]
    PROVE  /\ r.client \in Clients /\ r.at \in Nat /\ r.seen \subseteq Nat
           /\ \A k : [r EXCEPT !.stage = "drop", !.at = k].stage = "drop"
           /\ \A k : [r EXCEPT !.stage = "drop", !.at = k].at = k
           /\ \A k : [r EXCEPT !.stage = "drop", !.at = k].client = r.client
           /\ \A k : [r EXCEPT !.stage = "drop", !.at = k].seen = r.seen
           /\ \A k : Seen(r, k).stage = "look"
           /\ \A k : Seen(r, k).client = r.client
           /\ \A k : Seen(r, k).seen = r.seen \cup {k}
<1>1. r \in [stage : {"look", "drop"}, client : Clients, at : Nat,
              seen : SUBSET Nat, size : Nat]
  BY RemovalTypes DEF Removal
<1> QED
  BY <1>1 DEF Seen

\* So does every step of a removal.
LEMMA RemoveKnown ==
    ASSUME Inv1, NEW th \in Threads, RemoveStep(th)
    PROVE  SetsKnown'
<1>1. PICK r : r = removal[th]
  OBVIOUS
<1>2. CASE RaisedIn(th) /\ removal[th].stage # "none"
           /\ UNCHANGED <<subscriptions, members>>
  BY <1>2, RaisedKnown
<1>3. ASSUME NEW x, removal' = [removal EXCEPT ![th] = x], UNCHANGED tasks,
             UNCHANGED subscriptions, Sets' = Sets,
             x.stage = "drop" => x.at \in {0} \cup Sets
      PROVE  SetsKnown'
  <2>1. \A h \in Threads : removal'[h].stage = "drop" =>
            removal'[h].at \in {0} \cup Sets'
    BY <1>3, RemovalKnown
  <2> QED
    BY <1>3, <2>1 DEF Inv1, Control, SetsKnown
<1>4. CASE RemoveLook(th)
  <2>1. /\ removal[th].stage = "look" /\ UNCHANGED <<subscriptions, members>>
        /\ Sets' = Sets
    BY <1>4 DEF RemoveLook, managerVars, Sets
  <2>2. ASSUME NEW k, k \in {0} \cup Sets, LookAt(th, k)
        PROVE  SetsKnown'
    <3>1. CASE Holds(k, r.client)
      <4>1. PICK x : x = [r EXCEPT !.stage = "drop", !.at = k]
        OBVIOUS
      <4>2. x.at = k
        BY <1>1, <2>1, <4>1, LookIsRecord DEF Inv1
      <4> QED
        BY <1>1, <1>3, <2>1, <2>2, <3>1, <4>1, <4>2 DEF LookAt
    <3>2. CASE ~ Holds(k, r.client)
      <4>1. Seen(r, k).stage # "drop"
        BY <1>1, <2>1, LookIsRecord DEF Inv1
      <4> QED
        BY <1>1, <1>3, <2>1, <2>2, <3>2, <4>1 DEF LookAt
    <3> QED
      BY <3>1, <3>2
  <2>3. ASSUME removal' = [removal EXCEPT ![th] = NoRemoval], UNCHANGED tasks
        PROVE  SetsKnown'
    <3>1. NoRemoval.stage # "drop"
      BY DEF NoRemoval
    <3> QED
      BY <1>3, <2>1, <2>3, <3>1
  <2>4. ASSUME Unseen(r) # {}
        PROVE  subscriptions[Min(Unseen(r))].set \in Sets
    <3>1. Unseen(r) \subseteq DOMAIN subscriptions /\ DOMAIN subscriptions \subseteq Nat
      BY DEF Inv1, Values, Unseen
    <3>2. Min(Unseen(r)) \in DOMAIN subscriptions
      BY <2>4, <3>1, MinIn
    <3> QED
      BY <3>2 DEF Inv1, Control, SetsKnown
  <2> QED
    BY <1>1, <1>2, <1>4, <2>1, <2>2, <2>3, <2>4 DEF RemoveLook
<1>5. CASE RemoveDrop(th)
  <2>1. r.at \in {0} \cup Sets /\ removal[th].stage = "drop"
    BY <1>1, <1>5 DEF RemoveDrop, Inv1, Control, SetsKnown
  <2>2. CASE Holds(r.at, r.client)
    <3>1. Seen(r, r.at).stage # "drop"
      BY <1>1, <2>1, LookIsRecord DEF Inv1
    <3>2. removal' = [removal EXCEPT ![th] = Seen(r, r.at)] /\ UNCHANGED tasks
      BY <1>1, <1>5, <2>2 DEF RemoveDrop
    <3>3. Sets' = Sets
      <4>1. CASE r.at = 0
        BY <1>1, <1>5, <2>2, <4>1 DEF RemoveDrop, Sets
      <4>2. CASE r.at # 0
        <5>1. members' = [members EXCEPT ![r.at] = @ \ {r.client}]
          BY <1>1, <1>5, <2>2, <4>2 DEF RemoveDrop
        <5> QED
          BY <5>1 DEF Sets
      <4> QED
        BY <4>1, <4>2
    <3> QED
      BY <1>3, <1>5, <3>1, <3>2, <3>3 DEF RemoveDrop
  <2>3. CASE ~ Holds(r.at, r.client)
    BY <1>1, <1>2, <1>5, <2>3, <2>1 DEF RemoveDrop
  <2> QED
    BY <2>2, <2>3
<1> QED
  BY <1>4, <1>5 DEF RemoveStep

\* So does an unsubscription or an end, of which tasks only owe less.
LEMMA NotOwedKnown ==
    ASSUME Inv1, NEW P, NotOwed(P), Sets \subseteq Sets'
    PROVE  \A u \in DOMAIN tasks' : \A j \in DOMAIN tasks'[u].left :
               tasks'[u].left[j].set \in Sets'
<1>1. /\ DOMAIN tasks' = DOMAIN tasks
      /\ \A t \in DOMAIN tasks : tasks'[t].left = tasks[t].left
  <2>1. \A t \in DOMAIN tasks : tasks[t] \in Task
    BY DEF Inv1, Values
  <2>2. /\ DOMAIN tasks' = DOMAIN tasks
        /\ \A t \in DOMAIN tasks : tasks'[t] = [tasks[t] EXCEPT !.owed = @ \ P]
    BY NotOwedTasks DEF Inv1
  <2>3. \A t \in DOMAIN tasks : tasks'[t].left = tasks[t].left
    BY <2>1, <2>2, NotOwedFields
  <2> QED
    BY <2>2, <2>3
<1> QED
  BY <1>1, SameIsSame, CopiesKnown

\* So does the endpoint, which only adds sets.
LEMMA EndpointKnown ==
    ASSUME Inv1, Endpoint
    PROVE  SetsKnown'
<1>1. ASSUME NEW c \in Clients, Connect(c)
      PROVE  SetsKnown'
  BY <1>1 DEF Connect, taskVars, Inv1, Control, SetsKnown, Sets
<1>2. ASSUME NEW c \in Clients, Leave(c) \/ Break(c)
      PROVE  SetsKnown'
  <2>1. NotOwed({c} \X Channels) /\ UNCHANGED <<subscriptions, members>> /\ Sets' = Sets
    BY <1>2 DEF Leave, Break, Ends, managerVars, Sets
  <2>2. \A h \in Threads : removal'[h].stage = "drop" =>
            removal'[h].at \in {0} \cup Sets'
    <3>1. CASE Leave(c)
      <4>1. Begin(c).stage # "drop" /\ "main" \in Threads
        BY DEF Begin, Threads
      <4> QED
        BY <2>1, <3>1, <4>1, RemovalKnown DEF Leave
    <3>2. CASE Break(c)
      BY <2>1, <3>2 DEF Break, Inv1, Control, SetsKnown
    <3> QED
      BY <1>2, <3>1, <3>2
  <2> QED
    BY <2>1, <2>2, NotOwedKnown DEF SetsKnown, Inv1, Control
<1>3. ASSUME NEW c \in Clients, NEW ch \in Channels, Subscribe(c, ch)
      PROVE  SetsKnown'
  <2>1. subscriptions \in Seq(Entry) /\ members \in Seq(SUBSET Clients)
    BY DEF Inv1, Values
  <2>2. CASE EntriesOf(ch) = {} /\ members' = Append(members, {c})
             /\ subscriptions' =
                    Append(subscriptions, [channel |-> ch, set |-> Len(members) + 1])
    <3>1. PICK e : e = [channel |-> ch, set |-> Len(members) + 1] /\ e \in Entry
      <4>1. [channel |-> ch, set |-> Len(members) + 1] \in Entry
        BY <2>1 DEF Entry
      <4> QED
        BY <4>1
    <3>2. Sets' = Sets \cup {Len(members) + 1}
      BY <2>1, <2>2, SeqAppend DEF Sets
    <3>3. /\ DOMAIN subscriptions' = DOMAIN subscriptions \cup {Len(subscriptions) + 1}
          /\ subscriptions'[Len(subscriptions) + 1] = e
          /\ \A i \in DOMAIN subscriptions : subscriptions'[i] = subscriptions[i]
      BY <2>1, <2>2, <3>1, SeqAppend
    <3>4. \A i \in DOMAIN subscriptions' : subscriptions'[i].set \in Sets'
      BY <3>1, <3>2, <3>3 DEF Inv1, Control, SetsKnown
    <3> QED
      BY <1>3, <3>2, <3>4 DEF Subscribe, taskVars, Inv1, Control, SetsKnown
  <2>3. CASE UNCHANGED subscriptions /\ Sets' = Sets
    BY <1>3, <2>3 DEF Subscribe, taskVars, Inv1, Control, SetsKnown
  <2> QED
    BY <1>3, <2>2, <2>3 DEF Subscribe, Sets
<1>4. ASSUME NEW c \in Clients, NEW ch \in Channels, Unsubscribe(c, ch)
      PROVE  SetsKnown'
  <2>1. subscriptions \in Seq(Entry)
    BY DEF Inv1, Values
  <2>2. PICK i \in DOMAIN subscriptions :
            /\ subscriptions' = RemoveAt(subscriptions, i)
                   \/ subscriptions' = subscriptions
            /\ members' = [members EXCEPT ![subscriptions[i].set] = @ \ {c}]
    BY <1>4 DEF Unsubscribe, EntriesOf
  <2>3. Sets' = Sets
    BY <2>2 DEF Sets
  <2>4. \A j \in DOMAIN subscriptions' : \E k \in DOMAIN subscriptions :
            subscriptions'[j] = subscriptions[k]
    <3>1. CASE subscriptions' = RemoveAt(subscriptions, i)
      <4>1. /\ subscriptions' \in Seq(Entry)
            /\ Len(subscriptions') = Len(subscriptions) - 1
            /\ \A j \in DOMAIN subscriptions' :
                  subscriptions'[j] = IF j < i THEN subscriptions[j]
                                               ELSE subscriptions[j + 1]
        BY <2>1, <3>1, SeqRemove
      <4>2. PICK n \in Nat : n = Len(subscriptions) /\ DOMAIN subscriptions = 1 .. n
        BY <2>1
      <4>3. DOMAIN subscriptions' = 1 .. n - 1
        BY <4>1, <4>2
      <4> QED
        BY <4>1, <4>2, <4>3
    <3> QED
      BY <2>2, <3>1
  <2>5. \A j \in DOMAIN subscriptions' : subscriptions'[j].set \in Sets'
    BY <2>3, <2>4 DEF Inv1, Control, SetsKnown
  <2> QED
    BY <1>4, <2>3, <2>5, NotOwedKnown DEF Unsubscribe, SetsKnown, Inv1, Control
<1> QED
  BY <1>1, <1>2, <1>3, <1>4 DEF Endpoint

\* The tasks there are and those a batch makes.
LEMMA BatchTasks ==
    ASSUME Inv1, Batch
    PROVE  /\ DOMAIN tasks \subseteq DOMAIN tasks' /\ tasks' \in Seq(Task)
           /\ \A t \in DOMAIN tasks : tasks'[t] = tasks[t]
           /\ \A t \in DOMAIN tasks' \ DOMAIN tasks :
                 /\ tasks'[t].status = "new" /\ tasks'[t].left = <<>>
                 /\ tasks'[t].to = {} /\ tasks'[t].todo = {}
                 /\ tasks'[t].channel = <<>> /\ t > Len(tasks)
<1>1. tasks \in Seq(Task) /\ tasks' \in Seq(Task)
  BY BatchValues DEF Inv1, Values
<1>2. CASE UNCHANGED tasks
  BY <1>1, <1>2
<1>3. ASSUME NEW s \in Symbols, NEW candle \in BOOLEAN,
             tasks' = tasks \o TasksFor(s, candle)
      PROVE  /\ DOMAIN tasks \subseteq DOMAIN tasks'
             /\ \A t \in DOMAIN tasks : tasks'[t] = tasks[t]
             /\ \A t \in DOMAIN tasks' \ DOMAIN tasks :
                   /\ tasks'[t].status = "new" /\ tasks'[t].left = <<>>
                   /\ tasks'[t].to = {} /\ tasks'[t].todo = {}
                 /\ tasks'[t].channel = <<>> /\ t > Len(tasks)
  <2>1. PICK z : z = TasksFor(s, candle)
    OBVIOUS
  <2>2. \A d : NewTask(s, d).status = "new" /\ NewTask(s, d).left = <<>>
               /\ NewTask(s, d).to = {} /\ NewTask(s, d).todo = {}
               /\ NewTask(s, d).channel = <<>>
    BY DEF NewTask
  <2>3. \E m \in {1, 2} :
           /\ DOMAIN z = 1 .. m /\ Len(z) = m
           /\ \A i \in 1 .. m : \E d : z[i] = NewTask(s, d)
    <3>1. CASE candle
      <4>1. z = <<NewTask(s, "kline"), NewTask(s, "depth")>>
        BY <2>1, <3>1 DEF TasksFor
      <4> QED
        BY <4>1
    <3>2. CASE ~ candle
      <4>1. z = <<NewTask(s, "depth")>>
        BY <2>1, <3>2 DEF TasksFor
      <4> QED
        BY <4>1
    <3> QED
      BY <3>1, <3>2
  <2>4. PICK m \in {1, 2} :
           /\ DOMAIN z = 1 .. m /\ Len(z) = m
           /\ \A i \in 1 .. m : \E d : z[i] = NewTask(s, d)
    BY <2>3
  <2>5. z \in Seq(Task)
    BY <2>1, NewTasks
  <2>6. PICK n \in Nat : n = Len(tasks) /\ DOMAIN tasks = 1 .. n
    BY <1>1
  <2>7. /\ Len(tasks') = n + m /\ DOMAIN tasks' = 1 .. n + m
        /\ \A i \in 1 .. n + m : tasks'[i] = IF i <= n THEN tasks[i] ELSE z[i - n]
    BY <1>1, <1>3, <2>1, <2>4, <2>5, <2>6, ConcatProperties
  <2>8. \A t \in 1 .. n : t \in 1 .. n + m /\ tasks'[t] = tasks[t]
    BY <2>7
  <2>9. ASSUME NEW t \in 1 .. n + m, t \notin 1 .. n
        PROVE  /\ tasks'[t].status = "new" /\ tasks'[t].left = <<>>
               /\ tasks'[t].to = {} /\ tasks'[t].todo = {}
               /\ tasks'[t].channel = <<>> /\ t > n
    <3>1. t - n \in 1 .. m /\ t > n
      BY <2>9
    <3>2. tasks'[t] = z[t - n]
      BY <2>7, <3>1
    <3>3. PICK d : z[t - n] = NewTask(s, d)
      BY <2>4, <3>1
    <3> QED
      BY <2>2, <3>1, <3>2, <3>3
  <2> QED
    BY <2>6, <2>7, <2>8, <2>9
<1> QED
  BY <1>1, <1>2, <1>3 DEF Batch

\* So does a send that raises.
LEMMA CaughtKnown ==
    ASSUME Inv1, Sets \subseteq Sets', NEW t \in DOMAIN tasks, NEW c, Caught(t, c)
    PROVE  \A u \in DOMAIN tasks' : \A j \in DOMAIN tasks'[u].left :
               tasks'[u].left[j].set \in Sets'
<1>1. PICK r : r = GivenUp(tasks[t], c)
  OBVIOUS
<1>2. tasks[t] \in Task /\ r \in Task /\ Becomes(t, r)
  BY <1>1, CaughtIs DEF Inv1, Values
<1>3. SameOrEnd(tasks[t], r)
  BY <1>1, <1>2, GivenUpFields, SameIsSame
<1> QED
  BY <1>2, <1>3, OneCopyKnown

\* So does a step of the task that has the thread, and of the loop.
LEMMA RunKnown ==
    ASSUME Inv1, RunTask \/ Batch \/ EndPass
    PROVE  SetsKnown'
<1>1. subscriptions' = subscriptions /\ Sets' = Sets
  BY DEF RunTask, Batch, EndPass, StartTask, NextChannel, FinishTask, SkipClient,
         Send, SendWaits, SendFails, Failed, managerVars, Sets
<1>2. \A h \in Threads : removal'[h].stage = "drop" =>
          removal'[h].at \in {0} \cup Sets'
  <2>1. CASE UNCHANGED removal
    BY <1>1, <2>1 DEF Inv1, Control, SetsKnown
  <2>2. ASSUME NEW c, removal' = [removal EXCEPT !["process"] = Begin(c)]
        PROVE  \A h \in Threads : removal'[h].stage = "drop" =>
                   removal'[h].at \in {0} \cup Sets'
    <3>1. Begin(c).stage # "drop" /\ "process" \in Threads
      BY DEF Begin, Threads
    <3> QED
      BY <1>1, <2>2, <3>1, RemovalKnown
  <2> QED
    BY <2>1, <2>2
    DEF RunTask, Batch, EndPass, StartTask, NextChannel, FinishTask, SkipClient,
        Send, SendWaits, SendFails, Failed, Caught
<1>3. \A u \in DOMAIN tasks' : \A j \in DOMAIN tasks'[u].left :
          tasks'[u].left[j].set \in Sets'
  <2>1. CASE StartTask
    <3>1. PICK t : t = FirstTask
      OBVIOUS
    <3>2. /\ t \in DOMAIN tasks /\ Started(t) \in Task /\ tasks[t] \in Task
          /\ Becomes(t, Started(t))
      BY <2>1, <3>1, StartIs, FirstIsNew DEF StartTask
    <3>3. /\ DOMAIN tasks' = DOMAIN tasks /\ tasks'[t].left = subscriptions
          /\ \A u \in DOMAIN tasks : u # t => tasks'[u] = tasks[u]
      BY <3>2, TaskBecomes, StartedFields DEF Inv1
    <3> QED
      BY <1>1, <3>2, <3>3 DEF Inv1, Control, SetsKnown
  <2>2. CASE NextChannel
    <3>1. PICK t : t = running
      OBVIOUS
    <3>2. t \in DOMAIN tasks /\ tasks[t] \in Task
      BY <2>2, <3>1, Runs DEF NextChannel, InTask
    <3>3. PICK j \in DOMAIN tasks[t].left :
              \/ Over(tasks[t], "dead") \in Task /\ Becomes(t, Over(tasks[t], "dead"))
              \/ AtEntry(tasks[t], j) \in Task /\ Becomes(t, AtEntry(tasks[t], j))
      BY <2>2, <3>1, NextIs
    <3>4. /\ SameOrEnd(tasks[t], Over(tasks[t], "dead"))
          /\ SameOrEnd(tasks[t], AtEntry(tasks[t], j))
      BY <3>2, OverFields, SameIsSame, CutIsSame
    <3> QED
      BY <1>1, <3>2, <3>3, <3>4, OneCopyKnown
  <2>3. CASE FinishTask
    <3>1. running \in DOMAIN tasks /\ tasks[running] \in Task
      BY <2>3, Runs DEF FinishTask, AtEnd, InTask
    <3>2. /\ Over(tasks[running], "done") \in Task
          /\ SameOrEnd(tasks[running], Over(tasks[running], "done"))
      BY <3>1, OverIsTask, OverFields, SameIsSame
    <3>3. Becomes(running, Over(tasks[running], "done"))
      BY <2>3 DEF FinishTask, Becomes
    <3> QED
      BY <1>1, <3>1, <3>2, <3>3, OneCopyKnown
  <2>4. ASSUME NEW c \in Clients, SkipClient(c) \/ Send(c)
        PROVE  \A u \in DOMAIN tasks' : \A j \in DOMAIN tasks'[u].left :
                   tasks'[u].left[j].set \in Sets'
    <3>1. PICK t, r : t = running /\ r = [tasks[t] EXCEPT !.todo = @ \ {c}]
      OBVIOUS
    <3>2. t \in DOMAIN tasks /\ tasks[t] \in Task /\ r \in Task /\ Becomes(t, r)
      BY <2>4, <3>1, SkipIs DEF Inv1, Values
    <3>3. SameOrEnd(tasks[t], r)
      BY <3>1, <3>2, SkipFields, SameIsSame
    <3> QED
      BY <1>1, <3>2, <3>3, OneCopyKnown
  <2>5. ASSUME NEW c \in Clients, SendWaits(c)
        PROVE  \A u \in DOMAIN tasks' : \A j \in DOMAIN tasks'[u].left :
                   tasks'[u].left[j].set \in Sets'
    <3>1. PICK t, r : t = running /\ r = InSend(tasks[t], c)
      OBVIOUS
    <3>2. t \in DOMAIN tasks /\ tasks[t] \in Task /\ r \in Task /\ Becomes(t, r)
      BY <2>5, <3>1, WaitIs DEF Inv1, Values
    <3>3. SameOrEnd(tasks[t], r)
      BY <3>1, <3>2, InSendFields, SameIsSame
    <3> QED
      BY <1>1, <3>2, <3>3, OneCopyKnown
  <2>6. ASSUME NEW c \in Clients, SendFails(c)
        PROVE  \A u \in DOMAIN tasks' : \A j \in DOMAIN tasks'[u].left :
                   tasks'[u].left[j].set \in Sets'
    <3>1. running \in DOMAIN tasks
      BY <2>6, Runs DEF SendFails, Sendable, InTask
    <3> QED
      BY <1>1, <2>6, <3>1, CaughtKnown DEF SendFails, Failed
  <2>7. CASE Batch
    <3>1. DOMAIN <<>> = {}
      OBVIOUS
    <3> QED
      BY <1>1, <2>7, <3>1, BatchTasks DEF Inv1, Control, SetsKnown
  <2>8. CASE EndPass
    BY <1>1, <2>8 DEF EndPass, Inv1, Control, SetsKnown
  <2> QED
    BY <2>1, <2>2, <2>3, <2>4, <2>5, <2>6, <2>7, <2>8 DEF RunTask
<1> QED
  BY <1>1, <1>2, <1>3 DEF SetsKnown, Inv1, Control

\* So does a task that wakes.
LEMMA WakeKnown ==
    ASSUME Inv1, NEW t \in DOMAIN tasks, WakeTask(t)
    PROVE  SetsKnown'
<1>1. subscriptions' = subscriptions /\ Sets' = Sets
  BY DEF WakeTask, Resume, ResumeFails, Failed, managerVars, Sets
<1>2. tasks[t] \in Task /\ "process" \in Threads
  BY DEF Inv1, Values, Threads
<1>3. CASE Resume(t)
  <2>1. PICK r : r = [tasks[t] EXCEPT !.status = "run", !.to = {}]
    OBVIOUS
  <2>2. r \in Task /\ Becomes(t, r)
    BY <1>3, <2>1, ResumeIs
  <2>3. SameOrEnd(tasks[t], r)
    <3>1. r.left = tasks[t].left
      BY <1>2, <2>1, ResumeFields
    <3> QED
      BY <3>1, SameIsSame
  <2>4. \A u \in DOMAIN tasks' : \A j \in DOMAIN tasks'[u].left :
            tasks'[u].left[j].set \in Sets'
    BY <1>1, <2>2, <2>3, OneCopyKnown
  <2> QED
    BY <1>1, <1>3, <2>4 DEF Resume, SetsKnown, Inv1, Control
<1>4. ASSUME NEW c, Failed(t, c)
      PROVE  SetsKnown'
  <2>1. \A u \in DOMAIN tasks' : \A j \in DOMAIN tasks'[u].left :
            tasks'[u].left[j].set \in Sets'
    BY <1>1, <1>4, CaughtKnown DEF Failed
  <2>2. Begin(c).stage # "drop" /\ removal' = [removal EXCEPT !["process"] = Begin(c)]
    BY <1>4 DEF Failed, Caught, Begin
  <2>3. \A h \in Threads : removal'[h].stage = "drop" =>
            removal'[h].at \in {0} \cup Sets'
    BY <1>1, <1>2, <2>2, RemovalKnown
  <2> QED
    BY <1>1, <2>1, <2>3 DEF SetsKnown, Inv1, Control
<1> QED
  BY <1>3, <1>4 DEF WakeTask, ResumeFails

-----------------------------------------------------------------------------
(* Every step keeps who has the thread. *)

\* A step of a task that has the process thread, or that takes it.
LEMMA TaskTakes ==
    ASSUME Inv1, NEW t \in DOMAIN tasks, NEW r \in Task, Becomes(t, r),
           running \in {0, t}, running' \in {0, t}, loop = "pass", loop' = loop,
           r.status = "run" <=> running' = t, r.status = "wait" <=> r.to # {},
           running' = 0 => removal'["process"] = NoRemoval
    PROVE  ThreadTaken'
<1>1. /\ DOMAIN tasks' = DOMAIN tasks /\ tasks'[t] = r
      /\ \A u \in DOMAIN tasks : u # t => tasks'[u] = tasks[u]
  BY TaskBecomes DEF Inv1
<1>2. t # 0
  BY DEF Inv1, Values
<1>3. ASSUME NEW u \in DOMAIN tasks'
      PROVE  /\ tasks'[u].status = "run" <=> running' = u
             /\ tasks'[u].status = "wait" <=> tasks'[u].to # {}
  <2>1. CASE u = t
    BY <1>1, <2>1
  <2>2. CASE u # t
    <3>1. u # 0
      BY <1>1, <1>3 DEF Inv1, Values
    <3>2. tasks'[u] = tasks[u] /\ running # u /\ running' # u
      BY <1>1, <1>3, <2>2, <3>1
    <3> QED
      BY <1>1, <1>3, <3>2 DEF Inv1, Control, ThreadTaken
  <2> QED
    BY <2>1, <2>2
<1> QED
  BY <1>1, <1>2, <1>3 DEF ThreadTaken, ProcessFree

\* The others leave the tasks' statuses and the thread alone.
LEMMA ThreadStays ==
    ASSUME Inv1, DOMAIN tasks' = DOMAIN tasks, UNCHANGED <<loop, running>>,
           \A t \in DOMAIN tasks : /\ tasks'[t].status = tasks[t].status
                                   /\ tasks'[t].to = tasks[t].to,
           running = 0 => removal'["process"] = NoRemoval
    PROVE  ThreadTaken'
  BY DEF Inv1, Control, ThreadTaken, ProcessFree

\* A removal that raises leaves the thread to one task or to the loop.
LEMMA RaisedTaken ==
    ASSUME Inv1, NEW th \in Threads, removal[th].stage # "none", RaisedIn(th),
           UNCHANGED loop
    PROVE  ThreadTaken'
<1>1. CASE th = "process"
  <2>1. running # 0
    BY <1>1 DEF Inv1, Control, ThreadTaken, ProcessFree, NoRemoval
  <2>2. PICK t : t = running /\ t \in DOMAIN tasks /\ tasks[t] \in Task
                 /\ tasks[t].to = {} /\ loop = "pass"
    BY <2>1, Runs
  <2>3. PICK z : z = Over(tasks[t], "dead") /\ z \in Task
    BY <2>2, OverIsTask
  <2>4. Becomes(t, z) /\ running' = 0
    BY <1>1, <2>2, <2>3 DEF RaisedIn, Becomes
  <2>5. z.status = "dead" /\ z.to = {}
    BY <2>2, <2>3, OverFields
  <2>6. t # 0
    BY <2>1, <2>2
  <2>7. removal'["process"] = NoRemoval
    BY <1>1 DEF RaisedIn, Inv1, Values
  <2> QED
    BY <2>2, <2>3, <2>4, <2>5, <2>6, <2>7, TaskTakes
<1>2. CASE th # "process"
  <2>1. removal'["process"] = removal["process"] /\ UNCHANGED <<tasks, running>>
    BY <1>2 DEF RaisedIn, Inv1, Values
  <2> QED
    BY <2>1 DEF Inv1, Control, ThreadTaken, ProcessFree
<1> QED
  BY <1>1, <1>2

\* So does every step of a removal.
LEMMA RemoveTaken ==
    ASSUME Inv1, NEW th \in Threads, RemoveStep(th)
    PROVE  ThreadTaken'
<1>1. removal[th].stage # "none" /\ UNCHANGED loop
  BY DEF RemoveStep, RemoveLook, RemoveDrop
<1>2. CASE RaisedIn(th)
  BY <1>1, <1>2, RaisedTaken
<1>3. ASSUME NEW x, removal' = [removal EXCEPT ![th] = x],
             UNCHANGED <<tasks, running>>
      PROVE  ThreadTaken'
  <2>1. running = 0 => removal'["process"] = NoRemoval
    <3>1. CASE th = "process"
      BY <1>1, <3>1 DEF Inv1, Control, ThreadTaken, ProcessFree, NoRemoval
    <3>2. CASE th # "process"
      BY <1>3, <3>2 DEF Inv1, Values, Control, ThreadTaken, ProcessFree
    <3> QED
      BY <3>1, <3>2
  <2> QED
    BY <1>1, <1>3, <2>1, ThreadStays
<1>4. CASE RemoveLook(th)
  <2>1. ASSUME NEW k, LookAt(th, k)
        PROVE  ThreadTaken'
    <3>1. PICK x : removal' = [removal EXCEPT ![th] = x]
      BY <2>1 DEF LookAt
    <3> QED
      BY <1>3, <2>1, <3>1 DEF LookAt
  <2> QED
    BY <1>2, <1>3, <1>4, <2>1 DEF RemoveLook
<1>5. CASE RemoveDrop(th)
  BY <1>2, <1>3, <1>5 DEF RemoveDrop
<1> QED
  BY <1>4, <1>5 DEF RemoveStep

\* So does the endpoint, which is on the other thread.
LEMMA EndpointTaken ==
    ASSUME Inv1, Endpoint
    PROVE  ThreadTaken'
<1>1. ASSUME NEW P, NotOwed(P)
      PROVE  /\ DOMAIN tasks' = DOMAIN tasks
             /\ \A t \in DOMAIN tasks : /\ tasks'[t].status = tasks[t].status
                                        /\ tasks'[t].to = tasks[t].to
  <2>1. \A t \in DOMAIN tasks : tasks[t] \in Task
    BY DEF Inv1, Values
  <2>2. /\ DOMAIN tasks' = DOMAIN tasks
        /\ \A t \in DOMAIN tasks : tasks'[t] = [tasks[t] EXCEPT !.owed = @ \ P]
    BY <1>1, NotOwedTasks DEF Inv1
  <2> QED
    BY <2>1, <2>2, NotOwedFields
<1>2. UNCHANGED tasks \/ \E P : NotOwed(P)
  BY DEF Endpoint, Connect, Leave, Break, Ends, Subscribe, Unsubscribe, taskVars
<1>3. UNCHANGED <<loop, running>>
  BY DEF Endpoint, Connect, Leave, Break, Ends, Subscribe, Unsubscribe, taskVars
<1>4. removal'["process"] = removal["process"]
  <2>1. UNCHANGED removal \/ \E c : removal' = [removal EXCEPT !["main"] = Begin(c)]
    BY DEF Endpoint, Connect, Leave, Break, Subscribe, Unsubscribe
  <2> QED
    BY <2>1 DEF Inv1, Values, Threads
<1>5. CASE UNCHANGED tasks
  BY <1>3, <1>4, <1>5 DEF Inv1, Control, ThreadTaken, ProcessFree
<1>6. ASSUME NEW P, NotOwed(P)
      PROVE  ThreadTaken'
  <2>1. running = 0 => removal'["process"] = NoRemoval
    BY <1>4 DEF Inv1, Control, ThreadTaken, ProcessFree
  <2> QED
    BY <1>1, <1>3, <1>6, <2>1, ThreadStays
<1> QED
  BY <1>2, <1>5, <1>6

\* So does a send that raises.
LEMMA CaughtTaken ==
    ASSUME Inv1, NEW t \in DOMAIN tasks, NEW c \in Clients, Failed(t, c),
           running \in {0, t}, loop = "pass", loop' = loop
    PROVE  ThreadTaken'
<1>1. PICK r : r = GivenUp(tasks[t], c)
  OBVIOUS
<1>2. tasks[t] \in Task /\ r \in Task /\ Becomes(t, r) /\ running' = t
  BY <1>1, CaughtIs DEF Failed, Inv1, Values
<1>3. r.status = "run" /\ r.to = {} /\ t # 0
  BY <1>1, <1>2, GivenUpFields DEF Inv1, Values
<1> QED
  BY <1>2, <1>3, TaskTakes

\* So does a step of the task that has the thread.
LEMMA RunTaken ==
    ASSUME Inv1, RunTask
    PROVE  ThreadTaken'
<1>1. CASE StartTask
  <2>1. PICK t : t = FirstTask
    OBVIOUS
  <2>2. /\ t \in DOMAIN tasks /\ Started(t) \in Task /\ tasks[t] \in Task
        /\ Becomes(t, Started(t)) /\ tasks[t].status = "new"
    BY <1>1, <2>1, StartIs, FirstIsNew DEF StartTask
  <2>3. tasks[t].to = {}
    BY <2>2 DEF Inv1, Control, ThreadTaken
  <2>4. Started(t).status = "run" /\ Started(t).to = {}
    BY <2>2, <2>3, StartedFields
  <2>5. t # 0
    BY <2>2 DEF Inv1, Values
  <2>6. loop = "pass" /\ loop' = loop /\ running = 0 /\ running' = t
    BY <1>1, <2>1 DEF StartTask
  <2> QED
    BY <2>2, <2>4, <2>5, <2>6, TaskTakes
<1>2. ASSUME running # 0
      PROVE  ThreadTaken'
  <2>1. PICK t : t = running /\ t \in DOMAIN tasks /\ tasks[t] \in Task
                 /\ tasks[t].status = "run" /\ tasks[t].to = {} /\ loop = "pass"
    BY <1>2, Runs
  <2>2. t # 0
    BY <1>2, <2>1
  <2>3. ASSUME NEW how \in {"done", "dead"}, Over(tasks[t], how) \in Task,
               Becomes(t, Over(tasks[t], how)), running' = 0, UNCHANGED <<loop, removal>>,
               ProcessFree
        PROVE  ThreadTaken'
    <3>1. PICK z : z = Over(tasks[t], how)
      OBVIOUS
    <3>2. z.status = how /\ z.to = {}
      BY <2>1, <3>1, OverFields
    <3> QED
      BY <2>1, <2>2, <2>3, <3>1, <3>2, TaskTakes DEF ProcessFree
  <2>4. ASSUME NEW z \in Task, Becomes(t, z), UNCHANGED <<loop, running>>,
               z.status = "run", z.to = {}
        PROVE  ThreadTaken'
    BY <2>1, <2>2, <2>4, TaskTakes
  <2>5. CASE NextChannel
    <3>1. UNCHANGED <<loop, removal>> /\ ProcessFree
      BY <2>5 DEF NextChannel, InTask
    <3>2. PICK j \in DOMAIN tasks[t].left :
              \/ /\ Over(tasks[t], "dead") \in Task
                 /\ Becomes(t, Over(tasks[t], "dead")) /\ running' = 0
              \/ /\ AtEntry(tasks[t], j) \in Task
                 /\ Becomes(t, AtEntry(tasks[t], j)) /\ running' = running
      BY <2>1, <2>5, NextIs
    <3>3. AtEntry(tasks[t], j).status = "run" /\ AtEntry(tasks[t], j).to = {}
      BY <2>1, AtEntryFields
    <3> QED
      BY <2>3, <2>4, <3>1, <3>2, <3>3
  <2>6. CASE FinishTask
    <3>1. UNCHANGED <<loop, removal>> /\ ProcessFree /\ running' = 0
      BY <2>6 DEF FinishTask, AtEnd, InTask
    <3>2. Over(tasks[t], "done") \in Task /\ Becomes(t, Over(tasks[t], "done"))
      BY <2>1, <2>6, OverIsTask DEF FinishTask, Becomes
    <3> QED
      BY <2>3, <3>1, <3>2
  <2>7. ASSUME NEW c \in Clients, SkipClient(c) \/ Send(c)
        PROVE  ThreadTaken'
    <3>1. PICK z : z = [tasks[t] EXCEPT !.todo = @ \ {c}]
      OBVIOUS
    <3>2. z \in Task /\ Becomes(t, z)
      BY <2>1, <2>7, <3>1, SkipIs
    <3>3. z.status = "run" /\ z.to = {}
      BY <2>1, <3>1, SkipFields
    <3>4. UNCHANGED <<loop, running>>
      BY <2>7 DEF SkipClient, Send
    <3> QED
      BY <2>4, <3>2, <3>3, <3>4
  <2>8. ASSUME NEW c \in Clients, SendWaits(c)
        PROVE  ThreadTaken'
    <3>1. PICK z : z = InSend(tasks[t], c)
      OBVIOUS
    <3>2. z \in Task /\ Becomes(t, z)
      BY <2>1, <2>8, <3>1, WaitIs
    <3>3. z.status = "wait" /\ z.to = {c}
      BY <2>1, <3>1, InSendFields
    <3>4. running' = 0 /\ loop' = loop /\ removal'["process"] = NoRemoval
      BY <2>8 DEF SendWaits, Sendable, InTask, ProcessFree
    <3> QED
      BY <2>1, <2>2, <3>2, <3>3, <3>4, TaskTakes
  <2>9. ASSUME NEW c \in Clients, SendFails(c)
        PROVE  ThreadTaken'
    <3>1. Failed(t, c) /\ loop' = loop
      BY <2>1, <2>9 DEF SendFails, Failed
    <3> QED
      BY <2>1, <3>1, CaughtTaken
  <2> QED
    BY <1>2, <2>5, <2>6, <2>7, <2>8, <2>9 DEF RunTask, StartTask
<1>3. ASSUME running = 0
      PROVE  RunTask => StartTask
  BY <1>3 DEF RunTask, NextChannel, FinishTask, AtEnd, SkipClient, Send, SendWaits,
              SendFails, Sendable, InTask
<1> QED
  BY <1>1, <1>2, <1>3

\* So does a task that wakes.
LEMMA WakeTaken ==
    ASSUME Inv1, NEW t \in DOMAIN tasks, WakeTask(t)
    PROVE  ThreadTaken'
<1>1. running = 0 /\ loop = "pass" /\ loop' = loop /\ t # 0 /\ tasks[t] \in Task
  BY DEF WakeTask, Resume, ResumeFails, Failed, Waiting, Inv1, Values
<1>2. tasks[t].to \subseteq Clients
  BY <1>1, TaskFields
<1>3. CASE Resume(t)
  <2>1. PICK z : z = [tasks[t] EXCEPT !.status = "run", !.to = {}]
    OBVIOUS
  <2>2. z \in Task /\ Becomes(t, z)
    BY <1>3, <2>1, ResumeIs
  <2>3. z.status = "run" /\ z.to = {}
    BY <1>1, <2>1, ResumeFields
  <2>4. running' = t
    BY <1>3 DEF Resume
  <2> QED
    BY <1>1, <2>2, <2>3, <2>4, TaskTakes
<1>4. CASE ResumeFails(t)
  BY <1>1, <1>2, <1>4, CaughtTaken DEF ResumeFails
<1> QED
  BY <1>3, <1>4 DEF WakeTask

\* So does the loop between two passes.
LEMMA BatchTaken ==
    ASSUME Inv1, Batch \/ EndPass
    PROVE  ThreadTaken'
<1>1. CASE Batch
  <2>1. /\ running' = running /\ running = 0 /\ loop' = "pass"
        /\ UNCHANGED removal /\ ProcessFree
    BY <1>1 DEF Batch, Inv1, Control, ThreadTaken
  <2>2. ASSUME NEW t \in DOMAIN tasks'
        PROVE  /\ tasks'[t].status = "run" <=> running' = t
               /\ tasks'[t].status = "wait" <=> tasks'[t].to # {}
    <3>1. CASE t \in DOMAIN tasks
      BY <1>1, <2>1, <3>1, BatchTasks DEF Inv1, Control, ThreadTaken
    <3>2. CASE t \notin DOMAIN tasks
      <4>1. tasks'[t].status = "new" /\ tasks'[t].to = {}
        BY <1>1, <2>2, <3>2, BatchTasks
      <4>2. t # 0
        BY <1>1, <2>2, BatchTasks
      <4> QED
        BY <2>1, <4>1, <4>2
    <3> QED
      BY <3>1, <3>2
  <2> QED
    BY <2>1, <2>2 DEF ThreadTaken, ProcessFree
<1>2. CASE EndPass
  BY <1>2 DEF EndPass, Inv1, Control, ThreadTaken, ProcessFree
<1> QED
  BY <1>1, <1>2

-----------------------------------------------------------------------------
(* The variables have their types, and one actor at a time has a thread. *)

\* The first invariant holds at the start.
LEMMA Inv1Init == DeliveryInit => Inv1
<1>1. ASSUME DeliveryInit
      PROVE  Inv1
  <2>1. \A S : <<>> \in Seq(S)
    OBVIOUS
  <2>2. DOMAIN <<>> = {}
    OBVIOUS
  <2>3. Values
    BY <1>1, <2>1 DEF DeliveryInit, Values, NoRemoval, Removal
  <2>4. Control
    BY <1>1, <2>2 DEF DeliveryInit, Control, SetsKnown, ThreadTaken, Threads,
                      NoRemoval, ProcessFree
  <2> QED
    BY <2>3, <2>4 DEF Inv1
<1> QED
  BY <1>1

\* The first invariant is inductive.
LEMMA Inv1Next == Inv1 /\ [DeliveryNext]_deliveryVars => Inv1'
<1> SUFFICES ASSUME Inv1, [DeliveryNext]_deliveryVars
             PROVE  Inv1'
  OBVIOUS
<1>1. CASE UNCHANGED deliveryVars
  <2>1. Values'
    BY <1>1 DEF Inv1, Values, deliveryVars, managerVars, taskVars, historyVars
  <2>2. SetsKnown'
    BY <1>1 DEF Inv1, Control, SetsKnown, Sets, deliveryVars, managerVars, taskVars
  <2>3. ThreadTaken'
    BY <1>1 DEF Inv1, Control, ThreadTaken, ProcessFree, deliveryVars, taskVars
  <2> QED
    BY <2>1, <2>2, <2>3 DEF Inv1, Control
<1>2. CASE Endpoint
  <2>1. Values'
    BY <1>2, EndsValues, SubscribeValues DEF Endpoint
  <2> QED
    BY <1>2, <2>1, EndpointKnown, EndpointTaken DEF Inv1, Control
<1>3. ASSUME NEW th \in Threads, RemoveStep(th)
      PROVE  Inv1'
  <2>1. Values'
    BY <1>3, LookValues, DropValues DEF RemoveStep
  <2> QED
    BY <1>3, <2>1, RemoveKnown, RemoveTaken DEF Inv1, Control
<1>4. CASE Batch
  BY <1>4, BatchValues, RunKnown, BatchTaken DEF Inv1, Control
<1>5. CASE RunTask
  BY <1>5, RunValues, RunKnown, RunTaken DEF Inv1, Control
<1>6. CASE EndPass
  <2>1. Values'
    BY <1>6 DEF EndPass, managerVars, historyVars, Inv1, Values
  <2> QED
    BY <1>6, <2>1, RunKnown, BatchTaken DEF Inv1, Control
<1>7. ASSUME NEW t \in DOMAIN tasks, WakeTask(t)
      PROVE  Inv1'
  BY <1>7, WakeValues, WakeKnown, WakeTaken DEF Inv1, Control
<1> QED
  BY <1>1, <1>2, <1>3, <1>4, <1>5, <1>6, <1>7 DEF DeliveryNext

\* The variables of the delivery of events have their types: a task is running
\* exactly when the process thread is its own, and waits exactly when there is
\* a client in whose send it is.
THEOREM DeliveryTypesHold == DeliverySpec => []TypeOK
<1>1. Inv1 => TypeOK
  <2> SUFFICES ASSUME Inv1
               PROVE  TypeOK
    OBVIOUS
  <2>1. \A i \in DOMAIN subscriptions : subscriptions[i] \in Entry
    BY DEF Inv1, Values
  <2>2. \A i \in DOMAIN subscriptions :
            /\ subscriptions[i].channel \in Channels
            /\ subscriptions[i].set \in DOMAIN members
    BY <2>1 DEF Entry, Inv1, Control, SetsKnown, Sets
  <2>3. \A k \in DOMAIN members : members[k] \subseteq Clients
    BY DEF Inv1, Values
  <2>4. \A t \in DOMAIN tasks : tasks[t] \in Task
    BY DEF Inv1, Values
  <2>5. \A t \in DOMAIN tasks :
            tasks[t].status \in {"new", "run", "wait", "done", "dead"}
    BY <2>4, TaskFields
  <2> QED
    BY <2>2, <2>3, <2>5 DEF TypeOK, Inv1, Values, Control, ThreadTaken
<1> QED
  BY <1>1, Inv1Init, Inv1Next, PTL DEF DeliverySpec

-----------------------------------------------------------------------------
(* Every step keeps the manager. *)

Inv2 == Inv1 /\ Manager

\* A connection is made once and ends once.
ConnMoves ==
    \A c \in Clients :
        /\ conn[c] # "none" => conn'[c] # "none"
        /\ conn[c] = "open" => conn'[c] \in {"open", "ended"}
        /\ conn[c] = "ended" => conn'[c] = "ended"

\* Connections that stay as they are.
LEMMA OtherConn ==
    ASSUME Inv1, UNCHANGED conn
    PROVE  ConnMoves
  BY DEF ConnMoves

\* The endpoint never undoes a connection's end.
LEMMA EndpointConn ==
    ASSUME Inv1, Endpoint
    PROVE  ConnMoves
<1>1. UNCHANGED conn \/ \E c \in Clients :
          \/ conn[c] = "none" /\ conn' = [conn EXCEPT ![c] = "open"]
          \/ conn[c] = "open" /\ conn' = [conn EXCEPT ![c] = "ended"]
  BY DEF Endpoint, Connect, Leave, Break, Ends, Subscribe, Unsubscribe
<1> QED
  BY <1>1 DEF ConnMoves, Inv1, Values

\* The entries of the dict after a step.
LEMMA EntriesStay ==
    ASSUME Inv2, DeliveryNext
    PROVE  OneEntryEach'
<1>1. CASE UNCHANGED subscriptions
  BY <1>1 DEF Inv2, Manager, OneEntryEach
<1>2. ASSUME NEW c \in Clients, NEW ch \in Channels, Subscribe(c, ch),
             subscriptions' # subscriptions
      PROVE  OneEntryEach'
  <2>1. /\ EntriesOf(ch) = {}
        /\ subscriptions' =
               Append(subscriptions, [channel |-> ch, set |-> Len(members) + 1])
    BY <1>2 DEF Subscribe
  <2>2. Len(members) \in Nat /\ Sets = 1 .. Len(members)
    BY DEF Inv2, Inv1, Values, Sets
  <2>3. PICK e : e = [channel |-> ch, set |-> Len(members) + 1] /\ e \in Entry
                 /\ e.channel = ch /\ e.set = Len(members) + 1
    <3>1. [channel |-> ch, set |-> Len(members) + 1] \in Entry
      BY <2>2 DEF Entry
    <3> QED
      BY <3>1
  <2>4. PICK n : n = Len(subscriptions) + 1
    OBVIOUS
  <2>5. /\ DOMAIN subscriptions' = DOMAIN subscriptions \cup {n}
        /\ n \notin DOMAIN subscriptions /\ subscriptions'[n] = e
        /\ \A i \in DOMAIN subscriptions : subscriptions'[i] = subscriptions[i]
    BY <2>1, <2>3, <2>4, SeqAppend DEF Inv2, Inv1, Values
  <2>6. \A i \in DOMAIN subscriptions :
            subscriptions[i].channel # e.channel /\ subscriptions[i].set # e.set
    <3>1. \A i \in DOMAIN subscriptions : subscriptions[i].set \in 1 .. Len(members)
      BY <2>2 DEF Inv2, Inv1, Control, SetsKnown
    <3> QED
      BY <2>1, <2>2, <2>3, <3>1 DEF EntriesOf
  <2> QED
    BY <2>5, <2>6 DEF Inv2, Manager, OneEntryEach
<1>3. ASSUME NEW c \in Clients, NEW ch \in Channels, Unsubscribe(c, ch),
             subscriptions' # subscriptions
      PROVE  OneEntryEach'
  <2>1. PICK i \in DOMAIN subscriptions : subscriptions' = RemoveAt(subscriptions, i)
    BY <1>3 DEF Unsubscribe, EntriesOf
  <2>2. PICK n \in Nat : n = Len(subscriptions) /\ DOMAIN subscriptions = 1 .. n
    BY DEF Inv2, Inv1, Values
  <2>3. /\ DOMAIN subscriptions' = 1 .. n - 1
        /\ \A j \in DOMAIN subscriptions' :
              subscriptions'[j] = IF j < i THEN subscriptions[j]
                                           ELSE subscriptions[j + 1]
    <3>1. subscriptions \in Seq(Entry)
      BY DEF Inv2, Inv1, Values
    <3>2. /\ subscriptions' \in Seq(Entry) /\ Len(subscriptions') = n - 1
          /\ \A j \in DOMAIN subscriptions' :
                subscriptions'[j] = IF j < i THEN subscriptions[j]
                                             ELSE subscriptions[j + 1]
      BY <2>1, <2>2, <3>1, SeqRemove
    <3> QED
      BY <2>2, <3>2
  <2> DEFINE at(j) == IF j < i THEN j ELSE j + 1
  <2>4. \A j \in 1 .. n - 1 : at(j) \in 1 .. n /\ subscriptions'[j] = subscriptions[at(j)]
    BY <2>2, <2>3
  <2>5. \A j, k \in 1 .. n - 1 : at(j) = at(k) => j = k
    BY <2>2
  <2> HIDE DEF at
  <2> QED
    BY <2>2, <2>3, <2>4, <2>5 DEF Inv2, Manager, OneEntryEach
<1>4. \/ UNCHANGED subscriptions
      \/ \E c \in Clients, ch \in Channels : Subscribe(c, ch) \/ Unsubscribe(c, ch)
  BY DEF DeliveryNext, Endpoint, Connect, Leave, Break, Ends, RemoveStep, RemoveLook,
         RemoveDrop, Batch, RunTask, EndPass, StartTask, NextChannel, FinishTask,
         SkipClient, Send, SendWaits, SendFails, Failed, WakeTask, Resume,
         ResumeFails, managerVars
<1> QED
  BY <1>1, <1>2, <1>3, <1>4

\* What a step leaves of the sets.
SetsShrink ==
    /\ Sets' = Sets
    /\ \A k \in Sets : members'[k] \subseteq members[k]

\* What a step of a task leaves of the clients it has to come to.
TodoShrinks(r, z) == z.todo \cup z.to \subseteq r.todo \cup r.to

\* The clients a task has before it have connected, if they only get fewer.
LEMMA TodoKnown ==
    ASSUME Inv2, ConnMoves, NEW t \in DOMAIN tasks, NEW z \in Task, Becomes(t, z),
           TodoShrinks(tasks[t], z)
    PROVE  \A u \in DOMAIN tasks' : \A c \in tasks'[u].todo \cup tasks'[u].to :
               conn'[c] # "none"
<1>1. /\ DOMAIN tasks' = DOMAIN tasks /\ tasks'[t] = z
      /\ \A u \in DOMAIN tasks : u # t => tasks'[u] = tasks[u]
  BY TaskBecomes DEF Inv1, Inv2
<1>2. ASSUME NEW u \in DOMAIN tasks, NEW c \in tasks'[u].todo \cup tasks'[u].to
      PROVE  conn'[c] # "none"
  <2>1. c \in tasks[u].todo \cup tasks[u].to
    BY <1>1, <1>2 DEF TodoShrinks
  <2>2. c \in Clients
    <3>1. tasks[u] \in Task
      BY DEF Inv2, Inv1, Values
    <3> QED
      BY <2>1, <3>1, TaskFields
  <2> QED
    BY <2>1, <2>2 DEF Inv2, Manager, Known, ConnMoves
<1> QED
  BY <1>1, <1>2

\* A removal that goes on or begins.
LEMMA RemovingKept ==
    ASSUME Inv2, ConnMoves, NEW th \in Threads, NEW x,
           removal' = [removal EXCEPT ![th] = x], failed \subseteq failed',
           x.stage # "none" => LeftOrFailed(x.client)'
    PROVE  \A h \in Threads : Removing(h)'
<1>1. ASSUME NEW h \in Threads
      PROVE  Removing(h)'
  <2>1. CASE h = th
    BY <2>1 DEF Removing, Inv2, Inv1, Values
  <2>2. CASE h # th
    <3>1. removal'[h] = removal[h]
      BY <2>2 DEF Inv2, Inv1, Values
    <3>2. CASE removal[h].stage # "none"
      <4>1. removal[h].client \in Clients
        BY <3>2, LookIsRecord DEF Inv2, Inv1
      <4>2. LeftOrFailed(removal[h].client)
        BY <3>2 DEF Inv2, Manager, Removing
      <4>3. LeftOrFailed(removal[h].client)'
        BY <3>1, <4>1, <4>2 DEF LeftOrFailed, ConnMoves
      <4> QED
        BY <3>1, <4>3 DEF Removing
    <3> QED
      BY <3>1, <3>2 DEF Removing
  <2> QED
    BY <2>1, <2>2
<1> QED
  BY <1>1

\* Removals that stay as they are.
LEMMA RemovingSame ==
    ASSUME Inv2, ConnMoves, UNCHANGED <<removal, failed>>
    PROVE  \A h \in Threads : Removing(h)'
<1>1. ASSUME NEW h \in Threads, removal[h].stage # "none"
      PROVE  LeftOrFailed(removal[h].client)'
  <2>1. removal[h].client \in Clients
    BY <1>1, LookIsRecord DEF Inv2, Inv1
  <2>2. LeftOrFailed(removal[h].client)
    BY <1>1 DEF Inv2, Manager, Removing
  <2> QED
    BY <2>1, <2>2 DEF LeftOrFailed, ConnMoves
<1> QED
  BY <1>1 DEF Removing

\* Known, when the sets have lost members at most and nobody has been taken out
\* of active_connections who is still there to be sent to.
LEMMA KnownKept ==
    ASSUME Inv2, ConnMoves, SetsShrink,
           \A u \in DOMAIN tasks' : \A c \in tasks'[u].todo \cup tasks'[u].to :
               conn'[c] # "none",
           \A c \in Clients : conn'[c] = "open" /\ c \in active \cup failed =>
               c \in active' \cup failed',
           \A c \in Clients : conn'[c] = "open" => conn[c] = "open"
    PROVE  Known'
<1>1. ASSUME NEW k \in Sets', NEW c \in members'[k]
      PROVE  conn'[c] # "none"
  <2>1. k \in Sets /\ c \in members[k] /\ c \in Clients
    BY <1>1 DEF SetsShrink, Inv2, Inv1, Values, Sets
  <2> QED
    BY <2>1 DEF Inv2, Manager, Known, ConnMoves
<1>2. ASSUME NEW c \in Clients, conn'[c] = "open"
      PROVE  c \in active' \cup failed'
  BY <1>2 DEF Inv2, Manager, Known
<1> QED
  BY <1>1, <1>2 DEF Known

\* Sets that stay as they are.
LEMMA SetsSame ==
    ASSUME UNCHANGED members
    PROVE  SetsShrink
  BY DEF SetsShrink, Sets

\* A set that loses c, or gains it.
LEMMA MemberChange ==
    ASSUME Inv1, NEW k \in Sets, NEW S, members' = [members EXCEPT ![k] = S]
    PROVE  /\ Sets' = Sets /\ members'[k] = S
           /\ \A i \in Sets : i # k => members'[i] = members[i]
  BY DEF Inv1, Values, Sets

\* The same for all tasks.
LEMMA TasksTodo ==
    ASSUME Inv2, ConnMoves, DOMAIN tasks' = DOMAIN tasks,
           \A u \in DOMAIN tasks : TodoShrinks(tasks[u], tasks'[u])
    PROVE  \A u \in DOMAIN tasks' : \A c \in tasks'[u].todo \cup tasks'[u].to :
               conn'[c] # "none"
<1>1. ASSUME NEW u \in DOMAIN tasks, NEW c \in tasks'[u].todo \cup tasks'[u].to
      PROVE  conn'[c] # "none"
  <2>1. c \in tasks[u].todo \cup tasks[u].to
    BY <1>1 DEF TodoShrinks
  <2>2. c \in Clients
    <3>1. tasks[u] \in Task
      BY DEF Inv2, Inv1, Values
    <3> QED
      BY <2>1, <3>1, TaskFields
  <2> QED
    BY <2>1, <2>2 DEF Inv2, Manager, Known, ConnMoves
<1> QED
  BY <1>1

\* An unsubscription or an end gives no task more clients.
LEMMA NotOwedTodo ==
    ASSUME Inv2, NEW P, NotOwed(P)
    PROVE  /\ DOMAIN tasks' = DOMAIN tasks
           /\ \A u \in DOMAIN tasks : TodoShrinks(tasks[u], tasks'[u])
<1>1. \A t \in DOMAIN tasks : tasks[t] \in Task
  BY DEF Inv2, Inv1, Values
<1>2. /\ DOMAIN tasks' = DOMAIN tasks
      /\ \A t \in DOMAIN tasks : tasks'[t] = [tasks[t] EXCEPT !.owed = @ \ P]
  BY NotOwedTasks DEF Inv2, Inv1
<1>3. \A t \in DOMAIN tasks : tasks'[t].todo = tasks[t].todo /\ tasks'[t].to = tasks[t].to
  BY <1>1, <1>2, NotOwedFields
<1> QED
  BY <1>2, <1>3 DEF TodoShrinks

\* The endpoint keeps the manager in order.
LEMMA EndpointManager ==
    ASSUME Inv2, Endpoint
    PROVE  Known' /\ \A h \in Threads : Removing(h)'
<1>1. ConnMoves
  BY EndpointConn DEF Inv2
<1>2. \A u \in DOMAIN tasks : TodoShrinks(tasks[u], tasks[u])
  BY DEF TodoShrinks
<1>3. ASSUME NEW c \in Clients, Connect(c)
      PROVE  Known' /\ \A h \in Threads : Removing(h)'
  <2>1. UNCHANGED <<tasks, members, removal, failed>> /\ active' = active \cup {c}
        /\ conn' = [conn EXCEPT ![c] = "open"]
    BY <1>3 DEF Connect, taskVars, historyVars
  <2>2. \A u \in DOMAIN tasks' : \A d \in tasks'[u].todo \cup tasks'[u].to :
            conn'[d] # "none"
    BY <1>1, <1>2, <2>1, TasksTodo
  <2>3. \A k \in Sets' : \A d \in members'[k] : conn'[d] # "none"
    <3>1. \A k \in Sets : \A d \in members[k] : d \in Clients /\ conn[d] # "none"
      BY DEF Inv2, Inv1, Values, Manager, Known, Sets
    <3> QED
      BY <1>1, <2>1, <3>1 DEF ConnMoves, Sets
  <2>4. \A d \in Clients : conn'[d] = "open" => d \in active' \cup failed'
    BY <2>1 DEF Inv2, Inv1, Values, Manager, Known
  <2> QED
    BY <1>1, <2>1, <2>2, <2>3, <2>4, RemovingSame DEF Known
<1>4. ASSUME NEW c \in Clients, Leave(c) \/ Break(c)
      PROVE  Known' /\ \A h \in Threads : Removing(h)'
  <2>1. /\ NotOwed({c} \X Channels) /\ UNCHANGED <<members, failed, active>>
        /\ conn' = [conn EXCEPT ![c] = "ended"]
    BY <1>4 DEF Leave, Break, Ends, managerVars, historyVars
  <2>2. \A u \in DOMAIN tasks' : \A d \in tasks'[u].todo \cup tasks'[u].to :
            conn'[d] # "none"
    BY <1>1, <2>1, NotOwedTodo, TasksTodo
  <2>3. \A d \in Clients : conn'[d] = "open" => conn[d] = "open"
    BY <2>1 DEF Inv2, Inv1, Values
  <2>4. Known'
    BY <1>1, <2>1, <2>2, <2>3, SetsSame, KnownKept
  <2>5. CASE Leave(c)
    <3>1. removal' = [removal EXCEPT !["main"] = Begin(c)] /\ "main" \in Threads
      BY <2>5 DEF Leave, Threads
    <3>2. LeftOrFailed(Begin(c).client)'
      BY <2>1 DEF LeftOrFailed, Begin, Inv2, Inv1, Values
    <3> QED
      BY <1>1, <2>1, <2>4, <3>1, <3>2, RemovingKept
  <2>6. CASE Break(c)
    BY <1>1, <2>1, <2>4, <2>6, RemovingSame DEF Break
  <2> QED
    BY <1>4, <2>5, <2>6
<1>5. ASSUME NEW c \in Clients, NEW ch \in Channels, Subscribe(c, ch)
      PROVE  Known' /\ \A h \in Threads : Removing(h)'
  <2>1. /\ UNCHANGED <<tasks, conn, active, removal, failed>>
        /\ conn[c] = "open"
    BY <1>5 DEF Subscribe, Requested, taskVars, historyVars
  <2>2. \A k \in Sets' : members'[k] \subseteq {c} \cup
                              (IF k \in Sets THEN members[k] ELSE {})
    <3>1. CASE members' = Append(members, {c})
      <4>1. /\ Sets' = Sets \cup {Len(members) + 1} /\ Len(members) + 1 \notin Sets
            /\ members'[Len(members) + 1] = {c}
            /\ \A k \in Sets : members'[k] = members[k]
        BY <3>1, SeqAppend DEF Inv2, Inv1, Values, Sets
      <4> QED
        BY <4>1
    <3>2. ASSUME NEW i \in EntriesOf(ch),
                 members' = [members EXCEPT ![subscriptions[i].set] = @ \cup {c}]
          PROVE  \A k \in Sets' : members'[k] \subseteq {c} \cup
                              (IF k \in Sets THEN members[k] ELSE {})
      <4>1. PICK k : k = subscriptions[i].set /\ k \in Sets
        BY DEF Inv2, Inv1, Control, SetsKnown, EntriesOf
      <4>2. /\ Sets' = Sets /\ members'[k] = members[k] \cup {c}
            /\ \A j \in Sets : j # k => members'[j] = members[j]
        BY <3>2, <4>1, MemberChange DEF Inv2
      <4> QED
        BY <4>1, <4>2
    <3> QED
      BY <1>5, <3>1, <3>2 DEF Subscribe
  <2>3. \A k \in Sets' : \A d \in members'[k] : conn'[d] # "none"
    BY <2>1, <2>2 DEF Inv2, Manager, Known
  <2>4. Known'
    BY <2>1, <2>3 DEF Known, Inv2, Manager
  <2> QED
    BY <1>1, <2>1, <2>4, RemovingSame
<1>6. ASSUME NEW c \in Clients, NEW ch \in Channels, Unsubscribe(c, ch)
      PROVE  Known' /\ \A h \in Threads : Removing(h)'
  <2>1. NotOwed({<<c, ch>>}) /\ UNCHANGED <<conn, active, removal, failed>>
    BY <1>6 DEF Unsubscribe, Requested, historyVars
  <2>2. SetsShrink
    <3>1. PICK i \in EntriesOf(ch) :
              members' = [members EXCEPT ![subscriptions[i].set] = @ \ {c}]
      BY <1>6 DEF Unsubscribe
    <3>2. PICK k : k = subscriptions[i].set /\ k \in Sets
      BY DEF Inv2, Inv1, Control, SetsKnown, EntriesOf
    <3>3. /\ Sets' = Sets /\ members'[k] = members[k] \ {c}
          /\ \A j \in Sets : j # k => members'[j] = members[j]
      BY <3>1, <3>2, MemberChange DEF Inv2
    <3> QED
      BY <3>2, <3>3 DEF SetsShrink
  <2>3. \A u \in DOMAIN tasks' : \A d \in tasks'[u].todo \cup tasks'[u].to :
            conn'[d] # "none"
    BY <1>1, <2>1, NotOwedTodo, TasksTodo
  <2> QED
    BY <1>1, <2>1, <2>2, <2>3, KnownKept, RemovingSame
<1> QED
  BY <1>3, <1>4, <1>5, <1>6 DEF Endpoint

\* A removal that raises gives no task more clients.
LEMMA RaisedTodo ==
    ASSUME Inv2, NEW th \in Threads, removal[th].stage # "none", RaisedIn(th)
    PROVE  /\ DOMAIN tasks' = DOMAIN tasks
           /\ \A u \in DOMAIN tasks : TodoShrinks(tasks[u], tasks'[u])
<1>1. CASE UNCHANGED tasks
  BY <1>1 DEF TodoShrinks
<1>2. CASE th = "process"
  <2>1. running # 0
    BY <1>2 DEF Inv2, Inv1, Control, ThreadTaken, ProcessFree, NoRemoval
  <2>2. running \in DOMAIN tasks /\ tasks[running] \in Task
    BY <2>1, Runs DEF Inv2
  <2>3. PICK z : z = Over(tasks[running], "dead") /\ z \in Task
    BY <2>2, OverIsTask
  <2>4. Becomes(running, z)
    BY <1>2, <2>3 DEF RaisedIn, Becomes
  <2>5. z.todo = {} /\ z.to = tasks[running].to
    BY <2>2, <2>3, OverFields
  <2>6. /\ DOMAIN tasks' = DOMAIN tasks /\ tasks'[running] = z
        /\ \A u \in DOMAIN tasks : u # running => tasks'[u] = tasks[u]
    BY <2>2, <2>3, <2>4, TaskBecomes DEF Inv2, Inv1
  <2> QED
    BY <2>5, <2>6 DEF TodoShrinks
<1> QED
  BY <1>1, <1>2 DEF RaisedIn

\* A step of a removal keeps the manager in order.
LEMMA RemoveManager ==
    ASSUME Inv2, NEW th \in Threads, RemoveStep(th)
    PROVE  Known' /\ \A h \in Threads : Removing(h)'
<1>1. /\ ConnMoves /\ UNCHANGED <<conn, failed>> /\ removal[th].stage # "none"
      /\ \A c \in Clients : conn'[c] = "open" => conn[c] = "open"
  BY OtherConn DEF RemoveStep, RemoveLook, RemoveDrop, historyVars, Inv2
<1>2. PICK r : r = removal[th] /\ r.client \in Clients
  BY <1>1, LookIsRecord DEF Inv2, Inv1
<1>3. LeftOrFailed(r.client) /\ LeftOrFailed(r.client)'
  BY <1>1, <1>2 DEF Inv2, Manager, Removing, LeftOrFailed
<1>4. /\ DOMAIN tasks' = DOMAIN tasks
      /\ \A u \in DOMAIN tasks : TodoShrinks(tasks[u], tasks'[u])
  <2>1. RaisedIn(th) \/ UNCHANGED tasks
    BY DEF RemoveStep, RemoveLook, RemoveDrop, LookAt
  <2> QED
    BY <1>1, <2>1, RaisedTodo DEF TodoShrinks
<1>5. \A u \in DOMAIN tasks' : \A d \in tasks'[u].todo \cup tasks'[u].to :
          conn'[d] # "none"
  BY <1>1, <1>4, TasksTodo
<1>6. SetsShrink /\ active \ {r.client} \subseteq active'
  <2>1. CASE UNCHANGED <<active, members>>
    BY <2>1, SetsSame
  <2>2. CASE RemoveDrop(th) /\ Holds(r.at, r.client)
    <3>1. CASE r.at = 0
      <4>1. UNCHANGED members /\ active' = active \ {r.client}
        BY <1>2, <2>2, <3>1 DEF RemoveDrop
      <4> QED
        BY <4>1, SetsSame
    <3>2. CASE r.at # 0
      <4>1. r.at \in Sets
        BY <1>2, <2>2, <3>2 DEF RemoveDrop, Inv2, Inv1, Control, SetsKnown
      <4>2. members' = [members EXCEPT ![r.at] = @ \ {r.client}] /\ active' = active
        BY <1>2, <2>2, <3>2 DEF RemoveDrop
      <4>3. /\ Sets' = Sets /\ members'[r.at] = members[r.at] \ {r.client}
            /\ \A j \in Sets : j # r.at => members'[j] = members[j]
        BY <4>1, <4>2, MemberChange DEF Inv2
      <4> QED
        BY <4>2, <4>3 DEF SetsShrink
    <3> QED
      BY <3>1, <3>2
  <2> QED
    BY <1>2, <2>1, <2>2 DEF RemoveStep, RemoveLook, RemoveDrop, managerVars
<1>7. Known'
  <2>1. \A c \in Clients : conn'[c] = "open" /\ c \in active \cup failed =>
            c \in active' \cup failed'
    BY <1>1, <1>3, <1>6 DEF LeftOrFailed
  <2> QED
    BY <1>1, <1>5, <1>6, <2>1, KnownKept
<1>8. PICK x : /\ removal' = [removal EXCEPT ![th] = x]
               /\ x.stage # "none" => x.client = r.client
  <2>1. /\ \A k : [r EXCEPT !.stage = "drop", !.at = k].client = r.client
        /\ \A k : Seen(r, k).client = r.client
    BY <1>1, <1>2, LookIsRecord DEF Inv2, Inv1
  <2>2. CASE removal' = [removal EXCEPT ![th] = NoRemoval]
    <3>1. NoRemoval.stage = "none"
      BY DEF NoRemoval
    <3> QED
      BY <2>2, <3>1
  <2>3. ASSUME NEW k, LookAt(th, k)
        PROVE  \E x : /\ removal' = [removal EXCEPT ![th] = x]
                      /\ x.stage # "none" => x.client = r.client
    <3>1. CASE Holds(k, r.client)
      BY <1>2, <2>1, <2>3, <3>1 DEF LookAt
    <3>2. CASE ~ Holds(k, r.client)
      BY <1>2, <2>1, <2>3, <3>2 DEF LookAt
    <3> QED
      BY <3>1, <3>2
  <2>4. CASE removal' = [removal EXCEPT ![th] = Seen(r, r.at)]
    BY <2>1, <2>4
  <2> QED
    BY <1>2, <2>2, <2>3, <2>4 DEF RemoveStep, RemoveLook, RemoveDrop, RaisedIn
<1> QED
  BY <1>1, <1>3, <1>7, <1>8, RemovingKept

\* A task's step that leaves the manager alone.
LEMMA TaskManager ==
    ASSUME Inv2, UNCHANGED <<conn, active, members, removal, failed>>,
           \A u \in DOMAIN tasks' : \A d \in tasks'[u].todo \cup tasks'[u].to :
               conn'[d] # "none"
    PROVE  Known' /\ \A h \in Threads : Removing(h)'
<1>1. ConnMoves
  BY OtherConn DEF Inv2
<1> QED
  BY <1>1, SetsSame, KnownKept, RemovingSame

\* A task that gives a client up, which has left active_connections or a send
\* to which has failed.
LEMMA GivesUp ==
    ASSUME Inv2, UNCHANGED <<conn, active, members>>, failed \subseteq failed',
           NEW c \in Clients, removal' = [removal EXCEPT !["process"] = Begin(c)],
           conn[c] # "none", c \in failed' \/ c \notin active,
           \A u \in DOMAIN tasks' : \A d \in tasks'[u].todo \cup tasks'[u].to :
               conn'[d] # "none"
    PROVE  Known' /\ \A h \in Threads : Removing(h)'
<1>1. ConnMoves /\ "process" \in Threads
  BY OtherConn DEF Inv2, Threads
<1>2. LeftOrFailed(Begin(c).client)'
  <2>1. c \in failed' \/ conn[c] # "open"
    BY DEF Inv2, Manager, Known
  <2>2. Begin(c).client = c
    BY DEF Begin
  <2> QED
    BY <2>1, <2>2 DEF LeftOrFailed, Inv2, Inv1, Values
<1>3. Known'
  BY <1>1, SetsSame, KnownKept
<1> QED
  BY <1>1, <1>2, <1>3, RemovingKept

\* A send that fails begins a removal of a client that has connected.
LEMMA FailsManager ==
    ASSUME Inv2, NEW t \in DOMAIN tasks, NEW c \in tasks[t].todo \cup tasks[t].to,
           Failed(t, c)
    PROVE  Known' /\ \A h \in Threads : Removing(h)'
<1>1. tasks[t] \in Task /\ conn[c] # "none" /\ c \in Clients
  <2>1. tasks[t] \in Task
    BY DEF Inv2, Inv1, Values
  <2> QED
    BY <2>1, TaskFields DEF Inv2, Manager, Known
<1>2. PICK r : r = GivenUp(tasks[t], c)
  OBVIOUS
<1>3. r \in Task /\ Becomes(t, r)
  BY <1>2, CaughtIs DEF Failed, Inv2
<1>4. TodoShrinks(tasks[t], r)
  <2>1. r.todo = tasks[t].todo \ {c} /\ r.to = {}
    BY <1>1, <1>2, GivenUpFields
  <2> QED
    BY <2>1 DEF TodoShrinks
<1>5. UNCHANGED <<conn, active, members>> /\ failed' = failed \cup {c}
      /\ removal' = [removal EXCEPT !["process"] = Begin(c)]
  BY DEF Failed, Caught, managerVars
<1>6. ConnMoves
  BY <1>5, OtherConn DEF Inv2
<1>7. \A u \in DOMAIN tasks' : \A d \in tasks'[u].todo \cup tasks'[u].to :
          conn'[d] # "none"
  BY <1>3, <1>4, <1>6, TodoKnown
<1> QED
  BY <1>1, <1>5, <1>7, GivesUp

\* A step of the task that has the thread keeps the manager in order.
LEMMA RunManager ==
    ASSUME Inv2, RunTask
    PROVE  Known' /\ \A h \in Threads : Removing(h)'
<1>1. UNCHANGED <<conn, active, members>>
  BY DEF RunTask, StartTask, NextChannel, FinishTask, SkipClient, Send, SendWaits,
         SendFails, Failed, managerVars
<1>2. ConnMoves /\ "process" \in Threads
  BY <1>1, OtherConn DEF Inv2, Threads
<1>3. ASSUME NEW t \in DOMAIN tasks, NEW z \in Task, Becomes(t, z),
             TodoShrinks(tasks[t], z), UNCHANGED <<removal, failed>>
      PROVE  Known' /\ \A h \in Threads : Removing(h)'
  BY <1>1, <1>2, <1>3, TodoKnown, TaskManager
<1>4. CASE StartTask
  <2>1. PICK t : t = FirstTask
    OBVIOUS
  <2>2. /\ t \in DOMAIN tasks /\ Started(t) \in Task /\ tasks[t] \in Task
        /\ Becomes(t, Started(t)) /\ UNCHANGED <<removal, failed>>
    BY <1>4, <2>1, StartIs, FirstIsNew DEF StartTask, historyVars, Inv2
  <2>3. TodoShrinks(tasks[t], Started(t))
    BY <2>2, StartedFields DEF TodoShrinks
  <2> QED
    BY <1>3, <2>2, <2>3
<1>5. CASE NextChannel
  <2>1. PICK t : t = running /\ t \in DOMAIN tasks /\ tasks[t] \in Task
    BY <1>5, Runs DEF NextChannel, InTask, Inv2
  <2>2. UNCHANGED <<removal, failed>>
    BY <1>5 DEF NextChannel, historyVars
  <2>3. PICK j \in DOMAIN tasks[t].left :
            /\ tasks[t].left[j].set \in Sets
            /\ \/ Over(tasks[t], "dead") \in Task /\ Becomes(t, Over(tasks[t], "dead"))
               \/ AtEntry(tasks[t], j) \in Task /\ Becomes(t, AtEntry(tasks[t], j))
    BY <1>5, <2>1, NextIs DEF Inv2, Sets
  <2>4. CASE Over(tasks[t], "dead") \in Task /\ Becomes(t, Over(tasks[t], "dead"))
    <3>1. TodoShrinks(tasks[t], Over(tasks[t], "dead"))
      BY <2>1, OverFields DEF TodoShrinks
    <3> QED
      BY <1>3, <2>1, <2>2, <2>4, <3>1
  <2>5. CASE AtEntry(tasks[t], j) \in Task /\ Becomes(t, AtEntry(tasks[t], j))
    <3>1. PICK z : z = AtEntry(tasks[t], j) /\ z \in Task /\ Becomes(t, z)
      BY <2>5
    <3>2. z.todo = members[tasks[t].left[j].set] /\ z.to = tasks[t].to
      BY <2>1, <3>1, AtEntryFields
    <3>3. \A d \in z.todo \cup z.to : conn[d] # "none"
      BY <2>1, <2>3, <3>2 DEF Inv2, Manager, Known
    <3>4. /\ DOMAIN tasks' = DOMAIN tasks /\ tasks'[t] = z
          /\ \A u \in DOMAIN tasks : u # t => tasks'[u] = tasks[u]
      BY <2>1, <3>1, TaskBecomes DEF Inv2, Inv1
    <3>5. \A u \in DOMAIN tasks' : \A d \in tasks'[u].todo \cup tasks'[u].to :
              conn'[d] # "none"
      BY <1>1, <3>3, <3>4 DEF Inv2, Manager, Known
    <3> QED
      BY <1>1, <2>2, <3>5, TaskManager
  <2> QED
    BY <2>3, <2>4, <2>5
<1>6. CASE FinishTask
  <2>1. running \in DOMAIN tasks /\ tasks[running] \in Task
    BY <1>6, Runs DEF FinishTask, AtEnd, InTask, Inv2
  <2>2. PICK z : z = Over(tasks[running], "done") /\ z \in Task
    BY <2>1, OverIsTask
  <2>3. TodoShrinks(tasks[running], z)
    BY <2>1, <2>2, OverFields DEF TodoShrinks
  <2>4. Becomes(running, z) /\ UNCHANGED <<removal, failed>>
    BY <1>6, <2>2 DEF FinishTask, Becomes, historyVars
  <2> QED
    BY <1>3, <2>1, <2>2, <2>3, <2>4
<1>7. ASSUME NEW c \in Clients, SkipClient(c) \/ Send(c) \/ SendWaits(c) \/ SendFails(c)
      PROVE  Known' /\ \A h \in Threads : Removing(h)'
  <2>1. PICK t : /\ t = running /\ t \in DOMAIN tasks /\ tasks[t] \in Task
                 /\ c \in tasks[t].todo
    BY <1>7, Runs DEF SkipClient, Send, SendWaits, SendFails, Sendable, InTask, Inv2
  <2>2. CASE SkipClient(c) \/ Send(c)
    <3>1. PICK z : z = [tasks[t] EXCEPT !.todo = @ \ {c}] /\ z \in Task /\ Becomes(t, z)
      BY <2>1, <2>2, SkipIs DEF Inv2
    <3>2. z.todo = tasks[t].todo \ {c} /\ z.to = tasks[t].to
      BY <2>1, <3>1, SkipFields
    <3>3. TodoShrinks(tasks[t], z)
      BY <3>2 DEF TodoShrinks
    <3>4. CASE Send(c)
      BY <1>3, <2>1, <3>1, <3>3, <3>4 DEF Send
    <3>5. CASE SkipClient(c)
      <4>1. /\ removal' = [removal EXCEPT !["process"] = Begin(c)]
            /\ c \notin active /\ failed' = failed
        BY <3>5 DEF SkipClient, historyVars
      <4>2. conn[c] # "none"
        BY <2>1 DEF Inv2, Manager, Known
      <4>3. \A u \in DOMAIN tasks' : \A d \in tasks'[u].todo \cup tasks'[u].to :
                conn'[d] # "none"
        BY <1>2, <2>1, <3>1, <3>3, TodoKnown
      <4> QED
        BY <1>1, <4>1, <4>2, <4>3, GivesUp
    <3> QED
      BY <2>2, <3>4, <3>5
  <2>3. CASE SendWaits(c)
    <3>1. PICK z : z = InSend(tasks[t], c) /\ z \in Task /\ Becomes(t, z)
      BY <2>1, <2>3, WaitIs DEF Inv2
    <3>2. z.todo = tasks[t].todo \ {c} /\ z.to = {c}
      BY <2>1, <3>1, InSendFields
    <3>3. TodoShrinks(tasks[t], z)
      BY <2>1, <3>2 DEF TodoShrinks
    <3> QED
      BY <1>3, <2>1, <2>3, <3>1, <3>3 DEF SendWaits
  <2>4. CASE SendFails(c)
    BY <2>1, <2>4, FailsManager DEF SendFails
  <2> QED
    BY <1>7, <2>2, <2>3, <2>4
<1> QED
  BY <1>4, <1>5, <1>6, <1>7 DEF RunTask

\* So do the loop and the tasks that wake.
LEMMA OtherManager ==
    ASSUME Inv2, Batch \/ EndPass \/ \E t \in DOMAIN tasks : WakeTask(t)
    PROVE  Known' /\ \A h \in Threads : Removing(h)'
<1>1. CASE Batch
  <2>1. UNCHANGED <<conn, active, members, removal, failed>>
    BY <1>1 DEF Batch, managerVars, historyVars
  <2>2. /\ tasks' \in Seq(Task)
        /\ \A t \in DOMAIN tasks : tasks'[t] = tasks[t]
        /\ \A t \in DOMAIN tasks' \ DOMAIN tasks :
              tasks'[t].todo = {} /\ tasks'[t].to = {}
    BY <1>1, BatchTasks DEF Inv2
  <2>3. \A u \in DOMAIN tasks' : \A d \in tasks'[u].todo \cup tasks'[u].to :
            conn'[d] # "none"
    BY <2>1, <2>2 DEF Inv2, Manager, Known
  <2> QED
    BY <2>1, <2>3, TaskManager
<1>2. CASE EndPass
  <2>1. UNCHANGED <<conn, active, members, removal, failed, tasks>>
    BY <1>2 DEF EndPass, managerVars, historyVars
  <2>2. \A u \in DOMAIN tasks' : \A d \in tasks'[u].todo \cup tasks'[u].to :
            conn'[d] # "none"
    BY <2>1 DEF Inv2, Manager, Known
  <2> QED
    BY <2>1, <2>2, TaskManager
<1>3. ASSUME NEW t \in DOMAIN tasks, Resume(t)
      PROVE  Known' /\ \A h \in Threads : Removing(h)'
  <2>1. UNCHANGED <<conn, active, members, removal, failed>> /\ tasks[t] \in Task
    BY <1>3 DEF Resume, managerVars, Inv2, Inv1, Values
  <2>2. PICK z : /\ z = [tasks[t] EXCEPT !.status = "run", !.to = {}]
                 /\ z \in Task /\ Becomes(t, z)
    BY <1>3, ResumeIs DEF Inv2
  <2>3. z.todo = tasks[t].todo /\ z.to = {}
    BY <2>1, <2>2, ResumeFields
  <2>4. TodoShrinks(tasks[t], z)
    BY <2>3 DEF TodoShrinks
  <2>5. ConnMoves
    BY <2>1, OtherConn DEF Inv2
  <2>6. \A u \in DOMAIN tasks' : \A d \in tasks'[u].todo \cup tasks'[u].to :
            conn'[d] # "none"
    BY <2>2, <2>4, <2>5, TodoKnown
  <2> QED
    BY <2>1, <2>6, TaskManager
<1>4. ASSUME NEW t \in DOMAIN tasks, ResumeFails(t)
      PROVE  Known' /\ \A h \in Threads : Removing(h)'
  BY <1>4, FailsManager DEF ResumeFails
<1> QED
  BY <1>1, <1>2, <1>3, <1>4 DEF WakeTask

\* The second invariant holds at the start.
LEMMA Inv2Init == DeliveryInit => Inv2
<1>1. ASSUME DeliveryInit
      PROVE  Inv2
  <2>1. DOMAIN <<>> = {}
    OBVIOUS
  <2>2. OneEntryEach
    BY <1>1, <2>1 DEF DeliveryInit, OneEntryEach
  <2>3. Known
    BY <1>1, <2>1 DEF DeliveryInit, Known, Sets
  <2>4. \A h \in Threads : Removing(h)
    BY <1>1 DEF DeliveryInit, Removing, NoRemoval
  <2> QED
    BY <1>1, <2>2, <2>3, <2>4, Inv1Init DEF Inv2, Manager
<1> QED
  BY <1>1

\* The second invariant is inductive.
LEMMA Inv2Next == Inv2 /\ [DeliveryNext]_deliveryVars => Inv2'
<1> SUFFICES ASSUME Inv2, [DeliveryNext]_deliveryVars
             PROVE  Inv2'
  OBVIOUS
<1>1. Inv1'
  BY Inv1Next DEF Inv2
<1>2. CASE UNCHANGED deliveryVars
  <2>1. UNCHANGED <<conn, active, subscriptions, members, removal, tasks, failed>>
    BY <1>2 DEF deliveryVars, managerVars, taskVars, historyVars
  <2>2. OneEntryEach'
    BY <2>1 DEF Inv2, Manager, OneEntryEach
  <2>3. Known' /\ \A h \in Threads : Removing(h)'
    BY <2>1 DEF Inv2, Manager, Known, Sets, Removing, LeftOrFailed
  <2> QED
    BY <1>1, <2>2, <2>3 DEF Inv2, Manager
<1>3. CASE DeliveryNext
  <2>1. OneEntryEach'
    BY <1>3, EntriesStay
  <2>2. Known' /\ \A h \in Threads : Removing(h)'
    BY <1>3, EndpointManager, RemoveManager, RunManager, OtherManager DEF DeliveryNext
  <2> QED
    BY <1>1, <2>1, <2>2 DEF Inv2, Manager
<1> QED
  BY <1>2, <1>3

-----------------------------------------------------------------------------
(* Steps that a task does not take itself leave what it has before it. *)

Inv3 == Inv2 /\ Before

\* The entries of the dict are those there were, or of a set just created.
DictMoves ==
    \A i \in DOMAIN subscriptions' :
        \/ \E k \in DOMAIN subscriptions : subscriptions'[i] = subscriptions[k]
        \/ subscriptions'[i].set \notin Sets

\* Who has left comes into no set.
EndedStayOut ==
    \A k \in Sets' : \A c \in members'[k] :
        conn[c] = "ended" => k \in Sets /\ c \in members[k]

\* A task with the same work before it, and no more clients that it owes.
SameWork(r, z) ==
    /\ z.symbol = r.symbol /\ z.details = r.details /\ z.status = r.status
    /\ z.left = r.left /\ z.channel = r.channel /\ z.todo = r.todo
    /\ z.to = r.to /\ z.gone = r.gone /\ z.owed \subseteq r.owed

\* A copy keeps its channels apart, and agrees with a dict that gains only new sets.
LEMMA CopiedKept ==
    ASSUME Inv3, DictMoves, NEW u \in DOMAIN tasks, Copied(u),
           SameWork(tasks[u], tasks'[u])
    PROVE  Copied(u)'
<1>1. /\ tasks'[u].left = tasks[u].left /\ tasks'[u].channel = tasks[u].channel
      /\ tasks'[u].todo = tasks[u].todo /\ tasks'[u].to = tasks[u].to
  BY DEF SameWork
<1>2. ASSUME NEW j \in DOMAIN tasks[u].left, NEW i \in DOMAIN subscriptions',
             tasks[u].left[j].set = subscriptions'[i].set
      PROVE  tasks[u].left[j].channel = subscriptions'[i].channel
  <2>1. tasks[u].left[j].set \in Sets
    BY DEF Inv3, Inv2, Inv1, Control, SetsKnown
  <2>2. PICK k \in DOMAIN subscriptions : subscriptions'[i] = subscriptions[k]
    BY <1>2, <2>1 DEF DictMoves
  <2> QED
    BY <1>2, <2>2 DEF Copied
<1> QED
  BY <1>1, <1>2 DEF Copied

\* Who is owed an event and has still to be come to is not taken out of a set
\* that is to be read, except by a send that has failed.
StayIn(u) ==
    \A p \in tasks'[u].owed : \A j \in DOMAIN tasks[u].left :
        /\ tasks[u].left[j].channel = p[2]
        /\ p[1] \in members[tasks[u].left[j].set]
        => p[1] \in members'[tasks[u].left[j].set] \/ p[1] \in failed'

\* Those who are owed the event are still to come if they stay where they are.
LEMMA OwedKept ==
    ASSUME Inv3, NEW u \in DOMAIN tasks, OwedCome(u),
           SameWork(tasks[u], tasks'[u]), StayIn(u), failed \subseteq failed',
           \A c \in Clients : ToSet(received[c]) \subseteq ToSet(received'[c]),
           \A p \in tasks'[u].owed : conn'[p[1]] = "open"
    PROVE  OwedCome(u)'
<1>1. /\ tasks'[u].left = tasks[u].left /\ tasks'[u].channel = tasks[u].channel
      /\ tasks'[u].todo = tasks[u].todo /\ tasks'[u].to = tasks[u].to
      /\ tasks'[u].details = tasks[u].details /\ tasks'[u].symbol = tasks[u].symbol
      /\ tasks'[u].owed \subseteq tasks[u].owed
  BY DEF SameWork
<1>2. \A e : Wanted(u, e)' <=> Wanted(u, e)
  BY <1>1 DEF Wanted
<1>3. ASSUME NEW p \in tasks'[u].owed
      PROVE  \/ <<u, p[2]>> \in ToSet(received'[p[1]]) \/ p[1] \in failed'
             \/ Comes(u, p)'
  <2>1. p \in tasks[u].owed /\ p[1] \in Clients
    <3>1. tasks[u] \in Task
      BY DEF Inv3, Inv2, Inv1, Values
    <3>2. tasks[u].owed \subseteq Clients \X Channels
      BY <3>1, TaskFields
    <3> QED
      BY <1>1, <1>3, <3>2
  <2>2. CASE <<u, p[2]>> \in ToSet(received[p[1]])
    BY <2>1, <2>2
  <2>3. CASE p[1] \in failed
    BY <2>3
  <2>4. ASSUME NEW j \in DOMAIN tasks[u].left, Wanted(u, tasks[u].left[j]),
               tasks[u].left[j].channel = p[2],
               p[1] \in members[tasks[u].left[j].set]
        PROVE  p[1] \in failed' \/ Comes(u, p)'
    <3>1. p[1] \in members'[tasks[u].left[j].set] \/ p[1] \in failed'
      BY <1>3, <2>4 DEF StayIn
    <3> QED
      BY <1>1, <1>2, <2>4, <3>1 DEF Comes, Wanted
  <2>5. CASE tasks[u].channel = p[2] /\ p[1] \in tasks[u].todo \cup tasks[u].to
    BY <1>1, <2>5 DEF Comes
  <2> QED
    BY <2>1, <2>2, <2>3, <2>4, <2>5 DEF OwedCome, Comes
<1> QED
  BY <1>3 DEF OwedCome

\* Those who had ended are still to be met if they stay out.
LEMMA GoneKept ==
    ASSUME Inv3, ConnMoves, DictMoves, EndedStayOut, NEW u \in DOMAIN tasks, GoneMet(u),
           Inv1', SameWork(tasks[u], tasks'[u]),
           \A c : IsRemoving(u, c)' <=> IsRemoving(u, c),
           running = u => removal'["process"].seen = removal["process"].seen
    PROVE  GoneMet(u)'
<1>1. /\ tasks'[u].left = tasks[u].left /\ tasks'[u].channel = tasks[u].channel
      /\ tasks'[u].todo = tasks[u].todo /\ tasks'[u].gone = tasks[u].gone
      /\ tasks'[u].details = tasks[u].details /\ tasks'[u].symbol = tasks[u].symbol
  BY DEF SameWork
<1>2. ASSUME NEW c \in tasks'[u].gone
      PROVE  /\ conn'[c] = "ended"
             /\ \A i \in DOMAIN subscriptions' :
                   /\ Wanted(u, subscriptions[i])'
                   /\ c \in members'[subscriptions'[i].set]
                   => MeetsGone(u, c, i)'
             /\ IsRemoving(u, c)' =>
                   \A k \in removal'["process"].seen \cap Sets' : c \notin members'[k]
  <2>1. c \in tasks[u].gone /\ c \in Clients /\ conn[c] = "ended"
    <3>1. tasks[u] \in Task
      BY DEF Inv3, Inv2, Inv1, Values
    <3>2. tasks[u].gone \subseteq Clients
      BY <3>1, TaskFields
    <3> QED
      BY <1>1, <1>2, <3>2 DEF GoneMet
  <2>2. conn'[c] = "ended"
    BY <2>1 DEF ConnMoves
  <2>3. ASSUME NEW i \in DOMAIN subscriptions', Wanted(u, subscriptions[i])',
               c \in members'[subscriptions'[i].set]
        PROVE  MeetsGone(u, c, i)'
    <3>1. subscriptions'[i].set \in Sets'
      BY <2>3 DEF Inv1, Control, SetsKnown
    <3>2. subscriptions'[i].set \in Sets /\ c \in members[subscriptions'[i].set]
      BY <2>1, <2>3, <3>1 DEF EndedStayOut
    <3>3. PICK k \in DOMAIN subscriptions : subscriptions'[i] = subscriptions[k]
      BY <2>3, <3>2 DEF DictMoves
    <3>4. Wanted(u, subscriptions[k])
      BY <1>1, <2>3, <3>3 DEF Wanted, NoParts
    <3>5. MeetsGone(u, c, k)
      BY <2>1, <3>2, <3>3, <3>4 DEF GoneMet
    <3> QED
      BY <1>1, <3>3, <3>5 DEF MeetsGone
  <2>4. ASSUME IsRemoving(u, c)', NEW k \in removal'["process"].seen \cap Sets'
        PROVE  c \notin members'[k]
    <3>1. IsRemoving(u, c) /\ removal'["process"].seen = removal["process"].seen
      BY <2>4 DEF IsRemoving
    <3> QED
      BY <2>1, <2>4, <3>1 DEF GoneMet, EndedStayOut
  <2> QED
    BY <2>2, <2>3, <2>4
<1> QED
  BY <1>2 DEF GoneMet

\* A task that a step has not touched but for what it owes.
LEMMA AllKept ==
    ASSUME Inv3, Inv1', ConnMoves, DictMoves, EndedStayOut, NEW u \in DOMAIN tasks,
           SameWork(tasks[u], tasks'[u]),
           Begun(u) => StayIn(u), failed \subseteq failed',
           \A c \in Clients : ToSet(received[c]) \subseteq ToSet(received'[c]),
           Begun(u) => \A p \in tasks'[u].owed : conn'[p[1]] = "open",
           \A c : IsRemoving(u, c)' <=> IsRemoving(u, c),
           running = u => removal'["process"].seen = removal["process"].seen
    PROVE  AllBefore(u)'
<1>1. tasks[u].status = "new" => Fresh(u)
  BY DEF Inv3, Before, AllBefore
<1>2. tasks'[u].status = tasks[u].status /\ Begun(u)' = Begun(u)
      /\ tasks'[u].channel = tasks[u].channel /\ tasks'[u].todo = tasks[u].todo
  BY DEF SameWork, Begun
<1>3. Begun(u) => Copied(u)' /\ OwedCome(u)' /\ GoneMet(u)'
  BY CopiedKept, OwedKept, GoneKept DEF Inv3, Before, AllBefore
<1> QED
  BY <1>1, <1>2, <1>3 DEF AllBefore, Fresh

\* Whom a task owes what.
LEMMA OwedOpen ==
    ASSUME Inv3, NEW u \in DOMAIN tasks, NEW p \in tasks[u].owed
    PROVE  p \in Clients \X Channels /\ p[1] \in Clients /\ p[2] \in Channels
<1>1. tasks[u] \in Task
  BY DEF Inv3, Inv2, Inv1, Values
<1>2. tasks[u].owed \subseteq Clients \X Channels
  BY <1>1, TaskFields
<1> QED
  BY <1>2

\* Messages that stay as they are.
LEMMA SameReceived ==
    ASSUME UNCHANGED received
    PROVE  \A c \in Clients : ToSet(received[c]) \subseteq ToSet(received'[c])
  OBVIOUS

\* The dict and the sets after a step of the endpoint.
LEMMA EndpointDict ==
    ASSUME Inv2, Endpoint
    PROVE  DictMoves /\ EndedStayOut
<1>1. CASE UNCHANGED <<subscriptions, members>>
  BY <1>1 DEF DictMoves, EndedStayOut, Sets
<1>2. ASSUME NEW c \in Clients, NEW ch \in Channels, Subscribe(c, ch)
      PROVE  DictMoves /\ EndedStayOut
  <2>1. conn[c] = "open"
    BY <1>2 DEF Subscribe, Requested
  <2>2. CASE /\ members' = Append(members, {c})
             /\ subscriptions' =
                    Append(subscriptions, [channel |-> ch, set |-> Len(members) + 1])
    <3>1. PICK e : e = [channel |-> ch, set |-> Len(members) + 1] /\ e \in Entry
                   /\ e.set = Len(members) + 1
      <4>1. Len(members) + 1 \in Nat
        BY DEF Inv2, Inv1, Values
      <4>2. [channel |-> ch, set |-> Len(members) + 1] \in Entry
        BY <4>1 DEF Entry
      <4> QED
        BY <4>2
    <3>2. /\ Sets' = Sets \cup {Len(members) + 1} /\ Len(members) + 1 \notin Sets
          /\ members'[Len(members) + 1] = {c}
          /\ \A k \in Sets : members'[k] = members[k]
      BY <2>2, SeqAppend DEF Inv2, Inv1, Values, Sets
    <3>3. /\ DOMAIN subscriptions' = DOMAIN subscriptions \cup {Len(subscriptions) + 1}
          /\ subscriptions'[Len(subscriptions) + 1] = e
          /\ \A i \in DOMAIN subscriptions : subscriptions'[i] = subscriptions[i]
      BY <2>2, <3>1, SeqAppend DEF Inv2, Inv1, Values
    <3>4. DictMoves
      BY <3>1, <3>2, <3>3 DEF DictMoves
    <3>5. EndedStayOut
      BY <2>1, <3>2 DEF EndedStayOut
    <3> QED
      BY <3>4, <3>5
  <2>3. ASSUME NEW i \in EntriesOf(ch), UNCHANGED subscriptions,
               members' = [members EXCEPT ![subscriptions[i].set] = @ \cup {c}]
        PROVE  DictMoves /\ EndedStayOut
    <3>1. PICK k : k = subscriptions[i].set /\ k \in Sets
      BY DEF Inv2, Inv1, Control, SetsKnown, EntriesOf
    <3>2. /\ Sets' = Sets /\ members'[k] = members[k] \cup {c}
          /\ \A j \in Sets : j # k => members'[j] = members[j]
      BY <2>3, <3>1, MemberChange DEF Inv2
    <3> QED
      BY <2>1, <2>3, <3>1, <3>2 DEF DictMoves, EndedStayOut
  <2> QED
    BY <1>2, <2>2, <2>3 DEF Subscribe
<1>3. ASSUME NEW c \in Clients, NEW ch \in Channels, Unsubscribe(c, ch)
      PROVE  DictMoves /\ EndedStayOut
  <2>1. PICK i \in EntriesOf(ch) :
            /\ members' = [members EXCEPT ![subscriptions[i].set] = @ \ {c}]
            /\ subscriptions' = RemoveAt(subscriptions, i)
                   \/ subscriptions' = subscriptions
    BY <1>3 DEF Unsubscribe
  <2>2. PICK k : k = subscriptions[i].set /\ k \in Sets
    BY DEF Inv2, Inv1, Control, SetsKnown, EntriesOf
  <2>3. /\ Sets' = Sets /\ members'[k] = members[k] \ {c}
        /\ \A j \in Sets : j # k => members'[j] = members[j]
    BY <2>1, <2>2, MemberChange DEF Inv2
  <2>4. EndedStayOut
    BY <2>2, <2>3 DEF EndedStayOut
  <2>5. DictMoves
    <3>1. CASE subscriptions' = RemoveAt(subscriptions, i)
      <4>1. subscriptions \in Seq(Entry) /\ i \in DOMAIN subscriptions
        BY DEF Inv2, Inv1, Values, EntriesOf
      <4>2. PICK n \in Nat : n = Len(subscriptions) /\ DOMAIN subscriptions = 1 .. n
        BY <4>1
      <4>4. /\ subscriptions' \in Seq(Entry) /\ Len(subscriptions') = n - 1
            /\ \A j \in DOMAIN subscriptions' :
                  subscriptions'[j] = IF j < i THEN subscriptions[j]
                                               ELSE subscriptions[j + 1]
        BY <3>1, <4>1, <4>2, SeqRemove
      <4>3. DOMAIN subscriptions' = 1 .. n - 1
        BY <4>2, <4>4
      <4> QED
        BY <4>1, <4>2, <4>3, <4>4 DEF DictMoves
    <3>2. CASE subscriptions' = subscriptions
      BY <3>2 DEF DictMoves
    <3> QED
      BY <2>1, <3>1, <3>2
  <2> QED
    BY <2>4, <2>5
<1> QED
  BY <1>1, <1>2, <1>3 DEF Endpoint, Connect, Leave, Break, Ends, managerVars

\* A dict that stays as it is, with sets that only lose.
LEMMA OtherDict ==
    ASSUME UNCHANGED subscriptions, SetsShrink
    PROVE  DictMoves /\ EndedStayOut
  BY DEF DictMoves, EndedStayOut, SetsShrink

\* What an unsubscription and an end leave of what is owed.
LEMMA NotOwedWork ==
    ASSUME Inv3, NEW P, NotOwed(P)
    PROVE  /\ DOMAIN tasks' = DOMAIN tasks
           /\ \A u \in DOMAIN tasks :
                 /\ SameWork(tasks[u], tasks'[u])
                 /\ tasks'[u].owed = tasks[u].owed \ P
<1>1. \A t \in DOMAIN tasks : tasks[t] \in Task
  BY DEF Inv3, Inv2, Inv1, Values
<1>2. /\ DOMAIN tasks' = DOMAIN tasks
      /\ \A t \in DOMAIN tasks : tasks'[t] = [tasks[t] EXCEPT !.owed = @ \ P]
  BY NotOwedTasks DEF Inv3, Inv2, Inv1
<1>3. ASSUME NEW u \in DOMAIN tasks
      PROVE  /\ SameWork(tasks[u], tasks'[u])
             /\ tasks'[u].owed = tasks[u].owed \ P
  <2>1. PICK r, z : r = tasks[u] /\ r \in Task /\ z = tasks'[u]
                    /\ z = [r EXCEPT !.owed = @ \ P]
    BY <1>1, <1>2
  <2>2. /\ z.symbol = r.symbol /\ z.details = r.details /\ z.status = r.status
        /\ z.left = r.left /\ z.channel = r.channel /\ z.todo = r.todo
        /\ z.to = r.to /\ z.owed = r.owed \ P /\ z.gone = r.gone
    BY <2>1, NotOwedFields
  <2> QED
    BY <2>1, <2>2 DEF SameWork
<1> QED
  BY <1>2, <1>3

\* A task that stays as it is.
LEMMA SameIsSameWork ==
    ASSUME NEW r
    PROVE  SameWork(r, r)
  BY DEF SameWork

\* The endpoint does nothing on the process thread.
LEMMA EndpointRemoval ==
    ASSUME Inv1, Endpoint
    PROVE  removal'["process"] = removal["process"] /\ running' = running
<1>1. UNCHANGED removal \/ \E c : removal' = [removal EXCEPT !["main"] = Begin(c)]
  BY DEF Endpoint, Connect, Leave, Break, Subscribe, Unsubscribe
<1>2. running' = running
  BY DEF Endpoint, Connect, Leave, Break, Ends, Subscribe, Unsubscribe, taskVars
<1> QED
  BY <1>1, <1>2 DEF Inv1, Values, Threads

-----------------------------------------------------------------------------
(* Every step keeps what the tasks have before them. *)

\* What of the endpoint's steps the third invariant needs.
LEMMA EndpointKeeps ==
    ASSUME Inv3, Inv1', Endpoint, UNCHANGED <<received, failed>>,
           DOMAIN tasks' = DOMAIN tasks,
           \A u \in DOMAIN tasks :
               /\ SameWork(tasks[u], tasks'[u])
               /\ Begun(u) => /\ StayIn(u)
                              /\ \A p \in tasks'[u].owed : conn'[p[1]] = "open"
    PROVE  Before'
<1>1. ConnMoves /\ DictMoves /\ EndedStayOut
  BY EndpointConn, EndpointDict DEF Inv3, Inv2
<1>2. removal'["process"] = removal["process"] /\ running' = running
  BY EndpointRemoval DEF Inv3, Inv2
<1>3. \A u : \A c : IsRemoving(u, c)' <=> IsRemoving(u, c)
  BY <1>2 DEF IsRemoving
<1>4. \A c \in Clients : ToSet(received[c]) \subseteq ToSet(received'[c])
  BY SameReceived
<1>5. ASSUME NEW u \in DOMAIN tasks
      PROVE  AllBefore(u)'
  BY <1>1, <1>2, <1>3, <1>4, AllKept
<1> QED
  BY <1>5 DEF Before

\* The endpoint keeps what the tasks have before them.
LEMMA EndpointBefore ==
    ASSUME Inv3, Inv1', Endpoint
    PROVE  Before'
<1>1. \A u \in DOMAIN tasks : Begun(u) => Copied(u) /\ OwedCome(u)
  BY DEF Inv3, Before, AllBefore
<1>2. ASSUME NEW c \in Clients, Connect(c)
      PROVE  Before'
  <2>1. /\ UNCHANGED <<tasks, members, failed, received>>
        /\ conn' = [conn EXCEPT ![c] = "open"]
    BY <1>2 DEF Connect, taskVars, historyVars
  <2>2. ASSUME NEW u \in DOMAIN tasks
        PROVE  /\ SameWork(tasks[u], tasks'[u])
               /\ Begun(u) => /\ StayIn(u)
                              /\ \A p \in tasks'[u].owed : conn'[p[1]] = "open"
    <3>1. SameWork(tasks[u], tasks'[u])
      BY <2>1, SameIsSameWork
    <3>2. StayIn(u)
      BY <2>1 DEF StayIn
    <3>3. ASSUME Begun(u), NEW p \in tasks'[u].owed
          PROVE  conn'[p[1]] = "open"
      <4>1. p \in tasks[u].owed /\ conn[p[1]] = "open"
        BY <1>1, <2>1, <3>3 DEF OwedCome
      <4>2. p[1] \in Clients
        BY <4>1, OwedOpen
      <4> QED
        BY <2>1, <4>1, <4>2 DEF Inv3, Inv2, Inv1, Values
    <3> QED
      BY <3>1, <3>2, <3>3
  <2> QED
    BY <2>1, <2>2, EndpointKeeps
<1>3. ASSUME NEW c \in Clients, Leave(c) \/ Break(c)
      PROVE  Before'
  <2>1. /\ NotOwed({c} \X Channels) /\ UNCHANGED <<members, failed, received>>
        /\ conn' = [conn EXCEPT ![c] = "ended"]
    BY <1>3 DEF Leave, Break, Ends, managerVars, historyVars
  <2>2. /\ DOMAIN tasks' = DOMAIN tasks
        /\ \A u \in DOMAIN tasks :
              /\ SameWork(tasks[u], tasks'[u])
              /\ tasks'[u].owed = tasks[u].owed \ ({c} \X Channels)
    BY <2>1, NotOwedWork
  <2>3. ASSUME NEW u \in DOMAIN tasks
        PROVE  Begun(u) => /\ StayIn(u)
                           /\ \A p \in tasks'[u].owed : conn'[p[1]] = "open"
    <3>1. StayIn(u)
      BY <2>1 DEF StayIn
    <3>2. ASSUME Begun(u), NEW p \in tasks'[u].owed
          PROVE  conn'[p[1]] = "open"
      <4>1. p \in tasks[u].owed /\ p \notin {c} \X Channels
        BY <2>2, <3>2
      <4>2. conn[p[1]] = "open"
        BY <1>1, <3>2, <4>1 DEF OwedCome
      <4>3. p \in Clients \X Channels /\ p[1] \in Clients /\ p[2] \in Channels
        BY <4>1, OwedOpen
      <4>4. p[1] # c
        BY <4>1, <4>3
      <4> QED
        BY <2>1, <4>2, <4>3, <4>4 DEF Inv3, Inv2, Inv1, Values
    <3> QED
      BY <3>1, <3>2
  <2> QED
    BY <2>1, <2>2, <2>3, EndpointKeeps
<1>4. ASSUME NEW c \in Clients, NEW ch \in Channels, Subscribe(c, ch)
      PROVE  Before'
  <2>1. UNCHANGED <<conn, tasks, failed, received>>
    BY <1>4 DEF Subscribe, taskVars, historyVars
  <2>2. \A k \in Sets : members[k] \subseteq members'[k]
    <3>1. CASE members' = Append(members, {c})
      <4>1. \A k \in Sets : members'[k] = members[k]
        BY <3>1, SeqAppend DEF Inv3, Inv2, Inv1, Values, Sets
      <4> QED
        BY <4>1
    <3>2. ASSUME NEW i \in EntriesOf(ch),
                 members' = [members EXCEPT ![subscriptions[i].set] = @ \cup {c}]
          PROVE  \A k \in Sets : members[k] \subseteq members'[k]
      <4>1. PICK k : k = subscriptions[i].set /\ k \in Sets
        BY DEF Inv3, Inv2, Inv1, Control, SetsKnown, EntriesOf
      <4>2. /\ Sets' = Sets /\ members'[k] = members[k] \cup {c}
            /\ \A j \in Sets : j # k => members'[j] = members[j]
        BY <3>2, <4>1, MemberChange DEF Inv3, Inv2
      <4> QED
        BY <4>1, <4>2
    <3> QED
      BY <1>4, <3>1, <3>2 DEF Subscribe
  <2>3. ASSUME NEW u \in DOMAIN tasks
        PROVE  /\ SameWork(tasks[u], tasks'[u])
               /\ Begun(u) => /\ StayIn(u)
                              /\ \A p \in tasks'[u].owed : conn'[p[1]] = "open"
    <3>1. SameWork(tasks[u], tasks'[u])
      BY <2>1, SameIsSameWork
    <3>2. \A j \in DOMAIN tasks[u].left : tasks[u].left[j].set \in Sets
      BY DEF Inv3, Inv2, Inv1, Control, SetsKnown
    <3>3. StayIn(u)
      BY <2>2, <3>2 DEF StayIn
    <3> QED
      BY <1>1, <2>1, <3>1, <3>3 DEF OwedCome
  <2> QED
    BY <2>1, <2>3, EndpointKeeps
<1>5. ASSUME NEW c \in Clients, NEW ch \in Channels, Unsubscribe(c, ch)
      PROVE  Before'
  <2>1. NotOwed({<<c, ch>>}) /\ UNCHANGED <<conn, failed, received>>
    BY <1>5 DEF Unsubscribe, Requested, historyVars
  <2>2. /\ DOMAIN tasks' = DOMAIN tasks
        /\ \A u \in DOMAIN tasks :
              /\ SameWork(tasks[u], tasks'[u])
              /\ tasks'[u].owed = tasks[u].owed \ {<<c, ch>>}
    BY <2>1, NotOwedWork
  <2>3. PICK i \in EntriesOf(ch) :
            members' = [members EXCEPT ![subscriptions[i].set] = @ \ {c}]
    BY <1>5 DEF Unsubscribe
  <2>4. PICK k : k = subscriptions[i].set /\ k \in Sets
    BY DEF Inv3, Inv2, Inv1, Control, SetsKnown, EntriesOf
  <2>5. /\ Sets' = Sets /\ members'[k] = members[k] \ {c}
        /\ \A j \in Sets : j # k => members'[j] = members[j]
    BY <2>3, <2>4, MemberChange DEF Inv3, Inv2
  <2>6. ASSUME NEW u \in DOMAIN tasks, Begun(u)
        PROVE  StayIn(u)
    <3>1. ASSUME NEW p \in tasks'[u].owed, NEW j \in DOMAIN tasks[u].left,
                 tasks[u].left[j].channel = p[2],
                 p[1] \in members[tasks[u].left[j].set]
          PROVE  p[1] \in members'[tasks[u].left[j].set]
      <4>1. p \in tasks[u].owed /\ p # <<c, ch>>
        BY <2>2, <3>1
      <4>2. p \in Clients \X Channels
        BY <4>1, OwedOpen
      <4>3. tasks[u].left[j].set \in Sets
        BY DEF Inv3, Inv2, Inv1, Control, SetsKnown
      <4>4. CASE tasks[u].left[j].set = k
        <5>1. p[2] = ch
          BY <1>1, <2>4, <2>6, <3>1, <4>4 DEF Copied, EntriesOf
        <5>2. p[1] # c
          BY <4>1, <4>2, <5>1
        <5> QED
          BY <2>5, <3>1, <4>4, <5>2
      <4> QED
        BY <2>5, <3>1, <4>3, <4>4
    <3> QED
      BY <3>1 DEF StayIn
  <2>7. ASSUME NEW u \in DOMAIN tasks, Begun(u), NEW p \in tasks'[u].owed
        PROVE  conn'[p[1]] = "open"
    BY <1>1, <2>1, <2>2, <2>7 DEF OwedCome
  <2> QED
    BY <2>1, <2>2, <2>6, <2>7, EndpointKeeps
<1> QED
  BY <1>2, <1>3, <1>4, <1>5 DEF Endpoint

\* A removal that has looked at one set more.
IsSeen(r, k, x) ==
    x.stage = "look" /\ x.client = r.client /\ x.seen = r.seen \cup {k}

\* What a step of a removal does: it raises, or it ends having seen every set of
\* the dict, or it goes on, and has seen the client in one set less.
SeenAll(r, x) == x.stage = "none" /\ Unseen(r) = {}
SeesMore(r, x) ==
    /\ x.stage # "none" /\ x.client = r.client
    /\ \E S \in SUBSET Nat :
          /\ x.seen = r.seen \cup S
          /\ \A k \in S \cap Sets : r.client \notin members'[k]

\* The fields of a removal that has seen a set.
LEMMA SeenFields ==
    ASSUME Values, NEW th \in Threads, removal[th].stage # "none", NEW k
    PROVE  IsSeen(removal[th], k, Seen(removal[th], k))
<1>1. PICK r : r = removal[th]
  OBVIOUS
<1>2. r \in [stage : {"look", "drop"}, client : Clients, at : Nat,
              seen : SUBSET Nat, size : Nat]
  BY <1>1, RemovalTypes DEF Removal
<1> QED
  BY <1>1, <1>2 DEF Seen, IsSeen

\* The search of a removal sees more sets.
LEMMA LookMore ==
    ASSUME Inv1, NEW th \in Threads, removal[th].stage # "none",
           NEW r, r = removal[th], NEW k \in Nat, LookAt(th, k), UNCHANGED members
    PROVE  \E x : removal' = [removal EXCEPT ![th] = x] /\ SeesMore(r, x)
<1>0. Values
  BY DEF Inv1
<1>2. CASE Holds(k, r.client)
  <2>1. PICK x : x = [r EXCEPT !.stage = "drop", !.at = k]
    OBVIOUS
  <2>2. removal' = [removal EXCEPT ![th] = x]
    BY <1>2, <2>1 DEF LookAt
  <2>3. x.stage = "drop" /\ x.client = r.client /\ x.seen = r.seen
    BY <1>0, <2>1, LookIsRecord
  <2>4. SeesMore(r, x)
    <3>1. {} \in SUBSET Nat /\ x.seen = r.seen \cup {}
      BY <2>3
    <3>2. x.stage # "none"
      BY <2>3
    <3> QED
      BY <2>3, <3>1, <3>2 DEF SeesMore
  <2> QED
    BY <2>2, <2>4
<1>3. CASE ~ Holds(k, r.client)
  <2>1. PICK x : x = Seen(r, k)
    OBVIOUS
  <2>2. removal' = [removal EXCEPT ![th] = x]
    BY <1>3, <2>1 DEF LookAt
  <2>3. x.stage = "look" /\ x.client = r.client /\ x.seen = r.seen \cup {k}
    <3>1. IsSeen(r, k, x)
      BY <1>0, <2>1, SeenFields
    <3> QED
      BY <3>1 DEF IsSeen
  <2>4. k \in Sets => r.client \notin members'[k]
    <3>1. 0 \notin Sets
      BY DEF Sets, Inv1, Values
    <3> QED
      BY <1>3, <3>1 DEF Holds
  <2>5. SeesMore(r, x)
    <3>1. {k} \in SUBSET Nat /\ x.stage # "none"
      BY <2>3
    <3>2. \A i \in {k} \cap Sets : r.client \notin members'[i]
      BY <2>4
    <3> QED
      BY <2>3, <3>1, <3>2 DEF SeesMore
  <2> QED
    BY <2>2, <2>5
<1> QED
  BY <1>2, <1>3

\* What a step of a removal leaves of the sets.
OnlyLoses(c) ==
    /\ Sets' = Sets
    /\ \A k \in Sets : members'[k] \subseteq members[k]
                       /\ members[k] \subseteq members'[k] \cup {c}

\* A set that loses its client has been seen.
LEMMA DropMore ==
    ASSUME Inv1, NEW th \in Threads, RemoveDrop(th), NEW r, r = removal[th],
           Holds(r.at, r.client)
    PROVE  /\ OnlyLoses(r.client) /\ UNCHANGED <<tasks, running>>
           /\ \E x : removal' = [removal EXCEPT ![th] = x] /\ SeesMore(r, x)
<1>1. removal[th].stage = "drop" /\ r.at \in {0} \cup Sets
  BY DEF RemoveDrop, Inv1, Control, SetsKnown
<1>2. Values /\ removal[th].stage # "none"
  BY <1>1 DEF Inv1
<1>3. PICK x : /\ x = Seen(r, r.at) /\ removal' = [removal EXCEPT ![th] = x]
  BY DEF RemoveDrop
<1>7. /\ x.stage = "look" /\ x.client = r.client
      /\ x.seen = r.seen \cup {r.at} /\ r.at \in Nat
  <2>1. r.at \in Nat
    BY <1>2, LookIsRecord
  <2>2. IsSeen(r, r.at, x)
    BY <1>2, <1>3, SeenFields
  <2> QED
    BY <2>1, <2>2 DEF IsSeen
<1>4. 0 \notin Sets
  BY DEF Sets, Inv1, Values
<1>5. OnlyLoses(r.client) /\ (r.at \in Sets => r.client \notin members'[r.at])
  <2>1. CASE r.at = 0
    <3>1. members' = members
      BY <2>1 DEF RemoveDrop
    <3> QED
      BY <1>4, <2>1, <3>1 DEF OnlyLoses, Sets
  <2>2. CASE r.at # 0
    <3>1. members' = [members EXCEPT ![r.at] = @ \ {r.client}]
      BY <2>2 DEF RemoveDrop
    <3>2. /\ Sets' = Sets /\ members'[r.at] = members[r.at] \ {r.client}
          /\ \A i \in Sets : i # r.at => members'[i] = members[i]
      BY <1>1, <2>2, <3>1, MemberChange
    <3> QED
      BY <3>2 DEF OnlyLoses
  <2> QED
    BY <2>1, <2>2
<1>6. SeesMore(r, x)
  <2>1. {r.at} \in SUBSET Nat /\ x.stage # "none"
    BY <1>7
  <2>2. \A i \in {r.at} \cap Sets : r.client \notin members'[i]
    BY <1>5
  <2> QED
    BY <1>7, <2>1, <2>2 DEF SeesMore
<1> QED
  BY <1>3, <1>5, <1>6 DEF RemoveDrop

\* The three ways a step of a removal ends.
LEMMA RemoveMoves ==
    ASSUME Inv1, NEW th \in Threads, RemoveStep(th), NEW r, r = removal[th]
    PROVE  /\ removal[th].stage # "none" /\ OnlyLoses(r.client)
           /\ UNCHANGED <<conn, subscriptions, received, failed>>
           /\ \/ RaisedIn(th)
              \/ /\ UNCHANGED <<tasks, running>>
                 /\ \E x : /\ removal' = [removal EXCEPT ![th] = x]
                           /\ SeenAll(r, x) \/ SeesMore(r, x)
<1>1. /\ removal[th].stage # "none"
      /\ UNCHANGED <<conn, subscriptions, received, failed>>
  BY DEF RemoveStep, RemoveLook, RemoveDrop, managerVars, historyVars
<1>2. members' = members => OnlyLoses(r.client)
  BY DEF OnlyLoses, Sets
<1>3. CASE RemoveLook(th)
  <2>1. members' = members
    BY <1>3 DEF RemoveLook, managerVars
  <2>2. ASSUME NEW k \in Nat, LookAt(th, k)
        PROVE  /\ UNCHANGED <<tasks, running>>
               /\ \E x : removal' = [removal EXCEPT ![th] = x] /\ SeesMore(r, x)
    BY <1>1, <2>1, <2>2, LookMore DEF LookAt
  <2>3. CASE LookAt(th, 0)
    BY <1>1, <1>2, <2>1, <2>2, <2>3
  <2>4. CASE Unseen(r) # {} /\ LookAt(th, subscriptions[Min(Unseen(r))].set)
    <3>1. Unseen(r) \subseteq DOMAIN subscriptions /\ DOMAIN subscriptions \subseteq Nat
      BY DEF Unseen, Inv1, Values
    <3>2. Min(Unseen(r)) \in DOMAIN subscriptions
      BY <2>4, <3>1, MinIn
    <3>3. PICK k : k = subscriptions[Min(Unseen(r))].set /\ k \in Sets
      BY <3>2 DEF Inv1, Control, SetsKnown
    <3>4. k \in Nat
      BY <3>3 DEF Sets, Inv1, Values
    <3> QED
      BY <1>1, <1>2, <2>1, <2>2, <2>4, <3>3, <3>4
  <2>5. CASE RaisedIn(th)
    BY <1>1, <1>2, <2>1, <2>5
  <2>6. CASE /\ Unseen(r) = {} /\ UNCHANGED <<tasks, running>>
             /\ removal' = [removal EXCEPT ![th] = NoRemoval]
    <3>1. SeenAll(r, NoRemoval)
      BY <2>6 DEF SeenAll, NoRemoval
    <3> QED
      BY <1>1, <1>2, <2>1, <2>6, <3>1
  <2>7. \/ LookAt(th, 0) \/ RaisedIn(th)
        \/ Unseen(r) # {} /\ LookAt(th, subscriptions[Min(Unseen(r))].set)
        \/ /\ Unseen(r) = {} /\ UNCHANGED <<tasks, running>>
           /\ removal' = [removal EXCEPT ![th] = NoRemoval]
    BY <1>3 DEF RemoveLook
  <2> QED
    BY <2>3, <2>4, <2>5, <2>6, <2>7
<1>4. CASE RemoveDrop(th)
  <2>1. CASE Holds(r.at, r.client)
    BY <1>1, <1>4, <2>1, DropMore
  <2>2. CASE ~ Holds(r.at, r.client)
    BY <1>1, <1>2, <1>4, <2>2 DEF RemoveDrop
  <2> QED
    BY <2>1, <2>2
<1> QED
  BY <1>3, <1>4 DEF RemoveStep

\* Somebody removed is not waited for.
LEMMA RemoveStaysIn ==
    ASSUME Inv3, NEW th \in Threads, removal[th].stage # "none",
           OnlyLoses(removal[th].client), UNCHANGED failed,
           NEW u \in DOMAIN tasks, Begun(u), tasks'[u].owed \subseteq tasks[u].owed
    PROVE  StayIn(u)
<1>1. LeftOrFailed(removal[th].client)
  BY DEF Inv3, Inv2, Manager, Removing
<1>2. ASSUME NEW p \in tasks'[u].owed, NEW j \in DOMAIN tasks[u].left,
             p[1] \in members[tasks[u].left[j].set]
      PROVE  p[1] \in members'[tasks[u].left[j].set] \/ p[1] \in failed'
  <2>1. conn[p[1]] = "open"
    BY <1>2 DEF Inv3, Before, AllBefore, OwedCome
  <2>2. tasks[u].left[j].set \in Sets
    BY DEF Inv3, Inv2, Inv1, Control, SetsKnown
  <2>3. CASE p[1] = removal[th].client
    BY <1>1, <2>1, <2>3 DEF LeftOrFailed
  <2>4. CASE p[1] # removal[th].client
    BY <1>2, <2>2, <2>4 DEF OnlyLoses
  <2> QED
    BY <2>3, <2>4
<1> QED
  BY <1>2 DEF StayIn

\* The process thread, while a removal of it goes on, belongs to a task.
LEMMA RemovalTaken ==
    ASSUME Inv1, removal["process"].stage # "none"
    PROVE  /\ running # 0 /\ running \in DOMAIN tasks /\ tasks[running] \in Task
           /\ tasks[running].status = "run"
<1>1. running # 0
  BY DEF Inv1, Control, ThreadTaken, ProcessFree, NoRemoval
<1> QED
  BY <1>1, Runs

\* A removal that goes on in the process thread, for the task that it belongs to.
LEMMA RemovalGone ==
    ASSUME Inv3, Inv1', RemoveStep("process"), UNCHANGED <<tasks, running>>,
           NEW r, r = removal["process"], OnlyLoses(r.client),
           UNCHANGED <<conn, subscriptions>>, r.stage # "none",
           NEW x, removal' = [removal EXCEPT !["process"] = x],
           SeenAll(r, x) \/ SeesMore(r, x), NEW u, u = running, GoneMet(u)
    PROVE  GoneMet(u)'
<1>1. u \in DOMAIN tasks
  BY RemovalTaken DEF Inv3, Inv2
<1>2. removal'["process"] = x
  BY DEF Inv3, Inv2, Inv1, Values, Threads
<1>3. ASSUME NEW c \in tasks[u].gone
      PROVE  /\ conn'[c] = "ended"
             /\ \A i \in DOMAIN subscriptions :
                   Wanted(u, subscriptions[i]) /\ c \in members'[subscriptions[i].set]
                   => MeetsGone(u, c, i)'
             /\ IsRemoving(u, c)' =>
                   \A k \in x.seen \cap Sets' : c \notin members'[k]
  <2>1. conn'[c] = "ended"
    BY <1>3 DEF GoneMet
  <2>2. IsRemoving(u, c) <=> r.client = c
    BY DEF IsRemoving
  <2>3. ASSUME NEW i \in DOMAIN subscriptions, Wanted(u, subscriptions[i]),
               c \in members'[subscriptions[i].set]
        PROVE  MeetsGone(u, c, i)'
    <3>1. subscriptions[i].set \in Sets
      BY DEF Inv3, Inv2, Inv1, Control, SetsKnown
    <3>2. c \in members[subscriptions[i].set]
      BY <2>3, <3>1 DEF OnlyLoses
    <3>3. MeetsGone(u, c, i)
      BY <1>3, <2>3, <3>2 DEF GoneMet
    <3>4. CASE IsRemoving(u, c)
      <4>1. CASE SeenAll(r, x)
        <5>1. subscriptions[i].set \in r.seen
          BY <4>1 DEF SeenAll, Unseen
        <5> QED
          BY <1>3, <3>1, <3>2, <3>4, <5>1 DEF GoneMet
      <4>2. CASE SeesMore(r, x)
        <5>1. x.stage # "none" /\ x.client = c
          BY <2>2, <3>4, <4>2 DEF SeesMore
        <5>2. IsRemoving(u, c)'
          BY <1>2, <5>1 DEF IsRemoving
        <5> QED
          BY <5>2 DEF MeetsGone
      <4> QED
        BY <4>1, <4>2
    <3>5. CASE ~ IsRemoving(u, c)
      BY <3>3, <3>5 DEF MeetsGone
    <3> QED
      BY <3>4, <3>5
  <2>4. ASSUME IsRemoving(u, c)', NEW k \in x.seen \cap Sets'
        PROVE  c \notin members'[k]
    <3>1. x.stage # "none" /\ x.client = c
      BY <1>2, <2>4 DEF IsRemoving
    <3>2. SeesMore(r, x)
      BY <3>1 DEF SeenAll
    <3>3. r.client = c
      BY <3>1, <3>2 DEF SeesMore
    <3>4. PICK S \in SUBSET Nat : /\ x.seen = r.seen \cup S
                                  /\ \A n \in S \cap Sets : c \notin members'[n]
      BY <3>2, <3>3 DEF SeesMore
    <3>5. k \in Sets /\ members'[k] \subseteq members[k]
      BY <2>4 DEF OnlyLoses
    <3>6. CASE k \in r.seen
      BY <1>3, <2>2, <3>3, <3>5, <3>6 DEF GoneMet
    <3>7. CASE k \in S
      BY <3>4, <3>5, <3>7
    <3> QED
      BY <2>4, <3>4, <3>6, <3>7
  <2> QED
    BY <2>1, <2>3, <2>4
<1>4. \A i : Wanted(u, subscriptions[i])' <=> Wanted(u, subscriptions[i])
  BY DEF Wanted
<1> QED
  BY <1>2, <1>3, <1>4 DEF GoneMet

\* A removal keeps what the tasks have before them.
LEMMA RemoveBefore ==
    ASSUME Inv3, Inv1', NEW th \in Threads, RemoveStep(th)
    PROVE  Before'
<1>1. PICK r : r = removal[th]
  OBVIOUS
<1>2. /\ removal[th].stage # "none" /\ OnlyLoses(r.client)
      /\ UNCHANGED <<conn, subscriptions, received, failed>>
      /\ \/ RaisedIn(th)
         \/ /\ UNCHANGED <<tasks, running>>
            /\ \E x : /\ removal' = [removal EXCEPT ![th] = x]
                      /\ SeenAll(r, x) \/ SeesMore(r, x)
  BY <1>1, RemoveMoves DEF Inv3, Inv2
<1>3. ConnMoves /\ DictMoves /\ EndedStayOut
  <2>1. SetsShrink
    BY <1>2 DEF OnlyLoses, SetsShrink
  <2> QED
    BY <1>2, <2>1, OtherConn, OtherDict DEF Inv3, Inv2
<1>4. \A c \in Clients : ToSet(received[c]) \subseteq ToSet(received'[c])
  BY <1>2, SameReceived
\* A task that has not the process thread, or whose removal is not the one.
<1>5. ASSUME NEW u \in DOMAIN tasks, tasks'[u] = tasks[u],
             \A c : IsRemoving(u, c)' <=> IsRemoving(u, c),
             running = u => removal'["process"].seen = removal["process"].seen
      PROVE  AllBefore(u)'
  <2>1. SameWork(tasks[u], tasks'[u])
    BY <1>5, SameIsSameWork
  <2>2. Begun(u) => StayIn(u)
    BY <1>1, <1>2, <1>5, RemoveStaysIn
  <2>3. Begun(u) => \A p \in tasks'[u].owed : conn'[p[1]] = "open"
    BY <1>2, <1>5 DEF Inv3, Before, AllBefore, OwedCome
  <2> QED
    BY <1>2, <1>3, <1>4, <1>5, <2>1, <2>2, <2>3, AllKept
<1>6. CASE th = "main"
  <2>1. /\ removal'["process"] = removal["process"]
        /\ UNCHANGED <<tasks, running>>
    BY <1>2, <1>6 DEF RaisedIn, Inv3, Inv2, Inv1, Values, Threads
  <2>2. \A u : \A c : IsRemoving(u, c)' <=> IsRemoving(u, c)
    BY <2>1 DEF IsRemoving
  <2>3. \A u \in DOMAIN tasks : AllBefore(u)'
    BY <1>5, <2>1, <2>2
  <2> QED
    BY <2>1, <2>3 DEF Before
<1>7. CASE th = "process"
  <2>1. /\ running # 0 /\ running \in DOMAIN tasks /\ tasks[running] \in Task
        /\ tasks[running].status = "run"
    BY <1>2, <1>7, RemovalTaken DEF Inv3, Inv2
  <2>2. CASE RaisedIn("process")
    <3>0. PICK t : t = running
      OBVIOUS
    <3>1. PICK z : z = Over(tasks[running], "dead") /\ z \in Task
      BY <2>1, OverIsTask
    <3>2. Becomes(running, z) /\ running' = 0
      BY <2>2, <3>1 DEF RaisedIn, Becomes
    <3>3. z.status = "dead"
      BY <2>1, <3>1, OverFields
    <3>4. /\ DOMAIN tasks' = DOMAIN tasks /\ tasks'[t] = z
          /\ \A u \in DOMAIN tasks : u # t => tasks'[u] = tasks[u]
      BY <2>1, <3>0, <3>1, <3>2, TaskBecomes DEF Inv3, Inv2, Inv1
    <3>5. AllBefore(t)'
      <4>1. tasks'[t].status = "dead"
        BY <3>3, <3>4
      <4> QED
        BY <4>1 DEF AllBefore, Begun
    <3>6. ASSUME NEW u \in DOMAIN tasks, u # t
          PROVE  AllBefore(u)'
      <4>1. u # 0
        BY <3>6 DEF Inv3, Inv2, Inv1, Values
      <4>2. \A c : ~ IsRemoving(u, c)' /\ ~ IsRemoving(u, c)
        BY <3>0, <3>2, <3>6, <4>1 DEF IsRemoving
      <4> QED
        BY <1>5, <3>0, <3>4, <3>6, <4>2
    <3> QED
      BY <3>4, <3>5, <3>6 DEF Before
  <2>3. ASSUME UNCHANGED <<tasks, running>>,
               NEW x, removal' = [removal EXCEPT !["process"] = x],
               SeenAll(r, x) \/ SeesMore(r, x)
        PROVE  Before'
    <3>1. ASSUME NEW u \in DOMAIN tasks, u # running
          PROVE  AllBefore(u)'
      <4>1. \A c : ~ IsRemoving(u, c)' /\ ~ IsRemoving(u, c)
        BY <2>3, <3>1 DEF IsRemoving
      <4> QED
        BY <1>5, <2>3, <3>1, <4>1
    <3>2. PICK u : u = running
      OBVIOUS
    <3>3. SameWork(tasks[u], tasks'[u]) /\ Begun(u)
      BY <2>1, <2>3, <3>2, SameIsSameWork DEF Begun
    <3>4. Copied(u) /\ OwedCome(u) /\ GoneMet(u)
      BY <2>1, <3>2, <3>3 DEF Inv3, Before, AllBefore
    <3>5. Copied(u)'
      BY <1>3, <2>1, <3>2, <3>3, <3>4, CopiedKept
    <3>6. OwedCome(u)'
      <4>1. StayIn(u)
        BY <1>1, <1>2, <2>1, <2>3, <3>2, <3>3, RemoveStaysIn
      <4>2. \A p \in tasks'[u].owed : conn'[p[1]] = "open"
        BY <1>2, <2>3, <3>4 DEF OwedCome
      <4>3. u \in DOMAIN tasks /\ failed \subseteq failed'
        BY <1>2, <2>1, <3>2
      <4> QED
        BY <1>4, <3>3, <3>4, <4>1, <4>2, <4>3, OwedKept
    <3>7. GoneMet(u)'
      BY <1>1, <1>2, <1>7, <2>3, <3>2, <3>4, RemovalGone
    <3>8. tasks'[u].status = "run"
      BY <2>1, <2>3, <3>2
    <3>9. AllBefore(u)'
      BY <3>5, <3>6, <3>7, <3>8 DEF AllBefore
    <3> QED
      BY <2>3, <3>1, <3>2, <3>9 DEF Before
  <2> QED
    BY <1>2, <1>7, <2>2, <2>3
<1> QED
  BY <1>6, <1>7 DEF Threads

\* A step of a task keeps what the others have before them.
LEMMA OthersKeep ==
    ASSUME Inv3, Inv1', NEW t \in DOMAIN tasks, NEW z \in Task, Becomes(t, z),
           UNCHANGED <<conn, subscriptions, members>>,
           running \in {0, t}, running' \in {0, t}, failed \subseteq failed',
           \A c \in Clients : ToSet(received[c]) \subseteq ToSet(received'[c]),
           AllBefore(t)'
    PROVE  Before'
<1>1. /\ DOMAIN tasks' = DOMAIN tasks
      /\ \A u \in DOMAIN tasks : u # t => tasks'[u] = tasks[u]
  BY TaskBecomes DEF Inv3, Inv2, Inv1
<1>2. ConnMoves /\ DictMoves /\ EndedStayOut
  BY OtherConn, OtherDict, SetsSame DEF Inv3, Inv2
<1>3. ASSUME NEW u \in DOMAIN tasks, u # t
      PROVE  AllBefore(u)'
  <2>1. u # 0 /\ running # u /\ running' # u
    BY <1>3 DEF Inv3, Inv2, Inv1, Values
  <2>2. \A c : ~ IsRemoving(u, c)' /\ ~ IsRemoving(u, c)
    BY <2>1 DEF IsRemoving
  <2>3. SameWork(tasks[u], tasks'[u])
    BY <1>1, <1>3, SameIsSameWork
  <2>4. StayIn(u)
    BY DEF StayIn
  <2>5. Begun(u) => \A p \in tasks'[u].owed : conn'[p[1]] = "open"
    BY <1>1, <1>3 DEF Inv3, Before, AllBefore, OwedCome
  <2> QED
    BY <1>2, <2>1, <2>2, <2>3, <2>4, <2>5, AllKept
<1> QED
  BY <1>1, <1>3 DEF Before

\* A task that stays at its channel, and has fewer clients to come to: each one
\* it does without has got the event, or has gone or failed; and one that had
\* gone when the task began is being removed.
LEMMA OwnKept ==
    ASSUME Inv3, NEW t \in DOMAIN tasks, Begun(t),
           NEW r, r = tasks[t], NEW z, tasks'[t] = z,
           z.status # "new", z.symbol = r.symbol, z.details = r.details,
           z.left = r.left, z.channel = r.channel, z.gone = r.gone, z.owed \subseteq r.owed,
           z.todo \subseteq r.todo, \A c, d \in z.to : c = d, z.todo \cap z.to = {},
           UNCHANGED <<conn, subscriptions, members>>, failed \subseteq failed',
           \A c \in Clients : ToSet(received[c]) \subseteq ToSet(received'[c]),
           \A c \in (r.todo \cup r.to) \ (z.todo \cup z.to) :
               \/ c \in failed' \/ conn[c] # "open"
               \/ <<t, r.channel>> \in ToSet(received'[c]),
           \A c : ~ IsRemoving(t, c),
           \A c \in r.todo \ z.todo : IsRemoving(t, c)' \/ conn[c] # "ended",
           \A c : IsRemoving(t, c)' => removal'["process"].seen = {}
    PROVE  AllBefore(t)'
<1>1. Copied(t) /\ OwedCome(t) /\ GoneMet(t)
  BY DEF Inv3, Before, AllBefore
<1>2. \A e : Wanted(t, e)' <=> Wanted(t, e)
  BY DEF Wanted
<1>3. Copied(t)'
  BY <1>1 DEF Copied
<1>4. ASSUME NEW p \in tasks'[t].owed
      PROVE  /\ conn'[p[1]] = "open"
             /\ \/ <<t, p[2]>> \in ToSet(received'[p[1]]) \/ p[1] \in failed'
                \/ Comes(t, p)'
  <2>1. p \in tasks[t].owed /\ p[1] \in Clients /\ conn[p[1]] = "open"
    BY <1>1, <1>4, OwedOpen DEF OwedCome
  <2>2. CASE <<t, p[2]>> \in ToSet(received[p[1]]) \/ p[1] \in failed
    BY <2>1, <2>2
  <2>3. ASSUME NEW j \in DOMAIN tasks[t].left, Wanted(t, tasks[t].left[j]),
               tasks[t].left[j].channel = p[2],
               p[1] \in members[tasks[t].left[j].set]
        PROVE  Comes(t, p)'
    BY <1>2, <2>3 DEF Comes, Wanted
  <2>4. CASE tasks[t].channel = p[2] /\ p[1] \in tasks[t].todo \cup tasks[t].to
    <3>1. CASE p[1] \in z.todo \cup z.to
      <4>1. /\ tasks'[t].channel = p[2]
            /\ p[1] \in tasks'[t].todo \cup tasks'[t].to
        BY <2>4, <3>1
      <4> QED
        BY <2>1, <4>1 DEF Comes
    <3>2. CASE p[1] \notin z.todo \cup z.to
      BY <2>1, <2>4, <3>2
    <3> QED
      BY <3>1, <3>2
  <2> QED
    BY <1>1, <2>1, <2>2, <2>3, <2>4 DEF OwedCome, Comes
<1>5. ASSUME NEW c \in tasks'[t].gone
      PROVE  /\ conn'[c] = "ended"
             /\ \A i \in DOMAIN subscriptions :
                   Wanted(t, subscriptions[i]) /\ c \in members[subscriptions[i].set]
                   => MeetsGone(t, c, i)'
             /\ IsRemoving(t, c)' =>
                   \A k \in removal'["process"].seen \cap Sets' : c \notin members'[k]
  <2>1. c \in tasks[t].gone /\ conn[c] = "ended"
    BY <1>1, <1>5 DEF GoneMet
  <2>2. ASSUME NEW i \in DOMAIN subscriptions, Wanted(t, subscriptions[i]),
               c \in members[subscriptions[i].set]
        PROVE  MeetsGone(t, c, i)'
    <3>1. MeetsGone(t, c, i)
      BY <1>1, <2>1, <2>2 DEF GoneMet
    <3> QED
      BY <2>1, <3>1 DEF MeetsGone
  <2> QED
    BY <2>1, <2>2
<1>6. OwedCome(t)'
  BY <1>4 DEF OwedCome
<1>7. GoneMet(t)'
  <2>1. \A i : Wanted(t, subscriptions[i])' <=> Wanted(t, subscriptions[i])
    BY DEF Wanted
  <2> QED
    BY <1>5, <2>1 DEF GoneMet
<1>8. tasks'[t].status # "new"
  OBVIOUS
<1> QED
  BY <1>3, <1>6, <1>7, <1>8 DEF AllBefore

\* A message that arrives is one more.
LEMMA GotMore ==
    ASSUME Inv1, NEW t \in DOMAIN tasks, NEW c \in Clients, Got(t, c)
    PROVE  /\ <<t, tasks[t].channel>> \in ToSet(received'[c])
           /\ \A d \in Clients : ToSet(received[d]) \subseteq ToSet(received'[d])
<1>1. PICK m : m = <<t, tasks[t].channel>> /\ m \in Message
  <2>1. t \in Nat /\ tasks[t] \in Task
    BY DEF Inv1, Values
  <2>2. PICK ch : ch = tasks[t].channel /\ ch \in Channels \cup {<<>>}
    BY <2>1, TaskFields
  <2>3. <<t, ch>> \in Nat \X (Channels \cup {<<>>})
    BY <2>1, <2>2
  <2> QED
    BY <2>2, <2>3 DEF Message
<1>2. PICK s : s = received[c] /\ s \in Seq(Message)
  BY DEF Inv1, Values
<1>3. received'[c] = Append(s, m) /\ \A d \in Clients : d # c => received'[d] = received[d]
  BY <1>1, <1>2 DEF Got, Inv1, Values
<1>4. /\ DOMAIN Append(s, m) = DOMAIN s \cup {Len(s) + 1}
      /\ Append(s, m)[Len(s) + 1] = m
      /\ \A j \in DOMAIN s : Append(s, m)[j] = s[j]
  BY <1>1, <1>2, SeqAppend
<1>5. m \in ToSet(received'[c]) /\ ToSet(received[c]) \subseteq ToSet(received'[c])
  <2> DEFINE z == Append(s, m)
  <2>1. ToSet(z) = {z[j] : j \in DOMAIN z} /\ ToSet(s) = {s[j] : j \in DOMAIN s}
    BY DEF ToSet
  <2>2. /\ DOMAIN z = DOMAIN s \cup {Len(s) + 1} /\ z[Len(s) + 1] = m
        /\ \A j \in DOMAIN s : z[j] = s[j]
    BY <1>4
  <2>3. received'[c] = z /\ received[c] = s
    BY <1>2, <1>3
  <2> HIDE DEF z
  <2>4. m \in ToSet(z)
    BY <2>1, <2>2
  <2>5. ToSet(s) \subseteq ToSet(z)
    BY <2>1, <2>2
  <2> QED
    BY <2>3, <2>4, <2>5
<1> QED
  BY <1>1, <1>3, <1>5

\* A task that is over has nothing before it.
LEMMA OverBefore ==
    ASSUME Inv3, Inv1', NEW t \in DOMAIN tasks, tasks[t] \in Task,
           NEW how \in {"dead", "done"}, Becomes(t, Over(tasks[t], how)),
           running = t, running' = 0,
           UNCHANGED <<conn, subscriptions, members, received, failed>>
    PROVE  Before'
<1>1. PICK z : z = Over(tasks[t], how) /\ z \in Task /\ z.status = how /\ Becomes(t, z)
  BY OverIsTask, OverFields
<1>2. tasks'[t] = z
  BY <1>1, TaskBecomes DEF Inv3, Inv2, Inv1
<1>3. AllBefore(t)'
  BY <1>1, <1>2 DEF AllBefore, Begun
<1> QED
  BY <1>1, <1>3, SameReceived, OthersKeep

\* The channels of the dict are not the empty sequence.
LEMMA ChannelNotEmpty ==
    ASSUME Inv1, NEW i \in DOMAIN subscriptions
    PROVE  subscriptions[i].channel # <<>>
<1>1. subscriptions[i] \in Entry
  BY DEF Inv1, Values
<1>2. subscriptions[i].channel \in Channels
  BY <1>1 DEF Entry
<1>3. Len(subscriptions[i].channel) >= 1
  BY <1>2, DeliveryAssumption
<1>4. Len(<<>>) = 0
  OBVIOUS
<1> QED
  BY <1>3, <1>4

\* A task that starts has everything before it.
LEMMA StartBefore ==
    ASSUME Inv3, Inv1', StartTask
    PROVE  Before'
<1>1. PICK t : t = FirstTask /\ t \in DOMAIN tasks /\ tasks[t] \in Task
               /\ tasks[t].status = "new" /\ Started(t) \in Task
               /\ Becomes(t, Started(t)) /\ running' = t
  BY StartIs, FirstIsNew DEF StartTask, Inv3, Inv2
<1>2. PICK r, z : r = tasks[t] /\ z = Started(t) /\ r \in Task /\ z \in Task
  BY <1>1
<1>3. /\ z.symbol = r.symbol /\ z.details = r.details /\ z.status = "run"
      /\ z.left = subscriptions /\ z.channel = r.channel /\ z.todo = r.todo
      /\ z.to = r.to /\ z.owed = SubscribedTo(t)
      /\ z.gone = {c \in Clients : conn[c] = "ended"}
  BY <1>1, <1>2, StartedFields
<1>4. tasks'[t] = z
  BY <1>1, <1>2, TaskBecomes DEF Inv3, Inv2, Inv1
<1>5. r.channel = <<>> /\ r.todo = {} /\ r.to = {}
  BY <1>1, <1>2 DEF Inv3, Before, AllBefore, Fresh, Inv2, Inv1, Control, ThreadTaken
<1>6. /\ UNCHANGED <<conn, subscriptions, members, received, failed, removal>>
      /\ running = 0 /\ removal["process"].stage = "none"
  <2>1. running = 0
    BY DEF StartTask
  <2>2. removal["process"] = NoRemoval
    BY <2>1 DEF Inv3, Inv2, Inv1, Control, ThreadTaken, ProcessFree
  <2> QED
    BY <2>1, <2>2 DEF StartTask, managerVars, historyVars, NoRemoval
<1>7. \A e : Wanted(t, e)' <=> Wanted(t, e)
  BY <1>2, <1>3, <1>4 DEF Wanted
<1>8. Copied(t)'
  <2>1. \A j \in DOMAIN subscriptions : subscriptions[j].channel # <<>>
    BY ChannelNotEmpty DEF Inv3, Inv2
  <2>2. \A j, k \in DOMAIN subscriptions :
            subscriptions[j].channel = subscriptions[k].channel
                \/ subscriptions[j].set = subscriptions[k].set => j = k
    BY DEF Inv3, Inv2, Manager, OneEntryEach
  <2> QED
    BY <1>3, <1>4, <1>5, <1>6, <2>1, <2>2 DEF Copied
<1>9. OwedCome(t)'
  <2>1. ASSUME NEW p \in SubscribedTo(t)
        PROVE  conn'[p[1]] = "open" /\ Comes(t, p)'
    <3>1. conn[p[1]] = "open"
      BY <2>1 DEF SubscribedTo
    <3>2. PICK i \in EntriesOf(p[2]) : /\ Wanted(t, subscriptions[i])
                                       /\ p[1] \in members[subscriptions[i].set]
      BY <2>1 DEF SubscribedTo
    <3>3. /\ i \in DOMAIN subscriptions /\ subscriptions[i].channel = p[2]
      BY <3>2 DEF EntriesOf
    <3>4. /\ i \in DOMAIN tasks'[t].left /\ tasks'[t].left[i] = subscriptions[i]
      BY <1>3, <1>4, <3>3
    <3>5. Wanted(t, subscriptions[i])'
      BY <1>2, <1>3, <1>4, <1>6, <3>2 DEF Wanted
    <3>6. Wanted(t, tasks[t].left[i])'
      BY <3>4, <3>5, <1>6 DEF Wanted
    <3> QED
      BY <1>6, <3>1, <3>2, <3>3, <3>4, <3>6 DEF Comes
  <2> QED
    BY <1>3, <1>4, <2>1 DEF OwedCome
<1>10. GoneMet(t)'
  <2>1. \A c : ~ IsRemoving(t, c)'
    BY <1>6 DEF IsRemoving
  <2>2. \A c \in tasks'[t].gone : conn'[c] = "ended"
    BY <1>3, <1>4, <1>6
  <2>3. \A c : \A i \in DOMAIN subscriptions' : MeetsGone(t, c, i)'
    BY <1>3, <1>4, <1>6 DEF MeetsGone
  <2> QED
    BY <2>1, <2>2, <2>3 DEF GoneMet
<1>11. AllBefore(t)'
  BY <1>3, <1>4, <1>8, <1>9, <1>10 DEF AllBefore
<1> QED
  BY <1>1, <1>2, <1>6, <1>11, SameReceived, OthersKeep

\* The entries of the copy after the one that the task comes to.
IsCut(l, left, j) ==
    /\ \A i \in DOMAIN l : \E k \in DOMAIN left :
           k > j /\ k = j + i /\ l[i] = left[k]
    /\ \A k \in DOMAIN left : k > j => \E i \in DOMAIN l : l[i] = left[k]
    /\ DOMAIN left \subseteq Nat /\ DOMAIN l \subseteq Nat

\* The rest of a copy holds its later entries.
LEMMA CutEntries ==
    ASSUME NEW r \in Task, NEW j \in DOMAIN r.left
    PROVE  IsCut(SubSeq(r.left, j + 1, Len(r.left)), r.left, j)
<1>0. PICK l : l = SubSeq(r.left, j + 1, Len(r.left))
  OBVIOUS
<1>1. r.left \in Seq(Entry)
  BY TaskFields
<1>2. PICK n \in Nat : n = Len(r.left) /\ DOMAIN r.left = 1 .. n
  BY <1>1
<1>3. j \in Int /\ n \in Int /\ j \in 1 .. n
  BY <1>2
<1>4. l = SubSeq(r.left, j + 1, n)
  BY <1>0, <1>2
<1>5. \A i \in j + 1 .. n : r.left[i] \in Entry
  BY <1>1, <1>2, <1>3
<1>6. /\ l \in Seq(Entry)
      /\ Len(l) = IF j + 1 <= n THEN n - (j + 1) + 1 ELSE 0
      /\ \A i \in 1 .. n - (j + 1) + 1 : l[i] = r.left[(j + 1) + i - 1]
  <2>1. PICK s : s = SubSeq(r.left, j + 1, n)
    OBVIOUS
  <2>2. /\ s \in Seq(Entry)
        /\ Len(s) = IF j + 1 <= n THEN n - (j + 1) + 1 ELSE 0
        /\ \A i \in 1 .. n - (j + 1) + 1 : s[i] = r.left[(j + 1) + i - 1]
    BY <1>3, <1>5, <2>1, SubSeqProperties
  <2> QED
    BY <1>4, <2>1, <2>2
<1>7. DOMAIN l = 1 .. Len(l)
  BY <1>6
<1>8. DOMAIN l = 1 .. n - j
  BY <1>3, <1>6, <1>7
<1>9. \A i \in 1 .. n - j : l[i] = r.left[j + i] /\ j + i \in 1 .. n /\ j + i > j
  <2>1. ASSUME NEW i \in 1 .. n - j
        PROVE  l[i] = r.left[j + i] /\ j + i \in 1 .. n /\ j + i > j
    <3>1. i \in 1 .. n - (j + 1) + 1 /\ (j + 1) + i - 1 = j + i
      BY <1>3, <2>1
    <3>2. l[i] = r.left[j + i]
      BY <1>6, <3>1
    <3>3. j + i \in 1 .. n /\ j + i > j
      BY <1>3, <2>1
    <3> QED
      BY <3>2, <3>3
  <2> QED
    BY <2>1
<1>10. ASSUME NEW k \in DOMAIN r.left, k > j
       PROVE  \E i \in DOMAIN l : l[i] = r.left[k]
  <2>1. PICK i : i = k - j
    OBVIOUS
  <2>2. k \in 1 .. n
    BY <1>2
  <2>3. i \in 1 .. n - j /\ j + i = k
    BY <1>3, <1>10, <2>1, <2>2
  <2> QED
    BY <1>8, <1>9, <2>3
<1>11. ASSUME NEW i \in DOMAIN l
       PROVE  \E k \in DOMAIN r.left : k > j /\ k = j + i /\ l[i] = r.left[k]
  BY <1>2, <1>8, <1>9, <1>11
<1>12. \A i \in DOMAIN l : \E k \in DOMAIN r.left :
           k > j /\ k = j + i /\ l[i] = r.left[k]
  BY <1>11
<1>13. \A k \in DOMAIN r.left : k > j => \E i \in DOMAIN l : l[i] = r.left[k]
  BY <1>10
<1>14. DOMAIN r.left \subseteq Nat /\ DOMAIN l \subseteq Nat
  BY <1>2, <1>3, <1>8
<1>15. IsCut(l, r.left, j)
  BY <1>12, <1>13, <1>14 DEF IsCut
<1> QED
  BY <1>0, <1>15

\* The task at the entry.
IsAtEntry(r, j, z) ==
    /\ z.symbol = r.symbol /\ z.details = r.details /\ z.status = r.status
    /\ z.left = SubSeq(r.left, j + 1, Len(r.left))
    /\ z.channel = r.left[j].channel /\ z.todo = members[r.left[j].set]
    /\ z.to = r.to /\ z.owed = r.owed /\ z.gone = r.gone

\* The fields of a task at an entry, as one fact.
LEMMA ComesToEntry ==
    ASSUME NEW r \in Task, NEW j
    PROVE  IsAtEntry(r, j, AtEntry(r, j))
<1>1. PICK z : z = AtEntry(r, j)
  OBVIOUS
<1> QED
  BY <1>1, AtEntryFields DEF IsAtEntry

\* A task that comes to an entry has passed over nobody it owes.
LEMMA EntryBefore ==
    ASSUME Inv3, NEW t \in DOMAIN tasks, running = t, t # 0, ProcessFree,
           NEW r \in Task, r = tasks[t], r.todo = {}, NEW j \in Ahead(t),
           \A k \in Ahead(t) : j <= k, NEW z \in Task, z = AtEntry(r, j),
           tasks'[t] = z,
           UNCHANGED <<conn, subscriptions, members, received, failed, removal>>
    PROVE  AllBefore(t)'
<1>1. /\ z.symbol = r.symbol /\ z.details = r.details /\ z.status = r.status
      /\ z.left = SubSeq(r.left, j + 1, Len(r.left))
      /\ z.channel = r.left[j].channel /\ z.todo = members[r.left[j].set]
      /\ z.to = r.to /\ z.owed = r.owed /\ z.gone = r.gone
  <2>1. IsAtEntry(r, j, z)
    BY ComesToEntry
  <2> QED
    BY <2>1 DEF IsAtEntry
<1>2. r.status = "run" /\ r.to = {}
  BY Runs DEF Inv3, Inv2
<1>3. Copied(t) /\ OwedCome(t) /\ GoneMet(t)
  BY <1>2 DEF Inv3, Before, AllBefore, Begun
<1>4. PICK l : l = z.left
  OBVIOUS
<1>5. j \in DOMAIN r.left
  BY DEF Ahead
<1>6. /\ \A i \in DOMAIN l : \E k \in DOMAIN r.left :
             k > j /\ k = j + i /\ l[i] = r.left[k]
      /\ \A k \in DOMAIN r.left : k > j => \E i \in DOMAIN l : l[i] = r.left[k]
      /\ DOMAIN r.left \subseteq Nat /\ DOMAIN l \subseteq Nat
  <2>1. IsCut(SubSeq(r.left, j + 1, Len(r.left)), r.left, j)
    BY <1>5, CutEntries
  <2>2. IsCut(l, r.left, j)
    BY <1>1, <1>4, <2>1
  <2> QED
    BY <2>2 DEF IsCut
<1>7. \A e : Wanted(t, e)' <=> Wanted(t, e)
  BY <1>1 DEF Wanted
<1>8. \A c : ~ IsRemoving(t, c) /\ ~ IsRemoving(t, c)'
  <2>1. removal["process"].stage = "none"
    BY DEF ProcessFree, NoRemoval
  <2> QED
    BY <2>1 DEF IsRemoving
<1>9. \A k \in DOMAIN r.left : Wanted(t, r.left[k]) => k = j \/ k > j
  BY <1>5, <1>6 DEF Ahead
<1>10. Copied(t)'
  <2>1. \A i \in DOMAIN l : l[i].channel # r.left[j].channel
    BY <1>3, <1>5, <1>6 DEF Copied
  <2>2. ASSUME NEW i \in DOMAIN l, NEW k \in DOMAIN l, l[i].channel = l[k].channel
        PROVE  i = k
    <3>1. PICK i2 \in DOMAIN r.left : i2 = j + i /\ l[i] = r.left[i2]
      BY <1>6
    <3>2. PICK k2 \in DOMAIN r.left : k2 = j + k /\ l[k] = r.left[k2]
      BY <1>6
    <3>3. i2 = k2
      BY <1>3, <2>2, <3>1, <3>2 DEF Copied
    <3> QED
      BY <1>5, <1>6, <3>1, <3>2, <3>3
  <2>3. \A k \in DOMAIN l : \A i \in DOMAIN subscriptions :
            l[k].set = subscriptions[i].set => l[k].channel = subscriptions[i].channel
    BY <1>3, <1>6 DEF Copied
  <2>4. /\ tasks'[t].left = l /\ tasks'[t].channel = r.left[j].channel
        /\ tasks'[t].to = {}
    BY <1>1, <1>2, <1>4
  <2> QED
    BY <2>1, <2>2, <2>3, <2>4 DEF Copied
<1>11. OwedCome(t)'
  <2>1. ASSUME NEW p \in r.owed
        PROVE  /\ conn'[p[1]] = "open"
               /\ \/ <<t, p[2]>> \in ToSet(received'[p[1]]) \/ p[1] \in failed'
                  \/ Comes(t, p)'
    <3>1. /\ conn[p[1]] = "open"
          /\ \/ <<t, p[2]>> \in ToSet(received[p[1]]) \/ p[1] \in failed
             \/ Comes(t, p)
      BY <1>3 DEF OwedCome
    <3>2. ASSUME NEW k \in DOMAIN r.left, Wanted(t, r.left[k]),
                 r.left[k].channel = p[2], p[1] \in members[r.left[k].set]
          PROVE  Comes(t, p)'
      <4>1. CASE k = j
        <5>1. tasks'[t].channel = p[2] /\ p[1] \in tasks'[t].todo
          BY <1>1, <3>2, <4>1
        <5> QED
          BY <5>1 DEF Comes
      <4>2. CASE k > j
        <5>1. PICK i \in DOMAIN l : l[i] = r.left[k]
          BY <1>6, <4>2
        <5>2. i \in DOMAIN tasks'[t].left /\ tasks'[t].left[i] = r.left[k]
          BY <1>4, <5>1
        <5>3. Wanted(t, tasks[t].left[i])'
          BY <1>7, <3>2, <5>2 DEF Wanted
        <5> QED
          BY <3>2, <5>2, <5>3 DEF Comes
      <4> QED
        BY <1>9, <3>2, <4>1, <4>2
    <3>3. Comes(t, p) => Comes(t, p)'
      BY <1>2, <3>2 DEF Comes
    <3> QED
      BY <3>1, <3>3
  <2> QED
    BY <1>1, <2>1 DEF OwedCome
<1>12. GoneMet(t)'
  <2>1. ASSUME NEW c \in r.gone, NEW i \in DOMAIN subscriptions,
               Wanted(t, subscriptions[i]), c \in members[subscriptions[i].set]
        PROVE  MeetsGone(t, c, i)'
    <3>1. MeetsGone(t, c, i)
      BY <1>3, <2>1 DEF GoneMet
    <3>2. PICK k \in DOMAIN r.left : r.left[k].set = subscriptions[i].set
      BY <1>8, <3>1 DEF MeetsGone
    <3>3. r.left[k].channel = subscriptions[i].channel
      BY <1>3, <3>2 DEF Copied
    <3>4. Wanted(t, r.left[k])
      BY <2>1, <3>3 DEF Wanted, NoParts
    <3>5. CASE k = j
      <4>1. tasks'[t].channel = subscriptions[i].channel /\ c \in tasks'[t].todo
        BY <1>1, <2>1, <3>2, <3>3, <3>5
      <4> QED
        BY <4>1 DEF MeetsGone
    <3>6. CASE k > j
      <4>1. PICK m \in DOMAIN l : l[m] = r.left[k]
        BY <1>6, <3>6
      <4>2. m \in DOMAIN tasks'[t].left /\ tasks'[t].left[m].set = subscriptions[i].set
        BY <1>4, <3>2, <4>1
      <4> QED
        BY <4>2 DEF MeetsGone
    <3> QED
      BY <1>9, <3>4, <3>5, <3>6
  <2>2. \A c \in r.gone : conn[c] = "ended"
    BY <1>3 DEF GoneMet
  <2>3. \A i : Wanted(t, subscriptions[i])' <=> Wanted(t, subscriptions[i])
    BY <1>1 DEF Wanted
  <2>4. tasks'[t].gone = r.gone
    BY <1>1
  <2> QED
    BY <1>8, <2>1, <2>2, <2>3, <2>4 DEF GoneMet
<1> QED
  BY <1>1, <1>2, <1>10, <1>11, <1>12 DEF AllBefore

\* The same of the step itself.
LEMMA NextBefore ==
    ASSUME Inv3, Inv1', NextChannel
    PROVE  Before'
<1>1. PICK t : t = running /\ t \in DOMAIN tasks /\ tasks[t] \in Task /\ t # 0
               /\ tasks[t].todo = {} /\ ProcessFree
  BY Runs DEF NextChannel, InTask, Inv3, Inv2
<1>2. UNCHANGED <<conn, subscriptions, members, received, failed, removal>>
  BY DEF NextChannel, managerVars, historyVars
<1>3. PICK j \in Ahead(t) :
          /\ \A k \in Ahead(t) : j <= k
          /\ \/ /\ Becomes(t, Over(tasks[t], "dead")) /\ running' = 0
             \/ /\ AtEntry(tasks[t], j) \in Task
                /\ Becomes(t, AtEntry(tasks[t], j)) /\ running' = running
  BY <1>1, NextIs DEF Inv3, Inv2
<1>4. CASE Becomes(t, Over(tasks[t], "dead")) /\ running' = 0
  BY <1>1, <1>2, <1>4, OverBefore
<1>5. CASE /\ AtEntry(tasks[t], j) \in Task
           /\ Becomes(t, AtEntry(tasks[t], j)) /\ running' = running
  <2>1. PICK z : z = AtEntry(tasks[t], j) /\ z \in Task /\ Becomes(t, z)
    BY <1>5
  <2>2. tasks'[t] = z
    BY <1>1, <2>1, TaskBecomes DEF Inv3, Inv2, Inv1
  <2>3. AllBefore(t)'
    BY <1>1, <1>2, <1>3, <2>1, <2>2, EntryBefore
  <2> QED
    BY <1>1, <1>2, <1>5, <2>1, <2>3, SameReceived, OthersKeep
<1> QED
  BY <1>3, <1>4, <1>5

\* A client that is passed over is owed nothing.
LEMMA SkipBefore ==
    ASSUME Inv3, Inv1', NEW c \in Clients, SkipClient(c)
    PROVE  Before'
<1>1. PICK t : t = running /\ t \in DOMAIN tasks /\ tasks[t] \in Task /\ t # 0
               /\ ProcessFree /\ tasks[t].status = "run" /\ tasks[t].to = {}
               /\ c \in tasks[t].todo /\ c \notin active
  BY Runs DEF SkipClient, InTask, Inv3, Inv2
<1>2. /\ UNCHANGED <<conn, subscriptions, members, received, failed, running>>
      /\ removal' = [removal EXCEPT !["process"] = Begin(c)]
  BY DEF SkipClient, managerVars, historyVars
<1>3. PICK z : z = [tasks[t] EXCEPT !.todo = @ \ {c}] /\ z \in Task /\ Becomes(t, z)
  BY <1>1, SkipIs DEF Inv3, Inv2
<1>4. PICK r : r = tasks[t]
  OBVIOUS
<1>5. /\ z.symbol = r.symbol /\ z.details = r.details /\ z.status = r.status
      /\ z.left = r.left /\ z.channel = r.channel /\ z.todo = r.todo \ {c}
      /\ z.to = r.to /\ z.owed = r.owed /\ z.gone = r.gone
  BY <1>1, <1>3, <1>4, SkipFields
<1>6. tasks'[t] = z
  BY <1>1, <1>3, TaskBecomes DEF Inv3, Inv2, Inv1
<1>7. /\ \A d : ~ IsRemoving(t, d)
      /\ IsRemoving(t, c)' /\ removal'["process"].seen = {}
  <2>1. removal["process"].stage = "none"
    BY <1>1 DEF ProcessFree, NoRemoval
  <2>2. removal'["process"] = Begin(c)
    BY <1>2 DEF Inv3, Inv2, Inv1, Values, Threads
  <2>3. /\ removal'["process"].stage = "look" /\ removal'["process"].client = c
        /\ removal'["process"].seen = {}
    BY <2>2 DEF Begin
  <2> QED
    BY <1>1, <1>2, <2>1, <2>3 DEF IsRemoving
<1>8. c \in failed' \/ conn[c] # "open"
  BY <1>1, <1>2 DEF Inv3, Inv2, Manager, Known
<1>9. AllBefore(t)'
  <2>1. Begun(t) /\ z.status # "new" /\ z.to = {}
    BY <1>1, <1>4, <1>5 DEF Begun
  <2>2. \A d \in (r.todo \cup r.to) \ (z.todo \cup z.to) :
            \/ d \in failed' \/ conn[d] # "open"
            \/ <<t, r.channel>> \in ToSet(received'[d])
    BY <1>5, <1>8
  <2>3. \A d \in r.todo \ z.todo : IsRemoving(t, d)' \/ conn[d] # "ended"
    BY <1>5, <1>7
  <2>4. \A d \in Clients : ToSet(received[d]) \subseteq ToSet(received'[d])
    BY <1>2, SameReceived
  <2>5. z.owed \subseteq r.owed /\ z.todo \subseteq r.todo
    BY <1>5
  <2> QED
    BY <1>1, <1>2, <1>4, <1>5, <1>6, <1>7, <2>1, <2>2, <2>3, <2>4, <2>5, OwnKept
<1> QED
  BY <1>1, <1>2, <1>3, <1>9, SameReceived, OthersKeep

\* A client that has got the event is owed nothing more.
LEMMA SendBefore ==
    ASSUME Inv3, Inv1', NEW c \in Clients, Send(c)
    PROVE  Before'
<1>1. PICK t : t = running /\ t \in DOMAIN tasks /\ tasks[t] \in Task /\ t # 0
               /\ ProcessFree /\ tasks[t].status = "run" /\ tasks[t].to = {}
               /\ c \in tasks[t].todo /\ conn[c] = "open" /\ Got(t, c)
  BY Runs DEF Send, Sendable, InTask, Inv3, Inv2
<1>2. UNCHANGED <<conn, subscriptions, members, removal, failed, running>>
  BY DEF Send, managerVars
<1>3. PICK z : z = [tasks[t] EXCEPT !.todo = @ \ {c}] /\ z \in Task /\ Becomes(t, z)
  BY <1>1, SkipIs DEF Inv3, Inv2
<1>4. PICK r : r = tasks[t]
  OBVIOUS
<1>5. /\ z.symbol = r.symbol /\ z.details = r.details /\ z.status = r.status
      /\ z.left = r.left /\ z.channel = r.channel /\ z.todo = r.todo \ {c}
      /\ z.to = r.to /\ z.owed = r.owed /\ z.gone = r.gone
  BY <1>1, <1>3, <1>4, SkipFields
<1>6. tasks'[t] = z
  BY <1>1, <1>3, TaskBecomes DEF Inv3, Inv2, Inv1
<1>7. \A d : ~ IsRemoving(t, d) /\ ~ IsRemoving(t, d)'
  <2>1. removal["process"].stage = "none"
    BY <1>1 DEF ProcessFree, NoRemoval
  <2> QED
    BY <1>2, <2>1 DEF IsRemoving
<1>8. /\ <<t, r.channel>> \in ToSet(received'[c])
      /\ \A d \in Clients : ToSet(received[d]) \subseteq ToSet(received'[d])
  BY <1>1, <1>4, GotMore DEF Inv3, Inv2
<1>9. AllBefore(t)'
  <2>1. Begun(t) /\ z.status # "new" /\ z.to = {}
    BY <1>1, <1>4, <1>5 DEF Begun
  <2>2. \A d \in (r.todo \cup r.to) \ (z.todo \cup z.to) :
            \/ d \in failed' \/ conn[d] # "open"
            \/ <<t, r.channel>> \in ToSet(received'[d])
    BY <1>5, <1>8
  <2>3. \A d \in r.todo \ z.todo : IsRemoving(t, d)' \/ conn[d] # "ended"
    BY <1>1, <1>5
  <2>4. z.owed \subseteq r.owed /\ z.todo \subseteq r.todo
    BY <1>5
  <2> QED
    BY <1>1, <1>2, <1>4, <1>5, <1>6, <1>7, <1>8, <2>1, <2>2, <2>3, <2>4, OwnKept
<1> QED
  BY <1>1, <1>2, <1>3, <1>8, <1>9, OthersKeep

\* A client in whose send the task waits is still to get the event.
LEMMA SendWaitsBefore ==
    ASSUME Inv3, Inv1', NEW c \in Clients, SendWaits(c)
    PROVE  Before'
<1>1. PICK t : t = running /\ t \in DOMAIN tasks /\ tasks[t] \in Task /\ t # 0
               /\ ProcessFree /\ tasks[t].status = "run" /\ tasks[t].to = {}
               /\ c \in tasks[t].todo /\ conn[c] = "open"
  BY Runs DEF SendWaits, Sendable, InTask, Inv3, Inv2
<1>2. /\ UNCHANGED <<conn, subscriptions, members, removal, failed, received>>
      /\ running' = 0
  BY DEF SendWaits, managerVars
<1>3. PICK z : z = InSend(tasks[t], c) /\ z \in Task /\ Becomes(t, z)
  BY <1>1, WaitIs DEF Inv3, Inv2
<1>4. PICK r : r = tasks[t]
  OBVIOUS
<1>5. /\ z.symbol = r.symbol /\ z.details = r.details /\ z.status = "wait"
      /\ z.left = r.left /\ z.channel = r.channel /\ z.todo = r.todo \ {c}
      /\ z.to = {c} /\ z.owed = r.owed /\ z.gone = r.gone
  BY <1>1, <1>3, <1>4, InSendFields
<1>6. tasks'[t] = z
  BY <1>1, <1>3, TaskBecomes DEF Inv3, Inv2, Inv1
<1>7. \A d : ~ IsRemoving(t, d) /\ ~ IsRemoving(t, d)'
  <2>1. removal["process"].stage = "none"
    BY <1>1 DEF ProcessFree, NoRemoval
  <2> QED
    BY <1>2, <2>1 DEF IsRemoving
<1>8. \A d \in Clients : ToSet(received[d]) \subseteq ToSet(received'[d])
  BY <1>2, SameReceived
<1>9. AllBefore(t)'
  <2>1. Begun(t) /\ z.status # "new" /\ z.todo \cap z.to = {}
    BY <1>1, <1>4, <1>5 DEF Begun
  <2>2. \A d \in (r.todo \cup r.to) \ (z.todo \cup z.to) :
            \/ d \in failed' \/ conn[d] # "open"
            \/ <<t, r.channel>> \in ToSet(received'[d])
    BY <1>1, <1>4, <1>5
  <2>3. \A d \in r.todo \ z.todo : IsRemoving(t, d)' \/ conn[d] # "ended"
    BY <1>1, <1>5
  <2>4. /\ z.owed \subseteq r.owed /\ z.todo \subseteq r.todo
        /\ \A d, e \in z.to : d = e
    BY <1>5
  <2> QED
    BY <1>1, <1>2, <1>4, <1>5, <1>6, <1>7, <1>8, <2>1, <2>2, <2>3, <2>4, OwnKept
<1> QED
  BY <1>1, <1>2, <1>3, <1>8, <1>9, OthersKeep

\* A client that a task has given up has failed, and is being removed.
LEMMA FailedBefore ==
    ASSUME Inv3, Inv1', NEW t \in DOMAIN tasks, Begun(t), running \in {0, t},
           ProcessFree, NEW c, Failed(t, c), c \in Clients,
           c \in tasks[t].to \/ tasks[t].to = {}
    PROVE  Before'
<1>1. PICK r : r = tasks[t] /\ r \in Task
  BY DEF Inv3, Inv2, Inv1, Values
<1>2. /\ UNCHANGED <<conn, subscriptions, members, received>>
      /\ running' = t /\ failed' = failed \cup {c}
      /\ removal' = [removal EXCEPT !["process"] = Begin(c)]
  BY DEF Failed, Caught, managerVars
<1>3. PICK z : z = GivenUp(r, c) /\ z \in Task /\ Becomes(t, z)
  BY <1>1, CaughtIs DEF Failed, Inv3, Inv2
<1>4. /\ z.symbol = r.symbol /\ z.details = r.details /\ z.status = "run"
      /\ z.left = r.left /\ z.channel = r.channel /\ z.todo = r.todo \ {c}
      /\ z.to = {} /\ z.owed = r.owed \ ({c} \X Channels) /\ z.gone = r.gone
  BY <1>1, <1>3, GivenUpFields
<1>5. tasks'[t] = z
  BY <1>3, TaskBecomes DEF Inv3, Inv2, Inv1
<1>6. r.to \subseteq {c}
  <2>1. Copied(t)
    BY DEF Inv3, Before, AllBefore
  <2>2. \A d, e \in r.to : d = e
    BY <1>1, <2>1 DEF Copied
  <2> QED
    BY <1>1, <2>2
<1>7. /\ \A d : ~ IsRemoving(t, d)
      /\ IsRemoving(t, c)' /\ removal'["process"].seen = {}
  <2>1. removal["process"].stage = "none"
    BY DEF ProcessFree, NoRemoval
  <2>2. removal'["process"] = Begin(c)
    BY <1>2 DEF Inv3, Inv2, Inv1, Values, Threads
  <2>3. /\ removal'["process"].stage = "look" /\ removal'["process"].client = c
        /\ removal'["process"].seen = {}
    BY <2>2 DEF Begin
  <2> QED
    BY <1>2, <2>1, <2>3 DEF IsRemoving
<1>8. \A d \in Clients : ToSet(received[d]) \subseteq ToSet(received'[d])
  BY <1>2, SameReceived
<1>9. AllBefore(t)'
  <2>1. z.status # "new" /\ z.todo \cap z.to = {} /\ failed \subseteq failed'
    BY <1>2, <1>4
  <2>2. \A d \in (r.todo \cup r.to) \ (z.todo \cup z.to) :
            \/ d \in failed' \/ conn[d] # "open"
            \/ <<t, r.channel>> \in ToSet(received'[d])
    BY <1>2, <1>4, <1>6
  <2>3. \A d \in r.todo \ z.todo : IsRemoving(t, d)' \/ conn[d] # "ended"
    BY <1>4, <1>7
  <2>4. /\ z.owed \subseteq r.owed /\ z.todo \subseteq r.todo
        /\ \A d, e \in z.to : d = e
    BY <1>4
  <2> QED
    BY <1>1, <1>2, <1>4, <1>5, <1>7, <1>8, <2>1, <2>2, <2>3, <2>4, OwnKept
<1>10. running' \in {0, t} /\ failed \subseteq failed'
  BY <1>2
<1> QED
  BY <1>2, <1>3, <1>8, <1>9, <1>10, OthersKeep

\* A client whose send has ended has got the event.
LEMMA ResumeBefore ==
    ASSUME Inv3, Inv1', NEW t \in DOMAIN tasks, Resume(t)
    PROVE  Before'
<1>1. PICK r : r = tasks[t] /\ r \in Task
  BY DEF Inv3, Inv2, Inv1, Values
<1>2. PICK c \in r.to : conn[c] = "open" /\ Got(t, c)
  BY <1>1 DEF Resume
<1>3. c \in Clients
  BY <1>1, <1>2, TaskFields
<1>4. /\ UNCHANGED <<conn, subscriptions, members, failed, removal>>
      /\ running = 0 /\ running' = t /\ r.status = "wait"
  BY <1>1 DEF Resume, Waiting, managerVars
<1>5. PICK z : /\ z = [tasks[t] EXCEPT !.status = "run", !.to = {}]
               /\ z \in Task /\ Becomes(t, z)
  BY ResumeIs DEF Inv3, Inv2
<1>6. /\ z.symbol = r.symbol /\ z.details = r.details /\ z.status = "run"
      /\ z.left = r.left /\ z.channel = r.channel /\ z.todo = r.todo
      /\ z.to = {} /\ z.owed = r.owed /\ z.gone = r.gone
  BY <1>1, <1>5 DEF Task
<1>7. tasks'[t] = z /\ Begun(t)
  BY <1>1, <1>4, <1>5, TaskBecomes DEF Inv3, Inv2, Inv1, Begun
<1>8. \A d \in r.to : d = c
  <2>1. Copied(t)
    BY <1>7 DEF Inv3, Before, AllBefore
  <2> QED
    BY <1>1, <1>2, <2>1 DEF Copied
<1>9. \A d : ~ IsRemoving(t, d) /\ ~ IsRemoving(t, d)'
  <2>1. removal["process"] = NoRemoval
    BY <1>4 DEF Inv3, Inv2, Inv1, Control, ThreadTaken, ProcessFree
  <2>2. removal["process"].stage = "none"
    BY <2>1 DEF NoRemoval
  <2> QED
    BY <1>4, <2>2 DEF IsRemoving
<1>10. /\ <<t, r.channel>> \in ToSet(received'[c])
       /\ \A d \in Clients : ToSet(received[d]) \subseteq ToSet(received'[d])
  BY <1>1, <1>2, <1>3, GotMore DEF Inv3, Inv2
<1>11. AllBefore(t)'
  <2>1. z.status # "new" /\ z.todo \cap z.to = {}
    BY <1>6
  <2>2. \A d \in (r.todo \cup r.to) \ (z.todo \cup z.to) :
            \/ d \in failed' \/ conn[d] # "open"
            \/ <<t, r.channel>> \in ToSet(received'[d])
    BY <1>6, <1>8, <1>10
  <2>3. \A d \in r.todo \ z.todo : IsRemoving(t, d)' \/ conn[d] # "ended"
    BY <1>6
  <2>4. /\ z.owed \subseteq r.owed /\ z.todo \subseteq r.todo
        /\ \A d, e \in z.to : d = e
    BY <1>6
  <2> QED
    BY <1>1, <1>4, <1>6, <1>7, <1>9, <1>10, <2>1, <2>2, <2>3, <2>4, OwnKept
<1> QED
  BY <1>4, <1>5, <1>10, <1>11, OthersKeep

\* The steps of the task that has the thread.
LEMMA RunBefore ==
    ASSUME Inv3, Inv1', RunTask
    PROVE  Before'
<1>1. CASE FinishTask
  <2>1. PICK t : t = running /\ t \in DOMAIN tasks /\ tasks[t] \in Task
    BY <1>1, Runs DEF FinishTask, AtEnd, InTask, Inv3, Inv2
  <2>2. /\ UNCHANGED <<conn, subscriptions, members, received, failed>>
        /\ running' = 0 /\ Becomes(t, Over(tasks[t], "done"))
    BY <1>1, <2>1 DEF FinishTask, managerVars, historyVars, Becomes
  <2> QED
    BY <2>1, <2>2, OverBefore
<1>2. ASSUME NEW c \in Clients, SendFails(c)
      PROVE  Before'
  <2>1. PICK t : t = running /\ t \in DOMAIN tasks /\ ProcessFree
                 /\ tasks[t].status = "run" /\ tasks[t].to = {} /\ Failed(t, c)
    BY <1>2, Runs DEF SendFails, Sendable, InTask, Inv3, Inv2
  <2>2. Begun(t)
    BY <2>1 DEF Begun
  <2> QED
    BY <2>1, <2>2, FailedBefore
<1> QED
  BY <1>1, <1>2, StartBefore, NextBefore, SkipBefore, SendBefore, SendWaitsBefore
     DEF RunTask

\* The steps of a task that wakes.
LEMMA WakeBefore ==
    ASSUME Inv3, Inv1', NEW t \in DOMAIN tasks, WakeTask(t)
    PROVE  Before'
<1>1. CASE ResumeFails(t)
  <2>1. PICK c \in tasks[t].to : Failed(t, c)
    BY <1>1 DEF ResumeFails
  <2>2. c \in Clients
    <3>1. tasks[t] \in Task
      BY DEF Inv3, Inv2, Inv1, Values
    <3> QED
      BY <2>1, <3>1, TaskFields
  <2>3. running = 0 /\ Begun(t)
    BY <1>1 DEF ResumeFails, Waiting, Begun
  <2>4. ProcessFree
    BY <2>3 DEF Inv3, Inv2, Inv1, Control, ThreadTaken
  <2> QED
    BY <2>1, <2>2, <2>3, <2>4, FailedBefore
<1> QED
  BY <1>1, ResumeBefore DEF WakeTask

\* What the tasks there were have before them, when none of them takes a step.
LEMMA IdleKeeps ==
    ASSUME Inv3, Inv1', UNCHANGED <<conn, subscriptions, members, received, failed,
                                    removal, running>>,
           \A u \in DOMAIN tasks : tasks'[u] = tasks[u]
    PROVE  \A u \in DOMAIN tasks : AllBefore(u)'
<1>1. ConnMoves /\ DictMoves /\ EndedStayOut
  BY OtherConn, OtherDict, SetsSame DEF Inv3, Inv2
<1>2. ASSUME NEW u \in DOMAIN tasks
      PROVE  AllBefore(u)'
  <2>1. \A c : IsRemoving(u, c)' <=> IsRemoving(u, c)
    BY DEF IsRemoving
  <2>2. SameWork(tasks[u], tasks'[u]) /\ StayIn(u)
    BY SameIsSameWork DEF StayIn
  <2>3. Begun(u) => \A p \in tasks'[u].owed : conn'[p[1]] = "open"
    BY DEF Inv3, Before, AllBefore, OwedCome
  <2> QED
    BY <1>1, <2>1, <2>2, <2>3, SameReceived, AllKept
<1> QED
  BY <1>2

\* The steps of the loop.
LEMMA IdleBefore ==
    ASSUME Inv3, Inv1', Batch \/ EndPass \/ UNCHANGED deliveryVars
    PROVE  Before'
<1>1. CASE EndPass \/ UNCHANGED deliveryVars
  <2>1. UNCHANGED <<conn, subscriptions, members, received, failed, removal, running, tasks>>
    BY <1>1 DEF EndPass, deliveryVars, managerVars, taskVars, historyVars
  <2> QED
    BY <2>1, IdleKeeps DEF Before
<1>2. CASE Batch
  <2>1. UNCHANGED <<conn, subscriptions, members, received, failed, removal, running>>
    BY <1>2 DEF Batch, managerVars, historyVars
  <2>2. /\ \A u \in DOMAIN tasks : tasks'[u] = tasks[u]
        /\ \A u \in DOMAIN tasks' \ DOMAIN tasks :
              tasks'[u].status = "new" /\ tasks'[u].todo = {}
              /\ tasks'[u].channel = <<>>
    BY <1>2, BatchTasks DEF Inv3, Inv2
  <2>3. \A u \in DOMAIN tasks' \ DOMAIN tasks : AllBefore(u)'
    BY <2>2 DEF AllBefore, Begun, Fresh
  <2> QED
    BY <2>1, <2>2, <2>3, IdleKeeps DEF Before
<1> QED
  BY <1>1, <1>2

\* The third invariant holds at the start.
LEMMA Inv3Init == DeliveryInit => Inv3
<1>1. ASSUME DeliveryInit
      PROVE  Inv3
  <2>1. DOMAIN tasks = {}
    BY <1>1 DEF DeliveryInit
  <2> QED
    BY <1>1, <2>1, Inv2Init DEF Inv3, Before
<1> QED
  BY <1>1

\* The third invariant is inductive.
LEMMA Inv3Next == Inv3 /\ [DeliveryNext]_deliveryVars => Inv3'
<1> SUFFICES ASSUME Inv3, [DeliveryNext]_deliveryVars
             PROVE  Inv3'
  OBVIOUS
<1>1. Inv2' /\ Inv1'
  BY Inv2Next DEF Inv3, Inv2
<1>2. Before'
  BY <1>1, EndpointBefore, RemoveBefore, RunBefore, WakeBefore, IdleBefore
     DEF DeliveryNext
<1> QED
  BY <1>1, <1>2 DEF Inv3

\* A task that comes to its end has sent its event to every client that was
\* subscribed when it began and has stayed, but to those a send to which has
\* failed: nobody is left out by what the other clients and the endpoint do to
\* the dict and its sets meanwhile.
THEOREM OthersServedHold == DeliverySpec => []OthersServed
<1>1. Inv3 => OthersServed
  <2> SUFFICES ASSUME Inv3, NEW t \in DOMAIN tasks, AtEnd(t), NEW p \in tasks[t].owed
               PROVE  <<t, p[2]>> \in ToSet(received[p[1]]) \/ p[1] \in failed
    BY DEF OthersServed
  <2>1. running = t /\ tasks[t].todo = {} /\ Ahead(t) = {} /\ t # 0
    BY DEF AtEnd, InTask
  <2>2. tasks[t].status = "run" /\ tasks[t].to = {}
    BY <2>1, Runs DEF Inv3, Inv2
  <2>3. OwedCome(t)
    BY <2>2 DEF Inv3, Before, AllBefore, Begun
  <2>4. ~ Comes(t, p)
    BY <2>1, <2>2 DEF Comes, Ahead
  <2> QED
    BY <2>3, <2>4 DEF OwedCome
<1> QED
  BY <1>1, Inv3Init, Inv3Next, PTL DEF DeliverySpec

\* By the time a task comes to its end, no set of its channel holds a connection
\* that had ended when it began, whichever of the two threads removed it and
\* whatever cut a removal short.
THEOREM EndedForgottenHold == DeliverySpec => []EndedForgotten
<1>1. Inv3 => EndedForgotten
  <2> SUFFICES ASSUME Inv3, NEW t \in DOMAIN tasks, NEW i \in DOMAIN subscriptions,
                      AtEnd(t), Wanted(t, subscriptions[i]),
                      NEW c \in members[subscriptions[i].set], c \in tasks[t].gone
               PROVE  FALSE
    BY DEF EndedForgotten
  <2>1. running = t /\ tasks[t].todo = {} /\ Ahead(t) = {} /\ t # 0 /\ ProcessFree
    BY DEF AtEnd, InTask
  <2>2. tasks[t].status = "run"
    BY <2>1, Runs DEF Inv3, Inv2
  <2>3. Copied(t) /\ GoneMet(t)
    BY <2>2 DEF Inv3, Before, AllBefore, Begun
  <2>4. MeetsGone(t, c, i)
    BY <2>3 DEF GoneMet
  <2>5. ~ IsRemoving(t, c)
    <3>1. removal["process"].stage = "none"
      BY <2>1 DEF ProcessFree, NoRemoval
    <3> QED
      BY <3>1 DEF IsRemoving
  <2>6. PICK j \in DOMAIN tasks[t].left : tasks[t].left[j].set = subscriptions[i].set
    BY <2>1, <2>4, <2>5 DEF MeetsGone
  <2>7. tasks[t].left[j].channel = subscriptions[i].channel
    BY <2>3, <2>6 DEF Copied
  <2>8. Wanted(t, tasks[t].left[j])
    BY <2>7 DEF Wanted, NoParts
  <2> QED
    BY <2>1, <2>8 DEF Ahead
<1> QED
  BY <1>1, Inv3Init, Inv3Next, PTL DEF DeliverySpec

-----------------------------------------------------------------------------
(* The order of the messages *)

Inv4 == Inv3 /\ Order

\* LateOnlyIfWaited of one client, for two positions.
InOrder(c, i, j) ==
    /\ i < j /\ received[c][i][2] = received[c][j][2]
    /\ received[c][i][1] >= received[c][j][1]
    => received[c][j][1] \in waited /\ received[c][i][1] # received[c][j][1]

AllInOrder ==
    \A c \in Clients : \A i, j \in DOMAIN received[c] : InOrder(c, i, j)

\* The property as a statement of two places of one client's messages.
LEMMA OrderOfPairs == LateOnlyIfWaited <=> AllInOrder
<1>1. ASSUME LateOnlyIfWaited, NEW c \in Clients,
             NEW i \in DOMAIN received[c], NEW j \in DOMAIN received[c]
      PROVE  InOrder(c, i, j)
  <2>1. PICK ij : ij \in (DOMAIN received[c]) \X (DOMAIN received[c])
                  /\ ij[1] = i /\ ij[2] = j
    <3>1. /\ <<i, j>> \in (DOMAIN received[c]) \X (DOMAIN received[c])
          /\ <<i, j>>[1] = i /\ <<i, j>>[2] = j
      OBVIOUS
    <3> QED
      BY <3>1
  <2>2. ij \in Swapped(c) =>
            received[c][j][1] \in waited /\ received[c][i][1] # received[c][j][1]
    BY <1>1, <2>1 DEF LateOnlyIfWaited
  <2> QED
    BY <2>1, <2>2 DEF InOrder, Swapped
<1>2. ASSUME AllInOrder, NEW c \in Clients, NEW ij \in Swapped(c)
      PROVE  received[c][ij[2]][1] \in waited
                 /\ received[c][ij[1]][1] # received[c][ij[2]][1]
  <2>1. /\ ij[1] \in DOMAIN received[c] /\ ij[2] \in DOMAIN received[c]
        /\ ij[1] < ij[2] /\ received[c][ij[1]][2] = received[c][ij[2]][2]
        /\ received[c][ij[1]][1] >= received[c][ij[2]][1]
    BY DEF Swapped
  <2>2. InOrder(c, ij[1], ij[2])
    BY <1>2, <2>1 DEF AllInOrder
  <2> QED
    BY <2>1, <2>2 DEF InOrder
<1> QED
  BY <1>1, <1>2 DEF LateOnlyIfWaited, AllInOrder

\* What a step leaves a task to do, if it had begun.
LessWork(u) ==
    tasks[u].status # "new" =>
        /\ tasks'[u].status # "new"
        /\ Begun(u)' =>
              /\ Begun(u)
              /\ \A j \in DOMAIN tasks'[u].left : \E k \in DOMAIN tasks[u].left :
                    tasks'[u].left[j].channel = tasks[u].left[k].channel
              /\ \/ /\ tasks'[u].channel = tasks[u].channel
                    /\ tasks'[u].todo \cup tasks'[u].to
                           \subseteq tasks[u].todo \cup tasks[u].to
                 \/ \E k \in DOMAIN tasks[u].left :
                       tasks'[u].channel = tasks[u].left[k].channel

\* A task that stays as it is has no more before it.
LEMMA SameIsLess ==
    ASSUME NEW u, SameWork(tasks[u], tasks'[u])
    PROVE  LessWork(u)
  BY DEF SameWork, LessWork, Begun

\* A task that is over has nothing before it.
LEMMA OverIsLess ==
    ASSUME NEW u, tasks'[u].status \in {"dead", "done"}
    PROVE  LessWork(u)
  BY DEF LessWork, Begun

\* A client that got an event is not to get it again.
LEMMA GotKept ==
    ASSUME NEW c, NEW m, GotOnce(c, m), DOMAIN tasks \subseteq DOMAIN tasks',
           LessWork(m[1])
    PROVE  GotOnce(c, m)'
<1>1. PICK u : u = m[1]
  OBVIOUS
<1>2. /\ u \in DOMAIN tasks /\ tasks[u].status # "new"
      /\ Begun(u) =>
            /\ \A j \in DOMAIN tasks[u].left : tasks[u].left[j].channel # m[2]
            /\ m[2] = tasks[u].channel => c \notin tasks[u].todo \cup tasks[u].to
  BY <1>1 DEF GotOnce
<1>3. /\ u \in DOMAIN tasks' /\ tasks'[u].status # "new"
  BY <1>1, <1>2 DEF LessWork
<1>4. ASSUME Begun(u)'
      PROVE  /\ \A j \in DOMAIN tasks'[u].left : tasks'[u].left[j].channel # m[2]
             /\ m[2] = tasks'[u].channel => c \notin tasks'[u].todo \cup tasks'[u].to
  BY <1>1, <1>2, <1>4 DEF LessWork
<1> QED
  BY <1>1, <1>3, <1>4 DEF GotOnce

\* A step that sends nothing.
LEMMA OrderKept ==
    ASSUME Inv4, UNCHANGED received, waited \subseteq waited',
           DOMAIN tasks \subseteq DOMAIN tasks',
           \A u \in DOMAIN tasks : LessWork(u), InTurn'
    PROVE  Order'
<1>1. ASSUME NEW c \in Clients, NEW n \in DOMAIN received[c]
      PROVE  GotOnce(c, received[c][n])'
  <2>1. PICK m : m = received[c][n] /\ GotOnce(c, m) /\ m[1] \in DOMAIN tasks
    BY DEF Inv4, Order, GotOnce
  <2>2. GotOnce(c, m)'
    BY <2>1, GotKept
  <2>3. received'[c][n] = m
    BY <2>1
  <2> QED
    BY <2>2, <2>3 DEF GotOnce
<1>2. \A c \in Clients : \A i, j \in DOMAIN received[c] : InOrder(c, i, j)
  BY OrderOfPairs DEF Inv4, Order, AllInOrder
<1>3. \A c \in Clients : \A i, j \in DOMAIN received'[c] : InOrder(c, i, j)'
  BY <1>2 DEF InOrder
<1>4. LateOnlyIfWaited'
  <2>1. AllInOrder'
    BY <1>3 DEF AllInOrder
  <2> QED
    BY <2>1, OrderOfPairs, PTL
<1> QED
  BY <1>1, <1>4 DEF Order

\* A step that sends c the event of t on the channel that t is at.
LEMMA OrderGot ==
    ASSUME Inv4, NEW t \in DOMAIN tasks, NEW c \in Clients, Got(t, c), Begun(t),
           c \in tasks[t].todo \cup tasks[t].to, running = t \/ t \in waited,
           waited' = waited, DOMAIN tasks' = DOMAIN tasks,
           \A u \in DOMAIN tasks : LessWork(u), InTurn',
           tasks'[t].status # "new", tasks'[t].left = tasks[t].left,
           tasks'[t].channel = tasks[t].channel,
           c \notin tasks'[t].todo \cup tasks'[t].to
    PROVE  Order'
<1>1. PICK m : /\ m = <<t, tasks[t].channel>> /\ m \in Message
               /\ m[1] = t /\ m[2] = tasks[t].channel
  <2>1. t \in Nat /\ tasks[t] \in Task
    BY DEF Inv4, Inv3, Inv2, Inv1, Values
  <2>2. PICK ch : ch = tasks[t].channel /\ ch \in Channels \cup {<<>>}
    BY <2>1, TaskFields
  <2>3. <<t, ch>> \in Nat \X (Channels \cup {<<>>})
    BY <2>1, <2>2
  <2> QED
    BY <2>2, <2>3 DEF Message
<1>2. PICK s : s = received[c] /\ s \in Seq(Message)
  BY DEF Inv4, Inv3, Inv2, Inv1, Values
<1>3. PICK n \in Nat : n = Len(s) /\ DOMAIN s = 1 .. n
  BY <1>2
<1>4. /\ \A d \in Clients : d # c => received'[d] = received[d]
      /\ DOMAIN received'[c] = (1 .. n) \cup {n + 1}
      /\ received'[c][n + 1] = m
      /\ \A i \in 1 .. n : received'[c][i] = s[i]
  <2>1. PICK z : z = Append(s, m)
    OBVIOUS
  <2>2. received' = [received EXCEPT ![c] = z]
    BY <1>1, <1>2, <2>1 DEF Got
  <2>3. received'[c] = z /\ \A d \in Clients : d # c => received'[d] = received[d]
    BY <2>2 DEF Inv4, Inv3, Inv2, Inv1, Values
  <2>4. /\ DOMAIN z = DOMAIN s \cup {Len(s) + 1}
        /\ z[Len(s) + 1] = m /\ \A i \in DOMAIN s : z[i] = s[i]
    BY <1>1, <1>2, <2>1, SeqAppend
  <2> QED
    BY <1>3, <2>3, <2>4
<1>5. \A d \in Clients : \A i \in DOMAIN received[d] : GotOnce(d, received[d][i])
  BY DEF Inv4, Order
<1>6. GotOnce(c, m)'
  <2>1. \A j \in DOMAIN tasks[t].left : tasks[t].left[j].channel # tasks[t].channel
    BY DEF Inv4, Inv3, Before, AllBefore, Copied
  <2> QED
    BY <1>1, <2>1 DEF GotOnce
<1>7. ASSUME NEW d, NEW e, GotOnce(d, e)
      PROVE  GotOnce(d, e)'
  <2>1. e[1] \in DOMAIN tasks
    BY <1>7 DEF GotOnce
  <2> QED
    BY <1>7, <2>1, GotKept
<1>8. ASSUME NEW d \in Clients, NEW i \in DOMAIN received'[d]
      PROVE  GotOnce(d, received[d][i])'
  <2>1. PICK e : e = received'[d][i]
    OBVIOUS
  <2>2. GotOnce(d, e)'
    <3>1. CASE d = c /\ i = n + 1
      BY <1>4, <1>6, <2>1, <3>1
    <3>2. CASE ~ (d = c /\ i = n + 1)
      <4>1. i \in DOMAIN received[d] /\ e = received[d][i]
        BY <1>2, <1>3, <1>4, <2>1, <3>2
      <4> QED
        BY <1>5, <1>7, <4>1
    <3> QED
      BY <3>1, <3>2
  <2> QED
    BY <2>1, <2>2 DEF GotOnce
\* The message is not a second one; and an event made after t is out already only
\* if t has waited.
<1>9. \A i \in 1 .. n : s[i][2] = m[2] =>
          s[i][1] # t /\ (s[i][1] \in DOMAIN tasks /\ tasks[s[i][1]].status # "new")
  <2>1. ASSUME NEW i \in 1 .. n, s[i][2] = m[2]
        PROVE  s[i][1] # t /\ s[i][1] \in DOMAIN tasks /\ tasks[s[i][1]].status # "new"
    <3>1. PICK e : e = s[i]
      OBVIOUS
    <3>2. GotOnce(c, e)
      BY <1>2, <1>3, <1>5, <3>1
    <3>3. e[1] \in DOMAIN tasks /\ tasks[e[1]].status # "new"
      BY <3>2 DEF GotOnce
    <3>4. e[1] # t
      BY <1>1, <2>1, <3>1, <3>2 DEF GotOnce
    <3> QED
      BY <3>1, <3>3, <3>4
  <2> QED
    BY <2>1
<1>10. t \notin waited => \A u \in DOMAIN tasks : u > t => tasks[u].status = "new"
  BY DEF Inv4, Order, InTurn
<1>11. \A d \in Clients : \A i, j \in DOMAIN received[d] : InOrder(d, i, j)
  BY OrderOfPairs DEF Inv4, Order, AllInOrder
<1>12. ASSUME NEW d \in Clients, NEW i \in DOMAIN received'[d], NEW j \in DOMAIN received'[d]
       PROVE  InOrder(d, i, j)'
  <2>1. CASE d # c
    BY <1>4, <1>11, <1>12, <2>1 DEF InOrder
  <2>2. CASE d = c /\ j = n + 1
    <3>1. SUFFICES ASSUME i < j, received'[c][i][2] = m[2], received'[c][i][1] >= t
                   PROVE  t \in waited /\ received'[c][i][1] # t
      BY <1>1, <1>4, <2>2 DEF InOrder
    <3>2. i \in 1 .. n /\ received'[c][i] = s[i]
      BY <1>3, <1>4, <1>12, <2>2, <3>1
    <3>3. s[i][1] # t /\ s[i][1] \in DOMAIN tasks /\ tasks[s[i][1]].status # "new"
      BY <1>9, <3>1, <3>2
    <3>4. DOMAIN tasks \subseteq Nat
      BY DEF Inv4, Inv3, Inv2, Inv1, Values
    <3>5. s[i][1] > t
      BY <3>1, <3>2, <3>3, <3>4
    <3> QED
      BY <1>10, <3>2, <3>3, <3>5
  <2>3. CASE d = c /\ j # n + 1
    <3>1. CASE i = n + 1
      <4>1. ~ (i < j)
        BY <1>3, <1>4, <1>12, <2>3, <3>1
      <4> QED
        BY <4>1 DEF InOrder
    <3>2. CASE i # n + 1
      <4>1. /\ i \in DOMAIN received[c] /\ j \in DOMAIN received[c]
            /\ received'[c][i] = received[c][i] /\ received'[c][j] = received[c][j]
        BY <1>2, <1>3, <1>4, <1>12, <2>3, <3>2
      <4> QED
        BY <1>11, <2>3, <4>1 DEF InOrder
    <3> QED
      BY <3>1, <3>2
  <2> QED
    BY <2>1, <2>2, <2>3
<1>13. LateOnlyIfWaited'
  <2>1. AllInOrder'
    BY <1>12 DEF AllInOrder
  <2> QED
    BY <2>1, OrderOfPairs, PTL
<1> QED
  BY <1>8, <1>13 DEF Order

\* What of a step the turn of the tasks needs.
LEMMA TurnKept ==
    ASSUME Inv4, DOMAIN tasks \subseteq DOMAIN tasks', waited \subseteq waited',
           \A u \in DOMAIN tasks :
               tasks'[u].status = "new" <=> tasks[u].status = "new",
           \A u \in DOMAIN tasks' \ DOMAIN tasks :
               tasks'[u].status = "new" /\ u \in Nat /\ u > Len(tasks),
           \A u \in DOMAIN tasks : running' = u => running = u \/ u \in waited',
           \A u \in DOMAIN tasks : tasks'[u].status = "wait" => u \in waited'
    PROVE  InTurn'
<1>1. PICK n \in Nat : n = Len(tasks) /\ DOMAIN tasks = 1 .. n
  BY DEF Inv4, Inv3, Inv2, Inv1, Values
<1>2. \A t \in DOMAIN tasks :
          /\ tasks[t].status = "new" \/ (running = t /\ t \notin waited) =>
                 \A u \in DOMAIN tasks : u > t => tasks[u].status = "new"
          /\ tasks[t].status = "wait" => t \in waited
  BY DEF Inv4, Order, InTurn
<1>3. ASSUME NEW t \in DOMAIN tasks',
             tasks'[t].status = "new" \/ (running' = t /\ t \notin waited'),
             NEW u \in DOMAIN tasks', u > t
      PROVE  tasks'[u].status = "new"
  <2>1. CASE u \notin DOMAIN tasks
    BY <2>1
  <2>2. CASE u \in DOMAIN tasks /\ t \in DOMAIN tasks
    BY <1>2, <1>3, <2>2
  <2>3. CASE u \in DOMAIN tasks /\ t \notin DOMAIN tasks
    <3>1. t \in Nat /\ t > n /\ u \in 1 .. n
      BY <1>1, <2>3
    <3> QED
      BY <1>1, <1>3, <3>1
  <2> QED
    BY <2>1, <2>2, <2>3
<1>4. ASSUME NEW t \in DOMAIN tasks', tasks'[t].status = "wait"
      PROVE  t \in waited'
  BY <1>4
<1> QED
  BY <1>3, <1>4 DEF InTurn

\* A step of a task that has begun.
LEMMA TurnOfOne ==
    ASSUME Inv4, NEW t \in DOMAIN tasks, NEW z \in Task, Becomes(t, z),
           tasks[t].status # "new", z.status # "new", waited \subseteq waited',
           running' \in {0, running} \/ (running' = t /\ t \in waited),
           z.status = "wait" => t \in waited'
    PROVE  InTurn'
<1>1. /\ DOMAIN tasks' = DOMAIN tasks /\ tasks'[t] = z
      /\ \A u \in DOMAIN tasks : u # t => tasks'[u] = tasks[u]
  BY TaskBecomes DEF Inv4, Inv3, Inv2, Inv1
<1>2. \A u \in DOMAIN tasks : tasks'[u].status = "new" <=> tasks[u].status = "new"
  BY <1>1
<1>3. ASSUME NEW u \in DOMAIN tasks, running' = u
      PROVE  running = u \/ u \in waited'
  <2>1. u # 0
    BY DEF Inv4, Inv3, Inv2, Inv1, Values
  <2> QED
    BY <1>3, <2>1
<1>4. \A u \in DOMAIN tasks : tasks[u].status = "wait" => u \in waited
  BY DEF Inv4, Order, InTurn
<1>5. \A u \in DOMAIN tasks : tasks'[u].status = "wait" => u \in waited'
  BY <1>1, <1>4
<1> QED
  BY <1>1, <1>2, <1>3, <1>5, TurnKept

\* A step that leaves every task's work, but for what is owed.
LEMMA OrderSame ==
    ASSUME Inv4, UNCHANGED <<received, waited, running>>,
           DOMAIN tasks' = DOMAIN tasks,
           \A u \in DOMAIN tasks : SameWork(tasks[u], tasks'[u])
    PROVE  Order'
<1>1. \A u \in DOMAIN tasks : LessWork(u)
  BY SameIsLess
<1>2. \A u \in DOMAIN tasks : tasks'[u].status = tasks[u].status
  BY DEF SameWork
<1>3. \A u \in DOMAIN tasks : tasks[u].status = "wait" => u \in waited
  BY DEF Inv4, Order, InTurn
<1>4. InTurn'
  BY <1>2, <1>3, TurnKept
<1> QED
  BY <1>1, <1>4, OrderKept

\* A step of one task gives no task more.
LEMMA OthersLess ==
    ASSUME Inv4, NEW t \in DOMAIN tasks, NEW z \in Task, Becomes(t, z), LessWork(t)
    PROVE  DOMAIN tasks' = DOMAIN tasks /\ \A u \in DOMAIN tasks : LessWork(u)
<1>1. /\ DOMAIN tasks' = DOMAIN tasks /\ tasks'[t] = z
      /\ \A u \in DOMAIN tasks : u # t => tasks'[u] = tasks[u]
  BY TaskBecomes DEF Inv4, Inv3, Inv2, Inv1
<1>2. ASSUME NEW u \in DOMAIN tasks, u # t
      PROVE  LessWork(u)
  <2>1. SameWork(tasks[u], tasks'[u])
    BY <1>1, <1>2, SameIsSameWork
  <2> QED
    BY <2>1, SameIsLess
<1> QED
  BY <1>1, <1>2

\* A task that dies or is done.
LEMMA OverOrder ==
    ASSUME Inv4, NEW t \in DOMAIN tasks, tasks[t] \in Task, tasks[t].status = "run",
           NEW how \in {"dead", "done"}, Becomes(t, Over(tasks[t], how)),
           running' = 0, UNCHANGED <<received, waited>>
    PROVE  Order'
<1>1. PICK z : z = Over(tasks[t], how) /\ z \in Task /\ z.status = how /\ Becomes(t, z)
  BY OverIsTask, OverFields
<1>2. tasks'[t] = z
  BY <1>1, TaskBecomes DEF Inv4, Inv3, Inv2, Inv1
<1>3. LessWork(t)
  BY <1>1, <1>2, OverIsLess
<1>4. DOMAIN tasks' = DOMAIN tasks /\ \A u \in DOMAIN tasks : LessWork(u)
  BY <1>1, <1>3, OthersLess
<1>5. InTurn'
  BY <1>1, TurnOfOne
<1> QED
  BY <1>4, <1>5, OrderKept

\* The endpoint keeps the order of messages.
LEMMA EndpointOrder ==
    ASSUME Inv4, Endpoint
    PROVE  Order'
<1>1. UNCHANGED tasks \/ \E P : NotOwed(P)
  BY DEF Endpoint, Connect, Leave, Break, Ends, Subscribe, Unsubscribe, taskVars
<1>2. UNCHANGED <<received, waited, running>>
  BY DEF Endpoint, Connect, Leave, Break, Ends, Subscribe, Unsubscribe, Requested,
         taskVars, historyVars
<1>3. /\ DOMAIN tasks' = DOMAIN tasks
      /\ \A u \in DOMAIN tasks : SameWork(tasks[u], tasks'[u])
  BY <1>1, NotOwedWork, SameIsSameWork DEF Inv4
<1> QED
  BY <1>2, <1>3, OrderSame

\* So does a removal.
LEMMA RemoveOrder ==
    ASSUME Inv4, NEW th \in Threads, RemoveStep(th)
    PROVE  Order'
<1>1. UNCHANGED <<received, waited>> /\ removal[th].stage # "none"
  BY DEF RemoveStep, RemoveLook, RemoveDrop, historyVars
<1>2. CASE UNCHANGED <<tasks, running>>
  BY <1>1, <1>2, SameIsSameWork, OrderSame
<1>3. CASE RaisedIn(th) /\ th = "process"
  <2>1. PICK t : t = running /\ t \in DOMAIN tasks /\ tasks[t] \in Task
                 /\ tasks[t].status = "run"
    BY <1>1, <1>3, RemovalTaken DEF Inv4, Inv3, Inv2
  <2>2. Becomes(t, Over(tasks[t], "dead")) /\ running' = 0
    BY <1>3, <2>1 DEF RaisedIn, Becomes
  <2> QED
    BY <1>1, <2>1, <2>2, OverOrder
<1> QED
  BY <1>2, <1>3 DEF RemoveStep, RemoveLook, RemoveDrop, LookAt, RaisedIn

\* The task that starts is later than every one that has started.
LEMMA StartOrder ==
    ASSUME Inv4, StartTask
    PROVE  Order'
<1>1. PICK t : t = FirstTask /\ t \in DOMAIN tasks /\ tasks[t].status = "new"
               /\ Started(t) \in Task /\ Becomes(t, Started(t)) /\ running' = t
               /\ \A u \in Tasks("new") : t <= u
  BY StartIs, FirstIsNew DEF StartTask, Inv4, Inv3, Inv2
<1>2. UNCHANGED <<received, waited>> /\ running = 0
  BY DEF StartTask, historyVars
<1>3. LessWork(t)
  BY <1>1 DEF LessWork
<1>4. DOMAIN tasks' = DOMAIN tasks /\ \A u \in DOMAIN tasks : LessWork(u)
  BY <1>1, <1>3, OthersLess
<1>5. tasks'[t].status = "run" /\ \A u \in DOMAIN tasks : u # t => tasks'[u] = tasks[u]
  <2>1. PICK r, z : r = tasks[t] /\ z = Started(t) /\ z \in Task /\ Becomes(t, z)
    BY <1>1
  <2>2. r \in Task
    BY <1>1, <2>1 DEF Inv4, Inv3, Inv2, Inv1, Values
  <2>3. z.status = "run"
    BY <2>1, <2>2, StartedFields
  <2> QED
    BY <1>1, <2>1, <2>3, TaskBecomes DEF Inv4, Inv3, Inv2, Inv1
<1>6. InTurn'
  <2>1. \A u \in DOMAIN tasks :
            /\ tasks[u].status = "new" => \A v \in DOMAIN tasks : v > u => tasks[v].status = "new"
            /\ tasks[u].status = "wait" => u \in waited
    BY DEF Inv4, Order, InTurn
  <2>2. DOMAIN tasks \subseteq Nat
    BY DEF Inv4, Inv3, Inv2, Inv1, Values
  <2>3. \A u \in DOMAIN tasks : tasks[u].status = "new" => t <= u
    BY <1>1 DEF Tasks
  <2>4. ASSUME NEW u \in DOMAIN tasks,
               tasks'[u].status = "new" \/ running' = u,
               NEW v \in DOMAIN tasks, v > u
        PROVE  tasks'[v].status = "new"
    <3>1. tasks[u].status = "new" /\ t <= u
      BY <1>1, <1>5, <2>3, <2>4
    <3>2. tasks[v].status = "new" /\ v # t
      BY <2>1, <2>2, <2>4, <3>1
    <3> QED
      BY <1>5, <3>2
  <2>5. \A u \in DOMAIN tasks : tasks'[u].status = "wait" => u \in waited
    BY <1>5, <2>1
  <2> QED
    BY <1>2, <1>4, <2>4, <2>5 DEF InTurn
<1> QED
  BY <1>2, <1>4, <1>6, OrderKept

\* A task that comes to an entry comes to a channel it has not served.
LEMMA NextOrder ==
    ASSUME Inv4, NextChannel
    PROVE  Order'
<1>1. PICK t : t = running /\ t \in DOMAIN tasks /\ tasks[t] \in Task /\ t # 0
               /\ tasks[t].status = "run" /\ tasks[t].to = {} /\ ProcessFree
  BY Runs DEF NextChannel, InTask, Inv4, Inv3, Inv2
<1>2. UNCHANGED <<received, waited>>
  BY DEF NextChannel, historyVars
<1>3. PICK j \in Ahead(t) :
          \/ /\ Becomes(t, Over(tasks[t], "dead")) /\ running' = 0
          \/ /\ AtEntry(tasks[t], j) \in Task
             /\ Becomes(t, AtEntry(tasks[t], j)) /\ running' = running
  BY <1>1, NextIs DEF Inv4, Inv3, Inv2
<1>4. CASE Becomes(t, Over(tasks[t], "dead")) /\ running' = 0
  BY <1>1, <1>2, <1>4, OverOrder
<1>5. CASE /\ AtEntry(tasks[t], j) \in Task
           /\ Becomes(t, AtEntry(tasks[t], j)) /\ running' = running
  <2>1. PICK r, z : /\ r = tasks[t] /\ r \in Task
                    /\ z = AtEntry(r, j) /\ z \in Task /\ Becomes(t, z)
    BY <1>1, <1>5
  <2>2. j \in DOMAIN r.left
    BY <2>1 DEF Ahead
  <2>3. /\ z.status = r.status /\ z.left = SubSeq(r.left, j + 1, Len(r.left))
        /\ z.channel = r.left[j].channel
    <3>1. IsAtEntry(r, j, z)
      BY <2>1, ComesToEntry
    <3> QED
      BY <3>1 DEF IsAtEntry
  <2>4. \A i \in DOMAIN z.left : \E k \in DOMAIN r.left : z.left[i] = r.left[k]
    <3>1. IsCut(z.left, r.left, j)
      BY <2>1, <2>2, <2>3, CutEntries
    <3> QED
      BY <3>1 DEF IsCut
  <2>5. tasks'[t] = z
    BY <1>1, <2>1, TaskBecomes DEF Inv4, Inv3, Inv2, Inv1
  <2>6. LessWork(t)
    <3>1. Begun(t) /\ z.status # "new"
      BY <1>1, <2>1, <2>3 DEF Begun
    <3>2. \A i \in DOMAIN tasks'[t].left : \E k \in DOMAIN tasks[t].left :
              tasks'[t].left[i].channel = tasks[t].left[k].channel
      BY <2>1, <2>4, <2>5
    <3>3. \E k \in DOMAIN tasks[t].left : tasks'[t].channel = tasks[t].left[k].channel
      BY <2>1, <2>2, <2>3, <2>5
    <3> QED
      BY <2>5, <3>1, <3>2, <3>3 DEF LessWork
  <2>7. DOMAIN tasks' = DOMAIN tasks /\ \A u \in DOMAIN tasks : LessWork(u)
    BY <1>1, <2>1, <2>6, OthersLess
  <2>8. InTurn'
    <3>1. z.status = "run"
      BY <1>1, <2>1, <2>3
    <3> QED
      BY <1>1, <1>2, <1>5, <2>1, <3>1, TurnOfOne
  <2> QED
    BY <1>2, <2>7, <2>8, OrderKept
<1> QED
  BY <1>3, <1>4, <1>5

\* A task that stays at its channel and sends nothing.
LEMMA StayOrder ==
    ASSUME Inv4, NEW t \in DOMAIN tasks, Begun(t), NEW z \in Task, Becomes(t, z),
           z.status \in {"run", "wait"}, z.left = tasks[t].left,
           z.channel = tasks[t].channel, TodoShrinks(tasks[t], z),
           UNCHANGED received, waited \subseteq waited',
           running' \in {0, running} \/ (running' = t /\ t \in waited),
           z.status = "wait" => t \in waited'
    PROVE  Order'
<1>1. tasks'[t] = z
  BY TaskBecomes DEF Inv4, Inv3, Inv2, Inv1
<1>2. LessWork(t)
  BY <1>1 DEF LessWork, TodoShrinks
<1>3. DOMAIN tasks' = DOMAIN tasks /\ \A u \in DOMAIN tasks : LessWork(u)
  BY <1>2, OthersLess
<1>4. tasks[t].status # "new" /\ z.status # "new"
  BY DEF Begun
<1>5. InTurn'
  BY <1>4, TurnOfOne
<1> QED
  BY <1>3, <1>5, OrderKept

\* A send that fails changes no order.
LEMMA FailedOrder ==
    ASSUME Inv4, NEW t \in DOMAIN tasks, Begun(t), NEW c, Failed(t, c),
           running = t \/ (running = 0 /\ t \in waited)
    PROVE  Order'
<1>1. PICK r : r = tasks[t] /\ r \in Task
  BY DEF Inv4, Inv3, Inv2, Inv1, Values
<1>2. UNCHANGED <<received, waited>> /\ running' = t
  BY DEF Failed
<1>3. PICK z : z = GivenUp(r, c) /\ z \in Task /\ Becomes(t, z)
  BY <1>1, CaughtIs DEF Failed, Inv4, Inv3, Inv2
<1>4. /\ z.status = "run" /\ z.left = r.left /\ z.channel = r.channel
      /\ z.todo = r.todo \ {c} /\ z.to = {}
  BY <1>1, <1>3, GivenUpFields
<1>5. TodoShrinks(tasks[t], z)
  BY <1>1, <1>4 DEF TodoShrinks
<1> QED
  BY <1>1, <1>2, <1>3, <1>4, <1>5, StayOrder

\* A message that goes at once is later than those of every task before it.
LEMMA SendOrder ==
    ASSUME Inv4, NEW c \in Clients, Send(c)
    PROVE  Order'
<1>1. PICK t : t = running /\ t \in DOMAIN tasks /\ tasks[t] \in Task
               /\ tasks[t].status = "run" /\ tasks[t].to = {}
               /\ c \in tasks[t].todo /\ Got(t, c)
  BY Runs DEF Send, Sendable, InTask, Inv4, Inv3, Inv2
<1>2. UNCHANGED <<waited, running>>
  BY DEF Send
<1>3. PICK z : z = [tasks[t] EXCEPT !.todo = @ \ {c}] /\ z \in Task /\ Becomes(t, z)
  BY <1>1, SkipIs DEF Inv4, Inv3, Inv2
<1>4. PICK r : r = tasks[t]
  OBVIOUS
<1>5. /\ z.status = r.status /\ z.left = r.left /\ z.channel = r.channel
      /\ z.todo = r.todo \ {c} /\ z.to = r.to
  BY <1>1, <1>3, <1>4, SkipFields
<1>6. tasks'[t] = z /\ Begun(t)
  BY <1>1, <1>3, TaskBecomes DEF Inv4, Inv3, Inv2, Inv1, Begun
<1>7. LessWork(t)
  BY <1>4, <1>5, <1>6 DEF LessWork, Begun
<1>8. DOMAIN tasks' = DOMAIN tasks /\ \A u \in DOMAIN tasks : LessWork(u)
  BY <1>1, <1>3, <1>7, OthersLess
<1>9. InTurn'
  <2>1. tasks[t].status # "new" /\ z.status = "run"
    BY <1>1, <1>4, <1>5
  <2> QED
    BY <1>1, <1>2, <1>3, <2>1, TurnOfOne
<1>10. /\ tasks'[t].status # "new" /\ tasks'[t].left = tasks[t].left
       /\ tasks'[t].channel = tasks[t].channel
       /\ c \notin tasks'[t].todo \cup tasks'[t].to
  BY <1>1, <1>4, <1>5, <1>6
<1> QED
  BY <1>1, <1>2, <1>6, <1>8, <1>9, <1>10, OrderGot

\* A message that waited may come after those of later tasks.
LEMMA ResumeOrder ==
    ASSUME Inv4, NEW t \in DOMAIN tasks, Resume(t)
    PROVE  Order'
<1>1. PICK r : r = tasks[t] /\ r \in Task
  BY DEF Inv4, Inv3, Inv2, Inv1, Values
<1>2. PICK c \in r.to : Got(t, c)
  BY <1>1 DEF Resume
<1>3. c \in Clients
  BY <1>1, <1>2, TaskFields
<1>4. /\ UNCHANGED waited /\ running = 0 /\ running' = t /\ r.status = "wait"
  BY <1>1 DEF Resume, Waiting
<1>5. t \in waited
  BY <1>1, <1>4 DEF Inv4, Order, InTurn
<1>6. PICK z : /\ z = [tasks[t] EXCEPT !.status = "run", !.to = {}]
               /\ z \in Task /\ Becomes(t, z)
  BY ResumeIs DEF Inv4, Inv3, Inv2
<1>7. /\ z.status = "run" /\ z.left = r.left /\ z.channel = r.channel
      /\ z.todo = r.todo /\ z.to = {}
  BY <1>1, <1>6 DEF Task
<1>8. tasks'[t] = z /\ Begun(t)
  BY <1>1, <1>4, <1>6, TaskBecomes DEF Inv4, Inv3, Inv2, Inv1, Begun
<1>9. LessWork(t)
  BY <1>1, <1>7, <1>8 DEF LessWork, Begun
<1>10. DOMAIN tasks' = DOMAIN tasks /\ \A u \in DOMAIN tasks : LessWork(u)
  BY <1>6, <1>9, OthersLess
<1>11. InTurn'
  <2>1. tasks[t].status # "new" /\ z.status = "run"
    BY <1>1, <1>4, <1>7
  <2> QED
    BY <1>4, <1>5, <1>6, <2>1, TurnOfOne
<1>12. /\ tasks'[t].status # "new" /\ tasks'[t].left = tasks[t].left
       /\ tasks'[t].channel = tasks[t].channel
       /\ c \notin tasks'[t].todo \cup tasks'[t].to
  <2>1. tasks[t].todo \cap tasks[t].to = {}
    BY <1>8 DEF Inv4, Inv3, Before, AllBefore, Copied
  <2> QED
    BY <1>1, <1>2, <1>7, <1>8, <2>1
<1>13. c \in tasks[t].todo \cup tasks[t].to
  BY <1>1, <1>2
<1> QED
  BY <1>2, <1>3, <1>4, <1>5, <1>8, <1>10, <1>11, <1>12, <1>13, OrderGot

\* The steps of the task that has the thread.
LEMMA RunOrder ==
    ASSUME Inv4, RunTask
    PROVE  Order'
<1>1. CASE FinishTask
  <2>1. PICK t : t = running /\ t \in DOMAIN tasks /\ tasks[t] \in Task
                 /\ tasks[t].status = "run"
    BY <1>1, Runs DEF FinishTask, AtEnd, InTask, Inv4, Inv3, Inv2
  <2>2. /\ UNCHANGED <<received, waited>> /\ running' = 0
        /\ Becomes(t, Over(tasks[t], "done"))
    BY <1>1, <2>1 DEF FinishTask, historyVars, Becomes
  <2> QED
    BY <2>1, <2>2, OverOrder
<1>2. ASSUME NEW c \in Clients, SkipClient(c) \/ SendWaits(c) \/ SendFails(c)
      PROVE  Order'
  <2>1. PICK t : t = running /\ t \in DOMAIN tasks /\ tasks[t] \in Task
                 /\ tasks[t].status = "run" /\ tasks[t].to = {}
                 /\ c \in tasks[t].todo /\ Begun(t)
    BY <1>2, Runs DEF SkipClient, SendWaits, SendFails, Sendable, InTask, Begun,
                      Inv4, Inv3, Inv2
  <2>2. CASE SkipClient(c)
    <3>1. PICK z : z = [tasks[t] EXCEPT !.todo = @ \ {c}] /\ z \in Task /\ Becomes(t, z)
      BY <2>1, <2>2, SkipIs DEF Inv4, Inv3, Inv2
    <3>2. /\ z.status = tasks[t].status /\ z.left = tasks[t].left
          /\ z.channel = tasks[t].channel
          /\ z.todo = tasks[t].todo \ {c} /\ z.to = tasks[t].to
      BY <2>1, <3>1, SkipFields
    <3>3. TodoShrinks(tasks[t], z) /\ z.status = "run"
      BY <2>1, <3>2 DEF TodoShrinks
    <3>4. UNCHANGED <<received, waited, running>>
      BY <2>2 DEF SkipClient, historyVars
    <3> QED
      BY <2>1, <3>1, <3>2, <3>3, <3>4, StayOrder
  <2>3. CASE SendWaits(c)
    <3>1. PICK z : z = InSend(tasks[t], c) /\ z \in Task /\ Becomes(t, z)
      BY <2>1, <2>3, WaitIs DEF Inv4, Inv3, Inv2
    <3>2. /\ z.status = "wait" /\ z.left = tasks[t].left
          /\ z.channel = tasks[t].channel
          /\ z.todo = tasks[t].todo \ {c} /\ z.to = {c}
      BY <2>1, <3>1, InSendFields
    <3>3. TodoShrinks(tasks[t], z)
      BY <2>1, <3>2 DEF TodoShrinks
    <3>4. received' = received /\ running' = 0 /\ waited' = waited \cup {t}
      BY <2>1, <2>3 DEF SendWaits
    <3> QED
      BY <2>1, <3>1, <3>2, <3>3, <3>4, StayOrder
  <2>4. CASE SendFails(c)
    BY <2>1, <2>4, FailedOrder DEF SendFails
  <2> QED
    BY <1>2, <2>2, <2>3, <2>4
<1> QED
  BY <1>1, <1>2, StartOrder, NextOrder, SendOrder DEF RunTask

\* The steps of a task that wakes.
LEMMA WakeOrder ==
    ASSUME Inv4, NEW t \in DOMAIN tasks, WakeTask(t)
    PROVE  Order'
<1>1. CASE ResumeFails(t)
  <2>1. PICK c : Failed(t, c)
    BY <1>1 DEF ResumeFails
  <2>2. running = 0 /\ Begun(t) /\ tasks[t].status = "wait"
    BY <1>1 DEF ResumeFails, Waiting, Begun
  <2>3. t \in waited
    BY <2>2 DEF Inv4, Order, InTurn
  <2> QED
    BY <2>1, <2>2, <2>3, FailedOrder
<1> QED
  BY <1>1, ResumeOrder DEF WakeTask

\* The steps of the loop.
LEMMA IdleOrder ==
    ASSUME Inv4, Batch \/ EndPass \/ UNCHANGED deliveryVars
    PROVE  Order'
<1>1. CASE EndPass \/ UNCHANGED deliveryVars
  <2>1. UNCHANGED <<received, waited, running, tasks>>
    BY <1>1 DEF EndPass, deliveryVars, taskVars, historyVars
  <2> QED
    BY <2>1, SameIsSameWork, OrderSame
<1>2. CASE Batch
  <2>1. UNCHANGED <<received, waited, running>>
    BY <1>2 DEF Batch, historyVars
  <2>2. /\ \A u \in DOMAIN tasks : tasks'[u] = tasks[u]
        /\ DOMAIN tasks \subseteq DOMAIN tasks' /\ tasks' \in Seq(Task)
        /\ \A u \in DOMAIN tasks' \ DOMAIN tasks :
              tasks'[u].status = "new" /\ u > Len(tasks)
    BY <1>2, BatchTasks DEF Inv4, Inv3, Inv2
  <2>3. DOMAIN tasks' \subseteq Nat
    BY <2>2
  <2>4. \A u \in DOMAIN tasks : LessWork(u)
    BY <2>2, SameIsSameWork, SameIsLess
  <2>5. \A u \in DOMAIN tasks : tasks[u].status = "wait" => u \in waited
    BY DEF Inv4, Order, InTurn
  <2>6. InTurn'
    BY <2>1, <2>2, <2>3, <2>5, TurnKept
  <2> QED
    BY <2>1, <2>2, <2>4, <2>6, OrderKept
<1> QED
  BY <1>1, <1>2

\* The fourth invariant holds at the start.
LEMMA Inv4Init == DeliveryInit => Inv4
<1>1. ASSUME DeliveryInit
      PROVE  Inv4
  <2>1. DOMAIN tasks = {} /\ \A c \in Clients : DOMAIN received[c] = {}
    BY <1>1 DEF DeliveryInit
  <2>2. InTurn /\ AllInOrder
    BY <2>1 DEF InTurn, AllInOrder
  <2> QED
    BY <1>1, <2>1, <2>2, Inv3Init, OrderOfPairs DEF Inv4, Order
<1> QED
  BY <1>1

\* The fourth invariant is inductive.
LEMMA Inv4Next == Inv4 /\ [DeliveryNext]_deliveryVars => Inv4'
<1> SUFFICES ASSUME Inv4, [DeliveryNext]_deliveryVars
             PROVE  Inv4'
  OBVIOUS
<1>1. Inv3'
  BY Inv3Next DEF Inv4
<1>2. Order'
  BY EndpointOrder, RemoveOrder, RunOrder, WakeOrder, IdleOrder DEF DeliveryNext
<1> QED
  BY <1>1, <1>2 DEF Inv4

\* On one channel a client gets each event once, and in the order the events were
\* made but for those whose task has waited in a send.
THEOREM LateOnlyIfWaitedHolds == DeliverySpec => []LateOnlyIfWaited
<1>1. Inv4 => LateOnlyIfWaited
  BY DEF Inv4, Order
<1> QED
  BY <1>1, Inv4Init, Inv4Next, PTL DEF DeliverySpec
====
