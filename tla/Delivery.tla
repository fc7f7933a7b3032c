------------------------------ MODULE Delivery ------------------------------
(***************************************************************************)
(* How an event reaches the subscribers of a channel: the connection       *)
(* manager, the websocket endpoint that fills and empties it, and the      *)
(* tasks of app/callbacks.py that send the events.                         *)
(*                                                                         *)
(* Two threads share the manager without a lock.  The main thread runs the *)
(* endpoint of every connection.  The process thread creates two tasks for *)
(* every modified pair of a batch, and runs tasks only while process_loop  *)
(* is at its sleep(0) after a batch; a task gives way where it awaits a    *)
(* send.  A send is external: it completes at once, or after some passes,  *)
(* or raises.  The message is out when the send completes.                 *)
(*                                                                         *)
(* A channel is the sequence of its parts between "@"; what a message says *)
(* is left out.  A kline task of a pair with no candle does nothing.       *)
(***************************************************************************)
EXTENDS Integers, Sequences, FiniteSetsExt, SequencesExt

CONSTANTS
    Clients,       \* websockets
    Symbols,       \* pairs
    Channels,      \* channels a client may ask for, not all of them of a pair
    MaxTasks,      \* bound on the tasks created
    MaxRequests    \* bound on the requests to subscribe and unsubscribe

ASSUME DeliveryAssumption ==
    /\ \A ch \in Channels : Len(ch) >= 1
    /\ MaxTasks \in Nat /\ MaxRequests \in Nat

Threads == {"main", "process"}

VARIABLES
    conn,          \* the connection of each client: "none", "open", "ended"
    active,        \* active_connections
    subscriptions, \* the dict: entries [channel, set] in the order of insertion
    members,       \* the content of each set ever created
    requests,      \* requests handled, which MaxRequests bounds
    removal,       \* the call of remove each thread is in
    loop,          \* "batch", or "pass" while process_loop is at sleep(0)
    tasks,         \* every task created, in order; owed and gone are history
    running,       \* the task that has the process thread, 0 for none
    received,      \* history: the <<task, channel>> each client got
    waited,        \* history: tasks that have waited in a send
    failed         \* history: clients a send to which has raised

managerVars  == <<active, subscriptions, members>>
taskVars     == <<loop, tasks, running>>
historyVars  == <<received, waited, failed>>
deliveryVars == <<conn, requests, managerVars, removal, taskVars, historyVars>>

-----------------------------------------------------------------------------
(* ConnectionManager.remove, by either thread.  Each container is first     *)
(* looked at and then taken from; container 0 is active_connections.        *)

NoRemoval == [stage |-> "none"]

Begin(c) == [stage |-> "look", client |-> c, at |-> 0, seen |-> {}, size |-> 0]

Holds(k, c) == c \in IF k = 0 THEN active ELSE members[k]

Unseen(r) == {i \in DOMAIN subscriptions : subscriptions[i].set \notin r.seen}

\* The iteration over the dict begins when active_connections is done with.
Seen(r, k) ==
    [r EXCEPT !.stage = "look", !.seen = @ \cup {k},
              !.size = IF k = 0 THEN Len(subscriptions) ELSE @]

Over(task, how) ==
    [task EXCEPT !.status = how, !.left = <<>>, !.channel = <<>>, !.todo = {},
                 !.owed = {}, !.gone = {}]

\* An exception out of remove: the endpoint logs it, a task dies of it.
RaisedIn(th) ==
    /\ removal' = [removal EXCEPT ![th] = NoRemoval]
    /\ IF th = "process"
         THEN /\ tasks' = [tasks EXCEPT ![running] = Over(@, "dead")]
              /\ running' = 0
         ELSE UNCHANGED <<tasks, running>>

LookAt(th, k) ==
    /\ removal' = [removal EXCEPT ![th] =
           IF Holds(k, @.client) THEN [@ EXCEPT !.stage = "drop", !.at = k]
                                 ELSE Seen(@, k)]
    /\ UNCHANGED <<tasks, running>>

\* A dict that has grown or shrunk since the iteration began raises.
RemoveLook(th) ==
    /\ removal[th].stage = "look"
    /\ LET r == removal[th]
       IN  CASE 0 \notin r.seen -> LookAt(th, 0)
             [] 0 \in r.seen /\ Len(subscriptions) # r.size -> RaisedIn(th)
             [] 0 \in r.seen /\ Len(subscriptions) = r.size /\ Unseen(r) # {} ->
                    LookAt(th, subscriptions[Min(Unseen(r))].set)
             [] OTHER -> /\ removal' = [removal EXCEPT ![th] = NoRemoval]
                         /\ UNCHANGED <<tasks, running>>
    /\ UNCHANGED <<conn, requests, managerVars, loop, historyVars>>

\* What was there a moment ago may be gone.
RemoveDrop(th) ==
    /\ removal[th].stage = "drop"
    /\ LET r == removal[th]
       IN  IF Holds(r.at, r.client)
             THEN /\ active' = IF r.at = 0 THEN active \ {r.client} ELSE active
                  /\ members' = IF r.at = 0 THEN members
                                ELSE [members EXCEPT ![r.at] = @ \ {r.client}]
                  /\ removal' = [removal EXCEPT ![th] = Seen(r, r.at)]
                  /\ UNCHANGED <<tasks, running>>
             ELSE RaisedIn(th) /\ UNCHANGED <<active, members>>
    /\ UNCHANGED <<conn, requests, subscriptions, loop, historyVars>>

-----------------------------------------------------------------------------
(* The endpoint, in the main thread *)

MainFree == removal["main"] = NoRemoval

Connect(c) ==
    /\ MainFree /\ conn[c] = "none"
    /\ conn' = [conn EXCEPT ![c] = "open"]
    /\ active' = active \cup {c}
    /\ UNCHANGED <<requests, subscriptions, members, removal, taskVars,
                   historyVars>>

EntriesOf(ch) == {i \in DOMAIN subscriptions : subscriptions[i].channel = ch}

Requested(c) ==
    /\ MainFree /\ conn[c] = "open"
    /\ requests < MaxRequests /\ requests' = requests + 1

Subscribe(c, ch) ==
    /\ Requested(c)
    /\ \/ /\ EntriesOf(ch) = {}
          /\ members' = Append(members, {c})
          /\ subscriptions' =
                 Append(subscriptions, [channel |-> ch, set |-> Len(members) + 1])
       \/ \E i \in EntriesOf(ch) :
             /\ members' = [members EXCEPT ![subscriptions[i].set] = @ \cup {c}]
             /\ UNCHANGED subscriptions
    /\ UNCHANGED <<conn, active, removal, taskVars, historyVars>>

\* From here on no task owes these their message.
NotOwed(pairs) ==
    tasks' = [t \in DOMAIN tasks |-> [tasks[t] EXCEPT !.owed = @ \ pairs]]

Unsubscribe(c, ch) ==
    /\ Requested(c)
    /\ \E i \in EntriesOf(ch) :
          LET k == subscriptions[i].set
          IN  /\ c \in members[k]
              /\ members' = [members EXCEPT ![k] = @ \ {c}]
              /\ subscriptions' = IF members[k] = {c}
                                    THEN RemoveAt(subscriptions, i)
                                    ELSE subscriptions
    /\ NotOwed({<<c, ch>>})
    /\ UNCHANGED <<conn, active, removal, loop, running, historyVars>>

Ends(c) ==
    /\ MainFree /\ conn[c] = "open"
    /\ conn' = [conn EXCEPT ![c] = "ended"]
    /\ NotOwed({c} \X Channels)
    /\ UNCHANGED <<requests, managerVars, loop, running, historyVars>>

\* The client closes: the iteration over its messages ends.
Leave(c) == Ends(c) /\ removal' = [removal EXCEPT !["main"] = Begin(c)]

\* Anything else that ends the endpoint is logged, and nothing is removed.
Break(c) == Ends(c) /\ UNCHANGED removal

-----------------------------------------------------------------------------
(* The tasks, in the process thread *)

ProcessFree == removal["process"] = NoRemoval

NewTask(s, d) ==
    [symbol |-> s, details |-> d, status |-> "new",
     left |-> <<>>, channel |-> <<>>, todo |-> {}, to |-> {},
     owed |-> {}, gone |-> {}]

TasksFor(s, candle) ==
    IF candle THEN <<NewTask(s, "kline"), NewTask(s, "depth")>>
              ELSE <<NewTask(s, "depth")>>

\* A batch that changed a pair, one that changed none; then sleep(0).
Batch ==
    /\ loop = "batch" /\ loop' = "pass"
    /\ \/ UNCHANGED tasks
       \/ \E s \in Symbols, candle \in BOOLEAN :
             LET created == TasksFor(s, candle)
             IN  /\ Len(tasks) + Len(created) <= MaxTasks
                 /\ tasks' = tasks \o created
    /\ UNCHANGED <<conn, requests, managerVars, removal, running, historyVars>>

Tasks(status) == {t \in DOMAIN tasks : tasks[t].status = status}

FirstTask == Min(Tasks("new"))

NoParts(entry) == Len(entry.channel) < 2

Wanted(t, entry) ==
    /\ ~ NoParts(entry)
    /\ entry.channel[2] = tasks[t].details
    /\ entry.channel[1] = tasks[t].symbol

SubscribedTo(t) ==
    {p \in Clients \X Channels :
        /\ conn[p[1]] = "open"
        /\ \E i \in EntriesOf(p[2]) :
              /\ Wanted(t, subscriptions[i])
              /\ p[1] \in members[subscriptions[i].set]}

Started(t) ==
    [tasks[t] EXCEPT !.status = "run", !.left = subscriptions,
                     !.owed = SubscribedTo(t),
                     !.gone = {c \in Clients : conn[c] = "ended"}]

\* Every task is run for the first time in the pass after its batch, in the
\* order of creation.  It copies the dict, and the copy's sets are the live ones.
StartTask ==
    /\ loop = "pass" /\ running = 0 /\ Tasks("new") # {}
    /\ LET t == FirstTask
       IN  /\ running' = t
           /\ tasks' = [tasks EXCEPT ![t] = Started(t)]
    /\ UNCHANGED <<conn, requests, managerVars, removal, loop, historyVars>>

InTask(t) == running = t /\ t # 0 /\ ProcessFree

\* The entries of the copy that the task will not just pass over.
Ahead(t) ==
    {j \in DOMAIN tasks[t].left :
        Wanted(t, tasks[t].left[j]) \/ NoParts(tasks[t].left[j])}

AtEntry(task, j) ==
    LET left == task.left
    IN  [task EXCEPT !.left = SubSeq(left, j + 1, Len(left)),
                     !.channel = left[j].channel,
                     !.todo = members[left[j].set]]

\* The clients of the next channel, copied.  One without a second part raises.
NextChannel ==
    /\ InTask(running)
    /\ LET t == running
           task == tasks[t]
       IN  /\ task.todo = {} /\ Ahead(t) # {}
           /\ LET next == Min(Ahead(t))
              IN  IF NoParts(task.left[next])
                    THEN /\ tasks' = [tasks EXCEPT ![t] = Over(@, "dead")]
                         /\ running' = 0
                    ELSE /\ tasks' = [tasks EXCEPT ![t] = AtEntry(@, next)]
                         /\ UNCHANGED running
    /\ UNCHANGED <<conn, requests, managerVars, removal, loop, historyVars>>

AtEnd(t) == InTask(t) /\ tasks[t].todo = {} /\ Ahead(t) = {}

FinishTask ==
    /\ AtEnd(running)
    /\ tasks' = [tasks EXCEPT ![running] = Over(@, "done")]
    /\ running' = 0
    /\ UNCHANGED <<conn, requests, managerVars, removal, loop, historyVars>>

\* A client that is in the channel's set but not in active_connections.
SkipClient(c) ==
    /\ InTask(running)
    /\ c \in tasks[running].todo /\ c \notin active
    /\ tasks' = [tasks EXCEPT ![running].todo = @ \ {c}]
    /\ removal' = [removal EXCEPT !["process"] = Begin(c)]
    /\ UNCHANGED <<conn, requests, managerVars, loop, running, historyVars>>

\* The send to c begins and is over at once, or leaves the thread to others.
Sendable(c) ==
    InTask(running) /\ c \in tasks[running].todo /\ c \in active

Got(t, c) ==
    received' = [received EXCEPT ![c] = Append(@, <<t, tasks[t].channel>>)]

Send(c) ==
    /\ Sendable(c) /\ conn[c] = "open"
    /\ Got(running, c)
    /\ tasks' = [tasks EXCEPT ![running].todo = @ \ {c}]
    /\ UNCHANGED <<conn, requests, managerVars, removal, loop, running, waited,
                   failed>>

SendWaits__KeepsClient(c) ==
    /\ Sendable(c) /\ conn[c] = "open"
    /\ tasks' = [tasks EXCEPT ![running] =
                     [@ EXCEPT !.to = {c}, !.status = "wait"]]
    /\ waited' = waited \cup {running}
    /\ running' = 0
    /\ UNCHANGED <<conn, requests, managerVars, removal, loop, received, failed>>

InSend(task, c) ==
    [task EXCEPT !.todo = @ \ {c}, !.to = {c}, !.status = "wait"]

SendWaits__KeepsThread(c) ==
    /\ Sendable(c) /\ conn[c] = "open"
    /\ tasks' = [tasks EXCEPT ![running] = InSend(@, c)]
    /\ waited' = waited \cup {running}
    /\ UNCHANGED <<conn, requests, managerVars, removal, loop, running, received, failed>>

SendWaits(c) ==
    /\ Sendable(c) /\ conn[c] = "open"
    /\ tasks' = [tasks EXCEPT ![running] = InSend(@, c)]
    /\ waited' = waited \cup {running}
    /\ running' = 0
    /\ UNCHANGED <<conn, requests, managerVars, removal, loop, received, failed>>

\* What a task does when its send to c has raised.
Caught__StopsTask(t, c) ==
    /\ removal' = [removal EXCEPT !["process"] = Begin(c)]
    /\ tasks' = [tasks EXCEPT ![t] = [@ EXCEPT !.todo = {}, !.left = <<>>,
                                               !.to = {}, !.status = "run"]]

GivenUp(task, c) ==
    [task EXCEPT !.todo = @ \ {c}, !.to = {}, !.status = "run",
                 !.owed = @ \ ({c} \X Channels)]

Caught__OnlyLogs(t, c) ==
    /\ tasks' = [tasks EXCEPT ![t] = GivenUp(@, c)]
    /\ UNCHANGED removal

Caught(t, c) ==
    /\ removal' = [removal EXCEPT !["process"] = Begin(c)]
    /\ tasks' = [tasks EXCEPT ![t] = GivenUp(@, c)]

Failed(t, c) ==
    /\ Caught(t, c)
    /\ running' = t
    /\ failed' = failed \cup {c}
    /\ UNCHANGED <<conn, requests, managerVars, loop, received, waited>>

\* A send may raise at any time, and does when the connection has ended.
SendFails(c) == Sendable(c) /\ Failed(running, c)

Waiting__Collected(t) ==
    /\ loop = "pass" /\ running = 0 /\ tasks[t].status = "wait"
    /\ t = Len(tasks)

Waiting(t) == loop = "pass" /\ running = 0 /\ tasks[t].status = "wait"

\* A send that waited is over, and its task has the thread again.
Resume(t) ==
    /\ Waiting(t)
    /\ \E c \in tasks[t].to :
          /\ conn[c] = "open"
          /\ Got(t, c)
    /\ tasks' = [tasks EXCEPT ![t].status = "run", ![t].to = {}]
    /\ running' = t
    /\ UNCHANGED <<conn, requests, managerVars, removal, loop, waited, failed>>

ResumeFails(t) == Waiting(t) /\ \E c \in tasks[t].to : Failed(t, c)

\* Back to the blocking wait for the next batch, whoever still waits.
EndPass ==
    /\ loop = "pass" /\ running = 0 /\ Tasks("new") = {}
    /\ loop' = "batch"
    /\ UNCHANGED <<conn, requests, managerVars, removal, tasks, running, historyVars>>

-----------------------------------------------------------------------------
DeliveryInit ==
    /\ conn = [c \in Clients |-> "none"] /\ requests = 0
    /\ active = {} /\ subscriptions = <<>> /\ members = <<>>
    /\ removal = [th \in Threads |-> NoRemoval]
    /\ loop = "batch" /\ tasks = <<>> /\ running = 0
    /\ received = [c \in Clients |-> <<>>]
    /\ waited = {} /\ failed = {}

Endpoint ==
    \/ \E c \in Clients : Connect(c) \/ Leave(c) \/ Break(c)
    \/ \E c \in Clients, ch \in Channels : Subscribe(c, ch) \/ Unsubscribe(c, ch)

RemoveStep(th) == RemoveLook(th) \/ RemoveDrop(th)

RunTask ==
    \/ StartTask \/ NextChannel \/ FinishTask
    \/ \E c \in Clients : SkipClient(c) \/ Send(c) \/ SendWaits(c) \/ SendFails(c)

WakeTask(t) == Resume(t) \/ ResumeFails(t)

DeliveryNext ==
    \/ Endpoint
    \/ \E th \in Threads : RemoveStep(th)
    \/ Batch \/ RunTask \/ EndPass
    \/ \E t \in DOMAIN tasks : WakeTask(t)

\* A thread does not stop in the middle of its work; every send ends, though
\* its task may miss many passes; batches need not come.
DeliverySpec ==
    /\ DeliveryInit /\ [][DeliveryNext]_deliveryVars
    /\ WF_deliveryVars(RunTask \/ EndPass)
    /\ \A th \in Threads : WF_deliveryVars(RemoveStep(th))
    /\ \A t \in 1 .. MaxTasks :
           SF_deliveryVars(t \in DOMAIN tasks /\ WakeTask(t))


-----------------------------------------------------------------------------
TypeOK ==
    /\ conn \in [Clients -> {"none", "open", "ended"}]
    /\ active \subseteq Clients
    /\ \A i \in DOMAIN subscriptions :
          /\ subscriptions[i].channel \in Channels
          /\ subscriptions[i].set \in DOMAIN members
    /\ \A k \in DOMAIN members : members[k] \subseteq Clients
    /\ loop = "batch" => running = 0
    /\ running = 0 => ProcessFree
    /\ \A t \in DOMAIN tasks :
          /\ tasks[t].status \in {"new", "run", "wait", "done", "dead"}
          /\ tasks[t].status = "run" <=> running = t
          /\ tasks[t].status = "wait" <=> tasks[t].to # {}

\* Positions of two messages that c got on one channel in the wrong order.
Swapped(c) ==
    {ij \in (DOMAIN received[c]) \X (DOMAIN received[c]) :
        /\ ij[1] < ij[2]
        /\ received[c][ij[1]][2] = received[c][ij[2]][2]
        /\ received[c][ij[1]][1] >= received[c][ij[2]][1]}

\* On one channel a client gets the events in the order they were made, each
\* once; the only events that may come late are those whose task has had to
\* wait in a send, to this client or another.  A client that applies depth
\* events by their ids has only such gaps to reckon with.
LateOnlyIfWaited ==
    \A c \in Clients : \A ij \in Swapped(c) :
        received[c][ij[2]][1] \in waited
            /\ received[c][ij[1]][1] # received[c][ij[2]][1]

\* A task that comes to its end has sent its event to every client that was
\* subscribed when it began and has stayed, whatever happened to the other
\* clients' connections, sets and channels meanwhile.  Only clients a send to
\* which has raised once go without.
OthersServed ==
    \A t \in DOMAIN tasks : AtEnd(t) => \A p \in tasks[t].owed :
        <<t, p[2]>> \in ToSet(received[p[1]]) \/ p[1] \in failed

\* The endpoint forgets to remove a connection that ended with an exception,
\* and a removal may be cut short; but the next event of a channel clears such
\* a connection out of it, by the time the event's task comes to its end.
EndedForgotten ==
    \A t \in DOMAIN tasks, i \in DOMAIN subscriptions :
        AtEnd(t) /\ Wanted(t, subscriptions[i]) =>
            members[subscriptions[i].set] \cap tasks[t].gone = {}

\* As long as batches keep coming, with events or without, every task comes to
\* its end: no send, removal or exception keeps the process thread, and a task
\* that waits in a send gets the thread again in some pass.
EventsGoOut ==
    ([]<>(loop = "pass") /\ []<>(loop = "batch")) =>
        \A t \in 1 .. MaxTasks :
            [](t \in DOMAIN tasks => <>(t \in Tasks("done") \cup Tasks("dead")))

\* README.md: the data for each of the subscribed channels will be sent.  To
\* every client, that is, which asked for the channel, was told so, and to which
\* this event's own send has not failed.
SubscribedIsServed ==
    \A t \in DOMAIN tasks : AtEnd(t) => \A p \in tasks[t].owed :
        <<t, p[2]>> \in ToSet(received[p[1]])
=============================================================================
