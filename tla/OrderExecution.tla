--------------------------- MODULE OrderExecution ---------------------------
(***************************************************************************)
(* The life of an order in src/server/handlers.rs.                         *)
(*                                                                         *)
(* A client sends `Order` to one node, the origin. Its connection thread   *)
(* runs handle_order: availability check, receipt, registration of a       *)
(* one-slot channel in pending_orders, fetch and parse of the recipe, then *)
(* handle_process_payload in the same thread. That loop executes what the  *)
(* node can, forwards the rest to a peer (whose connection thread runs the *)
(* same loop, a "task" here), and the task that reaches the end sends a    *)
(* `deliver` to the origin, where another thread runs handle_deliver and   *)
(* signals the channel. Threads of different connections interleave, the   *)
(* sockets have timeouts, and a node may crash and restart.                *)
(*                                                                         *)
(* Definitions named Wrong... are the code with one plausible mistake; they *)
(* are part of no action and show that the properties notice the mistake.  *)
(***************************************************************************)
EXTENDS Naturals, Sequences, FiniteSets

CONSTANTS
    Nodes,       \* the agents
    Orders,      \* the orders clients submit, each at most once
    ActionNames, \* the kitchen actions
    Caps,        \* Caps[n][g]: actions the g-th start of n executes (Identity)
    Menu,        \* Menu[n][g]: orders whose recipe is in the file it was given
    Recipe,      \* Recipe[o]: flattened action sequence of the ordered recipe
    Origin,      \* Origin[o]: the node the client sends order o to
    Unparsable,  \* orders whose fetched DSL does not parse to the recipe
    Started,     \* Started[n]: how often n has been started at the beginning
    InitKnown,   \* InitKnown[n][p]: the start of p that n's table describes then
    MaxForwards, \* bound: payloads forwarded in a behaviour
    MaxChurn,    \* bound: changes of the peer tables
    MaxCrashes,  \* bound: crashes
    MaxStarts    \* bound: starts of each node

Starts == 1 .. MaxStarts

ASSUME CapsAssumption == Caps \in [Nodes -> [Starts -> SUBSET ActionNames]]
ASSUME RecipeAssumption == /\ Recipe \in [Orders -> Seq(ActionNames)]
                           /\ Unparsable \subseteq Orders
ASSUME PlacementAssumption == /\ Menu \in [Nodes -> [Starts -> SUBSET Orders]]
                              /\ Origin \in [Orders -> Nodes]
ASSUME StartAssumption ==
    /\ Started \in [Nodes -> Starts]
    /\ InitKnown \in [Nodes -> [Nodes -> Starts \union {0}]]
    /\ \A n, p \in Nodes : InitKnown[n][p] <= Started[p]
ASSUME BoundsAssumption == /\ MaxForwards \in Nat
                           /\ MaxChurn \in Nat
                           /\ MaxCrashes \in Nat
                           /\ MaxStarts \in Nat

VARIABLES
    up,       \* the nodes that run
    starts,   \* starts[n]: how often n was started; the last start is the one
              \* that runs, or ran
    crashes,  \* how many crashes happened
    known,    \* known[n][p]: the start of p that n's gossip table describes, or 0
    churn,    \* how many times a table changed
    handler,  \* handler[o]: where the handle_order thread of o is
    pending,  \* orders with an entry in their origin's pending_orders
    channel,  \* channel[o]: contents of the sync_channel(1) of o
    receipts, \* orders whose OrderReceipt was written
    answer,   \* answer[o]: the final frame of o's connection
    task,     \* task[t]: a run of handle_process_payload
    inflight, \* tasks whose `deliver` frame is on its way to the origin
    retried,  \* orders for which some forward was given up and retried
    mishap    \* orders that met a failure: a connection that failed, a timeout,
              \* a lost frame, a forgotten peer, an entry of an earlier start,
              \* a crash

nodeVars == <<up, starts, crashes, known, churn>>
orderVars == <<handler, pending, channel, receipts, answer>>
historyVars == <<retried, mishap>>
taskVars == <<task, inflight, historyVars>>
vars == <<nodeVars, orderVars, taskVars>>

-----------------------------------------------------------------------------
\* One run of handle_process_payload per order, and one per forward.
Tasks == 1 .. Cardinality(Orders) + MaxForwards
NoTask == 0
NoEntry == 0
Free == [pc |-> "free"]

\* An entry of payload.updates: an executed action, a hop to a node, or the
\* delivery at the end.
Entry == [kind : {"Action"}, what : ActionNames]
            \union [kind : {"Forward"}, what : Nodes]
            \union [kind : {"Deliver"}]
Closed == [kind |-> "Deliver"]
Did(a) == [kind |-> "Action", what |-> a]
WrongHop(n) == [kind |-> "Hop", what |-> n]
Hop(n) == [kind |-> "Forward", what |-> n]

\* The travelling ProcessPayload; its content is the list of what was made.
Payload == [index : Nat, content : Seq(ActionNames), updates : Seq(Entry)]
EmptyPayload == [index |-> 0, content |-> <<>>, updates |-> <<>>]

\* A message of the channel, and a final frame: what was made, if anything.
Message == [kind : {"Completed", "Failed"}, payload : Payload]
None == [kind |-> "None", payload |-> EmptyPayload]
Frame(kind) == [kind |-> kind, payload |-> EmptyPayload]
Answers == [kind : {"None", "Declined", "Completed", "Failed", "Error", "Lost"},
            payload : Payload]

HandlerStates == {"idle", "receipted", "registered", "fetched", "driving",
                  "waiting", "timedout", "done", "dead"}
ActiveHandlers == HandlerStates \ {"idle", "done", "dead"}

\* "loop": top of the loop; "forwarding": candidates left to try; "awaiting":
\* blocked on the reply of the child task; "returned": it gave its response.
LiveTask == {"loop", "forwarding", "awaiting"}
Candidate == [node : Nodes, entry : Starts]
TaskRecord ==
    [pc : LiveTask \union {"returned", "dead"}, order : Orders,
     node : Nodes, start : Starts,    \* the process that runs it
     entry : Starts \union {NoEntry}, \* the start its parent took it for
     payload : Payload, first : Nat, parent : Tasks \union {NoTask},
     cands : SUBSET Candidate, child : Tasks \union {NoTask},
     response : {"None", "Placeholder", "Error"},
     deliver : {"none", "success", "failure"}]

Live(t) == task[t].pc \in LiveTask
Used(t) == task[t] # Free
IsRoot(t) == Used(t) /\ task[t].parent = NoTask
IsForwarded(t) == Used(t) /\ task[t].parent # NoTask

NewTask(o, n, entry, payload, parent) ==
    [pc |-> "loop", order |-> o, node |-> n, start |-> starts[n],
     entry |-> entry, payload |-> payload,
     first |-> payload.index, parent |-> parent, cands |-> {},
     child |-> NoTask, response |-> "None", deliver |-> "none"]

\* The identifier of the next task: the least free one.
IsNext(t) == /\ t \in Tasks
             /\ ~Used(t)
             /\ \A u \in Tasks : u < t => Used(u)

TypeOK ==
    /\ up \subseteq Nodes
    /\ starts \in [Nodes -> Starts]
    /\ crashes \in 0 .. MaxCrashes
    /\ known \in [Nodes -> [Nodes -> Starts \union {0}]]
    /\ churn \in 0 .. MaxChurn
    /\ handler \in [Orders -> HandlerStates]
    /\ pending \subseteq Orders
    /\ channel \in [Orders -> Seq(Message)]
    /\ receipts \subseteq Orders
    /\ answer \in [Orders -> Answers]
    /\ task \in [Tasks -> {Free} \union TaskRecord]
    /\ inflight \subseteq {t \in Tasks : task[t].pc = "returned"}
    /\ retried \subseteq Orders
    /\ mishap \subseteq Orders

Init ==
    /\ up = Nodes
    /\ starts = Started
    /\ crashes = 0
    /\ known = InitKnown
    /\ churn = 0
    /\ handler = [o \in Orders |-> "idle"]
    /\ pending = {}
    /\ channel = [o \in Orders |-> <<>>]
    /\ receipts = {}
    /\ answer = [o \in Orders |-> None]
    /\ task = [t \in Tasks |-> Free]
    /\ inflight = {}
    /\ retried = {}
    /\ mishap = {}

-----------------------------------------------------------------------------
(* The handle_order thread of order o.                                     *)

Goto(o, pc) == handler' = [handler EXCEPT ![o] = pc]

Blame(os) == mishap' = mishap \union os

Finish(o, frame) == /\ Goto(o, "done")
                    /\ answer' = [answer EXCEPT ![o] = frame]

\* What the process of n has, and what n's table says of p: the capabilities and
\* recipes of the start the last announce about p was made by.
HasRecipe(n, o) == o \in Menu[n][starts[n]]
Offers(n, p, o) == known[n][p] # 0 /\ o \in Menu[p][known[n][p]]
Advertises(n, p, a) == known[n][p] # 0 /\ a \in Caps[p][known[n][p]]

\* Local recipe, or a peer of the table advertises it.
IsLocal(o) == HasRecipe(Origin[o], o)
Available(o) == IsLocal(o) \/ \E p \in Nodes : Offers(Origin[o], p, o)

\* OrderDeclined, without touching the stream first.
DeclineOrder(o) ==
    /\ handler[o] = "idle"
    /\ Origin[o] \in up
    /\ ~Available(o)
    /\ Finish(o, Frame("Declined"))
    /\ UNCHANGED <<nodeVars, pending, channel, receipts, taskVars>>

\* Frame 1, before any work.
WriteReceipt(o) ==
    /\ handler[o] = "idle"
    /\ Origin[o] \in up
    /\ Available(o)
    /\ Goto(o, "receipted")
    /\ receipts' = receipts \union {o}
    /\ UNCHANGED <<nodeVars, pending, channel, answer, taskVars>>

\* The client is gone: the Error the handler returns cannot reach it either.
ReceiptFails(o) ==
    /\ handler[o] = "idle"
    /\ Origin[o] \in up
    /\ Available(o)
    /\ Finish(o, Frame("Lost"))
    /\ Blame({o})
    /\ UNCHANGED <<nodeVars, pending, channel, receipts, task, inflight, retried>>

Register(o) ==
    /\ handler[o] = "receipted"
    /\ Goto(o, "registered")
    /\ pending' = pending \union {o}
    /\ UNCHANGED <<nodeVars, channel, receipts, answer, taskVars>>

\* The source of the local recipe, or handle_get_recipe: a peer that advertised it
\* is reached and answers with the source it has, or gets from a node it asks in
\* turn (module RecipeLookup follows these requests).
FetchRecipe(o) ==
    /\ handler[o] = "registered"
    /\ \/ IsLocal(o)
       \/ /\ \E p \in up : Offers(Origin[o], p, o)
          /\ \E q \in up : HasRecipe(q, o)
    /\ Goto(o, "fetched")
    /\ UNCHANGED <<nodeVars, pending, channel, receipts, answer, taskVars>>

\* No candidate left, none reached, or the one reached knows of nobody. The entry
\* stays in pending_orders.
FetchFails(o) ==
    /\ handler[o] = "registered"
    /\ ~IsLocal(o)
    /\ Finish(o, Frame("Error"))
    /\ Blame({o})
    /\ UNCHANGED <<nodeVars, pending, channel, receipts, task, inflight, retried>>

\* parse_recipes fails, or the text holds no recipe of that name; or the parser
\* panics, which ends the thread and its connection without a frame. The entry
\* stays in pending_orders.
ParseFails(o) ==
    /\ handler[o] = "fetched"
    /\ o \in Unparsable
    /\ \E kind \in {"Error", "Lost"} : Finish(o, Frame(kind))
    /\ UNCHANGED <<nodeVars, pending, channel, receipts, taskVars>>

\* The initial payload, at index 0, and the call of handle_process_payload.
StartDrive(o) ==
    /\ handler[o] = "fetched"
    /\ o \notin Unparsable
    /\ \E t \in Tasks :
         /\ IsNext(t)
         /\ task' = [task EXCEPT
                       ![t] = NewTask(o, Origin[o], NoEntry, EmptyPayload, NoTask)]
    /\ Goto(o, "driving")
    /\ UNCHANGED <<nodeVars, pending, channel, receipts, answer, inflight, historyVars>>

\* handle_process_payload returned the placeholder: wait on the channel.
DriveDelivers(o) ==
    /\ handler[o] = "driving"
    /\ \E t \in Tasks : /\ IsRoot(t)
                        /\ task[t].order = o
                        /\ task[t].pc = "returned"
                        /\ task[t].response = "Placeholder"
    /\ Goto(o, "waiting")
    /\ UNCHANGED <<nodeVars, pending, channel, receipts, answer, taskVars>>

\* Anything else: the entry is removed and the error is the answer.
DriveFails(o) ==
    /\ handler[o] = "driving"
    /\ \E t \in Tasks : /\ IsRoot(t)
                        /\ task[t].order = o
                        /\ task[t].pc = "returned"
                        /\ task[t].response # "Placeholder"
    /\ pending' = pending \ {o}
    /\ Finish(o, Frame("Error"))
    /\ UNCHANGED <<nodeVars, channel, receipts, taskVars>>

\* recv_timeout returns the message; the entry, if any, is removed.
ReceiveResult(o) ==
    /\ handler[o] = "waiting"
    /\ channel[o] # <<>>
    /\ pending' = pending \ {o}
    /\ channel' = [channel EXCEPT ![o] = Tail(@)]
    /\ Finish(o, Head(channel[o]))
    /\ UNCHANGED <<nodeVars, receipts, taskVars>>

\* recv instead of recv_timeout.
WrongReceiveTimesOut(o) == handler[o] = "waiting" /\ FALSE

\* recv_timeout gives up on an empty channel, before the lock is taken. To blame
\* is a deliver that is slow.
ReceiveTimesOut(o) ==
    /\ handler[o] = "waiting"
    /\ channel[o] = <<>>
    /\ Goto(o, "timedout")
    /\ Blame({task[t].order : t \in inflight} \intersect {o})
    /\ UNCHANGED <<nodeVars, pending, channel, receipts, answer,
                   task, inflight, retried>>

\* The entry stays.
WrongAnswerTimeout(o) ==
    /\ handler[o] = "timedout"
    /\ Finish(o, Frame("Error"))
    /\ UNCHANGED <<nodeVars, pending, channel, receipts, taskVars>>

\* The entry is removed under the lock and the timeout is the answer.
AnswerTimeout(o) ==
    /\ handler[o] = "timedout"
    /\ pending' = pending \ {o}
    /\ Finish(o, Frame("Error"))
    /\ UNCHANGED <<nodeVars, channel, receipts, taskVars>>

-----------------------------------------------------------------------------
(* handle_process_payload, as task t on node task[t].node.                 *)

Todo(t) == Recipe[task[t].order]
WrongAllDone(t) == task[t].payload.index + 1 >= Len(Todo(t))
AllDone(t) == task[t].payload.index >= Len(Todo(t))
NextAction(t) == Todo(t)[task[t].payload.index + 1]
WrongCanExecute(t) == \* the capabilities of the cluster, as list_recipes has them
    \/ NextAction(t) \in Caps[task[t].node][task[t].start]
    \/ \E p \in Nodes : Advertises(task[t].node, p, NextAction(t))
CanExecute(t) == NextAction(t) \in Caps[task[t].node][task[t].start]
Host(t) == Origin[task[t].order]

UnchangedButTask == UNCHANGED <<nodeVars, orderVars, inflight, historyVars>>

\* The payload after action a.
Executed(payload, a) ==
    [index |-> payload.index + 1,
     content |-> Append(payload.content, a),
     updates |-> Append(payload.updates, Did(a))]

Execute(t) ==
    /\ task[t].pc = "loop"
    /\ ~AllDone(t)
    /\ CanExecute(t)
    /\ task' = [task EXCEPT ![t].payload = Executed(@, NextAction(t))]
    /\ UnchangedButTask

\* The peers of n's table in S, each as its entry describes it.
Entries(n, S) == {[node |-> p, entry |-> known[n][p]] : p \in S}

\* Every described peer of the table.
WrongReadCandidates(t) ==
    /\ task[t].pc = "loop"
    /\ ~AllDone(t)
    /\ ~CanExecute(t)
    /\ task' = [task EXCEPT
                  ![t].pc = "forwarding",
                  ![t].cands = Entries(task[t].node,
                                 {p \in Nodes : known[task[t].node][p] # 0})]
    /\ UnchangedButTask

\* The peers of the table that advertised the action, n itself not left out, read
\* under the gossip lock.
ReadCandidates(t) ==
    /\ task[t].pc = "loop"
    /\ ~AllDone(t)
    /\ ~CanExecute(t)
    /\ task' = [task EXCEPT
                  ![t].pc = "forwarding",
                  ![t].cands =
                    Entries(task[t].node,
                      {p \in Nodes : Advertises(task[t].node, p, NextAction(t))})]
    /\ UnchangedButTask

\* The payload handed to peer p: a clone with one more hop.
Forwarded(payload, p) ==
    [payload EXCEPT !.updates = Append(@, Hop(p))]

\* The connection to candidate p is made and the request written: a thread of the
\* process that runs there now starts.
ForwardTo(t, p) ==
    /\ task[t].pc = "forwarding"
    /\ p \in task[t].cands
    /\ p.node \in up
    /\ Cardinality({c \in Tasks : IsForwarded(c)}) < MaxForwards
    /\ \E c \in Tasks :
         /\ IsNext(c)
         /\ task' = [task EXCEPT
              ![c] = NewTask(task[t].order, p.node, p.entry,
                             Forwarded(task[t].payload, p.node), t),
              ![t].pc = "awaiting",
              ![t].cands = @ \ {p},
              ![t].child = c]
    /\ UnchangedButTask

\* The hop is appended to the payload itself, not to a clone.
WrongForwardRefused(t, p) ==
    /\ task[t].pc = "forwarding"
    /\ p \in task[t].cands
    /\ task' = [task EXCEPT ![t].cands = @ \ {p},
                            ![t].payload = Forwarded(@, p.node)]
    /\ UnchangedButTask

\* Connecting or writing fails: nothing runs on p; the next candidate is tried.
ForwardRefused(t, p) ==
    /\ task[t].pc = "forwarding"
    /\ p \in task[t].cands
    /\ task' = [task EXCEPT ![t].cands = @ \ {p}]
    /\ Blame({task[t].order})
    /\ UNCHANGED <<nodeVars, orderVars, inflight, retried>>

\* An Error response counts as no response.
WrongForwardReply(t) ==
    /\ task[t].pc = "awaiting"
    /\ \E c \in Tasks :
         /\ c = task[t].child
         /\ task[c].pc = "returned"
         /\ IF task[c].response = "Error"
            THEN task' = [task EXCEPT ![t].pc = "forwarding"]
            ELSE task' = [task EXCEPT ![t].pc = "returned",
                                      ![t].response = task[c].response]
    /\ UnchangedButTask

\* The first response read is returned, whatever it says.
ForwardReply(t) ==
    /\ task[t].pc = "awaiting"
    /\ \E c \in Tasks :
         /\ c = task[t].child
         /\ task[c].pc = "returned"
         /\ task' = [task EXCEPT ![t].pc = "returned",
                                 ![t].response = task[c].response]
    /\ UnchangedButTask

\* No read timeout, and a broken connection goes unnoticed.
WrongForwardGivenUp(t) == task[t].pc = "awaiting" /\ FALSE

\* Ten seconds without a reply, or a broken connection: the next candidate is
\* tried, while the child, if it still runs, goes on.
ForwardGivenUp(t) ==
    /\ task[t].pc = "awaiting"
    /\ task' = [task EXCEPT ![t].pc = "forwarding", ![t].child = NoTask]
    /\ retried' = retried \union {task[t].order}
    /\ Blame({task[t].order})
    /\ UNCHANGED <<nodeVars, orderVars, inflight>>

\* send_deliver succeeds: the frame is on its way, the placeholder returned.
SendDeliver(t, outcome, payload) ==
    /\ Host(t) \in up
    /\ task' = [task EXCEPT ![t].pc = "returned",
                            ![t].payload = payload,
                            ![t].response = "Placeholder",
                            ![t].deliver = outcome]
    /\ inflight' = inflight \union {t}
    /\ UNCHANGED <<nodeVars, orderVars, historyVars>>

\* The placeholder is returned although nothing was sent.
WrongSendDeliverFails(t) ==
    /\ task' = [task EXCEPT ![t].pc = "returned", ![t].response = "Placeholder"]
    /\ UnchangedButTask

\* send_deliver fails: the task returns Error.
SendDeliverFails(t) ==
    /\ task' = [task EXCEPT ![t].pc = "returned", ![t].response = "Error"]
    /\ Blame({task[t].order})
    /\ UNCHANGED <<nodeVars, orderVars, inflight, retried>>

\* All actions done: Forward to the delivery host, then `deliver`.
DeliverSuccess(t) ==
    /\ task[t].pc = "loop"
    /\ AllDone(t)
    /\ SendDeliver(t, "success", Forwarded(task[t].payload, Host(t)))

\* An error after the frame was written, as when an acknowledgement is awaited.
WrongDeliverSuccessFails(t) ==
    /\ task[t].pc = "loop"
    /\ AllDone(t)
    /\ task' = [task EXCEPT ![t].pc = "returned", ![t].response = "Error",
                            ![t].deliver = "success"]
    /\ inflight' = inflight \union {t}
    /\ UNCHANGED <<nodeVars, orderVars, historyVars>>

DeliverSuccessFails(t) ==
    /\ task[t].pc = "loop"
    /\ AllDone(t)
    /\ SendDeliverFails(t)

\* No candidate answered: `deliver` with "Action ... not available".
DeliverFailure(t) ==
    /\ task[t].pc = "forwarding"
    /\ task[t].cands = {}
    /\ SendDeliver(t, "failure", task[t].payload)

DeliverFailureFails(t) ==
    /\ task[t].pc = "forwarding"
    /\ task[t].cands = {}
    /\ SendDeliverFails(t)

-----------------------------------------------------------------------------
(* handle_deliver, in the origin's thread for the frame task t sent.       *)

\* The error of a failed deliver is not looked at.
WrongDelivered(t) ==
    [kind |-> "Completed",
     payload |-> [task[t].payload EXCEPT !.updates = Append(@, Closed)]]

\* A success closes the trail and becomes the result; of a failure only the error
\* is kept.
Delivered(t) ==
    IF task[t].deliver = "success"
    THEN [kind |-> "Completed",
          payload |-> [task[t].payload EXCEPT !.updates = Append(@, Closed)]]
    ELSE Frame("Failed")

\* The entry is read, not taken out.
WrongSignalHandler(t) ==
    LET o == task[t].order IN
    /\ t \in inflight
    /\ o \in pending
    /\ Len(channel[o]) < 1
    /\ inflight' = inflight \ {t}
    /\ channel' = [channel EXCEPT ![o] = Append(@, Delivered(t))]
    /\ UNCHANGED <<nodeVars, handler, pending, receipts, answer, task, historyVars>>

\* Only a success is signalled; a failure just drops the entry.
WrongSignalSuccessOnly(t) ==
    LET o == task[t].order IN
    /\ t \in inflight
    /\ o \in pending
    /\ inflight' = inflight \ {t}
    /\ pending' = pending \ {o}
    /\ channel' = IF task[t].deliver = "failure" THEN channel
                  ELSE [channel EXCEPT ![o] = Append(@, Delivered(t))]
    /\ UNCHANGED <<nodeVars, handler, receipts, answer, task, historyVars>>

\* The entry is taken out and signalled under one lock. The send finds the
\* receiver gone when handle_order has returned, and would block, holding the
\* lock, on a full channel.
SignalHandler(t) ==
    LET o == task[t].order IN
    /\ t \in inflight
    /\ o \in pending
    /\ Len(channel[o]) < 1
    /\ inflight' = inflight \ {t}
    /\ pending' = pending \ {o}
    /\ channel' = IF handler[o] = "done" THEN channel
                  ELSE [channel EXCEPT ![o] = Append(@, Delivered(t))]
    /\ UNCHANGED <<nodeVars, handler, receipts, answer, task, historyVars>>

\* A deliver that comes before the handler waits is dropped.
WrongIgnoreDeliver(t) ==
    /\ t \in inflight
    /\ task[t].order \notin pending \/ handler[task[t].order] # "waiting"
    /\ inflight' = inflight \ {t}
    /\ UNCHANGED <<nodeVars, orderVars, task, historyVars>>

\* No entry: the message is logged and dropped.
IgnoreDeliver(t) ==
    /\ t \in inflight
    /\ task[t].order \notin pending
    /\ inflight' = inflight \ {t}
    /\ UNCHANGED <<nodeVars, orderVars, task, historyVars>>

\* The connection breaks after the sender's write succeeded.
LoseDeliver(t) ==
    /\ t \in inflight
    /\ inflight' = inflight \ {t}
    /\ Blame({task[t].order})
    /\ UNCHANGED <<nodeVars, orderVars, task, retried>>

-----------------------------------------------------------------------------
(* The environment: gossip changes the peer tables, nodes crash.           *)

\* What the gossip thread of a process does to its table; module Gossip is shown
\* to do no more.
Tables == INSTANCE PeerTables

\* An announce of the g-th start of p is applied by n: possibly relayed, late, or
\* about n itself. An entry of an earlier start can mislead any order.
Learn(n, p, g) ==
    /\ Tables!Learn(n, p, g)
    /\ known[n][p] # g
    /\ churn < MaxChurn
    /\ churn' = churn + 1
    /\ Blame(IF g = starts[p] THEN {} ELSE Orders)
    /\ UNCHANGED <<crashes, orderVars, task, inflight, retried>>

\* The peers ps are removed as stale from n's table.
Forget(n, ps) ==
    /\ Tables!Forget(n, ps)
    /\ churn < MaxChurn
    /\ churn' = churn + 1
    /\ Blame(Orders)
    /\ UNCHANGED <<crashes, orderVars, task, inflight, retried>>

\* The process of n ends: its threads, its pending_orders, its table, the
\* client connections and the frames on their way to it are gone.
Crash(n) ==
    LET broken == {o \in Orders : /\ Origin[o] = n
                                  /\ handler[o] \in ActiveHandlers}
    IN
    /\ Tables!Crash(n)
    /\ crashes < MaxCrashes
    /\ crashes' = crashes + 1
    /\ handler' = [o \in Orders |-> IF o \in broken THEN "dead" ELSE handler[o]]
    /\ answer' = [o \in Orders |->
                    IF o \in broken THEN Frame("Lost") ELSE answer[o]]
    /\ pending' = {o \in pending : Origin[o] # n}
    /\ channel' = [o \in Orders |-> IF o \in broken THEN <<>> ELSE channel[o]]
    /\ task' = [t \in Tasks |->
                  IF Live(t) /\ task[t].node = n
                  THEN [task[t] EXCEPT !.pc = "dead"] ELSE task[t]]
    /\ inflight' = {t \in inflight : Host(t) # n}
    /\ Blame(Orders)
    /\ UNCHANGED <<churn, receipts, retried>>

\* A new process of n, with nothing of the old one, and possibly with other
\* capabilities and recipes.
Restart(n) ==
    /\ Tables!Restart(n)
    /\ starts[n] < MaxStarts
    /\ UNCHANGED <<crashes, churn, orderVars, taskVars>>

-----------------------------------------------------------------------------
OrderStep(o) ==
    \/ Register(o)
    \/ FetchRecipe(o)
    \/ FetchFails(o)
    \/ ParseFails(o)
    \/ StartDrive(o)
    \/ DriveDelivers(o)
    \/ DriveFails(o)
    \/ ReceiveResult(o)
    \/ ReceiveTimesOut(o)
    \/ AnswerTimeout(o)

Submit(o) ==
    \/ DeclineOrder(o)
    \/ WriteReceipt(o)
    \/ ReceiptFails(o)

TaskStep(t) ==
    \/ Execute(t)
    \/ ReadCandidates(t)
    \/ \E p \in Candidate : ForwardTo(t, p) \/ ForwardRefused(t, p)
    \/ ForwardReply(t)
    \/ ForwardGivenUp(t)
    \/ DeliverSuccess(t)
    \/ DeliverSuccessFails(t)
    \/ DeliverFailure(t)
    \/ DeliverFailureFails(t)

HandleDeliver(t) == SignalHandler(t) \/ IgnoreDeliver(t)

Environment == \/ \E n, p \in Nodes, g \in Starts : Learn(n, p, g)
               \/ \E n \in Nodes, ps \in SUBSET Nodes : Forget(n, ps)
               \/ \E n \in Nodes : Crash(n) \/ Restart(n)
               \/ \E t \in Tasks : LoseDeliver(t)

\* Every order is answered and every thread has ended: nothing is left to do.
Quiet == /\ \A o \in Orders : handler[o] \notin ActiveHandlers
         /\ \A t \in Tasks : ~Live(t)
         /\ inflight = {}
Idle == Quiet /\ UNCHANGED vars

Next == \/ \E o \in Orders : Submit(o) \/ OrderStep(o)
        \/ \E t \in Tasks : TaskStep(t) \/ HandleDeliver(t)
        \/ Environment
        \/ Idle

Spec == Init /\ [][Next]_vars

\* Threads are scheduled by the operating system: one that can take a step
\* takes one. Every blocking call of the code has a timeout. Nothing is asked
\* of the clients or of the environment.
Fairness == /\ \A o \in Orders : WF_vars(OrderStep(o))
            /\ \A t \in Tasks : WF_vars(TaskStep(t))
            /\ \A t \in Tasks : WF_vars(HandleDeliver(t))

FairSpec == Spec /\ Fairness

-----------------------------------------------------------------------------
(* Safety.                                                                 *)

\* A client is told "Completed" only for the whole recipe: every action was
\* executed, in recipe order, none twice on the way to that result, however
\* many hops, retries and rival branches there were (apply_action, the index,
\* and the clone try_forward_payload sends).
CompletedIsWholeRecipe ==
    \A o \in Orders :
      answer[o].kind = "Completed" => answer[o].payload.content = Recipe[o]

\* Node n holds a payload of order o after the first k entries of `updates`.
HeldBy(n, o, updates, k) ==
    \/ /\ n = Origin[o]
       /\ \A j \in 1 .. k : updates[j].kind # "Forward"
    \/ \E j \in 1 .. k :
         /\ updates[j] = Hop(n)
         /\ \A i \in j + 1 .. k : updates[i].kind # "Forward"

\* The processes that worked on order o: nodes in one of their starts.
Workers(o) == {[node |-> task[t].node, start |-> task[t].start] :
                 t \in {u \in Tasks : Used(u) /\ task[u].order = o}}

\* The trail is honest: read from the origin along its hops, it was at a node of
\* `workers` when an action was added, and that process of the node, not just some
\* other start of it, has the capability.
Honest(o, updates, workers) ==
    \A k \in 1 .. Len(updates) :
      updates[k].kind = "Action" =>
        \E w \in workers : /\ HeldBy(w.node, o, updates, k - 1)
                           /\ updates[k].what \in Caps[w.node][w.start]

\* The updates a client is given with its result are honest, after any number of
\* hops, abandoned forwards and rival branches.
AnswerTrailIsHonest ==
    \A o \in Orders : Honest(o, answer[o].payload.updates, Workers(o))

\* How many of the first k entries of `updates` are actions.
ActionsIn(updates, k) == Cardinality({j \in 1 .. k : updates[j].kind = "Action"})

\* The actions recorded in `updates` are those of `content`, in order.
Records(updates, content) ==
    /\ Len(content) = ActionsIn(updates, Len(updates))
    /\ \A k \in 1 .. Len(updates) :
         updates[k].kind = "Action" =>
           updates[k].what = content[ActionsIn(updates, k)]

\* Where a trail of order o led nowhere: node `to` was handed it and passed it on as
\* it was, since the entry the node was chosen by was of another start of it.
Misled(o) ==
    {[to |-> task[t].node, trail |-> task[t].payload.updates] :
       t \in {u \in Tasks : /\ IsForwarded(u)
                           /\ task[u].order = o
                           /\ task[u].payload.index = task[u].first
                           /\ task[u].pc # "loop"
                           /\ task[u].entry # task[u].start}}

\* The trail is exact too: its actions are those of the content, and no hop in it
\* was tried in vain. Each is followed by an action, or by the delivery if it is
\* the one to the delivery host, or by another hop if its sender was misled about
\* the node. try_forward_payload appends the hop to a clone.
AnswerTrailIsExact ==
    \A o \in Orders :
      LET u == answer[o].payload.updates IN
      /\ Records(u, answer[o].payload.content)
      /\ \A k \in 1 .. Len(u) : u[k].kind = "Forward" =>
           /\ k < Len(u)
           /\ u[k + 1].kind = "Forward" =>
                [to |-> u[k].what, trail |-> SubSeq(u, 1, k)] \in Misled(o)

\* tx.send never blocks handle_deliver, which holds the pending_orders lock: as
\* long as an entry exists, the one-slot channel behind it is empty. Otherwise
\* every order of the node would wait on that lock.
SignalNeverBlocks ==
    \A o \in pending : channel[o] = <<>>

\* While handle_order waits for the deliver, the deliver can still reach it:
\* the entry is registered before the payload can come back, and is only taken
\* out together with a signal.
WaiterIsReachable ==
    \A o \in Orders :
      handler[o] = "waiting" => o \in pending \/ channel[o] # <<>>

\* Once an order has been driven, its handler leaves no entry behind in
\* pending_orders, on any of its exits.
DrivenOrderLeavesNoEntry ==
    \A o \in pending :
      handler[o] = "done" => \A t \in Tasks : Used(t) => task[t].order # o

\* A hop that leads nowhere, from a node to itself or to one that forwards again
\* without having executed anything, was to a node that has restarted since the
\* announce it was chosen by. With tables that are up to date payloads do not
\* bounce between nodes, and a chain has at most Len(Recipe[o]) hops.
EveryHopAdvances ==
    \A t \in Tasks :
      (/\ IsForwarded(t)
       /\ \/ task[t].node = task[task[t].parent].node
          \/ /\ task[t].pc \in {"forwarding", "awaiting"}
             /\ task[t].payload.index = task[t].first)
        => task[t].entry # task[t].start

\* Two tasks executed the same action of the same order.
Overlap(t, u) ==
    /\ task[t].order = task[u].order
    /\ task[t].first < task[u].payload.index
    /\ task[u].first < task[t].payload.index

\* An action is executed twice for an order only after a forward whose reply did
\* not come was tried again elsewhere.
ExecutedOnceUnlessRetried ==
    \A t, u \in Tasks :
      (Used(t) /\ Used(u) /\ t # u /\ Overlap(t, u)) =>
        task[t].order \in retried

\* The comment in handle_order, "A placeholder CompletedOrder with an empty
\* result means the deliver was sent successfully", through any number of hops.
PlaceholderMeansDelivered ==
    \A t \in Tasks :
      (IsRoot(t) /\ task[t].pc = "returned" /\ task[t].response = "Placeholder")
        => \E u \in Tasks : /\ Used(u)
                            /\ task[u].order = task[t].order
                            /\ task[u].deliver # "none"

\* In the beginning no table describes an earlier start, every node can execute
\* each action of o or knows a peer that can, and the origin has the recipe or
\* knows a peer that has it.
Covered(o) ==
    LET here(n) == {p \in Nodes : InitKnown[n][p] # 0} \union {n} IN
    /\ \A n, p \in Nodes : InitKnown[n][p] \in {0, Started[p]}
    /\ \E p \in here(Origin[o]) : o \in Menu[p][Started[p]]
    /\ \A n \in Nodes : \A k \in 1 .. Len(Recipe[o]) :
         \E p \in here(n) : Recipe[o][k] \in Caps[p][Started[p]]

\* An order the tables cover ends completed unless something went wrong for it:
\* a failed connection, a timeout, a lost frame, a forgotten peer, an announce of
\* an earlier start or a crash. No order of threads, of this order and of the
\* others, loses a result or takes it for another one.
FailureHasACause ==
    \A o \in Orders \ (Unparsable \union mishap) :
      Covered(o) => answer[o].kind \in {"None", "Completed"}

\* The drive of order o ended with an error.
DriveErred(o) ==
    \E t \in Tasks : /\ IsRoot(t)
                     /\ task[t].order = o
                     /\ task[t].pc = "returned"
                     /\ task[t].response = "Error"

\* Some task reached the end of the recipe of o and sent its deliver.
SuccessDelivered(o) ==
    \E t \in Tasks : /\ Used(t)
                     /\ task[t].order = o
                     /\ task[t].deliver = "success"

\* If no forward was retried, an error of the drive does mean that execution
\* failed before the deliver step: handle_order may drop the entry.
ErrorMeansUndeliveredUnlessRetried ==
    \A o \in Orders \ retried : DriveErred(o) => ~SuccessDelivered(o)

(* What comments of the code say and the code does not do.                 *)

\* src/node.rs on pending_orders: "Channels waiting for a `deliver` message".
EntriesHaveWaiters ==
    \A o \in pending : handler[o] # "done"

\* handle_order: "Any other return value means execution failed before reaching
\* the deliver step".
ErrorMeansUndelivered ==
    \A o \in Orders : DriveErred(o) => ~SuccessDelivered(o)

-----------------------------------------------------------------------------
(* Liveness.                                                               *)

\* An acknowledged order gets its final answer.
ReceiptLeadsToAnswer ==
    \A o \in Orders : (o \in receipts) ~> (answer[o] # None)

\* No set of threads waits in a circle: every task ends.
EveryTaskEnds ==
    \A t \in Tasks : Used(t) ~> ~Live(t)

-----------------------------------------------------------------------------
(* Inductive strengthenings, for the proofs.                               *)

\* Where the one-slot channel and the entry of an order stand at each point of
\* its handler: until the handler is past "waiting", exactly one of them can
\* bring the result.
ChannelDiscipline ==
    \A o \in Orders :
      /\ o \in pending =>
           channel[o] = <<>> /\ handler[o] \notin {"idle", "receipted"}
      /\ channel[o] # <<>> => handler[o] \notin {"idle", "receipted"}
      /\ handler[o] \in {"registered", "fetched", "driving", "waiting"} =>
           o \in pending \/ channel[o] # <<>>

\* The content of a payload of order o is the first `index` actions of the recipe.
Carries(o, payload) ==
    /\ payload.index <= Len(Recipe[o])
    /\ Len(payload.content) = payload.index
    /\ \A k \in 1 .. payload.index : payload.content[k] = Recipe[o][k]

\* A message or an answer of order o is what the two trace properties ask for.
Sound(o, m) == /\ m.kind = "Completed" => m.payload.content = Recipe[o]
               /\ Honest(o, m.payload.updates, Workers(o))

\* The record r of a task: its payload is what was done to it, and its node is
\* the last hop as long as it runs.
TaskTrace(r) ==
    /\ Carries(r.order, r.payload)
    /\ Honest(r.order, r.payload.updates, Workers(r.order))
    /\ r.deliver = "success" => r.payload.index >= Len(Recipe[r.order])
    /\ r.pc \in LiveTask =>
         HeldBy(r.node, r.order, r.payload.updates, Len(r.payload.updates))

PizzaTrace ==
    /\ \A t \in Tasks : Used(t) => TaskTrace(task[t])
    /\ \A o \in Orders : /\ \A i \in 1 .. Len(channel[o]) : Sound(o, channel[o][i])
                         /\ Sound(o, answer[o])

\* The action the record r of a task waits for.
Wanted(r) == Recipe[r.order][r.payload.index + 1]
Unfinished(r) == r.payload.index < Len(Recipe[r.order])

\* What forwarding keeps: a task forwards only what its node cannot execute, the
\* entries its candidates were chosen by all have the action the payload waits for,
\* so a node that receives a payload had, in the start it was taken for, at least
\* that one.
OwnRoute(r) ==
    /\ r.pc \in {"forwarding", "awaiting"} =>
         /\ Unfinished(r)
         /\ Wanted(r) \notin Caps[r.node][r.start]
         /\ \A p \in r.cands : Wanted(r) \in Caps[p.node][p.entry]
    /\ r.first <= r.payload.index
    /\ (r.parent # NoTask /\ r.payload.index = r.first) =>
         Unfinished(r) /\ Wanted(r) \in Caps[r.node][r.entry]

\* And a task that runs is one of its node's present process.
Routing ==
    \A t \in Tasks : Used(t) =>
      /\ OwnRoute(task[t])
      /\ Live(t) => task[t].node \in up /\ task[t].start = starts[task[t].node]
      /\ task[t].parent # NoTask =>
           /\ Used(task[t].parent)
           /\ task[t].node = task[task[t].parent].node =>
                task[t].entry # task[t].start

-----------------------------------------------------------------------------
(* Refinement.                                                             *)

ClientView == [o \in Orders |->
                 IF answer[o].kind # "None" THEN answer[o].kind
                 ELSE IF o \in receipts THEN "Receipt" ELSE "nothing"]

MadeOrders == {o \in Orders :
                 \E t \in Tasks : Used(t) /\ task[t].order = o /\ AllDone(t)}

Service == INSTANCE OrderService WITH client <- ClientView, made <- MadeOrders

\* What clients see of the nodes is what OrderService promises: one receipt,
\* then one final frame that never changes, and no result before the pizza is
\* made.
ImplementsService == Service!Spec
=============================================================================
