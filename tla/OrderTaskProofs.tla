--------------------------- MODULE OrderTaskProofs ---------------------------
(***************************************************************************)
(* The tasks of an order in OrderExecution, for any nodes, recipes, peer    *)
(* tables and bounds: how the runs of handle_process_payload for one order  *)
(* relate to each other, to its handler and to what its client is told.     *)
(***************************************************************************)
EXTENDS OrderExecutionProofs, FiniteSetTheorems

USE RecipeAssumption, PlacementAssumption, BoundsAssumption
USE DEF Blame, historyVars

-----------------------------------------------------------------------------
(* What a step of a task does to its record and to those of the others.     *)

\* The record of a task later on.
Keeps(r, s) == /\ s # Free
               /\ s.order = r.order
               /\ s.node = r.node
               /\ s.start = r.start
               /\ s.entry = r.entry
               /\ s.first = r.first
               /\ s.parent = r.parent

\* Only task t moved.
Alone(t) == /\ \A u \in Tasks \ {t} : task'[u] = task[u]
            /\ Keeps(task[t], task'[t])

\* It executed an action, read its candidates, or lost one.
Works(t) ==
    /\ Alone(t)
    /\ task[t].pc \in {"loop", "forwarding"}
    /\ task'[t].pc \in {"loop", "forwarding"}
    /\ task'[t].child = task[t].child
    /\ task'[t].response = task[t].response
    /\ task'[t].deliver = task[t].deliver
    /\ task'[t].payload.index >= task[t].payload.index
    /\ task[t].pc = "forwarding" =>
         task'[t].pc = "forwarding" /\ task'[t].payload = task[t].payload
    /\ UNCHANGED <<inflight, retried>>

\* It handed its payload to a new task c, and awaits it.
Forwards(t, c) ==
    /\ task[t].pc = "forwarding"
    /\ c # t /\ task[c] = Free
    /\ \A u \in Tasks \ {t, c} : task'[u] = task[u]
    /\ Keeps(task[t], task'[t])
    /\ task'[t].pc = "awaiting"
    /\ task'[t].child = c
    /\ task'[t].response = task[t].response
    /\ task'[t].deliver = task[t].deliver
    /\ task'[t].payload = task[t].payload
    /\ \E p \in Candidate :
         task'[c] = NewTask(task[t].order, p.node, p.entry,
                            Forwarded(task[t].payload, p.node), t)
    /\ UNCHANGED <<inflight, historyVars>>

\* It returned what its child c had returned.
Replies(t, c) ==
    /\ Alone(t)
    /\ task[t].pc = "awaiting" /\ task'[t].pc = "returned"
    /\ c = task[t].child /\ task[c].pc = "returned"
    /\ task'[t].response = task[c].response
    /\ task'[t].child = task[t].child
    /\ task'[t].deliver = task[t].deliver
    /\ task'[t].payload = task[t].payload
    /\ UNCHANGED <<inflight, historyVars>>

\* It gave its child up.
GivesUp(t) ==
    /\ Alone(t)
    /\ task[t].pc = "awaiting" /\ task'[t].pc = "forwarding"
    /\ task'[t].child = NoTask
    /\ task'[t].response = task[t].response
    /\ task'[t].deliver = task[t].deliver
    /\ task'[t].payload = task[t].payload
    /\ UNCHANGED inflight
    /\ retried' = retried \union {task[t].order}
    /\ mishap' = mishap \union {task[t].order}

\* It sent the deliver.
Delivers(t) ==
    /\ Alone(t)
    /\ task[t].pc \in {"loop", "forwarding"} /\ task'[t].pc = "returned"
    /\ task'[t].child = task[t].child
    /\ task'[t].response = "Placeholder"
    /\ task'[t].deliver \in {"success", "failure"}
    /\ task'[t].payload.index = task[t].payload.index
    /\ task[t].pc = "forwarding" => task'[t].payload = task[t].payload
    /\ inflight' = inflight \union {t}
    /\ UNCHANGED historyVars

\* It could not send the deliver.
Fails(t) ==
    /\ Alone(t)
    /\ task[t].pc \in {"loop", "forwarding"} /\ task'[t].pc = "returned"
    /\ task'[t].child = task[t].child
    /\ task'[t].response = "Error"
    /\ task'[t].deliver = task[t].deliver
    /\ task'[t].payload = task[t].payload
    /\ UNCHANGED <<inflight, retried>>
    /\ mishap' = mishap \union {task[t].order}

Moves(t) == \/ Works(t) \/ GivesUp(t) \/ Delivers(t) \/ Fails(t)
            \/ \E c \in Tasks : Forwards(t, c) \/ Replies(t, c)

\* A task that returns after its deliver changes nothing else.
LEMMA DeliveredTask ==
  ASSUME TypeOK, NEW t \in Tasks, task[t] \in TaskRecord, NEW p,
         NEW kind \in {"success", "failure"},
         task' = [task EXCEPT ![t].pc = "returned", ![t].payload = p,
                              ![t].response = "Placeholder", ![t].deliver = kind]
  PROVE  /\ Alone(t)
         /\ task'[t].pc = "returned" /\ task'[t].payload = p
         /\ task'[t].response = "Placeholder" /\ task'[t].deliver = kind
         /\ task'[t].child = task[t].child
<1>. DEFINE r == task[t]
<1>1. /\ task'[t] = [r EXCEPT !.pc = "returned", !.payload = p,
                               !.response = "Placeholder", !.deliver = kind]
      /\ \A u \in Tasks \ {t} : task'[u] = task[u]
  BY DEF TypeOK
<1>2. r \in TaskRecord
  OBVIOUS
<1>. HIDE DEF r
<1>. DEFINE s == task'[t]
<1>3. s = [r EXCEPT !.pc = "returned", !.payload = p,
                    !.response = "Placeholder", !.deliver = kind]
  BY <1>1
<1>. HIDE DEF s
<1>4. /\ s.pc = "returned" /\ s.payload = p
      /\ s.response = "Placeholder" /\ s.deliver = kind
      /\ s.child = r.child
  BY <1>2, <1>3 DEF TaskRecord
<1>5. /\ s.order = r.order /\ s.node = r.node
      /\ s.start = r.start /\ s.entry = r.entry
      /\ s.first = r.first /\ s.parent = r.parent
      /\ s # Free
  BY <1>2, <1>3 DEF TaskRecord, Free
<1>6. Keeps(r, s)
  BY <1>5 DEF Keeps
<1> QED
  BY <1>1, <1>4, <1>6 DEF Alone, r, s

\* The node and the peer tables are not a task's to change.
LEMMA TaskMoves ==
  ASSUME TypeOK, NEW t \in Tasks, TaskStep(t)
  PROVE  /\ task[t] \in TaskRecord /\ Live(t)
         /\ Moves(t)
         /\ UNCHANGED <<nodeVars, orderVars>>
<1>1. Live(t) /\ task[t] \in TaskRecord
  BY StepperIsLive, LiveTaskRecord
<1>2. /\ task[t].payload \in Payload
      /\ task[t].payload.index \in Nat
  BY <1>1 DEF TaskRecord, Payload
<1>. USE DEF Moves, Alone, Keeps, TypeOK, Free, UnchangedButTask
<1>3. CASE Execute(t)
  <2>1. Executed(task[t].payload, NextAction(t)).index = task[t].payload.index + 1
    BY DEF Executed
  <2>. DEFINE p == Executed(task[t].payload, NextAction(t))
  <2>. HIDE DEF p
  <2>2. task' = [task EXCEPT ![t].payload = p] /\ task[t].pc = "loop"
    BY <1>3 DEF Execute, p
  <2>3. p.index >= task[t].payload.index
    BY <1>2, <2>1 DEF p
  <2>4. Works(t)
    BY <1>1, <1>3, <2>2, <2>3 DEF Execute, TaskRecord, Works
  <2> QED
    BY <1>1, <1>3, <2>4 DEF Execute
<1>4. CASE ReadCandidates(t)
  <2>1. task'[t].payload = task[t].payload
    BY <1>1, <1>4 DEF ReadCandidates, TaskRecord
  <2>2. task'[t].payload.index >= task[t].payload.index
    BY <1>2, <2>1
  <2>3. Works(t)
    BY <1>1, <1>4, <2>2 DEF ReadCandidates, TaskRecord, Works
  <2> QED
    BY <1>1, <1>4, <2>3 DEF ReadCandidates
<1>5. ASSUME NEW p \in Candidate, ForwardTo(t, p)
      PROVE  /\ \E c \in Tasks : Forwards(t, c)
             /\ UNCHANGED <<nodeVars, orderVars>>
  <2>. DEFINE new == NewTask(task[t].order, p.node, p.entry,
                             Forwarded(task[t].payload, p.node), t)
  <2>1. PICK c \in Tasks :
          /\ IsNext(c)
          /\ task' = [task EXCEPT ![c] = new, ![t].pc = "awaiting",
                                  ![t].cands = @ \ {p}, ![t].child = c]
    BY <1>5 DEF ForwardTo
  <2>2. c # t /\ task[c] = Free
    BY <1>1, <2>1 DEF IsNext, Used, Live, LiveTask
  <2>. HIDE DEF new
  <2>3. /\ task'[c] = new
        /\ \A u \in Tasks \ {t, c} : task'[u] = task[u]
        /\ Keeps(task[t], task'[t])
        /\ task'[t].pc = "awaiting"
        /\ task'[t].child = c
        /\ task'[t].response = task[t].response
        /\ task'[t].deliver = task[t].deliver
        /\ task'[t].payload = task[t].payload
    <3>. DEFINE r == task[t]
    <3>1. /\ task'[c] = new
          /\ \A u \in Tasks \ {t, c} : task'[u] = task[u]
          /\ task'[t] = [r EXCEPT !.pc = "awaiting", !.cands = @ \ {p}, !.child = c]
      BY <2>1, <2>2
    <3>2. r \in TaskRecord
      BY <1>1
    <3>. HIDE DEF r
    <3>3. /\ Keeps(r, task'[t])
          /\ task'[t].pc = "awaiting"
          /\ task'[t].child = c
          /\ task'[t].response = r.response
          /\ task'[t].deliver = r.deliver
          /\ task'[t].payload = r.payload
      BY <3>1, <3>2 DEF TaskRecord
    <3> QED
      BY <3>1, <3>3 DEF r
  <2>4. Forwards(t, c)
    BY <1>5, <2>2, <2>3 DEF Forwards, ForwardTo, new
  <2> QED
    BY <1>5, <2>4 DEF ForwardTo
<1>6. ASSUME NEW p \in Candidate, ForwardRefused(t, p)
      PROVE  Works(t) /\ UNCHANGED <<nodeVars, orderVars>>
  BY <1>1, <1>2, <1>6 DEF ForwardRefused, TaskRecord, Works
<1>7. CASE ForwardReply(t)
  <2>1. PICK c \in Tasks :
          /\ c = task[t].child
          /\ task[c].pc = "returned"
          /\ task' = [task EXCEPT ![t].pc = "returned",
                                  ![t].response = task[c].response]
    BY <1>7 DEF ForwardReply
  <2>2. /\ Alone(t)
        /\ task'[t] = [task[t] EXCEPT !.pc = "returned",
                                      !.response = task[c].response]
    BY <1>1, <2>1 DEF TaskRecord
  <2>3. Replies(t, c)
    BY <1>1, <1>7, <2>1, <2>2 DEF ForwardReply, TaskRecord, Replies
  <2> QED
    BY <1>1, <1>7, <2>3 DEF ForwardReply
<1>8. CASE ForwardGivenUp(t)
  BY <1>1, <1>8 DEF ForwardGivenUp, TaskRecord, GivesUp
<1>9. CASE DeliverSuccess(t)
  <2>. DEFINE p == Forwarded(task[t].payload, Host(t))
  <2>1. p.index = task[t].payload.index
    BY <1>2 DEF Forwarded, Payload
  <2>. HIDE DEF p
  <2>2. task' = [task EXCEPT ![t].pc = "returned", ![t].payload = p,
                             ![t].response = "Placeholder", ![t].deliver = "success"]
    BY <1>9 DEF DeliverSuccess, SendDeliver, p
  <2>3. /\ Alone(t) /\ task'[t].pc = "returned" /\ task'[t].payload = p
        /\ task'[t].child = task[t].child
        /\ task'[t].response = "Placeholder"
        /\ task'[t].deliver = "success"
    BY <1>1, <2>2 DEF TaskRecord
  <2>4. task[t].pc = "loop" /\ inflight' = inflight \union {t} /\ UNCHANGED historyVars
    BY <1>9 DEF DeliverSuccess, SendDeliver
  <2>5. Delivers(t)
    BY <2>1, <2>3, <2>4 DEF Delivers
  <2> QED
    BY <1>1, <1>9, <2>5 DEF DeliverSuccess, SendDeliver
<1>10. CASE DeliverFailure(t)
  <2>1. Delivers(t)
    BY <1>1, <1>10 DEF DeliverFailure, SendDeliver, TaskRecord, Delivers
  <2> QED
    BY <1>1, <1>10, <2>1 DEF DeliverFailure, SendDeliver
<1>11. CASE DeliverSuccessFails(t) \/ DeliverFailureFails(t)
  BY <1>1, <1>11 DEF DeliverSuccessFails, DeliverFailureFails,
       SendDeliverFails, TaskRecord, Fails
<1> QED
  BY <1>1, <1>3, <1>4, <1>5, <1>6, <1>7, <1>8, <1>9, <1>10, <1>11
     DEF TaskStep

\* The first task of order o starts, as c.
Begins(o, c) ==
    /\ task[c] = Free
    /\ \A u \in Tasks \ {c} : task'[u] = task[u]
    /\ task'[c] = NewTask(o, Origin[o], NoEntry, EmptyPayload, NoTask)

\* Tasks that ran are gone.
Kills == \A t \in Tasks :
           \/ task'[t] = task[t]
           \/ /\ Live(t) /\ task'[t].pc = "dead"
              /\ Keeps(task[t], task'[t])
              /\ task'[t].child = task[t].child
              /\ task'[t].response = task[t].response
              /\ task'[t].deliver = task[t].deliver
              /\ task'[t].payload = task[t].payload

\* StartDrive starts one task, and a crash kills those of its node.
LEMMA DriveStarts ==
  ASSUME TypeOK, NEW o \in Orders, StartDrive(o)
  PROVE  \E c \in Tasks : Begins(o, c)
<1>. DEFINE new == NewTask(o, Origin[o], NoEntry, EmptyPayload, NoTask)
<1>1. PICK c \in Tasks : IsNext(c) /\ task' = [task EXCEPT ![c] = new]
  BY DEF StartDrive
<1>. HIDE DEF new
<1> QED
  BY <1>1 DEF IsNext, Used, TypeOK, Begins, new

LEMMA CrashKills ==
  ASSUME TypeOK, NEW n \in Nodes, Crash(n)
  PROVE  Kills
BY LiveTaskRecord DEF Crash, Kills, Keeps, TypeOK, TaskRecord, Free

\* A task moves, or one starts, or some are killed, or all stay as they are.
LEMMA TableSteps ==
  ASSUME TypeOK, [Next]_vars
  PROVE  \/ \E t \in Tasks : TaskStep(t)
         \/ inflight' \subseteq inflight /\ \/ UNCHANGED task
                                            \/ \E n \in Nodes : Crash(n) /\ Kills
                                            \/ \E o \in Orders, c \in Tasks :
                                                 StartDrive(o) /\ Begins(o, c)
<1>1. ASSUME NEW o \in Orders, StartDrive(o)
      PROVE  inflight' = inflight /\ \E c \in Tasks : Begins(o, c)
  BY <1>1, DriveStarts DEF StartDrive
<1>2. ASSUME NEW n \in Nodes, Crash(n)
      PROVE  inflight' \subseteq inflight /\ Kills
  BY <1>2, CrashKills DEF Crash
<1>3. ASSUME NEW o \in Orders, Submit(o) \/ OrderStep(o), ~StartDrive(o)
      PROVE  UNCHANGED <<task, inflight>>
  BY <1>3 DEF Submit, OrderStep, DeclineOrder, WriteReceipt, ReceiptFails,
       Register, FetchRecipe, FetchFails, ParseFails, DriveDelivers, DriveFails,
       ReceiveResult, ReceiveTimesOut, AnswerTimeout, taskVars
<1>4. \/ \E t \in Tasks : HandleDeliver(t) \/ LoseDeliver(t)
      \/ \E n \in Nodes : Restart(n)
      \/ \E n, p \in Nodes, g \in Starts : Learn(n, p, g)
      \/ \E n \in Nodes, ps \in SUBSET Nodes : Forget(n, ps)
      \/ UNCHANGED vars
      => UNCHANGED task /\ inflight' \subseteq inflight
  BY DEF HandleDeliver, SignalHandler, IgnoreDeliver, LoseDeliver, Restart,
       Learn, Forget, vars, taskVars
<1> QED
  BY <1>1, <1>2, <1>3, <1>4 DEF Next, Environment, Idle

-----------------------------------------------------------------------------
(* Tasks and the handler of their order.                                   *)

\* Where a handler is once it has driven its order.
Driven == {"driving", "waiting", "timedout", "done", "dead"}

\* In the table of tasks `table`, some task of order o sent a deliver.
Sent(table, o) == \E u \in Tasks : /\ table[u] # Free
                                   /\ table[u].order = o
                                   /\ table[u].deliver # "none"

\* What holds of the record r of a task, where `at` is where the handlers are: its
\* order was driven; only a task that waits, or did, has a child, which is of the
\* same order; and behind every placeholder there is a deliver, sent by the task
\* at the end of the chain.
Linked(table, at, r) ==
    /\ at[r.order] \in Driven
    /\ r.child # NoTask => /\ r.child \in Tasks /\ table[r.child] # Free
                           /\ table[r.child].order = r.order
    /\ r.pc \in {"loop", "forwarding"} => r.child = NoTask
    /\ r.deliver # "none" =>
         r.pc = "returned" /\ r.child = NoTask /\ r.response = "Placeholder"
    /\ (r.pc = "returned" /\ r.response = "Placeholder") => Sent(table, r.order)

Family ==
    /\ \A t \in Tasks : task[t] # Free => Linked(task, handler, task[t])
    /\ \A t \in inflight : task[t].deliver # "none"
    /\ \A o \in Orders : handler[o] = "waiting" => Sent(task, o)
    /\ DrivenOrderLeavesNoEntry

\* A handler that has driven its order never does so again, waits only for what
\* the drive returned, and is done with its entry left behind only if it was so
\* before or never drove its order.
LEMMA HandlerSteps ==
  ASSUME TypeOK, [Next]_vars, NEW o \in Orders
  PROVE  /\ handler[o] \in Driven => handler'[o] \in Driven
         /\ handler'[o] = "waiting" => handler[o] = "waiting" \/ DriveDelivers(o)
         /\ (o \in pending' /\ handler'[o] = "done") =>
              \/ o \in pending /\ handler[o] = "done"
              \/ handler[o] \notin Driven
<1>. USE DEF Driven, TypeOK
<1>1. ASSUME NEW q \in Orders, Submit(q) \/ OrderStep(q)
      PROVE  /\ handler[q] \in Driven => handler'[q] \in Driven
             /\ handler'[q] = "waiting" => DriveDelivers(q)
             /\ (q \in pending' /\ handler'[q] = "done") => handler[q] \notin Driven
             /\ \A r \in Orders \ {q} : /\ handler'[r] = handler[r]
                                        /\ r \in pending' <=> r \in pending
  BY <1>1 DEF Submit, DeclineOrder, WriteReceipt, ReceiptFails, OrderStep,
       Register, FetchRecipe, FetchFails, ParseFails,
       StartDrive, DriveDelivers, DriveFails, ReceiveResult, ReceiveTimesOut,
       AnswerTimeout, Finish, Goto
<1>2. ASSUME NEW t \in Tasks, TaskStep(t) \/ HandleDeliver(t) \/ LoseDeliver(t)
      PROVE  handler' = handler /\ pending' \subseteq pending
  BY <1>2, TasksKeepOrders DEF orderVars, HandleDeliver, SignalHandler,
       IgnoreDeliver, LoseDeliver
<1>3. ASSUME NEW n \in Nodes, Crash(n)
      PROVE  /\ \/ handler'[o] = handler[o]
                \/ handler'[o] = "dead"
             /\ pending' \subseteq pending
  BY <1>3 DEF Crash
<1>4. \/ \E n \in Nodes : Restart(n)
      \/ \E n, p \in Nodes, g \in Starts : Learn(n, p, g)
      \/ \E n \in Nodes, ps \in SUBSET Nodes : Forget(n, ps)
      \/ UNCHANGED vars
      => UNCHANGED <<handler, pending>>
  BY DEF Restart, Learn, Forget, vars, orderVars
<1>5. CASE \E q \in Orders : Submit(q) \/ OrderStep(q)
  BY <1>1, <1>5
<1>6. CASE \E t \in Tasks : TaskStep(t) \/ HandleDeliver(t) \/ LoseDeliver(t)
  BY <1>2, <1>6
<1>7. CASE \E n \in Nodes : Crash(n)
  BY <1>3, <1>7
<1>8. CASE UNCHANGED <<handler, pending>>
  BY <1>8
<1> QED
  BY <1>4, <1>5, <1>6, <1>7, <1>8 DEF Next, Environment, Idle

\* Tasks stay, keep their order, and what they sent stays sent.
Older == \A u \in Tasks : task[u] # Free =>
           /\ task'[u] # Free
           /\ task'[u].order = task[u].order
           /\ task[u].deliver # "none" => task'[u].deliver # "none"

\* Record s of a task is linked as record r was.
SameLink(r, s) ==
    /\ s.order = r.order
    /\ s.child = r.child
    /\ s.response = r.response
    /\ s.deliver = r.deliver
    /\ s.pc \in {"loop", "forwarding"} => r.pc \in {"loop", "forwarding"}
    /\ s.pc = "returned" <=> r.pc = "returned"

\* What was sent stays sent.
LEMMA SentKept ==
  ASSUME Older
  PROVE  \A o : Sent(task, o) => Sent(task', o)
BY DEF Older, Sent

\* Handlers that have driven their order stay past that.
DrivenKept == \A o \in Orders : handler[o] \in Driven => handler'[o] \in Driven

\* A task whose links stay is linked after the step.
LEMMA LinkedKept ==
  ASSUME TypeOK, Family, Older, DrivenKept, NEW u \in Tasks, task[u] # Free,
         SameLink(task[u], task'[u])
  PROVE  Linked(task', handler', task'[u])
<1>1. Linked(task, handler, task[u]) /\ task[u].order \in Orders
  BY UsedTaskRecord DEF Family, TaskRecord, Used
<1>2. Sent(task, task[u].order) => Sent(task', task[u].order)
  BY SentKept
<1> QED
  BY <1>1, <1>2 DEF Linked, SameLink, Older, DrivenKept

\* A step of a task keeps the family of its order together.
LEMMA TaskStepLinked ==
  ASSUME TypeOK, Family, NEW t \in Tasks, TaskStep(t)
  PROVE  Family'
<1>1. /\ task[t] \in TaskRecord /\ Live(t) /\ Moves(t) /\ UNCHANGED orderVars
      /\ task[t] # Free
      /\ Linked(task, handler, task[t])
  BY TaskMoves DEF Live, LiveTask, Free, Family
<1>2. handler' = handler /\ pending' = pending /\ DrivenKept
  BY <1>1 DEF orderVars, DrivenKept
<1>3. task[t].pc \in LiveTask /\ task[t].deliver = "none"
  BY <1>1 DEF Linked, Live, LiveTask
<1>4. Older /\ \A u \in Tasks : task'[u] # Free =>
                  \E v \in Tasks : task[v] # Free /\ task[v].order = task'[u].order
  <2>1. CASE Alone(t)
    BY <1>1, <1>3, <2>1 DEF Alone, Keeps, Older
  <2>2. ASSUME NEW c \in Tasks, Forwards(t, c)
        PROVE  /\ Older
               /\ \A u \in Tasks : task'[u] # Free =>
                    \E v \in Tasks : task[v] # Free /\ task[v].order = task'[u].order
    <3>1. task'[c].order = task[t].order
      BY <2>2 DEF Forwards, NewTask
    <3>2. task'[t] # Free /\ task'[t].order = task[t].order /\ task[c] = Free
      BY <2>2 DEF Forwards, Keeps
    <3>3. \A u \in Tasks \ {t, c} : task'[u] = task[u]
      BY <2>2 DEF Forwards
    <3> QED
      BY <1>1, <1>3, <3>1, <3>2, <3>3 DEF Older
  <2> QED
    BY <1>1, <2>1, <2>2 DEF Moves, Works, GivesUp, Delivers, Fails, Replies
<1>5. \A o : Sent(task, o) => Sent(task', o)
  BY <1>4, SentKept
<1>6. ASSUME NEW u \in Tasks, task[u] # Free, u # t
      PROVE  Linked(task', handler', task'[u])
  <2>1. task'[u] = task[u]
    BY <1>6, OthersKept DEF Used
  <2> QED
    BY <1>2, <1>4, <1>6, <2>1, LinkedKept DEF SameLink
<1>7. Linked(task', handler', task'[t])
  <2>1. CASE Works(t)
    <3>1. SameLink(task[t], task'[t])
      BY <2>1 DEF Works, Alone, Keeps, SameLink
    <3> QED
      BY <1>1, <1>2, <1>4, <3>1, LinkedKept
  <2>2. CASE GivesUp(t)
    BY <1>1, <1>2, <1>3, <2>2 DEF GivesUp, Alone, Keeps, Linked
  <2>3. CASE Delivers(t)
    <3>1. Sent(task', task'[t].order)
      BY <2>3 DEF Delivers, Alone, Keeps, Sent
    <3> QED
      BY <1>1, <1>2, <2>3, <3>1 DEF Delivers, Alone, Keeps, Linked
  <2>4. CASE Fails(t)
    BY <1>1, <1>2, <1>3, <2>4 DEF Fails, Alone, Keeps, Linked
  <2>5. ASSUME NEW c \in Tasks, Replies(t, c)
        PROVE  Linked(task', handler', task'[t])
    <3>1. /\ task[c] # Free /\ task[c].order = task[t].order
          /\ Linked(task, handler, task[c])
      BY <1>1, <2>5 DEF Replies, Linked, Family, Free, Tasks, NoTask
    <3>2. task[c].response = "Placeholder" => Sent(task', task[t].order)
      BY <1>5, <2>5, <3>1 DEF Linked, Replies
    <3>3. task'[c] # Free /\ task'[c].order = task[t].order
      BY <1>4, <3>1 DEF Older
    <3> QED
      BY <1>1, <1>2, <1>3, <2>5, <3>2, <3>3 DEF Replies, Alone, Keeps, Linked
  <2>6. ASSUME NEW c \in Tasks, Forwards(t, c)
        PROVE  Linked(task', handler', task'[t])
    <3>1. task'[c] # Free /\ task'[c].order = task[t].order
      BY <2>6 DEF Forwards, NewTask, Free
    <3> QED
      BY <1>1, <1>2, <1>3, <2>6, <3>1 DEF Forwards, Keeps, Linked
  <2> QED
    BY <1>1, <2>1, <2>2, <2>3, <2>4, <2>5, <2>6 DEF Moves
<1>8. ASSUME NEW u \in Tasks, task[u] = Free, task'[u] # Free
      PROVE  Linked(task', handler', task'[u])
  <2>1. PICK c \in Tasks : Forwards(t, c)
    BY <1>1, <1>8 DEF Moves, Works, GivesUp, Delivers, Fails, Replies, Alone
  <2>2. u = c
    BY <1>1, <1>8, <2>1 DEF Forwards
  <2> QED
    BY <1>1, <1>2, <2>1, <2>2 DEF Forwards, NewTask, Linked
<1>9. \A u \in inflight' : task'[u].deliver # "none"
  <2>1. \A u \in inflight : task[u] # Free /\ u \in Tasks
    BY DEF TypeOK, Free
  <2>2. inflight' = inflight \/ Delivers(t)
    BY <1>1 DEF Moves, Works, GivesUp, Fails, Forwards, Replies
  <2> QED
    BY <1>4, <2>1, <2>2 DEF Family, Older, Delivers
<1>10. DrivenOrderLeavesNoEntry'
  BY <1>2, <1>4 DEF Family, DrivenOrderLeavesNoEntry, Used
<1> QED
  BY <1>2, <1>5, <1>6, <1>7, <1>8, <1>9, <1>10 DEF Family

\* So does every other step.
LEMMA NextLinked == TypeOK /\ Family /\ [Next]_vars => Family'
<1> SUFFICES ASSUME TypeOK, Family, [Next]_vars
             PROVE  Family'
  OBVIOUS
<1>1. DrivenKept
  BY HandlerSteps DEF DrivenKept
<1>2. ASSUME inflight' \subseteq inflight, Older,
             \A u \in Tasks : task[u] # Free => SameLink(task[u], task'[u]),
             \A u \in Tasks : (task[u] = Free /\ task'[u] # Free) =>
               /\ Linked(task', handler', task'[u])
               /\ handler'[task'[u].order] # "done"
      PROVE  Family'
  <2>1. \A u \in Tasks : task'[u] # Free => Linked(task', handler', task'[u])
    BY <1>1, <1>2, LinkedKept
  <2>2. \A u \in inflight' : task'[u].deliver # "none"
    <3>1. \A u \in inflight : task[u] # Free /\ u \in Tasks
      BY DEF TypeOK, Free
    <3> QED
      BY <1>2, <3>1 DEF Family, Older
  <2>3. \A o : Sent(task, o) => Sent(task', o)
    BY <1>2, SentKept
  <2>4. ASSUME NEW o \in Orders, handler'[o] = "waiting"
        PROVE  Sent(task', o)
    <3>1. CASE handler[o] = "waiting"
      BY <2>3, <3>1 DEF Family
    <3>2. CASE DriveDelivers(o)
      <4>1. PICK t \in Tasks : /\ task[t] # Free /\ task[t].order = o
                               /\ task[t].pc = "returned"
                               /\ task[t].response = "Placeholder"
        BY <3>2 DEF DriveDelivers, IsRoot, Used
      <4> QED
        BY <2>3, <4>1 DEF Family, Linked
    <3> QED
      BY <2>4, <3>1, <3>2, HandlerSteps
  <2>5. ASSUME NEW o \in pending', handler'[o] = "done",
               NEW u \in Tasks, task'[u] # Free, task'[u].order = o
        PROVE  FALSE
    <3>1. task[u] # Free /\ task[u].order = o
      BY <1>2, <2>5 DEF SameLink
    <3>2. o \in Orders /\ handler[o] \in Driven
      BY <3>1, UsedTaskRecord DEF Family, Linked, Used, TaskRecord
    <3>3. o \in pending /\ handler[o] = "done"
      BY <2>5, <3>2, HandlerSteps
    <3> QED
      BY <3>1, <3>3 DEF Family, DrivenOrderLeavesNoEntry, Used
  <2>6. DrivenOrderLeavesNoEntry'
    BY <2>5 DEF DrivenOrderLeavesNoEntry, Used
  <2> QED
    BY <2>1, <2>2, <2>4, <2>6 DEF Family
<1>3. CASE UNCHANGED task /\ inflight' \subseteq inflight
  BY <1>2, <1>3 DEF SameLink, Older
<1>4. CASE Kills /\ inflight' \subseteq inflight
  <2>1. \A u \in Tasks : task[u] # Free =>
          task'[u] # Free /\ SameLink(task[u], task'[u])
    BY <1>4 DEF Kills, Keeps, SameLink, Live, LiveTask
  <2>2. Older
    BY <2>1 DEF SameLink, Older
  <2>3. \A u \in Tasks : task[u] = Free => task'[u] = Free
    BY <1>4 DEF Kills, Live, LiveTask, Free
  <2> QED
    BY <1>2, <1>4, <2>1, <2>2, <2>3
<1>5. ASSUME NEW o \in Orders, NEW c \in Tasks, StartDrive(o), Begins(o, c),
             inflight' \subseteq inflight
      PROVE  Family'
  <2>1. handler'[o] = "driving"
    BY <1>5 DEF StartDrive, Goto, TypeOK
  <2>2. Linked(task', handler', task'[c]) /\ task'[c].order = o
    BY <1>5, <2>1 DEF Begins, NewTask, Linked, Driven
  <2>3. task[c] = Free /\ \A u \in Tasks \ {c} : task'[u] = task[u]
    BY <1>5 DEF Begins
  <2>4. Older
    BY <2>3 DEF Older
  <2>5. \A u \in Tasks : task[u] # Free => SameLink(task[u], task'[u])
    BY <2>3 DEF SameLink
  <2> QED
    BY <1>2, <1>5, <2>1, <2>2, <2>3, <2>4, <2>5
<1> QED
  BY <1>3, <1>4, <1>5, TableSteps, TaskStepLinked

\* Tasks, their children and their handler fit together.
LEMMA FamilyHolds == Spec => []Family
<1>1. Init => Family
  BY DEF Init, Family, DrivenOrderLeavesNoEntry
<1> QED
  BY <1>1, NextLinked, TypeCorrect, PTL DEF Spec

\* The comment of handle_order on its placeholder is true through any number of
\* hops, retries and crashes: a root that returns the placeholder is followed by
\* a task that did send the deliver.
THEOREM PlaceholdersMeanDelivered == Spec => []PlaceholderMeansDelivered
<1>1. Family => PlaceholderMeansDelivered
  BY DEF Family, Linked, Sent, PlaceholderMeansDelivered, IsRoot, Used
<1> QED
  BY <1>1, FamilyHolds, PTL

\* Of all the exits of handle_order, only those before the drive leave an entry
\* in pending_orders.
THEOREM DrivenOrdersLeaveNoEntry == Spec => []DrivenOrderLeavesNoEntry
<1>1. Family => DrivenOrderLeavesNoEntry
  BY DEF Family
<1> QED
  BY <1>1, FamilyHolds, PTL

-----------------------------------------------------------------------------
(* The tasks of an order that was never retried form one chain.             *)

\* Record s is further down the chain than r: it started where r stopped, and r
\* returns what it returned.
Precedes(r, s) ==
    /\ r.payload.index <= s.first
    /\ r.pc = "returned" => s.pc = "returned" /\ s.response = r.response

\* Two records of one chain: at most one is its end, which the other precedes.
Chained(r, s) ==
    /\ r.child # NoTask \/ s.child # NoTask
    /\ s.child = NoTask => Precedes(r, s)
    /\ r.child = NoTask => Precedes(s, r)
    /\ r.payload.index <= s.first \/ s.payload.index <= r.first

OneChain ==
    \A t, u \in Tasks :
      /\ task[t] # Free /\ task[u] # Free /\ t # u
      /\ task[t].order = task[u].order /\ task[t].order \notin retried
      => Chained(task[t], task[u])

\* The order of the two does not matter.
LEMMA ChainedBoth ==
  ASSUME NEW r, NEW s, Chained(r, s)
  PROVE  Chained(s, r)
BY DEF Chained

\* A step of a task keeps the chain of its order.
LEMMA TaskStepChained ==
  ASSUME TypeOK, Family, Routing, OneChain, NEW t \in Tasks, TaskStep(t)
  PROVE  OneChain'
<1>. DEFINE r == task[t]
            s == task'[t]
            o == task[t].order
<1>1. /\ Live(t) /\ Moves(t) /\ r # Free
      /\ Linked(task, handler, r)
      /\ retried \subseteq retried'
  <2>1. Live(t) /\ Moves(t) /\ r # Free
    BY TaskMoves DEF Live, LiveTask, Free
  <2>2. retried \subseteq retried'
    BY <2>1 DEF Moves, Works, GivesUp, Delivers, Fails, Forwards, Replies
  <2> QED
    BY <2>1, <2>2 DEF Family
<1>2. \A u \in Tasks : task[u] # Free =>
        /\ task[u].payload.index \in Nat /\ task[u].first \in Nat
        /\ task[u].first <= task[u].payload.index
  BY UsedTaskRecord DEF Used, TaskRecord, Payload, Routing, OwnRoute
<1>3. ASSUME s # Free, s.order = o,
             \A u \in Tasks : (/\ u # t /\ task'[u] # Free
                               /\ task'[u].order = o /\ o \notin retried')
               => Chained(s, task'[u])
      PROVE  \A u, v \in Tasks \ {t} : task'[u] = task[u] /\ task'[v] = task[v]
               => (/\ task'[u] # Free /\ task'[v] # Free /\ u # v
                   /\ task'[u].order = task'[v].order /\ task'[u].order \notin retried'
                   => Chained(task'[u], task'[v]))
  BY <1>1 DEF OneChain
<1>4. ASSUME Alone(t),
             \A u \in Tasks : (/\ u # t /\ task[u] # Free /\ Chained(r, task[u])
                               /\ o \notin retried' /\ task[u].order = o)
               => Chained(s, task[u])
      PROVE  OneChain'
  <2>1. s # Free /\ s.order = o /\ \A u \in Tasks \ {t} : task'[u] = task[u]
    BY <1>4 DEF Alone, Keeps
  <2>2. \A u \in Tasks : (/\ u # t /\ task'[u] # Free
                          /\ task'[u].order = o /\ o \notin retried')
          => Chained(s, task'[u])
    BY <1>1, <1>4, <2>1 DEF OneChain
  <2> QED
    BY <1>3, <2>1, <2>2, ChainedBoth DEF OneChain
<1>5. r.pc \in {"loop", "forwarding"} =>
        /\ r.child = NoTask
        /\ \A u \in Tasks : (u # t /\ Chained(r, task[u])) =>
             /\ task[u].child # NoTask /\ task[u].pc # "returned"
             /\ task[u].payload.index <= r.first
  BY <1>1 DEF Linked, Chained, Precedes
<1>6. CASE Works(t)
  BY <1>4, <1>5, <1>6 DEF Works, Alone, Keeps, Chained, Precedes
<1>7. CASE GivesUp(t)
  BY <1>4, <1>7 DEF GivesUp
<1>8. CASE Delivers(t) \/ Fails(t)
  <2>1. /\ Alone(t) /\ r.pc \in {"loop", "forwarding"}
        /\ s.child = r.child /\ s.first = r.first
    BY <1>8 DEF Delivers, Fails, Alone, Keeps
  <2> QED
    BY <1>4, <1>5, <2>1 DEF Chained, Precedes
<1>9. ASSUME NEW c \in Tasks, Replies(t, c)
      PROVE  OneChain'
  <2>1. /\ Alone(t) /\ s.child = c /\ r.child = c /\ c # NoTask
        /\ s.payload = r.payload /\ s.first = r.first
        /\ s.pc = "returned" /\ s.response = task[c].response
        /\ task[c].pc = "returned" /\ r.pc = "awaiting"
    BY <1>9 DEF Replies, Alone, Keeps, Tasks, NoTask
  <2>2. task[c] # Free /\ task[c].order = o /\ c # t
    BY <1>1, <2>1 DEF Linked
  <2>3. ASSUME NEW u \in Tasks, u # t, task[u] # Free, task[u].order = o,
               o \notin retried', task[u].child = NoTask
        PROVE  task[u].pc = "returned" /\ task[u].response = s.response
    <3>1. CASE u = c
      BY <2>1, <3>1
    <3>2. CASE u # c
      BY <1>1, <2>1, <2>2, <2>3, <3>2 DEF OneChain, Chained, Precedes
    <3> QED
      BY <3>1, <3>2
  <2> QED
    BY <1>4, <2>1, <2>3 DEF Chained, Precedes
<1>10. ASSUME NEW c \in Tasks, Forwards(t, c)
       PROVE  OneChain'
  <2>1. /\ c # t /\ task[c] = Free /\ r.pc = "forwarding"
        /\ \A u \in Tasks \ {t, c} : task'[u] = task[u]
        /\ s # Free /\ s.order = o /\ s.first = r.first
        /\ s.pc = "awaiting" /\ s.child = c /\ c # NoTask
        /\ s.payload = r.payload
        /\ retried' = retried
    BY <1>10 DEF Forwards, Keeps, Tasks, NoTask
  <2>2. r.payload \in Payload
    BY TaskMoves DEF TaskRecord
  <2>3. /\ task'[c].order = o /\ task'[c].child = NoTask /\ task'[c].pc = "loop"
        /\ task'[c].first = r.payload.index
        /\ task'[c].payload.index = r.payload.index
    BY <1>10, <2>2 DEF Forwards, NewTask, Forwarded, Payload
  <2>4. Chained(s, task'[c])
    BY <1>1, <1>2, <2>1, <2>3 DEF Chained, Precedes
  <2>5. ASSUME NEW u \in Tasks, u # t, u # c, task[u] # Free, task[u].order = o,
               o \notin retried
        PROVE  Chained(s, task[u]) /\ Chained(task[u], task'[c])
    <3>1. Chained(r, task[u])
      BY <1>1, <2>5 DEF OneChain
    <3>2. /\ task[u].child # NoTask /\ task[u].pc # "returned"
          /\ task[u].payload.index <= r.first
          /\ task[u].payload.index <= r.payload.index
      BY <1>1, <1>2, <1>5, <2>1, <2>5, <3>1
    <3> QED
      BY <2>1, <2>3, <3>2 DEF Chained, Precedes
  <2>6. ASSUME NEW u \in Tasks, u # t, task'[u] # Free, task'[u].order = o,
               o \notin retried'
        PROVE  Chained(s, task'[u])
    BY <2>1, <2>4, <2>5, <2>6
  <2>7. ASSUME NEW u \in Tasks, u # c, task'[u] # Free, task'[u].order = o,
               o \notin retried'
        PROVE  Chained(task'[u], task'[c])
    BY <2>1, <2>4, <2>5, <2>7
  <2>. HIDE DEF s
  <2> QED
    BY <1>3, <2>1, <2>3, <2>6, <2>7, ChainedBoth DEF OneChain, s
<1> QED
  BY <1>1, <1>6, <1>7, <1>8, <1>9, <1>10 DEF Moves

\* So does every other step.
LEMMA NextChained ==
  TypeOK /\ Family /\ Routing /\ OneChain /\ [Next]_vars => OneChain'
<1> SUFFICES ASSUME TypeOK, Family, Routing, OneChain, [Next]_vars,
                    ~\E t \in Tasks : TaskStep(t)
             PROVE  OneChain'
  BY TaskStepChained
<1>1. retried' = retried
  BY DEF Next, Submit, OrderStep, DeclineOrder, WriteReceipt, ReceiptFails,
       Register, FetchRecipe, FetchFails, ParseFails, StartDrive, DriveDelivers,
       DriveFails, ReceiveResult, ReceiveTimesOut, AnswerTimeout, HandleDeliver,
       SignalHandler, IgnoreDeliver, LoseDeliver, Environment, Restart, Learn,
       Forget, Crash, Idle, vars, taskVars
<1>2. CASE UNCHANGED task
  BY <1>1, <1>2 DEF OneChain
<1>3. CASE Kills
  <2>1. ASSUME NEW u \in Tasks, task'[u] # Free
        PROVE  /\ task[u] # Free /\ task'[u].order = task[u].order
               /\ task'[u].child = task[u].child /\ task'[u].payload = task[u].payload
               /\ task'[u].first = task[u].first
               /\ task'[u].response = task[u].response
               /\ task'[u].pc = "returned" <=> task[u].pc = "returned"
    <3>1. CASE task'[u] = task[u]
      BY <2>1, <3>1
    <3>2. CASE task'[u] # task[u]
      BY <1>3, <3>2 DEF Kills, Keeps, Live, LiveTask, Free
    <3> QED
      BY <3>1, <3>2
  <2>2. ASSUME NEW t \in Tasks, NEW u \in Tasks, t # u,
               task'[t] # Free, task'[u] # Free,
               task'[t].order = task'[u].order, task'[t].order \notin retried'
        PROVE  Chained(task'[t], task'[u])
    <3>1. Chained(task[t], task[u])
      BY <1>1, <2>1, <2>2 DEF OneChain
    <3> QED
      BY <2>1, <2>2, <3>1 DEF Chained, Precedes
  <2> QED
    BY <2>2 DEF OneChain
<1>4. ASSUME NEW o \in Orders, NEW c \in Tasks, StartDrive(o), Begins(o, c)
      PROVE  OneChain'
  <2>1. handler[o] \notin Driven
    BY <1>4 DEF StartDrive, Driven
  <2>2. \A u \in Tasks : task[u] # Free => task[u].order # o
    BY <2>1 DEF Family, Linked
  <2>3. /\ \A u \in Tasks \ {c} : task'[u] = task[u]
        /\ task'[c].order = o
    BY <1>4 DEF Begins, NewTask
  <2> QED
    BY <1>1, <2>2, <2>3 DEF OneChain
<1> QED
  BY <1>2, <1>3, <1>4, TableSteps

\* Without a retry, the tasks of an order are one chain.
LEMMA ChainsHold == Spec => []OneChain
<1>1. Init => OneChain
  BY DEF Init, OneChain
<1> QED
  BY <1>1, NextChained, FamilyHolds, RoutingHolds, TypeCorrect, PTL DEF Spec

\* An action is executed twice for one order only after a forward whose reply did
\* not come was tried again elsewhere: no other schedule of handlers, forwards and
\* crashes makes two nodes do the same work.
THEOREM ExecutedOnce == Spec => []ExecutedOnceUnlessRetried
<1>1. TypeOK /\ OneChain => ExecutedOnceUnlessRetried
  <2> SUFFICES ASSUME TypeOK, OneChain, NEW t \in Tasks, NEW u \in Tasks,
                      Used(t), Used(u), t # u, Overlap(t, u),
                      task[t].order \notin retried
               PROVE  FALSE
    BY DEF ExecutedOnceUnlessRetried
  <2>1. /\ task[t].payload.index \in Nat /\ task[t].first \in Nat
        /\ task[u].payload.index \in Nat /\ task[u].first \in Nat
    BY UsedTaskRecord DEF TaskRecord, Payload
  <2> QED
    BY <2>1 DEF OneChain, Chained, Overlap, Used
<1> QED
  BY <1>1, ChainsHold, TypeCorrect, PTL

\* If no forward of the order was retried, the error with which handle_order drops
\* the entry of pending_orders does mean that no result will come.
THEOREM ErrorsMeanUndelivered == Spec => []ErrorMeansUndeliveredUnlessRetried
<1>1. Family /\ OneChain => ErrorMeansUndeliveredUnlessRetried
  <2> SUFFICES ASSUME Family, OneChain, NEW o \in Orders \ retried,
                      DriveErred(o), SuccessDelivered(o)
               PROVE  FALSE
    BY DEF ErrorMeansUndeliveredUnlessRetried
  <2>1. PICK t \in Tasks : /\ task[t] # Free /\ task[t].order = o
                           /\ task[t].pc = "returned" /\ task[t].response = "Error"
    BY DEF DriveErred, IsRoot, Used
  <2>2. PICK u \in Tasks : /\ task[u] # Free /\ task[u].order = o
                           /\ task[u].deliver = "success"
    BY DEF SuccessDelivered, Used
  <2>3. task[u].child = NoTask /\ task[u].response = "Placeholder"
    BY <2>2 DEF Family, Linked
  <2>4. t # u
    BY <2>1, <2>3
  <2> QED
    BY <2>1, <2>2, <2>3, <2>4 DEF OneChain, Chained, Precedes
<1> QED
  BY <1>1, ChainsHold, FamilyHolds, PTL

-----------------------------------------------------------------------------
(* The trail of a payload, entry by entry.                                 *)

\* The actions among the first entries of a trail are finitely many, and more the
\* further one looks.
LEMMA ActionsCounted ==
  ASSUME NEW u \in Seq(Entry), NEW k \in 0 .. Len(u)
  PROVE  /\ ActionsIn(u, k) \in Nat
         /\ ActionsIn(u, k) <= ActionsIn(u, Len(u))
         /\ (k # 0 /\ u[k].kind = "Action") => ActionsIn(u, k) >= 1
<1>. DEFINE S == {j \in 1 .. k : u[j].kind = "Action"}
            T == {j \in 1 .. Len(u) : u[j].kind = "Action"}
<1>1. Len(u) \in Nat /\ k \in Nat /\ 0 \in Int
  OBVIOUS
<1>2. IsFiniteSet(1 .. Len(u))
  BY <1>1, FS_Interval
<1>3. IsFiniteSet(T)
  BY <1>2, FS_Subset
<1>4. S \subseteq T
  BY <1>1
<1>5. IsFiniteSet(S) /\ Cardinality(S) <= Cardinality(T)
  BY <1>3, <1>4, FS_Subset
<1>6. Cardinality(S) \in Nat
  BY <1>5, FS_CardinalityType
<1>7. ASSUME k # 0, u[k].kind = "Action"
      PROVE  Cardinality(S) >= 1
  <2>1. S # {}
    BY <1>1, <1>7
  <2>2. Cardinality(S) # 0
    BY <1>5, <2>1, FS_EmptySet
  <2> QED
    BY <1>6, <2>2
<1> QED
  BY <1>5, <1>6, <1>7 DEF ActionsIn

\* One more entry leaves the counts before it alone, and adds one to the last if
\* it is an action.
LEMMA ActionsAppended ==
  ASSUME NEW u \in Seq(Entry), NEW e \in Entry
  PROVE  /\ \A k \in 0 .. Len(u) : ActionsIn(Append(u, e), k) = ActionsIn(u, k)
         /\ ActionsIn(Append(u, e), Len(u) + 1) =
              ActionsIn(u, Len(u)) + (IF e.kind = "Action" THEN 1 ELSE 0)
<1>. DEFINE v == Append(u, e)
<1>1. /\ Len(u) \in Nat /\ Len(v) = Len(u) + 1
      /\ \A i \in 1 .. Len(u) : v[i] = u[i]
      /\ v[Len(u) + 1] = e
  BY AppendProperties, LenProperties
<1>. HIDE DEF v
<1>2. ASSUME NEW k \in 0 .. Len(u)
      PROVE  ActionsIn(v, k) = ActionsIn(u, k)
  <2>1. {j \in 1 .. k : v[j].kind = "Action"} = {j \in 1 .. k : u[j].kind = "Action"}
    <3>1. \A j \in 1 .. k : j \in 1 .. Len(u)
      BY <1>1
    <3> QED
      BY <1>1, <3>1
  <2> QED
    BY <2>1 DEF ActionsIn
<1>3. ActionsIn(v, Len(u) + 1) = ActionsIn(u, Len(u)) + (IF e.kind = "Action" THEN 1 ELSE 0)
  <2>. DEFINE S == {j \in 1 .. Len(u) : u[j].kind = "Action"}
              T == {j \in 1 .. Len(u) + 1 : v[j].kind = "Action"}
  <2>1. IsFiniteSet(S)
    <3>1. IsFiniteSet(1 .. Len(u))
      BY <1>1, FS_Interval
    <3> QED
      BY <3>1, FS_Subset
  <2>2. Len(u) + 1 \notin S /\ 1 .. Len(u) + 1 = (1 .. Len(u)) \union {Len(u) + 1}
    BY <1>1
  <2>3. T = IF e.kind = "Action" THEN S \union {Len(u) + 1} ELSE S
    BY <1>1, <2>2
  <2>4. Cardinality(S \union {Len(u) + 1}) = Cardinality(S) + 1
    BY <2>1, <2>2, FS_AddElement
  <2>5. Cardinality(S) \in Nat
    BY <2>1, FS_CardinalityType
  <2>6. ActionsIn(v, Len(u) + 1) = Cardinality(T) /\ ActionsIn(u, Len(u)) = Cardinality(S)
    BY DEF ActionsIn
  <2>. HIDE DEF S, T
  <2> QED
    BY <2>3, <2>4, <2>5, <2>6
<1> QED
  BY <1>2, <1>3 DEF v

\* Recording an action keeps trail and content together.
LEMMA ActionRecorded ==
  ASSUME NEW u \in Seq(Entry), NEW content \in Seq(ActionNames), Records(u, content),
         NEW a \in ActionNames
  PROVE  Records(Append(u, Did(a)), Append(content, a))
<1>. DEFINE v == Append(u, Did(a))
            c == Append(content, a)
<1>1. Did(a) \in Entry /\ Did(a).kind = "Action" /\ Did(a).what = a
  BY DEF Did, Entry
<1>2. /\ Len(u) \in Nat /\ Len(v) = Len(u) + 1
      /\ \A i \in 1 .. Len(u) : v[i] = u[i]
      /\ v[Len(u) + 1] = Did(a)
  BY <1>1, AppendProperties, LenProperties
<1>3. /\ Len(content) \in Nat /\ Len(c) = Len(content) + 1
      /\ \A i \in 1 .. Len(content) : c[i] = content[i]
      /\ c[Len(content) + 1] = a
  BY AppendProperties, LenProperties
<1>4. /\ \A k \in 0 .. Len(u) : ActionsIn(v, k) = ActionsIn(u, k)
      /\ ActionsIn(v, Len(u) + 1) = ActionsIn(u, Len(u)) + 1
  BY <1>1, ActionsAppended
<1>5. Len(content) = ActionsIn(u, Len(u))
  BY DEF Records
<1>. HIDE DEF v, c
<1>6. ASSUME NEW k \in 1 .. Len(v), v[k].kind = "Action"
      PROVE  v[k].what = c[ActionsIn(v, k)]
  <2>1. CASE k = Len(u) + 1
    BY <1>1, <1>2, <1>3, <1>4, <1>5, <2>1
  <2>2. CASE k \in 1 .. Len(u)
    <3>1. u[k].kind = "Action" /\ u[k].what = content[ActionsIn(u, k)]
      BY <1>2, <1>6, <2>2 DEF Records
    <3>2. ActionsIn(u, k) \in 1 .. Len(content)
      BY <1>2, <1>5, <2>2, <3>1, ActionsCounted
    <3> QED
      BY <1>2, <1>3, <1>4, <2>2, <3>1, <3>2
  <2> QED
    BY <1>2, <2>1, <2>2
<1>7. Len(c) = ActionsIn(v, Len(v))
  BY <1>2, <1>3, <1>4, <1>5
<1> QED
  BY <1>6, <1>7 DEF Records, v, c

\* Recording anything else does too.
LEMMA OtherRecorded ==
  ASSUME NEW u \in Seq(Entry), NEW content, Records(u, content),
         NEW e \in Entry, e.kind # "Action"
  PROVE  Records(Append(u, e), content)
<1>. DEFINE v == Append(u, e)
<1>1. /\ Len(u) \in Nat /\ Len(v) = Len(u) + 1
      /\ \A i \in 1 .. Len(u) : v[i] = u[i]
      /\ v[Len(u) + 1] = e
  BY AppendProperties, LenProperties
<1>2. /\ \A k \in 0 .. Len(u) : ActionsIn(v, k) = ActionsIn(u, k)
      /\ ActionsIn(v, Len(u) + 1) = ActionsIn(u, Len(u))
  <2>1. ActionsIn(u, Len(u)) \in Nat
    BY <1>1, ActionsCounted
  <2> QED
    BY <2>1, ActionsAppended
<1>. HIDE DEF v
<1>3. ASSUME NEW k \in 1 .. Len(v), v[k].kind = "Action"
      PROVE  v[k].what = content[ActionsIn(v, k)]
  <2>1. k \in 1 .. Len(u)
    BY <1>1, <1>3
  <2> QED
    BY <1>1, <1>2, <1>3, <2>1 DEF Records
<1>4. Len(content) = ActionsIn(v, Len(v))
  BY <1>1, <1>2 DEF Records
<1> QED
  BY <1>3, <1>4 DEF Records, v

\* A hop of a trail is followed by another one only where the trail is one of M.
Spaced(u, M) == \A k \in 1 .. Len(u) - 1 :
                  u[k].kind = "Forward" /\ u[k + 1].kind = "Forward" =>
                    [to |-> u[k].what, trail |-> SubSeq(u, 1, k)] \in M

\* The payload has just hopped.
JustHopped(u) == Len(u) # 0 /\ u[Len(u)].kind = "Forward"

\* The record r of a task: a payload that has just hopped is at the task that
\* received it, which has not done anything with it yet.
ExactTask(r) ==
    /\ Records(r.payload.updates, r.payload.content)
    /\ Spaced(r.payload.updates, Misled(r.order))
    /\ (r.pc \in LiveTask /\ JustHopped(r.payload.updates)) =>
         /\ r.parent # NoTask /\ r.payload.index = r.first
         /\ r.payload.updates[Len(r.payload.updates)].what = r.node

\* Every hop of u is followed by something else, or its sender was misled.
Led(u, M) == \A k \in 1 .. Len(u) : u[k].kind = "Forward" =>
               /\ k < Len(u)
               /\ u[k + 1].kind = "Forward" =>
                    [to |-> u[k].what, trail |-> SubSeq(u, 1, k)] \in M

\* What AnswerTrailIsExact asks of an answer to order o.
ExactMessage(o, m) ==
    /\ Records(m.payload.updates, m.payload.content)
    /\ Led(m.payload.updates, Misled(o))

ExactTrails ==
    /\ \A t \in Tasks : task[t] # Free => ExactTask(task[t])
    /\ \A o \in Orders : /\ \A i \in 1 .. Len(channel[o]) : ExactMessage(o, channel[o][i])
                         /\ ExactMessage(o, answer[o])

\* The same after a step, with those misled before it.
TasksExact == \A t \in Tasks : task'[t] # Free => ExactTask(task'[t])
OrdersExact ==
    \A o \in Orders : /\ \A i \in 1 .. Len(channel'[o]) : ExactMessage(o, channel'[o][i])
                      /\ ExactMessage(o, answer'[o])

\* A trail without entries records the empty content.
LEMMA EmptyRecords ==
  ASSUME NEW M
  PROVE  /\ Records(<<>>, <<>>) /\ ~JustHopped(<<>>)
         /\ Spaced(<<>>, M) /\ Led(<<>>, M)
<1>1. ActionsIn(<<>>, 0) = 0
  <2>1. {j \in 1 .. 0 : <<>>[j].kind = "Action"} = {}
    OBVIOUS
  <2> QED
    BY <2>1, FS_EmptySet DEF ActionsIn
<1> QED
  BY <1>1 DEF Records, Spaced, JustHopped, Led

\* So does a frame without a pizza.
LEMMA FrameExact ==
  ASSUME NEW kind, NEW o
  PROVE  ExactMessage(o, Frame(kind)) /\ ExactMessage(o, None)
BY EmptyRecords DEF ExactMessage, Frame, None, EmptyPayload

\* The beginning of a trail is not changed by what is appended.
LEMMA SameBeginning ==
  ASSUME NEW u \in Seq(Entry), NEW e \in Entry, NEW k \in 1 .. Len(u)
  PROVE  SubSeq(Append(u, e), 1, k) = SubSeq(u, 1, k)
<1>. DEFINE v == Append(u, e)
<1>1. /\ Len(u) \in Nat /\ v \in Seq(Entry)
      /\ \A i \in 1 .. Len(u) : v[i] = u[i]
  BY AppendProperties, LenProperties
<1>2. \A i \in 1 .. k : u[i] \in Entry /\ v[i] \in Entry
  BY <1>1, ElementOfSeq
<1>. HIDE DEF v
<1>3. /\ SubSeq(u, 1, k) \in Seq(Entry) /\ SubSeq(v, 1, k) \in Seq(Entry)
      /\ Len(SubSeq(u, 1, k)) = k /\ Len(SubSeq(v, 1, k)) = k
      /\ \A i \in 1 .. k : SubSeq(u, 1, k)[i] = u[i] /\ SubSeq(v, 1, k)[i] = v[i]
  BY <1>1, <1>2, SubSeqProperties
<1>4. SubSeq(v, 1, k) = SubSeq(u, 1, k)
  BY <1>1, <1>3, SeqEqual
<1> QED
  BY <1>4 DEF v

\* A new entry keeps hops apart, unless it is the second of two and the sender of
\* the first was not misled.
LEMMA SpacedAppended ==
  ASSUME NEW u \in Seq(Entry), NEW e \in Entry, NEW M, Spaced(u, M),
         (JustHopped(u) /\ e.kind = "Forward") =>
           [to |-> u[Len(u)].what, trail |-> u] \in M
  PROVE  /\ Spaced(Append(u, e), M)
         /\ JustHopped(Append(u, e)) <=> e.kind = "Forward"
         /\ Append(u, e)[Len(Append(u, e))] = e
<1>. DEFINE v == Append(u, e)
<1>1. /\ Len(u) \in Nat /\ Len(v) = Len(u) + 1
      /\ \A i \in 1 .. Len(u) : v[i] = u[i]
      /\ v[Len(u) + 1] = e
  BY AppendProperties, LenProperties
<1>2. \A k \in 1 .. Len(u) : SubSeq(v, 1, k) = SubSeq(u, 1, k)
  BY SameBeginning
<1>3. SubSeq(u, 1, Len(u)) = u
  BY SubSeqFull
<1>. HIDE DEF v
<1>4. ASSUME NEW k \in 1 .. Len(v) - 1, v[k].kind = "Forward", v[k + 1].kind = "Forward"
      PROVE  [to |-> v[k].what, trail |-> SubSeq(v, 1, k)] \in M
  <2>1. /\ k \in 1 .. Len(u) /\ u[k].kind = "Forward" /\ v[k] = u[k]
        /\ SubSeq(v, 1, k) = SubSeq(u, 1, k)
    BY <1>1, <1>2, <1>4
  <2>2. CASE k = Len(u)
    <3>1. JustHopped(u) /\ e.kind = "Forward"
      BY <1>1, <1>4, <2>1, <2>2 DEF JustHopped
    <3>2. [to |-> u[Len(u)].what, trail |-> u] \in M
      BY <3>1
    <3> QED
      BY <1>3, <2>1, <2>2, <3>2
  <2>3. CASE k # Len(u)
    <3>1. k \in 1 .. Len(u) - 1 /\ u[k + 1].kind = "Forward"
      BY <1>1, <1>4, <2>1, <2>3
    <3> QED
      BY <2>1, <3>1 DEF Spaced
  <2> QED
    BY <2>2, <2>3
<1>5. JustHopped(v) <=> e.kind = "Forward"
  BY <1>1 DEF JustHopped
<1> QED
  BY <1>1, <1>4, <1>5 DEF Spaced, v

\* Nothing but the record of the delivery follows the last hop.
LEMMA ClosedExact ==
  ASSUME NEW u \in Seq(Entry), NEW content, NEW M, Records(u, content), Spaced(u, M)
  PROVE  Records(Append(u, Closed), content) /\ Led(Append(u, Closed), M)
<1>. DEFINE v == Append(u, Closed)
<1>1. Closed \in Entry /\ Closed.kind = "Deliver"
  BY DEF Closed, Entry
<1>2. /\ Len(u) \in Nat /\ Len(v) = Len(u) + 1
      /\ \A i \in 1 .. Len(u) : v[i] = u[i]
      /\ v[Len(u) + 1] = Closed
  BY <1>1, AppendProperties, LenProperties
<1>3. Records(v, content) /\ Spaced(v, M)
  BY <1>1, OtherRecorded, SpacedAppended
<1>. HIDE DEF v
<1>4. ASSUME NEW k \in 1 .. Len(v), v[k].kind = "Forward"
      PROVE  k < Len(v)
  BY <1>1, <1>2, <1>4
<1>5. Led(v, M)
  BY <1>2, <1>3, <1>4 DEF Spaced, Led
<1> QED
  BY <1>3, <1>5 DEF v

\* More of the misled leave a trail as good as it was.
LEMMA ExactGrows ==
  ASSUME NEW u, NEW M, NEW N, M \subseteq N
  PROVE  /\ Spaced(u, M) => Spaced(u, N)
         /\ Led(u, M) => Led(u, N)
BY DEF Spaced, Led

\* A forwarded task that has looked at its payload and left it as it was, chosen by
\* an entry of another start of its node.
Misleads(r) == /\ r.parent # NoTask
               /\ r.payload.index = r.first
               /\ r.pc # "loop"
               /\ r.entry # r.start

\* A task that passed its payload on as it was does nothing to it any more.
LEMMA MisleadsKept ==
  ASSUME TypeOK, [Next]_vars, NEW u \in Tasks, task[u] # Free, Misleads(task[u])
  PROVE  /\ task'[u] # Free /\ Misleads(task'[u])
         /\ task'[u].order = task[u].order /\ task'[u].node = task[u].node
         /\ task'[u].payload.updates = task[u].payload.updates
<1>1. CASE task'[u] = task[u]
  BY <1>1
<1>2. ASSUME NEW t \in Tasks, TaskStep(t), u = t
      PROVE  /\ task'[u] # Free /\ Misleads(task'[u])
             /\ task'[u].order = task[u].order /\ task'[u].node = task[u].node
             /\ task'[u].payload = task[u].payload
  <2>1. Moves(u)
    BY <1>2, TaskMoves
  <2> QED
    BY <2>1 DEF Moves, Works, GivesUp, Delivers, Fails, Forwards, Replies, Alone,
         Keeps, Misleads
<1>3. ASSUME NEW t \in Tasks, TaskStep(t), u # t
      PROVE  task'[u] = task[u]
  BY <1>3, OthersKept DEF Used
<1>4. CASE Kills
  BY <1>1, <1>4 DEF Kills, Keeps, Misleads
<1>5. CASE \E o \in Orders, c \in Tasks : Begins(o, c)
  BY <1>1, <1>5 DEF Begins
<1> QED
  BY <1>1, <1>2, <1>3, <1>4, <1>5, TableSteps

\* Hence nothing that misled is forgotten.
LEMMA MisledGrows ==
  ASSUME TypeOK, [Next]_vars, NEW o
  PROVE  Misled(o) \subseteq Misled(o)'
<1>. SUFFICES ASSUME NEW u \in Tasks, IsForwarded(u), task[u].order = o,
                     task[u].payload.index = task[u].first,
                     task[u].pc # "loop", task[u].entry # task[u].start
              PROVE  [to |-> task[u].node, trail |-> task[u].payload.updates]
                       \in Misled(o)'
  BY DEF Misled
<1>1. task[u] # Free /\ Misleads(task[u])
  BY DEF IsForwarded, Used, Misleads
<1>2. /\ IsForwarded(u)' /\ task'[u].order = o
      /\ task'[u].payload.index = task'[u].first
      /\ task'[u].pc # "loop" /\ task'[u].entry # task'[u].start
      /\ task'[u].node = task[u].node
      /\ task'[u].payload.updates = task[u].payload.updates
  BY <1>1, MisleadsKept DEF IsForwarded, Used, Misleads
<1> QED
  BY <1>2 DEF Misled

\* A step that keeps the payload of a task keeps what ExactTask says of it.
LEMMA SamePayloadExact ==
  ASSUME NEW r, NEW s, Keeps(r, s), s.payload = r.payload, ExactTask(r),
         s.pc \in LiveTask => r.pc \in LiveTask
  PROVE  ExactTask(s)
BY DEF Keeps, ExactTask

\* A step of a task keeps the trails exact: only a task that did something since
\* it got its payload, or that was chosen by an entry of another start of its node,
\* hands it on.
LEMMA TaskStepExact ==
  ASSUME TypeOK, Routing, ExactTrails, NEW t \in Tasks, TaskStep(t)
  PROVE  TasksExact /\ OrdersExact
<1>. DEFINE r == task[t]
            s == task'[t]
            u == task[t].payload.updates
            M == Misled(task[t].order)
<1>1. /\ r \in TaskRecord /\ r # Free /\ Live(t) /\ Moves(t) /\ UNCHANGED orderVars
      /\ ExactTask(r) /\ OwnRoute(r)
  BY TaskMoves DEF Live, LiveTask, Free, ExactTrails, Routing, Used
<1>2. /\ r.payload \in Payload /\ u \in Seq(Entry)
      /\ r.payload.content \in Seq(ActionNames) /\ r.payload.index \in Nat
      /\ Len(Recipe[r.order]) \in Nat /\ r.order \in Orders
  BY <1>1 DEF TaskRecord, Payload
<1>3. ASSUME ExactTask(s),
             \A v \in Tasks : (task[v] = Free /\ task'[v] # Free) => ExactTask(task'[v])
      PROVE  TasksExact /\ OrdersExact
  <2>1. \A v \in Tasks : task'[v] # Free => ExactTask(task'[v])
    BY <1>3, OthersKept DEF ExactTrails, Used
  <2> QED
    BY <1>1, <2>1 DEF ExactTrails, TasksExact, OrdersExact, orderVars
<1>4. ASSUME Alone(t), ExactTask(s)
      PROVE  TasksExact /\ OrdersExact
  BY <1>1, <1>3, <1>4 DEF Alone
<1>5. ASSUME Alone(t), s.payload = r.payload
      PROVE  TasksExact /\ OrdersExact
  BY <1>1, <1>4, <1>5, SamePayloadExact DEF Alone, Live
<1>6. CASE Execute(t)
  <2>1. NextAction(t) \in ActionNames /\ r.pc = "loop"
    BY <1>1, <1>6, NextActionType DEF Execute
  <2>. DEFINE p == Executed(r.payload, NextAction(t))
              v == Append(u, Did(NextAction(t)))
  <2>2. p.updates = v /\ p.content = Append(r.payload.content, NextAction(t))
    BY DEF Executed
  <2>3. Did(NextAction(t)) \in Entry /\ Did(NextAction(t)).kind = "Action"
    BY <2>1 DEF Did, Entry
  <2>4. Records(v, p.content)
    BY <1>1, <1>2, <2>1, <2>2, ActionRecorded DEF ExactTask
  <2>5. Spaced(v, M) /\ ~JustHopped(v)
    BY <1>1, <1>2, <2>3, SpacedAppended DEF ExactTask
  <2>. HIDE DEF p, v
  <2>6. task' = [task EXCEPT ![t].payload = p]
    BY <1>6 DEF Execute, p
  <2>7. Alone(t) /\ s.payload = p /\ s.order = r.order
    BY <1>1, <2>6 DEF Alone, Keeps, TypeOK, TaskRecord, Free
  <2> QED
    BY <1>4, <2>2, <2>4, <2>5, <2>7 DEF ExactTask
<1>7. CASE DeliverSuccess(t)
  <2>. DEFINE p == Forwarded(r.payload, Host(t))
              v == Append(u, Hop(Host(t)))
  <2>1. p.updates = v /\ p.content = r.payload.content
    BY <1>2 DEF Forwarded, Payload
  <2>2. /\ Hop(Host(t)) \in Entry
        /\ Hop(Host(t)).kind = "Forward"
    BY <1>2 DEF Hop, Entry, Host
  <2>3. ~JustHopped(u)
    BY <1>1, <1>2, <1>7 DEF DeliverSuccess, AllDone, Todo, ExactTask, OwnRoute,
       Unfinished, LiveTask
  <2>4. Records(v, p.content)
    BY <1>1, <1>2, <2>1, <2>2, OtherRecorded DEF ExactTask
  <2>5. Spaced(v, M)
    BY <1>1, <1>2, <2>2, <2>3, SpacedAppended DEF ExactTask
  <2>. HIDE DEF p, v
  <2>6. task' = [task EXCEPT ![t].pc = "returned", ![t].payload = p,
                             ![t].response = "Placeholder", ![t].deliver = "success"]
    BY <1>7 DEF DeliverSuccess, SendDeliver, p
  <2>7. Alone(t) /\ s.payload = p /\ s.pc = "returned" /\ s.order = r.order
    BY <1>1, <2>6, DeliveredTask, LiveTaskRecord DEF Alone, Keeps
  <2> QED
    BY <1>4, <2>1, <2>4, <2>5, <2>7 DEF ExactTask, LiveTask
<1>8. ASSUME NEW c \in Tasks, Forwards(t, c)
      PROVE  TasksExact /\ OrdersExact
  <2>1. PICK p \in Candidate :
          task'[c] = NewTask(r.order, p.node, p.entry, Forwarded(r.payload, p.node), t)
    BY <1>8 DEF Forwards
  <2>. DEFINE v == Append(u, Hop(p.node))
              q == Forwarded(r.payload, p.node)
  <2>2. /\ task'[c].payload.updates = v
        /\ task'[c].payload.content = r.payload.content
        /\ task'[c].payload.index = r.payload.index
        /\ task'[c].first = r.payload.index
        /\ task'[c].order = r.order /\ task'[c].node = p.node
        /\ task'[c].parent = t /\ t # NoTask
    <3>1. q.updates = v /\ q.content = r.payload.content /\ q.index = r.payload.index
      BY <1>2 DEF Forwarded, Payload
    <3>2. t # NoTask
      BY DEF Tasks, NoTask
    <3>. HIDE DEF q, v
    <3>3. task'[c] = NewTask(r.order, p.node, p.entry, q, t)
      BY <2>1 DEF q
    <3> QED
      BY <3>1, <3>2, <3>3 DEF NewTask
  <2>3. Hop(p.node) \in Entry /\ Hop(p.node).kind = "Forward" /\ Hop(p.node).what = p.node
    BY DEF Hop, Entry, Candidate
  <2>4. JustHopped(u) => [to |-> u[Len(u)].what, trail |-> u] \in M
    <3>. SUFFICES ASSUME JustHopped(u)
                  PROVE  [to |-> u[Len(u)].what, trail |-> u] \in M
      OBVIOUS
    <3>1. r.pc = "forwarding"
      BY <1>8 DEF Forwards
    <3>2. /\ r.parent # NoTask /\ r.payload.index = r.first
          /\ u[Len(u)].what = r.node
      BY <1>1, <3>1 DEF ExactTask, LiveTask
    <3>3. r.entry # r.start
      BY <1>1, <3>1, <3>2 DEF OwnRoute
    <3>4. IsForwarded(t) /\ r.pc # "loop"
      BY <1>1, <3>1, <3>2 DEF IsForwarded, Used
    <3> QED
      BY <3>2, <3>3, <3>4 DEF Misled
  <2>5. Records(v, r.payload.content)
    BY <1>1, <1>2, <2>3, OtherRecorded DEF ExactTask
  <2>6. Spaced(v, M) /\ v[Len(v)] = Hop(p.node)
    BY <1>1, <1>2, <2>3, <2>4, SpacedAppended DEF ExactTask
  <2>. HIDE DEF v
  <2>7. ExactTask(task'[c])
    BY <2>2, <2>3, <2>5, <2>6 DEF ExactTask
  <2>8. ExactTask(s)
    <3>1. Keeps(r, s) /\ s.payload = r.payload /\ r.pc \in LiveTask
      BY <1>8 DEF Forwards, LiveTask
    <3> QED
      BY <1>1, <3>1, SamePayloadExact
  <2>9. \A w \in Tasks : (task[w] = Free /\ task'[w] # Free) => w = c
    BY <1>1, <1>8 DEF Forwards
  <2> QED
    BY <1>3, <2>7, <2>8, <2>9
<1>9. CASE \/ ReadCandidates(t) \/ DeliverFailure(t)
           \/ \E p \in Candidate : ForwardRefused(t, p)
  <2>1. Alone(t) /\ s.payload = r.payload
    <3> USE <1>1 DEF Alone, Keeps, TypeOK, TaskRecord, Free
    <3>1. CASE ReadCandidates(t)
      BY <3>1 DEF ReadCandidates
    <3>2. CASE DeliverFailure(t)
      BY <3>2 DEF DeliverFailure, SendDeliver
    <3>3. CASE \E p \in Candidate : ForwardRefused(t, p)
      BY <3>3 DEF ForwardRefused
    <3> QED
      BY <1>9, <3>1, <3>2, <3>3
  <2> QED
    BY <1>5, <2>1
<1>10. CASE \/ ForwardReply(t) \/ ForwardGivenUp(t)
            \/ DeliverSuccessFails(t) \/ DeliverFailureFails(t)
  <2>1. ~Works(t) /\ ~Delivers(t) /\ ~\E c \in Tasks : Forwards(t, c)
    <3>1. CASE ForwardReply(t)
      BY <3>1 DEF ForwardReply, Works, Delivers, Forwards
    <3>2. CASE ForwardGivenUp(t)
      BY <3>2 DEF ForwardGivenUp, Works, Delivers, Forwards
    <3>3. CASE SendDeliverFails(t)
      <4>1. s.pc = "returned" /\ s.response = "Error"
        BY <1>1, <3>3 DEF SendDeliverFails, TypeOK, TaskRecord
      <4> QED
        BY <4>1 DEF Works, Delivers, Forwards
    <3> QED
      BY <1>10, <3>1, <3>2, <3>3 DEF DeliverSuccessFails, DeliverFailureFails
  <2>2. GivesUp(t) \/ Fails(t) \/ \E c \in Tasks : Replies(t, c)
    BY <1>1, <2>1 DEF Moves
  <2> QED
    BY <1>5, <2>2 DEF GivesUp, Fails, Replies
<1>11. ASSUME NEW p \in Candidate, ForwardTo(t, p)
       PROVE  \E c \in Tasks : Forwards(t, c)
  <2>1. PICK c \in Tasks :
          task' = [task EXCEPT
            ![c] = NewTask(task[t].order, p.node, p.entry,
                           Forwarded(task[t].payload, p.node), t),
            ![t].pc = "awaiting",
            ![t].cands = @ \ {p},
            ![t].child = c]
    BY <1>11 DEF ForwardTo
  <2>2. r.pc = "forwarding" /\ s.pc = "awaiting"
    BY <1>1, <1>11, <2>1 DEF ForwardTo, TypeOK, TaskRecord
  <2> QED
    BY <1>1, <2>2 DEF Moves, Works, GivesUp, Delivers, Fails, Replies
<1> QED
  BY <1>6, <1>7, <1>8, <1>9, <1>10, <1>11 DEF TaskStep

\* A first task starts with an empty trail.
LEMMA StartExact ==
  ASSUME ExactTrails, NEW o \in Orders, NEW c \in Tasks, Begins(o, c)
  PROVE  TasksExact
<1>. DEFINE new == NewTask(o, Origin[o], NoEntry, EmptyPayload, NoTask)
<1>1. ExactTask(new)
  <2>1. new.payload.updates = <<>> /\ new.payload.content = <<>>
    BY DEF NewTask, EmptyPayload
  <2> QED
    BY <2>1, EmptyRecords DEF ExactTask
<1>. HIDE DEF new
<1>2. task'[c] = new /\ \A t \in Tasks \ {c} : task'[t] = task[t]
  BY DEF Begins, new
<1> QED
  BY <1>1, <1>2 DEF ExactTrails, TasksExact

\* A step of a handle_order thread keeps the trails exact.
LEMMA OrderStepExact ==
  ASSUME TypeOK, ExactTrails, NEW o \in Orders, Submit(o) \/ OrderStep(o)
  PROVE  TasksExact /\ OrdersExact
<1>1. CASE StartDrive(o)
  <2>1. PICK c \in Tasks : Begins(o, c)
    BY <1>1, DriveStarts
  <2> QED
    BY <1>1, <2>1, StartExact DEF StartDrive, ExactTrails, OrdersExact
<1>2. CASE ReceiveResult(o)
  <2>. DEFINE m == Head(channel[o])
              rest == Tail(channel[o])
  <2>1. channel[o] \in Seq(Message) /\ channel[o] # <<>>
    BY <1>2 DEF ReceiveResult, TypeOK
  <2>2. /\ m = channel[o][1] /\ 1 \in 1 .. Len(channel[o])
        /\ \A i \in 1 .. Len(rest) : /\ rest[i] = channel[o][i + 1]
                                     /\ i + 1 \in 1 .. Len(channel[o])
    BY <2>1, HeadTailProperties, LenProperties, EmptySeq
  <2>. HIDE DEF m, rest
  <2>3. ExactMessage(o, m) /\ \A i \in 1 .. Len(rest) : ExactMessage(o, rest[i])
    BY <2>2 DEF ExactTrails
  <2>4. /\ channel' = [channel EXCEPT ![o] = rest] /\ answer' = [answer EXCEPT ![o] = m]
        /\ task' = task
    BY <1>2 DEF ReceiveResult, Finish, taskVars, m, rest
  <2> QED
    BY <2>3, <2>4 DEF ExactTrails, TypeOK, TasksExact, OrdersExact
<1>3. CASE \/ DeclineOrder(o) \/ ReceiptFails(o) \/ FetchFails(o) \/ ParseFails(o)
           \/ DriveFails(o) \/ AnswerTimeout(o)
  <2>1. /\ UNCHANGED <<channel, task>>
        /\ \E kind \in {"Declined", "Error", "Lost"} :
             answer' = [answer EXCEPT ![o] = Frame(kind)]
    BY <1>3 DEF DeclineOrder, ReceiptFails, FetchFails, ParseFails, DriveFails,
         AnswerTimeout, Finish, taskVars
  <2> QED
    BY <2>1, FrameExact DEF ExactTrails, TypeOK, TasksExact, OrdersExact
<1>4. CASE \/ WriteReceipt(o) \/ Register(o) \/ FetchRecipe(o)
           \/ DriveDelivers(o) \/ ReceiveTimesOut(o)
  <2>1. UNCHANGED <<channel, task, answer>>
    BY <1>4 DEF WriteReceipt, Register, FetchRecipe, DriveDelivers,
         ReceiveTimesOut, taskVars
  <2> QED
    BY <2>1 DEF ExactTrails, TasksExact, OrdersExact
<1> QED
  BY <1>1, <1>2, <1>3, <1>4 DEF Submit, OrderStep

\* A deliver that is signalled closes the trail of its task, or carries none.
LEMMA DeliverStepExact ==
  ASSUME TypeOK, ExactTrails, NEW t \in Tasks, SignalHandler(t)
  PROVE  TasksExact /\ OrdersExact
<1>. DEFINE o == task[t].order
            m == Delivered(t)
            c == channel[o]
            d == Append(c, m)
<1>1. /\ t \in inflight /\ Used(t) /\ o \in Orders
      /\ task' = task /\ answer' = answer
  BY DEF SignalHandler, TypeOK, Used, Free
<1>2. /\ m \in Message /\ task[t].payload \in Payload
      /\ ExactTask(task[t])
  BY <1>1, DeliveredMessage, UsedTaskRecord DEF ExactTrails, Used, TaskRecord
<1>3. ExactMessage(o, m)
  <2>1. CASE task[t].deliver = "success"
    <3>1. /\ m.payload.content = task[t].payload.content
          /\ m.payload.updates = Append(task[t].payload.updates, Closed)
      BY <1>2, <2>1 DEF Delivered, Payload
    <3>2. task[t].payload.updates \in Seq(Entry)
      BY <1>2 DEF Payload
    <3> QED
      BY <1>2, <3>1, <3>2, ClosedExact DEF ExactTask, ExactMessage
  <2>2. CASE task[t].deliver # "success"
    BY <2>2, FrameExact DEF Delivered
  <2> QED
    BY <2>1, <2>2
<1>4. c \in Seq(Message)
  BY <1>1 DEF TypeOK
<1>5. /\ Len(d) = Len(c) + 1 /\ Len(c) \in Nat
      /\ \A i \in 1 .. Len(c) : d[i] = c[i]
      /\ d[Len(c) + 1] = m
  BY <1>2, <1>4, AppendProperties, LenProperties
<1>6. \A i \in 1 .. Len(c) : ExactMessage(o, c[i])
  BY <1>1 DEF ExactTrails
<1>7. channel' = channel \/ channel' = [channel EXCEPT ![o] = d]
  BY DEF SignalHandler
<1>. HIDE DEF o, m, c, d
<1>8. \A i \in 1 .. Len(d) : ExactMessage(o, d[i])
  <2>1. \A i \in 1 .. Len(d) : i \in 1 .. Len(c) \/ i = Len(c) + 1
    BY <1>5
  <2> QED
    BY <1>3, <1>5, <1>6, <2>1
<1> QED
  BY <1>1, <1>7, <1>8 DEF ExactTrails, TypeOK, TasksExact, OrdersExact

\* A crash loses channels and answers, and changes no payload.
LEMMA CrashExact ==
  ASSUME ExactTrails, Kills, NEW n \in Nodes, Crash(n)
  PROVE  TasksExact /\ OrdersExact
<1>1. ASSUME NEW t \in Tasks, task'[t] # Free
      PROVE  ExactTask(task'[t])
  <2>1. CASE task'[t] = task[t]
    BY <1>1, <2>1 DEF ExactTrails
  <2>2. CASE Live(t) /\ Keeps(task[t], task'[t])
             /\ task'[t].payload = task[t].payload /\ task'[t].pc = "dead"
    <3>1. task[t] # Free
      BY <2>2 DEF Live, LiveTask, Free
    <3> QED
      BY <2>2, <3>1, SamePayloadExact DEF ExactTrails, LiveTask
  <2> QED
    BY <2>1, <2>2 DEF Kills
<1>2. ASSUME NEW o \in Orders
      PROVE  /\ \A i \in 1 .. Len(channel'[o]) : ExactMessage(o, channel'[o][i])
             /\ ExactMessage(o, answer'[o])
  <2>1. /\ channel'[o] = <<>> \/ channel'[o] = channel[o]
        /\ answer'[o] = Frame("Lost") \/ answer'[o] = answer[o]
    BY DEF Crash
  <2>2. ExactMessage(o, answer'[o])
    BY <2>1, FrameExact DEF ExactTrails
  <2>3. CASE channel'[o] = channel[o]
    BY <2>2, <2>3 DEF ExactTrails
  <2>4. CASE channel'[o] = <<>>
    BY <2>2, <2>4
  <2> QED
    BY <2>1, <2>3, <2>4
<1> QED
  BY <1>1, <1>2 DEF TasksExact, OrdersExact

\* Hence every step keeps the trails exact.
LEMMA NextExact ==
  TypeOK /\ Routing /\ ExactTrails /\ [Next]_vars => ExactTrails'
<1> SUFFICES ASSUME TypeOK, Routing, ExactTrails, [Next]_vars
             PROVE  ExactTrails'
  OBVIOUS
<1>1. ASSUME TasksExact, OrdersExact
      PROVE  ExactTrails'
  <2>1. \A o : Misled(o) \subseteq Misled(o)'
    BY MisledGrows
  <2>2. ASSUME NEW t \in Tasks, (task[t] # Free)'
        PROVE  ExactTask(task[t])'
    <3>1. ExactTask(task'[t])
      BY <1>1, <2>2 DEF TasksExact
    <3>2. Spaced(task'[t].payload.updates, Misled(task[t].order)')
      BY <2>1, <3>1, ExactGrows DEF ExactTask
    <3> QED
      BY <3>1, <3>2 DEF ExactTask
  <2>3. ASSUME NEW o \in Orders, NEW m, ExactMessage(o, m)
        PROVE  /\ Records(m.payload.updates, m.payload.content)
               /\ Led(m.payload.updates, Misled(o)')
    BY <2>1, <2>3, ExactGrows DEF ExactMessage
  <2>4. ASSUME NEW o \in Orders
        PROVE  /\ \A i \in 1 .. Len(channel'[o]) : ExactMessage(o, channel[o][i])'
               /\ ExactMessage(o, answer[o])'
    <3>1. /\ \A i \in 1 .. Len(channel'[o]) : ExactMessage(o, channel'[o][i])
          /\ ExactMessage(o, answer'[o])
      BY <1>1 DEF OrdersExact
    <3> QED
      BY <2>3, <3>1 DEF ExactMessage
  <2> QED
    BY <2>2, <2>4 DEF ExactTrails
<1>2. CASE UNCHANGED <<task, channel, answer>>
  BY <1>1, <1>2 DEF ExactTrails, TasksExact, OrdersExact
<1>3. \/ \E t \in Tasks : IgnoreDeliver(t) \/ LoseDeliver(t)
      \/ \E n \in Nodes : Restart(n)
      \/ \E n, p \in Nodes, g \in Starts : Learn(n, p, g)
      \/ \E n \in Nodes, ps \in SUBSET Nodes : Forget(n, ps)
      \/ UNCHANGED vars
      => UNCHANGED <<task, channel, answer>>
  BY DEF IgnoreDeliver, LoseDeliver, Restart, Learn, Forget, vars, orderVars, taskVars
<1> QED
  BY <1>1, <1>2, <1>3, OrderStepExact, TaskStepExact, DeliverStepExact, CrashExact,
     CrashKills DEF Next, HandleDeliver, Environment, Idle

\* No trail names an action that was not executed, or leaves one out; and only a
\* payload nobody has worked on yet ends with a hop.
LEMMA ExactTrailsHold == Spec => []ExactTrails
<1>1. Init => ExactTrails
  <2>1. Init => /\ \A t \in Tasks : task[t] = Free
                /\ \A o \in Orders : channel[o] = <<>> /\ answer[o] = None
    BY DEF Init
  <2>2. \A i \in 1 .. Len(<<>>) : FALSE
    OBVIOUS
  <2> QED
    BY <2>1, <2>2, FrameExact DEF ExactTrails
<1> QED
  BY <1>1, NextExact, TypeCorrect, RoutingHolds, PTL DEF Spec

\* The trail a client is given is exact, in any churn of the peer tables: the
\* actions it records are those of the pizza, in order, however many candidates were
\* refused, given up or retried on the way; and a hop after which nothing was done is
\* one that a task made whose own table had the node in another start of it.
THEOREM AnswerTrailsAreExact == Spec => []AnswerTrailIsExact
<1>1. ExactTrails => AnswerTrailIsExact
  BY DEF ExactTrails, ExactMessage, Led, AnswerTrailIsExact
<1> QED
  BY <1>1, ExactTrailsHold, PTL
=============================================================================
