------------------------ MODULE OrderExecutionProofs ------------------------
(***************************************************************************)
(* OrderExecution for any nodes, orders, recipes, capabilities, placement,  *)
(* peer tables and bounds: its types; how the channel of an order and its   *)
(* entry in pending_orders stand to each other; that payloads bounce between *)
(* nodes only where a table is out of date; and that what a payload carries, *)
(* its content and its update trail, is what was done to it.                *)
(***************************************************************************)
EXTENDS OrderExecution, SequenceTheorems, TLAPS

USE CapsAssumption, RecipeAssumption, PlacementAssumption, StartAssumption,
    BoundsAssumption
USE DEF Blame, historyVars

-----------------------------------------------------------------------------
(* The data: payloads and task records stay well-formed.                   *)

\* A task that runs is a record, not the free slot.
LEMMA LiveTaskRecord ==
  ASSUME TypeOK, NEW t \in Tasks, Live(t)
  PROVE  task[t] \in TaskRecord
BY DEF TypeOK, Live, LiveTask, Free

\* So is a task that was ever started.
LEMMA UsedTaskRecord ==
  ASSUME TypeOK, NEW t \in Tasks, Used(t)
  PROVE  task[t] \in TaskRecord
BY DEF TypeOK, Used

\* Writing a record into a slot keeps the table of tasks well-typed.
LEMMA SetTaskType ==
  ASSUME TypeOK, NEW t \in Tasks, NEW r \in TaskRecord
  PROVE  [task EXCEPT ![t] = r] \in [Tasks -> {Free} \union TaskRecord]
BY DEF TypeOK

\* The payload with one more hop is a payload.
LEMMA HopPayload ==
  ASSUME NEW payload \in Payload, NEW p \in Nodes
  PROVE  Forwarded(payload, p) \in Payload
<1>1. Hop(p) \in Entry
  BY DEF Hop, Entry
<1>2. Append(payload.updates, Hop(p)) \in Seq(Entry)
  BY <1>1 DEF Payload
<1> QED
  BY <1>2 DEF Payload, Forwarded

\* The record of a task that starts is well-formed.
LEMMA NewTaskRecord ==
  ASSUME TypeOK, NEW o \in Orders, NEW n \in Nodes,
         NEW g \in Starts \union {NoEntry}, NEW p \in Payload,
         NEW u \in Tasks \union {NoTask}
  PROVE  NewTask(o, n, g, p, u) \in TaskRecord
BY DEF NewTask, TaskRecord, LiveTask, Payload, TypeOK

\* While a task is not at the end, its next action is one of the recipe's.
LEMMA NextActionType ==
  ASSUME TypeOK, NEW t \in Tasks, Live(t), ~AllDone(t)
  PROVE  /\ task[t].payload.index + 1 \in 1 .. Len(Todo(t))
         /\ NextAction(t) \in ActionNames
<1>1. /\ task[t].payload.index \in Nat
      /\ task[t].order \in Orders
  BY LiveTaskRecord DEF TaskRecord, Payload
<1>2. Todo(t) \in Seq(ActionNames)
  BY <1>1 DEF Todo
<1> QED
  BY <1>1, <1>2 DEF NextAction, AllDone

\* Executing an action gives a payload.
LEMMA ExecutedPayload ==
  ASSUME NEW payload \in Payload, NEW a \in ActionNames
  PROVE  Executed(payload, a) \in Payload
<1>1. Did(a) \in Entry
  BY DEF Did, Entry
<1> QED
  BY <1>1 DEF Payload, Executed

\* What a deliver puts in the channel is a message.
LEMMA DeliveredMessage ==
  ASSUME TypeOK, NEW t \in Tasks, Used(t)
  PROVE  Delivered(t) \in Message
<1>1. task[t].payload \in Payload
  BY UsedTaskRecord DEF TaskRecord
<1>2. CASE task[t].deliver = "success"
  <2>1. Append(task[t].payload.updates, Closed) \in Seq(Entry)
    BY <1>1 DEF Payload, Closed, Entry
  <2> QED
    BY <1>1, <1>2, <2>1 DEF Delivered, Message, Payload
<1>3. CASE task[t].deliver # "success"
  BY <1>3 DEF Delivered, Message, Frame, EmptyPayload, Payload
<1> QED
  BY <1>2, <1>3

\* A task that took a step was running.
LEMMA StepperIsLive ==
  ASSUME NEW t \in Tasks, TaskStep(t)
  PROVE  Live(t)
BY DEF TaskStep, Execute, ReadCandidates, ForwardTo, ForwardRefused,
       ForwardReply, ForwardGivenUp, DeliverSuccess, DeliverSuccessFails,
       DeliverFailure, DeliverFailureFails, Live, LiveTask

\* A step of a task changes its own record, and fills at most one free slot.
LEMMA OthersKept ==
  ASSUME TypeOK, NEW t \in Tasks, TaskStep(t),
         NEW u \in Tasks, Used(u), u # t
  PROVE  task'[u] = task[u]
<1>1. ASSUME NEW p \in Candidate, ForwardTo(t, p)
      PROVE  task'[u] = task[u]
  BY <1>1 DEF ForwardTo, IsNext, TypeOK
<1> QED
  BY <1>1 DEF TypeOK, TaskStep, Execute, ReadCandidates, ForwardRefused,
       ForwardReply, ForwardGivenUp, DeliverSuccess, DeliverSuccessFails,
       DeliverFailure, DeliverFailureFails, SendDeliver, SendDeliverFails

\* No task touches the state of the order handlers.
LEMMA TasksKeepOrders ==
  ASSUME NEW t \in Tasks, TaskStep(t)
  PROVE  UNCHANGED orderVars
<1> USE DEF UnchangedButTask
<1>1. ASSUME NEW p \in Candidate, ForwardTo(t, p) \/ ForwardRefused(t, p)
      PROVE  UNCHANGED orderVars
  BY <1>1 DEF ForwardTo, ForwardRefused
<1>2. CASE \/ Execute(t) \/ ReadCandidates(t) \/ ForwardReply(t)
           \/ ForwardGivenUp(t)
  BY <1>2 DEF Execute, ReadCandidates, ForwardReply, ForwardGivenUp
<1>3. CASE \/ DeliverSuccess(t) \/ DeliverSuccessFails(t)
           \/ DeliverFailure(t) \/ DeliverFailureFails(t)
  BY <1>3 DEF DeliverSuccess, DeliverSuccessFails, DeliverFailure,
       DeliverFailureFails, SendDeliver, SendDeliverFails
<1> QED
  BY <1>1, <1>2, <1>3 DEF TaskStep

-----------------------------------------------------------------------------
(* Type correctness.                                                       *)

\* The initial state is well-typed.
LEMMA InitType == Init => TypeOK
BY DEF Init, TypeOK, HandlerStates, None, Answers, Payload, EmptyPayload

\* A frame without a pizza is an answer.
LEMMA FrameAnswer ==
  ASSUME NEW kind \in {"Declined", "Error", "Lost"}
  PROVE  Frame(kind) \in Answers
BY DEF Frame, Answers, EmptyPayload, Payload

\* Tasks keep the type of `inflight`: a returned task is not touched again.
LEMMA ReturnedKept ==
  ASSUME TypeOK, NEW t \in Tasks, TaskStep(t), NEW u \in inflight
  PROVE  task'[u].pc = "returned"
<1>1. u \in Tasks /\ task[u].pc = "returned" /\ Used(u)
  BY DEF TypeOK, Used, Free
<1>2. u # t
  BY <1>1, StepperIsLive DEF Live, LiveTask
<1> QED
  BY <1>1, <1>2, OthersKept

\* A step of a handle_order thread keeps every type.
LEMMA OrderStepType ==
  ASSUME TypeOK, NEW o \in Orders, Submit(o) \/ OrderStep(o)
  PROVE  TypeOK'
<1> USE DEF TypeOK, Goto, Finish, HandlerStates, nodeVars, taskVars
<1>1. CASE DeclineOrder(o)
  BY <1>1, FrameAnswer DEF DeclineOrder
<1>2. CASE WriteReceipt(o)
  BY <1>2 DEF WriteReceipt
<1>3. CASE ReceiptFails(o)
  BY <1>3, FrameAnswer DEF ReceiptFails
<1>4. CASE Register(o)
  BY <1>4 DEF Register
<1>5. CASE FetchRecipe(o)
  BY <1>5 DEF FetchRecipe
<1>6. CASE FetchFails(o)
  BY <1>6, FrameAnswer DEF FetchFails
<1>7. CASE ParseFails(o)
  BY <1>7, FrameAnswer DEF ParseFails
<1>8. CASE StartDrive(o)
  <2>1. PICK t \in Tasks :
          /\ IsNext(t)
          /\ task' = [task EXCEPT
                        ![t] = NewTask(o, Origin[o], NoEntry, EmptyPayload, NoTask)]
    BY <1>8 DEF StartDrive
  <2>2. EmptyPayload \in Payload
    BY DEF EmptyPayload, Payload
  <2>3. NewTask(o, Origin[o], NoEntry, EmptyPayload, NoTask) \in TaskRecord
    BY <2>2, NewTaskRecord
  <2>. DEFINE r == NewTask(o, Origin[o], NoEntry, EmptyPayload, NoTask)
  <2>. HIDE DEF r
  <2>4. task[t] = Free
    BY <2>1 DEF IsNext, Used
  <2>5. \A u \in inflight : task'[u].pc = "returned"
    BY <2>1, <2>4 DEF Free, r
  <2> QED
    BY <1>8, <2>1, <2>3, <2>5 DEF StartDrive, r
<1>9. CASE DriveDelivers(o)
  BY <1>9 DEF DriveDelivers
<1>10. CASE DriveFails(o)
  BY <1>10, FrameAnswer DEF DriveFails
<1>11. CASE ReceiveResult(o)
  <2>1. /\ Head(channel[o]) \in Message
        /\ Tail(channel[o]) \in Seq(Message)
    BY <1>11 DEF ReceiveResult
  <2>2. Head(channel[o]) \in Answers
    BY <2>1 DEF Message, Answers
  <2> QED
    BY <1>11, <2>1, <2>2 DEF ReceiveResult
<1>12. CASE ReceiveTimesOut(o)
  BY <1>12 DEF ReceiveTimesOut
<1>13. CASE AnswerTimeout(o)
  BY <1>13, FrameAnswer DEF AnswerTimeout
<1> QED
  BY <1>1, <1>2, <1>3, <1>4, <1>5, <1>6, <1>7, <1>8, <1>9, <1>10, <1>11,
     <1>12, <1>13 DEF Submit, OrderStep

\* So does a step of a handle_process_payload task.
LEMMA TaskStepType ==
  ASSUME TypeOK, NEW t \in Tasks, TaskStep(t)
  PROVE  TypeOK'
<1> USE DEF UnchangedButTask, nodeVars, orderVars
<1>1. Live(t)
  BY StepperIsLive
<1>2. /\ task[t] \in TaskRecord
      /\ task[t].payload \in Payload
      /\ task[t].order \in Orders
      /\ task[t].node \in Nodes
      /\ task[t].cands \subseteq Candidate
  BY <1>1, LiveTaskRecord DEF TaskRecord
<1>r. \A u \in inflight : task'[u].pc = "returned"
  BY ReturnedKept
<1>3. CASE Execute(t)
  <2>1. Executed(task[t].payload, NextAction(t)) \in Payload
    BY <1>1, <1>2, <1>3, NextActionType, ExecutedPayload DEF Execute
  <2>2. task' \in [Tasks -> {Free} \union TaskRecord]
    BY <1>2, <1>3, <2>1 DEF Execute, TypeOK, TaskRecord
  <2> QED
    BY <1>r, <1>3, <2>2 DEF TypeOK, Execute
<1>4. CASE ReadCandidates(t)
  <2>. DEFINE S == {p \in Nodes : Advertises(task[t].node, p, NextAction(t))}
  <2>1. Entries(task[t].node, S) \subseteq Candidate
    BY <1>2 DEF TypeOK, Entries, Candidate, Advertises
  <2>. HIDE DEF S
  <2>2. task' \in [Tasks -> {Free} \union TaskRecord]
    BY <1>2, <1>4, <2>1 DEF ReadCandidates, TypeOK, TaskRecord, LiveTask, S
  <2> QED
    BY <1>r, <1>4, <2>2 DEF TypeOK, ReadCandidates
<1>5. ASSUME NEW p \in Candidate, ForwardTo(t, p)
      PROVE  TypeOK'
  <2>1. PICK c \in Tasks :
          /\ IsNext(c)
          /\ task' = [task EXCEPT
               ![c] = NewTask(task[t].order, p.node, p.entry, Forwarded(task[t].payload, p.node), t),
               ![t].pc = "awaiting",
               ![t].cands = @ \ {p},
               ![t].child = c]
    BY <1>5 DEF ForwardTo
  <2>2. NewTask(task[t].order, p.node, p.entry, Forwarded(task[t].payload, p.node), t) \in TaskRecord
    <3>1. p.node \in Nodes /\ p.entry \in Starts
      BY DEF Candidate
    <3> QED
      BY <1>2, <3>1, HopPayload, NewTaskRecord
  <2>3. c # t
    BY <1>1, <2>1 DEF IsNext, Used, Live, LiveTask, Free
  <2>. DEFINE new == NewTask(task[t].order, p.node, p.entry, Forwarded(task[t].payload, p.node), t)
              r == [task[t] EXCEPT !.pc = "awaiting", !.cands = @ \ {p}, !.child = c]
  <2>4. r \in TaskRecord
    BY <1>2 DEF TaskRecord, LiveTask
  <2>5. task' = [task EXCEPT ![c] = new, ![t] = r]
    BY <2>1, <2>3 DEF TypeOK
  <2>. HIDE DEF new, r
  <2>6. task' \in [Tasks -> {Free} \union TaskRecord]
    BY <2>2, <2>4, <2>5 DEF TypeOK, new
  <2> QED
    BY <1>r, <1>5, <2>6 DEF TypeOK, ForwardTo
<1>6. ASSUME NEW p \in Candidate, ForwardRefused(t, p)
      PROVE  TypeOK'
  <2>1. task' \in [Tasks -> {Free} \union TaskRecord]
    BY <1>2, <1>6 DEF ForwardRefused, TypeOK, TaskRecord
  <2> QED
    BY <1>r, <1>2, <1>6, <2>1 DEF TypeOK, ForwardRefused
<1>7. CASE ForwardReply(t)
  <2>1. PICK c \in Tasks :
          /\ task[c].pc = "returned"
          /\ task' = [task EXCEPT ![t].pc = "returned",
                                  ![t].response = task[c].response]
    BY <1>7 DEF ForwardReply
  <2>2. task[c].response \in {"None", "Placeholder", "Error"}
    BY <2>1, UsedTaskRecord DEF Used, Free, TaskRecord
  <2>3. task' \in [Tasks -> {Free} \union TaskRecord]
    BY <1>2, <2>1, <2>2 DEF TypeOK, TaskRecord
  <2> QED
    BY <1>r, <1>7, <2>3 DEF TypeOK, ForwardReply
<1>8. CASE ForwardGivenUp(t)
  <2>1. task' \in [Tasks -> {Free} \union TaskRecord]
    BY <1>2, <1>8 DEF ForwardGivenUp, TypeOK, TaskRecord, LiveTask
  <2> QED
    BY <1>r, <1>2, <1>8, <2>1 DEF TypeOK, ForwardGivenUp
<1>9. ASSUME NEW outcome \in {"success", "failure"}, NEW p \in Payload,
             SendDeliver(t, outcome, p)
      PROVE  TypeOK'
  <2>1. task' \in [Tasks -> {Free} \union TaskRecord]
    <3>1. [task[t] EXCEPT !.pc = "returned", !.payload = p,
                          !.response = "Placeholder", !.deliver = outcome]
            \in TaskRecord
      BY <1>2, <1>9 DEF TaskRecord
    <3> QED
      BY <1>9, <3>1 DEF SendDeliver, TypeOK
  <2> QED
    BY <1>r, <1>9, <2>1 DEF TypeOK, SendDeliver
<1>10. ASSUME SendDeliverFails(t)
       PROVE  TypeOK'
  <2>1. task' \in [Tasks -> {Free} \union TaskRecord]
    BY <1>2, <1>10 DEF SendDeliverFails, TypeOK, TaskRecord
  <2> QED
    BY <1>r, <1>2, <1>10, <2>1 DEF TypeOK, SendDeliverFails
<1>11. CASE DeliverSuccess(t)
  <2>1. Forwarded(task[t].payload, Host(t)) \in Payload
    BY <1>2, HopPayload DEF Host
  <2> QED
    BY <1>9, <1>11, <2>1 DEF DeliverSuccess
<1>12. CASE DeliverFailure(t)
  BY <1>2, <1>9, <1>12 DEF DeliverFailure
<1> QED
  BY <1>3, <1>4, <1>5, <1>6, <1>7, <1>8, <1>10, <1>11, <1>12
     DEF TaskStep, DeliverSuccessFails, DeliverFailureFails

\* So does a deliver that is handled or lost.
LEMMA DeliverStepType ==
  ASSUME TypeOK, NEW t \in Tasks, HandleDeliver(t) \/ LoseDeliver(t)
  PROVE  TypeOK'
<1>1. CASE SignalHandler(t)
  <2>1. Used(t) /\ task[t].order \in Orders
    BY <1>1 DEF SignalHandler, TypeOK, Used, Free
  <2>2. Delivered(t) \in Message /\ Delivered(t).kind \in {"Completed", "Failed"}
    BY <2>1, DeliveredMessage DEF Delivered, Frame
  <2> QED
    BY <1>1, <2>1, <2>2 DEF SignalHandler, TypeOK, nodeVars
<1>2. CASE IgnoreDeliver(t)
  BY <1>2 DEF IgnoreDeliver, TypeOK, nodeVars, orderVars
<1>3. CASE LoseDeliver(t)
  <2>1. Used(t) /\ task[t].order \in Orders
    BY <1>3, UsedTaskRecord DEF LoseDeliver, TypeOK, Used, Free, TaskRecord
  <2> QED
    BY <1>3, <2>1 DEF LoseDeliver, TypeOK, nodeVars, orderVars
<1> QED
  BY <1>1, <1>2, <1>3 DEF HandleDeliver

\* So does a crash, a restart, or a change of a peer table.
LEMMA NodeStepType ==
  ASSUME TypeOK, NEW n \in Nodes,
         \/ Crash(n) \/ Restart(n)
         \/ \E p \in Nodes, g \in Starts : Learn(n, p, g)
         \/ \E ps \in SUBSET Nodes : Forget(n, ps)
  PROVE  TypeOK'
<1>1. CASE Crash(n)
  <2>1. task' \in [Tasks -> {Free} \union TaskRecord]
    <3>1. ASSUME NEW t \in Tasks, Live(t)
          PROVE  [task[t] EXCEPT !.pc = "dead"] \in TaskRecord
      <4>. DEFINE r == task[t]
      <4>1. r \in TaskRecord
        BY <3>1, LiveTaskRecord
      <4>. HIDE DEF r
      <4>2. [r EXCEPT !.pc = "dead"] \in TaskRecord
        BY <4>1 DEF TaskRecord
      <4> QED
        BY <4>2 DEF r
    <3> QED
      BY <1>1, <3>1 DEF Crash, Tables!Crash, TypeOK
  <2>5. \A t \in inflight : task'[t].pc = "returned"
    BY <1>1 DEF Crash, Tables!Crash, TypeOK, Live, LiveTask
  <2>2. answer' \in [Orders -> Answers]
    BY <1>1, FrameAnswer DEF Crash, Tables!Crash, TypeOK
  <2>3. handler' \in [Orders -> HandlerStates]
    BY <1>1 DEF Crash, Tables!Crash, TypeOK, HandlerStates
  <2>4. channel' \in [Orders -> Seq(Message)]
    BY <1>1 DEF Crash, Tables!Crash, TypeOK
  <2>6. inflight' \subseteq {t \in Tasks : task'[t].pc = "returned"}
    BY <1>1, <2>5 DEF Crash, Tables!Crash, TypeOK
  <2>7. /\ up' \subseteq Nodes
        /\ crashes' \in 0 .. MaxCrashes
        /\ known' \in [Nodes -> [Nodes -> Starts \union {0}]]
        /\ starts' \in [Nodes -> Starts]
        /\ pending' \subseteq Orders
    BY <1>1 DEF Crash, Tables!Crash, Tables!Empty, TypeOK
  <2> QED
    BY <1>1, <2>1, <2>2, <2>3, <2>4, <2>6, <2>7 DEF Crash, Tables!Crash, TypeOK
<1>2. CASE Restart(n)
  <2>1. starts' \in [Nodes -> Starts]
    BY <1>2 DEF Restart, Tables!Restart, TypeOK, Starts
  <2> QED
    BY <1>2, <2>1 DEF Restart, Tables!Restart, TypeOK, orderVars, taskVars
<1>3. ASSUME NEW p \in Nodes, NEW g \in Starts, Learn(n, p, g)
      PROVE  TypeOK'
  <2>1. known' \in [Nodes -> [Nodes -> Starts \union {0}]]
    BY <1>3 DEF Learn, Tables!Learn, TypeOK
  <2>2. churn' \in 0 .. MaxChurn
    BY <1>3 DEF Learn, TypeOK
  <2> QED
    BY <1>3, <2>1, <2>2 DEF Learn, Tables!Learn, TypeOK, orderVars
<1>4. ASSUME NEW ps \in SUBSET Nodes, Forget(n, ps)
      PROVE  TypeOK'
  <2>1. known' \in [Nodes -> [Nodes -> Starts \union {0}]]
    BY <1>4 DEF Forget, Tables!Forget, TypeOK
  <2>2. churn' \in 0 .. MaxChurn
    BY <1>4 DEF Forget, TypeOK
  <2> QED
    BY <1>4, <2>1, <2>2 DEF Forget, Tables!Forget, TypeOK, orderVars
<1> QED
  BY <1>1, <1>2, <1>3, <1>4

\* Hence so does every step.
LEMMA NextType == TypeOK /\ [Next]_vars => TypeOK'
<1> SUFFICES ASSUME TypeOK, [Next]_vars
             PROVE  TypeOK'
  OBVIOUS
<1>1. CASE UNCHANGED vars
  BY <1>1 DEF TypeOK, vars, nodeVars, orderVars, taskVars
<1> QED
  BY <1>1, OrderStepType, TaskStepType, DeliverStepType, NodeStepType
     DEF Next, Environment, Idle

\* Every variable of every behaviour has its type: handler threads, tasks,
\* channels and peer tables of handlers.rs, for any nodes, orders and bounds.
THEOREM TypeCorrect == Spec => []TypeOK
BY InitType, NextType, PTL DEF Spec

-----------------------------------------------------------------------------
(* The channel of an order and its entry in pending_orders.                *)

\* A sequence with an element at its end is not empty.
LEMMA AppendNonempty ==
  ASSUME NEW S, NEW s \in Seq(S), NEW e \in S
  PROVE  Append(s, e) # <<>>
BY AppendProperties

\* The parts of the state ChannelDiscipline is about.
channelVars == <<handler, pending, channel>>

\* The discipline is about these three variables only.
LEMMA ChannelFrame ==
  ASSUME ChannelDiscipline, UNCHANGED channelVars
  PROVE  ChannelDiscipline'
BY DEF ChannelDiscipline, channelVars

\* Ignored and lost delivers, restarts and gossip leave them alone.
LEMMA OthersKeepChannels ==
  ASSUME \/ \E t \in Tasks : IgnoreDeliver(t) \/ LoseDeliver(t)
         \/ \E n \in Nodes : Restart(n)
         \/ \E n, p \in Nodes, g \in Starts : Learn(n, p, g)
         \/ \E n \in Nodes, ps \in SUBSET Nodes : Forget(n, ps)
  PROVE  UNCHANGED channelVars
BY DEF IgnoreDeliver, LoseDeliver, Restart, Learn, Forget, orderVars, channelVars

\* Every step keeps the discipline between an entry and the channel behind it.
LEMMA NextChannel ==
  TypeOK /\ ChannelDiscipline /\ [Next]_vars => ChannelDiscipline'
<1> SUFFICES ASSUME TypeOK, ChannelDiscipline, [Next]_vars
             PROVE  ChannelDiscipline'
  OBVIOUS
<1> USE DEF TypeOK
<1>1. CASE UNCHANGED vars
  BY <1>1, ChannelFrame DEF vars, orderVars, channelVars
<1>2. ASSUME NEW o \in Orders, Submit(o) \/ OrderStep(o)
      PROVE  ChannelDiscipline'
  BY <1>2 DEF ChannelDiscipline, Submit, OrderStep, Goto, Finish, DeclineOrder,
       WriteReceipt, ReceiptFails, Register, FetchRecipe, FetchFails, ParseFails,
       StartDrive, DriveDelivers, DriveFails, ReceiveResult, ReceiveTimesOut,
       AnswerTimeout
<1>3. ASSUME NEW t \in Tasks, SignalHandler(t)
      PROVE  ChannelDiscipline'
  <2>. DEFINE o == task[t].order
  <2>1. o \in pending /\ o \in Orders /\ t \in inflight
    BY <1>3 DEF SignalHandler
  <2>2. Delivered(t) \in Message
    BY <2>1, DeliveredMessage DEF Used, Free
  <2>3. Append(channel[o], Delivered(t)) # <<>>
    <3>1. channel[o] \in Seq(Message)
      BY <2>1
    <3> QED
      BY <2>2, <3>1, AppendNonempty
  <2>4. /\ pending' = pending \ {o}
        /\ handler' = handler
        /\ \A q \in Orders \ {o} : channel'[q] = channel[q]
        /\ handler[o] # "done" => channel'[o] # <<>>
        /\ handler[o] = "done" => channel' = channel
    BY <1>3, <2>1, <2>3 DEF SignalHandler
  <2>5. handler[o] \notin {"idle", "receipted"}
    BY <2>1 DEF ChannelDiscipline
  <2>. HIDE DEF o
  <2> QED
    BY <2>1, <2>4, <2>5 DEF ChannelDiscipline
<1>4. ASSUME NEW n \in Nodes, Crash(n)
      PROVE  ChannelDiscipline'
  BY <1>4 DEF ChannelDiscipline, Crash, ActiveHandlers, HandlerStates
<1>5. CASE UNCHANGED channelVars
  BY <1>5, ChannelFrame
<1> QED
  BY <1>1, <1>2, <1>3, <1>4, <1>5, TasksKeepOrders, OthersKeepChannels
     DEF orderVars, channelVars, Next, HandleDeliver, Environment, Idle

\* At each point of a handler, the entry of pending_orders or the channel, never
\* both, is what can bring the result.
THEOREM ChannelsDisciplined == Spec => []ChannelDiscipline
<1>1. Init => ChannelDiscipline
  BY DEF Init, ChannelDiscipline
<1> QED
  BY <1>1, NextChannel, TypeCorrect, PTL DEF Spec

\* handle_deliver never blocks on tx.send while it holds the pending_orders
\* lock, at any origin and under any interleaving of deliveries and timeouts.
THEOREM SignalsNeverBlock == Spec => []SignalNeverBlocks
<1>1. TypeOK /\ ChannelDiscipline => SignalNeverBlocks
  BY DEF TypeOK, ChannelDiscipline, SignalNeverBlocks
<1> QED
  BY <1>1, ChannelsDisciplined, TypeCorrect, PTL

\* A handler blocked in recv_timeout has its entry registered or its message
\* waiting: no schedule makes it wait for a signal that can no longer come.
THEOREM WaitersReachable == Spec => []WaiterIsReachable
<1>1. ChannelDiscipline => WaiterIsReachable
  BY DEF ChannelDiscipline, WaiterIsReachable
<1> QED
  BY <1>1, ChannelsDisciplined, PTL

-----------------------------------------------------------------------------
(* Routing: one record.                                                    *)

\* Record s is record r later on, as far as routing goes.
SameRoute(r, s) ==
    /\ s.order = r.order
    /\ s.node = r.node
    /\ s.start = r.start
    /\ s.entry = r.entry
    /\ s.payload.index = r.payload.index
    /\ s.first = r.first
    /\ s.parent = r.parent
    /\ s.pc \in {"forwarding", "awaiting"} =>
         r.pc \in {"forwarding", "awaiting"} /\ s.cands \subseteq r.cands

\* A step that leaves the routing fields of a record alone keeps its route.
LEMMA SameRouteKept ==
  ASSUME NEW r, NEW s, SameRoute(r, s), OwnRoute(r)
  PROVE  OwnRoute(s)
BY DEF SameRoute, OwnRoute, Unfinished, Wanted

\* Executing an action moves the index past where the node received it.
LEMMA ExecuteRouted ==
  ASSUME NEW r \in TaskRecord, OwnRoute(r), NEW s,
         s.first = r.first, s.pc = "loop",
         s.payload.index = r.payload.index + 1
  PROVE  OwnRoute(s)
<1>1. r.first \in Nat /\ r.payload.index \in Nat /\ r.first <= r.payload.index
  BY DEF TaskRecord, Payload, OwnRoute
<1> QED
  BY <1>1 DEF OwnRoute

-----------------------------------------------------------------------------
(* The steps. Tasks keep their process and parent, so only new tasks matter *)
(* for what Routing says of a task and its parent.                          *)

\* What Routing says of task t in the table of tasks `table`, when the nodes of
\* `here` run in their starts `now`.
Routed(table, here, now, t) ==
    /\ OwnRoute(table[t])
    /\ table[t].pc \in LiveTask =>
         table[t].node \in here /\ table[t].start = now[table[t].node]
    /\ table[t].parent # NoTask =>
         /\ table[table[t].parent] # Free
         /\ table[t].node = table[table[t].parent].node =>
              table[t].entry # table[t].start

\* Routing, one task at a time.
LEMMA RoutingIsRouted ==
  /\ Routing <=> \A t \in Tasks : task[t] # Free => Routed(task, up, starts, t)
  /\ Routing' <=> \A t \in Tasks : task'[t] # Free => Routed(task', up', starts', t)
BY DEF Routing, Routed, Used, Live, OwnRoute, Unfinished, Wanted

\* Record s is record r later on, as far as its identity goes.
SameProcess(r, s) ==
    /\ s.node = r.node
    /\ s.start = r.start
    /\ s.entry = r.entry
    /\ s.parent = r.parent
    /\ s.pc \in LiveTask => r.pc \in LiveTask

\* A step that keeps the routes of all used tasks, their processes, and those of
\* the tasks that still run, keeps Routing.
LEMMA RoutingFrame ==
  ASSUME TypeOK, Routing,
         \A t \in Tasks : task[t] # Free =>
           /\ task'[t] # Free
           /\ OwnRoute(task'[t])
           /\ SameProcess(task[t], task'[t])
           /\ (task'[t].pc \in LiveTask /\ task[t].node \in up) =>
                /\ task[t].node \in up'
                /\ starts'[task[t].node] = starts[task[t].node],
         NEW u \in Tasks, task[u] # Free
  PROVE  Routed(task', up', starts', u)
<1>1. task[u].parent \in Tasks \union {NoTask} /\ Routed(task, up, starts, u)
  BY UsedTaskRecord, RoutingIsRouted DEF TaskRecord, Used
<1> QED
  BY <1>1 DEF Routed, SameProcess

\* Tasks leave the processes of the nodes alone.
LEMMA TasksKeepNodes ==
  ASSUME NEW t \in Tasks, TaskStep(t)
  PROVE  UNCHANGED nodeVars
<1> USE DEF UnchangedButTask
<1>1. ASSUME NEW p \in Candidate, ForwardTo(t, p) \/ ForwardRefused(t, p)
      PROVE  UNCHANGED nodeVars
  BY <1>1 DEF ForwardTo, ForwardRefused
<1>2. CASE \/ Execute(t) \/ ReadCandidates(t) \/ ForwardReply(t)
           \/ ForwardGivenUp(t)
  BY <1>2 DEF Execute, ReadCandidates, ForwardReply, ForwardGivenUp
<1>3. CASE \/ DeliverSuccess(t) \/ DeliverSuccessFails(t)
           \/ DeliverFailure(t) \/ DeliverFailureFails(t)
  BY <1>3 DEF DeliverSuccess, DeliverSuccessFails, DeliverFailure,
       DeliverFailureFails, SendDeliver, SendDeliverFails
<1> QED
  BY <1>1, <1>2, <1>3 DEF TaskStep

\* A step of a task keeps Routing: a forward goes to a candidate whose entry has
\* the wanted action, which the forwarding process has not.
LEMMA TaskStepRouted ==
  ASSUME TypeOK, Routing, NEW t \in Tasks, TaskStep(t)
  PROVE  Routing'
<1>1. Live(t) /\ task[t] # Free /\ task[t] \in TaskRecord /\ OwnRoute(task[t])
  BY StepperIsLive, LiveTaskRecord DEF Used, Free, Live, LiveTask, Routing
<1>2. \A u \in Tasks : task[u] # Free /\ u # t => task'[u] = task[u] /\ OwnRoute(task[u])
  BY OthersKept DEF Used, Routing
<1>3. ASSUME task'[t] # Free, OwnRoute(task'[t]), SameProcess(task[t], task'[t]),
             NEW u \in Tasks, task[u] # Free
      PROVE  Routed(task', up', starts', u)
  BY <1>1, <1>2, <1>3, TasksKeepNodes, RoutingFrame DEF nodeVars, SameProcess
<1>4. ASSUME task'[t] # Free, OwnRoute(task'[t]), SameProcess(task[t], task'[t]),
             \A u \in Tasks : u # t => task'[u] = task[u]
      PROVE  Routing'
  BY <1>1, <1>3, <1>4, RoutingIsRouted
<1>5. CASE Execute(t)
  <2>1. /\ task'[t].payload.index = task[t].payload.index + 1
        /\ task'[t].first = task[t].first
        /\ task'[t].pc = "loop"
        /\ SameProcess(task[t], task'[t])
        /\ \A u \in Tasks : u # t => task'[u] = task[u]
    BY <1>1, <1>5 DEF Execute, Executed, TypeOK, TaskRecord, SameProcess
  <2>2. task'[t] # Free
    BY <2>1 DEF Free
  <2>3. OwnRoute(task'[t])
    BY <1>1, <2>1, ExecuteRouted
  <2> QED
    BY <1>4, <2>1, <2>2, <2>3
<1>6. CASE ReadCandidates(t)
  <2>1. /\ task'[t].payload = task[t].payload
        /\ task'[t].order = task[t].order
        /\ task'[t].first = task[t].first
        /\ task'[t].pc = "forwarding"
        /\ SameProcess(task[t], task'[t])
        /\ \A p \in task'[t].cands : NextAction(t) \in Caps[p.node][p.entry]
        /\ \A u \in Tasks : u # t => task'[u] = task[u]
    BY <1>1, <1>6 DEF ReadCandidates, Entries, Advertises, TypeOK, TaskRecord,
         SameProcess, Live
  <2>2. Unfinished(task[t]) /\ NextAction(t) \notin Caps[task[t].node][task[t].start]
    BY <1>1, <1>6 DEF ReadCandidates, AllDone, Todo, CanExecute, Unfinished,
         TaskRecord, Payload
  <2>3. OwnRoute(task'[t])
    BY <1>1, <2>1, <2>2 DEF OwnRoute, NextAction, Todo, Wanted, Unfinished, SameProcess
  <2> QED
    BY <1>4, <2>1, <2>3 DEF Free
<1>7. ASSUME NEW p \in Candidate, ForwardTo(t, p)
      PROVE  Routing'
  <2>. DEFINE new == NewTask(task[t].order, p.node, p.entry,
                             Forwarded(task[t].payload, p.node), t)
  <2>1. PICK c \in Tasks :
          /\ IsNext(c)
          /\ task' = [task EXCEPT ![c] = new, ![t].pc = "awaiting",
                                  ![t].cands = @ \ {p}, ![t].child = c]
    BY <1>7 DEF ForwardTo
  <2>2. c # t /\ task[c] = Free
    BY <1>1, <2>1 DEF IsNext, Used
  <2>3. /\ new.order = task[t].order
        /\ new.node = p.node
        /\ new.start = starts[p.node]
        /\ new.entry = p.entry
        /\ new.payload.index = task[t].payload.index
        /\ new.first = task[t].payload.index
        /\ new.parent = t
        /\ new.pc = "loop"
    BY <1>1 DEF NewTask, Forwarded, TaskRecord, Payload
  <2>. HIDE DEF new
  <2>4. /\ SameRoute(task[t], task'[t])
        /\ task'[t].pc = "awaiting"
        /\ task'[c] = new
        /\ \A u \in Tasks : u # t /\ u # c => task'[u] = task[u]
    BY <1>1, <1>7, <2>1, <2>2 DEF ForwardTo, SameRoute, TypeOK, TaskRecord
  <2>5. OwnRoute(task'[t])
    BY <1>1, <2>4, SameRouteKept
  <2>6. task'[t] # Free /\ SameProcess(task[t], task'[t])
    BY <1>1, <2>4 DEF SameRoute, SameProcess, Free, Live
  <2>7. /\ Unfinished(task[t])
        /\ Wanted(task[t]) \in Caps[p.node][p.entry]
        /\ Wanted(task[t]) \notin Caps[task[t].node][task[t].start]
    BY <1>1, <1>7 DEF ForwardTo, OwnRoute
  <2>8. p.node \in up /\ task[t].start = starts[task[t].node]
    BY <1>1, <1>7 DEF ForwardTo, Routing, Used
  <2>9. Routed(task', up', starts', c)
    <3>1. t # NoTask
      BY DEF Tasks, NoTask
    <3>2. OwnRoute(new)
      BY <1>1, <2>3, <2>7 DEF OwnRoute, Unfinished, Wanted, TaskRecord, Payload
    <3>3. up' = up /\ starts' = starts
      BY <1>7, TasksKeepNodes DEF nodeVars, TaskStep
    <3>4. p.node = task[t].node => p.entry # starts[p.node]
      BY <2>7, <2>8
    <3> QED
      BY <2>3, <2>4, <2>6, <2>8, <3>1, <3>2, <3>3, <3>4 DEF Routed, SameProcess
  <2>10. \A u \in Tasks : u # c /\ task'[u] # Free => task[u] # Free
    BY <1>1, <2>4
  <2>11. \A u \in Tasks : task'[u] # Free => Routed(task', up', starts', u)
    BY <1>3, <2>5, <2>6, <2>9, <2>10
  <2> QED
    BY <2>11, RoutingIsRouted
<1>8. CASE \/ \E p \in Candidate : ForwardRefused(t, p)
           \/ ForwardReply(t) \/ ForwardGivenUp(t)
           \/ DeliverSuccess(t) \/ DeliverSuccessFails(t)
           \/ DeliverFailure(t) \/ DeliverFailureFails(t)
  <2>1. /\ SameRoute(task[t], task'[t])
        /\ task'[t].pc # "free"
        /\ \A u \in Tasks : u # t => task'[u] = task[u]
    <3> USE <1>1 DEF TypeOK, TaskRecord, SameRoute
    <3>1. CASE \E p \in Candidate : ForwardRefused(t, p)
      BY <3>1 DEF ForwardRefused
    <3>2. CASE ForwardReply(t)
      <4>1. PICK c \in Tasks :
              task' = [task EXCEPT ![t].pc = "returned",
                                   ![t].response = task[c].response]
        BY <3>2 DEF ForwardReply
      <4> QED
        BY <4>1
    <3>6. CASE ForwardGivenUp(t)
      BY <3>6 DEF ForwardGivenUp
    <3>3. CASE DeliverSuccess(t)
      BY <3>3 DEF DeliverSuccess, SendDeliver, Forwarded, Payload
    <3>4. CASE DeliverFailure(t)
      BY <3>4 DEF DeliverFailure, SendDeliver
    <3>5. CASE SendDeliverFails(t)
      BY <3>5 DEF SendDeliverFails
    <3> QED
      BY <1>8, <3>1, <3>2, <3>3, <3>4, <3>5, <3>6
         DEF DeliverSuccessFails, DeliverFailureFails
  <2>2. OwnRoute(task'[t])
    BY <1>1, <2>1, SameRouteKept
  <2>3. task'[t] # Free /\ SameProcess(task[t], task'[t])
    BY <1>1, <2>1 DEF Free, SameRoute, SameProcess, Live
  <2> QED
    BY <1>4, <2>1, <2>2, <2>3
<1> QED
  BY <1>5, <1>6, <1>7, <1>8 DEF TaskStep

\* The handlers that run are threads of a process that runs.
HandlersRun == \A o \in Orders : handler[o] \in ActiveHandlers => Origin[o] \in up

LEMMA NextHandlersRun == TypeOK /\ HandlersRun /\ [Next]_vars => HandlersRun'
<1> SUFFICES ASSUME TypeOK, HandlersRun, [Next]_vars
             PROVE  HandlersRun'
  OBVIOUS
<1> USE DEF HandlersRun, TypeOK
<1>1. CASE UNCHANGED vars
  BY <1>1 DEF vars, nodeVars, orderVars
<1>2. ASSUME NEW o \in Orders, Submit(o)
      PROVE  HandlersRun'
  BY <1>2 DEF Submit, DeclineOrder, WriteReceipt, ReceiptFails, Goto, Finish, nodeVars
<1>3. ASSUME NEW o \in Orders, OrderStep(o)
      PROVE  HandlersRun'
  <2>1. UNCHANGED up /\ handler[o] \in ActiveHandlers
    BY <1>3 DEF OrderStep, Register, FetchRecipe, FetchFails, ParseFails, StartDrive,
         DriveDelivers, DriveFails, ReceiveResult, ReceiveTimesOut, AnswerTimeout,
         nodeVars, ActiveHandlers, HandlerStates
  <2>2. \A q \in Orders : q # o => handler'[q] = handler[q]
    BY <1>3 DEF OrderStep, Register, FetchRecipe, FetchFails, ParseFails, StartDrive,
         DriveDelivers, DriveFails, ReceiveResult, ReceiveTimesOut, AnswerTimeout,
         Goto, Finish
  <2> QED
    BY <2>1, <2>2
<1>4. ASSUME NEW t \in Tasks, TaskStep(t)
      PROVE  HandlersRun'
  BY <1>4, TasksKeepOrders, TasksKeepNodes DEF orderVars, nodeVars
<1>5. ASSUME NEW t \in Tasks, HandleDeliver(t) \/ LoseDeliver(t)
      PROVE  HandlersRun'
  BY <1>5 DEF HandleDeliver, SignalHandler, IgnoreDeliver, LoseDeliver, nodeVars, orderVars
<1>6. ASSUME NEW n \in Nodes, Crash(n)
      PROVE  HandlersRun'
  BY <1>6 DEF Crash, Tables!Crash, ActiveHandlers
<1>7. CASE \/ \E n \in Nodes : Restart(n)
           \/ \E n, p \in Nodes, g \in Starts : Learn(n, p, g)
           \/ \E n \in Nodes, ps \in SUBSET Nodes : Forget(n, ps)
  BY <1>7 DEF Restart, Tables!Restart, Learn, Tables!Learn, Forget, Tables!Forget,
       orderVars
<1> QED
  BY <1>1, <1>2, <1>3, <1>4, <1>5, <1>6, <1>7 DEF Next, Environment, Idle

\* Hence every step keeps Routing: a live task's process cannot have restarted, for
\* it would have ended first, and the task with it.
LEMMA NextRouted ==
  TypeOK /\ HandlersRun /\ Routing /\ [Next]_vars => Routing'
<1> SUFFICES ASSUME TypeOK, HandlersRun, Routing, [Next]_vars
             PROVE  Routing'
  OBVIOUS
<1>1. ASSUME NEW o \in Orders, StartDrive(o)
      PROVE  Routing'
  <2>. DEFINE new == NewTask(o, Origin[o], NoEntry, EmptyPayload, NoTask)
  <2>1. PICK c \in Tasks : IsNext(c) /\ task' = [task EXCEPT ![c] = new]
    BY <1>1 DEF StartDrive
  <2>2. /\ new.parent = NoTask /\ OwnRoute(new)
        /\ new.node = Origin[o] /\ new.start = starts[Origin[o]]
    BY DEF NewTask, OwnRoute, EmptyPayload
  <2>. HIDE DEF new
  <2>3. /\ task'[c] = new
        /\ \A u \in Tasks : task[u] # Free => task'[u] = task[u] /\ OwnRoute(task[u])
        /\ \A u \in Tasks : u # c /\ task'[u] # Free => task[u] # Free
        /\ up' = up /\ starts' = starts
    BY <1>1, <2>1 DEF IsNext, Used, TypeOK, Routing, StartDrive, nodeVars
  <2>4. Origin[o] \in up
    BY <1>1 DEF HandlersRun, StartDrive, ActiveHandlers, HandlerStates
  <2>5. \A u \in Tasks : task[u] # Free => Routed(task', up', starts', u)
    BY <2>3, RoutingFrame DEF SameProcess
  <2>6. Routed(task', up', starts', c)
    BY <2>2, <2>3, <2>4 DEF Routed
  <2> QED
    BY <2>3, <2>5, <2>6, RoutingIsRouted
<1>2. ASSUME NEW n \in Nodes, Crash(n)
      PROVE  Routing'
  <2>1. \A t \in Tasks : task[t] # Free =>
          /\ SameRoute(task[t], task'[t])
          /\ task'[t] # Free
          /\ task'[t].pc \in LiveTask =>
               task[t].pc \in LiveTask /\ task[t].node # n
    BY <1>2, LiveTaskRecord DEF Crash, SameRoute, TaskRecord, Free, Live, LiveTask
  <2>2. \A t \in Tasks : task[t] = Free => task'[t] = Free
    BY <1>2 DEF Crash, Live, LiveTask, Free
  <2>3. up' = up \ {n} /\ starts' = starts
    BY <1>2 DEF Crash, Tables!Crash
  <2>4. \A t \in Tasks : task[t] # Free => OwnRoute(task'[t])
    BY <2>1, SameRouteKept DEF Routing, Used
  <2>5. \A t \in Tasks : task[t] # Free => Routed(task', up', starts', t)
    BY <2>1, <2>3, <2>4, RoutingFrame DEF SameRoute, SameProcess
  <2> QED
    BY <2>2, <2>5, RoutingIsRouted
<1>3. CASE UNCHANGED <<task, up, starts>>
  BY <1>3, RoutingIsRouted
<1>4. ASSUME NEW o \in Orders, Submit(o) \/ OrderStep(o), ~StartDrive(o)
      PROVE  UNCHANGED <<task, up, starts>>
  BY <1>4 DEF Submit, OrderStep, DeclineOrder, WriteReceipt, ReceiptFails,
       Register, FetchRecipe, FetchFails, ParseFails, DriveDelivers, DriveFails,
       ReceiveResult, ReceiveTimesOut, AnswerTimeout, taskVars, nodeVars
<1>5. \/ \E t \in Tasks : HandleDeliver(t) \/ LoseDeliver(t)
      \/ \E n, p \in Nodes, g \in Starts : Learn(n, p, g)
      \/ \E n \in Nodes, ps \in SUBSET Nodes : Forget(n, ps)
      \/ UNCHANGED vars
      => UNCHANGED <<task, up, starts>>
  BY DEF HandleDeliver, SignalHandler, IgnoreDeliver, LoseDeliver,
       Learn, Tables!Learn, Forget, Tables!Forget, vars, taskVars, nodeVars
<1>6. ASSUME NEW n \in Nodes, Restart(n)
      PROVE  Routing'
  <2>1. /\ task' = task
        /\ n \notin up /\ up' = up \union {n}
        /\ \A q \in Nodes : q # n => starts'[q] = starts[q]
    BY <1>6 DEF Restart, Tables!Restart, taskVars, TypeOK
  <2>2. \A t \in Tasks : task[t] # Free =>
          OwnRoute(task'[t]) /\ SameProcess(task[t], task'[t])
    BY <2>1 DEF Routing, Used, SameProcess
  <2>3. \A t \in Tasks : task[t] # Free /\ task[t].node \in up =>
          task[t].node \in up' /\ starts'[task[t].node] = starts[task[t].node]
    BY <2>1 DEF TypeOK
  <2>4. \A t \in Tasks : task[t] # Free => Routed(task', up', starts', t)
    BY <2>1, <2>2, <2>3, RoutingFrame
  <2> QED
    BY <2>1, <2>4, RoutingIsRouted
<1> QED
  BY <1>1, <1>2, <1>3, <1>4, <1>5, <1>6, TaskStepRouted DEF Next, Environment, Idle

\* A task forwards only what its process cannot execute, to a node whose entry has
\* it.
THEOREM RoutingHolds == Spec => []Routing
<1>1. Init => Routing /\ HandlersRun
  BY DEF Init, Routing, Used, HandlersRun, ActiveHandlers
<1> QED
  BY <1>1, NextRouted, NextHandlersRun, TypeCorrect, PTL DEF Spec

\* A hop that leads nowhere, back to its own node or to one that executes nothing,
\* was chosen by an entry of another start of the node than the one it reached: when
\* tables are up to date no payload bounces, whatever they hold otherwise and
\* however many restarts there were.
THEOREM HopsAdvance == Spec => []EveryHopAdvances
<1>1. TypeOK /\ Routing => EveryHopAdvances
  <2>. SUFFICES ASSUME TypeOK, Routing, NEW t \in Tasks, IsForwarded(t),
                       \/ task[t].node = task[task[t].parent].node
                       \/ /\ task[t].pc \in {"forwarding", "awaiting"}
                          /\ task[t].payload.index = task[t].first
                PROVE  task[t].entry # task[t].start
    BY DEF EveryHopAdvances
  <2>1. OwnRoute(task[t]) /\ task[t].parent # NoTask
    BY DEF Routing, IsForwarded
  <2>2. CASE task[t].node = task[task[t].parent].node
    BY <2>1, <2>2 DEF Routing, IsForwarded
  <2>3. CASE /\ task[t].pc \in {"forwarding", "awaiting"}
             /\ task[t].payload.index = task[t].first
    BY <2>1, <2>3 DEF OwnRoute
  <2> QED
    BY <2>2, <2>3
<1> QED
  BY <1>1, RoutingHolds, TypeCorrect, PTL

-----------------------------------------------------------------------------
(* The trace: the content.                                                 *)

\* The initial payload of handle_order carries nothing of its recipe yet.
LEMMA EmptyCarries ==
  ASSUME NEW o \in Orders
  PROVE  Carries(o, EmptyPayload)
BY DEF Carries, EmptyPayload

\* Executing the action at the index keeps the content a prefix of the recipe.
LEMMA ExecuteCarries ==
  ASSUME NEW o \in Orders, NEW p \in Payload, Carries(o, p),
         p.index < Len(Recipe[o])
  PROVE  Carries(o, Executed(p, Recipe[o][p.index + 1]))
<1>. DEFINE a == Recipe[o][p.index + 1]
            q == Append(p.content, a)
<1>1. a \in ActionNames
  BY DEF Payload
<1>2. /\ Len(q) = Len(p.content) + 1
      /\ \A i \in 1 .. Len(p.content) : q[i] = p.content[i]
      /\ q[Len(p.content) + 1] = a
  BY <1>1, AppendProperties DEF Payload
<1>3. \A k \in 1 .. p.index + 1 : q[k] = Recipe[o][k]
  BY <1>2 DEF Carries, Payload
<1>. HIDE DEF q
<1>4. Len(q) = p.index + 1
  BY <1>2 DEF Carries
<1> QED
  BY <1>3, <1>4 DEF Carries, Executed, Payload, q

\* A hop leaves the content alone.
LEMMA HopCarries ==
  ASSUME NEW o \in Orders, NEW p \in Payload, Carries(o, p), NEW n \in Nodes
  PROVE  Carries(o, Forwarded(p, n))
BY DEF Carries, Forwarded, Payload

\* At the end of the recipe the content is the recipe.
LEMMA DoneCarriesRecipe ==
  ASSUME NEW o \in Orders, NEW p \in Payload, Carries(o, p),
         p.index >= Len(Recipe[o])
  PROVE  p.content = Recipe[o]
<1>1. /\ p.content \in Seq(ActionNames)
      /\ Recipe[o] \in Seq(ActionNames)
      /\ Len(p.content) = Len(Recipe[o])
      /\ \A k \in 1 .. Len(p.content) : p.content[k] = Recipe[o][k]
  BY DEF Carries, Payload
<1> QED
  BY <1>1, SeqEqual

-----------------------------------------------------------------------------
(* The trail.                                                              *)

\* A trail without entries is honest.
LEMMA EmptyHonest ==
  ASSUME NEW o \in Orders, NEW W
  PROVE  Honest(o, <<>>, W) /\ HeldBy(Origin[o], o, <<>>, 0)
BY DEF Honest, HeldBy

\* Who holds the payload after k entries depends on those entries only.
LEMMA HeldByPrefix ==
  ASSUME NEW u \in Seq(Entry), NEW e \in Entry, NEW o \in Orders,
         NEW n \in Nodes, NEW k \in 0 .. Len(u)
  PROVE  HeldBy(n, o, Append(u, e), k) <=> HeldBy(n, o, u, k)
<1>. DEFINE v == Append(u, e)
<1>1. \A i \in 1 .. k : v[i] = u[i]
  BY AppendProperties
<1>. HIDE DEF v
<1>2. k \in Nat /\ \A j \in 1 .. k : \A i \in j + 1 .. k : i \in 1 .. k
  OBVIOUS
<1>3. ASSUME NEW j \in 1 .. k
      PROVE  (v[j] = Hop(n) /\ \A i \in j + 1 .. k : v[i].kind # "Forward") <=>
             (u[j] = Hop(n) /\ \A i \in j + 1 .. k : u[i].kind # "Forward")
  BY <1>1, <1>2
<1>4. HeldBy(n, o, v, k) <=> HeldBy(n, o, u, k)
  BY <1>1, <1>3 DEF HeldBy
<1> QED
  BY <1>4 DEF v

\* More workers leave a trail honest.
LEMMA HonestGrows ==
  ASSUME NEW o, NEW u, NEW W, NEW V, W \subseteq V, Honest(o, u, W)
  PROVE  Honest(o, u, V)
BY DEF Honest

Processes == [node : Nodes, start : Starts]

\* Adding an entry leaves the entries before it honest.
LEMMA AppendHonest ==
  ASSUME NEW u \in Seq(Entry), NEW e \in Entry, NEW o \in Orders,
         NEW W \in SUBSET Processes, Honest(o, u, W),
         e.kind = "Action" =>
           \E w \in W : HeldBy(w.node, o, u, Len(u)) /\ e.what \in Caps[w.node][w.start]
  PROVE  Honest(o, Append(u, e), W)
<1>. DEFINE v == Append(u, e)
<1>1. /\ Len(v) = Len(u) + 1
      /\ Len(u) \in Nat
      /\ \A i \in 1 .. Len(u) : v[i] = u[i]
      /\ v[Len(u) + 1] = e
  BY AppendProperties, LenProperties
<1>2. \A n \in Nodes, k \in 1 .. Len(u) + 1 :
        HeldBy(n, o, v, k - 1) <=> HeldBy(n, o, u, k - 1)
  BY <1>1, HeldByPrefix
<1>a. \A w \in W : w.node \in Nodes
  BY DEF Processes
<1>. HIDE DEF v
<1>3. SUFFICES ASSUME NEW k \in 1 .. Len(v), v[k].kind = "Action"
               PROVE  \E w \in W : /\ HeldBy(w.node, o, v, k - 1)
                                   /\ v[k].what \in Caps[w.node][w.start]
  BY DEF Honest, v
<1>4. CASE k \in 1 .. Len(u)
  <2>1. PICK w \in W : /\ HeldBy(w.node, o, u, k - 1)
                       /\ u[k].what \in Caps[w.node][w.start]
    BY <1>1, <1>3, <1>4 DEF Honest
  <2> QED
    BY <1>1, <1>2, <1>a, <1>4, <2>1
<1>5. CASE k = Len(u) + 1
  <2>1. v[k] = e /\ k - 1 = Len(u) /\ k \in 1 .. Len(u) + 1
    BY <1>1, <1>5
  <2>2. PICK w \in W : HeldBy(w.node, o, u, Len(u)) /\ e.what \in Caps[w.node][w.start]
    BY <1>3, <2>1
  <2>3. HeldBy(w.node, o, v, k - 1)
    BY <1>2, <1>a, <2>1, <2>2
  <2> QED
    BY <2>1, <2>2, <2>3
<1> QED
  BY <1>1, <1>4, <1>5

\* An index of a longer range is the new one or one from before.
LEMMA LastOrBefore ==
  ASSUME NEW n \in Nat, NEW j \in 1 .. n
  PROVE  \A i \in j + 1 .. n + 1 : i = n + 1 \/ i \in j + 1 .. n
OBVIOUS

\* Recording an action keeps the trail honest when its holder has the
\* capability, and leaves the payload where it is.
LEMMA ActionHonest ==
  ASSUME NEW u \in Seq(Entry), NEW o \in Orders, NEW n \in Nodes, NEW g \in Starts,
         NEW a \in Caps[n][g], NEW W \in SUBSET Processes,
         [node |-> n, start |-> g] \in W, Honest(o, u, W), HeldBy(n, o, u, Len(u))
  PROVE  /\ Honest(o, Append(u, Did(a)), W)
         /\ HeldBy(n, o, Append(u, Did(a)), Len(Append(u, Did(a))))
<1>1. Did(a) \in Entry /\ Did(a).what = a /\ Did(a).kind = "Action"
  BY CapsAssumption DEF Did, Entry
<1>2. Honest(o, Append(u, Did(a)), W)
  <2>1. \E w \in W : HeldBy(w.node, o, u, Len(u)) /\ a \in Caps[w.node][w.start]
    <3> WITNESS [node |-> n, start |-> g] \in W
    <3> QED
      OBVIOUS
  <2> QED
    BY <1>1, <2>1, AppendHonest
<1>. DEFINE v == Append(u, Did(a))
<1>3. /\ Len(v) = Len(u) + 1
      /\ Len(u) \in Nat
      /\ v[Len(u) + 1] = Did(a)
  BY <1>1, AppendProperties, LenProperties
<1>4. HeldBy(n, o, v, Len(u))
  BY <1>1, <1>3, HeldByPrefix
<1>. HIDE DEF v
<1>5. v[Len(u) + 1].kind # "Forward"
  BY <1>1, <1>3
<1>6. HeldBy(n, o, v, Len(u) + 1)
  <2>1. CASE n = Origin[o] /\ \A j \in 1 .. Len(u) : v[j].kind # "Forward"
    BY <1>3, <1>5, <2>1 DEF HeldBy
  <2>2. ASSUME NEW j \in 1 .. Len(u), v[j] = Hop(n),
               \A i \in j + 1 .. Len(u) : v[i].kind # "Forward"
        PROVE  HeldBy(n, o, v, Len(u) + 1)
    <3>1. \A i \in j + 1 .. Len(u) + 1 : v[i].kind # "Forward"
      <4>1. \A i \in j + 1 .. Len(u) + 1 : i = Len(u) + 1 \/ i \in j + 1 .. Len(u)
        BY <1>3, LastOrBefore
      <4> QED
        BY <1>5, <2>2, <4>1
    <3> QED
      BY <1>3, <2>2, <3>1 DEF HeldBy
  <2> QED
    BY <1>4, <2>1, <2>2 DEF HeldBy
<1> QED
  BY <1>2, <1>3, <1>6 DEF v

\* Recording a hop keeps it honest, and hands the payload to the hop's node.
LEMMA HopHonest ==
  ASSUME NEW u \in Seq(Entry), NEW o \in Orders, NEW n \in Nodes,
         NEW W \in SUBSET Processes, Honest(o, u, W)
  PROVE  /\ Honest(o, Append(u, Hop(n)), W)
         /\ HeldBy(n, o, Append(u, Hop(n)), Len(Append(u, Hop(n))))
<1>1. Hop(n) \in Entry /\ Hop(n).kind # "Action"
  BY DEF Hop, Entry
<1>2. Honest(o, Append(u, Hop(n)), W)
  BY <1>1, AppendHonest
<1>. DEFINE v == Append(u, Hop(n))
<1>3. /\ Len(v) = Len(u) + 1
      /\ Len(u) \in Nat
      /\ v[Len(u) + 1] = Hop(n)
  BY <1>1, AppendProperties, LenProperties
<1>. HIDE DEF v
<1>4. HeldBy(n, o, v, Len(v))
  <2>1. Len(v) \in 1 .. Len(v) /\ \A i \in Len(v) + 1 .. Len(v) : FALSE
    BY <1>3
  <2> QED
    BY <1>3, <2>1 DEF HeldBy
<1> QED
  BY <1>2, <1>4 DEF v

-----------------------------------------------------------------------------
(* The steps.                                                              *)

\* The traces after a step, with the workers before it.
TasksTraced == \A t \in Tasks : task'[t] # Free => TaskTrace(task'[t])
OrdersTraced == \A o \in Orders :
                  /\ \A i \in 1 .. Len(channel'[o]) : Sound(o, channel'[o][i])
                  /\ Sound(o, answer'[o])

\* The workers are processes, and a used task's process is one of them.
LEMMA WorkersTyped ==
  ASSUME TypeOK, NEW o \in Orders
  PROVE  Workers(o) \in SUBSET Processes
BY UsedTaskRecord DEF Workers, Processes, TaskRecord

LEMMA OwnProcess ==
  ASSUME NEW t \in Tasks, Used(t)
  PROVE  [node |-> task[t].node, start |-> task[t].start] \in Workers(task[t].order)
BY DEF Workers

\* A used task keeps its order and its process.
LEMMA ProcessesKept ==
  ASSUME TypeOK, [Next]_vars, NEW u \in Tasks, task[u] # Free
  PROVE  /\ task'[u] # Free
         /\ task'[u].order = task[u].order
         /\ task'[u].node = task[u].node
         /\ task'[u].start = task[u].start
<1>1. task[u] \in TaskRecord
  BY UsedTaskRecord DEF Used
<1>2. CASE UNCHANGED task
  BY <1>2
<1>3. ASSUME NEW t \in Tasks, TaskStep(t)
      PROVE  /\ task'[u] # Free
             /\ task'[u].order = task[u].order
             /\ task'[u].node = task[u].node
             /\ task'[u].start = task[u].start
  <2>1. CASE u # t
    BY <1>3, <2>1, OthersKept DEF Used
  <2>2. CASE u = t
    <3> USE <1>1, <2>2 DEF TypeOK, TaskRecord, Free
    <3>1. ASSUME NEW p \in Candidate, ForwardTo(t, p)
          PROVE  /\ task'[u].order = task[u].order
                 /\ task'[u].node = task[u].node
                 /\ task'[u].start = task[u].start
                 /\ task'[u].pc = "awaiting"
      <4>. DEFINE new == NewTask(task[t].order, p.node, p.entry,
                                 Forwarded(task[t].payload, p.node), t)
      <4>1. PICK c \in Tasks :
              /\ IsNext(c)
              /\ task' = [task EXCEPT ![c] = new, ![t].pc = "awaiting",
                                      ![t].cands = @ \ {p}, ![t].child = c]
        BY <3>1 DEF ForwardTo
      <4>2. c # t
        BY <4>1 DEF IsNext, Used
      <4>. HIDE DEF new
      <4> QED
        BY <4>1, <4>2
    <3>2. CASE Execute(t)
      BY <3>2 DEF Execute, Executed
    <3>3. CASE ReadCandidates(t)
      BY <3>3 DEF ReadCandidates
    <3>4. CASE \E p \in Candidate : ForwardRefused(t, p)
      BY <3>4 DEF ForwardRefused
    <3>5. CASE ForwardReply(t)
      <4>1. PICK c \in Tasks :
              task' = [task EXCEPT ![t].pc = "returned",
                                   ![t].response = task[c].response]
        BY <3>5 DEF ForwardReply
      <4> QED
        BY <4>1
    <3>6. CASE ForwardGivenUp(t)
      BY <3>6 DEF ForwardGivenUp
    <3>7. CASE DeliverSuccess(t) \/ DeliverFailure(t)
      BY <3>7 DEF DeliverSuccess, DeliverFailure, SendDeliver
    <3>8. CASE DeliverSuccessFails(t) \/ DeliverFailureFails(t)
      BY <3>8 DEF DeliverSuccessFails, DeliverFailureFails, SendDeliverFails
    <3> QED
      BY <1>3, <3>1, <3>2, <3>3, <3>4, <3>5, <3>6, <3>7, <3>8 DEF TaskStep
  <2> QED
    BY <2>1, <2>2
<1>4. ASSUME NEW o \in Orders, StartDrive(o)
      PROVE  task'[u] = task[u]
  BY <1>4 DEF StartDrive, IsNext, Used, TypeOK
<1>5. ASSUME NEW o \in Orders, Submit(o) \/ OrderStep(o), ~StartDrive(o)
      PROVE  UNCHANGED task
  BY <1>5 DEF Submit, OrderStep, DeclineOrder, WriteReceipt, ReceiptFails,
       Register, FetchRecipe, FetchFails, ParseFails, DriveDelivers, DriveFails,
       ReceiveResult, ReceiveTimesOut, AnswerTimeout, taskVars
<1>6. ASSUME NEW n \in Nodes, Crash(n)
      PROVE  task'[u] = task[u] \/ task'[u] = [task[u] EXCEPT !.pc = "dead"]
  BY <1>6 DEF Crash
<1>7. \/ \E t \in Tasks : HandleDeliver(t) \/ LoseDeliver(t)
      \/ \E n \in Nodes : Restart(n)
      \/ \E n, p \in Nodes, g \in Starts : Learn(n, p, g)
      \/ \E n \in Nodes, ps \in SUBSET Nodes : Forget(n, ps)
      \/ UNCHANGED vars
      => UNCHANGED task
  BY DEF HandleDeliver, SignalHandler, IgnoreDeliver, LoseDeliver, Restart, Learn,
       Forget, vars, taskVars
<1>8. ASSUME task'[u] = task[u] \/ task'[u] = [task[u] EXCEPT !.pc = "dead"]
      PROVE  /\ task'[u] # Free
             /\ task'[u].order = task[u].order
             /\ task'[u].node = task[u].node
             /\ task'[u].start = task[u].start
  BY <1>1, <1>8 DEF TaskRecord, Free
<1> QED
  BY <1>2, <1>3, <1>4, <1>5, <1>6, <1>7, <1>8 DEF Next, Environment, Idle

\* Hence no worker of an order is ever forgotten.
LEMMA WorkersGrow ==
  ASSUME TypeOK, [Next]_vars, NEW o
  PROVE  Workers(o) \subseteq Workers(o)'
<1>. SUFFICES ASSUME NEW t \in Tasks, Used(t), task[t].order = o
              PROVE  [node |-> task[t].node, start |-> task[t].start] \in Workers(o)'
  BY DEF Workers
<1> QED
  BY ProcessesKept DEF Workers, Used

\* A frame without a pizza is sound.
LEMMA FrameSound ==
  ASSUME NEW o \in Orders, NEW kind \in {"Declined", "Failed", "Error", "Lost"}
  PROVE  Sound(o, Frame(kind))
BY EmptyHonest DEF Sound, Frame, EmptyPayload

\* A task that starts with a traced payload at the node of its last hop.
LEMMA NewTaskTraced ==
  ASSUME NEW o \in Orders, NEW n \in Nodes, NEW p \in Payload, NEW u,
         NEW e, Carries(o, p), Honest(o, p.updates, Workers(o)),
         HeldBy(n, o, p.updates, Len(p.updates))
  PROVE  TaskTrace(NewTask(o, n, e, p, u))
BY DEF TaskTrace, NewTask

\* Changing what is not the payload's keeps the trace.
LEMMA SamePayloadTraced ==
  ASSUME NEW r, NEW s, TaskTrace(r),
         s.order = r.order, s.node = r.node, s.payload = r.payload,
         s.deliver = r.deliver, s.pc \in LiveTask => r.pc \in LiveTask
  PROVE  TaskTrace(s)
BY DEF TaskTrace

\* Only t's record changes, and perhaps a free slot is filled.
LEMMA TaskStepTraced ==
  ASSUME TypeOK, PizzaTrace, NEW t \in Tasks, TaskStep(t)
  PROVE  TasksTraced
<1>. DEFINE W == Workers(task[t].order)
<1>1. Live(t) /\ task[t] \in TaskRecord /\ TaskTrace(task[t])
  BY StepperIsLive, LiveTaskRecord DEF PizzaTrace, Used, Free, Live, LiveTask
<1>2. /\ task[t].payload \in Payload
      /\ task[t].payload.updates \in Seq(Entry)
      /\ task[t].order \in Orders
      /\ task[t].node \in Nodes
      /\ Carries(task[t].order, task[t].payload)
      /\ task[t].start \in Starts
      /\ Honest(task[t].order, task[t].payload.updates, W)
      /\ HeldBy(task[t].node, task[t].order, task[t].payload.updates,
                Len(task[t].payload.updates))
  BY <1>1 DEF TaskRecord, Payload, TaskTrace, Live
<1>w. /\ W \in SUBSET Processes
      /\ [node |-> task[t].node, start |-> task[t].start] \in W
  <2>1. Used(t)
    BY <1>1 DEF Used, Live, LiveTask, Free
  <2> QED
    BY <1>2, <2>1, WorkersTyped, OwnProcess
<1>. HIDE DEF W
<1>3. \A u \in Tasks : Used(u) /\ u # t => TaskTrace(task'[u])
  BY OthersKept DEF PizzaTrace, Used
<1>4. ASSUME TaskTrace(task'[t]),
             \A u \in Tasks : u # t => task'[u] = task[u]
      PROVE  TasksTraced
  BY <1>3, <1>4 DEF TasksTraced, Used
<1>5. CASE Execute(t)
  <2>. DEFINE a == NextAction(t)
              q == Executed(task[t].payload, a)
  <2>1. task[t].payload.index < Len(Recipe[task[t].order])
    BY <1>2, <1>5 DEF Execute, AllDone, Todo, Payload
  <2>2. Carries(task[t].order, q)
    BY <1>2, <2>1, ExecuteCarries DEF NextAction, Todo
  <2>3. a \in Caps[task[t].node][task[t].start]
    BY <1>5 DEF Execute, CanExecute
  <2>4. /\ Honest(task[t].order, q.updates, W)
        /\ HeldBy(task[t].node, task[t].order, q.updates, Len(q.updates))
    BY <1>2, <1>w, <2>3, ActionHonest DEF Executed
  <2>5. q.index >= task[t].payload.index
    BY <1>2 DEF Executed, Payload
  <2>6. task' = [task EXCEPT ![t].payload = q]
    BY <1>5 DEF Execute
  <2>. HIDE DEF q
  <2>7. /\ task'[t].order = task[t].order /\ task'[t].payload = q
        /\ task'[t].node = task[t].node /\ task'[t].deliver = task[t].deliver
    BY <1>1, <2>6 DEF TypeOK, TaskRecord
  <2>8. task[t].deliver = "success" => q.index >= Len(Recipe[task[t].order])
    BY <1>1, <2>1 DEF TaskTrace, TaskRecord, Payload
  <2>9. TaskTrace(task'[t])
    BY <2>2, <2>4, <2>7, <2>8 DEF TaskTrace, W
  <2> QED
    BY <1>4, <2>6, <2>9 DEF TypeOK
<1>6. CASE ReadCandidates(t)
  <2>1. /\ task'[t].order = task[t].order /\ task'[t].payload = task[t].payload
        /\ task'[t].node = task[t].node /\ task'[t].deliver = task[t].deliver
        /\ \A u \in Tasks : u # t => task'[u] = task[u]
    BY <1>1, <1>6 DEF ReadCandidates, TypeOK, TaskRecord
  <2> QED
    BY <1>1, <1>4, <2>1, SamePayloadTraced DEF Live
<1>7. ASSUME NEW p \in Candidate, ForwardTo(t, p)
      PROVE  TasksTraced
  <2>. DEFINE q == Forwarded(task[t].payload, p.node)
              new == NewTask(task[t].order, p.node, p.entry, q, t)
              r == [task[t] EXCEPT !.pc = "awaiting", !.cands = @ \ {p}]
  <2>1. PICK c \in Tasks :
          /\ IsNext(c)
          /\ task' = [task EXCEPT ![c] = new, ![t].pc = "awaiting",
                                  ![t].cands = @ \ {p}, ![t].child = c]
    BY <1>7 DEF ForwardTo
  <2>2. c # t
    BY <1>1, <2>1 DEF IsNext, Used, Live, LiveTask, Free
  <2>3. /\ q \in Payload
        /\ Carries(task[t].order, q)
        /\ Honest(task[t].order, q.updates, W)
        /\ HeldBy(p.node, task[t].order, q.updates, Len(q.updates))
    BY <1>2, <1>w, HopPayload, HopCarries, HopHonest DEF Forwarded, Payload, Candidate
  <2>. HIDE DEF q
  <2>4. TaskTrace(new)
    BY <1>2, <2>3, NewTaskTraced DEF Candidate, W
  <2>. HIDE DEF new
  <2>5. /\ task'[t].order = task[t].order /\ task'[t].payload = task[t].payload
        /\ task'[t].node = task[t].node /\ task'[t].deliver = task[t].deliver
        /\ task'[c] = new
        /\ \A u \in Tasks : u # t /\ u # c => task'[u] = task[u]
    BY <1>1, <2>1, <2>2 DEF TypeOK, TaskRecord
  <2>6. TaskTrace(task'[t])
    BY <1>1, <2>5, SamePayloadTraced DEF Live
  <2> QED
    BY <2>4, <2>5, <2>6 DEF TasksTraced, PizzaTrace, Used
<1>8. ASSUME \/ \E p \in Candidate : ForwardRefused(t, p)
             \/ ForwardReply(t)
             \/ ForwardGivenUp(t)
             \/ SendDeliverFails(t)
      PROVE  TasksTraced
  <2>1. /\ task'[t].order = task[t].order /\ task'[t].payload = task[t].payload
        /\ task'[t].node = task[t].node /\ task'[t].deliver = task[t].deliver
        /\ \A u \in Tasks : u # t => task'[u] = task[u]
    BY <1>1, <1>8 DEF ForwardRefused, ForwardReply, ForwardGivenUp, SendDeliverFails, TypeOK, TaskRecord
  <2> QED
    BY <1>1, <1>4, <2>1, SamePayloadTraced DEF Live
<1>9. CASE DeliverSuccess(t)
  <2>. DEFINE q == Forwarded(task[t].payload, Host(t))
  <2>1. /\ Host(t) \in Nodes
        /\ task[t].payload.index >= Len(Recipe[task[t].order])
    BY <1>2, <1>9 DEF DeliverSuccess, AllDone, Todo, Host
  <2>2. /\ Carries(task[t].order, q)
        /\ Honest(task[t].order, q.updates, W)
        /\ q.index = task[t].payload.index
    BY <1>2, <1>w, <2>1, HopCarries, HopHonest DEF Forwarded, Payload
  <2>. HIDE DEF q
  <2>3. /\ task'[t].order = task[t].order
        /\ task'[t].payload = q
        /\ task'[t].pc = "returned"
        /\ \A u \in Tasks : u # t => task'[u] = task[u]
    BY <1>1, <1>9 DEF DeliverSuccess, SendDeliver, TypeOK, TaskRecord, q
  <2>4. TaskTrace(task'[t])
    BY <2>1, <2>2, <2>3 DEF TaskTrace, LiveTask, W
  <2> QED
    BY <1>4, <2>3, <2>4
<1>10. CASE DeliverFailure(t)
  <2>1. /\ task'[t].order = task[t].order
        /\ task'[t].payload = task[t].payload
        /\ task'[t].pc = "returned"
        /\ task'[t].deliver = "failure"
        /\ \A u \in Tasks : u # t => task'[u] = task[u]
    BY <1>1, <1>10 DEF DeliverFailure, SendDeliver, TypeOK, TaskRecord
  <2>2. TaskTrace(task'[t])
    BY <1>2, <2>1 DEF TaskTrace, LiveTask, W
  <2> QED
    BY <1>4, <2>1, <2>2
<1> QED
  BY <1>5, <1>6, <1>7, <1>8, <1>9, <1>10 DEF TaskStep, DeliverSuccessFails, DeliverFailureFails

\* A step of a handle_order thread keeps the traces.
LEMMA OrderStepTraced ==
  ASSUME TypeOK, PizzaTrace, NEW o \in Orders, Submit(o) \/ OrderStep(o)
  PROVE  TasksTraced /\ OrdersTraced
<1>1. CASE StartDrive(o)
  <2>1. PICK t \in Tasks :
          /\ IsNext(t)
          /\ task' = [task EXCEPT
                        ![t] = NewTask(o, Origin[o], NoEntry, EmptyPayload, NoTask)]
    BY <1>1 DEF StartDrive
  <2>. DEFINE new == NewTask(o, Origin[o], NoEntry, EmptyPayload, NoTask)
  <2>2. TaskTrace(new)
    <3>1. EmptyPayload \in Payload /\ EmptyPayload.updates = <<>>
      BY DEF EmptyPayload, Payload
    <3> QED
      BY <3>1, EmptyCarries, EmptyHonest, NewTaskTraced
  <2>. HIDE DEF new
  <2>3. \A u \in Tasks : Used(u)' => TaskTrace(task'[u])
    BY <2>1, <2>2 DEF TypeOK, PizzaTrace, Used, new
  <2> QED
    BY <1>1, <2>3 DEF StartDrive, PizzaTrace, TasksTraced, OrdersTraced, Used
<1>2. CASE ReceiveResult(o)
  <2>. DEFINE m == Head(channel[o])
  <2>1. /\ channel[o] \in Seq(Message)
        /\ channel[o] # <<>>
    BY <1>2 DEF ReceiveResult, TypeOK
  <2>2. /\ m = channel[o][1]
        /\ 1 \in 1 .. Len(channel[o])
        /\ Len(Tail(channel[o])) = Len(channel[o]) - 1
        /\ \A i \in 1 .. Len(Tail(channel[o])) :
             /\ Tail(channel[o])[i] = channel[o][i + 1]
             /\ i + 1 \in 1 .. Len(channel[o])
    BY <2>1, HeadTailProperties, LenProperties, EmptySeq
  <2>. HIDE DEF m
  <2>3. Sound(o, m)
    BY <2>2 DEF PizzaTrace
  <2>4. \A i \in 1 .. Len(Tail(channel[o])) : Sound(o, Tail(channel[o])[i])
    BY <2>2 DEF PizzaTrace
  <2> QED
    BY <1>2, <2>3, <2>4 DEF ReceiveResult, Finish, PizzaTrace, TypeOK, Used, m,
         taskVars, TasksTraced, OrdersTraced
<1>3. CASE \/ DeclineOrder(o) \/ ReceiptFails(o) \/ FetchFails(o) \/ ParseFails(o)
           \/ DriveFails(o) \/ AnswerTimeout(o)
  <2>1. /\ UNCHANGED <<channel, task>>
        /\ \E kind \in {"Declined", "Error", "Lost"} :
             answer' = [answer EXCEPT ![o] = Frame(kind)]
    BY <1>3 DEF DeclineOrder, ReceiptFails, FetchFails, ParseFails, DriveFails,
         AnswerTimeout, Finish, taskVars
  <2> QED
    BY <2>1, FrameSound DEF PizzaTrace, TypeOK, Used, TasksTraced, OrdersTraced
<1>4. CASE \/ WriteReceipt(o) \/ Register(o) \/ FetchRecipe(o)
           \/ DriveDelivers(o) \/ ReceiveTimesOut(o)
  <2>1. UNCHANGED <<channel, task, answer>>
    BY <1>4 DEF WriteReceipt, Register, FetchRecipe, DriveDelivers,
         ReceiveTimesOut, taskVars
  <2> QED
    BY <2>1 DEF PizzaTrace, Used, TasksTraced, OrdersTraced
<1> QED
  BY <1>1, <1>2, <1>3, <1>4 DEF Submit, OrderStep

\* A deliver that is signalled puts the trace of its task in the channel.
LEMMA DeliverStepTraced ==
  ASSUME TypeOK, PizzaTrace, NEW t \in Tasks, SignalHandler(t)
  PROVE  TasksTraced /\ OrdersTraced
<1>. DEFINE o == task[t].order
            m == Delivered(t)
<1>1. /\ t \in inflight /\ Used(t) /\ o \in Orders
      /\ task' = task /\ answer' = answer
    BY DEF SignalHandler, TypeOK, Used, Free
<1>2. /\ m \in Message
      /\ TaskTrace(task[t])
      /\ task[t].payload \in Payload
  BY <1>1, DeliveredMessage, UsedTaskRecord DEF PizzaTrace, TaskRecord
<1>3. Sound(o, m)
  <2>1. CASE task[t].deliver = "success"
    <3>1. Honest(o, Append(task[t].payload.updates, Closed), Workers(o))
      BY <1>1, <1>2, AppendHonest, WorkersTyped DEF Closed, Entry, TaskTrace, Payload
    <3>2. task[t].payload.content = Recipe[o]
      BY <1>1, <1>2, <2>1, DoneCarriesRecipe DEF TaskTrace
    <3>3. /\ m.payload.content = task[t].payload.content
          /\ m.payload.updates = Append(task[t].payload.updates, Closed)
      BY <1>2, <2>1 DEF Delivered, Payload
    <3> QED
      BY <3>1, <3>2, <3>3 DEF Sound
  <2>2. CASE task[t].deliver # "success"
    BY <1>1, <2>2, FrameSound DEF Delivered
  <2> QED
    BY <2>1, <2>2
<1>4. channel[o] \in Seq(Message)
  BY <1>1 DEF TypeOK
<1>5. \A i \in 1 .. Len(Append(channel[o], m)) : Sound(o, Append(channel[o], m)[i])
  <2>. DEFINE c == channel[o]
              d == Append(c, m)
  <2>1. /\ Len(d) = Len(c) + 1
        /\ Len(c) \in Nat
        /\ \A i \in 1 .. Len(c) : d[i] = c[i]
        /\ d[Len(c) + 1] = m
    BY <1>2, <1>4, AppendProperties, LenProperties
  <2>2. \A i \in 1 .. Len(c) : Sound(o, c[i])
    BY <1>1 DEF PizzaTrace
  <2>. HIDE DEF d, c, o, m
  <2>3. \A i \in 1 .. Len(d) : i \in 1 .. Len(c) \/ i = Len(c) + 1
    BY <2>1
  <2>4. \A i \in 1 .. Len(d) : Sound(o, d[i])
    BY <1>3, <2>1, <2>2, <2>3
  <2> QED
    BY <2>4 DEF c, d
<1>6. channel' = channel \/ channel' = [channel EXCEPT ![o] = Append(@, m)]
  BY DEF SignalHandler
<1>. HIDE DEF o, m
<1>7. \A u \in Tasks : Used(u)' => TaskTrace(task'[u])
  BY <1>1 DEF PizzaTrace, Used
<1>8. ASSUME NEW p \in Orders
      PROVE  /\ \A i \in 1 .. Len(channel'[p]) : Sound(p, channel'[p][i])
             /\ Sound(p, answer'[p])
  <2>1. \/ channel'[p] = channel[p]
        \/ p = o /\ channel'[p] = Append(channel[p], m)
    BY <1>6 DEF TypeOK
  <2> QED
    BY <1>1, <1>5, <2>1 DEF PizzaTrace
<1> QED
  BY <1>7, <1>8 DEF TasksTraced, OrdersTraced, Used

\* A crash loses channels and answers, and changes no payload.
LEMMA CrashTraced ==
  ASSUME TypeOK, PizzaTrace, NEW n \in Nodes, Crash(n)
  PROVE  TasksTraced /\ OrdersTraced
<1>1. \A t \in Tasks : Used(t)' => TaskTrace(task'[t])
  <2>. SUFFICES ASSUME NEW t \in Tasks, Used(t)'
                PROVE  TaskTrace(task'[t])
    OBVIOUS
  <2>1. CASE task'[t] = task[t]
    BY <2>1 DEF PizzaTrace, Used
  <2>2. CASE Live(t) /\ task'[t] = [task[t] EXCEPT !.pc = "dead"]
    <3>1. task[t] \in TaskRecord /\ TaskTrace(task[t])
      BY <2>2, LiveTaskRecord DEF PizzaTrace, Used, Free, Live, LiveTask
    <3> QED
      BY <2>2, <3>1, SamePayloadTraced DEF TaskRecord, LiveTask
  <2> QED
    BY <2>1, <2>2 DEF Crash
<1>2. \A o \in Orders : /\ channel'[o] = <<>> \/ channel'[o] = channel[o]
                        /\ answer'[o] = Frame("Lost") \/ answer'[o] = answer[o]
  BY DEF Crash
<1>3. \A o \in Orders : /\ \A i \in 1 .. Len(channel'[o]) : Sound(o, channel'[o][i])
                        /\ Sound(o, answer'[o])
  <2>. SUFFICES ASSUME NEW o \in Orders
                PROVE  /\ \A i \in 1 .. Len(channel'[o]) : Sound(o, channel'[o][i])
                       /\ Sound(o, answer'[o])
    OBVIOUS
  <2>1. Sound(o, answer'[o])
    BY <1>2, FrameSound DEF PizzaTrace
  <2>2. CASE channel'[o] = channel[o]
    BY <2>1, <2>2 DEF PizzaTrace
  <2>3. CASE channel'[o] = <<>>
    BY <2>1, <2>3
  <2> QED
    BY <1>2, <2>2, <2>3
<1> QED
  BY <1>1, <1>3 DEF TasksTraced, OrdersTraced, Used

\* Hence every step keeps the traces.
LEMMA NextTraced == TypeOK /\ PizzaTrace /\ [Next]_vars => PizzaTrace'
<1> SUFFICES ASSUME TypeOK, PizzaTrace, [Next]_vars
             PROVE  PizzaTrace'
  OBVIOUS
<1>1. ASSUME TasksTraced, OrdersTraced
      PROVE  PizzaTrace'
  <2>1. \A o : Workers(o) \subseteq Workers(o)'
    BY WorkersGrow
  <2>2. ASSUME NEW t \in Tasks, Used(t)'
        PROVE  TaskTrace(task[t])'
    <3>1. TaskTrace(task'[t])
      BY <1>1, <2>2 DEF TasksTraced, Used
    <3>2. Honest(task'[t].order, task'[t].payload.updates, Workers(task[t].order)')
      BY <2>1, <3>1, HonestGrows DEF TaskTrace
    <3> QED
      BY <3>1, <3>2 DEF TaskTrace
  <2>3. ASSUME NEW o \in Orders, NEW m, Sound(o, m)
        PROVE  m.kind = "Completed" => m.payload.content = Recipe[o]
    BY <2>3 DEF Sound
  <2>4. ASSUME NEW o \in Orders, NEW m, Sound(o, m)
        PROVE  Honest(o, m.payload.updates, Workers(o)')
    BY <2>1, <2>4, HonestGrows DEF Sound
  <2>5. ASSUME NEW o \in Orders
        PROVE  /\ \A i \in 1 .. Len(channel'[o]) : Sound(o, channel[o][i])'
               /\ Sound(o, answer[o])'
    <3>1. /\ \A i \in 1 .. Len(channel'[o]) : Sound(o, channel'[o][i])
          /\ Sound(o, answer'[o])
      BY <1>1 DEF OrdersTraced
    <3> QED
      BY <2>3, <2>4, <3>1 DEF Sound
  <2> QED
    BY <2>2, <2>5 DEF PizzaTrace
<1>2. ASSUME NEW t \in Tasks, TaskStep(t)
      PROVE  TasksTraced /\ OrdersTraced
  <2>1. UNCHANGED <<channel, answer>>
    BY <1>2, TasksKeepOrders DEF orderVars
  <2> QED
    BY <1>2, <2>1, TaskStepTraced DEF PizzaTrace, OrdersTraced
<1>3. CASE UNCHANGED <<task, channel, answer>>
  BY <1>3, <1>1 DEF PizzaTrace, Used, TasksTraced, OrdersTraced
<1>4. \/ \E t \in Tasks : IgnoreDeliver(t) \/ LoseDeliver(t)
      \/ \E n \in Nodes : Restart(n)
      \/ \E n, p \in Nodes, g \in Starts : Learn(n, p, g)
      \/ \E n \in Nodes, ps \in SUBSET Nodes : Forget(n, ps)
      \/ UNCHANGED vars
      => UNCHANGED <<task, channel, answer>>
  BY DEF IgnoreDeliver, LoseDeliver, Restart, Learn, Forget, vars, orderVars, taskVars
<1> QED
  BY <1>1, <1>2, <1>3, <1>4, OrderStepTraced, DeliverStepTraced, CrashTraced
     DEF Next, HandleDeliver, Environment, Idle

\* Every payload, message and answer carries a prefix of its recipe, or all of it
\* if it says "Completed", and an honest trail.
THEOREM PizzasTraced == Spec => []PizzaTrace
<1>1. Init => PizzaTrace
  BY EmptyHonest, EmptySeq DEF Init, PizzaTrace, Used, Sound, None, EmptyPayload
<1> QED
  BY <1>1, NextTraced, TypeCorrect, PTL DEF Spec

\* "Completed" is answered only with the whole recipe, executed in order.
THEOREM CompletedOrdersAreWhole == Spec => []CompletedIsWholeRecipe
<1>1. PizzaTrace => CompletedIsWholeRecipe
  BY DEF PizzaTrace, Sound, CompletedIsWholeRecipe
<1> QED
  BY <1>1, PizzasTraced, PTL

\* The update trail a client is given names, for each action, a node that had the
\* capability in the start of it that worked on the order.
THEOREM AnswerTrailsAreHonest == Spec => []AnswerTrailIsHonest
<1>1. PizzaTrace => AnswerTrailIsHonest
  BY DEF PizzaTrace, Sound, AnswerTrailIsHonest
<1> QED
  BY <1>1, PizzasTraced, PTL
=============================================================================
