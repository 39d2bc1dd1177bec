-------------------------- MODULE OrderAnswerProofs --------------------------
(***************************************************************************)
(* What the clients of OrderExecution are told, for any nodes, recipes, peer *)
(* tables and bounds: a failure has a cause, and the nodes implement the     *)
(* service of OrderService.                                                  *)
(***************************************************************************)
EXTENDS OrderTaskProofs

USE RecipeAssumption, PlacementAssumption, BoundsAssumption
USE DEF Blame, historyVars

-----------------------------------------------------------------------------
(* Orders for which nothing went wrong.                                    *)

\* Nothing went wrong for o, and the tables cover it.
Calm(o) == o \notin Unparsable /\ o \notin mishap /\ Covered(o)

\* No node has restarted or is down, and an entry of a table that is not what it was
\* in the beginning describes the present start.
Whole == /\ up = Nodes /\ starts = Started
         /\ \A n, p \in Nodes : known[n][p] \in {InitKnown[n][p], Started[p]}

\* A task of such an order finds candidates, and delivers a success.
SmoothTask(r) ==
    /\ r.pc = "forwarding" => r.cands # {}
    /\ r.pc = "returned" => r.response = "Placeholder"
    /\ r.deliver # "failure"

\* Its handler never waits for nothing: what was delivered is on its way to it, or
\* in its channel.
SmoothOrder(o) ==
    /\ handler[o] \notin {"timedout", "dead"}
    /\ answer[o].kind \in {"None", "Completed"}
    /\ \A i \in 1 .. Len(channel[o]) : channel[o][i].kind = "Completed"
    /\ \A t \in Tasks : (task[t] # Free /\ task[t].order = o) =>
         /\ SmoothTask(task[t])
         /\ (task[t].deliver # "none" /\ handler[o] \in {"driving", "waiting"}) =>
              t \in inflight \/ channel[o] # <<>>

Smooth == /\ Orders \subseteq mishap \/ Whole
          /\ \A o \in Orders : Calm(o) => SmoothOrder(o)

\* What is wrong once is blamed for ever.
LEMMA BlameKept ==
  ASSUME TypeOK, [Next]_vars
  PROVE  mishap \subseteq mishap'
<1>1. ASSUME NEW o \in Orders, Submit(o) \/ OrderStep(o)
      PROVE  mishap \subseteq mishap'
  BY <1>1 DEF Submit, OrderStep, DeclineOrder, WriteReceipt, ReceiptFails,
       Register, FetchRecipe, FetchFails, ParseFails, StartDrive, DriveDelivers,
       DriveFails, ReceiveResult, ReceiveTimesOut, AnswerTimeout, taskVars
<1>2. ASSUME NEW t \in Tasks, TaskStep(t)
      PROVE  mishap \subseteq mishap'
  BY <1>2 DEF TaskStep, Execute, ReadCandidates, ForwardTo, ForwardRefused,
       ForwardReply, ForwardGivenUp, DeliverSuccess, DeliverSuccessFails,
       DeliverFailure, DeliverFailureFails, SendDeliver, SendDeliverFails,
       UnchangedButTask
<1>3. \/ \E t \in Tasks : HandleDeliver(t) \/ LoseDeliver(t)
      \/ \E n \in Nodes : Restart(n) \/ Crash(n)
      \/ \E n, p \in Nodes, g \in Starts : Learn(n, p, g)
      \/ \E n \in Nodes, ps \in SUBSET Nodes : Forget(n, ps)
      \/ UNCHANGED vars
      => mishap \subseteq mishap'
  BY DEF HandleDeliver, SignalHandler, IgnoreDeliver, LoseDeliver, Restart,
       Learn, Forget, Crash, vars, taskVars
<1> QED
  BY <1>1, <1>2, <1>3 DEF Next, Environment, Idle

\* The nodes and the tables are as they were, or grew, or every order is blamed.
LEMMA WholeKept ==
  ASSUME TypeOK, Orders \subseteq mishap \/ Whole, [Next]_vars
  PROVE  Orders \subseteq mishap' \/ Whole'
<1>1. CASE UNCHANGED nodeVars
  BY <1>1, BlameKept DEF Whole, nodeVars
<1>2. CASE Orders \subseteq mishap
  BY <1>2, BlameKept
<1>3. ASSUME NEW n \in Nodes, NEW p \in Nodes, NEW g \in Starts, Learn(n, p, g), Whole
      PROVE  Orders \subseteq mishap' \/ Whole'
  <2>1. CASE g # starts[p]
    BY <1>3, <2>1 DEF Learn
  <2>2. CASE g = starts[p]
    BY <1>3, <2>2 DEF Whole, Learn, Tables!Learn, TypeOK
  <2> QED
    BY <2>1, <2>2
<1>4. ASSUME NEW n \in Nodes, Restart(n)
      PROVE  ~Whole
  BY <1>4 DEF Whole, Restart, Tables!Restart
<1>5. ASSUME NEW n \in Nodes, \/ Crash(n)
                              \/ \E ps \in SUBSET Nodes : Forget(n, ps)
      PROVE  Orders \subseteq mishap'
  BY <1>5 DEF Crash, Forget
<1>6. ASSUME NEW o \in Orders, Submit(o) \/ OrderStep(o)
      PROVE  UNCHANGED nodeVars
  BY <1>6 DEF Submit, OrderStep, DeclineOrder, WriteReceipt, ReceiptFails,
       Register, FetchRecipe, FetchFails, ParseFails, StartDrive, DriveDelivers,
       DriveFails, ReceiveResult, ReceiveTimesOut, AnswerTimeout
<1>7. ASSUME NEW t \in Tasks, TaskStep(t) \/ HandleDeliver(t) \/ LoseDeliver(t)
      PROVE  UNCHANGED nodeVars
  BY <1>7, TaskMoves DEF HandleDeliver, SignalHandler, IgnoreDeliver, LoseDeliver
<1>8. CASE UNCHANGED vars
  BY <1>8, <1>1 DEF vars
<1> QED
  BY <1>1, <1>2, <1>3, <1>4, <1>5, <1>6, <1>7, <1>8
     DEF Next, Environment, Idle

\* An order whose handler and tasks stay as they are stays smooth.
LEMMA SmoothFrame ==
  ASSUME NEW o \in Orders, SmoothOrder(o),
         handler'[o] = handler[o], answer'[o] = answer[o],
         channel'[o] = channel[o],
         \A t \in Tasks : (task'[t] # Free /\ task'[t].order = o) =>
           /\ task'[t] = task[t]
           /\ t \in inflight => t \in inflight'
  PROVE  SmoothOrder(o)'
BY DEF SmoothOrder, SmoothTask

\* A step of the handler of a calm order: it finds the recipe, its drive does not
\* fail, and it does not wait in vain.
LEMMA OrderStepSmooth ==
  ASSUME TypeOK, Family, Smooth,
         NEW q \in Orders, Submit(q) \/ OrderStep(q),
         NEW o \in Orders, Calm(o), Calm(o)'
  PROVE  SmoothOrder(o)'
<1>1. SmoothOrder(o) /\ Whole
  BY DEF Smooth, Calm
<1>. USE DEF Goto, Finish, TypeOK
<1>2. CASE q # o
  <2>1. ASSUME StartDrive(q)
        PROVE  SmoothOrder(o)'
    <3>1. PICK c \in Tasks :
            task' = [task EXCEPT
                       ![c] = NewTask(q, Origin[q], NoEntry, EmptyPayload, NoTask)]
      BY <2>1 DEF StartDrive
    <3>2. task'[c].order = q /\ \A u \in Tasks \ {c} : task'[u] = task[u]
      BY <3>1 DEF NewTask
    <3>3. /\ handler'[o] = handler[o] /\ answer' = answer /\ channel' = channel
          /\ inflight' = inflight
      BY <1>2, <2>1 DEF StartDrive
    <3> QED
      BY <1>1, <1>2, <3>2, <3>3, SmoothFrame
  <2>2. ASSUME ~StartDrive(q)
        PROVE  /\ handler'[o] = handler[o] /\ answer'[o] = answer[o]
               /\ channel'[o] = channel[o] /\ task' = task /\ inflight' = inflight
    BY <1>2, <2>2 DEF Submit, OrderStep, DeclineOrder, WriteReceipt, ReceiptFails,
       Register, FetchRecipe, FetchFails, ParseFails, DriveDelivers, DriveFails,
       ReceiveResult, ReceiveTimesOut, AnswerTimeout, taskVars
  <2> QED
    BY <1>1, <2>1, <2>2, SmoothFrame
<1>3. CASE q = o
  <2>1. Available(o)
    <3>1. PICK p \in Nodes : /\ InitKnown[Origin[o]][p] # 0 \/ p = Origin[o]
                             /\ o \in Menu[p][Started[p]]
      BY DEF Calm, Covered
    <3>2. CASE p = Origin[o]
      BY <1>1, <3>1, <3>2 DEF Whole, Available, IsLocal, HasRecipe
    <3>3. CASE InitKnown[Origin[o]][p] # 0
      <4>1. known[Origin[o]][p] = Started[p] /\ known[Origin[o]][p] # 0
        BY <1>1, <3>3, StartAssumption DEF Calm, Covered, Whole, Starts
      <4> QED
        BY <3>1, <4>1 DEF Available, Offers
    <3> QED
      BY <3>1, <3>2, <3>3
  <2>2. ~DeclineOrder(o) /\ ~ReceiptFails(o) /\ ~FetchFails(o) /\ ~ParseFails(o)
    BY <2>1 DEF DeclineOrder, ReceiptFails, FetchFails, ParseFails, Calm
  <2>3. ~DriveFails(o) /\ ~AnswerTimeout(o)
    BY <1>1 DEF DriveFails, AnswerTimeout, SmoothOrder, SmoothTask, IsRoot, Used
  <2>4. ~ReceiveTimesOut(o)
    <3> SUFFICES ASSUME ReceiveTimesOut(o)
                 PROVE  o \in mishap'
      BY DEF Calm
    <3>1. handler[o] = "waiting" /\ channel[o] = <<>>
      BY DEF ReceiveTimesOut
    <3>2. PICK u \in Tasks : /\ task[u] # Free /\ task[u].order = o
                             /\ task[u].deliver # "none"
      BY <3>1 DEF Family, Sent
    <3>3. u \in inflight
      BY <1>1, <3>1, <3>2 DEF SmoothOrder
    <3> QED
      BY <3>2, <3>3 DEF ReceiveTimesOut
  <2>5. CASE WriteReceipt(o) \/ Register(o) \/ FetchRecipe(o) \/ DriveDelivers(o)
    <3>1. /\ handler'[o] \in {"receipted", "registered", "fetched", "waiting"}
          /\ handler'[o] = "waiting" => handler[o] = "driving"
          /\ answer' = answer /\ channel' = channel /\ task' = task
          /\ inflight' = inflight
      BY <2>5 DEF WriteReceipt, Register, FetchRecipe, DriveDelivers, taskVars
    <3> QED
      BY <1>1, <3>1 DEF SmoothOrder, SmoothTask
  <2>6. CASE StartDrive(o)
    <3>1. \A u \in Tasks : task[u] # Free => task[u].order # o
      BY <2>6 DEF StartDrive, Family, Linked, Driven
    <3>2. PICK c \in Tasks :
            task' = [task EXCEPT
                       ![c] = NewTask(o, Origin[o], NoEntry, EmptyPayload, NoTask)]
      BY <2>6 DEF StartDrive
    <3>3. /\ \A u \in Tasks \ {c} : task'[u] = task[u]
          /\ SmoothTask(task'[c]) /\ task'[c].deliver = "none"
      BY <3>2 DEF NewTask, SmoothTask
    <3>4. /\ handler'[o] = "driving"
          /\ answer' = answer /\ channel' = channel /\ inflight' = inflight
      BY <2>6 DEF StartDrive
    <3> QED
      BY <1>1, <3>1, <3>3, <3>4 DEF SmoothOrder
  <2>7. CASE ReceiveResult(o)
    <3>1. /\ handler'[o] = "done" /\ answer'[o] = Head(channel[o])
          /\ channel[o] # <<>> /\ channel'[o] = Tail(channel[o])
          /\ task' = task /\ inflight' = inflight
      BY <2>7 DEF ReceiveResult, taskVars
    <3>2. channel[o] \in Seq(Message)
      OBVIOUS
    <3>3. /\ answer'[o].kind = "Completed"
          /\ \A i \in 1 .. Len(channel'[o]) : channel'[o][i].kind = "Completed"
      BY <1>1, <3>1, <3>2 DEF SmoothOrder
    <3> QED
      BY <1>1, <3>1, <3>3 DEF SmoothOrder, SmoothTask
  <2> QED
    BY <1>3, <2>2, <2>3, <2>4, <2>5, <2>6, <2>7 DEF Submit, OrderStep
<1> QED
  BY <1>2, <1>3

\* A node that cannot execute the next action of a calm order finds a peer that
\* can in its table.
LEMMA CandidatesFound ==
  ASSUME TypeOK, Routing, Whole, NEW t \in Tasks, ReadCandidates(t),
         Covered(task[t].order)
  PROVE  task'[t].cands # {}
<1>1. Live(t) /\ ~AllDone(t) /\ ~CanExecute(t)
  BY DEF ReadCandidates, Live, LiveTask
<1>2. task[t] \in TaskRecord
  BY <1>1, LiveTaskRecord
<1>3. /\ task[t].order \in Orders /\ task[t].node \in Nodes
      /\ task[t].payload.index + 1 \in 1 .. Len(Recipe[task[t].order])
  BY <1>1, <1>2, NextActionType DEF TaskRecord, Todo
<1>4. PICK p \in Nodes :
        /\ InitKnown[task[t].node][p] # 0 \/ p = task[t].node
        /\ NextAction(t) \in Caps[p][Started[p]]
  <2>. DEFINE o == task[t].order
              n == task[t].node
              k == task[t].payload.index + 1
  <2>1. Covered(o) /\ n \in Nodes /\ k \in 1 .. Len(Recipe[o])
    BY <1>3
  <2>2. NextAction(t) = Recipe[o][k]
    BY DEF NextAction, Todo
  <2>. HIDE DEF o, n, k
  <2>3. PICK p \in {q \in Nodes : InitKnown[n][q] # 0} \union {n} :
          Recipe[o][k] \in Caps[p][Started[p]]
    BY <2>1 DEF Covered
  <2> QED
    BY <2>1, <2>2, <2>3 DEF n
<1>5. task[t].start = Started[task[t].node]
  BY <1>1 DEF Routing, Whole, Used, Live, LiveTask, Free
<1>6. InitKnown[task[t].node][p] # 0
  BY <1>1, <1>4, <1>5 DEF CanExecute
<1>7. known[task[t].node][p] = Started[p] /\ known[task[t].node][p] # 0
  BY <1>3, <1>6, StartAssumption DEF Covered, Whole, Starts
<1>8. Advertises(task[t].node, p, NextAction(t))
  BY <1>4, <1>7 DEF Advertises
<1>9. task'[t].cands = Entries(task[t].node,
                         {m \in Nodes : Advertises(task[t].node, m, NextAction(t))})
  BY <1>2 DEF ReadCandidates, TypeOK, TaskRecord
<1> QED
  BY <1>8, <1>9 DEF Entries

\* A step of a task: it never runs out of candidates, and hands on the placeholder.
LEMMA TaskStepSmooth ==
  ASSUME TypeOK, Family, Routing, Smooth, NEW t \in Tasks, TaskStep(t),
         NEW o \in Orders, Calm(o), Calm(o)'
  PROVE  SmoothOrder(o)'
<1>1. /\ SmoothOrder(o) /\ Whole
      /\ Live(t) /\ Moves(t) /\ UNCHANGED orderVars /\ task[t] # Free
      /\ Linked(task, handler, task[t])
  BY TaskMoves DEF Smooth, Calm, Live, LiveTask, Free, Family
<1>2. handler' = handler /\ answer' = answer /\ channel' = channel
  BY <1>1 DEF orderVars
<1>3. inflight \subseteq inflight'
  BY <1>1 DEF Moves, Works, GivesUp, Delivers, Fails, Forwards, Replies
<1>4. CASE task[t].order # o
  <2>1. ASSUME NEW u \in Tasks, task'[u] # Free, task'[u].order = o
        PROVE  task'[u] = task[u]
    <3>1. CASE Alone(t)
      BY <1>4, <2>1, <3>1 DEF Alone, Keeps
    <3>2. ASSUME NEW c \in Tasks, Forwards(t, c)
          PROVE  task'[u] = task[u]
      BY <1>4, <2>1, <3>2 DEF Forwards, Keeps, NewTask
    <3> QED
      BY <1>1, <3>1, <3>2 DEF Moves, Works, GivesUp, Delivers, Fails, Replies
  <2> QED
    BY <1>1, <1>2, <1>3, <2>1, SmoothFrame
<1>5. CASE task[t].order = o
  <2>1. ASSUME NEW u \in Tasks, task[u] # Free, u # t
        PROVE  task'[u] = task[u]
    BY <2>1, OthersKept DEF Used
  <2>2. task[t].deliver = "none" /\ SmoothTask(task[t])
    BY <1>1, <1>5 DEF Linked, Live, LiveTask, SmoothOrder
  <2>3. ASSUME SmoothTask(task'[t]), task'[t].deliver # "none" => t \in inflight',
               \A u \in Tasks : (task[u] = Free /\ task'[u] # Free) =>
                 SmoothTask(task'[u]) /\ task'[u].deliver = "none"
        PROVE  SmoothOrder(o)'
    <3>1. ASSUME NEW u \in Tasks, task'[u] # Free, task'[u].order = o
          PROVE  /\ SmoothTask(task'[u])
                 /\ (task'[u].deliver # "none" /\ handler'[o] \in {"driving", "waiting"}) =>
                      u \in inflight' \/ channel'[o] # <<>>
      <4>1. CASE task[u] # Free /\ u # t
        BY <1>1, <1>2, <1>3, <2>1, <3>1, <4>1 DEF SmoothOrder
      <4>2. CASE u = t \/ task[u] = Free
        BY <2>3, <3>1, <4>2
      <4> QED
        BY <4>1, <4>2
    <3> QED
      BY <1>1, <1>2, <3>1 DEF SmoothOrder, SmoothTask
  <2>4. ASSUME Alone(t)
        PROVE  \A u \in Tasks : (task[u] = Free /\ task'[u] # Free) =>
                 SmoothTask(task'[u]) /\ task'[u].deliver = "none"
    BY <1>1, <2>4 DEF Alone
  <2>5. CASE Execute(t)
    <3>1. /\ task'[t].pc = "loop" /\ task'[t].deliver = "none" /\ Alone(t)
      BY <1>1, <2>2, <2>5, UsedTaskRecord
         DEF Execute, Alone, Keeps, TypeOK, TaskRecord, Used, Free
    <3> QED
      BY <2>3, <2>4, <3>1 DEF SmoothTask
  <2>6. CASE ReadCandidates(t)
    <3>1. task'[t].pc = "forwarding" /\ task'[t].deliver = "none" /\ Alone(t)
      <4>1. PICK cands : task' = [task EXCEPT ![t].pc = "forwarding",
                                              ![t].cands = cands]
        BY <2>6 DEF ReadCandidates
      <4>2. /\ task[t] \in TaskRecord
            /\ task'[t] = [task[t] EXCEPT !.pc = "forwarding", !.cands = cands]
            /\ \A u \in Tasks \ {t} : task'[u] = task[u]
        BY <1>1, <4>1, UsedTaskRecord DEF TypeOK, Used
      <4> QED
        BY <2>2, <4>2 DEF Alone, Keeps, TaskRecord, Free
    <3>2. task'[t].cands # {}
      BY <1>1, <1>5, <2>6, CandidatesFound DEF Calm
    <3> QED
      BY <2>3, <2>4, <3>1, <3>2 DEF SmoothTask
  <2>7. ASSUME NEW p \in Candidate, ForwardRefused(t, p)
        PROVE  FALSE
    BY <1>5, <2>7 DEF ForwardRefused, Calm
  <2>8. ~DeliverFailure(t) /\ ~DeliverFailureFails(t)
    BY <2>2 DEF DeliverFailure, DeliverFailureFails, SmoothTask
  <2>9. ~GivesUp(t) /\ ~Fails(t)
    BY <1>5 DEF GivesUp, Fails, Calm
  <2>10. CASE DeliverSuccess(t)
    <3>. DEFINE p == Forwarded(task[t].payload, Host(t))
    <3>. HIDE DEF p
    <3>0. task' = [task EXCEPT ![t].pc = "returned", ![t].payload = p,
                               ![t].response = "Placeholder",
                               ![t].deliver = "success"]
      BY <2>10 DEF DeliverSuccess, SendDeliver, p
    <3>1. /\ task'[t].pc = "returned" /\ task'[t].deliver = "success"
          /\ task'[t].response = "Placeholder" /\ Alone(t)
      <4>1. task[t] \in TaskRecord
        BY <1>1, UsedTaskRecord DEF Used
      <4>2. /\ Alone(t)
            /\ task'[t].pc = "returned" /\ task'[t].payload = p
            /\ task'[t].response = "Placeholder" /\ task'[t].deliver = "success"
        BY <3>0, <4>1, DeliveredTask
      <4> QED
        BY <4>2
    <3>2. t \in inflight'
      BY <2>10 DEF DeliverSuccess, SendDeliver
    <3> QED
      BY <2>3, <2>4, <3>1, <3>2 DEF SmoothTask
  <2>11. ASSUME NEW c \in Tasks, Replies(t, c)
         PROVE  SmoothOrder(o)'
    <3>1. task[c] # Free /\ task[c].order = o
      BY <1>1, <1>5, <2>11 DEF Replies, Linked, Tasks, NoTask
    <3>2. task[c].response = "Placeholder"
      BY <1>1, <2>11, <3>1 DEF SmoothOrder, SmoothTask, Replies
    <3>3. SmoothTask(task'[t]) /\ task'[t].deliver = "none" /\ Alone(t)
      BY <2>2, <2>11, <3>2 DEF Replies, SmoothTask
    <3> QED
      BY <2>3, <2>4, <3>3
  <2>12. ASSUME NEW c \in Tasks, Forwards(t, c)
         PROVE  SmoothOrder(o)'
    <3>1. SmoothTask(task'[t]) /\ task'[t].deliver = "none"
      BY <2>2, <2>12 DEF Forwards, SmoothTask
    <3>2. SmoothTask(task'[c]) /\ task'[c].deliver = "none"
      BY <2>12 DEF Forwards, NewTask, SmoothTask
    <3>3. \A u \in Tasks : (task[u] = Free /\ task'[u] # Free) => u = c
      BY <1>1, <2>12 DEF Forwards
    <3> QED
      BY <2>3, <3>1, <3>2, <3>3
  <2>13. \/ Execute(t) \/ ReadCandidates(t) \/ DeliverSuccess(t)
         \/ \E c \in Tasks : Forwards(t, c) \/ Replies(t, c)
    <3>1. \/ Execute(t) \/ ReadCandidates(t) \/ DeliverSuccess(t)
          \/ \E p \in Candidate : ForwardTo(t, p)
          \/ ForwardReply(t) \/ ForwardGivenUp(t) \/ DeliverSuccessFails(t)
      BY <2>7, <2>8 DEF TaskStep
    <3>2. ASSUME NEW p \in Candidate, ForwardTo(t, p)
          PROVE  task[t].pc = "forwarding" /\ task'[t].pc = "awaiting"
      <4>1. PICK c \in Tasks :
              task' = [task EXCEPT
                ![c] = NewTask(task[t].order, p.node, p.entry,
                               Forwarded(task[t].payload, p.node), t),
                ![t].pc = "awaiting",
                ![t].cands = @ \ {p},
                ![t].child = c]
        BY <3>2 DEF ForwardTo
      <4> QED
        BY <1>1, <3>2, <4>1, UsedTaskRecord DEF ForwardTo, TypeOK, TaskRecord, Used
    <3>3. CASE ForwardReply(t)
      BY <1>1, <2>9, <3>3, UsedTaskRecord DEF ForwardReply, Moves, Works, Delivers, Forwards
    <3>4. ~ForwardGivenUp(t) /\ ~DeliverSuccessFails(t)
      BY <1>5 DEF ForwardGivenUp, DeliverSuccessFails, SendDeliverFails, Calm
    <3> QED
      BY <1>1, <2>9, <3>1, <3>2, <3>3, <3>4 DEF Moves, Works, Delivers, Replies
  <2> QED
    BY <2>5, <2>6, <2>10, <2>11, <2>12, <2>13
<1> QED
  BY <1>4, <1>5

\* A deliver: a calm order gets the message of a success, or one got there before.
LEMMA DeliverStepSmooth ==
  ASSUME TypeOK, Family, ChannelDiscipline, Smooth,
         NEW t \in Tasks, HandleDeliver(t) \/ LoseDeliver(t),
         NEW o \in Orders, Calm(o), Calm(o)'
  PROVE  SmoothOrder(o)'
<1>1. /\ SmoothOrder(o)
      /\ t \in inflight /\ inflight' = inflight \ {t}
      /\ task' = task /\ handler' = handler /\ answer' = answer
      /\ task[t].order \in Orders /\ task[t] # Free
  BY UsedTaskRecord DEF Smooth, Calm, HandleDeliver, SignalHandler, IgnoreDeliver,
     LoseDeliver, orderVars, TypeOK, Used, Free, TaskRecord
<1>2. CASE task[t].order # o
  <2>1. channel'[o] = channel[o]
    BY <1>1, <1>2 DEF HandleDeliver, SignalHandler, IgnoreDeliver, LoseDeliver,
       orderVars, TypeOK
  <2> QED
    BY <1>1, <1>2, <2>1, SmoothFrame
<1>3. CASE task[t].order = o
  <2>1. ~LoseDeliver(t)
    BY <1>3 DEF LoseDeliver, Calm
  <2>2. CASE IgnoreDeliver(t)
    <3>1. channel' = channel /\ o \notin pending
      BY <1>3, <2>2 DEF IgnoreDeliver, orderVars
    <3>2. handler[o] \in {"driving", "waiting"} => channel[o] # <<>>
      BY <3>1 DEF ChannelDiscipline
    <3> QED
      BY <1>1, <3>1, <3>2 DEF SmoothOrder, SmoothTask
  <2>3. CASE SignalHandler(t) /\ handler[o] = "done"
    <3>1. channel' = channel
      BY <1>3, <2>3 DEF SignalHandler
    <3> QED
      BY <1>1, <2>3, <3>1 DEF SmoothOrder, SmoothTask
  <2>4. CASE SignalHandler(t) /\ handler[o] # "done"
    <3>1. Delivered(t).kind = "Completed"
      <4>1. task[t].deliver \in {"none", "success", "failure"}
        BY <1>1, UsedTaskRecord DEF Used, TaskRecord
      <4>2. task[t].deliver = "success"
        BY <1>1, <1>3, <4>1 DEF Family, SmoothOrder, SmoothTask
      <4> QED
        BY <4>2 DEF Delivered
    <3>2. Delivered(t) \in Message
      BY <1>1, DeliveredMessage DEF Used
    <3>3. channel[o] \in Seq(Message) /\ channel[o] = <<>>
      BY <1>1, <1>3, <2>4 DEF TypeOK, ChannelDiscipline, SignalHandler
    <3>4. channel'[o] = Append(channel[o], Delivered(t))
      BY <1>1, <1>3, <2>4 DEF SignalHandler, TypeOK
    <3>. DEFINE m == Delivered(t)
    <3>. HIDE DEF m
    <3>5. channel'[o] = <<m>> /\ m.kind = "Completed"
      BY <3>1, <3>3, <3>4 DEF m
    <3>6. /\ channel'[o] # <<>>
          /\ \A i \in 1 .. Len(channel'[o]) : channel'[o][i].kind = "Completed"
      BY <3>5
    <3> QED
      BY <1>1, <3>6 DEF SmoothOrder, SmoothTask
  <2> QED
    BY <2>1, <2>2, <2>3, <2>4 DEF HandleDeliver
<1> QED
  BY <1>2, <1>3

\* Hence so does every step.
LEMMA NextSmooth ==
  ASSUME TypeOK, Family, Routing, ChannelDiscipline, Smooth, [Next]_vars
  PROVE  Smooth'
<1>1. Orders \subseteq mishap' \/ Whole'
  BY WholeKept DEF Smooth
<1>2. ASSUME NEW o \in Orders, Calm(o)'
      PROVE  SmoothOrder(o)'
  <2>1. Calm(o) /\ ~(Orders \subseteq mishap') /\ SmoothOrder(o)
    BY <1>2, BlameKept DEF Calm, Covered, IsLocal, Smooth
  <2>2. CASE \E n \in Nodes : Restart(n)
    BY <2>1, <2>2, SmoothFrame DEF Restart, orderVars, taskVars
  <2>3. CASE \E n, p \in Nodes, g \in Starts : Learn(n, p, g)
    BY <2>1, <2>3, SmoothFrame DEF Learn, orderVars, taskVars
  <2>4. CASE \/ \E n \in Nodes : Crash(n)
             \/ \E n \in Nodes, ps \in SUBSET Nodes : Forget(n, ps)
    BY <2>1, <2>4 DEF Crash, Forget
  <2>5. CASE UNCHANGED vars
    BY <2>1, <2>5, SmoothFrame DEF vars, orderVars, taskVars
  <2> QED
    BY <1>2, <2>1, <2>2, <2>3, <2>4, <2>5, OrderStepSmooth, TaskStepSmooth,
       DeliverStepSmooth DEF Next, Environment, Idle
<1> QED
  BY <1>1, <1>2 DEF Smooth

\* Orders for which nothing goes wrong go smoothly.
LEMMA SmoothHolds == Spec => []Smooth
<1>1. Init => Smooth
  <2> SUFFICES ASSUME Init
               PROVE  Smooth
    OBVIOUS
  <2>1. Whole
    BY DEF Init, Whole
  <2>2. ASSUME NEW o \in Orders
        PROVE  SmoothOrder(o)
    BY DEF Init, SmoothOrder, None
  <2> QED
    BY <2>1, <2>2 DEF Smooth
<1> QED
  BY <1>1, NextSmooth, FamilyHolds, RoutingHolds, ChannelsDisciplined, TypeCorrect,
     PTL DEF Spec

\* A client whose order the peer tables cover is told of a failure only when
\* something failed: no schedule of its handler, of the tasks, of the delivers and
\* of the other orders makes one up.
THEOREM FailuresHaveCauses == Spec => []FailureHasACause
<1>1. Smooth => FailureHasACause
  BY DEF Smooth, Calm, SmoothOrder, FailureHasACause
<1> QED
  BY <1>1, SmoothHolds, PTL

-----------------------------------------------------------------------------
(* The service of OrderService.                                            *)

\* Where the handler of an order is tells what its client was told; a result in
\* the channel is that of an order some task has finished.
Lifecycle ==
    \A o \in Orders :
      /\ handler[o] = "idle" => o \notin receipts /\ answer[o].kind = "None"
      /\ handler[o] \in ActiveHandlers => o \in receipts /\ answer[o].kind = "None"
      /\ handler[o] \in {"done", "dead"} => answer[o].kind # "None"
      /\ \A i \in 1 .. Len(channel[o]) :
           channel[o][i].kind = "Completed" => o \in MadeOrders

\* The record of a task that is done with its recipe.
Finished(r) == r # Free /\ r.payload.index >= Len(Recipe[r.order])

LEMMA MadeByFinished ==
  /\ MadeOrders = {o \in Orders : \E t \in Tasks : Finished(task[t]) /\ task[t].order = o}
  /\ MadeOrders' = {o \in Orders : \E t \in Tasks : Finished(task'[t]) /\ task'[t].order = o}
BY DEF MadeOrders, Finished, AllDone, Todo, Used

\* An order that is made stays so; a step of a task, or its start, makes only the
\* order of the task, and no other step makes one.
LEMMA MadeSteps ==
  ASSUME TypeOK, [Next]_vars
  PROVE  /\ MadeOrders \subseteq MadeOrders'
         /\ \A t \in Tasks : TaskStep(t) =>
              MadeOrders' \subseteq MadeOrders \union {task[t].order}
         /\ (~\E t \in Tasks : TaskStep(t)) =>
              \/ MadeOrders' \subseteq MadeOrders
              \/ \E o \in Orders : StartDrive(o) /\ MadeOrders' \subseteq MadeOrders \union {o}
<1>1. ASSUME NEW t \in Tasks, TaskStep(t)
      PROVE  /\ MadeOrders \subseteq MadeOrders'
             /\ MadeOrders' \subseteq MadeOrders \union {task[t].order}
  <2>1. /\ Moves(t) /\ task[t] # Free
        /\ task[t].payload.index \in Nat /\ task[t].order \in Orders
    BY <1>1, TaskMoves DEF TaskRecord, Payload, Live, LiveTask, Free
  <2>2. CASE Alone(t)
    <3>1. /\ \A u \in Tasks \ {t} : task'[u] = task[u]
          /\ task'[t] # Free /\ task'[t].order = task[t].order
      BY <2>2 DEF Alone, Keeps
    <3>2. /\ task'[t].payload.index >= task[t].payload.index
          /\ task'[t].payload.index \in Nat
      <4>1. task'[t].payload.index >= task[t].payload.index
        BY <2>1, <2>2 DEF Moves, Works, GivesUp, Delivers, Fails, Replies, Alone, Forwards
      <4>2. task'[t] \in TaskRecord
        BY <3>1, NextType DEF TypeOK
      <4> QED
        BY <4>1, <4>2 DEF TaskRecord, Payload
    <3>3. Len(Recipe[task[t].order]) \in Nat
      BY <2>1
    <3>4. Finished(task[t]) => Finished(task'[t])
      BY <2>1, <3>1, <3>2, <3>3 DEF Finished
    <3> QED
      BY <3>1, <3>4, MadeByFinished
  <2>3. ASSUME NEW c \in Tasks, Forwards(t, c)
        PROVE  /\ MadeOrders \subseteq MadeOrders'
               /\ MadeOrders' \subseteq MadeOrders \union {task[t].order}
    <3>1. /\ \A u \in Tasks \ {t, c} : task'[u] = task[u]
          /\ task'[t].order = task[t].order /\ task'[c].order = task[t].order
          /\ task'[t] # Free /\ task'[t].payload = task[t].payload
          /\ task[c] = Free
      BY <2>3 DEF Forwards, Keeps, NewTask
    <3>2. /\ Finished(task[t]) => Finished(task'[t])
          /\ ~Finished(task[c])
      BY <3>1 DEF Finished
    <3> QED
      BY <3>1, <3>2, MadeByFinished
  <2> QED
    BY <2>1, <2>2, <2>3 DEF Moves, Works, GivesUp, Delivers, Fails, Replies
<1>2. CASE UNCHANGED task
  BY <1>2, MadeByFinished
<1>3. CASE Kills
  <2>1. ASSUME NEW t \in Tasks
        PROVE  /\ Finished(task'[t]) <=> Finished(task[t])
               /\ Finished(task[t]) => task'[t].order = task[t].order
    <3>1. CASE /\ Live(t) /\ Keeps(task[t], task'[t])
               /\ task'[t].payload = task[t].payload
      <4>1. task[t] # Free
        BY <3>1 DEF Live, LiveTask, Free
      <4> QED
        BY <3>1, <4>1 DEF Keeps, Finished
    <3> QED
      BY <1>3, <3>1 DEF Kills
  <2> QED
    BY <2>1, MadeByFinished
<1>4. ASSUME NEW o \in Orders, NEW c \in Tasks, Begins(o, c)
      PROVE  /\ MadeOrders \subseteq MadeOrders'
             /\ MadeOrders' \subseteq MadeOrders \union {o}
  <2>1. /\ \A u \in Tasks \ {c} : task'[u] = task[u]
        /\ ~Finished(task[c]) /\ task'[c].order = o
    BY <1>4 DEF Begins, NewTask, Finished
  <2> QED
    BY <2>1, MadeByFinished
<1> QED
  BY <1>1, <1>2, <1>3, <1>4, TableSteps

\* A deliver puts a result in the channel only of an order that was made.
LEMMA DeliveredIsMade ==
  ASSUME TypeOK, Family, PizzaTrace, NEW t \in inflight, Delivered(t).kind = "Completed"
  PROVE  task[t].order \in MadeOrders
<1>1. t \in Tasks /\ task[t] # Free
  BY DEF TypeOK, Free
<1>2. task[t].deliver = "success" /\ task[t].order \in Orders
  BY <1>1, UsedTaskRecord DEF Delivered, Frame, Used, TaskRecord
<1>3. Finished(task[t])
  BY <1>1, <1>2 DEF PizzaTrace, TaskTrace, Finished, Used
<1> QED
  BY <1>1, <1>2, <1>3, MadeByFinished

\* Every step keeps handlers, receipts and answers in step.
LEMMA NextLifecycle ==
  ASSUME TypeOK, Family, PizzaTrace, Lifecycle, [Next]_vars
  PROVE  Lifecycle'
<1>. USE DEF ActiveHandlers, HandlerStates
<1>1. MadeOrders \subseteq MadeOrders'
  BY MadeSteps
<1>2. ASSUME UNCHANGED orderVars
      PROVE  Lifecycle'
  BY <1>1, <1>2 DEF Lifecycle, orderVars
<1>3. ASSUME NEW q \in Orders, Submit(q) \/ OrderStep(q)
      PROVE  Lifecycle'
  <2>1. ASSUME NEW o \in Orders \ {q}
        PROVE  /\ handler'[o] = handler[o]
               /\ o \in receipts' <=> o \in receipts
               /\ answer'[o] = answer[o] /\ channel'[o] = channel[o]
    BY <1>3 DEF Submit, OrderStep, DeclineOrder, WriteReceipt, ReceiptFails,
       Register, FetchRecipe, FetchFails, ParseFails, StartDrive, DriveDelivers,
       DriveFails, ReceiveResult, ReceiveTimesOut, AnswerTimeout, Finish, Goto,
       TypeOK
  <2>2. /\ handler'[q] # "idle"
        /\ handler'[q] \in ActiveHandlers =>
             /\ handler[q] \in ActiveHandlers \/ q \in receipts'
             /\ handler[q] \in ActiveHandlers \union {"idle"}
             /\ receipts \subseteq receipts' /\ answer'[q] = answer[q]
        /\ handler'[q] \in {"done", "dead"} => answer'[q].kind # "None"
    <3>1. CASE Submit(q)
      BY <3>1 DEF Submit, DeclineOrder, WriteReceipt, ReceiptFails, Finish, Goto,
         Frame, TypeOK
    <3>2. CASE FetchFails(q) \/ ParseFails(q) \/ DriveFails(q) \/ AnswerTimeout(q)
      BY <3>2 DEF FetchFails, ParseFails, DriveFails, AnswerTimeout, Finish, Goto,
         Frame, TypeOK
    <3>3. CASE Register(q) \/ FetchRecipe(q) \/ StartDrive(q) \/ DriveDelivers(q)
               \/ ReceiveTimesOut(q)
      BY <3>3 DEF Register, FetchRecipe, StartDrive, DriveDelivers,
         ReceiveTimesOut, Goto, TypeOK
    <3>4. CASE ReceiveResult(q)
      <4>1. /\ handler'[q] = "done" /\ answer'[q] = Head(channel[q])
            /\ channel[q] # <<>> /\ channel[q] \in Seq(Message)
        BY <3>4 DEF ReceiveResult, Finish, Goto, TypeOK
      <4>m. Head(channel[q]) \in Message
        BY <4>1
      <4>2. answer'[q].kind # "None"
        BY <4>1, <4>m DEF Message
      <4> QED
        BY <4>1, <4>2
    <3> QED
      BY <1>3, <3>1, <3>2, <3>3, <3>4 DEF OrderStep
  <2>3. \A i \in 1 .. Len(channel'[q]) :
          channel'[q][i].kind = "Completed" => q \in MadeOrders
    <3>1. CASE ReceiveResult(q)
      <4>1. /\ channel'[q] = Tail(channel[q])
            /\ channel[q] # <<>> /\ channel[q] \in Seq(Message)
        BY <3>1 DEF ReceiveResult, TypeOK
      <4>2. \A i \in 1 .. Len(Tail(channel[q])) :
              i + 1 \in 1 .. Len(channel[q]) /\ Tail(channel[q])[i] = channel[q][i + 1]
        BY <4>1
      <4>3. ASSUME NEW i \in 1 .. Len(Tail(channel[q])),
                   Tail(channel[q])[i].kind = "Completed"
            PROVE  q \in MadeOrders
        <5>1. channel[q][i + 1].kind = "Completed" /\ i + 1 \in 1 .. Len(channel[q])
          BY <4>2, <4>3
        <5> QED
          BY <5>1 DEF Lifecycle
      <4> QED
        BY <4>1, <4>3
    <3>2. CASE ~ReceiveResult(q)
      <4>1. channel' = channel
        BY <1>3, <3>2 DEF Submit, OrderStep, DeclineOrder, WriteReceipt, ReceiptFails,
           Register, FetchRecipe, FetchFails, ParseFails, StartDrive, DriveDelivers,
           DriveFails, ReceiveTimesOut, AnswerTimeout
      <4> QED
        BY <4>1 DEF Lifecycle
    <3> QED
      BY <3>1, <3>2
  <2>4. /\ handler'[q] = "idle" => q \notin receipts' /\ answer'[q].kind = "None"
        /\ handler'[q] \in ActiveHandlers => q \in receipts' /\ answer'[q].kind = "None"
    <3>1. handler'[q] \in ActiveHandlers => q \in receipts'
      BY <2>2 DEF Lifecycle
    <3>2. handler'[q] \in ActiveHandlers => answer'[q].kind = "None"
      BY <2>2 DEF Lifecycle
    <3> QED
      BY <2>2, <3>1, <3>2
  <2>5. ASSUME NEW o \in Orders \ {q}
        PROVE  /\ handler'[o] = "idle" => o \notin receipts' /\ answer'[o].kind = "None"
               /\ handler'[o] \in ActiveHandlers =>
                    o \in receipts' /\ answer'[o].kind = "None"
               /\ handler'[o] \in {"done", "dead"} => answer'[o].kind # "None"
               /\ \A i \in 1 .. Len(channel'[o]) :
                    channel'[o][i].kind = "Completed" => o \in MadeOrders
    BY <2>1 DEF Lifecycle
  <2> QED
    BY <1>1, <2>2, <2>3, <2>4, <2>5 DEF Lifecycle
<1>4. ASSUME NEW t \in Tasks, SignalHandler(t)
      PROVE  Lifecycle'
  <2>. DEFINE o == task[t].order
              m == Delivered(t)
  <2>1. /\ t \in inflight /\ o \in Orders /\ channel[o] \in Seq(Message)
        /\ UNCHANGED <<handler, receipts, answer>>
        /\ \A q \in Orders \ {o} : channel'[q] = channel[q]
        /\ channel'[o] \in {channel[o], Append(channel[o], m)}
    BY <1>4 DEF SignalHandler, TypeOK
  <2>2. m \in Message /\ (m.kind = "Completed" => o \in MadeOrders)
    BY <2>1, DeliveredMessage, DeliveredIsMade DEF TypeOK, Used, Free
  <2>. HIDE DEF o, m
  <2>3. \A i \in 1 .. Len(channel'[o]) :
          channel'[o][i].kind = "Completed" => o \in MadeOrders
    <3>1. CASE channel'[o] = channel[o]
      BY <2>1, <3>1 DEF Lifecycle
    <3>2. CASE channel'[o] = Append(channel[o], m)
      BY <2>1, <2>2, <3>2, AppendProperties DEF Lifecycle
    <3> QED
      BY <2>1, <3>1, <3>2
  <2> QED
    BY <1>1, <2>1, <2>3 DEF Lifecycle
<1>5. ASSUME NEW n \in Nodes, Crash(n)
      PROVE  Lifecycle'
  <2>. DEFINE broken == {o \in Orders : Origin[o] = n /\ handler[o] \in ActiveHandlers}
  <2>1. /\ receipts' = receipts
        /\ \A o \in Orders \ broken :
             handler'[o] = handler[o] /\ answer'[o] = answer[o] /\ channel'[o] = channel[o]
        /\ \A o \in broken :
             handler'[o] = "dead" /\ answer'[o] = Frame("Lost") /\ channel'[o] = <<>>
    BY <1>5 DEF Crash
  <2>2. Frame("Lost").kind # "None"
    BY DEF Frame
  <2>3. ASSUME NEW o \in broken
        PROVE  o \in Orders /\ Len(channel'[o]) = 0
    BY <2>1, <2>3
  <2>. HIDE DEF broken
  <2>4. ASSUME NEW o \in Orders \ broken
        PROVE  /\ handler'[o] = "idle" => o \notin receipts' /\ answer'[o].kind = "None"
               /\ handler'[o] \in ActiveHandlers =>
                    o \in receipts' /\ answer'[o].kind = "None"
               /\ handler'[o] \in {"done", "dead"} => answer'[o].kind # "None"
               /\ \A i \in 1 .. Len(channel'[o]) :
                    channel'[o][i].kind = "Completed" => o \in MadeOrders
    BY <2>1 DEF Lifecycle
  <2> QED
    BY <1>1, <2>1, <2>2, <2>3, <2>4 DEF Lifecycle
<1>6. \/ \E t \in Tasks : TaskStep(t) \/ IgnoreDeliver(t) \/ LoseDeliver(t)
      \/ \E n \in Nodes : Restart(n)
      \/ \E n, p \in Nodes, g \in Starts : Learn(n, p, g)
      \/ \E n \in Nodes, ps \in SUBSET Nodes : Forget(n, ps)
      \/ UNCHANGED vars
      => UNCHANGED orderVars
  BY TasksKeepOrders DEF IgnoreDeliver, LoseDeliver, Restart, Learn, Forget, vars
<1> QED
  BY <1>2, <1>3, <1>4, <1>5, <1>6 DEF Next, HandleDeliver, Environment, Idle

LEMMA LifecycleHolds == Spec => []Lifecycle
<1>1. Init => Lifecycle
  BY DEF Init, Lifecycle, None, ActiveHandlers
<1> QED
  BY <1>1, NextLifecycle, FamilyHolds, PizzasTraced, TypeCorrect,
     PTL DEF Spec

\* What a client has seen: its answer, or the receipt.
Seen(kind, got) == IF kind # "None" THEN kind
                   ELSE IF got THEN "Receipt" ELSE "nothing"

LEMMA ViewsAreSeen ==
  /\ ClientView = [o \in Orders |-> Seen(answer[o].kind, o \in receipts)]
  /\ ClientView' = [o \in Orders |-> Seen(answer'[o].kind, o \in receipts')]
BY DEF ClientView, Seen

\* What the handler of an order tells of the view of its client.
LEMMA ViewOfHandler ==
  ASSUME TypeOK, Lifecycle, NEW o \in Orders
  PROVE  /\ handler[o] = "idle" => ClientView[o] = "nothing"
         /\ handler[o] \in ActiveHandlers => ClientView[o] = "Receipt"
         /\ handler[o] # "idle" => ClientView[o] # "nothing"
<1>1. answer[o].kind # "nothing"
  BY DEF TypeOK, Answers
<1>2. handler[o] \in {"idle", "done", "dead"} \union ActiveHandlers
  BY DEF TypeOK, HandlerStates, ActiveHandlers
<1>3. handler[o] \in {"done", "dead"} => ClientView[o] # "nothing"
  BY <1>1, ViewsAreSeen DEF Lifecycle, Seen
<1> QED
  BY <1>2, <1>3, ViewsAreSeen DEF Lifecycle, Seen

\* A step that gives one client one thing to see.
LEMMA OneViewChanges ==
  ASSUME NEW q \in Orders,
         \A o \in Orders \ {q} : /\ answer'[o] = answer[o]
                                 /\ o \in receipts' <=> o \in receipts
  PROVE  ClientView' = [ClientView EXCEPT ![q] = Seen(answer'[q].kind, q \in receipts')]
BY ViewsAreSeen DEF Seen

\* No client sees anything of a step that leaves answers and receipts alone.
LEMMA ViewsKept ==
  ASSUME UNCHANGED <<answer, receipts>>
  PROVE  ClientView' = ClientView
BY ViewsAreSeen

\* The step that makes an order is one of the service.
LEMMA MakeStep ==
  ASSUME NEW o \in Orders, ClientView[o] # "nothing", ClientView' = ClientView,
         MadeOrders \subseteq MadeOrders', MadeOrders' \subseteq MadeOrders \union {o}
  PROVE  [Service!Next]_(Service!vars)
<1>1. CASE MadeOrders' = MadeOrders
  BY <1>1 DEF Service!vars
<1>2. CASE MadeOrders' # MadeOrders
  <2>1. MadeOrders' = MadeOrders \union {o}
    BY <1>2
  <2>2. Service!Make(o)
    BY <2>1 DEF Service!Make
  <2> QED
    BY <2>2 DEF Service!Next
<1> QED
  BY <1>1, <1>2

\* A step of a handler is one of the service, or changes nothing it shows.
LEMMA OrderStepServes ==
  ASSUME TypeOK, Lifecycle, NEW q \in Orders, Submit(q) \/ OrderStep(q),
         [Next]_vars, ~\E t \in Tasks : TaskStep(t)
  PROVE  [Service!Next]_(Service!vars)
<1>. DEFINE seen == Seen(answer'[q].kind, q \in receipts')
<1>1. ASSUME NEW o \in Orders \ {q}
      PROVE  /\ answer'[o] = answer[o]
             /\ o \in receipts' <=> o \in receipts
  BY DEF Submit, OrderStep, DeclineOrder, WriteReceipt, ReceiptFails,
     Register, FetchRecipe, FetchFails, ParseFails, StartDrive, DriveDelivers,
     DriveFails, ReceiveResult, ReceiveTimesOut, AnswerTimeout, Finish, TypeOK
<1>2. ClientView' = [ClientView EXCEPT ![q] = seen]
  BY <1>1, OneViewChanges
<1>3. CASE StartDrive(q)
  <2>1. UNCHANGED <<answer, receipts>> /\ handler[q] \in ActiveHandlers
    BY <1>3 DEF StartDrive, ActiveHandlers, HandlerStates
  <2>2. MadeOrders \subseteq MadeOrders' /\ MadeOrders' \subseteq MadeOrders \union {q}
    <3>1. ASSUME NEW o \in Orders, StartDrive(o), o # q
          PROVE  FALSE
      BY <1>3, <3>1 DEF StartDrive, Goto, TypeOK
    <3> QED
      BY <3>1, MadeSteps
  <2> QED
    BY <2>1, <2>2, ViewsKept, ViewOfHandler, MakeStep
<1>4. ASSUME ~StartDrive(q)
      PROVE  MadeOrders' = MadeOrders
  <2>1. task' = task
    BY <1>4 DEF Submit, OrderStep, DeclineOrder, WriteReceipt, ReceiptFails,
       Register, FetchRecipe, FetchFails, ParseFails, DriveDelivers, DriveFails,
       ReceiveResult, ReceiveTimesOut, AnswerTimeout, taskVars
  <2> QED
    BY <2>1, MadeByFinished
<1>5. CASE Register(q) \/ FetchRecipe(q) \/ DriveDelivers(q) \/ ReceiveTimesOut(q)
  <2>1. UNCHANGED <<answer, receipts>> /\ ~StartDrive(q)
    BY <1>5 DEF Register, FetchRecipe, DriveDelivers, ReceiveTimesOut, StartDrive,
       Goto, TypeOK
  <2> QED
    BY <1>4, <2>1, ViewsKept DEF Service!vars
<1>6. CASE Submit(q)
  <2>1. ClientView[q] = "nothing" /\ ~StartDrive(q)
    BY <1>6, ViewOfHandler DEF Submit, DeclineOrder, WriteReceipt, ReceiptFails,
       StartDrive
  <2>2. MadeOrders' = MadeOrders
    BY <1>4, <2>1
  <2>3. CASE DeclineOrder(q)
    <3>1. seen = "Declined"
      BY <2>3 DEF DeclineOrder, Finish, Frame, Seen, TypeOK
    <3>2. Service!Decline(q)
      BY <1>2, <2>1, <2>2, <3>1 DEF Service!Decline
    <3> QED
      BY <3>2 DEF Service!Next
  <2>4. CASE WriteReceipt(q)
    <3>1. seen = "Receipt"
      BY <2>4 DEF WriteReceipt, Seen, Lifecycle
    <3>2. Service!Acknowledge(q)
      BY <1>2, <2>1, <2>2, <3>1 DEF Service!Acknowledge
    <3> QED
      BY <3>2 DEF Service!Next
  <2>5. CASE ReceiptFails(q)
    <3>1. seen = "Lost"
      BY <2>5 DEF ReceiptFails, Finish, Frame, Seen, TypeOK
    <3>2. ClientView' = [o \in Orders |-> IF o \in {q} THEN "Lost" ELSE ClientView[o]]
      BY <1>2, <3>1, ViewsAreSeen
    <3>3. Service!Break({q})
      BY <2>1, <2>2, <3>2 DEF Service!Break
    <3> QED
      BY <3>3 DEF Service!Next
  <2> QED
    BY <1>6, <2>3, <2>4, <2>5 DEF Submit
<1>7. CASE FetchFails(q) \/ ParseFails(q) \/ DriveFails(q) \/ AnswerTimeout(q)
           \/ ReceiveResult(q)
  <2>1. ClientView[q] = "Receipt" /\ ~StartDrive(q)
    <3>1. handler[q] \in ActiveHandlers /\ handler'[q] # "driving"
      BY <1>7 DEF FetchFails, ParseFails, DriveFails, AnswerTimeout, ReceiveResult,
         Finish, Goto, TypeOK, ActiveHandlers, HandlerStates
    <3> QED
      BY <3>1, ViewOfHandler DEF StartDrive, Goto, TypeOK
  <2>2. MadeOrders' = MadeOrders
    BY <1>4, <2>1
  <2>3. /\ seen \in {"Completed", "Failed", "Error", "Lost"}
        /\ seen = "Completed" => q \in MadeOrders
    <3>1. CASE ReceiveResult(q)
      <4>1. /\ channel[q] # <<>> /\ channel[q] \in Seq(Message)
            /\ answer'[q] = Head(channel[q])
        BY <3>1 DEF ReceiveResult, Finish, TypeOK
      <4>2. /\ Head(channel[q]) \in Message /\ 1 \in 1 .. Len(channel[q])
            /\ Head(channel[q]) = channel[q][1]
        BY <4>1
      <4>3. Head(channel[q]).kind \in {"Completed", "Failed"}
        BY <4>2 DEF Message
      <4> QED
        BY <4>1, <4>2, <4>3 DEF Seen, Lifecycle
    <3>2. CASE ~ReceiveResult(q)
      BY <1>7, <3>2 DEF FetchFails, ParseFails, DriveFails, AnswerTimeout, Finish,
         Frame, Seen, TypeOK
    <3> QED
      BY <3>1, <3>2
  <2>4. CASE seen = "Lost"
    <3>1. ClientView' = [o \in Orders |-> IF o \in {q} THEN "Lost" ELSE ClientView[o]]
      BY <1>2, <2>4, ViewsAreSeen
    <3>2. Service!Break({q})
      BY <2>1, <2>2, <3>1 DEF Service!Break
    <3> QED
      BY <3>2 DEF Service!Next
  <2>5. CASE seen # "Lost"
    <3>1. Service!Answer(q, seen)
      BY <1>2, <2>1, <2>2, <2>3, <2>5 DEF Service!Answer
    <3> QED
      BY <2>3, <2>5, <3>1 DEF Service!Next
  <2> QED
    BY <2>4, <2>5
<1> QED
  BY <1>3, <1>5, <1>6, <1>7 DEF OrderStep

\* So is every step.
LEMMA StepServes ==
  ASSUME TypeOK, Family, Lifecycle, [Next]_vars
  PROVE  [Service!Next]_(Service!vars)
<1>1. ASSUME NEW t \in Tasks, TaskStep(t)
      PROVE  [Service!Next]_(Service!vars)
  <2>1. task[t] \in TaskRecord /\ task[t] # Free /\ UNCHANGED orderVars
    BY <1>1, TaskMoves DEF Live, LiveTask, Free
  <2>2. PICK o \in Orders : o = task[t].order
    BY <2>1 DEF TaskRecord
  <2>3. ClientView[o] # "nothing"
    BY <2>1, <2>2, ViewOfHandler DEF Family, Linked, Driven
  <2>4. ClientView' = ClientView
    BY <2>1, ViewsKept DEF orderVars
  <2> QED
    BY <1>1, <2>2, <2>3, <2>4, MadeSteps, MakeStep
<1>2. ASSUME NEW n \in Nodes, Crash(n)
      PROVE  [Service!Next]_(Service!vars)
  <2>. DEFINE broken == {o \in Orders : Origin[o] = n /\ handler[o] \in ActiveHandlers}
  <2>1. /\ receipts' = receipts
        /\ answer' = [o \in Orders |-> IF o \in broken THEN Frame("Lost") ELSE answer[o]]
    BY <1>2 DEF Crash
  <2>2. \A o \in broken : ClientView[o] = "Receipt"
    BY ViewOfHandler
  <2>3. broken \subseteq Orders
    OBVIOUS
  <2>. HIDE DEF broken
  <2>4. ClientView' = [o \in Orders |-> IF o \in broken THEN "Lost" ELSE ClientView[o]]
    BY <2>1, ViewsAreSeen DEF Seen, Frame
  <2>5. MadeOrders' = MadeOrders
    <3>1. \A t \in Tasks : /\ Finished(task'[t]) <=> Finished(task[t])
                           /\ Finished(task[t]) => task'[t].order = task[t].order
      BY <1>2, LiveTaskRecord DEF Crash, Finished, Live, LiveTask, Free, TaskRecord
    <3> QED
      BY <3>1, MadeByFinished
  <2>6. Service!Break(broken)
    BY <2>2, <2>3, <2>4, <2>5 DEF Service!Break
  <2> QED
    BY <2>3, <2>6 DEF Service!Next
<1>3. \/ \E t \in Tasks : HandleDeliver(t) \/ LoseDeliver(t)
      \/ \E n \in Nodes : Restart(n)
      \/ \E n, p \in Nodes, g \in Starts : Learn(n, p, g)
      \/ \E n \in Nodes, ps \in SUBSET Nodes : Forget(n, ps)
      \/ UNCHANGED vars
      => UNCHANGED <<answer, receipts, task>>
  BY DEF HandleDeliver, SignalHandler, IgnoreDeliver, LoseDeliver, Restart,
     Learn, Forget, vars, orderVars, taskVars
<1>4. CASE UNCHANGED <<answer, receipts, task>>
  BY <1>4, ViewsKept, MadeByFinished DEF Service!vars
<1> QED
  BY <1>1, <1>2, <1>3, <1>4, OrderStepServes DEF Next, Environment, Idle

\* The nodes implement the service: what clients are shown is one receipt, then
\* one final frame that never changes, and no result before the pizza is made,
\* through crashes, retries, rival branches and late delivers.
THEOREM NodesImplementService == Spec => ImplementsService
<1>1. Init => Service!Init
  <2> SUFFICES ASSUME Init
               PROVE  Service!Init
    OBVIOUS
  <2>1. ClientView = [o \in Orders |-> "nothing"]
    BY ViewsAreSeen DEF Init, None, Seen
  <2>2. MadeOrders = {}
    BY MadeByFinished DEF Init, Finished
  <2> QED
    BY <2>1, <2>2 DEF Service!Init
<1>2. TypeOK /\ Family /\ Lifecycle /\ [Next]_vars => [Service!Next]_(Service!vars)
  BY StepServes
<1> QED
  BY <1>1, <1>2, TypeCorrect, FamilyHolds, LifecycleHolds, PTL
     DEF Spec, ImplementsService, Service!Spec
=============================================================================
