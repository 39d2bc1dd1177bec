-------------------------- MODULE OrderStoreProofs --------------------------
(***************************************************************************)
(* Theorems about OrderStore, for any number of clients and exits of a TUI: *)
(* its histories are well-formed, an accepted order has the server's id,   *)
(* and clients that run one after the other lose nothing they saved.       *)
(***************************************************************************)
EXTENDS OrderStore, TLAPS

USE ExitsAssumption

-----------------------------------------------------------------------------
(* The strengthening: what a client has yet to write, and what its own      *)
(* order looks like by then.                                               *)

\* Changes still to make before the order is in the map, after it is, and after
\* it has the server's id.
Unplaced == {<<"Sending", "server_id", "Receipt">>, <<"Sending", "Declined">>,
             <<"Sending", "Error">>, <<"Sending">>}
Placed == {<<"server_id", "Receipt">>, <<"Declined">>, <<"Error">>}
Identified == {<<"Receipt">>, <<"Delivered">>, <<"Failed">>, <<"Error">>}

\* The changes and the order of client c fit.
InStep(c) ==
    /\ \/ updates[c] \in Unplaced \union {<<>>}
       \/ updates[c] \in Placed /\ mem[c][c] # Absent
       \/ updates[c] \in Identified /\ mem[c][c].server
    /\ pc[c] = "waiting" =>
         \/ updates[c] \in {<<"Sending", "server_id", "Receipt">>,
                            <<"server_id", "Receipt">>, <<"Receipt">>}
         \/ updates[c] = <<>> /\ mem[c][c].server
    /\ pc[c] = "new" => updates[c] = <<>>

\* An order that was accepted has the server's id.
HasId(order) ==
    order.status \in {"Receipt", "Delivered", "Failed"} => order.server

StoreInv == /\ TypeOK
            /\ \A c \in Clients : InStep(c)
            /\ \A c, d \in Clients : HasId(mem[d][c])
            /\ \A c \in Clients : HasId(file.orders[c])

\* An empty history is one.
LEMMA NoOrdersHistory ==
  /\ NoOrders \in History
  /\ \A c \in Clients : NoOrders[c] = Absent /\ HasId(NoOrders[c])
  /\ \A kind \in {"missing", "empty", "json", "garbled"} : Without(kind) \in File
  /\ \A kind : Without(kind).orders = NoOrders
BY DEF NoOrders, History, Without, File, Absent, HasId

\* What is read is a history of orders with ids.
LEMMA ParsedHistory ==
  ASSUME StoreInv
  PROVE  Parsed \in History /\ \A c \in Clients : HasId(Parsed[c])
<1>1. file.orders \in History
  BY DEF StoreInv, TypeOK, File
<1> QED
  BY <1>1, NoOrdersHistory DEF Parsed, StoreInv

-----------------------------------------------------------------------------
(* One change.                                                             *)

\* Taking the first change of one and of two.
LEMMA OneChange ==
  ASSUME NEW a, NEW s, s = <<a>>
  PROVE  Head(s) = a /\ Tail(s) = <<>>
<1>1. Head(<<a>>) = a /\ Tail(<<a>>) = <<>>
  OBVIOUS
<1> QED
  BY <1>1, Zenon

LEMMA TwoChanges ==
  ASSUME NEW a, NEW b, NEW s, s = <<a, b>>
  PROVE  Head(s) = a /\ Tail(s) = <<b>>
<1>1. Head(<<a, b>>) = a /\ Tail(<<a, b>>) = <<b>>
  OBVIOUS
<1> QED
  BY <1>1, Zenon

\* The first change a client has yet to make, and the others.
LEMMA NextChange ==
  ASSUME StoreInv, NEW c \in Clients, updates[c] # <<>>
  PROVE  LET change == Head(updates[c])
             rest == Tail(updates[c])
         IN  /\ rest \in Seq(Changes)
             /\ \/ change = "Sending" /\ rest \in Placed \union {<<>>}
                \/ /\ change \in {"Declined", "Error"} /\ rest = <<>>
                   /\ mem[c][c] # Absent
                \/ /\ change = "server_id" /\ rest = <<"Receipt">>
                   /\ mem[c][c] # Absent
                \/ /\ change \in {"Receipt", "Delivered", "Failed"} /\ rest = <<>>
                   /\ mem[c][c].server
             /\ pc[c] = "waiting" =>
                  \/ change = "Sending" /\ rest = <<"server_id", "Receipt">>
                  \/ change = "server_id" /\ rest = <<"Receipt">>
                  \/ change = "Receipt" /\ rest = <<>>
<1>1. mem[c][c].server => mem[c][c] # Absent
  BY DEF Absent
<1>2. InStep(c) /\ updates[c] \in Seq(Changes)
  BY DEF StoreInv, TypeOK
<1>. DEFINE change == Head(updates[c])
            rest == Tail(updates[c])
            shape == \/ change = "Sending" /\ rest \in Placed \union {<<>>}
                     \/ /\ change \in {"Declined", "Error"} /\ rest = <<>>
                        /\ mem[c][c] # Absent
                     \/ /\ change = "server_id" /\ rest = <<"Receipt">>
                        /\ mem[c][c] # Absent
                     \/ /\ change \in {"Receipt", "Delivered", "Failed"}
                        /\ rest = <<>> /\ mem[c][c].server
<1>3. rest \in Seq(Changes)
  BY <1>2
<1>4. ASSUME updates[c] \in Unplaced
      PROVE  shape
  <2>1. change = "Sending"
    BY <1>4 DEF Unplaced
  <2>2. rest \in Placed \union {<<>>}
    <3>1. \/ updates[c] = <<"Sending", "server_id", "Receipt">>
          \/ updates[c] = <<"Sending", "Declined">>
          \/ updates[c] = <<"Sending", "Error">>
          \/ updates[c] = <<"Sending">>
      BY <1>4 DEF Unplaced
    <3>2. \/ rest = <<"server_id", "Receipt">>
          \/ rest = <<"Declined">>
          \/ rest = <<"Error">>
          \/ rest = <<>>
      <4>1. CASE updates[c] = <<"Sending", "server_id", "Receipt">>
        <5>1. Tail(<<"Sending", "server_id", "Receipt">>)
                = <<"server_id", "Receipt">>
          OBVIOUS
        <5> QED
          BY <4>1, <5>1, Zenon
      <4>2. CASE updates[c] = <<"Sending", "Declined">>
        BY <4>2, TwoChanges, Zenon
      <4>3. CASE updates[c] = <<"Sending", "Error">>
        BY <4>3, TwoChanges, Zenon
      <4>4. CASE updates[c] = <<"Sending">>
        BY <4>4, OneChange, Zenon
      <4> QED
        BY <3>1, <4>1, <4>2, <4>3, <4>4
    <3> QED
      BY <3>2 DEF Placed
  <2> QED
    BY <2>1, <2>2
<1>5. ASSUME updates[c] \in Placed /\ mem[c][c] # Absent
      PROVE  shape
  <2>1. \/ updates[c] = <<"server_id", "Receipt">>
        \/ updates[c] = <<"Declined">>
        \/ updates[c] = <<"Error">>
    BY <1>5 DEF Placed
  <2>2. \/ change = "server_id" /\ rest = <<"Receipt">>
        \/ change \in {"Declined", "Error"} /\ rest = <<>>
    <3>1. CASE updates[c] = <<"server_id", "Receipt">>
      BY <3>1, TwoChanges, Zenon
    <3>2. CASE updates[c] \in {<<"Declined">>, <<"Error">>}
      <4>1. PICK a \in {"Declined", "Error"} : updates[c] = <<a>>
        BY <3>2
      <4>2. change = a /\ rest = <<>>
        BY <4>1, OneChange, Zenon
      <4> QED
        BY <4>1, <4>2, Zenon
    <3> QED
      BY <2>1, <3>1, <3>2
  <2> QED
    BY <1>5, <2>2
<1>6. ASSUME updates[c] \in Identified /\ mem[c][c].server
      PROVE  shape
  <2>1. change \in {"Receipt", "Delivered", "Failed", "Error"} /\ rest = <<>>
    <3>1. \/ updates[c] = <<"Receipt">>
          \/ updates[c] = <<"Delivered">>
          \/ updates[c] = <<"Failed">>
          \/ updates[c] = <<"Error">>
      BY <1>6 DEF Identified
    <3>2. PICK a \in {"Receipt", "Delivered", "Failed", "Error"} : updates[c] = <<a>>
      BY <3>1
    <3>3. change = a /\ rest = <<>>
      BY <3>2, OneChange, Zenon
    <3> QED
      BY <3>2, <3>3, Zenon
  <2> QED
    BY <1>1, <1>6, <2>1
<1>7. ASSUME pc[c] = "waiting"
      PROVE  \/ change = "Sending" /\ rest = <<"server_id", "Receipt">>
             \/ change = "server_id" /\ rest = <<"Receipt">>
             \/ change = "Receipt" /\ rest = <<>>
  <2>1. \/ updates[c] = <<"Sending", "server_id", "Receipt">>
        \/ updates[c] = <<"server_id", "Receipt">>
        \/ updates[c] = <<"Receipt">>
    BY <1>2, <1>7 DEF InStep
  <2>2. CASE updates[c] = <<"Sending", "server_id", "Receipt">>
    <3>1. /\ Head(<<"Sending", "server_id", "Receipt">>) = "Sending"
          /\ Tail(<<"Sending", "server_id", "Receipt">>)
               = <<"server_id", "Receipt">>
      OBVIOUS
    <3> QED
      BY <2>2, <3>1, Zenon
  <2>3. CASE updates[c] = <<"server_id", "Receipt">>
    BY <2>3, TwoChanges, Zenon
  <2>4. CASE updates[c] = <<"Receipt">>
    BY <2>4, OneChange, Zenon
  <2> QED
    BY <2>1, <2>2, <2>3, <2>4
<1>8. shape
  BY <1>2, <1>4, <1>5, <1>6 DEF InStep
<1>. HIDE DEF change, rest
<1> QED
  BY <1>3, <1>7, <1>8 DEF change, rest

\* The change of a map: the order of c stays an order, and gets no status the
\* server gives before it has the server's id.
LEMMA ChangedHistory ==
  ASSUME StoreInv, NEW c \in Clients, updates[c] # <<>>
  PROVE  LET change == Head(updates[c])
             m == Changed(mem[c], c, change)
         IN  /\ m \in History
             /\ \A d \in Clients : HasId(m[d])
             /\ \A d \in Clients \ {c} : m[d] = mem[c][d]
             /\ m[c] # Absent
             /\ change = "server_id" => m[c].server
             /\ change = "Receipt" => m[c].server
<1>. DEFINE change == Head(updates[c])
            m == Changed(mem[c], c, change)
<1>1. /\ mem[c] \in History
      /\ mem[c][c] \in Order \union {Absent}
      /\ \A d \in Clients : HasId(mem[c][d])
  BY DEF StoreInv, TypeOK, History
<1>2. \/ change = "Sending"
      \/ change = "server_id" /\ mem[c][c] # Absent
      \/ change \in {"Declined", "Error"} /\ mem[c][c] # Absent
      \/ change \in {"Receipt", "Delivered", "Failed"} /\ mem[c][c].server
  BY NextChange
<1>. DEFINE goal == /\ m \in History
                    /\ \A d \in Clients : HasId(m[d])
                    /\ \A d \in Clients \ {c} : m[d] = mem[c][d]
                    /\ m[c] # Absent
                    /\ change = "server_id" => m[c].server
                    /\ change = "Receipt" => m[c].server
<1>. HIDE DEF change
<1>3. mem[c][c].server => mem[c][c] # Absent
  BY DEF Absent
<1>4. ASSUME change = "Sending"
      PROVE  goal
  <2>1. m = [mem[c] EXCEPT ![c] = [status |-> "Sending", server |-> FALSE]]
    BY <1>4 DEF Changed
  <2>. DEFINE new == [status |-> "Sending", server |-> FALSE]
  <2>2. new \in Order /\ HasId(new) /\ new # Absent
    BY DEF Order, Statuses, HasId, Absent
  <2>. HIDE DEF new
  <2>3. m \in History /\ m[c] = new /\ \A d \in Clients \ {c} : m[d] = mem[c][d]
    BY <1>1, <2>1, <2>2 DEF History, new
  <2> QED
    BY <1>1, <1>4, <2>2, <2>3
<1>5. ASSUME change = "server_id"
      PROVE  goal
  <2>1. m = [mem[c] EXCEPT ![c].server = TRUE]
    BY <1>5 DEF Changed
  <2>2. mem[c][c] \in Order
    BY <1>1, <1>2, <1>5
  <2>3. /\ m \in History
        /\ \A d \in Clients \ {c} : m[d] = mem[c][d]
        /\ m[c].status = mem[c][c].status /\ m[c].server
    BY <1>1, <2>1, <2>2 DEF History, Order
  <2>4. HasId(m[c]) /\ m[c] # Absent
    BY <2>3 DEF HasId, Absent
  <2> QED
    BY <1>1, <1>5, <2>3, <2>4
<1>6. ASSUME change \in {"Declined", "Error", "Receipt", "Delivered", "Failed"}
      PROVE  goal
  <2>1. m = [mem[c] EXCEPT ![c].status = change]
    BY <1>6 DEF Changed
  <2>2. mem[c][c] \in Order
    BY <1>1, <1>2, <1>3, <1>6
  <2>3. change \in Statuses
    BY <1>6 DEF Statuses
  <2>4. /\ m \in History
        /\ \A d \in Clients \ {c} : m[d] = mem[c][d]
        /\ m[c].status = change /\ m[c].server = mem[c][c].server
    BY <1>1, <2>1, <2>2, <2>3 DEF History, Order
  <2>5. m[c] # Absent
    BY <2>3, <2>4 DEF Statuses, Absent
  <2>6. HasId(m[c])
    BY <1>2, <1>6, <2>4 DEF HasId
  <2>7. change = "Receipt" => m[c].server
    BY <1>2, <2>4
  <2> QED
    BY <1>1, <1>6, <2>4, <2>5, <2>6, <2>7
<1>7. goal
  BY <1>2, <1>4, <1>5, <1>6
<1> QED
  BY <1>7 DEF change

-----------------------------------------------------------------------------
(* The steps.                                                              *)

\* A step that changes neither a map nor the file, and keeps every client in step.
LEMMA SameMaps ==
  ASSUME StoreInv, TypeOK', UNCHANGED <<mem, file>>, \A c \in Clients : InStep(c)'
  PROVE  StoreInv'
BY DEF StoreInv

\* A client other than c is in step after a step of c.
LEMMA OthersInStep ==
  ASSUME StoreInv, NEW c \in Clients, NEW d \in Clients, d # c,
         pc'[d] = pc[d], updates'[d] = updates[d], mem'[d] = mem[d]
  PROVE  InStep(d)'
BY DEF StoreInv, InStep

\* Making a change keeps the invariant, whether the file is opened or not.
LEMMA UpdateKeeps ==
  ASSUME StoreInv, NEW c \in Clients, Update(c) \/ UpdateFails(c)
  PROVE  StoreInv'
<1>. DEFINE change == Head(updates[c])
            rest == Tail(updates[c])
            m == Changed(mem[c], c, change)
<1>1. /\ updates[c] # <<>>
      /\ mem' = [mem EXCEPT ![c] = m]
      /\ updates' = [updates EXCEPT ![c] = rest]
      /\ UNCHANGED <<pc, exits, overlapped, killed, unread>>
  BY DEF Update, UpdateFails, Change
<1>f. /\ file' \in {file, Without("empty")}
      /\ open' \subseteq open \union {c}
      /\ saved' \in [Clients -> {"ok", "failed", "torn"}]
  BY DEF Update, UpdateFails, StoreInv, TypeOK
<1>2. /\ rest \in Seq(Changes)
      /\ \/ change = "Sending" /\ rest \in Placed \union {<<>>}
         \/ change \in {"Declined", "Error"} /\ rest = <<>>
         \/ change = "server_id" /\ rest = <<"Receipt">>
         \/ change \in {"Receipt", "Delivered", "Failed"} /\ rest = <<>>
      /\ pc[c] = "waiting" =>
           \/ change = "Sending" /\ rest = <<"server_id", "Receipt">>
           \/ change = "server_id" /\ rest = <<"Receipt">>
           \/ change = "Receipt" /\ rest = <<>>
  BY <1>1, NextChange
<1>3. /\ m \in History
      /\ \A d \in Clients : HasId(m[d])
      /\ m[c] # Absent
      /\ change = "server_id" => m[c].server
      /\ change = "Receipt" => m[c].server
  BY <1>1, ChangedHistory
<1>. HIDE DEF change, rest, m
<1>4. TypeOK'
  <2>1. file' \in File /\ open' \subseteq Clients
    BY <1>f, NoOrdersHistory DEF StoreInv, TypeOK
  <2> QED
    BY <1>1, <1>f, <1>2, <1>3, <2>1 DEF StoreInv, TypeOK
<1>5. /\ pc'[c] = pc[c] /\ updates'[c] = rest /\ mem'[c] = m
      /\ \A d \in Clients \ {c} :
           pc'[d] = pc[d] /\ updates'[d] = updates[d] /\ mem'[d] = mem[d]
  BY <1>1 DEF StoreInv, TypeOK
<1>6. InStep(c)'
  <2>1. pc[c] = "new" => updates[c] = <<>>
    BY DEF StoreInv, InStep
  <2>2. pc'[c] # "new"
    BY <1>1, <1>5, <2>1
  <2>3. CASE change = "Sending"
    BY <1>2, <1>3, <1>5, <2>2, <2>3 DEF InStep
  <2>4. CASE change \in {"Declined", "Error", "Receipt", "Delivered", "Failed"}
    BY <1>2, <1>3, <1>5, <2>2, <2>4 DEF InStep
  <2>5. CASE change = "server_id"
    <3>1. rest = <<"Receipt">> /\ rest \in Identified /\ m[c].server
      BY <1>2, <1>3, <2>5 DEF Identified
    <3> QED
      BY <1>5, <2>2, <3>1 DEF InStep
  <2> QED
    BY <1>2, <2>3, <2>4, <2>5
<1>7. \A d \in Clients : InStep(d)'
  BY <1>5, <1>6, OthersInStep
<1>8. \A d \in Clients : HasId(file'.orders[d])
  BY <1>f, NoOrdersHistory DEF StoreInv
<1>9. \A d, e \in Clients : HasId(mem'[d][e])
  BY <1>3, <1>5 DEF StoreInv
<1> QED
  BY <1>4, <1>7, <1>8, <1>9 DEF StoreInv

\* So does every other step.
LEMMA StepKeeps ==
  ASSUME StoreInv, [Next]_vars
  PROVE  StoreInv'
<1>1. ASSUME NEW c \in Clients, Start(c)
      PROVE  StoreInv'
  <2>0. PICK m \in {Parsed, NoOrders} : mem' = [mem EXCEPT ![c] = m]
    BY <1>1 DEF Start, Loaded
  <2>1. /\ pc' = [pc EXCEPT ![c] = "asking"]
        /\ UNCHANGED <<updates, file, open, exits, killed, saved>>
        /\ overlapped' \in BOOLEAN /\ unread' \in BOOLEAN
    BY <1>1 DEF Start, StoreInv, TypeOK
  <2>2. m \in History /\ \A d \in Clients : HasId(m[d])
    BY ParsedHistory, NoOrdersHistory
  <2>3. TypeOK'
    BY <2>0, <2>1, <2>2 DEF StoreInv, TypeOK
  <2>4. InStep(c)'
    BY <1>1, <2>1 DEF Start, StoreInv, TypeOK, InStep
  <2>5. \A d \in Clients : mem'[d] = IF d = c THEN m ELSE mem[d]
    BY <2>0 DEF StoreInv, TypeOK
  <2>6. \A d \in Clients : InStep(d)'
    BY <2>1, <2>4, <2>5, OthersInStep DEF StoreInv, TypeOK
  <2>7. \A d, e \in Clients : HasId(mem'[e][d])
    BY <2>2, <2>5 DEF StoreInv
  <2> QED
    BY <2>1, <2>3, <2>6, <2>7 DEF StoreInv
<1>2. ASSUME NEW c \in Clients, GiveUp(c) \/ Kill(c)
      PROVE  StoreInv'
  <2>1. /\ pc' = [pc EXCEPT ![c] = "ended"]
        /\ updates' \in {updates, [updates EXCEPT ![c] = <<>>]}
        /\ updates'[c] = <<>>
        /\ UNCHANGED <<mem, file, exits, overlapped, unread, saved>>
        /\ open' \subseteq open
        /\ killed' \in BOOLEAN
    BY <1>2 DEF GiveUp, Kill, Ready, StoreInv, TypeOK
  <2>2. TypeOK'
    <3>1. \A s : s = <<>> => s \in Seq(Changes)
      OBVIOUS
    <3>2. updates' \in [Clients -> Seq(Changes)] /\ open' \subseteq Clients
      BY <2>1, <3>1 DEF StoreInv, TypeOK
    <3> QED
      BY <2>1, <3>2 DEF StoreInv, TypeOK
  <2>3. InStep(c)'
    BY <2>1 DEF StoreInv, TypeOK, InStep
  <2> QED
    BY <2>1, <2>2, <2>3, OthersInStep, SameMaps DEF StoreInv, TypeOK
<1>3. ASSUME NEW c \in Clients, Frame1(c)
      PROVE  StoreInv'
  <2>1. PICK frame \in {"OrderReceipt", "OrderDeclined", "Error", "other"} :
          /\ updates' = [updates EXCEPT ![c] = FirstChanges(frame)]
          /\ pc' = [pc EXCEPT ![c] =
                      IF frame = "OrderReceipt" THEN "waiting" ELSE "ended"]
    BY <1>3 DEF Frame1
  <2>2. /\ FirstChanges(frame) \in Unplaced
        /\ frame = "OrderReceipt" =>
             FirstChanges(frame) = <<"Sending", "server_id", "Receipt">>
    BY DEF FirstChanges, Unplaced
  <2>t. FirstChanges(frame) \in Seq(Changes)
    <3>1. {"Sending", "server_id", "Receipt", "Declined", "Error"} \subseteq Changes
      BY DEF Changes, Statuses
    <3> QED
      BY <3>1 DEF FirstChanges
  <2>3. UNCHANGED <<mem, file, open, exits, overlapped, killed, unread, saved>>
    BY <1>3 DEF Frame1
  <2>4. TypeOK'
    BY <2>1, <2>t, <2>3 DEF StoreInv, TypeOK
  <2>5. InStep(c)'
    BY <2>1, <2>2, <2>3 DEF StoreInv, TypeOK, InStep
  <2> QED
    BY <2>1, <2>3, <2>4, <2>5, OthersInStep, SameMaps DEF StoreInv, TypeOK
<1>4. ASSUME NEW c \in Clients, Frame2(c)
      PROVE  StoreInv'
  <2>1. PICK status \in {"Delivered", "Failed", "Error"} :
          updates' = [updates EXCEPT ![c] = <<status>>]
    BY <1>4 DEF Frame2
  <2>2. /\ pc' = [pc EXCEPT ![c] = "ended"]
        /\ UNCHANGED <<mem, file, open, exits, overlapped, killed, unread, saved>>
        /\ pc[c] = "waiting" /\ updates[c] = <<>>
    BY <1>4 DEF Frame2, Ready
  <2>3. mem[c][c].server
    BY <2>2 DEF StoreInv, InStep
  <2>4. <<status>> \in Seq(Changes) /\ <<status>> \in Identified
    BY DEF Changes, Statuses, Identified
  <2>5. TypeOK'
    BY <2>1, <2>2, <2>4 DEF StoreInv, TypeOK
  <2>6. InStep(c)'
    BY <2>1, <2>2, <2>3, <2>4 DEF StoreInv, TypeOK, InStep
  <2> QED
    BY <2>1, <2>2, <2>5, <2>6, OthersInStep, SameMaps DEF StoreInv, TypeOK
<1>5. ASSUME NEW c \in Clients, Write(c) \/ WriteFails(c)
      PROVE  StoreInv'
  <2>1. /\ UNCHANGED <<pc, mem, updates, exits, overlapped, killed, unread>>
        /\ open' \subseteq open
        /\ \/ file' = [kind |-> "json", orders |-> mem[c]]
           \/ file' \in {file, Without("garbled")}
        /\ saved' \in [Clients -> {"ok", "failed", "torn"}]
    BY <1>5 DEF Write, WriteFails, StoreInv, TypeOK
  <2>2. file' \in File /\ \A d \in Clients : HasId(file'.orders[d])
    BY <2>1, NoOrdersHistory DEF StoreInv, TypeOK, File
  <2>3. TypeOK'
    BY <2>1, <2>2 DEF StoreInv, TypeOK
  <2> QED
    BY <2>1, <2>2, <2>3 DEF StoreInv, InStep
<1>6. CASE TuiExit
  <2>1. /\ UNCHANGED <<pc, mem, updates, overlapped, killed, unread, saved>>
        /\ open' = {} /\ file' = Without("missing") /\ exits' \in 0 .. MaxExits
    BY <1>6 DEF TuiExit, StoreInv, TypeOK
  <2>2. file' \in File /\ \A d \in Clients : HasId(file'.orders[d])
    BY <2>1, NoOrdersHistory
  <2>3. TypeOK'
    BY <2>1, <2>2 DEF StoreInv, TypeOK
  <2> QED
    BY <2>1, <2>2, <2>3 DEF StoreInv, InStep
<1>7. CASE UNCHANGED vars
  BY <1>7 DEF vars, StoreInv, TypeOK, InStep
<1> QED
  BY <1>1, <1>2, <1>3, <1>4, <1>5, <1>6, <1>7, UpdateKeeps DEF Next

\* The invariant holds at first and is kept.
LEMMA StoreInvHolds == Spec => []StoreInv
<1>1. Init => StoreInv
  <2> SUFFICES ASSUME Init
               PROVE  StoreInv
    OBVIOUS
  <2>1. /\ \A c \in Clients : pc[c] = "new" /\ updates[c] = <<>> /\ mem[c] = NoOrders
        /\ file = Without("missing")
    BY DEF Init
  <2>2. TypeOK
    <3>1. updates \in [Clients -> Seq(Changes)]
      BY DEF Init
    <3>2. mem \in [Clients -> History] /\ file \in File
      BY NoOrdersHistory DEF Init
    <3>3. pc \in [Clients -> {"new", "asking", "waiting", "ended"}]
      BY DEF Init
    <3>4. exits \in 0 .. MaxExits
      BY DEF Init, ExitsAssumption
    <3>5. /\ open \subseteq Clients /\ overlapped \in BOOLEAN /\ killed \in BOOLEAN
          /\ unread \in BOOLEAN /\ saved \in [Clients -> {"ok", "failed", "torn"}]
      BY DEF Init
    <3> QED
      BY <3>1, <3>2, <3>3, <3>4, <3>5 DEF TypeOK
  <2>3. \A c \in Clients : InStep(c)
    BY <2>1 DEF InStep
  <2> QED
    BY <2>1, <2>2, <2>3, NoOrdersHistory DEF StoreInv
<1>2. StoreInv /\ [Next]_vars => StoreInv'
  BY StepKeeps
<1> QED
  BY <1>1, <1>2, PTL DEF Spec

\* The type invariant of OrderStore: update_order_... is only ever called for an
\* order the map has, so no entry of the history is half an order.
THEOREM StoreTypeCorrect == Spec => []TypeOK
<1>1. StoreInv => TypeOK
  BY DEF StoreInv
<1> QED
  BY <1>1, StoreInvHolds, PTL

\* However many clients and TUIs truncate, overwrite and remove the file, an
\* order it shows as received, delivered or failed has the server's id.
THEOREM AcceptedOrdersAreNamed == Spec => []AcceptedOrdersHaveServerIds
<1>1. StoreInv => AcceptedOrdersHaveServerIds
  BY ParsedHistory DEF AcceptedOrdersHaveServerIds, HasId
<1> QED
  BY <1>1, StoreInvHolds, PTL

-----------------------------------------------------------------------------
(* Clients that run one after the other. The strengthening says, as long as *)
(* they do, that the one that runs has loaded what the others saved, and   *)
(* that the file it truncated is still empty when it writes. What one left *)
(* torn nobody can load; it can still be saved by itself.                  *)

Serial == ~overlapped /\ ~killed /\ ~unread /\ exits = 0

\* The order c placed, if it saved it, is as c left it in m.
Has(m, c) == (saved[c] = "ok" /\ mem[c][c] # Absent) => m[c] = mem[c][c]

\* None but those of cs left the file truncated.
OnlyTornBy(cs) == \A c \in Clients \ cs : saved[c] # "torn"

Alone == /\ \A c, d \in Clients : Active(c) /\ Active(d) => c = d
         /\ \A c \in Clients : pc[c] = "new" => c \notin open /\ saved[c] = "ok"
         /\ \A d \in Clients : Active(d) /\ OnlyTornBy({d}) =>
              \A c \in Clients : Has(mem[d], c)
         /\ open = {} /\ OnlyTornBy({}) => \A c \in Clients : Has(Parsed, c)
         /\ open # {} => file.kind = "empty"

SerialInv == Serial => Alone

\* A step that touches neither a map nor the file, and starts no client.
LEMMA QuietStep ==
  ASSUME Alone, UNCHANGED <<mem, file, open, saved>>,
         \A c \in Clients : Active(c)' => Active(c),
         \A c \in Clients : pc'[c] = "new" => pc[c] = "new"
  PROVE  Alone'
BY DEF Alone, Has, Parsed, OnlyTornBy

\* A client loads what the others left.
LEMMA StartAlone ==
  ASSUME StoreInv, Alone, NEW c \in Clients, Start(c), ~overlapped', ~unread'
  PROVE  Alone'
<1>1. /\ pc[c] = "new"
      /\ pc' = [pc EXCEPT ![c] = "asking"]
      /\ mem' = [mem EXCEPT ![c] = Parsed]
      /\ UNCHANGED <<updates, file, open, saved>>
      /\ \A d \in Clients \ {c} : ~Active(d)
  BY DEF Start, Loaded
<1>2. open = {} /\ saved[c] = "ok"
  BY <1>1 DEF Alone, Active, StoreInv, TypeOK
<1>3. /\ mem'[c] = Parsed /\ pc'[c] = "asking"
      /\ \A d \in Clients \ {c} :
           mem'[d] = mem[d] /\ pc'[d] = pc[d] /\ updates'[d] = updates[d]
  BY <1>1 DEF StoreInv, TypeOK
<1>4. \A d \in Clients : Active(d)' => d = c
  BY <1>1, <1>3 DEF Active
<1>5. Parsed' = Parsed
  BY <1>1 DEF Parsed
<1>6. OnlyTornBy({c})' => /\ OnlyTornBy({}) /\ OnlyTornBy({})'
                          /\ \A d \in Clients : Has(Parsed, d)'
  <2>1. OnlyTornBy({c})' => OnlyTornBy({}) /\ OnlyTornBy({})'
    BY <1>1, <1>2 DEF OnlyTornBy
  <2>2. OnlyTornBy({}) => \A d \in Clients : Has(Parsed, d)'
    BY <1>1, <1>2, <1>3, <1>5 DEF Alone, Has
  <2> QED
    BY <2>1, <2>2
<1>7. \A d \in Clients : Active(d)' /\ OnlyTornBy({d})' => \A e \in Clients : Has(mem[d], e)'
  BY <1>3, <1>4, <1>5, <1>6 DEF Has
<1>8. OnlyTornBy({})' => OnlyTornBy({c})'
  BY DEF OnlyTornBy
<1> QED
  BY <1>1, <1>2, <1>3, <1>4, <1>6, <1>7, <1>8 DEF Alone

\* It changes its own order and leaves the others as it loaded them.
LEMMA ChangeAlone ==
  ASSUME StoreInv, Alone, NEW c \in Clients, Change(c), open' \subseteq open \union {c},
         \A d \in Clients \ {c} : saved'[d] = saved[d]
  PROVE  /\ \A d \in Clients \ {c} : mem'[d] = mem[d]
         /\ Active(c) /\ pc' = pc /\ pc[c] # "new"
         /\ \A d \in Clients : Active(d)' => d = c
         /\ \A d \in Clients : Active(d)' /\ OnlyTornBy({d})' =>
              \A e \in Clients : Has(mem[d], e)'
<1>. DEFINE m == Changed(mem[c], c, Head(updates[c]))
<1>1. /\ updates[c] # <<>>
      /\ mem' = [mem EXCEPT ![c] = m]
      /\ updates' = [updates EXCEPT ![c] = Tail(@)]
      /\ pc' = pc
  BY DEF Change
<1>2. \A d \in Clients \ {c} : m[d] = mem[c][d]
  BY <1>1, ChangedHistory
<1>. HIDE DEF m
<1>3. /\ mem'[c] = m
      /\ \A d \in Clients \ {c} : mem'[d] = mem[d] /\ updates'[d] = updates[d]
  BY <1>1 DEF StoreInv, TypeOK
<1>4. Active(c) /\ pc[c] # "new"
  BY <1>1 DEF Active, StoreInv, InStep
<1>5. \A d \in Clients : Active(d)' => d = c
  BY <1>1, <1>3, <1>4 DEF Alone, Active
<1>6. OnlyTornBy({c})' => \A d \in Clients : Has(mem[c], d)'
  <2>1. OnlyTornBy({c})' => OnlyTornBy({c})
    BY DEF OnlyTornBy
  <2>2. OnlyTornBy({c}) => \A d \in Clients : Has(mem[c], d)
    BY <1>4 DEF Alone
  <2> QED
    BY <1>2, <1>3, <2>1, <2>2 DEF Has
<1> QED
  BY <1>1, <1>3, <1>4, <1>5, <1>6

LEMMA UpdateAlone ==
  ASSUME StoreInv, Alone, NEW c \in Clients, Update(c)
  PROVE  Alone'
<1>1. /\ Change(c) /\ file' = Without("empty") /\ open' = open \union {c}
      /\ saved' = saved
  BY DEF Update
<1>2. file'.kind = "empty" /\ open' # {}
  BY <1>1 DEF Without
<1>3. \A d \in Clients : pc'[d] = "new" => d \notin open' /\ saved'[d] = "ok"
  BY <1>1, ChangeAlone DEF Alone
<1> QED
  BY <1>1, <1>2, <1>3, ChangeAlone DEF Alone

\* The file keeps what it had, and the client its order.
LEMMA UpdateFailsAlone ==
  ASSUME StoreInv, Alone, NEW c \in Clients, UpdateFails(c)
  PROVE  Alone'
<1>1. /\ Change(c) /\ file' = file /\ open' = open
      /\ saved' = [saved EXCEPT ![c] = IF @ = "torn" THEN "torn" ELSE "failed"]
  BY DEF UpdateFails
<1>2. /\ \A d \in Clients \ {c} : saved'[d] = saved[d]
      /\ saved'[c] # "ok"
      /\ saved'[c] = "torn" <=> saved[c] = "torn"
  BY <1>1 DEF StoreInv, TypeOK
<1>3. \A d \in Clients : pc'[d] = "new" => d \notin open' /\ saved'[d] = "ok"
  BY <1>1, <1>2, ChangeAlone DEF Alone
<1>4. OnlyTornBy({})' => OnlyTornBy({})
  BY <1>2 DEF OnlyTornBy
<1>5. Parsed' = Parsed
  BY <1>1 DEF Parsed
<1>6. open' = {} /\ OnlyTornBy({})' => \A d \in Clients : Has(Parsed, d)'
  <2>1. \A d \in Clients \ {c} : mem'[d] = mem[d]
    BY <1>1, <1>2, ChangeAlone
  <2> QED
    BY <1>1, <1>2, <1>4, <1>5, <2>1 DEF Alone, Has
<1> QED
  BY <1>1, <1>2, <1>3, <1>6, ChangeAlone DEF Alone

\* What it writes has every order, and nobody else writes.
LEMMA WriteAlone ==
  ASSUME StoreInv, Alone, NEW c \in Clients, Write(c)
  PROVE  Alone'
<1>1. /\ c \in open /\ open' = open \ {c} /\ UNCHANGED <<pc, mem, updates>>
      /\ file.kind = "empty"
      /\ saved' = [saved EXCEPT ![c] = "ok"]
  BY DEF Write, Alone
<1>2. file' = [kind |-> "json", orders |-> mem[c]]
  BY <1>1 DEF Write
<1>3. Active(c) /\ open' = {}
  BY <1>1 DEF Alone, Active, StoreInv, TypeOK
<1>4. Parsed' = mem[c]
  BY <1>2 DEF Parsed
<1>5. \A d \in Clients : saved'[d] = IF d = c THEN "ok" ELSE saved[d]
  BY <1>1 DEF StoreInv, TypeOK
<1>6. /\ OnlyTornBy({})' => OnlyTornBy({c})
      /\ OnlyTornBy({c})' => OnlyTornBy({c})
  BY <1>5 DEF OnlyTornBy
<1>7. OnlyTornBy({c}) => \A d \in Clients : Has(mem[c], d)'
  BY <1>1, <1>3, <1>5 DEF Alone, Has
<1>8. open' = {} /\ OnlyTornBy({})' => \A d \in Clients : Has(Parsed, d)'
  BY <1>1, <1>4, <1>6, <1>7 DEF Has
<1>9. \A d \in Clients : Active(d)' => Active(d)
  BY <1>1 DEF Active
<1>10. \A d \in Clients : Active(d)' /\ OnlyTornBy({d})' => \A e \in Clients : Has(mem[d], e)'
  BY <1>3, <1>6, <1>7, <1>9 DEF Alone
<1> QED
  BY <1>1, <1>3, <1>5, <1>8, <1>9, <1>10 DEF Alone

\* A file left truncated is one nobody loads the orders of the others from; the
\* client itself may yet save them.
LEMMA WriteFailsAlone ==
  ASSUME StoreInv, Alone, NEW c \in Clients, WriteFails(c)
  PROVE  Alone'
<1>1. /\ c \in open /\ open' = open \ {c} /\ UNCHANGED <<pc, mem, updates>>
      /\ saved' = [saved EXCEPT ![c] = "torn"]
  BY DEF WriteFails
<1>2. Active(c) /\ open' = {} /\ pc[c] # "new"
  BY <1>1 DEF Alone, Active, StoreInv, TypeOK
<1>3. \A d \in Clients : saved'[d] = IF d = c THEN "torn" ELSE saved[d]
  BY <1>1 DEF StoreInv, TypeOK
<1>4. ~OnlyTornBy({})' /\ (OnlyTornBy({c})' => OnlyTornBy({c}))
  BY <1>3 DEF OnlyTornBy
<1>5. OnlyTornBy({c}) => \A d \in Clients : Has(mem[c], d)'
  BY <1>1, <1>2, <1>3 DEF Alone, Has
<1>6. \A d \in Clients : Active(d)' => Active(d)
  BY <1>1 DEF Active
<1>7. \A d \in Clients : Active(d)' /\ OnlyTornBy({d})' => \A e \in Clients : Has(mem[d], e)'
  BY <1>2, <1>4, <1>5, <1>6 DEF Alone
<1> QED
  BY <1>1, <1>2, <1>3, <1>4, <1>6, <1>7 DEF Alone

LEMMA SerialStep ==
  ASSUME StoreInv, SerialInv, [Next]_vars
  PROVE  SerialInv'
<1> SUFFICES ASSUME Serial'
             PROVE  Alone'
  BY DEF SerialInv
<1>1. Serial /\ ~TuiExit /\ \A c \in Clients : ~Kill(c)
  <2>1. ~TuiExit
    BY DEF Serial, TuiExit, StoreInv, TypeOK
  <2>2. \A c \in Clients : ~Kill(c)
    BY DEF Serial, Kill
  <2>3. /\ exits' = exits /\ (overlapped => overlapped') /\ (killed => killed')
        /\ (unread => unread')
    <3>1. ASSUME NEW c \in Clients,
                 \/ Start(c) \/ GiveUp(c) \/ Frame1(c) \/ Frame2(c)
                 \/ Update(c) \/ UpdateFails(c) \/ Write(c) \/ WriteFails(c)
          PROVE  /\ exits' = exits /\ (overlapped => overlapped')
                 /\ (killed => killed') /\ (unread => unread')
      <4>1. CASE Start(c)
        <5>1. /\ overlapped' = (overlapped \/ \E d \in Clients \ {c} : Active(d))
              /\ exits' = exits /\ killed' = killed
          BY <4>1 DEF Start
        <5>2. unread => unread'
          BY <4>1 DEF Start
        <5> QED
          BY <5>1, <5>2, Zenon
      <4>2. CASE \/ GiveUp(c) \/ Frame1(c) \/ Frame2(c)
                 \/ Update(c) \/ UpdateFails(c) \/ Write(c) \/ WriteFails(c)
        <5>1. /\ exits' = exits /\ overlapped' = overlapped
              /\ killed' = killed /\ unread' = unread
          BY <4>2 DEF GiveUp, Frame1, Frame2, Update, UpdateFails, Change, Write, WriteFails
        <5> QED
          BY <5>1, Zenon
      <4> QED
        BY <3>1, <4>1, <4>2
    <3>2. CASE UNCHANGED vars
      BY <3>2, Zenon DEF vars
    <3> QED
      BY <2>1, <2>2, <3>1, <3>2, Zenon DEF Next
  <2> QED
    BY <2>1, <2>2, <2>3 DEF Serial
<1>2. Alone
  BY <1>1 DEF SerialInv
<1>3. ASSUME NEW c \in Clients, GiveUp(c) \/ Frame1(c) \/ Frame2(c)
      PROVE  Alone'
  <2>1. /\ pc[c] \in {"asking", "waiting"}
        /\ UNCHANGED <<mem, file, open, saved>>
    BY <1>3 DEF GiveUp, Frame1, Frame2, Ready
  <2>2. /\ pc'[c] # "new"
        /\ \A d \in Clients \ {c} : pc'[d] = pc[d] /\ updates'[d] = updates[d]
    BY <1>3 DEF GiveUp, Frame1, Frame2, StoreInv, TypeOK
  <2>3. \A d \in Clients : Active(d)' => Active(d)
    BY <2>1, <2>2 DEF Active
  <2> QED
    BY <1>2, <2>1, <2>2, <2>3, QuietStep
<1>4. CASE UNCHANGED vars
  BY <1>2, <1>4, QuietStep DEF vars, Active
<1>5. ~overlapped' /\ ~unread'
  BY DEF Serial
<1> QED
  BY <1>1, <1>2, <1>3, <1>4, <1>5, StartAlone, UpdateAlone, UpdateFailsAlone,
     WriteAlone, WriteFailsAlone DEF Next

\* While clients run one after the other, each reads the file, none is killed, no
\* TUI exits and no client leaves the file truncated (save_to_file logs the error
\* of a write and the client goes on), the file keeps the order of every client
\* whose last save succeeded, with its last status: what save_to_file truncates
\* is rewritten by the process that loaded it, also after saves that failed.
THEOREM SerialClientsKeepOrders == Spec => []SerialClientsLoseNothing
<1>1. Init => SerialInv
  <2> SUFFICES ASSUME Init
               PROVE  Alone
    BY DEF SerialInv
  <2>1. \A c \in Clients : mem[c][c] = Absent
    BY NoOrdersHistory DEF Init
  <2>2. open = {} /\ \A c \in Clients : ~Active(c) /\ saved[c] = "ok"
    BY DEF Init, Active
  <2> QED
    BY <2>1, <2>2 DEF Alone, Has
<1>2. StoreInv /\ SerialInv /\ [Next]_vars => SerialInv'
  BY SerialStep
<1>3. SerialInv => SerialClientsLoseNothing
  BY DEF SerialInv, Serial, Alone, Has, OnlyTornBy, SerialClientsLoseNothing
<1> QED
  BY <1>1, <1>2, <1>3, StoreInvHolds, PTL DEF Spec
=============================================================================
