---------------------------- MODULE OrderService ----------------------------
(***************************************************************************)
(* What a client of the pizza factory is promised, whatever the nodes do   *)
(* behind the connection: an order is declined, or it is acknowledged with *)
(* a receipt and then gets one final answer; the answer is "Completed"     *)
(* only for a pizza that was really made, and it never changes.            *)
(***************************************************************************)
CONSTANT Orders

VARIABLES
    client, \* client[o]: what the connection of order o has shown so far
    made    \* the orders for which some node finished every action

vars == <<client, made>>

Final == {"Declined", "Completed", "Failed", "Error", "Lost"}

TypeOK == /\ client \in [Orders -> {"nothing", "Receipt"} \union Final]
          /\ made \subseteq Orders

Init == /\ client = [o \in Orders |-> "nothing"]
        /\ made = {}

\* The recipe is unknown: no receipt is ever written.
Decline(o) == /\ client[o] = "nothing"
              /\ client' = [client EXCEPT ![o] = "Declined"]
              /\ UNCHANGED made

\* Frame 1 of an accepted order.
Acknowledge(o) == /\ client[o] = "nothing"
                  /\ client' = [client EXCEPT ![o] = "Receipt"]
                  /\ UNCHANGED made

\* Some node executed the last action of an acknowledged order. This may
\* happen after the client was answered: a slow branch goes on by itself.
Make(o) == /\ client[o] # "nothing"
           /\ made' = made \union {o}
           /\ UNCHANGED client

\* Frame 2. A pizza is handed over only when it is made.
Answer(o, kind) == /\ client[o] = "Receipt"
                   /\ kind = "Completed" => o \in made
                   /\ client' = [client EXCEPT ![o] = kind]
                   /\ UNCHANGED made

\* The node that took the orders os dies, or a connection breaks.
Break(os) == /\ \A o \in os : client[o] \in {"nothing", "Receipt"}
             /\ client' = [o \in Orders |->
                             IF o \in os THEN "Lost" ELSE client[o]]
             /\ UNCHANGED made

Next == \/ \E o \in Orders :
             \/ Decline(o)
             \/ Acknowledge(o)
             \/ Make(o)
             \/ \E kind \in {"Completed", "Failed", "Error"} : Answer(o, kind)
        \/ \E os \in SUBSET Orders : Break(os)

Spec == Init /\ [][Next]_vars
=============================================================================
