------------------------------ MODULE MCGossip ------------------------------
(***************************************************************************)
(* Instances of Gossip for TLC.                                            *)
(***************************************************************************)
EXTENDS Gossip, TLC

CONSTANTS a, b, c, d \* nodes

\* b is told of a, and c of b: a chain along which a and c learn of each other.
ChainPeers == [n \in Nodes |-> CASE n = a -> {} [] n = b -> {a} [] n = c -> {b}]

\* b and c are told of a only.
StarPeers == [n \in Nodes |-> IF n = a THEN {} ELSE {a}]

\* b and c are told of a, and c of an address nothing can be sent to.
MixedPeers == [n \in Nodes |->
                 CASE n = b -> {a} [] n = c -> {a, d} [] OTHER -> {}]

\* Bound: only b stops, and starts again.
OnlyBRestarts == \A n \in Nodes \ {b} : status[n] = "down" => starts[n] = 0

\* Clocks that read the same at every start, and a clock of b that may also have
\* gone on or have been set back.
SameClock == [n \in Nodes |-> [g \in Starts |-> {1}]]
AnyClock == [n \in Nodes |-> [g \in Starts |-> IF n = b /\ g > 1 THEN 0 .. 2 ELSE {1}]]

-----------------------------------------------------------------------------
\* Some datagram is handled.
Deliver == \E m \in net : Receive(m) \/ Vanish(m)

\* Calm: what a tick sends, and what that brings about, is handled before the
\* next tick of any node (milliseconds against two seconds), and only a node that
\* is down is silent for ten seconds. Starts and stops come at any moment.
CalmTick(n) == net = {} /\ Tick(n)
CalmAge(n, p) == net = {} /\ status[p] = "down" /\ Age(n, p)

CalmNext == \/ \E n \in Nodes : Boot(n) \/ Stop(n) \/ CalmTick(n)
            \/ Deliver
            \/ \E n, p \in Nodes : CalmAge(n, p)

\* A tick is possible again and again, not all the time.
CalmSpec == /\ Init /\ [][CalmNext]_vars
            /\ WF_vars(Deliver)
            /\ \A n \in Nodes : SF_vars(CalmTick(n))

\* And time passes for whoever is down.
AgingSpec == CalmSpec /\ \A p \in Nodes : SF_vars(\E n \in Nodes : CalmAge(n, p))

\* Every node knows what every other one advertises since its last start.
Converged == \A n, p \in Nodes :
               n # p => /\ table[n][p] # Absent
                        /\ table[n][p].info = starts[p]

\* Answering and relaying announces ends by itself: an announce is passed on only
\* by a node it teaches something, and the network is quiet again and again.
StormsEnd == []<>(net = {})

\* When all nodes run for good, whatever the order of their starts and however
\* many announces went to nodes that were down, the tables converge.
EveryoneIsDiscovered ==
    <>[](\A n \in Nodes : status[n] = "running") => <>[]Converged

\* remove_stale_peers, "Removes peers that have not been heard from for longer
\* than PEER_STALE_TIMEOUT": once a peer that is down for good has become stale,
\* it is removed for good.
DeadPeersAreForgotten ==
    \A n, p \in Nodes :
      (/\ <>[](status[p] = "down" /\ status[n] = "running")
       /\ <>(status[p] = "down" /\ p \in Stale(n)))
        => <>[](table[n][p] = Absent)
=============================================================================
