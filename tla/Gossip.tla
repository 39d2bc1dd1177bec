------------------------------- MODULE Gossip -------------------------------
(***************************************************************************)
(* The UDP gossip service, src/network/udp/gossip.rs.                      *)
(*                                                                         *)
(* One thread per node runs a loop of ticks: it removes stale peers, sends *)
(* an Announce and a Ping to every peer of its table, then handles the     *)
(* datagrams that arrive for two seconds. An Announce that teaches it      *)
(* something is answered with its own and relayed to the other peers.      *)
(* Datagrams are lost, delayed and reordered; nodes stop and start again.  *)
(*                                                                         *)
(* Definitions named Wrong... are the code with one plausible mistake.     *)
(***************************************************************************)
EXTENDS Naturals, FiniteSets

CONSTANTS
    Nodes,       \* addresses of nodes
    Unreachable, \* addresses of the tables no datagram can be sent to
    Bootstrap,   \* Bootstrap[n]: the --peer addresses of n
    Lossy,       \* whether datagrams are lost
    MaxCounter,  \* where the announce counter saturates (u64::MAX)
    MaxStarts,   \* bound: starts of each node
    Clock,       \* Clock[n][g]: what n's clock may read at its g-th start, in
                 \* seconds: the same as before, or less when it was set back
    MaxInFlight  \* bound: datagrams in flight; the others count as lost

ASSUME UnreachableAssumption == Unreachable \subseteq Nodes
ASSUME BootstrapAssumption == Bootstrap \in [Nodes -> SUBSET Nodes]
ASSUME BoundsAssumption == /\ Lossy \in BOOLEAN
                           /\ MaxCounter \in Nat \ {0}
                           /\ MaxStarts \in Nat
                           /\ MaxInFlight \in Nat

\* The starts of a node, counted.
Starts == 1 .. MaxStarts

ASSUME ClockAssumption == Clock \in [Nodes -> [Starts -> SUBSET Nat]]

VARIABLES
    status,  \* status[n]: "down", "running", or "frozen" when the gossip thread
             \* has ended and the process goes on
    starts,  \* starts[n]: how often n was started
    version, \* version[n][g]: the version n's g-th start reached; history but for
             \* the present one
    table,   \* table[n][p]: what n knows of p
    net      \* datagrams in flight

vars == <<status, starts, version, table, net>>

-----------------------------------------------------------------------------
\* The generation is the clock at the start of the process.
Version == [generation : Nat, counter : 0 .. MaxCounter]
Zero == [generation |-> 0, counter |-> 0]

IsNewer(v, w) ==
    \/ v.generation > w.generation
    \/ v.generation = w.generation /\ v.counter > w.counter

\* The counter overflows.
WrongOverflow(v) == [v EXCEPT !.counter = @ + 1]
\* The counter wraps around.
WrongBump(v) == [v EXCEPT !.counter = (@ + 1) % (MaxCounter + 1)]
\* The counter saturates.
Bump(v) == IF v.counter < MaxCounter THEN [v EXCEPT !.counter = @ + 1] ELSE v

\* What the present start of n has reached.
Current(n) == version[n][starts[n]]

\* info: the start whose capabilities and recipes the entry has; 0 if none.
\* heard: last_seen is 0, at most ten seconds ago, or longer ago.
Entry == [version : Version, info : {0} \union Starts,
          heard : {"never", "recent", "old"}]
Unknown == [version |-> Zero, info |-> 0, heard |-> "never"]
Absent == [heard |-> "absent"]

Message ==
    [type : {"Announce"}, node : Nodes, info : Starts, version : Version,
     peers : SUBSET Nodes, from : Nodes, to : Nodes]
      \union [type : {"Ping", "Pong"}, version : Version, from : Nodes, to : Nodes]

Announce(n, g, v, peers, to) ==
    [type |-> "Announce", node |-> n, info |-> g, version |-> v,
     peers |-> peers \ {n}, from |-> n, to |-> to]
Check(type, n, v, to) == [type |-> type, version |-> v, from |-> n, to |-> to]

\* The peers of a table tbl, and those the node n sends to.
Peers(tbl) == {p \in Nodes : tbl[p] # Absent}
Targets(n, tbl) == Peers(tbl) \ {n}

TypeOK ==
    /\ status \in [Nodes -> {"down", "running", "frozen"}]
    /\ starts \in [Nodes -> {0} \union Starts]
    /\ version \in [Nodes -> [Starts -> Version]]
    /\ table \in [Nodes -> [Nodes -> Entry \union {Absent}]]
    /\ net \subseteq Message

Init ==
    /\ status = [n \in Nodes |-> "down"]
    /\ starts = [n \in Nodes |-> 0]
    /\ version = [n \in Nodes |-> [g \in Starts |-> Zero]]
    /\ table = [n \in Nodes |-> [p \in Nodes |-> Absent]]
    /\ net = {}

\* A datagram may be lost when it is sent.
Send(rest, sent) ==
    \E kept \in (IF Lossy THEN SUBSET sent ELSE {sent}) :
      /\ Cardinality(rest \union kept) <= MaxInFlight
      /\ net' = rest \union kept

\* n sends `sent` to the targets in the order the hash map gives. The error of
\* one send is returned through every caller: the thread ends there, and with it
\* n's gossip. (Announces go first: no Ping is sent then.)
SendAll(n, rest, sent, targets) ==
    \/ /\ targets \intersect Unreachable = {}
       /\ Send(rest, sent)
       /\ status' = [status EXCEPT ![n] = "running"]
    \/ /\ targets \intersect Unreachable # {}
       /\ \E done \in SUBSET {m \in sent : m.to \notin Unreachable /\ m.type # "Ping"} :
            Send(rest, done)
       /\ status' = [status EXCEPT ![n] = "frozen"]

-----------------------------------------------------------------------------
(* A node starts, ticks, and stops.                                        *)

\* NodeState::new, and the announce before the first tick.
Boot(n) ==
    LET g == starts[n] + 1
        peers == Bootstrap[n] \ {n}
    IN
    /\ n \notin Unreachable
    /\ status[n] = "down"
    /\ g \in Starts
    /\ starts' = [starts EXCEPT ![n] = g]
    /\ table' = [table EXCEPT ![n] =
                   [p \in Nodes |-> IF p \in Bootstrap[n] THEN Unknown ELSE Absent]]
    /\ \E seconds \in Clock[n][g] :
         LET v == [generation |-> seconds, counter |-> 1] IN
         /\ version' = [version EXCEPT ![n][g] = v]
         /\ SendAll(n, net, {Announce(n, g, v, peers, p) : p \in peers}, peers)

Stop(n) ==
    /\ status[n] # "down"
    /\ status' = [status EXCEPT ![n] = "down"]
    /\ table' = [table EXCEPT ![n] = [p \in Nodes |-> Absent]]
    /\ UNCHANGED <<starts, version, net>>

\* remove_stale_peers: peers silent for too long, but itself and the ones never
\* heard from.
Stale(n) == {p \in Targets(n, table[n]) : table[n][p].heard = "old"}
Fresh(n) == [p \in Nodes |-> IF p \in Stale(n) THEN Absent ELSE table[n][p]]

\* Only the pings are sent, as the comment of gossip_tick_shared has it.
WrongTick(n) ==
    LET targets == Targets(n, Fresh(n)) IN
    /\ status[n] = "running"
    /\ table' = [table EXCEPT ![n] = Fresh(n)]
    /\ UNCHANGED <<starts, version>>
    /\ SendAll(n, net, {Check("Ping", n, Current(n), p) : p \in targets}, targets)

\* The part of gossip_tick_shared before the datagrams are read.
Tick(n) ==
    LET v == Bump(Current(n))
        targets == Targets(n, Fresh(n))
    IN
    /\ status[n] = "running"
    /\ table' = [table EXCEPT ![n] = Fresh(n)]
    /\ version' = [version EXCEPT ![n][starts[n]] = v]
    /\ UNCHANGED starts
    /\ SendAll(n, net,
               {Announce(n, starts[n], v, Peers(Fresh(n)), p) : p \in targets}
                 \union {Check("Ping", n, v, p) : p \in targets},
               targets)

-----------------------------------------------------------------------------
(* A datagram arrives: process_one_datagram_shared.                        *)

Described(m) == [version |-> m.version, info |-> m.info, heard |-> "recent"]

\* The peers the announce lists are taken for described.
WrongApply(n, m) ==
    [p \in Nodes |->
       IF p = m.node \/ (p \in m.peers \ {n} /\ table[n][p] = Absent)
       THEN Described(m) ELSE table[n][p]]

\* apply_announce: the sender's entry is overwritten whatever its version, the
\* peers it lists are inserted.
Apply(n, m) ==
    [p \in Nodes |->
       IF p = m.node THEN Described(m)
       ELSE IF p \in m.peers \ {n} /\ table[n][p] = Absent THEN Unknown
       ELSE table[n][p]]

\* should_emit_announce: the sender or one of its peers is new.
WrongTeaches(n, m) == TRUE
Teaches(n, m) ==
    \E p \in {m.node} \union (m.peers \ {n}) : table[n][p] = Absent

\* An announce that teaches nothing.
ReceiveAnnounce(m) ==
    LET n == m.to IN
    /\ m \in net
    /\ m.type = "Announce"
    /\ status[n] = "running"
    /\ ~Teaches(n, m)
    /\ table' = [table EXCEPT ![n] = Apply(n, m)]
    /\ net' = net \ {m}
    /\ UNCHANGED <<status, starts, version>>

\* One that does: n answers the sender with its own, and relays m to the others.
ReceiveNews(m) ==
    LET n == m.to
        v == Bump(Current(n))
        after == Apply(n, m)
        others == Targets(n, after) \ {m.from}
    IN
    /\ m \in net
    /\ m.type = "Announce"
    /\ status[n] = "running"
    /\ Teaches(n, m)
    /\ table' = [table EXCEPT ![n] = after]
    /\ version' = [version EXCEPT ![n][starts[n]] = v]
    /\ UNCHANGED starts
    /\ SendAll(n, net \ {m},
               {Announce(n, starts[n], v, Peers(after), m.from)}
                 \union {[m EXCEPT !.from = n, !.to = p] : p \in others},
               others)

\* apply_check: the address is inserted, its version only goes up.
Checked(entry, v) ==
    LET old == IF entry = Absent THEN Unknown ELSE entry IN
    [old EXCEPT !.version = IF IsNewer(v, @) THEN v ELSE @,
                !.heard = "recent"]

ReceivePing(m) ==
    LET n == m.to IN
    /\ m \in net
    /\ m.type = "Ping"
    /\ status[n] = "running"
    /\ table' = [table EXCEPT ![n][m.from] = Checked(@, m.version)]
    /\ Send(net \ {m}, {Check("Pong", n, Current(n), m.from)})
    /\ UNCHANGED <<status, starts, version>>

ReceivePong(m) ==
    LET n == m.to IN
    /\ m \in net
    /\ m.type = "Pong"
    /\ status[n] = "running"
    /\ table' = [table EXCEPT ![n][m.from] = Checked(@, m.version)]
    /\ net' = net \ {m}
    /\ UNCHANGED <<status, starts, version>>

\* Nobody reads the socket the datagram is addressed to.
Vanish(m) ==
    /\ m \in net
    /\ status[m.to] # "running"
    /\ net' = net \ {m}
    /\ UNCHANGED <<status, starts, version, table>>

\* Ten seconds pass without a message that concerns p.
Age(n, p) ==
    /\ p \in Targets(n, table[n])
    /\ table[n][p].heard = "recent"
    /\ table' = [table EXCEPT ![n][p].heard = "old"]
    /\ UNCHANGED <<status, starts, version, net>>

Receive(m) == \/ ReceiveAnnounce(m)
              \/ ReceiveNews(m)
              \/ ReceivePing(m)
              \/ ReceivePong(m)

Next == \/ \E n \in Nodes : Boot(n) \/ Stop(n) \/ Tick(n)
        \/ \E m \in net : Receive(m) \/ Vanish(m)
        \/ \E n, p \in Nodes : Age(n, p)

Spec == Init /\ [][Next]_vars

-----------------------------------------------------------------------------
(* Properties.                                                             *)

\* v is a version that a start which reached w has had.
Reached(v, w) == v.generation = w.generation /\ v.counter <= w.counter

\* No table and no datagram is ahead of its subject: the version recorded or
\* travelling for a node is one it reached in some start, in the start the
\* capabilities next to it come from if it is announced, and the capabilities of
\* an entry are those of a start it made, however often announces are relayed,
\* delayed and overwritten, whatever the counter's limit and the clock. What is
\* newer than the node's present version is thus of an earlier start, in the same
\* second or before the clock was set back.
NothingFromTheFuture ==
    /\ \A n, p \in Nodes : table[n][p] # Absent =>
         /\ \/ table[n][p].version = Zero
            \/ \E g \in 1 .. starts[p] : Reached(table[n][p].version, version[p][g])
         /\ table[n][p].info <= starts[p]
    /\ \A m \in net :
         IF m.type = "Announce"
         THEN m.info <= starts[m.node] /\ Reached(m.version, version[m.node][m.info])
         ELSE \E g \in 1 .. starts[m.from] : Reached(m.version, version[m.from][g])

\* Version, "Monotonic version tuple", and PROTOCOLE-SPEC.md: "counter orders
\* updates within a given incarnation". What a table holds of a peer never gives
\* way to something older.
VersionNeverGoesBack ==
    [][\A n, p \in Nodes :
         (table[n][p] # Absent /\ table'[n][p] # Absent) =>
           ~IsNewer(table[n][p].version, table'[n][p].version)]_vars

\* run_gossip_service_shared, "continuously executes one heartbeat tick every 2
\* seconds", at least on the nodes that were given addresses they can send to.
ServiceKeepsRunning ==
    \A n \in Nodes : Bootstrap[n] \intersect Unreachable = {} => status[n] # "frozen"

\* What the order handlers of a node read of its table: whose capabilities and
\* recipes it has, and of which start.
InfoOf(entry) == IF entry = Absent THEN 0 ELSE entry.info

Tables == INSTANCE PeerTables WITH
            up <- {n \in Nodes : status[n] # "down"},
            known <- [n \in Nodes |-> [p \in Nodes |-> InfoOf(table[n][p])]]

\* The gossip service changes what the handlers read only as PeerTables allows:
\* one entry overwritten at a time, with what some start of that peer announced,
\* or entries removed, and all of them when the process stops.
ImplementsPeerTables == Tables!Spec
=============================================================================
