---------------------------- MODULE GossipProofs ----------------------------
(***************************************************************************)
(* Theorems about Gossip, for any nodes, bootstrap peers and bounds: tables *)
(* and datagrams never run ahead of their subjects, and the tables change  *)
(* as PeerTables says.                                                     *)
(***************************************************************************)
EXTENDS Gossip, TLAPS

USE UnreachableAssumption, BootstrapAssumption, BoundsAssumption

-----------------------------------------------------------------------------
(* Versions and starts.                                                    *)

\* What a start reached includes what it had reached before.
LEMMA ReachedOrder ==
  ASSUME NEW u \in Version, NEW v \in Version, NEW w \in Version
  PROVE  /\ Reached(u, u)
         /\ Reached(u, v) /\ Reached(v, w) => Reached(u, w)
BY DEF Reached, Version

\* The counter goes up or stays, within its limit.
LEMMA BumpVersion ==
  ASSUME NEW v \in Version
  PROVE  Bump(v) \in Version /\ Reached(v, Bump(v))
<1>1. CASE v.counter < MaxCounter
  BY <1>1 DEF Bump, Reached, Version
<1>2. CASE ~(v.counter < MaxCounter)
  BY <1>2 DEF Bump, Reached, Version
<1> QED
  BY <1>1, <1>2

\* The starts of a node so far are among those it may make.
LEMMA StartsBounded ==
  ASSUME TypeOK, NEW n \in Nodes
  PROVE  /\ starts[n] \in {0} \union Starts /\ starts[n] \in Nat
         /\ \A g \in 1 .. starts[n] : g \in Starts /\ version[n][g] \in Version
         /\ starts[n] > 0 => starts[n] \in Starts /\ Current(n) \in Version
<1>1. starts[n] \in {0} \union Starts
  BY DEF TypeOK
<1>2. \A g \in 1 .. starts[n] : g \in Starts
  BY <1>1 DEF Starts
<1>3. \A g \in Starts : version[n][g] \in Version
  BY DEF TypeOK
<1> QED
  BY <1>1, <1>2, <1>3 DEF Starts, Current

-----------------------------------------------------------------------------
(* The strengthening.                                                      *)

\* A datagram and an entry, against the starts made and what they reached.
TrueMessage(m, made, reached) ==
    IF m.type = "Announce"
    THEN /\ m.info \in 1 .. made[m.node]
         /\ Reached(m.version, reached[m.node][m.info])
    ELSE \E g \in 1 .. made[m.from] : Reached(m.version, reached[m.from][g])
TrueEntry(e, made, reached) ==
    e # Absent =>
      /\ \/ e.version = Zero
         \/ \E g \in 1 .. made : Reached(e.version, reached[g])
      /\ e.info <= made

\* What is sent was sent by a node that had started, and a node that is down has
\* no table.
Truth ==
    /\ \A m \in net : TrueMessage(m, starts, version)
    /\ \A n, p \in Nodes : TrueEntry(table[n][p], starts[p], version[p])
    /\ \A n \in Nodes : IF status[n] = "down" THEN \A p \in Nodes : table[n][p] = Absent
                        ELSE starts[n] > 0

\* Nodes start again, and what their starts reached goes up.
HistoryGrows ==
    /\ starts' \in [Nodes -> {0} \union Starts]
    /\ version' \in [Nodes -> [Starts -> Version]]
    /\ \A p \in Nodes :
         /\ starts[p] <= starts'[p]
         /\ \A g \in 1 .. starts[p] : Reached(version[p][g], version'[p][g])

\* Messages by their parts.
LEMMA MessageParts ==
  ASSUME NEW m \in Message
  PROVE  /\ m.version \in Version /\ m.from \in Nodes /\ m.to \in Nodes
         /\ m.type = "Announce" =>
              m.node \in Nodes /\ m.info \in Starts /\ m.peers \subseteq Nodes
BY DEF Message

\* The g-th start of p, after a step: it reached what it had reached.
LEMMA StillReached ==
  ASSUME TypeOK, HistoryGrows, NEW p \in Nodes, NEW g \in 1 .. starts[p],
         NEW v \in Version, Reached(v, version[p][g])
  PROVE  g \in 1 .. starts'[p] /\ Reached(v, version'[p][g])
<1>1. /\ g \in Starts /\ version[p][g] \in Version /\ starts[p] \in Nat
  BY StartsBounded
<1>2. /\ version'[p][g] \in Version /\ Reached(version[p][g], version'[p][g])
      /\ starts'[p] \in Nat /\ starts[p] <= starts'[p]
  BY <1>1 DEF HistoryGrows, Starts
<1> QED
  BY <1>1, <1>2, ReachedOrder

\* What is true of the history stays true.
LEMMA StaysTrue ==
  ASSUME TypeOK, Truth, HistoryGrows
  PROVE  /\ \A m \in Message :
              TrueMessage(m, starts, version) => TrueMessage(m, starts', version')
         /\ \A e \in Entry, p \in Nodes :
              TrueEntry(e, starts[p], version[p]) => TrueEntry(e, starts'[p], version'[p])
<1>1. ASSUME NEW m \in Message, TrueMessage(m, starts, version)
      PROVE  TrueMessage(m, starts', version')
  <2>1. CASE m.type = "Announce"
    BY <1>1, <2>1, MessageParts, StillReached DEF TrueMessage
  <2>2. CASE m.type # "Announce"
    <3>1. PICK g \in 1 .. starts[m.from] : Reached(m.version, version[m.from][g])
      BY <1>1, <2>2 DEF TrueMessage
    <3>2. g \in 1 .. starts'[m.from] /\ Reached(m.version, version'[m.from][g])
      BY <3>1, MessageParts, StillReached
    <3> QED
      BY <2>2, <3>2 DEF TrueMessage
  <2> QED
    BY <2>1, <2>2
<1>2. ASSUME NEW e \in Entry, NEW p \in Nodes, TrueEntry(e, starts[p], version[p])
      PROVE  TrueEntry(e, starts'[p], version'[p])
  <2>1. e.version \in Version /\ e.info \in Nat /\ e # Absent
    BY DEF Entry, Absent, Starts
  <2>2. starts[p] \in Nat /\ starts'[p] \in Nat /\ starts[p] <= starts'[p]
    BY StartsBounded DEF HistoryGrows, Starts
  <2>3. e.info <= starts'[p]
    BY <1>2, <2>1, <2>2 DEF TrueEntry
  <2>4. ASSUME e.version # Zero
        PROVE  \E g \in 1 .. starts'[p] : Reached(e.version, version'[p][g])
    <3>1. PICK g \in 1 .. starts[p] : Reached(e.version, version[p][g])
      BY <1>2, <2>1, <2>4 DEF TrueEntry
    <3> QED
      BY <2>1, <3>1, StillReached
  <2> QED
    BY <2>3, <2>4 DEF TrueEntry
<1> QED
  BY <1>1, <1>2

\* So do the entries of a table, and what is left of them.
LEMMA EntryStaysTrue ==
  ASSUME TypeOK, Truth, HistoryGrows,
         NEW q \in Nodes, NEW p \in Nodes, NEW e \in {table[q][p], Absent}
  PROVE  TrueEntry(e, starts'[p], version'[p])
<1>1. /\ table[q][p] \in Entry \union {Absent}
      /\ TrueEntry(table[q][p], starts[p], version[p])
  BY DEF TypeOK, Truth
<1> QED
  BY <1>1, StaysTrue DEF TrueEntry

\* A node of which nothing is known.
LEMMA UnknownEntry ==
  ASSUME NEW made \in Nat, NEW reached
  PROVE  Unknown \in Entry /\ TrueEntry(Unknown, made, reached)
BY DEF Unknown, Entry, Zero, Version, TrueEntry

\* The present start of a node goes on, or nothing of the history changes.
LEMMA GoesOn ==
  ASSUME TypeOK, NEW n \in Nodes, NEW v \in Version, starts[n] > 0,
         Reached(Current(n), v), starts' = starts,
         version' = [version EXCEPT ![n][starts[n]] = v]
  PROVE  HistoryGrows /\ version'[n][starts[n]] = v
<1>1. starts[n] \in Starts
  BY StartsBounded
<1>2. \A p \in Nodes : \A g \in Starts :
        version'[p][g] = IF p = n /\ g = starts[n] THEN v ELSE version[p][g]
  BY <1>1 DEF TypeOK
<1>3. version' \in [Nodes -> [Starts -> Version]]
  BY <1>1 DEF TypeOK
<1>4. ASSUME NEW p \in Nodes
      PROVE  /\ starts[p] <= starts'[p]
             /\ \A g \in 1 .. starts[p] : Reached(version[p][g], version'[p][g])
  BY <1>2, StartsBounded, ReachedOrder DEF Current
<1> QED
  BY <1>1, <1>2, <1>3, <1>4 DEF HistoryGrows, TypeOK

LEMMA NothingChanges ==
  ASSUME TypeOK, UNCHANGED <<starts, version>>
  PROVE  HistoryGrows
<1>1. ASSUME NEW p \in Nodes
      PROVE  /\ starts[p] <= starts'[p]
             /\ \A g \in 1 .. starts[p] : Reached(version[p][g], version'[p][g])
  BY StartsBounded, ReachedOrder
<1> QED
  BY <1>1 DEF HistoryGrows, TypeOK

\* A step of the node n: it may change its table, and send what is true of the
\* history it leaves.
LEMMA NodeStep ==
  ASSUME TypeOK, Truth, HistoryGrows, NEW n \in Nodes,
         NEW tbl \in [Nodes -> Entry \union {Absent}],
         NEW s \in {"down", "running", "frozen"},
         NEW sent, sent \subseteq Message,
         table' = [table EXCEPT ![n] = tbl],
         status' = [status EXCEPT ![n] = s],
         net' \subseteq net \union sent,
         \A m \in sent : TrueMessage(m, starts', version'),
         \A p \in Nodes : TrueEntry(tbl[p], starts'[p], version'[p]),
         IF s = "down" THEN \A p \in Nodes : tbl[p] = Absent ELSE starts'[n] > 0
  PROVE  TypeOK' /\ Truth'
<1>1. TypeOK'
  BY DEF TypeOK, HistoryGrows
<1>2. ASSUME NEW m \in net
      PROVE  TrueMessage(m, starts', version')
  BY StaysTrue DEF TypeOK, Truth
<1>3. ASSUME NEW q \in Nodes, NEW p \in Nodes
      PROVE  TrueEntry(table'[q][p], starts'[p], version'[p])
  <2>1. CASE q = n
    BY <2>1 DEF TypeOK
  <2>2. CASE q # n
    BY <2>2, EntryStaysTrue DEF TypeOK
  <2> QED
    BY <2>1, <2>2
<1>4. ASSUME NEW q \in Nodes
      PROVE  IF status'[q] = "down" THEN \A p \in Nodes : table'[q][p] = Absent
             ELSE starts'[q] > 0
  <2>1. starts[q] \in Nat /\ starts'[q] \in Nat /\ starts[q] <= starts'[q]
    BY StartsBounded DEF HistoryGrows, Starts
  <2>2. CASE q = n
    BY <2>2 DEF TypeOK
  <2>3. CASE q # n
    BY <2>1, <2>3 DEF TypeOK, Truth
  <2> QED
    BY <2>2, <2>3
<1> QED
  BY <1>1, <1>2, <1>3, <1>4 DEF Truth

\* What SendAll sends, and what becomes of the thread.
LEMMA SendAllSends ==
  ASSUME TypeOK, NEW n \in Nodes, NEW rest, NEW sent, NEW targets,
         SendAll(n, rest, sent, targets)
  PROVE  /\ net' \subseteq rest \union sent
         /\ \E s \in {"running", "frozen"} : status' = [status EXCEPT ![n] = s]
<1>1. \A set : Send(rest, set) => net' \subseteq rest \union set
  BY DEF Send
<1>2. CASE Send(rest, sent)
  BY <1>1, <1>2 DEF SendAll
<1>3. CASE \E done \in SUBSET {m \in sent : m.to \notin Unreachable /\ m.type # "Ping"} :
              Send(rest, done)
  <2>1. PICK done \in SUBSET sent : Send(rest, done)
    BY <1>3
  <2>2. net' \subseteq rest \union done
    BY <1>1, <2>1
  <2> QED
    BY <2>2 DEF SendAll
<1> QED
  BY <1>2, <1>3 DEF SendAll

\* An announce and a check of the version of a node's present start are true.
LEMMA OwnMessages ==
  ASSUME NEW n \in Nodes, NEW made, NEW reached, NEW g \in Starts, made[n] = g,
         NEW v \in Version, reached[n][g] = v,
         NEW peers, peers \subseteq Nodes, NEW p \in Nodes
  PROVE  /\ Announce(n, g, v, peers, p) \in Message
         /\ TrueMessage(Announce(n, g, v, peers, p), made, reached)
         /\ \A type \in {"Ping", "Pong"} :
              /\ Check(type, n, v, p) \in Message
              /\ TrueMessage(Check(type, n, v, p), made, reached)
<1>1. Reached(v, v) /\ g \in 1 .. g
  BY ReachedOrder DEF Starts
<1>2. /\ Announce(n, g, v, peers, p) \in Message
      /\ TrueMessage(Announce(n, g, v, peers, p), made, reached)
  BY <1>1 DEF Announce, Message, TrueMessage
<1>3. \A type \in {"Ping", "Pong"} : /\ Check(type, n, v, p) \in Message
                                     /\ TrueMessage(Check(type, n, v, p), made, reached)
  BY <1>1 DEF Check, Message, TrueMessage
<1> QED
  BY <1>2, <1>3
-----------------------------------------------------------------------------
(* The steps.                                                              *)

\* Nothing is in the tables at first.
LEMMA InitTrue == Init => TypeOK /\ Truth
<1>1. Zero \in Version
  BY DEF Zero, Version
<1> QED
  BY <1>1 DEF Init, TypeOK, Truth, TrueEntry

\* A node starts with its bootstrap peers, of which nothing is known.
LEMMA BootTrue ==
  ASSUME TypeOK, Truth, NEW n \in Nodes, Boot(n)
  PROVE  TypeOK' /\ Truth'
<1>. DEFINE g == starts[n] + 1
            peers == Bootstrap[n] \ {n}
            tbl == [p \in Nodes |-> IF p \in Bootstrap[n] THEN Unknown ELSE Absent]
<1>1. /\ starts' = [starts EXCEPT ![n] = g] /\ g \in Starts
      /\ table' = [table EXCEPT ![n] = tbl]
      /\ peers \subseteq Nodes /\ Clock[n][g] \subseteq Nat
  BY ClockAssumption DEF Boot
<1>2. PICK seconds \in Clock[n][g] :
        LET v == [generation |-> seconds, counter |-> 1]
        IN  /\ version' = [version EXCEPT ![n][g] = v]
            /\ SendAll(n, net, {Announce(n, g, v, peers, p) : p \in peers}, peers)
  BY DEF Boot
<1>. DEFINE v == [generation |-> seconds, counter |-> 1]
            sent == {Announce(n, g, v, peers, p) : p \in peers}
<1>3. v \in Version
  BY <1>1, <1>2 DEF Version
<1>4. version' = [version EXCEPT ![n][g] = v] /\ SendAll(n, net, sent, peers)
  BY <1>2
<1>5. starts[n] \in Nat /\ g = starts[n] + 1
  BY StartsBounded
<1>. HIDE DEF v, g
<1>6. \A p \in Nodes : \A h \in Starts :
        version'[p][h] = IF p = n /\ h = g THEN v ELSE version[p][h]
  BY <1>1, <1>4 DEF TypeOK
<1>7. version' \in [Nodes -> [Starts -> Version]] /\ starts' \in [Nodes -> {0} \union Starts]
  BY <1>1, <1>3, <1>4 DEF TypeOK
<1>8. HistoryGrows
  <2>1. ASSUME NEW p \in Nodes
        PROVE  /\ starts[p] <= starts'[p]
               /\ \A h \in 1 .. starts[p] : Reached(version[p][h], version'[p][h])
    <3>1. starts[p] \in Nat /\ starts'[p] = IF p = n THEN g ELSE starts[p]
      BY <1>1, StartsBounded DEF TypeOK
    <3>2. ASSUME NEW h \in 1 .. starts[p]
          PROVE  Reached(version[p][h], version'[p][h])
      <4>1. h \in Starts /\ version[p][h] \in Version /\ ~(p = n /\ h = g)
        BY <1>5, <3>1, StartsBounded
      <4> QED
        BY <1>6, <4>1, ReachedOrder
    <3> QED
      BY <1>5, <3>1, <3>2
  <2> QED
    BY <1>7, <2>1 DEF HistoryGrows
<1>9. /\ tbl \in [Nodes -> Entry \union {Absent}]
      /\ \A p \in Nodes : TrueEntry(tbl[p], starts'[p], version'[p])
  <2>1. ASSUME NEW p \in Nodes
        PROVE  /\ tbl[p] \in Entry \union {Absent}
               /\ TrueEntry(tbl[p], starts'[p], version'[p])
    <3>1. starts'[p] \in Nat
      BY <1>7 DEF Starts
    <3>2. Unknown \in Entry /\ TrueEntry(Unknown, starts'[p], version'[p])
      BY <3>1, UnknownEntry
    <3>3. TrueEntry(Absent, starts'[p], version'[p])
      BY DEF TrueEntry
    <3> QED
      BY <3>2, <3>3
  <2> QED
    BY <2>1
<1>10. sent \subseteq Message /\ \A m \in sent : TrueMessage(m, starts', version')
  <2>1. starts'[n] = g /\ version'[n][g] = v
    BY <1>1, <1>6 DEF TypeOK
  <2>2. ASSUME NEW p \in peers
        PROVE  /\ Announce(n, g, v, peers, p) \in Message
               /\ TrueMessage(Announce(n, g, v, peers, p), starts', version')
    BY <1>1, <1>3, <2>1, OwnMessages
  <2> QED
    BY <2>2
<1>11. starts'[n] > 0
  BY <1>1, <1>5 DEF TypeOK
<1>. HIDE DEF tbl, sent, peers
<1>12. PICK s \in {"running", "frozen"} : status' = [status EXCEPT ![n] = s]
  BY <1>4, SendAllSends
<1>13. net' \subseteq net \union sent
  BY <1>4, SendAllSends
<1> QED
  BY <1>1, <1>8, <1>9, <1>10, <1>11, <1>12, <1>13, NodeStep

\* A node that stops forgets its table.
LEMMA StopTrue ==
  ASSUME TypeOK, Truth, NEW n \in Nodes, Stop(n)
  PROVE  TypeOK' /\ Truth'
<1>. DEFINE tbl == [p \in Nodes |-> Absent]
            sent == {}
<1>1. /\ table' = [table EXCEPT ![n] = tbl]
      /\ status' = [status EXCEPT ![n] = "down"]
      /\ net' \subseteq net \union sent
      /\ HistoryGrows
  BY NothingChanges DEF Stop
<1>2. /\ tbl \in [Nodes -> Entry \union {Absent}]
      /\ \A p \in Nodes : tbl[p] = Absent /\ TrueEntry(tbl[p], starts'[p], version'[p])
  BY DEF TrueEntry
<1>3. sent \subseteq Message /\ \A m \in sent : TrueMessage(m, starts', version')
  OBVIOUS
<1>. HIDE DEF tbl, sent
<1> QED
  BY <1>1, <1>2, <1>3, NodeStep

\* A tick removes entries, and announces a version with a higher counter.
LEMMA TickTrue ==
  ASSUME TypeOK, Truth, NEW n \in Nodes, Tick(n)
  PROVE  TypeOK' /\ Truth'
<1>. DEFINE v == Bump(Current(n))
            g == starts[n]
            tbl == Fresh(n)
            targets == Targets(n, tbl)
            sent == {Announce(n, g, v, Peers(tbl), p) : p \in targets}
                      \union {Check("Ping", n, v, p) : p \in targets}
<1>1. /\ version' = [version EXCEPT ![n][starts[n]] = v]
      /\ starts' = starts
      /\ table' = [table EXCEPT ![n] = tbl]
      /\ SendAll(n, net, sent, targets)
      /\ starts[n] > 0
      /\ targets \subseteq Nodes /\ Peers(tbl) \subseteq Nodes
  BY DEF Tick, TypeOK, Truth, Targets, Peers
<1>2. v \in Version /\ Reached(Current(n), v) /\ g \in Starts
  BY <1>1, StartsBounded, BumpVersion
<1>3. /\ tbl \in [Nodes -> Entry \union {Absent}]
      /\ \A p \in Nodes : tbl[p] \in {table[n][p], Absent}
  BY DEF Fresh, TypeOK
<1>. HIDE DEF v, tbl, targets
<1>4. HistoryGrows /\ version'[n][g] = v /\ starts'[n] = g
  BY <1>1, <1>2, GoesOn
<1>5. ASSUME NEW p \in Nodes
      PROVE  TrueEntry(tbl[p], starts'[p], version'[p])
  BY <1>3, <1>4, EntryStaysTrue
<1>6. sent \subseteq Message /\ \A m \in sent : TrueMessage(m, starts', version')
  <2>. HIDE DEF g
  <2>1. ASSUME NEW p \in targets
        PROVE  /\ Announce(n, g, v, Peers(tbl), p) \in Message
               /\ TrueMessage(Announce(n, g, v, Peers(tbl), p), starts', version')
               /\ Check("Ping", n, v, p) \in Message
               /\ TrueMessage(Check("Ping", n, v, p), starts', version')
    BY <1>1, <1>2, <1>4, OwnMessages
  <2> QED
    BY <2>1
<1>. HIDE DEF sent
<1>7. PICK s \in {"running", "frozen"} : status' = [status EXCEPT ![n] = s]
  BY <1>1, SendAllSends
<1>8. net' \subseteq net \union sent
  BY <1>1, SendAllSends
<1> QED
  BY <1>1, <1>3, <1>4, <1>5, <1>6, <1>7, <1>8, NodeStep

\* What an announce says of its node, or lists, is true.
LEMMA ApplyTrue ==
  ASSUME TypeOK, Truth, HistoryGrows, NEW n \in Nodes, NEW m \in net,
         m.type = "Announce"
  PROVE  /\ Apply(n, m) \in [Nodes -> Entry \union {Absent}]
         /\ \A p \in Nodes : TrueEntry(Apply(n, m)[p], starts'[p], version'[p])
<1>1. /\ m \in Message /\ m.version \in Version /\ m.node \in Nodes /\ m.info \in Starts
      /\ TrueMessage(m, starts', version')
  BY MessageParts, StaysTrue DEF TypeOK, Truth
<1>2. Described(m) \in Entry
  BY <1>1 DEF Described, Entry
<1>3. ASSUME NEW p \in Nodes
      PROVE  /\ Apply(n, m)[p] \in Entry \union {Absent}
             /\ TrueEntry(Apply(n, m)[p], starts'[p], version'[p])
  <2>1. starts'[p] \in Nat
    BY DEF HistoryGrows, Starts
  <2>2. CASE p = m.node
    <3>1. Apply(n, m)[p] = Described(m)
      BY <2>2 DEF Apply
    <3>2. Described(m).version = m.version /\ Described(m).info = m.info
      BY DEF Described
    <3>3. m.info \in 1 .. starts'[p] /\ Reached(m.version, version'[p][m.info])
      BY <1>1, <2>2 DEF TrueMessage
    <3> QED
      BY <1>2, <2>1, <3>1, <3>2, <3>3 DEF TrueEntry
  <2>3. CASE Apply(n, m)[p] = Unknown
    BY <2>1, <2>3, UnknownEntry
  <2>4. CASE Apply(n, m)[p] = table[n][p]
    <3>1. table[n][p] \in Entry \union {Absent}
      BY DEF TypeOK
    <3>2. TrueEntry(table[n][p], starts'[p], version'[p])
      BY EntryStaysTrue
    <3> QED
      BY <2>4, <3>1, <3>2
  <2> QED
    BY <2>2, <2>3, <2>4 DEF Apply
<1> QED
  BY <1>3 DEF Apply

\* An announce that teaches nothing.
LEMMA ReceiveAnnounceTrue ==
  ASSUME TypeOK, Truth, NEW m \in net, ReceiveAnnounce(m)
  PROVE  TypeOK' /\ Truth'
<1>0. m.to \in Nodes
  BY MessageParts DEF TypeOK
<1>n. PICK n \in Nodes : n = m.to
  BY <1>0
<1>. DEFINE tbl == Apply(n, m)
            sent == {}
<1>1. /\ table' = [table EXCEPT ![n] = tbl]
      /\ status' = [status EXCEPT ![n] = "running"]
      /\ net' \subseteq net \union sent
      /\ m.type = "Announce"
      /\ starts[n] > 0 /\ starts' = starts /\ version' = version
  BY <1>n DEF ReceiveAnnounce, TypeOK, Truth
<1>2. HistoryGrows
  BY <1>1, NothingChanges
<1>3. /\ tbl \in [Nodes -> Entry \union {Absent}]
      /\ \A p \in Nodes : TrueEntry(tbl[p], starts'[p], version'[p])
  BY <1>1, <1>2, ApplyTrue
<1>4. sent \subseteq Message /\ \A x \in sent : TrueMessage(x, starts', version')
  OBVIOUS
<1>. HIDE DEF tbl, sent
<1> QED
  BY <1>1, <1>2, <1>3, <1>4, NodeStep

\* One that teaches is answered, and passed on as it is.
LEMMA ReceiveNewsTrue ==
  ASSUME TypeOK, Truth, NEW m \in net, ReceiveNews(m)
  PROVE  TypeOK' /\ Truth'
<1>0. /\ m.to \in Nodes /\ m.from \in Nodes /\ m \in Message
      /\ TrueMessage(m, starts, version)
  BY MessageParts DEF TypeOK, Truth
<1>n. PICK n \in Nodes : n = m.to
  BY <1>0
<1>. DEFINE v == Bump(Current(n))
            g == starts[n]
            tbl == Apply(n, m)
            others == Targets(n, tbl) \ {m.from}
            answer == {Announce(n, g, v, Peers(tbl), m.from)}
            relayed == {[m EXCEPT !.from = n, !.to = p] : p \in others}
            sent == answer \union relayed
<1>1. /\ version' = [version EXCEPT ![n][starts[n]] = v]
      /\ starts' = starts
      /\ table' = [table EXCEPT ![n] = tbl]
      /\ SendAll(n, net \ {m}, sent, others)
      /\ m.type = "Announce"
      /\ starts[n] > 0
      /\ others \subseteq Nodes /\ Peers(tbl) \subseteq Nodes
  BY <1>n DEF ReceiveNews, TypeOK, Truth, Targets, Peers
<1>2. v \in Version /\ Reached(Current(n), v) /\ g \in Starts
  BY <1>1, StartsBounded, BumpVersion
<1>. HIDE DEF v
<1>4. HistoryGrows /\ version'[n][g] = v /\ starts'[n] = g
  BY <1>1, <1>2, GoesOn
<1>3. /\ tbl \in [Nodes -> Entry \union {Absent}]
      /\ \A p \in Nodes : TrueEntry(tbl[p], starts'[p], version'[p])
  BY <1>1, <1>4, ApplyTrue
<1>. HIDE DEF tbl, others, g
<1>5. answer \subseteq Message /\ \A x \in answer : TrueMessage(x, starts', version')
  <2>1. /\ Announce(n, g, v, Peers(tbl), m.from) \in Message
        /\ TrueMessage(Announce(n, g, v, Peers(tbl), m.from), starts', version')
    BY <1>0, <1>1, <1>2, <1>4, OwnMessages
  <2> QED
    BY <2>1
<1>6. ASSUME NEW p \in others
      PROVE  /\ [m EXCEPT !.from = n, !.to = p] \in Message
             /\ TrueMessage([m EXCEPT !.from = n, !.to = p], starts', version')
  <2>. DEFINE x == [m EXCEPT !.from = n, !.to = p]
  <2>1. m \in [type : {"Announce"}, node : Nodes, info : Starts, version : Version,
               peers : SUBSET Nodes, from : Nodes, to : Nodes]
    BY <1>0, <1>1 DEF Message
  <2>2. /\ x \in Message /\ x.type = "Announce" /\ x.node = m.node
        /\ x.info = m.info /\ x.version = m.version
    BY <1>1, <2>1 DEF Message
  <2>3. TrueMessage(m, starts', version')
    BY <1>0, <1>4, StaysTrue
  <2>. HIDE DEF x
  <2>4. TrueMessage(x, starts', version')
    BY <1>1, <2>2, <2>3 DEF TrueMessage
  <2> QED
    BY <2>2, <2>4 DEF x
<1>7. sent \subseteq Message /\ \A x \in sent : TrueMessage(x, starts', version')
  BY <1>5, <1>6
<1>. HIDE DEF sent
<1>8. PICK s \in {"running", "frozen"} : status' = [status EXCEPT ![n] = s]
  BY <1>1, SendAllSends
<1>9. net' \subseteq net \union sent
  BY <1>1, SendAllSends
<1>10. starts'[n] > 0
  BY <1>1
<1> QED
  BY <1>1, <1>3, <1>4, <1>7, <1>8, <1>9, <1>10, NodeStep

\* A ping or a pong raises the version its sender's entry has to one the sender
\* had.
LEMMA CheckTrue ==
  ASSUME TypeOK, Truth, NEW m \in net, ReceivePing(m) \/ ReceivePong(m)
  PROVE  TypeOK' /\ Truth'
<1>0. /\ m.to \in Nodes /\ m.from \in Nodes /\ m \in Message
      /\ TrueMessage(m, starts, version) /\ m.version \in Version
  BY MessageParts DEF TypeOK, Truth
<1>n. PICK n \in Nodes, q \in Nodes : n = m.to /\ q = m.from
  BY <1>0
<1>. DEFINE v == Current(n)
            g == starts[n]
            e == Checked(table[n][q], m.version)
            tbl == [table[n] EXCEPT ![q] = e]
            sent == {Check("Pong", n, v, q)}
<1>1. /\ table' = [table EXCEPT ![n] = tbl]
      /\ status' = [status EXCEPT ![n] = "running"]
      /\ starts' = starts /\ version' = version /\ starts[n] > 0
      /\ table[n] \in [Nodes -> Entry \union {Absent}]
      /\ m.type # "Announce"
  BY <1>n DEF ReceivePing, ReceivePong, TypeOK, Truth
<1>2. net' \subseteq net \union sent
  BY <1>n DEF ReceivePing, ReceivePong, Send
<1>3. HistoryGrows /\ v \in Version /\ g \in Starts /\ version[n][g] = v
  BY <1>1, StartsBounded, NothingChanges DEF Current
<1>. HIDE DEF v, g
<1>4. sent \subseteq Message /\ \A x \in sent : TrueMessage(x, starts', version')
  <2>1. starts'[n] = g /\ version'[n][g] = v
    BY <1>1, <1>3 DEF g
  <2>2. /\ Check("Pong", n, v, q) \in Message
        /\ TrueMessage(Check("Pong", n, v, q), starts', version')
    BY <1>3, <2>1, OwnMessages
  <2> QED
    BY <2>2
<1>. HIDE DEF sent
<1>5. e \in Entry /\ TrueEntry(e, starts[q], version[q])
  <2>. DEFINE old == IF table[n][q] = Absent THEN Unknown ELSE table[n][q]
  <2>1. Unknown \in Entry /\ TrueEntry(Unknown, starts[q], version[q])
    BY StartsBounded, UnknownEntry
  <2>2. old \in Entry /\ TrueEntry(old, starts[q], version[q])
    BY <1>1, <2>1 DEF Truth
  <2>. HIDE DEF old
  <2>3. \E h \in 1 .. starts[q] : Reached(m.version, version[q][h])
    BY <1>0, <1>1, <1>n DEF TrueMessage
  <2>4. e = [old EXCEPT !.version = IF IsNewer(m.version, @) THEN m.version ELSE @,
                        !.heard = "recent"]
    BY DEF Checked, old
  <2>5. /\ e \in Entry /\ e.info = old.info
        /\ e.version \in {m.version, old.version}
    BY <1>0, <2>2, <2>4 DEF Entry
  <2>6. old # Absent
    BY <2>2 DEF Entry, Absent
  <2>. HIDE DEF e
  <2> QED
    BY <2>2, <2>3, <2>5, <2>6 DEF TrueEntry
<1>. HIDE DEF e
<1>6. /\ tbl \in [Nodes -> Entry \union {Absent}]
      /\ \A p \in Nodes : TrueEntry(tbl[p], starts'[p], version'[p])
  BY <1>1, <1>5 DEF Truth
<1>. HIDE DEF tbl
<1> QED
  BY <1>1, <1>2, <1>3, <1>4, <1>6, NodeStep

\* Datagrams vanish, and entries age.
LEMMA RestTrue ==
  ASSUME TypeOK, Truth,
         \/ \E m \in net : Vanish(m)
         \/ \E n, p \in Nodes : Age(n, p)
         \/ UNCHANGED vars
  PROVE  TypeOK' /\ Truth'
<1>1. CASE net' \subseteq net /\ UNCHANGED <<status, starts, version, table>>
  BY <1>1 DEF TypeOK, Truth
<1>2. ASSUME NEW n \in Nodes, NEW p \in Nodes, Age(n, p)
      PROVE  TypeOK' /\ Truth'
  <2>1. /\ table' = [table EXCEPT ![n][p].heard = "old"]
        /\ UNCHANGED <<status, starts, version, net>>
        /\ table[n][p] # Absent /\ status[n] # "down"
    BY <1>2 DEF Age, Targets, Peers, Truth
  <2>2. table[n][p] \in Entry /\ TrueEntry(table[n][p], starts[p], version[p])
    BY <2>1 DEF TypeOK, Truth
  <2>. DEFINE e == [table[n][p] EXCEPT !.heard = "old"]
  <2>3. e \in Entry /\ e.version = table[n][p].version /\ e.info = table[n][p].info
    BY <2>2 DEF Entry
  <2>4. TrueEntry(e, starts[p], version[p])
    BY <2>1, <2>2, <2>3 DEF TrueEntry
  <2>5. table' = [table EXCEPT ![n] = [table[n] EXCEPT ![p] = e]]
    BY <2>1 DEF TypeOK
  <2>. HIDE DEF e
  <2>6. TypeOK'
    <3>1. [table[n] EXCEPT ![p] = e] \in [Nodes -> Entry \union {Absent}]
      BY <2>3 DEF TypeOK
    <3>. DEFINE row == [table[n] EXCEPT ![p] = e]
    <3>. HIDE DEF row
    <3>2. [table EXCEPT ![n] = row] \in [Nodes -> [Nodes -> Entry \union {Absent}]]
      BY <3>1 DEF TypeOK, row
    <3> QED
      BY <2>1, <2>5, <3>2 DEF TypeOK, row
  <2>7. ASSUME NEW q \in Nodes, NEW x \in Nodes
        PROVE  TrueEntry(table'[q][x], starts[x], version[x])
    <3>1. table'[q][x] = IF q = n /\ x = p THEN e ELSE table[q][x]
      BY <2>5 DEF TypeOK
    <3> QED
      BY <2>4, <3>1 DEF Truth
  <2>8. \A q \in Nodes \ {n} : table'[q] = table[q]
    BY <2>5 DEF TypeOK
  <2> QED
    BY <2>1, <2>6, <2>7, <2>8 DEF Truth
<1> QED
  BY <1>1, <1>2 DEF Vanish, vars

\* Every step.
LEMMA TruthStep ==
  ASSUME TypeOK, Truth, [Next]_vars
  PROVE  TypeOK' /\ Truth'
<1>1. ASSUME NEW m \in net, Receive(m)
      PROVE  TypeOK' /\ Truth'
  BY <1>1, ReceiveAnnounceTrue, ReceiveNewsTrue, CheckTrue DEF Receive
<1> QED
  BY <1>1, BootTrue, StopTrue, TickTrue, RestTrue DEF Next

\* The type invariant of the gossip service, and what is proved with it.
LEMMA TruthHolds == Spec => [](TypeOK /\ Truth)
<1>1. Init => TypeOK /\ Truth
  BY InitTrue
<1>2. (TypeOK /\ Truth) /\ [Next]_vars => (TypeOK /\ Truth)'
  BY TruthStep
<1> QED
  BY <1>1, <1>2, PTL DEF Spec

\* The type invariant of Gossip: statuses, versions within the counter's limit,
\* tables and datagrams are what process_one_datagram_shared can handle.
THEOREM GossipTypeCorrect == Spec => []TypeOK
BY TruthHolds, PTL

\* However often announces are answered, relayed, lost, delayed and overwritten,
\* whatever the limit of the counter, and whatever the clock reads at each start
\* (unix_secs), no table and no datagram is ahead of the node it speaks of: what
\* it says is what some start of that node reached (apply_announce_shared,
\* apply_check_shared).
THEOREM TablesNeverAhead == Spec => []NothingFromTheFuture
<1>1. TypeOK /\ Truth => NothingFromTheFuture
  <2>1. ASSUME TypeOK, Truth, NEW m \in net
        PROVE  IF m.type = "Announce"
               THEN /\ m.info <= starts[m.node]
                    /\ Reached(m.version, version[m.node][m.info])
               ELSE \E g \in 1 .. starts[m.from] : Reached(m.version, version[m.from][g])
    BY <2>1 DEF Truth, TrueMessage
  <2>2. ASSUME TypeOK, Truth, NEW n \in Nodes, NEW p \in Nodes, table[n][p] # Absent
        PROVE  /\ \/ table[n][p].version = Zero
                  \/ \E g \in 1 .. starts[p] : Reached(table[n][p].version, version[p][g])
               /\ table[n][p].info <= starts[p]
    BY <2>2 DEF Truth, TrueEntry
  <2> QED
    BY <2>1, <2>2 DEF NothingFromTheFuture
<1> QED
  BY <1>1, TruthHolds, PTL
-----------------------------------------------------------------------------
(* The refinement.                                                         *)

\* What the handlers read of a table: the start each entry's capabilities and
\* recipes are of.
View(tbl) == [p \in Nodes |-> InfoOf(tbl[p])]

Running == {n \in Nodes : status[n] # "down"}
Views == [n \in Nodes |-> [p \in Nodes |-> InfoOf(table[n][p])]]

\* A step that changes the table of one node changes its view only.
LEMMA ViewStep ==
  ASSUME TypeOK, NEW n \in Nodes, NEW tbl, table' = [table EXCEPT ![n] = tbl]
  PROVE  Views' = [Views EXCEPT ![n] = View(tbl)]
<1>1. \A q \in Nodes : table'[q] = IF q = n THEN tbl ELSE table[q]
  BY DEF TypeOK
<1>2. \A q \in Nodes : Views'[q] = IF q = n THEN View(tbl) ELSE Views[q]
  BY <1>1 DEF Views, View
<1> QED
  BY <1>2 DEF Views

\* What an announce changes of the view: its node's capabilities and recipes.
LEMMA ApplyView ==
  ASSUME TypeOK, Truth, NEW n \in Nodes, NEW m \in net, m.type = "Announce"
  PROVE  /\ View(Apply(n, m)) = [Views[n] EXCEPT ![m.node] = m.info]
         /\ m.node \in Nodes /\ m.info \in 1 .. starts[m.node]
<1>1. m.node \in Nodes /\ m.info \in 1 .. starts[m.node]
  BY MessageParts DEF TypeOK, Truth, TrueMessage
<1>2. /\ InfoOf(Described(m)) = m.info
      /\ InfoOf(Unknown) = 0 /\ InfoOf(Absent) = 0
  <2>1. Described(m).heard # Absent.heard /\ Unknown.heard # Absent.heard
    BY DEF Described, Unknown, Absent
  <2> QED
    BY <2>1 DEF Described, Unknown, InfoOf
<1>3. ASSUME NEW p \in Nodes
      PROVE  InfoOf(Apply(n, m)[p]) = IF p = m.node THEN m.info ELSE InfoOf(table[n][p])
  BY <1>1, <1>2 DEF Apply
<1>4. View(Apply(n, m)) = [p \in Nodes |-> IF p = m.node THEN m.info ELSE Views[n][p]]
  BY <1>3 DEF View, Views
<1> QED
  BY <1>1, <1>4 DEF Views

\* A thread that goes on or ends is on a node that runs.
LEMMA RunningStays ==
  ASSUME TypeOK, NEW n \in Nodes, NEW s \in {"running", "frozen"},
         status' = [status EXCEPT ![n] = s]
  PROVE  Running' = Running \union {n}
<1>1. \A q \in Nodes : status'[q] = IF q = n THEN s ELSE status[q]
  BY DEF TypeOK
<1> QED
  BY <1>1 DEF Running

\* A start is a Restart.
LEMMA BootMaps ==
  ASSUME TypeOK, Truth, NEW n \in Nodes, Boot(n)
  PROVE  Tables!Restart(n)
<1>. DEFINE tbl == [p \in Nodes |-> IF p \in Bootstrap[n] THEN Unknown ELSE Absent]
<1>1. status[n] = "down" /\ table' = [table EXCEPT ![n] = tbl]
  BY DEF Boot
<1>2. Running' = Running \union {n} /\ n \notin Running
  <2>1. \E s \in {"running", "frozen"} : status' = [status EXCEPT ![n] = s]
    BY SendAllSends DEF Boot
  <2> QED
    BY <1>1, <2>1, RunningStays DEF Running
<1>3. View(tbl) = [p \in Nodes |-> 0]
  BY DEF View, InfoOf, Unknown
<1>4. Views[n] = [p \in Nodes |-> 0]
  BY <1>1 DEF Views, Truth, InfoOf
<1>7. starts' = [starts EXCEPT ![n] = @ + 1]
  BY DEF Boot
<1>. HIDE DEF tbl
<1>5. Views' = [Views EXCEPT ![n] = View(tbl)]
  BY <1>1, ViewStep
<1>6. Views' = Views
  BY <1>3, <1>4, <1>5 DEF Views
<1> QED
  BY <1>2, <1>6, <1>7 DEF Tables!Restart, Running, Views

\* A stop is a Crash.
LEMMA StopMaps ==
  ASSUME TypeOK, NEW n \in Nodes, Stop(n)
  PROVE  Tables!Crash(n)
<1>. DEFINE tbl == [p \in Nodes |-> Absent]
<1>1. /\ status[n] # "down" /\ table' = [table EXCEPT ![n] = tbl]
      /\ \A q \in Nodes : status'[q] = IF q = n THEN "down" ELSE status[q]
  BY DEF Stop, TypeOK
<1>2. Running' = Running \ {n} /\ n \in Running
  BY <1>1 DEF Running
<1>3. View(tbl) = Tables!Empty
  BY DEF View, InfoOf, Tables!Empty
<1>5. starts' = starts
  BY DEF Stop
<1>. HIDE DEF tbl
<1>4. Views' = [Views EXCEPT ![n] = View(tbl)]
  BY <1>1, ViewStep
<1> QED
  BY <1>2, <1>3, <1>4, <1>5 DEF Tables!Crash, Running, Views

\* A tick forgets the stale peers, of which those that were never described do not
\* count.
LEMMA TickMaps ==
  ASSUME TypeOK, Truth, NEW n \in Nodes, Tick(n)
  PROVE  UNCHANGED Tables!vars \/ \E ps \in SUBSET Nodes : Tables!Forget(n, ps)
<1>. DEFINE gone == {p \in Stale(n) : Views[n][p] # 0}
            left == [p \in Nodes |-> IF p \in gone THEN 0 ELSE Views[n][p]]
<1>1. status[n] = "running" /\ table' = [table EXCEPT ![n] = Fresh(n)]
  BY DEF Tick
<1>2. Running' = Running /\ n \in Running
  <2>1. \E s \in {"running", "frozen"} : status' = [status EXCEPT ![n] = s]
    BY SendAllSends DEF Tick
  <2>2. n \in Running
    BY <1>1 DEF Running
  <2>3. Running' = Running \union {n}
    BY <2>1, RunningStays
  <2>. HIDE DEF Running
  <2> QED
    BY <2>2, <2>3
<1>3. View(Fresh(n)) = left
  BY DEF View, Views, InfoOf, Fresh
<1>4. gone \in SUBSET Nodes
  BY DEF Stale, Targets, Peers
<1>5. starts' = starts
  BY DEF Tick
<1>. HIDE DEF gone
<1>6. Views' = [Views EXCEPT ![n] = left]
  BY <1>1, <1>3, ViewStep
<1>7. CASE gone = {}
  <2>1. left = Views[n]
    BY <1>7 DEF Views
  <2>2. Views' = Views
    BY <1>6, <2>1 DEF Views
  <2> QED
    BY <1>2, <1>5, <2>2 DEF Tables!vars, Running, Views
<1>8. CASE gone # {}
  <2>1. \A p \in gone : Views[n][p] # 0
    BY DEF gone
  <2>2. Tables!Forget(n, gone)
    BY <1>2, <1>5, <1>6, <1>8, <2>1 DEF Tables!Forget, Running, Views
  <2> QED
    BY <1>4, <2>2
<1> QED
  BY <1>7, <1>8

\* An announce is learnt.
LEMMA AnnounceMaps ==
  ASSUME TypeOK, Truth, NEW m \in net, ReceiveAnnounce(m) \/ ReceiveNews(m)
  PROVE  \E n, p \in Nodes : \E g \in 1 .. starts[p] : Tables!Learn(n, p, g)
<1>0. m.to \in Nodes /\ m.type = "Announce" /\ m.node \in Nodes
  BY MessageParts DEF TypeOK, ReceiveAnnounce, ReceiveNews
<1>n. PICK n \in Nodes : n = m.to
  BY <1>0
<1>1. status[n] = "running" /\ table' = [table EXCEPT ![n] = Apply(n, m)]
  BY <1>n DEF ReceiveAnnounce, ReceiveNews
<1>2. Running' = Running /\ n \in Running
  <2>1. n \in Running
    BY <1>1 DEF Running
  <2>2. CASE ReceiveAnnounce(m)
    BY <2>1, <2>2 DEF ReceiveAnnounce, Running
  <2>3. CASE ReceiveNews(m)
    <3>1. \E s \in {"running", "frozen"} : status' = [status EXCEPT ![n] = s]
      BY <1>n, <2>3, SendAllSends DEF ReceiveNews
    <3>2. Running' = Running \union {n}
      BY <3>1, RunningStays
    <3> QED
      BY <2>1, <3>2
  <2> QED
    BY <2>2, <2>3
<1>3. /\ Views' = [Views EXCEPT ![n] = [Views[n] EXCEPT ![m.node] = m.info]]
      /\ m.info \in 1 .. starts[m.node]
  <2>. DEFINE tbl == Apply(n, m)
  <2>1. /\ View(tbl) = [Views[n] EXCEPT ![m.node] = m.info]
        /\ m.info \in 1 .. starts[m.node]
    BY <1>0, ApplyView
  <2>2. table' = [table EXCEPT ![n] = tbl]
    BY <1>1
  <2>. HIDE DEF tbl
  <2>3. Views' = [Views EXCEPT ![n] = View(tbl)]
    BY <2>2, ViewStep
  <2> QED
    BY <2>1, <2>3
<1>4. Views' = [Views EXCEPT ![n][m.node] = m.info]
  BY <1>3 DEF Views
<1>5. starts' = starts
  BY DEF ReceiveAnnounce, ReceiveNews
<1>6. Tables!Learn(n, m.node, m.info)
  BY <1>2, <1>3, <1>4, <1>5 DEF Tables!Learn, Running, Views
<1> QED
  BY <1>0, <1>3, <1>6

\* All other steps leave the view alone.
LEMMA RestMaps ==
  ASSUME TypeOK,
         \/ \E m \in net : ReceivePing(m) \/ ReceivePong(m) \/ Vanish(m)
         \/ \E n, p \in Nodes : Age(n, p)
         \/ UNCHANGED vars
  PROVE  UNCHANGED Tables!vars
<1>1. ASSUME NEW n \in Nodes, NEW p \in Nodes, NEW e,
             table' = [table EXCEPT ![n][p] = e], status' = status,
             InfoOf(e) = InfoOf(table[n][p])
      PROVE  UNCHANGED <<Running, Views>>
  <2>1. \A q, x \in Nodes : table'[q][x] = IF q = n /\ x = p THEN e ELSE table[q][x]
    BY <1>1 DEF TypeOK
  <2>2. \A q, x \in Nodes : InfoOf(table'[q][x]) = InfoOf(table[q][x])
    BY <1>1, <2>1
  <2> QED
    BY <1>1, <2>2 DEF Views, Running
<1>2. ASSUME NEW m \in net, ReceivePing(m) \/ ReceivePong(m)
      PROVE  UNCHANGED <<Running, Views>>
  <2>0. m.to \in Nodes /\ m.from \in Nodes
    BY MessageParts DEF TypeOK
  <2>1. PICK n \in Nodes, p \in Nodes : n = m.to /\ p = m.from
    BY <2>0
  <2>. DEFINE e == Checked(table[n][p], m.version)
              old == IF table[n][p] = Absent THEN Unknown ELSE table[n][p]
  <2>2. table' = [table EXCEPT ![n][p] = e] /\ status' = status
    BY <1>2, <2>1 DEF ReceivePing, ReceivePong, TypeOK
  <2>3. old \in Entry /\ InfoOf(table[n][p]) = old.info
    <3>1. table[n][p] \in Entry \union {Absent} /\ Unknown \in Entry /\ Unknown.info = 0
      BY DEF TypeOK, Unknown, Entry, Zero, Version
    <3> QED
      BY <3>1 DEF InfoOf
  <2>4. e = [old EXCEPT !.version = IF IsNewer(m.version, @) THEN m.version ELSE @,
                        !.heard = "recent"]
    BY DEF Checked
  <2>. HIDE DEF old
  <2>5. e.info = old.info /\ e.heard = "recent"
    BY <2>3, <2>4 DEF Entry
  <2>. HIDE DEF e
  <2>6. e # Absent
    BY <2>5 DEF Absent
  <2>7. InfoOf(e) = InfoOf(table[n][p])
    BY <2>3, <2>5, <2>6 DEF InfoOf
  <2> QED
    BY <1>1, <2>2, <2>7
<1>3. ASSUME NEW n \in Nodes, NEW p \in Nodes, Age(n, p)
      PROVE  UNCHANGED <<Running, Views>>
  <2>. DEFINE e == [table[n][p] EXCEPT !.heard = "old"]
  <2>1. /\ table' = [table EXCEPT ![n][p] = e] /\ status' = status
        /\ table[n][p] \in Entry /\ table[n][p] # Absent
    BY <1>3 DEF Age, Targets, Peers, TypeOK
  <2>2. e.info = table[n][p].info /\ e.heard = "old"
    BY <2>1 DEF Entry
  <2>. HIDE DEF e
  <2>3. e # Absent
    BY <2>2 DEF Absent
  <2>4. InfoOf(e) = InfoOf(table[n][p])
    BY <2>1, <2>2, <2>3 DEF InfoOf
  <2> QED
    BY <1>1, <2>1, <2>4
<1>4. ASSUME UNCHANGED <<status, table>>
      PROVE  UNCHANGED <<Running, Views>>
  BY <1>4 DEF Views, Running
<1>5. UNCHANGED <<Running, Views>>
  BY <1>2, <1>3, <1>4 DEF Vanish, vars
<1>6. starts' = starts
  BY DEF ReceivePing, ReceivePong, Vanish, Age, vars
<1> QED
  BY <1>5, <1>6 DEF Tables!vars, Running, Views

\* Gossip implements PeerTables: whatever datagrams and ticks do, the view the
\* order handlers read has one entry overwritten with the capabilities and
\* recipes of some start of that peer, loses some entries, or is empty after a
\* stop (apply_announce_shared, remove_stale_peers, NodeState::new). These are
\* the steps the environment of OrderExecution makes.
THEOREM GossipIsPeerTables == Spec => ImplementsPeerTables
<1>1. Init => Tables!Init
  BY DEF Init, Tables!Init, InfoOf
<1>2. ASSUME TypeOK, Truth, [Next]_vars
      PROVE  [Tables!Next]_(Tables!vars)
  <2>1. ASSUME NEW n \in Nodes, Boot(n) \/ Stop(n) \/ Tick(n)
        PROVE  [Tables!Next]_(Tables!vars)
    <3>1. CASE Boot(n)
      BY <1>2, <3>1, BootMaps DEF Tables!Next
    <3>2. CASE Stop(n)
      BY <1>2, <3>2, StopMaps DEF Tables!Next, Tables!Crash
    <3>3. CASE Tick(n)
      <4>1. ASSUME NEW ps \in SUBSET Nodes, Tables!Forget(n, ps)
            PROVE  Tables!Next
        <5>1. /\ n \in {q \in Nodes : status[q] # "down"}
              /\ \A p \in ps : InfoOf(table[n][p]) # 0
          BY <4>1 DEF Tables!Forget
        <5> QED
          BY <4>1, <5>1 DEF Tables!Next
      <4> QED
        BY <1>2, <3>3, <4>1, TickMaps
    <3> QED
      BY <2>1, <3>1, <3>2, <3>3
  <2>2. ASSUME NEW m \in net, ReceiveAnnounce(m) \/ ReceiveNews(m)
        PROVE  Tables!Next
    BY <1>2, <2>2, AnnounceMaps DEF Tables!Next, Tables!Learn
  <2> QED
    BY <1>2, <2>1, <2>2, RestMaps DEF Next, Receive
<1> QED
  BY <1>1, <1>2, TruthHolds, PTL DEF Spec, Tables!Spec, ImplementsPeerTables
=============================================================================
