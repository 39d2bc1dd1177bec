-------------------------- MODULE RecipeLookupProofs --------------------------
(***************************************************************************)
(* Theorems about RecipeLookup, for any nodes, recipe files and bounds:     *)
(* what a lookup through stale tables may answer, and why it ends at its   *)
(* first hop when the tables are current.                                  *)
(***************************************************************************)
EXTENDS RecipeLookup, SequenceTheorems, FiniteSetTheorems, WellFoundedInduction,
        TLAPS

USE NodesAssumption, BoundsAssumption

-----------------------------------------------------------------------------
(* The strengthening: what every thread's record owes to the recipe files,  *)
(* as operators of a record r and of the starts rs.                         *)

\* The file of n's start number g has the name.
Has(rs, n, g, name) == g \in 1 .. Len(rs[n]) /\ name \in NamesOf(rs[n][g])

\* Whoever is tried was named by an announce of one of its starts; a thread
\* searches, or says that nothing is found, only on a node without the recipe;
\* and as long as no connection failed no candidate is lost sight of.
Reasoned(r, rs) ==
    /\ r.entry # 0 => Has(rs, r.node, r.entry, r.name)
    /\ \A p \in Nodes : r.seen[p] # 0 => Has(rs, p, r.seen[p], r.name)
    /\ \A p \in r.cands : r.seen[p] # 0
    /\ r.pc # "done" => r.answer = NoAnswer
    /\ (r.pc \in {"forwarding", "awaiting"} \/ r.answer = NotFound) =>
         ~Has(rs, r.node, Len(rs[r.node]), r.name)
    /\ (r.pc = "forwarding" /\ ~r.lost) =>
         \A p \in Nodes : r.seen[p] # 0 => p \in r.cands

\* The answer has its cause or its recipe.
Justified(r, rs) ==
    /\ r.answer = NotFound =>
         \/ \A p \in Nodes : r.seen[p] = 0
         \/ r.lost
         \/ r.via # NoCall /\ r.seen[r.via] < Len(rs[r.via])
    /\ r.answer.kind = "RecipeAnswer" =>
         \E p \in Nodes : \E g \in 1 .. Len(rs[p]) :
           Serves(rs[p][g], r.name, r.answer.source)

\* The request q was sent for r to a candidate that r remembers.
Sent(r, q) == /\ q.name = r.name
              /\ q.entry = r.seen[q.node]
              /\ q.entry # 0

Reasons ==
    \A c \in Calls : Used(c) =>
      /\ Reasoned(call[c], runs)
      /\ Justified(call[c], runs)
      /\ call[c].child # NoCall => Sent(call[c], call[call[c].child])

-----------------------------------------------------------------------------
(* The data.                                                               *)

\* A thread that is in use has a record.
LEMMA UsedCall ==
  ASSUME TypeOK, NEW c \in Calls
  PROVE  /\ Used(c) => call[c] \in CallRecord
         /\ call[c] \in CallRecord => Used(c)
BY DEF TypeOK, Used, CallRecord, Free

\* The number of a node's current start.
LEMMA CurrentType ==
  ASSUME TypeOK, NEW n \in Nodes
  PROVE  /\ Current(n) \in 0 .. MaxStarts
         /\ \A g \in 1 .. Current(n) : runs[n][g] \in Setups
         /\ n \in up => Current(n) \in 1 .. MaxStarts
BY ShelfAssumption DEF TypeOK, Current

\* A node that runs was started with a setup.
LEMMA CurrentSetup ==
  ASSUME TypeOK, NEW n \in up
  PROVE  runs[n][Current(n)] \in Setups
<1>1. n \in Nodes
  BY DEF TypeOK
<1>2. Current(n) \in 1 .. Current(n)
  BY <1>1, CurrentType
<1> QED
  BY <1>1, <1>2, CurrentType

\* The entries of a recipe file.
LEMMA ShelfType ==
  ASSUME NEW s \in Setups
  PROVE  /\ Len(Shelf[s]) \in Nat
         /\ DOMAIN Shelf[s] = 1 .. Len(Shelf[s])
         /\ \A i \in DOMAIN Shelf[s] : /\ Shelf[s][i].name \in Seq(STRING)
                                      /\ Shelf[s][i].source \in Seq(STRING)
<1>. DEFINE E == [name : Seq(STRING), source : Seq(STRING), actions : Seq(Seq(STRING))]
<1>1. Shelf[s] \in Seq(E)
  BY ShelfAssumption
<1>2. \A e \in E : e.name \in Seq(STRING) /\ e.source \in Seq(STRING)
  OBVIOUS
<1>. HIDE DEF E
<1> QED
  BY <1>1, <1>2

\* The names in a recipe file are names.
LEMMA NamesType ==
  ASSUME NEW s \in Setups
  PROVE  NamesOf(s) \subseteq Seq(STRING)
BY ShelfType DEF NamesOf

\* So are those a table says somebody has.
LEMMA AdvertisedType ==
  ASSUME TypeOK, NEW n \in Nodes, NEW p \in Nodes
  PROVE  /\ table[n][p] # 0 => table[n][p] \in 1 .. Current(p)
         /\ Advertised(n, p) \subseteq Seq(STRING)
         /\ KnownSkills(n, p) \subseteq Seq(STRING)
<1>1. table[n][p] \in Nat /\ table[n][p] <= Current(p)
  BY DEF TypeOK
<1>2. CASE table[n][p] = 0
  BY <1>2 DEF Advertised, KnownSkills
<1>3. CASE table[n][p] # 0
  <2>1. table[n][p] \in 1 .. Current(p)
    BY <1>1, <1>3, CurrentType
  <2>2. runs[p][table[n][p]] \in Setups
    BY <2>1, CurrentType
  <2>3. NamesOf(runs[p][table[n][p]]) \subseteq Seq(STRING)
    BY <2>2, NamesType
  <2>4. Skills[runs[p][table[n][p]]] \subseteq Seq(STRING)
    BY <2>2, ShelfAssumption
  <2> QED
    BY <1>3, <2>1, <2>3, <2>4 DEF Advertised, KnownSkills
<1> QED
  BY <1>2, <1>3

\* The record of a thread that starts is well-formed.
LEMMA NewCallRecord ==
  ASSUME NEW n \in Nodes, NEW name \in Names, NEW e \in 0 .. MaxStarts,
         NEW c \in Calls \union {NoCall}
  PROVE  NewCall(n, name, c, e) \in CallRecord
BY DEF NewCall, CallRecord, Answers, NoAnswer

\* A set of numbers that is not empty has a least one.
LEMMA LeastNumber ==
  ASSUME NEW I, I \subseteq Nat, I # {}
  PROVE  Min(I) \in I /\ \A j \in I : Min(I) <= j
<1>1. PICK i \in I : \A j \in I : ~(<<j, i>> \in OpToRel(<, Nat))
  BY NatLessThanWellFounded, WFMin, Zenon
<1>2. \A j \in I : j \in Nat
  OBVIOUS
<1>3. ASSUME NEW j \in I
      PROVE  i <= j
  <2>1. i \in Nat /\ j \in Nat
    BY <1>2
  <2>2. ~(j < i)
    BY <1>1, <2>1 DEF OpToRel
  <2> QED
    BY <2>1, <2>2
<1> QED
  BY <1>3 DEF Min

\* A file that holds a name has a first recipe under it.
LEMMA FirstUnderName ==
  ASSUME TypeOK, NEW n \in up, NEW name, Holds(n, name)
  PROVE  /\ SourceOf(n, name) \in Seq(STRING)
         /\ Serves(runs[n][Current(n)], name, SourceOf(n, name))
<1>. DEFINE k == runs[n][Current(n)]
            I == {i \in 1 .. Len(Shelf[k]) : Shelf[k][i].name = name}
            m == Min(I)
<1>1. n \in Nodes
  BY DEF TypeOK
<1>2. k \in Setups
  BY CurrentSetup
<1>3. /\ Len(Shelf[k]) \in Nat
      /\ DOMAIN Shelf[k] = 1 .. Len(Shelf[k])
      /\ \A i \in DOMAIN Shelf[k] : Shelf[k][i].source \in Seq(STRING)
  BY <1>2, ShelfType
<1>4. I # {} /\ I \subseteq Nat
  <2>1. PICK x \in DOMAIN Shelf[k] : Shelf[k][x].name = name
    BY DEF Holds, NamesOf
  <2>. HIDE DEF k
  <2>2. x \in I
    BY <1>3, <2>1
  <2>3. 1 .. Len(Shelf[k]) \subseteq Nat
    BY <1>3
  <2> QED
    BY <2>2, <2>3
<1>5. m \in I /\ \A j \in I : m <= j
  BY <1>4, LeastNumber
<1>6. SelectInSeq(Shelf[k], LAMBDA r : r.name = name) = m
  BY <1>4 DEF SelectInSeq
<1>7. SourceOf(n, name) = Shelf[k][m].source
  BY <1>6 DEF SourceOf, Recipes
<1>. HIDE DEF m
<1>8. \A j \in 1 .. m - 1 : j \in 1 .. Len(Shelf[k]) /\ j \notin I
  BY <1>3, <1>5
<1>. HIDE DEF k
<1> QED
  BY <1>3, <1>5, <1>7, <1>8 DEF Serves, k
-----------------------------------------------------------------------------
(* Type correctness, in three parts.                                       *)

NodesOK ==
    /\ up \subseteq Nodes
    /\ runs \in [Nodes -> Seq(Loads)]
    /\ \A n \in Nodes : Current(n) <= MaxStarts /\ (n \in up => runs[n] # <<>>)
    /\ refused \subseteq Setups \ Loads
    /\ table \in [Nodes -> [Nodes -> 0 .. MaxStarts]]
    /\ \A n, p \in Nodes : table[n][p] <= Current(p)
    /\ churn \in 0 .. MaxChurn
CallsOK ==
    /\ call \in [Calls -> {Free} \union CallRecord]
    /\ \A c \in Calls : Used(c) => call[c].node \in up
    /\ \A c, d \in Calls :
         (Used(c) /\ call[c].child = d) <=> (Used(d) /\ call[d].parent = c)
    /\ \A c \in Calls : (Used(c) /\ call[c].child # NoCall) =>
                         call[c].pc = "awaiting" /\ call[c].child # c
    /\ asker \in {NoAsker} \union AskerRecord
    /\ asker # NoAsker => Used(asker.call) /\ call[asker.call].parent = NoCall
ListingOK == listing # Free => IsListing(listing) /\ listing.node \in up

LEMMA TypeParts == TypeOK <=> NodesOK /\ CallsOK /\ ListingOK
BY DEF TypeOK, NodesOK, CallsOK, ListingOK

\* Initially nothing runs.
LEMMA InitType == Init => TypeOK
BY DEF Init, TypeOK, Used, Current, NoAsker, Free

\* A sequence with one more element.
LEMMA OneMore ==
  ASSUME NEW S, NEW q \in Seq(S), NEW s \in S
  PROVE  /\ Append(q, s) \in Seq(S)
         /\ Append(q, s) # <<>>
         /\ Len(q) \in Nat
         /\ Len(Append(q, s)) = Len(q) + 1
         /\ \A g \in 1 .. Len(q) : Append(q, s)[g] = q[g]
<1>1. /\ Append(q, s) \in Seq(S)
      /\ Len(q) \in Nat
      /\ Len(Append(q, s)) = Len(q) + 1
      /\ \A g \in 1 .. Len(q) : Append(q, s)[g] = q[g]
  BY AppendProperties
<1> QED
  BY <1>1, EmptySeq

\* Starts are only added, and never to a node that runs.
LEMMA StartsStay ==
  ASSUME NodesOK, NEW n \in Nodes, NEW s \in Offered, Start(n, s), NEW p \in Nodes
  PROVE  /\ Len(runs[p]) \in Nat
         /\ Len(runs'[p]) \in Nat
         /\ Len(runs[p]) <= Len(runs'[p])
         /\ Len(runs'[p]) <= MaxStarts
         /\ \A g \in 1 .. Len(runs[p]) : runs'[p][g] = runs[p][g]
         /\ p \in up => runs'[p] = runs[p]
         /\ runs'[p] \in Seq(Loads)
         /\ p \in up' => runs'[p] # <<>>
<1>1. /\ runs[p] \in Seq(Loads)
      /\ Len(runs[p]) \in Nat
      /\ Len(runs[p]) <= MaxStarts
      /\ p \in up => runs[p] # <<>>
      /\ runs \in [Nodes -> Seq(Loads)]
  BY LenProperties DEF NodesOK, Current
<1>2. CASE runs' = runs /\ up' = up
  BY <1>1, <1>2
<1>3. CASE s \in Loads
  <2>1. /\ n \notin up
        /\ Len(runs[n]) < MaxStarts
        /\ up' = up \union {n}
        /\ runs' = [runs EXCEPT ![n] = Append(@, s)]
    BY <1>3 DEF Start, Current
  <2>2. CASE p = n
    BY <1>1, <1>3, <2>1, <2>2, OneMore
  <2>3. CASE p # n
    BY <1>1, <2>1, <2>3
  <2> QED
    BY <2>2, <2>3
<1> QED
  BY <1>2, <1>3 DEF Start

\* The part of Environment that changes a node.
NodeChanges(n) ==
    \/ \E s \in Offered : Start(n, s)
    \/ Crash(n)
    \/ \E p \in Nodes : \E g \in 1 .. MaxStarts : Learn(n, p, g)
    \/ \E p \in Nodes : Forget(n, p)

\* Starts, crashes and gossip keep the tables within what has happened.
LEMMA NodesStep ==
  ASSUME NodesOK, NEW n \in Nodes, NodeChanges(n)
  PROVE  NodesOK'
<1>1. ASSUME NEW s \in Offered, Start(n, s)
      PROVE  NodesOK'
  <2>1. \A q \in Nodes : /\ Len(runs'[q]) \in Nat
                          /\ Len(runs[q]) \in Nat
                          /\ Len(runs[q]) <= Len(runs'[q])
                          /\ Len(runs'[q]) <= MaxStarts
    BY <1>1, StartsStay
  <2>a. \A q \in Nodes : runs'[q] \in Seq(Loads) /\ (q \in up' => runs'[q] # <<>>)
    BY <1>1, StartsStay
  <2>2. /\ up' \subseteq Nodes
        /\ runs' \in [Nodes -> Seq(Loads)]
        /\ refused' \subseteq Setups \ Loads
        /\ table' = table /\ churn' = churn
    <3>1. s \in Setups
      BY ShelfAssumption DEF Offered
    <3>2. runs' = runs \/ runs' = [runs EXCEPT ![n] = Append(@, s)]
      BY <1>1 DEF Start
    <3>3. runs' = [q \in Nodes |-> runs'[q]]
      BY <3>2 DEF NodesOK
    <3>4. runs' \in [Nodes -> Seq(Loads)]
      BY <2>a, <3>3, Zenon
    <3> QED
      BY <1>1, <3>1, <3>4 DEF Start, NodesOK
  <2>3. ASSUME NEW m \in Nodes, NEW q \in Nodes
        PROVE  table'[m][q] <= Len(runs'[q])
    <3>1. table[m][q] \in Nat /\ table[m][q] <= Len(runs[q])
      BY DEF NodesOK, Current
    <3>2. table'[m][q] = table[m][q]
      BY <2>2
    <3>3. /\ Len(runs'[q]) \in Nat
          /\ Len(runs[q]) \in Nat
          /\ Len(runs[q]) <= Len(runs'[q])
      BY <2>1
    <3> QED
      BY <3>1, <3>2, <3>3
  <2>4. \A q \in Nodes : Current(q)' <= MaxStarts /\ (q \in up' => runs'[q] # <<>>)
    BY <2>1, <2>a DEF Current
  <2>5. \A m, q \in Nodes : table'[m][q] <= Current(q)'
    BY <2>3 DEF Current
  <2>6. table' \in [Nodes -> [Nodes -> 0 .. MaxStarts]] /\ churn' \in 0 .. MaxChurn
    BY <2>2 DEF NodesOK
  <2> QED
    BY <2>2, <2>4, <2>5, <2>6 DEF NodesOK
<1>2. CASE Crash(n)
  <2>1. /\ up' = up \ {n}
        /\ table' = [table EXCEPT ![n] = [q \in Nodes |-> 0]]
        /\ UNCHANGED <<runs, refused, churn>>
    BY <1>2 DEF Crash
  <2>2. \A q \in Nodes : Len(runs[q]) \in Nat
    BY LenProperties DEF NodesOK
  <2> QED
    BY <2>1, <2>2 DEF NodesOK, Current
<1>3. ASSUME NEW p \in Nodes,
             (\E g \in 1 .. MaxStarts : Learn(n, p, g)) \/ Forget(n, p)
      PROVE  NodesOK'
  <2>1. PICK h \in 0 .. MaxStarts :
          /\ h <= Len(runs[p])
          /\ table' = [table EXCEPT ![n][p] = h]
    <3>1. Len(runs[p]) \in Nat
      BY LenProperties DEF NodesOK
    <3> QED
      BY <1>3, <3>1 DEF Learn, Forget, Current
  <2>2. UNCHANGED <<up, runs, refused>> /\ churn' = churn + 1 /\ churn < MaxChurn
    BY <1>3 DEF Learn, Forget
  <2> QED
    BY <2>1, <2>2, SMTT(30) DEF NodesOK, Current
<1> QED
  BY <1>1, <1>2, <1>3 DEF NodeChanges

\* A thread that goes on keeps the threads in order when it keeps its node and
\* its links, or waits for nobody.
LEMMA UpdateCalls ==
  ASSUME CallsOK, NEW c \in Calls, Used(c), NEW r \in CallRecord,
         r.node = call[c].node, r.parent = call[c].parent, r.child = call[c].child,
         r.child # NoCall => r.pc = "awaiting",
         call' = [call EXCEPT ![c] = r], UNCHANGED <<up, asker>>
  PROVE  CallsOK'
<1>1. \A d \in Calls : /\ Used(d)' <=> Used(d)
                       /\ Used(d) => /\ call'[d].node = call[d].node
                                     /\ call'[d].parent = call[d].parent
                                     /\ call'[d].child = call[d].child
  BY DEF CallsOK, Used, CallRecord, Free
<1>2. call' \in [Calls -> {Free} \union CallRecord]
  BY DEF CallsOK
<1>3. \A d \in Calls : (Used(d)' /\ call'[d].child # NoCall) =>
                       call'[d].pc = "awaiting" /\ call'[d].child # d
  BY <1>1 DEF CallsOK
<1>4. asker # NoAsker => asker.call \in Calls
  BY DEF CallsOK, AskerRecord
<1> QED
  BY <1>1, <1>2, <1>3, <1>4 DEF CallsOK

\* So does one that ends with no link left.
LEMMA FreeCalls ==
  ASSUME CallsOK, NEW c \in Calls, Used(c), call[c].child = NoCall,
         call[c].parent = NoCall,
         call' = [call EXCEPT ![c] = Free], up' = up,
         \/ asker' = NoAsker
         \/ asker' = asker /\ asker.call # c
  PROVE  CallsOK'
<1>1. \A d \in Calls : /\ Used(d)' <=> (Used(d) /\ d # c)
                       /\ d # c => call'[d] = call[d]
  BY DEF CallsOK, Used
<1>2. call' \in [Calls -> {Free} \union CallRecord]
  BY DEF CallsOK
<1>3. NoCall \notin Calls
  BY DEF NoCall, Calls
<1>4. asker # NoAsker => asker.call \in Calls
  BY DEF CallsOK, AskerRecord
<1>5. ASSUME NEW d \in Calls, NEW e \in Calls
      PROVE  (Used(d)' /\ call'[d].child = e) <=> (Used(e)' /\ call'[e].parent = d)
  BY <1>1, <1>3 DEF CallsOK
<1> QED
  BY <1>1, <1>2, <1>4, <1>5 DEF CallsOK

\* And a new one without a parent.
LEMMA AskCalls ==
  ASSUME CallsOK, NEW n \in up, n \in Nodes, NEW name \in Names,
         NEW who \in {"client", "order"}, Ask(n, name, who)
  PROVE  CallsOK'
<1>1. PICK c \in Calls :
        /\ IsNext(c)
        /\ call' = [call EXCEPT ![c] = NewCall(n, name, NoCall, 0)]
        /\ asker' = [pc |-> "waiting", who |-> who, call |-> c]
  BY DEF Ask
<1>. DEFINE r == NewCall(n, name, NoCall, 0)
<1>2. r \in CallRecord
  BY NewCallRecord
<1>3. r.node = n /\ r.child = NoCall /\ r.parent = NoCall
  BY DEF NewCall
<1>. HIDE DEF r
<1>4. call' = [call EXCEPT ![c] = r] /\ up' = up /\ ~Used(c)
  BY <1>1 DEF r, Ask, nodeVars, IsNext
<1>5. \A d \in Calls : /\ Used(d)' <=> (Used(d) \/ d = c)
                       /\ d # c => call'[d] = call[d]
                       /\ call'[c] = r
  BY <1>2, <1>4 DEF CallsOK, Used, CallRecord, Free
<1>6. call' \in [Calls -> {Free} \union CallRecord]
  BY <1>2, <1>4 DEF CallsOK
<1>7. NoCall \notin Calls
  BY DEF NoCall, Calls
<1>8. ASSUME NEW d \in Calls, NEW e \in Calls
      PROVE  (Used(d)' /\ call'[d].child = e) <=> (Used(e)' /\ call'[e].parent = d)
  BY <1>3, <1>4, <1>5, <1>7 DEF CallsOK
<1>9. asker' \in AskerRecord /\ asker'.call = c
  BY <1>1 DEF AskerRecord
<1> QED
  BY <1>3, <1>4, <1>5, <1>6, <1>8, <1>9 DEF CallsOK

\* A forwarded request is linked with its parent, both ways.
LEMMA ForwardCalls ==
  ASSUME CallsOK, up \subseteq Nodes, NEW c \in Calls, NEW p \in Nodes, ForwardTo(c, p)
  PROVE  CallsOK'
<1>1. PICK d \in Calls :
        /\ IsNext(d)
        /\ call' = [call EXCEPT
                      ![c].pc = "awaiting", ![c].child = d, ![c].cands = @ \ {p},
                      ![d] = NewCall(p, call[c].name, c, call[c].seen[p])]
  BY DEF ForwardTo
<1>2. /\ call[c].pc = "forwarding" /\ p \in up
      /\ call[c] \in CallRecord /\ ~Used(d) /\ Used(c) /\ c # d
      /\ UNCHANGED <<up, asker>>
  BY <1>1 DEF ForwardTo, CallsOK, IsNext, Used, Free, nodeVars
<1>. DEFINE q == NewCall(p, call[c].name, c, call[c].seen[p])
            r == [call[c] EXCEPT !.pc = "awaiting", !.child = d, !.cands = @ \ {p}]
<1>3. /\ q \in CallRecord
      /\ q.node = p /\ q.parent = c /\ q.child = NoCall
  <2>1. call[c].name \in Names /\ call[c].seen[p] \in 0 .. MaxStarts
    BY <1>2 DEF CallRecord
  <2>2. q \in CallRecord
    BY <2>1, NewCallRecord
  <2> QED
    BY <2>2 DEF NewCall
<1>4. /\ r \in CallRecord
      /\ r.node = call[c].node /\ r.parent = call[c].parent
      /\ r.child = d /\ r.pc = "awaiting"
  BY <1>2 DEF CallRecord
<1>t. call = [e \in Calls |-> call[e]]
  BY DEF CallsOK
<1>5. call' = [call EXCEPT ![c] = r, ![d] = q]
  BY <1>1, <1>2, <1>t
<1>. HIDE DEF q, r
<1>6. \A e \in Calls : /\ Used(e)' <=> (Used(e) \/ e = d)
                       /\ e \notin {c, d} => call'[e] = call[e]
                       /\ call'[c] = r /\ call'[d] = q
  BY <1>2, <1>3, <1>4, <1>5 DEF CallsOK, Used, CallRecord, Free
<1>7. call' \in [Calls -> {Free} \union CallRecord]
  BY <1>3, <1>4, <1>5 DEF CallsOK
<1>8. NoCall \notin Calls
  BY DEF NoCall, Calls
<1>9. call[c].child = NoCall
  BY <1>2 DEF CallsOK
<1>10. ASSUME NEW e \in Calls, NEW f \in Calls
       PROVE  (Used(e)' /\ call'[e].child = f) <=> (Used(f)' /\ call'[f].parent = e)
  BY <1>2, <1>3, <1>4, <1>6, <1>8, <1>9 DEF CallsOK
<1>11. \A e \in Calls : Used(e)' => call'[e].node \in up'
  BY <1>2, <1>3, <1>4, <1>6 DEF CallsOK
<1>12. \A e \in Calls : (Used(e)' /\ call'[e].child # NoCall) =>
                       call'[e].pc = "awaiting" /\ call'[e].child # e
  BY <1>2, <1>3, <1>4, <1>6 DEF CallsOK
<1>13. asker # NoAsker => /\ asker.call \in Calls
                          /\ Used(asker.call)'
                          /\ call'[asker.call].parent = NoCall
  <2>1. asker # NoAsker => /\ asker.call \in Calls
                           /\ Used(asker.call)
                           /\ call[asker.call].parent = NoCall
    BY DEF CallsOK, AskerRecord
  <2> QED
    BY <1>2, <1>4, <1>6, <2>1
<1> QED
  BY <1>2, <1>7, <1>10, <1>11, <1>12, <1>13 DEF CallsOK

\* An answer that is passed on takes the link away with the child.
LEMMA ReplyCalls ==
  ASSUME CallsOK, NEW c \in Calls, ForwardReply(c)
  PROVE  CallsOK'
<1>. DEFINE d == call[c].child
            r == [call[c] EXCEPT !.pc = "done", !.child = NoCall,
                                 !.via = call[d].node, !.answer = call[d].answer]
<1>1. /\ call[c].pc = "awaiting" /\ d # NoCall /\ call[d].pc = "done"
      /\ call[c] \in CallRecord /\ Used(c) /\ UNCHANGED <<up, asker>>
  BY DEF ForwardReply, CallsOK, Used, Free, nodeVars
<1>2. /\ d \in Calls /\ Used(d) /\ call[d].parent = c /\ d # c
      /\ call[d] \in CallRecord /\ call[d].child = NoCall
  BY <1>1 DEF CallsOK, CallRecord, Used
<1>3. call' = [call EXCEPT ![c] = r, ![d] = Free]
  <2>1. call = [e \in Calls |-> call[e]]
    BY DEF CallsOK
  <2> QED
    BY <1>1, <1>2, <2>1 DEF ForwardReply
<1>4. /\ r \in CallRecord
      /\ r.node = call[c].node /\ r.parent = call[c].parent
      /\ r.child = NoCall /\ r.pc = "done"
  <2>1. call[d].node \in Nodes /\ call[d].answer \in Answers
    BY <1>2 DEF CallRecord
  <2>. HIDE DEF d
  <2> QED
    BY <1>1, <2>1 DEF CallRecord
<1>. HIDE DEF d, r
<1>5. \A e \in Calls : /\ Used(e)' <=> (Used(e) /\ e # d)
                       /\ e \notin {c, d} => call'[e] = call[e]
                       /\ call'[c] = r /\ call'[d] = Free
  BY <1>1, <1>2, <1>3, <1>4 DEF CallsOK, Used, CallRecord, Free
<1>6. call' \in [Calls -> {Free} \union CallRecord]
  BY <1>2, <1>3, <1>4 DEF CallsOK
<1>7. NoCall \notin Calls
  BY DEF NoCall, Calls
<1>8. ASSUME NEW e \in Calls, NEW f \in Calls
       PROVE  (Used(e)' /\ call'[e].child = f) <=> (Used(f)' /\ call'[f].parent = e)
  BY <1>1, <1>2, <1>4, <1>5, <1>7 DEF CallsOK, d
<1>9. /\ \A e \in Calls : Used(e)' => call'[e].node \in up'
      /\ \A e \in Calls : (Used(e)' /\ call'[e].child # NoCall) =>
                       call'[e].pc = "awaiting" /\ call'[e].child # e
  BY <1>1, <1>4, <1>5 DEF CallsOK
<1>10. asker # NoAsker => /\ asker.call \in Calls
                          /\ Used(asker.call)'
                          /\ call'[asker.call].parent = NoCall
  <2>1. asker # NoAsker => /\ asker.call \in Calls
                           /\ Used(asker.call)
                           /\ call[asker.call].parent = NoCall
    BY DEF CallsOK, AskerRecord
  <2>2. asker # NoAsker => asker.call # d
    BY <1>2, <1>7, <2>1
  <2>3. CASE asker.call = c
    BY <1>1, <1>4, <1>5, <2>1, <2>2, <2>3
  <2>4. CASE asker.call # c
    BY <1>1, <1>5, <2>1, <2>2, <2>4
  <2> QED
    BY <2>3, <2>4
<1> QED
  BY <1>1, <1>6, <1>8, <1>9, <1>10 DEF CallsOK

\* A forward that is given up cuts the link on both sides.
LEMMA GivenUpCalls ==
  ASSUME CallsOK, NEW c \in Calls, ForwardGivenUp(c)
  PROVE  CallsOK'
<1>. DEFINE d == call[c].child
            r == [call[c] EXCEPT !.pc = "forwarding", !.lost = TRUE, !.child = NoCall]
            q == [call[d] EXCEPT !.parent = NoCall]
<1>1. /\ call[c].pc = "awaiting" /\ UNCHANGED <<up, asker>>
      /\ call[c] \in CallRecord /\ Used(c)
      /\ call' = [e \in Calls |-> IF e = c THEN r ELSE IF e = d THEN q ELSE call[e]]
  BY DEF ForwardGivenUp, CallsOK, Used, Free, nodeVars
<1>2. d \in Calls => /\ Used(d) /\ call[d].parent = c
                      /\ call[d] \in CallRecord
  BY <1>1 DEF CallsOK, Used
<1>3. /\ r \in CallRecord
      /\ r.node = call[c].node /\ r.parent = call[c].parent
      /\ r.child = NoCall
  BY <1>1 DEF CallRecord
<1>4. d \in Calls => /\ q \in CallRecord
                      /\ q.node = call[d].node /\ q.child = call[d].child
                      /\ q.pc = call[d].pc /\ q.parent = NoCall
  BY <1>2 DEF CallRecord
<1>n. NoCall \notin Calls /\ (d \in Calls => d # NoCall)
  BY DEF NoCall, Calls
<1>. HIDE DEF r, q, d
<1>5. \A e \in Calls : /\ Used(e)' <=> Used(e)
                       /\ e \notin {c, d} => call'[e] = call[e]
                       /\ e = c => call'[e] = r
                       /\ e = d /\ e # c => call'[e] = q
  BY <1>1, <1>2, <1>3, <1>4 DEF CallsOK, Used, CallRecord, Free
<1>6. call' \in [Calls -> {Free} \union CallRecord]
  <2>1. \A e \in Calls : call'[e] \in {Free} \union CallRecord
    BY <1>3, <1>4, <1>5 DEF CallsOK
  <2> QED
    BY <1>1, <2>1
<1>8. ASSUME NEW e \in Calls, NEW f \in Calls
       PROVE  (Used(e)' /\ call'[e].child = f) <=> (Used(f)' /\ call'[f].parent = e)
  <2>1. /\ (Used(e) /\ call[e].child = f) <=> (Used(f) /\ call[f].parent = e)
        /\ (Used(c) /\ d = f) <=> (Used(f) /\ call[f].parent = c)
        /\ (Used(e) /\ call[e].child = c) <=> (Used(c) /\ call[c].parent = e)
    BY DEF CallsOK, d
  <2>2. d # c
    BY <1>1, <1>n DEF CallsOK, d
  <2>3. Used(e)' => call'[e].child = (IF e = c THEN NoCall ELSE call[e].child)
    BY <1>3, <1>4, <1>5
  <2>4. Used(f)' => call'[f].parent = (IF f = d /\ f # c THEN NoCall ELSE call[f].parent)
    BY <1>3, <1>4, <1>5
  <2> QED
    BY <1>1, <1>5, <1>n, <2>1, <2>2, <2>3, <2>4
<1>9. /\ \A e \in Calls : Used(e)' => call'[e].node \in up'
      /\ \A e \in Calls : (Used(e)' /\ call'[e].child # NoCall) =>
                       call'[e].pc = "awaiting" /\ call'[e].child # e
  BY <1>1, <1>3, <1>4, <1>5 DEF CallsOK
<1>10. asker # NoAsker => /\ asker.call \in Calls
                          /\ Used(asker.call)'
                          /\ call'[asker.call].parent = NoCall
  <2>1. asker # NoAsker => /\ asker.call \in Calls
                           /\ Used(asker.call)
                           /\ call[asker.call].parent = NoCall
    BY DEF CallsOK, AskerRecord
  <2>2. CASE asker.call = c
    BY <1>1, <1>3, <1>5, <2>1, <2>2
  <2>3. CASE asker.call # c /\ asker.call = d
    BY <1>1, <1>4, <1>5, <2>1, <2>3
  <2>4. CASE asker.call \notin {c, d}
    BY <1>1, <1>5, <2>1, <2>4
  <2> QED
    BY <2>2, <2>3, <2>4
<1> QED
  BY <1>1, <1>6, <1>8, <1>9, <1>10 DEF CallsOK

\* A record is not Free.
LEMMA UsedFree == \A r \in CallRecord : r # Free
<1>1. ASSUME NEW r \in CallRecord
      PROVE  r.pc # Free.pc
  BY DEF CallRecord, Free
<1> QED
  BY <1>1

\* A crash takes the threads of its node, and the links to them.
LEMMA CrashCalls ==
  ASSUME CallsOK, NEW n \in Nodes, Crash(n)
  PROVE  CallsOK'
<1>. DEFINE dead == {c \in Calls : Used(c) /\ call[c].node = n}
            Orphaned(c) == [call[c] EXCEPT !.child = IF @ \in dead THEN NoCall ELSE @,
                                           !.parent = IF @ \in dead THEN NoCall ELSE @]
<1>1. /\ up' = up \ {n}
      /\ call' = [c \in Calls |-> IF c \in dead \/ ~Used(c) THEN Free ELSE Orphaned(c)]
      /\ asker' = IF asker # NoAsker /\ asker.call \in dead THEN NoAsker ELSE asker
  BY DEF Crash
<1>2. \A c \in Calls : Used(c) => call[c] \in CallRecord
  BY DEF CallsOK, Used
<1>3. ASSUME NEW c \in Calls, Used(c)
      PROVE  /\ Orphaned(c) \in CallRecord
             /\ Orphaned(c).node = call[c].node
             /\ Orphaned(c).pc = call[c].pc
             /\ Orphaned(c).child = IF call[c].child \in dead THEN NoCall ELSE call[c].child
             /\ Orphaned(c).parent = IF call[c].parent \in dead THEN NoCall ELSE call[c].parent
  <2>1. call[c] \in CallRecord
    BY <1>2, <1>3
  <2>. HIDE DEF dead
  <2> QED
    BY <2>1 DEF CallRecord
<1>4. \A c \in Calls : /\ Used(c)' <=> (Used(c) /\ c \notin dead)
                       /\ Used(c)' => call'[c] = Orphaned(c)
                       /\ call'[c] \in {Free} \union CallRecord
  <2>. HIDE DEF Orphaned, dead
  <2>1. \A c \in Calls : Used(c) => Orphaned(c) # Free
    BY <1>3, UsedFree
  <2> QED
    BY <1>1, <1>3, <2>1 DEF Used
<1>. HIDE DEF Orphaned
<1>5. call' \in [Calls -> {Free} \union CallRecord]
  <2>. HIDE DEF dead
  <2> QED
    BY <1>1, <1>4
<1>6. NoCall \notin Calls
  BY DEF NoCall, Calls
<1>7. ASSUME NEW e \in Calls, NEW f \in Calls
      PROVE  (Used(e)' /\ call'[e].child = f) <=> (Used(f)' /\ call'[f].parent = e)
  <2>1. (Used(e) /\ call[e].child = f) <=> (Used(f) /\ call[f].parent = e)
    BY DEF CallsOK
  <2>. HIDE DEF dead
  <2>2. Used(e)' => call'[e].child = (IF call[e].child \in dead THEN NoCall ELSE call[e].child)
    BY <1>3, <1>4
  <2>3. Used(f)' => call'[f].parent = (IF call[f].parent \in dead THEN NoCall ELSE call[f].parent)
    BY <1>3, <1>4
  <2> QED
    BY <1>4, <1>6, <2>1, <2>2, <2>3
<1>8. \A e \in Calls : Used(e)' => call'[e].node \in up'
  BY <1>1, <1>3, <1>4 DEF CallsOK
<1>9. \A e \in Calls : (Used(e)' /\ call'[e].child # NoCall) =>
                       call'[e].pc = "awaiting" /\ call'[e].child # e
  BY <1>3, <1>4 DEF CallsOK
<1>10. asker' # NoAsker => /\ asker' = asker
                           /\ asker.call \in Calls
                           /\ Used(asker.call)'
                           /\ call'[asker.call].parent = NoCall
  <2>1. asker # NoAsker => /\ asker.call \in Calls
                           /\ Used(asker.call)
                           /\ call[asker.call].parent = NoCall
    BY DEF CallsOK, AskerRecord
  <2>. HIDE DEF dead
  <2> QED
    BY <1>1, <1>3, <1>4, <2>1
<1> QED
  BY <1>1, <1>5, <1>7, <1>8, <1>9, <1>10 DEF CallsOK

\* A thread that makes a step is in use, on a node that runs.
LEMMA StepUsed ==
  ASSUME TypeOK, NEW c \in Calls, CallStep(c)
  PROVE  /\ Used(c) /\ call[c] \in CallRecord
         /\ call[c].pc # "awaiting" => call[c].child = NoCall
         /\ call[c].node \in Nodes /\ call[c].node \in up
<1>0. CallsOK /\ up \subseteq Nodes
  BY TypeParts DEF NodesOK
<1>1. call[c].pc \in {"asked", "forwarding", "awaiting", "done"} => call[c] # Free
  BY DEF Free
<1>2. call[c].pc \in {"asked", "forwarding", "awaiting", "done"}
  BY DEF CallStep, AnswerLocal, ReadCandidates, ForwardTo, ForwardRefused,
         ForwardReply, ForwardGivenUp, AnswerNotFound, WriteFails
<1>3. Used(c) /\ call[c] \in CallRecord
  BY <1>1, <1>2, UsedCall DEF Used
<1> QED
  BY <1>0, <1>3 DEF CallsOK

\* Every step of a thread keeps the threads in order.
LEMMA CallStepCalls ==
  ASSUME TypeOK, NEW c \in Calls, CallStep(c)
  PROVE  CallsOK'
<1>. USE DEF nodeVars, Update, Respond
<1>0. CallsOK /\ NodesOK /\ up \subseteq Nodes
  BY TypeParts DEF NodesOK
<1>1. /\ Used(c) /\ call[c] \in CallRecord
      /\ call[c].pc # "awaiting" => call[c].child = NoCall
      /\ call[c].node \in Nodes /\ call[c].node \in up
  BY StepUsed
<1>2. call[c].pc # "awaiting" => call[c].child = NoCall
  BY <1>1
<1>3. call[c].node \in Nodes /\ call[c].node \in up
  BY <1>1
<1>4. CASE AnswerLocal(c)
  <2>1. /\ call[c].pc = "asked"
        /\ SourceOf(call[c].node, call[c].name) \in Seq(STRING)
    BY <1>3, <1>4, FirstUnderName DEF AnswerLocal
  <2>. DEFINE a == Found(SourceOf(call[c].node, call[c].name))
              r == [call[c] EXCEPT !.pc = "done", !.answer = a]
  <2>2. a \in Answers
    BY <2>1 DEF Answers, Found
  <2>. HIDE DEF a
  <2>3. r \in CallRecord /\ r.node = call[c].node /\ r.parent = call[c].parent
          /\ r.child = call[c].child
    BY <1>1, <2>2 DEF CallRecord
  <2>4. call' = [call EXCEPT ![c] = r] /\ UNCHANGED <<up, asker>>
    BY <1>4 DEF AnswerLocal, a
  <2>. HIDE DEF r
  <2> QED
    BY <1>0, <1>1, <1>2, <2>1, <2>3, <2>4, UpdateCalls
<1>5. CASE ReadCandidates(c)
  <2>. DEFINE n == call[c].node
              cands == Candidates(n, call[c].name)
              seen == [p \in Nodes |-> IF p \in cands THEN table[n][p] ELSE 0]
              r == [call[c] EXCEPT !.pc = "forwarding", !.cands = cands, !.seen = seen]
  <2>1. cands \subseteq Nodes
    BY DEF Candidates
  <2>2. seen \in [Nodes -> 0 .. MaxStarts]
    <3>1. table \in [Nodes -> [Nodes -> 0 .. MaxStarts]] /\ 0 \in 0 .. MaxStarts
      BY <1>0 DEF NodesOK
    <3>2. \A p \in Nodes : table[n][p] \in 0 .. MaxStarts
      BY <1>3, <3>1
    <3> QED
      BY <3>1, <3>2
  <2>3. call' = [call EXCEPT ![c] = r] /\ UNCHANGED <<up, asker>> /\ call[c].pc = "asked"
    BY <1>5 DEF ReadCandidates
  <2>. HIDE DEF cands, seen
  <2>4. r \in CallRecord /\ r.node = call[c].node /\ r.parent = call[c].parent
          /\ r.child = call[c].child
    BY <1>1, <2>1, <2>2 DEF CallRecord
  <2>. HIDE DEF r
  <2> QED
    BY <1>0, <1>1, <1>2, <2>3, <2>4, UpdateCalls
<1>6. ASSUME NEW p \in Nodes, ForwardTo(c, p)
      PROVE  CallsOK'
  BY <1>0, <1>6, ForwardCalls
<1>7. ASSUME NEW p \in Nodes, ForwardRefused(c, p)
      PROVE  CallsOK'
  <2>. DEFINE r == [call[c] EXCEPT !.cands = @ \ {p}, !.lost = TRUE]
  <2>1. call' = [call EXCEPT ![c] = r] /\ UNCHANGED <<up, asker>> /\ call[c].pc = "forwarding"
    BY <1>7 DEF ForwardRefused
  <2>2. r \in CallRecord /\ r.node = call[c].node /\ r.parent = call[c].parent
          /\ r.child = call[c].child
    BY <1>1 DEF CallRecord
  <2>. HIDE DEF r
  <2> QED
    BY <1>0, <1>1, <1>2, <2>1, <2>2, UpdateCalls
<1>8. CASE ForwardReply(c)
  BY <1>0, <1>8, ReplyCalls
<1>9. CASE ForwardGivenUp(c)
  BY <1>0, <1>9, GivenUpCalls
<1>10. CASE AnswerNotFound(c)
  <2>. DEFINE r == [call[c] EXCEPT !.pc = "done", !.answer = NotFound]
  <2>1. call' = [call EXCEPT ![c] = r] /\ UNCHANGED <<up, asker>> /\ call[c].pc = "forwarding"
    BY <1>10 DEF AnswerNotFound
  <2>2. r \in CallRecord /\ r.node = call[c].node /\ r.parent = call[c].parent
          /\ r.child = call[c].child
    BY <1>1 DEF CallRecord, Answers
  <2>. HIDE DEF r
  <2> QED
    BY <1>0, <1>1, <1>2, <2>1, <2>2, UpdateCalls
<1>11. CASE WriteFails(c)
  <2>1. /\ call[c].pc = "done" /\ call[c].parent = NoCall
        /\ asker = NoAsker \/ asker.call # c
        /\ call' = [call EXCEPT ![c] = Free] /\ up' = up /\ asker' = asker
    BY <1>11 DEF WriteFails, Abandoned
  <2> QED
    BY <1>0, <1>1, <1>2, <2>1, FreeCalls
<1> QED
  BY <1>4, <1>5, <1>6, <1>7, <1>8, <1>9, <1>10, <1>11 DEF CallStep

\* Steps of threads leave the nodes and the listing alone.
LEMMA CallStepFrame ==
  ASSUME NEW c \in Calls, CallStep(c)
  PROVE  UNCHANGED <<nodeVars, listing>>
<1>. USE DEF Update, Respond
<1>1. ASSUME NEW p \in Nodes, ForwardTo(c, p) \/ ForwardRefused(c, p)
      PROVE  UNCHANGED <<nodeVars, listing>>
  BY <1>1 DEF ForwardTo, ForwardRefused
<1> QED
  BY <1>1 DEF CallStep, AnswerLocal, ReadCandidates, ForwardReply, ForwardGivenUp,
     AnswerNotFound, WriteFails

\* The end of a lookup.
LEMMA AskerCalls ==
  ASSUME TypeOK, Receive \/ ClientGivesUp
  PROVE  CallsOK' /\ UNCHANGED <<nodeVars, listing>>
<1>0. CallsOK
  BY TypeParts
<1>1. CASE Receive
  <2>. DEFINE c == asker.call
  <2>1. /\ asker # NoAsker /\ call[c].pc = "done"
        /\ call' = [call EXCEPT ![c] = Free] /\ asker' = NoAsker
        /\ UNCHANGED <<nodeVars, listing>>
    BY <1>1 DEF Receive
  <2>2. c \in Calls /\ Used(c) /\ call[c].parent = NoCall
    BY <1>0, <2>1 DEF CallsOK, AskerRecord
  <2>3. call[c].child = NoCall
    BY <1>0, <2>1, <2>2 DEF CallsOK
  <2>. HIDE DEF c
  <2> QED
    BY <1>0, <2>1, <2>2, <2>3, FreeCalls DEF nodeVars
<1>2. CASE ClientGivesUp
  BY <1>0, <1>2 DEF ClientGivesUp, CallsOK, Used, nodeVars
<1> QED
  BY <1>1, <1>2

\* A listing reads what is there.
LEMMA ListingStep ==
  ASSUME TypeOK, NEW n \in Nodes, ListCapabilities(n) \/ ListAnswer \/ ListShown
  PROVE  ListingOK' /\ UNCHANGED <<nodeVars, callVars>>
<1>0. /\ up \subseteq Nodes
      /\ table \in [Nodes -> [Nodes -> 0 .. MaxStarts]]
      /\ ListingOK
  BY TypeParts DEF NodesOK
<1>1. CASE ListCapabilities(n)
  <2>. DEFINE s == runs[n][Current(n)]
              known == UNION {KnownSkills(n, p) : p \in Nodes}
              none == [p \in Nodes |-> {}]
  <2>1. n \in up /\ UNCHANGED <<nodeVars, callVars>>
    BY <1>1 DEF ListCapabilities
  <2>2. s \in Setups
    BY <2>1, CurrentSetup
  <2>3. Skills[s] \subseteq Seq(STRING)
    BY <2>2, ShelfAssumption
  <2>4. known \subseteq Seq(STRING)
    BY AdvertisedType
  <2>5. none \in [Nodes -> SUBSET Seq(STRING)]
    OBVIOUS
  <2>6. listing' = [pc |-> "read", node |-> n, seen |-> table[n],
                    caps |-> Skills[s] \union known, rows |-> <<>>, adverts |-> none]
    BY <1>1 DEF ListCapabilities
  <2>. HIDE DEF s, known, none
  <2>7. IsListing(listing')
    BY <1>0, <2>3, <2>4, <2>5, <2>6 DEF IsListing
  <2>8. IsListing(listing)'
    BY <2>7 DEF IsListing
  <2> QED
    BY <2>1, <2>6, <2>8 DEF ListingOK, nodeVars
<1>2. CASE ListAnswer
  <2>. DEFINE adverts == [p \in Nodes |-> Advertised(listing.node, p)]
              rows == AnswerRows(Recipes(listing.node), listing.caps, adverts)
              shown == [name \in DOMAIN rows |-> Encode(rows[name])]
  <2>1. /\ listing.pc = "read" /\ UNCHANGED <<nodeVars, callVars>>
        /\ listing' = [listing EXCEPT !.pc = "answered", !.adverts = adverts, !.rows = shown]
    BY <1>2 DEF ListAnswer
  <2>2. /\ DOMAIN listing = {"pc", "node", "caps", "rows", "seen", "adverts"}
        /\ listing.node \in Nodes /\ listing.node \in up
        /\ listing.caps \subseteq Seq(STRING)
        /\ listing.seen \in [Nodes -> 0 .. MaxStarts]
    BY <1>0, <2>1 DEF ListingOK, IsListing, Free
  <2>3. adverts \in [Nodes -> SUBSET Seq(STRING)]
    BY <2>2, AdvertisedType
  <2>. HIDE DEF adverts, rows, shown
  <2>4. IsListing(listing') /\ listing'.node = listing.node
    BY <2>1, <2>2, <2>3 DEF IsListing
  <2> QED
    BY <2>1, <2>2, <2>4 DEF ListingOK, IsListing, nodeVars
<1>3. CASE ListShown
  BY <1>3 DEF ListShown, ListingOK
<1> QED
  BY <1>1, <1>2, <1>3

\* Starts, crashes and gossip leave threads and listing in order.
LEMMA NodesStepType ==
  ASSUME TypeOK, NEW n \in Nodes, NodeChanges(n)
  PROVE  TypeOK'
<1>0. NodesOK /\ CallsOK /\ ListingOK
  BY TypeParts
<1>1. NodesOK'
  BY <1>0, NodesStep
<1>2. CASE Crash(n)
  <2>1. CallsOK'
    BY <1>0, <1>2, CrashCalls
  <2>2. ListingOK'
    BY <1>0, <1>2 DEF Crash, ListingOK, IsListing
  <2> QED
    BY <1>1, <2>1, <2>2, TypeParts, PTL
<1>3. CASE up \subseteq up' /\ UNCHANGED <<callVars, listing>>
  <2>1. CallsOK'
    BY <1>0, <1>3 DEF CallsOK, Used, callVars
  <2>2. ListingOK'
    BY <1>0, <1>3 DEF ListingOK, IsListing
  <2> QED
    BY <1>1, <2>1, <2>2, TypeParts, PTL
<1> QED
  BY <1>2, <1>3 DEF NodeChanges, Start, Learn, Forget

\* What the other steps leave alone stays as it should be.
LEMMA UntouchedParts ==
  ASSUME TypeOK
  PROVE  /\ UNCHANGED nodeVars => NodesOK'
         /\ UNCHANGED <<nodeVars, listing>> => ListingOK'
         /\ UNCHANGED <<nodeVars, callVars>> => CallsOK'
<1>0. NodesOK /\ CallsOK /\ ListingOK
  BY TypeParts
<1>1. ASSUME UNCHANGED nodeVars
      PROVE  NodesOK'
  BY <1>0, <1>1 DEF NodesOK, Current, nodeVars
<1>2. ASSUME UNCHANGED <<nodeVars, listing>>
      PROVE  ListingOK'
  BY <1>0, <1>2 DEF ListingOK, IsListing, nodeVars
<1>3. ASSUME UNCHANGED <<nodeVars, callVars>>
      PROVE  CallsOK'
  BY <1>0, <1>3 DEF CallsOK, Used, nodeVars, callVars
<1> QED
  BY <1>1, <1>2, <1>3

\* Every step keeps the types.
LEMMA TypeStep ==
  ASSUME TypeOK, [Next]_vars
  PROVE  TypeOK'
<1>0. NodesOK /\ CallsOK /\ ListingOK
  BY TypeParts
<1>p. (NodesOK /\ CallsOK /\ ListingOK)' => TypeOK'
  BY TypeParts, PTL
<1>1. ASSUME NEW n \in Nodes, NodeChanges(n)
      PROVE  TypeOK'
  BY <1>1, NodesStepType
<1>2. ASSUME NEW n \in Nodes, NEW name \in Names, NEW who \in {"client", "order"},
             Ask(n, name, who)
      PROVE  TypeOK'
  <2>1. n \in up /\ UNCHANGED <<nodeVars, listing>>
    BY <1>2 DEF Ask
  <2>2. CallsOK'
    BY <1>0, <1>2, <2>1, AskCalls
  <2> QED
    BY <1>p, <2>1, <2>2, UntouchedParts
<1>3. ASSUME NEW c \in Calls, CallStep(c)
      PROVE  TypeOK'
  BY <1>3, <1>p, CallStepCalls, CallStepFrame, UntouchedParts
<1>4. CASE Receive \/ ClientGivesUp
  BY <1>4, <1>p, AskerCalls, UntouchedParts
<1>5. ASSUME NEW n \in Nodes, ListCapabilities(n) \/ ListAnswer \/ ListShown
      PROVE  TypeOK'
  BY <1>5, <1>p, ListingStep, UntouchedParts
<1>6. CASE ListAnswer \/ ListShown
  <2>1. listing # Free
    BY <1>6 DEF ListAnswer, ListShown, Free
  <2>2. listing.node \in Nodes
    BY <1>0, <2>1 DEF ListingOK, IsListing
  <2> QED
    BY <1>5, <1>6, <2>2
<1>7. CASE UNCHANGED vars
  BY <1>7, <1>p, UntouchedParts DEF vars
<1> QED
  BY <1>1, <1>2, <1>3, <1>4, <1>5, <1>6, <1>7
  DEF Next, Environment, NodeChanges, Stopped

\* The type invariant of RecipeLookup: tables describe starts that happened,
\* and a blocked thread and the thread it waits for know each other, whatever
\* stops, restarts or gives up (handle_get_recipe, forward_to_peer).
THEOREM LookupTypeCorrect == Spec => []TypeOK
<1>1. TypeOK /\ [Next]_vars => TypeOK'
  BY TypeStep
<1> QED
  BY InitType, <1>1, PTL DEF Spec
-----------------------------------------------------------------------------
(* The strengthening is inductive.                                         *)

\* The starts of a node, earlier and later.
Longer(q, s) == /\ Len(q) \in Nat /\ Len(s) \in Nat
                /\ Len(q) <= Len(s)
                /\ \A g \in 1 .. Len(q) : s[g] = q[g]

\* What a record owes to the files stays true when starts are added, but none
\* to its own node.
LEMMA RecordStays ==
  ASSUME NEW r \in CallRecord, NEW q, NEW rs, NEW ss,
         \A p \in Nodes : Longer(rs[p], ss[p]),
         ss[r.node] = rs[r.node],
         q.pc = r.pc, q.node = r.node, q.name = r.name, q.entry = r.entry,
         q.cands = r.cands, q.seen = r.seen, q.lost = r.lost, q.via = r.via,
         q.answer = r.answer,
         Reasoned(r, rs), Justified(r, rs)
  PROVE  Reasoned(q, ss) /\ Justified(q, ss)
<1>1. /\ r.node \in Nodes /\ r.via \in Nodes \union {NoCall}
      /\ r.seen \in [Nodes -> 0 .. MaxStarts]
      /\ \A p \in Nodes : r.seen[p] \in Nat
  <2>1. /\ r.node \in Nodes /\ r.via \in Nodes \union {NoCall}
        /\ r.seen \in [Nodes -> 0 .. MaxStarts]
    BY DEF CallRecord
  <2>2. \A p \in Nodes : r.seen[p] \in 0 .. MaxStarts
    BY <2>1
  <2> QED
    BY <2>1, <2>2
<1>2. ASSUME NEW p \in Nodes, NEW g, Has(rs, p, g, r.name)
      PROVE  Has(ss, p, g, r.name)
  <2>1. g \in 1 .. Len(rs[p]) /\ r.name \in NamesOf(rs[p][g])
    BY <1>2 DEF Has
  <2>2. Longer(rs[p], ss[p])
    OBVIOUS
  <2>3. g \in 1 .. Len(ss[p]) /\ ss[p][g] = rs[p][g]
    BY <2>1, <2>2 DEF Longer
  <2> QED
    BY <2>1, <2>3 DEF Has
<1>3. Reasoned(q, ss)
  <2>1. q.entry # 0 => Has(ss, q.node, q.entry, q.name)
    BY <1>1, <1>2 DEF Reasoned
  <2>2. \A p \in Nodes : q.seen[p] # 0 => Has(ss, p, q.seen[p], q.name)
    BY <1>2 DEF Reasoned
  <2>3. Has(ss, q.node, Len(ss[q.node]), q.name) <=> Has(rs, r.node, Len(rs[r.node]), r.name)
    BY DEF Has
  <2> QED
    BY <2>1, <2>2, <2>3 DEF Reasoned
<1>. USE DEF Longer
<1>4. ASSUME r.answer = NotFound
      PROVE  \/ \A p \in Nodes : r.seen[p] = 0
             \/ r.lost
             \/ r.via # NoCall /\ r.seen[r.via] < Len(ss[r.via])
  <2>1. CASE r.via # NoCall /\ r.seen[r.via] < Len(rs[r.via])
    <3>1. r.via \in Nodes
      BY <1>1, <2>1
    <3>2. r.seen[r.via] \in Nat /\ Len(rs[r.via]) <= Len(ss[r.via])
            /\ Len(rs[r.via]) \in Nat /\ Len(ss[r.via]) \in Nat
      BY <1>1, <3>1
    <3> QED
      BY <2>1, <3>2
  <2> QED
    BY <1>4, <2>1 DEF Justified
<1>5. ASSUME r.answer.kind = "RecipeAnswer"
      PROVE  \E p \in Nodes : \E g \in 1 .. Len(ss[p]) :
               Serves(ss[p][g], r.name, r.answer.source)
  <2>0. PICK p \in Nodes : \E g \in 1 .. Len(rs[p]) :
          Serves(rs[p][g], r.name, r.answer.source)
    BY <1>5 DEF Justified
  <2>1. PICK g \in 1 .. Len(rs[p]) : Serves(rs[p][g], r.name, r.answer.source)
    BY <2>0
  <2>2. Longer(rs[p], ss[p])
    OBVIOUS
  <2>3. g \in 1 .. Len(ss[p]) /\ ss[p][g] = rs[p][g]
    BY <2>2
  <2> QED
    BY <2>1, <2>3
<1> QED
  BY <1>3, <1>4, <1>5 DEF Justified

\* Starts, crashes and gossip.
LEMMA ReasonsGrow ==
  ASSUME TypeOK, Reasons, NEW n \in Nodes, NodeChanges(n)
  PROVE  Reasons'
<1>0. NodesOK /\ CallsOK
  BY TypeParts
<1>1. ASSUME NEW p \in Nodes
      PROVE  Longer(runs[p], runs'[p]) /\ (p \in up => runs'[p] = runs[p])
  <2>1. ASSUME NEW s \in Offered, Start(n, s)
        PROVE  Longer(runs[p], runs'[p]) /\ (p \in up => runs'[p] = runs[p])
    BY <1>0, <2>1, StartsStay DEF Longer
  <2>2. CASE runs' = runs
    BY <1>0, <2>2, LenProperties DEF NodesOK, Longer
  <2> QED
    BY <2>1, <2>2 DEF NodeChanges, Crash, Learn, Forget
<1>2. ASSUME NEW c \in Calls, Used(c)'
      PROVE  /\ Used(c)
             /\ call'[c].pc = call[c].pc /\ call'[c].node = call[c].node
             /\ call'[c].name = call[c].name /\ call'[c].entry = call[c].entry
             /\ call'[c].cands = call[c].cands /\ call'[c].seen = call[c].seen
             /\ call'[c].lost = call[c].lost /\ call'[c].via = call[c].via
             /\ call'[c].answer = call[c].answer
             /\ call'[c].child \in {call[c].child, NoCall}
  <2>1. CASE call' = call
    BY <1>2, <2>1 DEF Used
  <2>2. CASE Crash(n)
    <3>. DEFINE dead == {d \in Calls : Used(d) /\ call[d].node = n}
                r == [call[c] EXCEPT !.child = IF @ \in dead THEN NoCall ELSE @,
                                     !.parent = IF @ \in dead THEN NoCall ELSE @]
    <3>1. call'[c] = IF c \in dead \/ ~Used(c) THEN Free ELSE r
      BY <2>2 DEF Crash
    <3>2. call'[c] = r /\ Used(c)
      BY <1>2, <3>1 DEF Used
    <3>3. call[c] \in CallRecord
      BY <3>2, UsedCall
    <3>. HIDE DEF dead
    <3> QED
      BY <3>2, <3>3 DEF CallRecord
  <2> QED
    BY <2>1, <2>2 DEF NodeChanges, Start, Learn, Forget, callVars
<1>3. ASSUME NEW c \in Calls, Used(c)'
      PROVE  Reasoned(call'[c], runs') /\ Justified(call'[c], runs')
  <2>1. /\ Used(c) /\ call[c] \in CallRecord
        /\ Reasoned(call[c], runs) /\ Justified(call[c], runs)
    BY <1>2, <1>3, UsedCall DEF Reasons
  <2>2. runs'[call[c].node] = runs[call[c].node]
    BY <1>0, <1>1, <2>1 DEF CallsOK, NodesOK
  <2>3. /\ call'[c].pc = call[c].pc /\ call'[c].node = call[c].node
        /\ call'[c].name = call[c].name /\ call'[c].entry = call[c].entry
        /\ call'[c].cands = call[c].cands /\ call'[c].seen = call[c].seen
        /\ call'[c].lost = call[c].lost /\ call'[c].via = call[c].via
        /\ call'[c].answer = call[c].answer
    BY <1>2, <1>3
  <2>4. \A p \in Nodes : Longer(runs[p], runs'[p])
    BY <1>1
  <2> QED
    BY <2>1, <2>2, <2>3, <2>4, RecordStays
<1>t. TypeOK'
  BY NodesStepType
<1>4. ASSUME NEW c \in Calls, Used(c)', call'[c].child # NoCall
      PROVE  Sent(call'[c], call'[call'[c].child])
  <2>1. Used(c) /\ call'[c].child = call[c].child /\ call[c] \in CallRecord
    BY <1>2, <1>4, UsedCall
  <2>2. call[c].child \in Calls
    BY <1>4, <2>1 DEF CallRecord
  <2>3. Used(call[c].child)'
    BY <1>t, <1>4, <2>1, <2>2 DEF TypeOK
  <2>4. Sent(call[c], call[call[c].child])
    BY <1>4, <2>1 DEF Reasons
  <2> QED
    BY <1>2, <1>4, <2>1, <2>2, <2>3, <2>4 DEF Sent
<1> QED
  BY <1>3, <1>4 DEF Reasons

\* Records that differ in their parent at most.
Same(r, q) == /\ q.pc = r.pc /\ q.node = r.node /\ q.name = r.name
              /\ q.entry = r.entry /\ q.cands = r.cands /\ q.seen = r.seen
              /\ q.lost = r.lost /\ q.via = r.via /\ q.answer = r.answer
              /\ q.child = r.child

\* The threads a step leaves alone keep their reasons, when those it changes
\* keep what their parents sent.
LEMMA ReasonsOfOthers ==
  ASSUME TypeOK, TypeOK', Reasons, runs' = runs,
         \A e \in Calls : Used(e)' =>
           \/ Used(e) /\ Same(call[e], call'[e])
           \/ /\ Reasoned(call'[e], runs) /\ Justified(call'[e], runs)
              /\ call'[e].child # NoCall => Sent(call'[e], call'[call'[e].child]),
         \A e \in Calls : (Used(e) /\ Used(e)') =>
           /\ call'[e].name = call[e].name
           /\ call'[e].node = call[e].node
           /\ call'[e].entry = call[e].entry
  PROVE  Reasons'
<1>1. ASSUME NEW e \in Calls, Used(e)', Used(e), Same(call[e], call'[e]),
             call'[e].child # NoCall
      PROVE  Sent(call'[e], call'[call'[e].child])
  <2>0. call[e].child \in Calls /\ call'[e].child = call[e].child
    BY <1>1, UsedCall DEF CallRecord, Same
  <2>1. PICK f \in Calls : f = call[e].child
    BY <2>0
  <2>2. Used(f) /\ Used(f)'
    BY <1>1, <2>0, <2>1 DEF TypeOK
  <2>3. Sent(call[e], call[f])
    BY <1>1, <2>0, <2>1 DEF Reasons
  <2>4. /\ call'[f].name = call[f].name
        /\ call'[f].node = call[f].node
        /\ call'[f].entry = call[f].entry
    BY <2>1, <2>2
  <2>5. Sent(call[e], call'[f])
    BY <2>3, <2>4 DEF Sent
  <2> QED
    BY <1>1, <2>0, <2>1, <2>5 DEF Sent, Same
<1>2. ASSUME NEW e \in Calls, Used(e)', Used(e), Same(call[e], call'[e])
      PROVE  Reasoned(call'[e], runs) /\ Justified(call'[e], runs)
  <2>1. Reasoned(call[e], runs) /\ Justified(call[e], runs)
    BY <1>2 DEF Reasons
  <2> QED
    BY <1>2, <2>1 DEF Reasoned, Justified, Same
<1>3. ASSUME NEW e \in Calls, Used(e)'
      PROVE  /\ Reasoned(call'[e], runs) /\ Justified(call'[e], runs)
             /\ call'[e].child # NoCall => Sent(call'[e], call'[call'[e].child])
  BY <1>1, <1>2, <1>3
<1> QED
  BY <1>3 DEF Reasons

\* One thread goes on and waits for nobody.
LEMMA ReasonsUpdate ==
  ASSUME TypeOK, TypeOK', Reasons, NEW c \in Calls, Used(c), NEW r,
         call' = [call EXCEPT ![c] = r], runs' = runs,
         r.node = call[c].node, r.name = call[c].name, r.entry = call[c].entry,
         r.child = NoCall,
         Reasoned(r, runs), Justified(r, runs)
  PROVE  Reasons'
<1>1. /\ call'[c] = r
      /\ \A e \in Calls \ {c} : call'[e] = call[e] /\ (Used(e)' => Used(e))
  BY DEF TypeOK, Used
<1> QED
  BY <1>1, ReasonsOfOthers DEF Same

\* A thread ends.
LEMMA ReasonsFree ==
  ASSUME TypeOK, TypeOK', Reasons, NEW c \in Calls,
         call' = [call EXCEPT ![c] = Free], runs' = runs
  PROVE  Reasons'
<1>1. /\ ~Used(c)'
      /\ \A e \in Calls \ {c} : call'[e] = call[e] /\ (Used(e)' => Used(e))
  BY DEF TypeOK, Used
<1> QED
  BY <1>1, ReasonsOfOthers DEF Same

\* A local answer is the first recipe under the name.
LEMMA ReasonsLocal ==
  ASSUME TypeOK, TypeOK', Reasons, NEW c \in Calls, CallStep(c), AnswerLocal(c)
  PROVE  Reasons'
<1>. DEFINE n == call[c].node
            a == Found(SourceOf(n, call[c].name))
            r == [call[c] EXCEPT !.pc = "done", !.answer = a]
<1>1. /\ Used(c) /\ call[c] \in CallRecord /\ n \in Nodes /\ n \in up
      /\ call[c].pc = "asked" /\ call[c].child = NoCall /\ Holds(n, call[c].name)
  BY StepUsed DEF AnswerLocal
<1>2. call' = [call EXCEPT ![c] = r] /\ runs' = runs
  BY DEF AnswerLocal, Respond, Update, nodeVars
<1>3. Serves(runs[n][Current(n)], call[c].name, SourceOf(n, call[c].name))
  BY <1>1, FirstUnderName
<1>4. Current(n) \in 1 .. Len(runs[n])
  <2>1. Current(n) \in 1 .. MaxStarts
    BY <1>1, CurrentType
  <2> QED
    BY <2>1 DEF Current
<1>5. /\ r.pc = "done" /\ r.answer = a /\ r.node = n /\ r.name = call[c].name
      /\ r.entry = call[c].entry /\ r.seen = call[c].seen /\ r.cands = call[c].cands
      /\ r.child = NoCall
  BY <1>1 DEF CallRecord
<1>6. a.kind = "RecipeAnswer" /\ a # NotFound /\ a.source = SourceOf(n, call[c].name)
  BY DEF Found, NotFound
<1>. HIDE DEF n, a, r
<1>7. Reasoned(call[c], runs)
  BY <1>1 DEF Reasons
<1>8. Reasoned(r, runs)
  BY <1>5, <1>6, <1>7 DEF Reasoned, n
<1>9. Justified(r, runs)
  BY <1>1, <1>3, <1>4, <1>5, <1>6 DEF Justified
<1> QED
  BY <1>1, <1>2, <1>5, <1>8, <1>9, ReasonsUpdate DEF n

\* Candidates are those whose entry has the name, and the entry is remembered.
LEMMA ReasonsCandidates ==
  ASSUME TypeOK, TypeOK', Reasons, NEW c \in Calls, CallStep(c), ReadCandidates(c)
  PROVE  Reasons'
<1>. DEFINE n == call[c].node
            cands == Candidates(n, call[c].name)
            seen == [p \in Nodes |-> IF p \in cands THEN table[n][p] ELSE 0]
            r == [call[c] EXCEPT !.pc = "forwarding", !.cands = cands, !.seen = seen]
<1>1. /\ Used(c) /\ call[c] \in CallRecord /\ n \in Nodes /\ n \in up
      /\ call[c].pc = "asked" /\ call[c].child = NoCall /\ ~Holds(n, call[c].name)
  BY StepUsed DEF ReadCandidates
<1>2. call' = [call EXCEPT ![c] = r] /\ runs' = runs
  BY DEF ReadCandidates, Update, nodeVars
<1>3. ASSUME NEW p \in Nodes
      PROVE  /\ seen[p] # 0 => p \in cands /\ Has(runs, p, seen[p], call[c].name)
             /\ p \in cands => seen[p] # 0
  <2>1. p \in cands => /\ table[n][p] # 0
                       /\ call[c].name \in NamesOf(runs[p][table[n][p]])
    BY DEF Candidates, Advertised
  <2>2. table[n][p] # 0 => table[n][p] \in 1 .. Len(runs[p])
    BY <1>1, AdvertisedType DEF Current
  <2>. HIDE DEF cands, n
  <2> QED
    BY <2>1, <2>2 DEF Has
<1>4. cands \subseteq Nodes
  BY DEF Candidates
<1>5. ~Has(runs, n, Len(runs[n]), call[c].name)
  BY <1>1 DEF Has, Holds, Current
<1>6. Reasoned(call[c], runs)
  BY <1>1 DEF Reasons
<1>. HIDE DEF seen, cands, n
<1>7. /\ r.pc = "forwarding" /\ r.answer = call[c].answer /\ r.node = call[c].node
      /\ r.name = call[c].name /\ r.entry = call[c].entry
      /\ r.seen = seen /\ r.cands = cands /\ r.child = NoCall
  BY <1>1 DEF CallRecord
<1>. HIDE DEF r
<1>8. r.answer = NoAnswer
  BY <1>1, <1>6, <1>7 DEF Reasoned
<1>9. Reasoned(r, runs)
  BY <1>3, <1>4, <1>5, <1>6, <1>7, <1>8 DEF Reasoned, n
<1>10. Justified(r, runs)
  BY <1>8 DEF Justified, NoAnswer, NotFound
<1> QED
  BY <1>1, <1>2, <1>7, <1>9, <1>10, ReasonsUpdate

\* A candidate that cannot be reached is a cause.
LEMMA ReasonsRefused ==
  ASSUME TypeOK, TypeOK', Reasons, NEW c \in Calls, CallStep(c),
         NEW p \in Nodes, ForwardRefused(c, p)
  PROVE  Reasons'
<1>. DEFINE r == [call[c] EXCEPT !.cands = @ \ {p}, !.lost = TRUE]
<1>1. /\ Used(c) /\ call[c] \in CallRecord
      /\ call[c].pc = "forwarding" /\ call[c].child = NoCall
  BY StepUsed DEF ForwardRefused
<1>2. call' = [call EXCEPT ![c] = r] /\ runs' = runs
  BY DEF ForwardRefused, Update, nodeVars
<1>3. /\ r.pc = "forwarding" /\ r.answer = call[c].answer /\ r.node = call[c].node
      /\ r.name = call[c].name /\ r.entry = call[c].entry /\ r.lost
      /\ r.seen = call[c].seen /\ r.cands = call[c].cands \ {p} /\ r.child = NoCall
  BY <1>1 DEF CallRecord
<1>. HIDE DEF r
<1>4. Reasoned(call[c], runs)
  BY <1>1 DEF Reasons
<1>5. Reasoned(r, runs)
  BY <1>1, <1>3, <1>4 DEF Reasoned
<1>6. r.answer = NoAnswer
  BY <1>3, <1>5 DEF Reasoned
<1>7. Justified(r, runs)
  BY <1>6 DEF Justified, NoAnswer, NotFound
<1> QED
  BY <1>1, <1>2, <1>3, <1>5, <1>7, ReasonsUpdate

\* Nothing is found when nobody is left to be tried: there was nobody, or a
\* connection failed.
LEMMA ReasonsNotFound ==
  ASSUME TypeOK, TypeOK', Reasons, NEW c \in Calls, CallStep(c), AnswerNotFound(c)
  PROVE  Reasons'
<1>. DEFINE r == [call[c] EXCEPT !.pc = "done", !.answer = NotFound]
<1>1. /\ Used(c) /\ call[c] \in CallRecord /\ call[c].cands = {}
      /\ call[c].pc = "forwarding" /\ call[c].child = NoCall
  BY StepUsed DEF AnswerNotFound
<1>2. call' = [call EXCEPT ![c] = r] /\ runs' = runs
  BY DEF AnswerNotFound, Respond, Update, nodeVars
<1>3. /\ r.pc = "done" /\ r.answer = NotFound /\ r.node = call[c].node
      /\ r.name = call[c].name /\ r.entry = call[c].entry /\ r.lost = call[c].lost
      /\ r.seen = call[c].seen /\ r.cands = call[c].cands /\ r.child = NoCall
  BY <1>1 DEF CallRecord
<1>. HIDE DEF r
<1>4. Reasoned(call[c], runs)
  BY <1>1 DEF Reasons
<1>5. Reasoned(r, runs)
  BY <1>1, <1>3, <1>4 DEF Reasoned
<1>6. r.lost \/ \A p \in Nodes : r.seen[p] = 0
  BY <1>1, <1>3, <1>4 DEF Reasoned, CallRecord
<1>7. r.answer.kind # "RecipeAnswer"
  BY <1>3 DEF NotFound
<1> QED
  BY <1>1, <1>2, <1>3, <1>5, <1>6, <1>7, ReasonsUpdate DEF Justified

\* A forwarded request is about what its parent saw.
LEMMA ReasonsForward ==
  ASSUME TypeOK, TypeOK', Reasons, NEW c \in Calls, CallStep(c),
         NEW p \in Nodes, ForwardTo(c, p)
  PROVE  Reasons'
<1>1. PICK d \in Calls :
        /\ IsNext(d)
        /\ call' = [call EXCEPT
                      ![c].pc = "awaiting", ![c].child = d, ![c].cands = @ \ {p},
                      ![d] = NewCall(p, call[c].name, c, call[c].seen[p])]
  BY DEF ForwardTo
<1>. DEFINE q == NewCall(p, call[c].name, c, call[c].seen[p])
            r == [call[c] EXCEPT !.pc = "awaiting", !.child = d, !.cands = @ \ {p}]
<1>2. /\ Used(c) /\ call[c] \in CallRecord /\ call[c].pc = "forwarding"
      /\ p \in call[c].cands /\ ~Used(d) /\ c # d
  BY <1>1, StepUsed DEF ForwardTo, IsNext
<1>3. runs' = runs
  BY DEF ForwardTo, nodeVars
<1>4. /\ r.pc = "awaiting" /\ r.answer = call[c].answer /\ r.node = call[c].node
      /\ r.name = call[c].name /\ r.entry = call[c].entry
      /\ r.seen = call[c].seen /\ r.cands = call[c].cands \ {p} /\ r.child = d
  BY <1>2 DEF CallRecord
<1>5. /\ q.pc = "asked" /\ q.answer = NoAnswer /\ q.node = p
      /\ q.name = call[c].name /\ q.entry = call[c].seen[p]
      /\ q.seen = [x \in Nodes |-> 0] /\ q.cands = {} /\ q.child = NoCall
  BY DEF NewCall
<1>6. /\ call'[c] = r /\ call'[d] = q
      /\ \A e \in Calls \ {c, d} : call'[e] = call[e]
  <2>1. call = [e \in Calls |-> call[e]]
    BY DEF TypeOK
  <2> QED
    BY <1>1, <1>2, <2>1
<1>. HIDE DEF q, r
<1>7. Reasoned(call[c], runs)
  BY <1>2 DEF Reasons
<1>8. Reasoned(r, runs) /\ r.answer = NoAnswer
  BY <1>2, <1>4, <1>7 DEF Reasoned
<1>9. Reasoned(q, runs)
  BY <1>5, <1>7 DEF Reasoned, NoAnswer, NotFound
<1>10. Justified(r, runs) /\ Justified(q, runs)
  BY <1>5, <1>8 DEF Justified, NoAnswer, NotFound
<1>11. Sent(r, q)
  BY <1>2, <1>4, <1>5, <1>7 DEF Sent, Reasoned
<1>12. \A e \in Calls \ {c, d} : Used(e)' => Used(e)
  BY <1>6 DEF Used
<1> QED
  BY <1>2, <1>3, <1>4, <1>5, <1>6, <1>8, <1>9, <1>10, <1>11, <1>12, ReasonsOfOthers DEF Same

\* An answer is passed on with its reasons: a peer that was tried for what its
\* entry says, and has nothing, has restarted.
LEMMA ReasonsReply ==
  ASSUME TypeOK, TypeOK', Reasons, NEW c \in Calls, CallStep(c), ForwardReply(c)
  PROVE  Reasons'
<1>0. /\ Used(c) /\ call[c] \in CallRecord
      /\ call[c].pc = "awaiting" /\ call[c].child # NoCall
  BY StepUsed DEF ForwardReply
<1>1. PICK d \in Calls : d = call[c].child
  BY <1>0 DEF CallRecord
<1>. DEFINE r == [call[c] EXCEPT !.pc = "done", !.child = NoCall,
                                 !.via = call[d].node, !.answer = call[d].answer]
<1>2. /\ Used(d) /\ call[d] \in CallRecord /\ d # c /\ call[d].pc = "done"
      /\ call[d].node \in Nodes
  <2>1. Used(d) /\ d # c
    BY <1>0, <1>1 DEF TypeOK
  <2> QED
    BY <1>1, <2>1, UsedCall DEF ForwardReply, CallRecord
<1>3. /\ runs' = runs
      /\ call' = [call EXCEPT ![c] = r, ![d] = Free]
  <2>1. call = [e \in Calls |-> call[e]]
    BY DEF TypeOK
  <2> QED
    BY <1>1, <1>2, <2>1 DEF ForwardReply, nodeVars
<1>4. /\ r.pc = "done" /\ r.answer = call[d].answer /\ r.node = call[c].node
      /\ r.name = call[c].name /\ r.entry = call[c].entry
      /\ r.seen = call[c].seen /\ r.cands = call[c].cands
      /\ r.via = call[d].node /\ r.child = NoCall
  BY <1>0 DEF CallRecord
<1>. HIDE DEF r
<1>5. /\ call'[c] = r /\ ~Used(d)'
      /\ \A e \in Calls \ {c, d} : call'[e] = call[e] /\ (Used(e)' => Used(e))
  BY <1>2, <1>3 DEF TypeOK, Used
<1>6. /\ Reasoned(call[c], runs)
      /\ Reasoned(call[d], runs) /\ Justified(call[d], runs)
      /\ Sent(call[c], call[d])
  BY <1>0, <1>1, <1>2 DEF Reasons
<1>7. Reasoned(r, runs)
  BY <1>0, <1>4, <1>6 DEF Reasoned
<1>8. ASSUME r.answer = NotFound
      PROVE  r.via # NoCall /\ r.seen[r.via] < Len(runs[r.via])
  <2>. DEFINE n == call[d].node
              g == call[c].seen[n]
  <2>1. Has(runs, n, g, call[d].name)
    BY <1>6 DEF Sent, Reasoned
  <2>2. ~Has(runs, n, Len(runs[n]), call[d].name)
    BY <1>4, <1>6, <1>8 DEF Reasoned
  <2>3. g \in 1 .. Len(runs[n]) /\ g # Len(runs[n])
    BY <2>1, <2>2 DEF Has
  <2>4. Len(runs[n]) \in Nat /\ n # NoCall
    BY <1>2, CurrentType DEF Current, NoCall
  <2>. HIDE DEF n, g
  <2>5. g < Len(runs[n])
    BY <2>3, <2>4
  <2> QED
    BY <1>4, <2>4, <2>5 DEF n, g
<1>9. ASSUME r.answer.kind = "RecipeAnswer"
      PROVE  \E p \in Nodes : \E g \in 1 .. Len(runs[p]) :
               Serves(runs[p][g], r.name, r.answer.source)
  BY <1>4, <1>6, <1>9 DEF Justified, Sent
<1>10. Justified(r, runs)
  BY <1>8, <1>9 DEF Justified
<1> QED
  BY <1>3, <1>4, <1>5, <1>7, <1>10, <1>0, ReasonsOfOthers DEF Same

\* A forward that is given up is a cause; the request that was forwarded keeps
\* its reasons without its parent.
LEMMA ReasonsGivenUp ==
  ASSUME TypeOK, TypeOK', Reasons, NEW c \in Calls, CallStep(c), ForwardGivenUp(c)
  PROVE  Reasons'
<1>. DEFINE r == [call[c] EXCEPT !.pc = "forwarding", !.lost = TRUE, !.child = NoCall]
            Q(e) == [call[e] EXCEPT !.parent = NoCall]
<1>1. /\ Used(c) /\ call[c] \in CallRecord /\ call[c].pc = "awaiting"
  BY StepUsed DEF ForwardGivenUp
<1>2. /\ runs' = runs
      /\ call'[c] = r
      /\ \A e \in Calls \ {c} : call'[e] \in {call[e], Q(e)}
  BY DEF ForwardGivenUp, nodeVars
<1>3. /\ r.pc = "forwarding" /\ r.answer = call[c].answer /\ r.node = call[c].node
      /\ r.name = call[c].name /\ r.entry = call[c].entry /\ r.lost
      /\ r.seen = call[c].seen /\ r.cands = call[c].cands /\ r.child = NoCall
  BY <1>1 DEF CallRecord
<1>4. ASSUME NEW e \in Calls, Used(e)
      PROVE  /\ Q(e).pc = call[e].pc /\ Q(e).answer = call[e].answer
             /\ Q(e).node = call[e].node /\ Q(e).name = call[e].name
             /\ Q(e).entry = call[e].entry /\ Q(e).lost = call[e].lost
             /\ Q(e).seen = call[e].seen /\ Q(e).cands = call[e].cands
             /\ Q(e).via = call[e].via /\ Q(e).child = call[e].child
  BY <1>4, UsedCall DEF CallRecord
<1>5. ASSUME NEW e \in Calls, Used(e)'
      PROVE  Used(e)
  <2>1. call[c].child = e => Used(e)
    BY <1>1 DEF TypeOK
  <2>2. e \notin {c, call[c].child} => call'[e] = call[e]
    BY DEF ForwardGivenUp
  <2> QED
    BY <1>1, <1>5, <2>1, <2>2 DEF Used
<1>. HIDE DEF r, Q
<1>6. Reasoned(call[c], runs)
  BY <1>1 DEF Reasons
<1>7. Reasoned(r, runs) /\ r.answer = NoAnswer
  BY <1>1, <1>3, <1>6 DEF Reasoned
<1>8. Justified(r, runs)
  BY <1>7 DEF Justified, NoAnswer, NotFound
<1>9. \A e \in Calls \ {c} : Used(e)' => Used(e) /\ Same(call[e], call'[e])
  BY <1>2, <1>4, <1>5 DEF Same
<1>10. \A e \in Calls : (Used(e) /\ Used(e)') =>
           /\ call'[e].name = call[e].name
           /\ call'[e].node = call[e].node
           /\ call'[e].entry = call[e].entry
  BY <1>2, <1>3, <1>9 DEF Same
<1> QED
  BY <1>2, <1>3, <1>7, <1>8, <1>9, <1>10, ReasonsOfOthers

\* A request comes from outside, for no entry.
LEMMA ReasonsAsk ==
  ASSUME TypeOK, TypeOK', Reasons, NEW n \in Nodes, NEW name \in Names,
         NEW who \in {"client", "order"}, Ask(n, name, who)
  PROVE  Reasons'
<1>1. PICK c \in Calls :
        /\ IsNext(c)
        /\ call' = [call EXCEPT ![c] = NewCall(n, name, NoCall, 0)]
  BY DEF Ask
<1>. DEFINE r == NewCall(n, name, NoCall, 0)
<1>2. runs' = runs /\ ~Used(c)
  BY <1>1 DEF Ask, nodeVars, IsNext
<1>3. /\ r.pc = "asked" /\ r.answer = NoAnswer /\ r.entry = 0
      /\ r.seen = [x \in Nodes |-> 0] /\ r.cands = {} /\ r.child = NoCall
  BY DEF NewCall
<1>4. /\ call'[c] = r
      /\ \A e \in Calls \ {c} : call'[e] = call[e] /\ (Used(e)' => Used(e))
  BY <1>1 DEF TypeOK, Used
<1>. HIDE DEF r
<1>5. Reasoned(r, runs) /\ Justified(r, runs)
  BY <1>3 DEF Reasoned, Justified, NoAnswer, NotFound
<1> QED
  BY <1>2, <1>3, <1>4, <1>5, ReasonsOfOthers DEF Same

\* Every step keeps the reasons.
LEMMA ReasonsStep ==
  ASSUME TypeOK, TypeOK', Reasons, [Next]_vars
  PROVE  Reasons'
<1>1. ASSUME NEW n \in Nodes, NodeChanges(n)
      PROVE  Reasons'
  BY <1>1, ReasonsGrow
<1>2. ASSUME NEW n \in Nodes, NEW name \in Names, NEW who \in {"client", "order"},
             Ask(n, name, who)
      PROVE  Reasons'
  BY <1>2, ReasonsAsk
<1>3. ASSUME NEW c \in Calls, CallStep(c)
      PROVE  Reasons'
  <2>1. ASSUME NEW p \in Nodes, ForwardTo(c, p) \/ ForwardRefused(c, p)
        PROVE  Reasons'
    BY <1>3, <2>1, ReasonsForward, ReasonsRefused
  <2>2. CASE WriteFails(c)
    BY <1>3, <2>2, ReasonsFree DEF WriteFails, Update, nodeVars
  <2> QED
    BY <1>3, <2>1, <2>2, ReasonsLocal, ReasonsCandidates, ReasonsReply,
       ReasonsGivenUp, ReasonsNotFound DEF CallStep
<1>4. CASE Receive
  <2>1. asker.call \in Calls
    BY <1>4 DEF Receive, TypeOK, AskerRecord
  <2> QED
    BY <1>4, <2>1, ReasonsFree DEF Receive, nodeVars
<1>5. CASE call' = call /\ runs' = runs
  BY <1>5 DEF Reasons, Used
<1>6. CASE \/ ClientGivesUp \/ ListAnswer \/ ListShown \/ UNCHANGED vars
           \/ \E n \in Nodes : ListCapabilities(n)
  BY <1>5, <1>6 DEF ClientGivesUp, ListAnswer, ListShown, ListCapabilities,
     vars, nodeVars, callVars
<1> QED
  BY <1>1, <1>2, <1>3, <1>4, <1>6
  DEF Next, Environment, NodeChanges, Stopped

\* The strengthening is an invariant.
LEMMA ReasonsHold == Spec => []Reasons
<1>1. Init => Reasons
  BY DEF Init, Reasons, Used
<1>2. TypeOK /\ TypeOK' /\ Reasons /\ [Next]_vars => Reasons'
  BY ReasonsStep
<1> QED
  BY <1>1, <1>2, LookupTypeCorrect, PTL DEF Spec

\* A recipe that comes back is the text which some node's file has first under
\* that name, through whatever nodes the request went, and whoever restarted
\* in the meantime (handle_get_recipe, try_forward_get_recipe).
THEOREM AnswersAreHeld == Spec => []AnswerIsAHeldRecipe
<1>1. Reasons => AnswerIsAHeldRecipe
  BY DEF Reasons, Justified, AnswerIsAHeldRecipe, Current
<1> QED
  BY <1>1, ReasonsHold, PTL

\* "no peer advertised it" is said when the table named nobody, when a peer
\* could not be reached in time, or when the peer whose error was passed on has
\* restarted since the announce that named it (handle_get_recipe).
THEOREM NotFoundIsCaused == Spec => []NotFoundHasACause
<1>1. Reasons => NotFoundHasACause
  BY DEF Reasons, Justified, NotFoundHasACause, Current
<1> QED
  BY <1>1, ReasonsHold, PTL

\* A forwarded request is forwarded again only by a node that has restarted
\* since the announce that named it: with current tables no request takes a
\* second hop, so none circulates (handle_get_recipe, forward_to_peer).
THEOREM DetoursAreStale == Spec => []OnlyStaleEntriesMakeDetours
<1>1. ASSUME TypeOK, Reasons
      PROVE  OnlyStaleEntriesMakeDetours
  <2>1. ASSUME NEW c \in Calls, Used(c), call[c].pc \in {"forwarding", "awaiting"},
               call[c].entry # 0
        PROVE  call[c].entry < Current(call[c].node)
    <3>. DEFINE n == call[c].node
                g == call[c].entry
    <3>1. Has(runs, n, g, call[c].name) /\ ~Has(runs, n, Len(runs[n]), call[c].name)
      BY <1>1, <2>1 DEF Reasons, Reasoned
    <3>2. Len(runs[n]) \in Nat
      BY <1>1, <2>1, UsedCall, CurrentType DEF CallRecord, Current
    <3>3. g \in 1 .. Len(runs[n]) /\ g # Len(runs[n])
      BY <3>1 DEF Has
    <3>. HIDE DEF n, g
    <3>4. g < Len(runs[n])
      BY <3>2, <3>3
    <3> QED
      BY <3>4 DEF n, g, Current
  <2> QED
    BY <2>1 DEF OnlyStaleEntriesMakeDetours
<1> QED
  BY <1>1, LookupTypeCorrect, ReasonsHold, PTL

-----------------------------------------------------------------------------
(* What a listing says.                                                    *)

\* A set of positions that is not empty has a last one.
LEMMA LastNumber ==
  ASSUME NEW n \in Nat, NEW I, I \subseteq 1 .. n, I # {}
  PROVE  Max(I) \in I
<1>. DEFINE J == {n - i : i \in I}
<1>1. J \subseteq Nat /\ J # {}
  <2>1. \A i \in I : n - i \in Nat
    OBVIOUS
  <2> QED
    BY <2>1
<1>2. Min(J) \in J /\ \A j \in J : Min(J) <= j
  BY <1>1, LeastNumber
<1>3. PICK m \in I : Min(J) = n - m
  BY <1>2
<1>4. ASSUME NEW i \in I
      PROVE  m >= i
  <2>1. n - i \in J /\ i \in Int /\ m \in Int
    OBVIOUS
  <2>2. n - m <= n - i
    BY <1>2, <1>3, <2>1
  <2> QED
    BY <2>1, <2>2
<1> QED
  BY <1>4 DEF Max

\* The positions of a finite set of numbers, counted: each has its own rank, and
\* each rank is taken.
LEMMA RanksAreTaken ==
  ASSUME NEW n \in Nat, NEW I, I \subseteq 1 .. n
  PROVE  LET rank(i) == Cardinality({j \in I : j <= i}) IN
         /\ Cardinality(I) \in Nat
         /\ \A i \in I : rank(i) \in 1 .. Cardinality(I)
         /\ \A i, j \in I : rank(i) = rank(j) => i = j
         /\ \A k \in 1 .. Cardinality(I) : \E i \in I : rank(i) = k
<1>. DEFINE upTo(i) == {j \in I : j <= i}
            rank(i) == Cardinality(upTo(i))
            f == [i \in I |-> rank(i)]
            N == Cardinality(I)
<1>1. IsFiniteSet(I) /\ N \in Nat
  <2>1. IsFiniteSet(1 .. n)
    BY FS_Interval
  <2> QED
    BY <2>1, FS_Subset, FS_CardinalityType
<1>2. ASSUME NEW i \in I
      PROVE  IsFiniteSet(upTo(i)) /\ rank(i) \in 1 .. N
  <2>1. upTo(i) \in SUBSET I /\ i \in upTo(i)
    OBVIOUS
  <2>. HIDE DEF upTo
  <2>2. IsFiniteSet(upTo(i)) /\ Cardinality(upTo(i)) <= N
    BY <1>1, <2>1, FS_Subset
  <2>3. Cardinality(upTo(i)) \in Nat /\ Cardinality(upTo(i)) # 0
    BY <2>1, <2>2, FS_CardinalityType, FS_EmptySet
  <2> QED
    BY <1>1, <2>2, <2>3
<1>3. ASSUME NEW i \in I, NEW j \in I, i < j
      PROVE  rank(i) # rank(j)
  <2>1. upTo(i) \in SUBSET upTo(j) /\ j \in upTo(j) /\ j \notin upTo(i)
    <3>1. i \in Int /\ j \in Int /\ \A x \in I : x \in Int
      OBVIOUS
    <3>2. \A x \in I : x <= i => x <= j
      BY <1>3, <3>1
    <3>3. j <= j /\ ~(j <= i)
      BY <1>3, <3>1
    <3> QED
      BY <3>2, <3>3
  <2>2. IsFiniteSet(upTo(j))
    BY <1>2
  <2>. HIDE DEF upTo
  <2> QED
    BY <2>1, <2>2, FS_Subset
<1>4. \A i, j \in I : rank(i) = rank(j) => i = j
  <2>1. \A i, j \in I : i < j \/ j < i \/ i = j
    OBVIOUS
  <2>. HIDE DEF rank
  <2> QED
    BY <1>3, <2>1
<1>5. f \in Surjection(I, 1 .. N)
  <2>1. IsFiniteSet(1 .. N) /\ Cardinality(1 .. N) = N
    BY <1>1, FS_Interval
  <2>. HIDE DEF rank, N
  <2>2. f \in Injection(I, 1 .. N)
    BY <1>2, <1>4 DEF Injection, IsInjective
  <2> QED
    BY <1>1, <2>1, <2>2, FS_Injection DEF N
<1>6. \A k \in 1 .. N : \E i \in I : rank(i) = k
  <2>. HIDE DEF rank, N
  <2> QED
    BY <1>5 DEF Surjection
<1>. HIDE DEF rank, N
<1>7. /\ N \in Nat
      /\ \A i \in I : rank(i) \in 1 .. N
      /\ \A i, j \in I : rank(i) = rank(j) => i = j
      /\ \A k \in 1 .. N : \E i \in I : rank(i) = k
  BY <1>1, <1>2, <1>4, <1>6
<1> QED
  BY <1>7 DEF rank, N

\* Missing names each action outside caps, once.
LEMMA MissingNames ==
  ASSUME NEW names, NEW n \in Nat, DOMAIN names = 1 .. n, NEW caps
  PROVE  /\ IsInjective(Missing(names, caps))
         /\ ToSet(Missing(names, caps)) = {a \in ToSet(names) : a \notin caps}
<1>. DEFINE first == {i \in DOMAIN names : /\ names[i] \notin caps
                                           /\ \A j \in 1 .. i - 1 : names[j] # names[i]}
            rank(i) == Cardinality({j \in first : j <= i})
            at(k) == CHOOSE i \in first : rank(i) = k
            m == Missing(names, caps)
            N == Cardinality(first)
<1>1. first \subseteq 1 .. n
  OBVIOUS
<1>2. m = [k \in 1 .. N |-> names[at(k)]]
  BY DEF Missing
<1>3. \A i, j \in first : names[i] = names[j] => i = j
  <2>1. \A i, j \in first : i < j => names[i] # names[j]
    OBVIOUS
  <2>2. \A i, j \in first : i < j \/ j < i \/ i = j
    OBVIOUS
  <2> QED
    BY <2>1, <2>2
<1>4. \A a \in ToSet(names) : a \notin caps => \E i \in first : names[i] = a
  <2>. SUFFICES ASSUME NEW x \in 1 .. n, names[x] \notin caps
                PROVE  \E i \in first : names[i] = names[x]
    BY DEF ToSet
  <2>. DEFINE I == {j \in 1 .. n : names[j] = names[x]}
              i == Min(I)
  <2>1. I \subseteq Nat /\ I # {}
    OBVIOUS
  <2>2. i \in I /\ \A j \in I : i <= j
    BY <2>1, LeastNumber
  <2>. HIDE DEF i
  <2>3. \A j \in 1 .. i - 1 : names[j] # names[i]
    BY <2>2
  <2> QED
    BY <2>2, <2>3
<1>5. \A i \in first : names[i] \in ToSet(names) /\ names[i] \notin caps
  BY DEF ToSet
<1>. HIDE DEF first
<1>6. /\ N \in Nat
      /\ \A i \in first : rank(i) \in 1 .. N
      /\ \A i, j \in first : rank(i) = rank(j) => i = j
      /\ \A k \in 1 .. N : \E i \in first : rank(i) = k
  BY <1>1, RanksAreTaken
<1>. HIDE DEF N, rank
<1>7. \A k \in 1 .. N : at(k) \in first /\ rank(at(k)) = k
  BY <1>6
<1>8. \A i \in first : at(rank(i)) = i
  BY <1>6
<1>. HIDE DEF at, m
<1>9. ASSUME NEW k \in 1 .. N, NEW l \in 1 .. N, m[k] = m[l]
      PROVE  k = l
  <2>1. names[at(k)] = names[at(l)]
    BY <1>2, <1>9
  <2>2. at(k) = at(l)
    BY <1>3, <1>7, <2>1
  <2> QED
    BY <1>7, <2>2
<1>10. IsInjective(m)
  BY <1>2, <1>9 DEF IsInjective
<1>11. ASSUME NEW a
       PROVE  a \in ToSet(m) <=> a \in ToSet(names) /\ a \notin caps
  <2>1. ASSUME a \in ToSet(m)
        PROVE  a \in ToSet(names) /\ a \notin caps
    BY <1>2, <1>5, <1>7, <2>1 DEF ToSet
  <2>2. ASSUME NEW i \in first, names[i] = a
        PROVE  a \in ToSet(m)
    BY <1>2, <1>6, <1>8, <2>2 DEF ToSet
  <2> QED
    BY <1>4, <2>1, <2>2
<1> QED
  BY <1>10, <1>11 DEF m

\* Both decoders of the client show what was encoded.
LEMMA RowsAreShown ==
  ASSUME NEW missing, NEW host
  PROVE  /\ \A row \in {Shown(Decode(Encode(Local(missing)))),
                        CompatShown(Encode(Local(missing)))} :
              row = [at |-> Absent, missing |-> missing]
         /\ \A row \in {Shown(Decode(Encode(Remote(host)))),
                        CompatShown(Encode(Remote(host)))} :
              row = [at |-> Present(host), missing |-> <<>>]
<1>1. <<>> # <<missing>> /\ <<>> # <<host>>
  OBVIOUS
<1>2. Encode(Local(missing)) = Wire(<<missing>>, <<>>, <<>>, <<>>)
  BY DEF Encode, Local, Present, Absent
<1>3. Encode(Remote(host)) = Wire(<<>>, <<host>>, <<>>, <<>>)
  BY DEF Encode, Remote, Present, Absent
<1>4. Decode(Wire(<<missing>>, <<>>, <<>>, <<>>)) = Local(missing)
  BY <1>1 DEF Decode, Wire, Absent
<1>5. Decode(Wire(<<>>, <<host>>, <<>>, <<>>)) = Remote(host)
  BY <1>1 DEF Decode, Wire, Absent
<1>6. /\ Shown(Local(missing)) = [at |-> Absent, missing |-> missing]
      /\ Shown(Remote(host)) = [at |-> Present(host), missing |-> <<>>]
  BY DEF Shown, Local, Remote
<1>7. CompatShown(Wire(<<missing>>, <<>>, <<>>, <<>>))
        = [at |-> Absent, missing |-> missing]
  BY <1>1 DEF CompatShown, OrDefault, Wire, Absent
<1>8. CompatShown(Wire(<<>>, <<host>>, <<>>, <<>>))
        = [at |-> Present(host), missing |-> <<>>]
  BY <1>1 DEF CompatShown, OrDefault, Wire, Absent, Present
<1> QED
  BY <1>2, <1>3, <1>4, <1>5, <1>6, <1>7, <1>8

\* What the start number g of node p lets it do, nothing if there is none.
SkillsAt(rs, p, g) == IF g = 0 THEN {} ELSE Skills[rs[p][g]]

\* The rows of an answer, as they are sent.
Encoded(rows) == [name \in DOMAIN rows |-> Encode(rows[name])]

\* What the listing l owes to the starts rs: its capabilities are those of its
\* node and of the entries of its first read, which were there, and its rows are
\* the answer to them and to the entries of its second read.
Told(l, rs) ==
    LET n == l.node
        own == rs[n][Len(rs[n])]
        rows == AnswerRows(Shelf[own], l.caps, l.adverts)
    IN  /\ \A p \in Nodes : l.seen[p] = 0 \/ l.seen[p] \in 1 .. Len(rs[p])
        /\ l.caps = Skills[own] \union UNION {SkillsAt(rs, p, l.seen[p]) : p \in Nodes}
        /\ l.pc = "answered" => l.rows = Encoded(rows)

ListingTold == listing # Free => Told(listing, runs)

\* What the rows of an answer are: an own recipe says what is missing, with the
\* actions of a recipe of that name, another one the least who advertised it.
AreRows(rows, s, caps, adverts) ==
    LET others == UNION {adverts[p] : p \in Nodes}
    IN  /\ DOMAIN rows = NamesOf(s) \union others
        /\ \A name \in NamesOf(s) :
             \E i \in DOMAIN Shelf[s] :
               /\ Shelf[s][i].name = name
               /\ rows[name] = Local(Missing(Shelf[s][i].actions, caps))
        /\ \A name \in others \ NamesOf(s) :
             \E p \in Nodes :
               /\ name \in adverts[p]
               /\ \A q \in Nodes : q < p => name \notin adverts[q]
               /\ rows[name] = Remote(p)

LEMMA AnswersAreRows ==
  ASSUME NEW s \in Setups, NEW caps, NEW adverts, DOMAIN adverts = Nodes
  PROVE  AreRows(AnswerRows(Shelf[s], caps, adverts), s, caps, adverts)
<1>. DEFINE rows == AnswerRows(Shelf[s], caps, adverts)
            others == UNION {adverts[p] : p \in Nodes}
            N == Len(Shelf[s])
<1>1. DOMAIN Shelf[s] = 1 .. N /\ N \in Nat
  BY ShelfType
<1>2. DOMAIN rows = NamesOf(s) \union others
  BY DEF AnswerRows, NamesOf
<1>3. \A name \in DOMAIN rows :
        rows[name] = IF name \in NamesOf(s) THEN LocalRow(Shelf[s], name, caps)
                     ELSE Remote(Min({p \in Nodes : name \in adverts[p]}))
  BY DEF AnswerRows, NamesOf
<1>. HIDE DEF rows
<1>4. ASSUME NEW name \in NamesOf(s)
      PROVE  \E i \in DOMAIN Shelf[s] :
               /\ Shelf[s][i].name = name
               /\ rows[name] = Local(Missing(Shelf[s][i].actions, caps))
  <2>. DEFINE I == {i \in 1 .. N : Shelf[s][i].name = name}
  <2>1. I \subseteq 1 .. N /\ I # {}
    BY <1>1 DEF NamesOf
  <2>2. Max(I) \in I
    BY <1>1, <2>1, LastNumber
  <2>3. SelectLastInSeq(Shelf[s], LAMBDA x : x.name = name) = Max(I)
    BY <2>1 DEF SelectLastInSeq
  <2>4. LocalRow(Shelf[s], name, caps) = Local(Missing(Shelf[s][Max(I)].actions, caps))
    BY <2>3 DEF LocalRow
  <2>5. rows[name] = Local(Missing(Shelf[s][Max(I)].actions, caps))
    BY <1>2, <1>3, <2>4
  <2> QED
    BY <1>1, <2>2, <2>5
<1>5. ASSUME NEW name \in others \ NamesOf(s)
      PROVE  \E p \in Nodes :
               /\ name \in adverts[p]
               /\ \A q \in Nodes : q < p => name \notin adverts[q]
               /\ rows[name] = Remote(p)
  <2>. DEFINE P == {p \in Nodes : name \in adverts[p]}
              p == Min(P)
  <2>1. P \subseteq Nat /\ P # {}
    OBVIOUS
  <2>2. p \in P /\ \A q \in P : p <= q
    BY <2>1, LeastNumber
  <2>3. rows[name] = Remote(p)
    BY <1>2, <1>3
  <2>. HIDE DEF p
  <2>4. \A q \in Nodes : q < p => q \notin P
    BY <2>2
  <2> QED
    BY <2>2, <2>3, <2>4
<1> QED
  BY <1>2, <1>4, <1>5 DEF AreRows, rows

\* So a listing that is told as it should is true.
LEMMA ToldIsTrue ==
  ASSUME TypeOK, ListingTold
  PROVE  ListingIsTrue
<1>. SUFFICES ASSUME listing.pc = "answered"
              PROVE  ListingIsTrue
  BY DEF ListingIsTrue
<1>. DEFINE n == listing.node
            s == runs[n][Current(n)]
            rows == AnswerRows(Shelf[s], listing.caps, listing.adverts)
            others == UNION {listing.adverts[p] : p \in Nodes}
            Skilled(a) == \/ a \in Skills[s]
                          \/ \E p \in Nodes : /\ listing.seen[p] # 0
                                              /\ a \in Skills[runs[p][listing.seen[p]]]
<1>1. listing # Free
  BY DEF Free
<1>2. /\ IsListing(listing) /\ n \in up /\ n \in Nodes /\ DOMAIN listing.adverts = Nodes
      /\ s \in Setups
  <2>1. IsListing(listing) /\ n \in up
    BY <1>1 DEF TypeOK
  <2>2. n \in Nodes /\ DOMAIN listing.adverts = Nodes
    BY <2>1 DEF IsListing
  <2> QED
    BY <2>1, <2>2, CurrentSetup
<1>3. /\ listing.caps = Skills[s] \union UNION {SkillsAt(runs, p, listing.seen[p]) : p \in Nodes}
      /\ listing.rows = [name \in DOMAIN rows |-> Encode(rows[name])]
  BY <1>1 DEF ListingTold, Told, Current, Encoded
<1>4. \A a : a \in listing.caps <=> Skilled(a)
  <2>1. \A p \in Nodes : \A a : a \in SkillsAt(runs, p, listing.seen[p]) <=>
          listing.seen[p] # 0 /\ a \in Skills[runs[p][listing.seen[p]]]
    BY DEF SkillsAt
  <2>2. \A a : a \in UNION {SkillsAt(runs, p, listing.seen[p]) : p \in Nodes} <=>
          \E p \in Nodes : a \in SkillsAt(runs, p, listing.seen[p])
    OBVIOUS
  <2> QED
    BY <1>3, <2>1, <2>2
<1>5. AreRows(rows, s, listing.caps, listing.adverts)
  BY <1>2, AnswersAreRows
<1>. HIDE DEF rows, Skilled, s, others
<1>6. ASSUME NEW name \in NamesOf(s),
             NEW row \in {Shown(Decode(listing.rows[name])), CompatShown(listing.rows[name])}
      PROVE  /\ row.at = Absent
             /\ IsInjective(row.missing)
             /\ \E i \in DOMAIN Shelf[s] :
                  /\ Shelf[s][i].name = name
                  /\ ToSet(row.missing) = {a \in ToSet(Shelf[s][i].actions) : ~Skilled(a)}
  <2>1. PICK i \in DOMAIN Shelf[s] :
          /\ Shelf[s][i].name = name
          /\ rows[name] = Local(Missing(Shelf[s][i].actions, listing.caps))
    BY <1>5 DEF AreRows
  <2>. DEFINE names == Shelf[s][i].actions
  <2>2. listing.rows[name] = Encode(Local(Missing(names, listing.caps)))
    BY <1>3, <1>5, <2>1 DEF AreRows, others
  <2>3. row = [at |-> Absent, missing |-> Missing(names, listing.caps)]
    BY <2>2, RowsAreShown
  <2>4. PICK k \in Nat : DOMAIN names = 1 .. k
    <3>. DEFINE E == [name : Seq(STRING), source : Seq(STRING), actions : Seq(Seq(STRING))]
    <3>1. Shelf[s] \in Seq(E)
      BY <1>2, ShelfAssumption
    <3>2. Shelf[s][i] \in E
      <4>. HIDE DEF E
      <4> QED
        BY <2>1, <3>1
    <3>3. names \in Seq(Seq(STRING))
      BY <3>2
    <3> QED
      BY <3>3, LenProperties
  <2>. HIDE DEF names
  <2>5. /\ IsInjective(Missing(names, listing.caps))
        /\ ToSet(Missing(names, listing.caps)) = {a \in ToSet(names) : a \notin listing.caps}
    BY <2>4, MissingNames
  <2>6. ToSet(row.missing) = {a \in ToSet(names) : ~Skilled(a)}
    BY <1>4, <2>3, <2>5
  <2> QED
    BY <2>1, <2>3, <2>5, <2>6 DEF names
<1>7. ASSUME NEW name \in others \ NamesOf(s),
             NEW row \in {Shown(Decode(listing.rows[name])), CompatShown(listing.rows[name])}
      PROVE  \E p \in Nodes : /\ row.at = Present(p)
                              /\ name \in listing.adverts[p]
                              /\ \A q \in Nodes : q < p => name \notin listing.adverts[q]
  <2>1. PICK p \in Nodes :
          /\ name \in listing.adverts[p]
          /\ \A q \in Nodes : q < p => name \notin listing.adverts[q]
          /\ rows[name] = Remote(p)
    BY <1>5 DEF AreRows, others
  <2>2. listing.rows[name] = Encode(Remote(p))
    BY <1>3, <1>5, <2>1 DEF AreRows, others
  <2>3. row = [at |-> Present(p), missing |-> <<>>]
    BY <2>2, RowsAreShown
  <2> QED
    BY <2>1, <2>3
<1>8. DOMAIN listing.rows = NamesOf(s) \union others
  BY <1>3, <1>5 DEF AreRows, others
<1> QED
  <2>1. ASSUME NEW name \in DOMAIN listing.rows, Holds(n, name)
        PROVE  name \in NamesOf(s)
    BY <2>1 DEF Holds, s
  <2>2. ASSUME NEW name \in DOMAIN listing.rows, ~Holds(n, name)
        PROVE  name \in others \ NamesOf(s)
    BY <1>8, <2>2 DEF Holds, s
  <2>3. Shelf[s] = Recipes(n)
    BY DEF Recipes, s
  <2>4. ASSUME NEW name \in DOMAIN listing.rows, Holds(n, name),
               NEW row \in {Shown(Decode(listing.rows[name])), CompatShown(listing.rows[name])}
        PROVE  /\ row.at = Absent
               /\ IsInjective(row.missing)
               /\ \E i \in DOMAIN Recipes(n) :
                    /\ Recipes(n)[i].name = name
                    /\ ToSet(row.missing) = {a \in ToSet(Recipes(n)[i].actions) : ~Skilled(a)}
    BY <1>6, <2>1, <2>3, <2>4
  <2>5. ASSUME NEW name \in DOMAIN listing.rows, ~Holds(n, name),
               NEW row \in {Shown(Decode(listing.rows[name])), CompatShown(listing.rows[name])}
        PROVE  \E p \in Nodes : /\ row.at = Present(p)
                                /\ name \in listing.adverts[p]
                                /\ \A q \in Nodes : q < p => name \notin listing.adverts[q]
    BY <1>7, <2>2, <2>5
  <2> QED
    BY <1>8, <2>4, <2>5 DEF ListingIsTrue, Skilled, s, others

\* What was told stays so: starts are only added, and none to the node of the
\* listing as long as it runs.
LEMMA ToldStays ==
  ASSUME TypeOK, NEW l, IsListing(l), l.node \in up, Told(l, runs),
         NEW rs, rs[l.node] = runs[l.node],
         \A p \in Nodes : Longer(runs[p], rs[p])
  PROVE  Told(l, rs)
<1>1. l.node \in Nodes
  BY DEF IsListing
<1>2. \A p \in Nodes : l.seen[p] = 0 \/ l.seen[p] \in 1 .. Len(runs[p])
  BY DEF Told
<1>3. ASSUME NEW p \in Nodes
      PROVE  /\ l.seen[p] = 0 \/ l.seen[p] \in 1 .. Len(rs[p])
             /\ SkillsAt(rs, p, l.seen[p]) = SkillsAt(runs, p, l.seen[p])
  BY <1>2 DEF Longer, SkillsAt
<1>4. UNION {SkillsAt(rs, p, l.seen[p]) : p \in Nodes}
        = UNION {SkillsAt(runs, p, l.seen[p]) : p \in Nodes}
  BY <1>3
<1> QED
  BY <1>3, <1>4 DEF Told

\* A listing is told as it should.
LEMMA ListingStepTold ==
  ASSUME TypeOK, ListingTold, [Next]_vars
  PROVE  ListingTold'
<1>1. ASSUME NEW n \in Nodes, ListCapabilities(n)
      PROVE  ListingTold'
  <2>1. /\ listing' = [pc |-> "read", node |-> n, seen |-> table[n],
                       caps |-> Skills[runs[n][Current(n)]]
                                  \union UNION {KnownSkills(n, p) : p \in Nodes},
                       rows |-> <<>>, adverts |-> [p \in Nodes |-> {}]]
        /\ runs' = runs
    BY <1>1 DEF ListCapabilities, nodeVars
  <2>2. \A p \in Nodes : KnownSkills(n, p) = SkillsAt(runs, p, table[n][p])
    BY DEF KnownSkills, SkillsAt
  <2>3. UNION {KnownSkills(n, p) : p \in Nodes}
          = UNION {SkillsAt(runs, p, table[n][p]) : p \in Nodes}
    BY <2>2
  <2>4. \A p \in Nodes : table[n][p] = 0 \/ table[n][p] \in 1 .. Len(runs[p])
    BY AdvertisedType DEF Current
  <2>5. Told(listing', runs)
    BY <2>1, <2>3, <2>4 DEF Told, Current
  <2> QED
    BY <2>1, <2>5 DEF ListingTold
<1>2. CASE ListAnswer
  <2>. DEFINE adverts == [p \in Nodes |-> Advertised(listing.node, p)]
              rows == AnswerRows(Recipes(listing.node), listing.caps, adverts)
              shown == [name \in DOMAIN rows |-> Encode(rows[name])]
  <2>1. /\ listing.pc = "read" /\ runs' = runs
        /\ listing' = [listing EXCEPT !.pc = "answered", !.adverts = adverts, !.rows = shown]
    BY <1>2 DEF ListAnswer, nodeVars
  <2>2. listing # Free
    BY <2>1 DEF Free
  <2>3. DOMAIN listing = {"pc", "node", "caps", "rows", "seen", "adverts"}
    BY <2>2 DEF TypeOK, IsListing
  <2>4. Told(listing, runs)
    BY <2>2 DEF ListingTold
  <2>. HIDE DEF adverts, shown
  <2>5. /\ listing'.pc = "answered" /\ listing'.adverts = adverts /\ listing'.rows = shown
        /\ listing'.node = listing.node /\ listing'.caps = listing.caps
        /\ listing'.seen = listing.seen
    BY <2>1, <2>3
  <2>. HIDE DEF rows
  <2>6. listing'.rows = Encoded(rows)
    BY <2>5 DEF shown, Encoded
  <2>7. rows = AnswerRows(Shelf[runs[listing.node][Len(runs[listing.node])]],
                          listing.caps, adverts)
    BY DEF rows, Recipes, Current
  <2>8. Told(listing', runs)
    BY <2>4, <2>5, <2>6, <2>7 DEF Told
  <2> QED
    BY <2>1, <2>8 DEF ListingTold
<1>3. CASE listing' = Free
  BY <1>3 DEF ListingTold
<1>4. CASE UNCHANGED <<listing, runs>>
  BY <1>4 DEF ListingTold
<1>5. ASSUME NEW n \in Nodes, NEW s \in Offered, Start(n, s)
      PROVE  ListingTold'
  <2>1. listing' = listing
    BY <1>5 DEF Start
  <2>2. \A p \in Nodes : Longer(runs[p], runs'[p]) /\ (p \in up => runs'[p] = runs[p])
    BY <1>5, StartsStay, TypeParts DEF Longer
  <2>3. CASE listing # Free
    <3>1. IsListing(listing) /\ listing.node \in up /\ listing.node \in Nodes
      BY <2>3 DEF TypeOK, IsListing
    <3>2. Told(listing, runs')
      BY <2>2, <2>3, <3>1, ToldStays DEF ListingTold
    <3> QED
      BY <2>1, <3>2 DEF ListingTold
  <2> QED
    BY <2>1, <2>3 DEF ListingTold
<1>6. ASSUME NEW n \in Nodes, NodeChanges(n)
      PROVE  ListingTold'
  <2>1. CASE Crash(n)
    BY <1>3, <1>4, <2>1 DEF Crash
  <2>2. CASE \E p \in Nodes : (\E g \in 1 .. MaxStarts : Learn(n, p, g)) \/ Forget(n, p)
    BY <1>4, <2>2 DEF Learn, Forget
  <2> QED
    BY <1>5, <1>6, <2>1, <2>2 DEF NodeChanges
<1>7. CASE \/ \E c \in Calls : CallStep(c)
           \/ Receive \/ ClientGivesUp \/ UNCHANGED vars
           \/ \E n \in Nodes, name \in Names, who \in {"client", "order"} : Ask(n, name, who)
  BY <1>4, <1>7, CallStepFrame DEF Receive, ClientGivesUp, Ask, vars, nodeVars
<1> QED
  BY <1>1, <1>2, <1>3, <1>6, <1>7
  DEF Next, Environment, NodeChanges, Stopped, ListShown

\* What a client is shown of a node's recipes is true of the node and of the
\* entries of the two reads, whichever decoder it uses, whatever gossip changes
\* between them and whoever restarts (handle_list_recipes, client_list_recipes).
THEOREM ListingsAreTrue == Spec => []ListingIsTrue
<1>1. Init => ListingTold
  BY DEF Init, ListingTold
<1>2. TypeOK /\ ListingTold /\ [Next]_vars => ListingTold'
  BY ListingStepTold
<1>3. TypeOK /\ ListingTold => ListingIsTrue
  BY ToldIsTrue
<1> QED
  BY <1>1, <1>2, <1>3, LookupTypeCorrect, PTL DEF Spec
=============================================================================
