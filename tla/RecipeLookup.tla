---------------------------- MODULE RecipeLookup ----------------------------
(***************************************************************************)
(* How a node answers `get_recipe` and `list_recipes` (src/server/          *)
(* handlers.rs): from the recipe file it read when it started, or from     *)
(* what the peer table says of the others.                                 *)
(*                                                                         *)
(* A request for a recipe the node does not have is forwarded to the peers *)
(* whose announce named it, one after the other; each of them handles it   *)
(* in the same way. The table may describe an earlier start of a peer, and *)
(* the node itself, so a request may travel on, come back or go in circles. *)
(*                                                                         *)
(* Addresses are numbers. Definitions named Wrong... are the code with one *)
(* plausible mistake.                                                      *)
(***************************************************************************)
EXTENDS RecipeListing

CONSTANTS
    Nodes,     \* the agents, by address; 0 is nobody
    Setups,    \* what an agent may be started with: a recipe file and actions
    Names,     \* the recipe names asked for
    Loads,     \* the setups whose file parses
    Shelf,     \* Shelf[s]: the recipes of that file: name, source, actions
    Skills,    \* Skills[s]: --capabilities
    Regular,   \* bound: the setups of all starts but the first one
    MaxStarts, \* bound: starts of one node
    MaxChurn,  \* bound: changes of the peer tables
    MaxCalls   \* bound: connection threads that handle get_recipe at a time

ASSUME NodesAssumption == Nodes \subseteq Nat \ {0}
ASSUME ShelfAssumption ==
    /\ Loads \subseteq Setups /\ Regular \subseteq Setups
    /\ Names \subseteq Seq(STRING)
    /\ Shelf \in [Setups -> Seq([name : Seq(STRING), source : Seq(STRING),
                                 actions : Seq(Seq(STRING))])]
    /\ Skills \in [Setups -> SUBSET Seq(STRING)]
ASSUME BoundsAssumption == MaxStarts \in Nat /\ MaxChurn \in Nat /\ MaxCalls \in Nat

VARIABLES
    up,      \* the nodes that run
    runs,    \* runs[n]: the setups n was started with, the last one current
    refused, \* setups whose start ended with a parse error
    table,   \* table[n][p]: the start of p that n's entry of p describes, or 0
    churn,   \* how many times a table changed
    call,    \* call[c]: a run of handle_get_recipe, or Free
    asker,   \* who waits for the root call: a client or a handle_order thread
    listing  \* a run of handle_list_recipes, or Free

nodeVars == <<up, runs, refused, table, churn>>
callVars == <<call, asker>>
vars == <<nodeVars, callVars, listing>>
-----------------------------------------------------------------------------
Calls == 1 .. MaxCalls
NoCall == 0
Free == [pc |-> "free"]

Current(n) == Len(runs[n])
Offered == IF \A n \in Nodes : runs[n] = <<>> THEN Setups ELSE Regular
Recipes(n) == Shelf[runs[n][Current(n)]]
NamesOf(s) == {Shelf[s][i].name : i \in DOMAIN Shelf[s]}
Holds(n, name) == name \in NamesOf(runs[n][Current(n)])

\* What n's entry of p says; an entry without an announce says nothing.
Advertised(n, p) == IF table[n][p] = 0 THEN {} ELSE NamesOf(runs[p][table[n][p]])
KnownSkills(n, p) == IF table[n][p] = 0 THEN {} ELSE Skills[runs[p][table[n][p]]]

\* .iter().find(|r| r.name == name): of equal names the first one is served.
WrongSource(n, name) == Recipes(n)[1].source
SourceOf(n, name) ==
    Recipes(n)[SelectInSeq(Recipes(n), LAMBDA r : r.name = name)].source

\* RecipeAnswer, Error, or nothing yet; for the asker also: gave up waiting.
NoAnswer == [kind |-> "none", source |-> <<>>]
Found(source) == [kind |-> "RecipeAnswer", source |-> source]
NotFound == [kind |-> "Error", source |-> <<>>]
Answers == {NoAnswer, NotFound} \union [kind : {"RecipeAnswer"}, source : Seq(STRING)]

\* "asked": the request is read; "forwarding": candidates left to try;
\* "awaiting": blocked on the reply of the child; "done": answered.
\* entry is the start of node that made the parent choose it; seen, lost and
\* via remember what happened: the candidates' entries, whether a connection
\* failed, and whose answer was passed on.
CallRecord ==
    [pc : {"asked", "forwarding", "awaiting", "done"}, node : Nodes, name : Names,
     parent : Calls \union {NoCall}, entry : 0 .. MaxStarts,
     cands : SUBSET Nodes, seen : [Nodes -> 0 .. MaxStarts],
     child : Calls \union {NoCall}, lost : BOOLEAN,
     via : Nodes \union {NoCall}, answer : Answers]

NewCall(n, name, parent, entry) ==
    [pc |-> "asked", node |-> n, name |-> name, parent |-> parent,
     entry |-> entry, cands |-> {}, seen |-> [p \in Nodes |-> 0],
     child |-> NoCall, lost |-> FALSE, via |-> NoCall, answer |-> NoAnswer]

Used(c) == call[c] # Free
IsNext(c) == c \in Calls /\ ~Used(c) /\ \A d \in Calls : d < c => Used(d)
Exhausted == \A c \in Calls : Used(c)

NoAsker == [pc |-> "idle"]
AskerRecord == [pc : {"waiting"}, who : {"client", "order"}, call : Calls]

\* Nobody reads what c writes: its client left, or its parent gave up.
Abandoned(c) == /\ call[c].parent = NoCall
                /\ ~(asker # NoAsker /\ asker.call = c)

\* rows is the RecipeListAnswer; seen remembers the entries at the first read,
\* adverts what the second read found.
IsListing(l) ==
    /\ DOMAIN l = {"pc", "node", "caps", "rows", "seen", "adverts"}
    /\ l.pc \in {"read", "answered"} /\ l.node \in Nodes
    /\ l.caps \subseteq Seq(STRING)
    /\ l.seen \in [Nodes -> 0 .. MaxStarts]
    /\ l.adverts \in [Nodes -> SUBSET Seq(STRING)]

Init ==
    /\ up = {}
    /\ runs = [n \in Nodes |-> <<>>]
    /\ refused = {}
    /\ table = [n \in Nodes |-> [p \in Nodes |-> 0]]
    /\ churn = 0
    /\ call = [c \in Calls |-> Free]
    /\ asker = NoAsker
    /\ listing = Free
-----------------------------------------------------------------------------
\* NodeState::new: the file is read once. With one that does not parse the
\* process ends before it opens a socket.
WrongStart(n, s) == \* it goes on without recipes
    /\ n \notin up
    /\ Len(runs[n]) < MaxStarts
    /\ up' = up \union {n}
    /\ runs' = [runs EXCEPT ![n] = Append(@, s)]
    /\ refused' = IF s \in Loads THEN refused ELSE refused \union {s}
    /\ UNCHANGED <<table, churn, callVars, listing>>
Start(n, s) ==
    /\ n \notin up
    /\ Len(runs[n]) < MaxStarts
    /\ IF s \in Loads
       THEN /\ up' = up \union {n}
            /\ runs' = [runs EXCEPT ![n] = Append(@, s)]
            /\ UNCHANGED refused
       ELSE /\ refused' = refused \union {s}
            /\ UNCHANGED <<up, runs>>
    /\ UNCHANGED <<table, churn, callVars, listing>>

\* The process ends: its threads with it, and the connections of the others.
Crash(n) ==
    LET dead == {c \in Calls : Used(c) /\ call[c].node = n}
        Orphaned(r) == [r EXCEPT !.child = IF @ \in dead THEN NoCall ELSE @,
                                 !.parent = IF @ \in dead THEN NoCall ELSE @]
    IN  /\ n \in up
        /\ up' = up \ {n}
        /\ table' = [table EXCEPT ![n] = [p \in Nodes |-> 0]]
        /\ call' = [c \in Calls |-> IF c \in dead \/ ~Used(c) THEN Free
                                    ELSE Orphaned(call[c])]
        /\ asker' = IF asker # NoAsker /\ asker.call \in dead THEN NoAsker ELSE asker
        /\ listing' = IF listing # Free /\ listing.node = n THEN Free ELSE listing
        /\ UNCHANGED <<runs, refused, churn>>

\* The gossip thread applies an announce of p, of its current start or of an
\* earlier one: announces are relayed, and applied in any order. One of them
\* may be n's own.
Learn(n, p, g) ==
    /\ n \in up
    /\ churn < MaxChurn
    /\ g \in 1 .. Current(p)
    /\ table[n][p] # g
    /\ table' = [table EXCEPT ![n][p] = g]
    /\ churn' = churn + 1
    /\ UNCHANGED <<up, runs, refused, callVars, listing>>

\* remove_stale_peers drops a silent peer; never the node itself.
Forget(n, p) ==
    /\ n \in up
    /\ churn < MaxChurn
    /\ p # n
    /\ table[n][p] # 0
    /\ table' = [table EXCEPT ![n][p] = 0]
    /\ churn' = churn + 1
    /\ UNCHANGED <<up, runs, refused, callVars, listing>>
-----------------------------------------------------------------------------
\* A client's get_recipe, or handle_order for a recipe it does not have but saw
\* advertised.
Ask(n, name, who) ==
    /\ asker = NoAsker
    /\ n \in up
    /\ who = "order" => /\ ~Holds(n, name)
                        /\ \E p \in Nodes : name \in Advertised(n, p)
    /\ \E c \in Calls :
         /\ IsNext(c)
         /\ call' = [call EXCEPT ![c] = NewCall(n, name, NoCall, 0)]
         /\ asker' = [pc |-> "waiting", who |-> who, call |-> c]
    /\ UNCHANGED <<nodeVars, listing>>

Update(c, r) == /\ call' = [call EXCEPT ![c] = r]
                /\ UNCHANGED <<nodeVars, asker, listing>>
Respond(c, answer) == Update(c, [call[c] EXCEPT !.pc = "done", !.answer = answer])

AnswerLocal(c) ==
    /\ call[c].pc = "asked"
    /\ Holds(call[c].node, call[c].name)
    /\ Respond(c, Found(SourceOf(call[c].node, call[c].name)))

\* All peers of the table are candidates.
WrongCandidates(n, name) == {p \in Nodes : table[n][p] # 0}
Candidates(n, name) == {p \in Nodes : name \in Advertised(n, p)}

\* The candidates are read under the lock and used after it.
ReadCandidates(c) ==
    LET n == call[c].node
        cands == Candidates(n, call[c].name)
    IN  /\ call[c].pc = "asked"
        /\ ~Holds(n, call[c].name)
        /\ Update(c, [call[c] EXCEPT
                        !.pc = "forwarding", !.cands = cands,
                        !.seen = [p \in Nodes |-> IF p \in cands THEN table[n][p] ELSE 0]])

\* try_forward_get_recipe: the peers in the order of a HashMap.
ForwardTo(c, p) ==
    /\ call[c].pc = "forwarding"
    /\ p \in call[c].cands \intersect up
    /\ \E d \in Calls :
         /\ IsNext(d)
         /\ call' = [call EXCEPT
                       ![c].pc = "awaiting", ![c].child = d, ![c].cands = @ \ {p},
                       ![d] = NewCall(p, call[c].name, c, call[c].seen[p])]
    /\ UNCHANGED <<nodeVars, asker, listing>>

\* The peer is gone or has no thread left, within MaxCalls.
WrongForwardRefused(c, p) == \* the peer stays a candidate
    /\ call[c].pc = "forwarding"
    /\ p \in call[c].cands
    /\ p \notin up \/ Exhausted
    /\ Update(c, [call[c] EXCEPT !.lost = TRUE])
ForwardRefused(c, p) ==
    /\ call[c].pc = "forwarding"
    /\ p \in call[c].cands
    /\ p \notin up \/ Exhausted
    /\ Update(c, [call[c] EXCEPT !.cands = @ \ {p}, !.lost = TRUE])

\* The first response is the answer, an Error too.
WrongForwardReply(c) == \* a response of any kind is an answer
    LET d == call[c].child
    IN  /\ call[c].pc = "awaiting"
        /\ d # NoCall
        /\ call[d].pc # "asked"
        /\ call' = [call EXCEPT
                      ![c].pc = "done", ![c].child = NoCall, ![c].via = call[d].node,
                      ![c].answer = NotFound, ![d] = Free]
        /\ UNCHANGED <<nodeVars, asker, listing>>
ForwardReply(c) ==
    LET d == call[c].child
    IN  /\ call[c].pc = "awaiting"
        /\ d # NoCall
        /\ call[d].pc = "done"
        /\ call' = [call EXCEPT
                      ![c].pc = "done", ![c].child = NoCall, ![c].via = call[d].node,
                      ![c].answer = call[d].answer, ![d] = Free]
        /\ UNCHANGED <<nodeVars, asker, listing>>

\* No response within ten seconds, or the connection broke: the next peer. The
\* request that was forwarded goes on.
ForwardGivenUp(c) ==
    LET d == call[c].child
    IN  /\ call[c].pc = "awaiting"
        /\ d # NoCall => call[d].pc # "done"
        /\ call' = [e \in Calls |->
                      IF e = c THEN [call[c] EXCEPT !.pc = "forwarding", !.lost = TRUE,
                                                    !.child = NoCall]
                      ELSE IF e = d THEN [call[d] EXCEPT !.parent = NoCall]
                      ELSE call[e]]
        /\ UNCHANGED <<nodeVars, asker, listing>>

AnswerNotFound(c) ==
    /\ call[c].pc = "forwarding"
    /\ call[c].cands = {}
    /\ Respond(c, NotFound)

\* handle_connection: the answer of an abandoned request is written to nobody.
WriteFails(c) == /\ call[c].pc = "done"
                 /\ Abandoned(c)
                 /\ Update(c, Free)

Receive == /\ asker # NoAsker
           /\ call[asker.call].pc = "done"
           /\ call' = [call EXCEPT ![asker.call] = Free]
           /\ asker' = NoAsker
           /\ UNCHANGED <<nodeVars, listing>>

\* The read timeout of client_get_recipe, five seconds.
ClientGivesUp == /\ asker # NoAsker
                 /\ asker.who = "client"
                 /\ asker' = NoAsker
                 /\ UNCHANGED <<nodeVars, call, listing>>
-----------------------------------------------------------------------------
\* handle_list_recipes takes the lock twice: for the capabilities ...
ListCapabilities(n) ==
    /\ listing = Free
    /\ n \in up
    /\ listing' = [pc |-> "read", node |-> n, seen |-> table[n],
                   caps |-> Skills[runs[n][Current(n)]]
                              \union UNION {KnownSkills(n, p) : p \in Nodes},
                   rows |-> <<>>, adverts |-> [p \in Nodes |-> {}]]
    /\ UNCHANGED <<nodeVars, callVars>>

\* ... and for the recipes of the others; then it answers.
ListAnswer ==
    /\ listing.pc = "read"
    /\ LET adverts == [p \in Nodes |-> Advertised(listing.node, p)]
           rows == AnswerRows(Recipes(listing.node), listing.caps, adverts)
       IN  listing' = [listing EXCEPT !.pc = "answered", !.adverts = adverts,
                         !.rows = [name \in DOMAIN rows |-> Encode(rows[name])]]
    /\ UNCHANGED <<nodeVars, callVars>>

ListShown == /\ listing.pc = "answered"
             /\ listing' = Free
             /\ UNCHANGED <<nodeVars, callVars>>
-----------------------------------------------------------------------------
CallStep(c) ==
    \/ AnswerLocal(c)
    \/ ReadCandidates(c)
    \/ \E p \in Nodes : ForwardTo(c, p) \/ ForwardRefused(c, p)
    \/ ForwardReply(c)
    \/ ForwardGivenUp(c)
    \/ AnswerNotFound(c)
    \/ WriteFails(c)

Environment ==
    \E n \in Nodes :
      \/ \E s \in Offered : Start(n, s)
      \/ Crash(n)
      \/ \E p \in Nodes : \E g \in 1 .. MaxStarts : Learn(n, p, g)
      \/ \E p \in Nodes : Forget(n, p)
      \/ \E name \in Names : \E who \in {"client", "order"} : Ask(n, name, who)
      \/ ListCapabilities(n)

\* No process is left.
Stopped == up = {} /\ UNCHANGED vars

Next == \/ Environment
        \/ \E c \in Calls : CallStep(c)
        \/ Receive \/ ClientGivesUp
        \/ ListAnswer \/ ListShown
        \/ Stopped

Spec == Init /\ [][Next]_vars

\* A thread that can go on does, and sockets time out.
Fairness == /\ \A c \in Calls : WF_vars(CallStep(c))
            /\ WF_vars(Receive)

FairSpec == Spec /\ Fairness
-----------------------------------------------------------------------------
(* Properties                                                              *)

\* Tables describe starts that happened; threads run on nodes that run, and a
\* blocked thread and the thread it waits for know each other.
TypeOK ==
    /\ up \subseteq Nodes
    /\ runs \in [Nodes -> Seq(Loads)]
    /\ \A n \in Nodes : Current(n) <= MaxStarts /\ (n \in up => runs[n] # <<>>)
    /\ refused \subseteq Setups \ Loads
    /\ table \in [Nodes -> [Nodes -> 0 .. MaxStarts]]
    /\ \A n, p \in Nodes : table[n][p] <= Current(p)
    /\ churn \in 0 .. MaxChurn
    /\ call \in [Calls -> {Free} \union CallRecord]
    /\ \A c \in Calls : Used(c) => call[c].node \in up
    /\ \A c, d \in Calls :
         (Used(c) /\ call[c].child = d) <=> (Used(d) /\ call[d].parent = c)
    /\ \A c \in Calls : (Used(c) /\ call[c].child # NoCall) =>
                         call[c].pc = "awaiting" /\ call[c].child # c
    /\ asker \in {NoAsker} \union AskerRecord
    /\ asker # NoAsker => Used(asker.call) /\ call[asker.call].parent = NoCall
    /\ listing # Free => IsListing(listing) /\ listing.node \in up

\* Whatever way a request took, a recipe that comes back is the text which some
\* node's file has first under that name: nothing else is ever passed on as an
\* answer (handle_get_recipe, try_forward_get_recipe).
Serves(s, name, source) ==
    \E i \in DOMAIN Shelf[s] :
      /\ Shelf[s][i].name = name
      /\ Shelf[s][i].source = source
      /\ \A j \in 1 .. i - 1 : Shelf[s][j].name # name
AnswerIsAHeldRecipe ==
    \A c \in Calls :
      (Used(c) /\ call[c].answer.kind = "RecipeAnswer") =>
        \E p \in Nodes : \E g \in 1 .. Current(p) :
          Serves(runs[p][g], call[c].name, call[c].answer.source)

\* "no peer advertised it": a node answers so when its table named nobody, when
\* a peer it tried could not be reached in time, or when the peer whose answer
\* it passed on has restarted since the announce that named it. A candidate
\* with a current entry that answers always has the recipe.
NotFoundHasACause ==
    \A c \in Calls :
      (Used(c) /\ call[c].answer = NotFound) =>
        \/ \A p \in Nodes : call[c].seen[p] = 0
        \/ call[c].lost
        \/ call[c].via # NoCall /\ call[c].seen[call[c].via] < Current(call[c].via)

\* A request is passed on a second time only by a node that was chosen for an
\* earlier start: with entries of the current starts every request ends at its
\* first hop, and requests cannot circulate.
OnlyStaleEntriesMakeDetours ==
    \A c \in Calls :
      (Used(c) /\ call[c].pc \in {"forwarding", "awaiting"} /\ call[c].entry # 0) =>
        call[c].entry < Current(call[c].node)

\* Every lookup comes back to the one who asked, also one that goes in circles,
\* without the client's own timeout.
EveryRequestEnds == (asker # NoAsker) ~> (asker = NoAsker)

\* The rows a client shows are true of the node and of the entries of its two
\* reads, whichever decoder it uses: an own recipe lists each action that
\* neither the node nor a peer of the first read has, once; another recipe
\* names the least of the peers that advertised it at the second read; and none
\* is left out.
ListingIsTrue ==
    listing.pc = "answered" =>
      LET n == listing.node
          others == UNION {listing.adverts[p] : p \in Nodes}
          Skilled(a) == \/ a \in Skills[runs[n][Current(n)]]
                        \/ \E p \in Nodes : /\ listing.seen[p] # 0
                                            /\ a \in Skills[runs[p][listing.seen[p]]]
          IsOwn(row, name) ==
            /\ row.at = Absent
            /\ IsInjective(row.missing)
            /\ \E i \in DOMAIN Recipes(n) :
                 /\ Recipes(n)[i].name = name
                 /\ ToSet(row.missing) =
                      {a \in ToSet(Recipes(n)[i].actions) : ~Skilled(a)}
          IsOther(row, name) ==
            \E p \in Nodes : /\ row.at = Present(p)
                             /\ name \in listing.adverts[p]
                             /\ \A q \in Nodes : q < p => name \notin listing.adverts[q]
      IN  /\ DOMAIN listing.rows = NamesOf(runs[n][Current(n)]) \union others
          /\ \A name \in DOMAIN listing.rows :
               \A row \in {Shown(Decode(listing.rows[name])), CompatShown(listing.rows[name])} :
                 IF Holds(n, name) THEN IsOwn(row, name) ELSE IsOther(row, name)

\* PROTOCOLE-SPEC.md: missing_actions are the actions this agent cannot execute
\* itself; when there are none it can make the recipe alone.
CompleteMeansAlone ==
    listing.pc = "answered" =>
      \A i \in DOMAIN Recipes(listing.node) :
        LET r == Recipes(listing.node)[i]
            row == Shown(Decode(listing.rows[r.name]))
        IN  (row.at = Absent /\ row.missing = <<>>)
              => PanelRow(r, Skills[runs[listing.node][Current(listing.node)]]) = <<>>
=============================================================================
