-------------------------- MODULE MCOrderExecution --------------------------
(***************************************************************************)
(* Instances of OrderExecution for TLC.                                    *)
(***************************************************************************)
EXTENDS OrderExecution, TLC

CONSTANTS a, b, c,      \* nodes
          pizza, salad, \* orders
          dough, bake, grill \* actions

\* x at a node's first start and y from then on, or x at each of its starts.
Again(x, y) == [g \in Starts |-> IF g = 1 THEN x ELSE y]
Always(x) == Again(x, x)
Once == [n \in Nodes |-> 1]

AllKnown == [n \in Nodes |-> [p \in Nodes |-> IF p = n THEN 0 ELSE 1]]

\* A table with the entries `first` of first starts and `second` of second ones.
Table(first, second) ==
    [p \in Nodes |-> IF p \in first THEN 1 ELSE IF p \in second THEN 2 ELSE 0]

\* Relay: a pizza whose payload must leave a, where two peers could take it, and
\* come back, and a salad of the same origin whose recipe another node has. c could
\* bake before it was restarted, and a may hear of that start late.
RelayCaps == a :> Always({dough}) @@ b :> Always({bake}) @@ c :> Again({bake}, {})
RelayMenu == a :> Always({pizza}) @@ b :> Always({salad}) @@ c :> Always({})
RelayRecipe == pizza :> <<dough, bake, dough>> @@ salad :> <<dough>>
RelayOrigin == pizza :> a @@ salad :> a
RelayStarted == a :> 1 @@ b :> 1 @@ c :> 2
RelayKnown == a :> Table({b}, {}) @@ b :> Table({a}, {}) @@ c :> Table({a, b}, {})

\* Rivals: two peers that both can take the payload on.
RivalCaps == a :> Always({dough}) @@ b :> Always({bake}) @@ c :> Always({bake})

\* Crowd: two orders of one origin; pizza's recipe is held by the peer only,
\* salad needs an action nobody has.
CrowdCaps == a :> Always({dough}) @@ b :> Always({bake})
CrowdMenu == a :> Always({salad}) @@ b :> Always({pizza})
CrowdRecipe == pizza :> <<bake>> @@ salad :> <<dough>>
CrowdOrigin == pizza :> a @@ salad :> a

\* Crash: the pizza alone, with its recipe at b, which is started again without the
\* recipe and without its oven.
CrashCaps == a :> Always({dough}) @@ b :> Again({bake}, {}) @@ c :> Always({bake})
CrashMenu == a :> Always({}) @@ b :> Again({pizza}, {}) @@ c :> Always({})
CrashRecipe == pizza :> <<dough, bake, dough>>
CrashOrigin == pizza :> a

\* A node may hold itself in its table: its own relayed announce puts it there.
SelfKnown == [n \in Nodes |-> [p \in Nodes |-> 1]]
=============================================================================
