# Pizza factory: specifications, model checks and proofs

Pizza factory is a small peer-to-peer system in Rust. Agents gossip over UDP about
who can execute which kitchen action and who holds which recipe. A client orders a
pizza from one agent over TCP; the agent drives the recipe, hands the payload on to
a peer for what it cannot do itself, and the agent that finishes sends the pizza
back to the first one, which answers the client. This directory holds TLA+ models of
those mechanisms, TLC configurations that check them on small instances, and proofs
about orders, recipes, gossip and the history that TLAPS checks for every instance.

Paths below are relative to `src/` of the crate; line numbers are in `PROJECT.json`.

## 1. The system

| Part | State | Operations | Talks to |
|---|---|---|---|
| Order handlers, `server/handlers.rs` | `pending_orders` (a map from order id to a one-slot channel, under a mutex); the payload of each running call | `handle_order`, `handle_process_payload`, `handle_deliver` | other agents by TCP (`process_payload`, `deliver`, `get_recipe`), the peer table (read lock), the client's connection |
| Recipe handlers, `server/handlers.rs` | none of their own | `handle_list_recipes`, `handle_get_recipe` | the peer table, peers by TCP |
| TCP server, `server/tcp.rs` | a thread per connection | accept, decode, dispatch, write the answer | the handlers |
| Node state, `node.rs` | identity (never changes), peer table and own version (rwlock), `pending_orders` (mutex) | `NodeState::new` | read by handlers, written by gossip |
| UDP gossip, `network/udp/` | the peer table, the announce counter | tick (remove stale peers, announce, ping), announce with answer and relay, ping, pong | peers by UDP |
| Order history, `store.rs` | `db/orders.json`, and a copy in each process | `init_store`, `add_order`, `update_order_*`, `get_orders`, removal when a TUI or a server ends | client commands, the TUI, through one file |
| Client commands, `cli/client_impl.rs` | none but the history | `client_order`, `client_list_recipes`, `client_get_recipe` | an agent by TCP, the history |
| Recipe DSL, `recipe/` | none | `parse_recipes`, `flatten_recipe`, `to_dsl_string` | loaded at start, fetched by `get_recipe` |
| Framing and messages, `network/tcp.rs`, `protocol.rs` | none | length-prefixed frames, CBOR, legacy shapes of the recipe list | everything |
| TUI and program start, `tui/`, `main.rs` | a screen, the command line | wiring of threads | everything |

What makes each part correct:

* **Order handlers.** A client whose order is acknowledged gets one final frame. A
  completed order is the whole recipe, in order, each action once. The trail given
  with it is true. `handle_deliver`, which sends on a one-slot channel while it holds
  the lock all orders share, never blocks. Nobody waits for a signal that can no
  longer come. Payloads bounce between agents only where a table is out of date.
* **Gossip.** Tables never run ahead of the truth; nodes that run find each other;
  bursts of announces end; dead peers disappear; the service goes on.
* **Order history.** What a client recorded stays recorded, with the id the server
  gave it.
* **Recipe DSL.** A file says what its author means, however it is spelled; the text an
  agent hands out parses to the recipe it came from; what is cooked is what was written.
* **Recipe handlers.** A request for a recipe ends, whatever the tables say; its answer
  is a recipe somebody holds, or an error with a cause; a listing is true of the node
  and of its table, whichever decoder reads it.

What is hard about them, that is, what tests of one function do not reach
(`PROJECT.json` lists each at its line):

* A forward is given up after ten seconds while the peer goes on. Two branches then
  make the same pizza, both deliver, and either can be first, or late.
* The deliver is handled by a thread of its own, possibly before the call that caused
  it has returned to `handle_order`, possibly just as that one's wait times out.
* The candidates for a forward are read under a lock and used after it, while gossip
  adds and removes peers. They are chosen by what some announce said, possibly one of an
  earlier start of the peer, with other capabilities and recipes: a payload can be handed
  to a peer that cannot do anything with it and hands it on.
* An agent restarts while payloads of its orders travel on; their deliver finds a
  process that knows nothing of them.
* Announces are relayed over several hops, reordered and lost, and overwrite what is
  known; nodes stop, come back, possibly with the generation they had (the clock in
  seconds) or a smaller one, and are put back into tables by third parties.
* An error of a single `send_to` is returned through every caller and ends the gossip
  thread of a node that otherwise goes on.
* Several processes rewrite the same history file. A save that fails, with the file
  untouched, truncated or half written, is logged, and the client goes on.
* A request for a recipe goes to whoever an announce named. The announce may be of an
  earlier start, with another recipe file: the peer then asks others in turn, possibly
  the one that asked. The first response ends the search, an error too. The client
  waits five seconds, each node on the way ten, and an abandoned request goes on.
* A listing reads the table twice, and gossip can change it in between.
* A recipe is parsed, printed, sent, and parsed again. Commas, parentheses, suffixes,
  empty parts and lists of parameters have to survive.

## 2. Modules

| Module | What it is |
|---|---|
| `OrderService` | Abstract. What a client is promised of one order: declined, or a receipt and then one final frame that never changes; "Completed" only for a pizza that was made. |
| `PeerTables` | Abstract. What gossip is to the handlers: a table whose entries each describe one start of a peer, not always the latest. At any time one entry is inserted or overwritten, or some are lost; a process that restarts begins without any. |
| `OrderExecution` | The order handlers, with their threads, timeouts and failing sends, crashes and restarts with other capabilities and recipes. Refines `OrderService`. Uses the actions of `PeerTables` for its environment. |
| `Gossip` | The UDP service, under any clock. Refines `PeerTables`. |
| `OrderStore` | The history file, its client processes, saves that fail, and the TUI that removes it. |
| `RecipeDsl` | The recipe language: parser, printer and flattening, as operators over token sequences. |
| `RecipeListing` | Pure part of the listing: rows, their shapes on the wire, the client's two decoders, the TUI's panel. |
| `RecipeLookup` | The recipe handlers: starts with a recipe file, `get_recipe` requests that travel, `list_recipes` with its two reads. |
| `RecipeTravel` | Composition of `RecipeDsl` and `RecipeLookup`: the files are texts, and the kitchen parses what the lookup brought. |
| `MCOrderExecution`, `MCGossip`, `MCOrderStore`, `MCRecipeTravel` | Instances for TLC: capabilities, recipes and recipe files, bootstrap peers; the calm and aging versions of `Gossip` and the properties that need them. |
| `OrderExecutionProofs` | Type correctness of `OrderExecution`, the discipline of channels and entries, what payloads carry (content and trail), which hops make progress, and the lemmas about steps the other proofs use. |
| `OrderTaskProofs` | How the tasks of an order relate to each other and to its handler: placeholders, entries, work done once, exact trails. |
| `OrderAnswerProofs` | What clients are told: failures have causes; `OrderExecution` implements `OrderService`. |
| `OrderStoreProofs` | Type correctness of `OrderStore`, ids of accepted orders, serial clients. |
| `RecipeLookupProofs` | Type correctness of `RecipeLookup`, what a lookup may answer, and that a listing is true. |
| `RecipeDslProofs` | What the parser returns for any text, and that what it returns can be printed and read back. |
| `RecipeTravelProofs` | Composition of the two: what a kitchen cooks is what the file says. |
| `GossipProofs` | Type correctness of `Gossip`, tables that are never ahead, and that it implements `PeerTables`. |

The two refinements meet in `PeerTables`. The handlers read of a table which peers it
has and with which capabilities and recipes, and all of that was announced by one start
of the peer; so `PeerTables` says of each entry which start it describes. The
environment of `OrderExecution` takes the steps of `PeerTables` (`Tables!Learn`,
`Tables!Forget`, `Tables!Crash`, `Tables!Restart`, INSTANCEd there), with the capabilities
and recipes of each start as constants (`Caps[n][g]`, `Menu[n][g]`), and `Gossip` is proved
to change what its tables describe in no other way (`GossipIsPeerTables`). So the order
handlers meet every change gossip makes to a table, without modelling datagrams and
orders together. That the two can be put side by side is this argument; there is no
module that composes them. Both refinements, `OrderExecution` of `OrderService` and
`Gossip` of `PeerTables`, are proved.

Operators whose name starts with `Wrong` are the code with one plausible mistake: a
guard dropped, a case forgotten, a wrong peer list. They belong to no action. Each
property is checked to fail when one of them takes the place of the original.

### 2.1 OrderExecution and the code

The state:

| Variable | Code |
|---|---|
| `handler[o]` | where the connection thread of order `o` is in `handle_order`: "receipted" after the receipt is written, "registered" after the insertion in `pending_orders`, "fetched" with the recipe's text, "driving" inside `handle_process_payload`, "waiting" in `recv_timeout`, "timedout" between its return and the removal of the entry |
| `pending`, `channel` | the entries of `pending_orders`, and the one-slot channel behind each |
| `receipts`, `answer` | the frames the client was sent |
| `task[t]` | one call of `handle_process_payload`: the one of `handle_order` and one per forward. It has its node and the start of it that runs it, the start its parent's entry described (`entry`, history), its payload, the candidates not yet tried, the call it waits for and what it returned |
| `inflight` | `deliver` frames that were written and not yet handled |
| `known[n][p]` | which start of `p` the entry in the table of `n` describes: its `capabilities` and `recipes` are those of that start; 0 for no entry, or one nobody announced yet |
| `up`, `starts` | the processes; how often each node was started |
| `retried` | history: orders for which a forward was given up |
| `mishap` | history: orders that met a failure: a connection that failed, a timeout, a lost frame, a forgotten peer, an announce of an earlier start, a crash |

The actions follow the code between two points where another thread can interfere: a
socket call, a lock, a channel operation. `Execute` is one turn of the loop that
executes; `ReadCandidates` is the read of the peer table; `ForwardTo`,
`ForwardRefused`, `ForwardReply` and `ForwardGivenUp` are the outcomes of one
`forward_to_peer` (request written; connection or write failed; an answer came; the
read timed out or the peer died, and the child call may still be running);
`DeliverSuccess`, `DeliverFailure` and their `...Fails` are the two exits of the loop
with both outcomes of `send_deliver`; `SignalHandler` and `IgnoreDeliver` are
`handle_deliver`, which does its work under one lock. A time-out may happen whenever
its call blocks: nothing in the code relates the ten and the thirty seconds to the
work they wait for.

Abstractions: a payload's content is the sequence of the actions executed, an update
is its kind and its action or node, timestamps and the wording of results are left
out. A recipe is its flattened sequence; a fetched text that does not parse to it is
the constant `Unparsable`; such a parse answers an error, or panics and ends the thread
without a frame (`ParseFails`). What a `get_recipe` request of `FetchRecipe` meets on its
way is the subject of `RecipeLookup`; here it succeeds only if a peer that advertised the
recipe runs and some node that runs has it, and may fail in any case.
The placeholder answer of a task is any `completed_order` with an empty result.

### 2.2 Gossip and the code

One thread per node alternates a tick (`remove_stale_peers`, announces, pings) and the
handling of single datagrams, and nothing else writes the table, so each is one
action: `Tick`, `ReceiveAnnounce` (teaches nothing), `ReceiveNews` (answer to the
sender and relay to the others), `ReceivePing`, `ReceivePong`. `Boot` is
`NodeState::new` with the first announce. `SendAll` is the loop over the peers: one
target that cannot be sent to ends the loop, the tick and the thread, and the node is
"frozen". The clock is reduced to what `remove_stale_peers` asks of it: an entry was
never heard of, heard of lately, or too long ago (`Age`). A generation is
what the clock reads at a start (`unix_secs`): `Clock[n][g]` is what it may read at the
`g`-th start of `n`, which can be what it read before, or less. `version[n][g]` is the
version the `g`-th start reached; only the present one is read by an action, the others are
history, for the properties. The counter saturates at `MaxCounter`, and `info` is the start
whose capabilities and recipes an entry or an announce has.

### 2.3 OrderStore and the code

A client process loads the file at start, changes its copy frame by frame and writes
all of it back after each change. `std::fs::write` truncates (`Update`) and then
writes (`Write`), and between them another process may read, truncate, write or remove
the file. When two writes overlap, what is left is either one's text or a mixture
that does not parse. `save_to_file` swallows its errors: the directory cannot be created
or the file not opened (`UpdateFails`: the copy is changed, the file is not), or the write
fails after the file was truncated (`WriteFails`: it stays as it is, or holds part of a
text). A file that cannot be read is an empty history (`Start`). `overlapped`, `killed`,
`unread` and `saved` are history: what went wrong so far, for the properties.

### 2.4 The recipe modules and the code

`RecipeDsl` follows `recipe/parser.rs` and `recipe/mod.rs`. A text is a sequence of
tokens: the punctuation the parser searches for, a repeat suffix `^N`, `GAP` for a blank
line, and words. The parser trims every part it cuts out, so other white space is gone,
and a name is the sequence of tokens it was cut from. Results are `Ok(v)` or `Fail(e)`,
`Then` is the `?` operator, `Collect` the collection into a `Result`. The slice whose end
is before its start (`)` before `(`) is `Fail("panic")`: a program that ends, or a thread.
Each loop of the parser, the printer and the flattening is one recursive function,
`Scan`, whose parameter is what the loop does to one element; what it carries along (a
depth, the parts cut so far, an error) is the scan's value. So a fact about loops is
proved once, about `Scan`. The printer sorts an action's parameters by their keys; here
they come in some order that is the same each time, which is what the sort is for.
`ReadsBack` names the spellings for which printing and parsing again is not the
identity, so that `SourceReadsBack` holds for all others.

`RecipeListing` has `Missing`, the rows of the answer, `Encode` and `Decode` (the untagged
shapes of `protocol.rs`, the first one that fits), and what either decoder of the client
and the TUI's panel show. Node addresses are numbers, since the code takes the least.
`Missing` is the code's two filters, what the capabilities lack and what was not seen
before, as positions: those where an action outside the capabilities comes for the first
time. It needs no fold, so that it can be proved about.

`RecipeLookup`:

| Variable | Code |
|---|---|
| `up`, `runs[n]` | the processes, and the setups (recipe file and `--capabilities`) `n` was started with; the last one is its `Identity` |
| `refused` | setups whose file does not parse: the process ends before it opens a socket |
| `table[n][p]` | which start of `p` the entry of `n` describes, 0 for none. `Learn` gives any start that happened, as `Gossip` shows announces can; also of `n` itself, whose announces are relayed back |
| `call[c]` | a connection thread in `handle_get_recipe`: "asked", "forwarding" with the candidates left, "awaiting" a child, "done". `entry`, `seen`, `lost`, `via` are history: the entries that made the choice, whether a connection failed, whose answer was passed on |
| `asker` | who waits for the root call: a client, five seconds, or a `handle_order` thread |
| `listing` | a `handle_list_recipes` between its first read, its second one and the screen |

`ForwardTo` opens a thread on the peer if one is left (`MaxCalls`), `ForwardRefused` is a
connection that fails, `ForwardReply` passes the first response on, an error too,
`ForwardGivenUp` is the read time-out of ten seconds, after which parent and child go on
without each other; `WriteFails` is the end of a thread nobody listens to. `Crash` takes
the threads of the node, and their parents and children see a broken connection.

`RecipeTravel` gives the shelves of `RecipeLookup` their contents by parsing the text of
each setup, and compares what a kitchen would cook from an answer (`Cook`: parse, find,
flatten, as `handle_order` does) with what the author meant (`Meant`, given by the
instance and not computed from the text).

## 3. Runs

| Run | Instance | What it shows |
|---|---|---|
| `OrderRelay` | 3 nodes, 2 orders of one origin: `dough, bake, dough`, where `a` can only do dough and `b` only bake, as `c` could before it was restarted; and one whose text another node holds and that does not parse; 3 forwards, so the pizza goes out and comes back, and one forward can be repeated at, or misled to, `c`; 1 change of tables | the type invariant; the pizza is the recipe's (`CompletedIsWholeRecipe`); its trail is true and complete (`AnswerTrailIsHonest`, `AnswerTrailIsExact`); hops progress but through entries that are out of date (`EveryHopAdvances`); work is done twice only after a forward was given up (`ExecutedOnceUnlessRetried`), and only then can an error hide a delivered pizza (`ErrorMeansUndeliveredUnlessRetried`); channels and entries (`SignalNeverBlocks`, `WaiterIsReachable`, `DrivenOrderLeavesNoEntry`, `PlaceholderMeansDelivered`); an order the tables cover, and that met no failure, is never told an error (`FailureHasACause`) |
| `OrderCrash` | the pizza alone, its recipe at `b`, nodes in their own tables, 2 forwards, 1 crash, with fairness; `b` restarts without recipe and oven | `ImplementsService`; `ReceiptLeadsToAnswer`; `EveryTaskEnds` |
| `OrderLeak` | 2 nodes, 2 orders of one origin: a recipe only the peer has, an action nobody has | violation of `EntriesHaveWaiters` |
| `OrderLateSuccess` | 3 nodes, 3 forwards | violation of `ErrorMeansUndelivered` |
| `GossipDiscovery` | 3 nodes in a chain, starts and stops, calm ticks | `EveryoneIsDiscovered`, `StormsEnd` |
| `GossipMixed` | 3 nodes and an address that cannot be sent to, loss and reordering, 2 starts of one node, with a clock that reads the same, more or less the second time (`AnyClock`), counter up to its limit 2, 2 datagrams in flight | type invariant; `NothingFromTheFuture`; `ImplementsPeerTables` |
| `GossipReordered` | 2 nodes, loss and reordering | violation of `VersionNeverGoesBack` |
| `GossipZombie` | 3 nodes in a star, calm ticks and passing time | violation of `DeadPeersAreForgotten` |
| `GossipUnreachable` | as `GossipMixed` with one start | violation of `ServiceKeepsRunning` |
| `StoreClients` | 3 clients, 1 exit of a TUI, symmetry; kills, overlaps, reads and saves that fail, as many as there can be as long as only two clients have started, one in all afterwards (`TwoOrLucky`) | type invariant; `SerialClientsLoseNothing`; `AcceptedOrdersHaveServerIds` |
| `RecipeTravel` | 2 nodes, 2 starts each, with two recipe files that have every kind of step; 3 threads, 2 changes of tables; and hundreds of drafts that are read once: every pair of seven spellings after two kinds of heading, and every text that differs from a recipe in one token | type invariant; `WellWrittenFilesLoad`, `SourceReadsBack`, `OrderCooksWhatWasWritten`; `AnswerIsAHeldRecipe`, `NotFoundHasACause`, `OnlyStaleEntriesMakeDetours`; `ListingIsTrue`; `EveryRequestEnds` |
| `ListingAlone` | the same, without fairness | violation of `CompleteMeansAlone` |

Bounds, and why they are enough. `MaxForwards` is the number of forwards in a
behaviour: a recipe that leaves its origin and returns needs two, and the third gives
the rival branch; the proofs hold for any number. It also bounds chains that entries out
of date make endless: a node whose table describes an earlier start of itself, with the
action it lacks, forwards to itself (`SelfKnown` in `OrderCrash`), each call until its read
times out. `EveryTaskEnds` says that each call ends, not that there are finitely many. `MaxChurn` and `MaxCrashes` bound
the environment: every property that speaks of tables or crashes needs one change to
fail. In `OrderRelay` that change is an announce of the earlier start of
`c`, or the last start of a node, or peers that are forgotten. `MaxCounter` is the saturation point of the counter, a constant of the code
(`u64::MAX`) brought down to where it is reached. `MaxStarts` and `MaxInFlight` bound
starts and datagrams: reordering needs two datagrams; the runs with liveness use
twenty, more than they ever have in flight. `MaxExits` bounds the exits of a TUI. Three
clients let one lose what two before it left. Two meet any number of misfortunes
(overlaps, kills, reads and saves that fail, exits of a TUI); when the third has started,
`TwoOrLucky` keeps the behaviours with one, since `SerialClientsLoseNothing` promises
nothing after most of them. `GossipMixed` also lets
only one node stop and start again (`OnlyBRestarts`). Nodes are not declared symmetric:
their capabilities and bootstrap peers differ.

For the recipes: `MaxStarts` 2 gives an entry that is out of date, `MaxChurn` 2 two of
them, which is what a circle takes; a circle of two nodes uses all three threads of
`MaxCalls`, after which connections are refused (`Exhausted`), as they are by a process
out of threads. `MaxCount` is `u32::MAX` brought down. `Regular` are the setups of all
starts but the first; `DraftIsOnlyRead` stops after a draft was read, since a draft is a
question to the parser. `OneRequest` keeps lookups and listings apart (they share the
tables only, and change none), lets the lookup start at node 1 and keeps one abandoned
thread. Token texts have at most one slip: two slips that hide each other are not tried.

Deadlock is checked in the order runs: `Idle` is enabled only when every order is
answered, every thread has ended and no deliver is on its way, so a deadlock would be
threads that wait for each other. It is checked in the recipe runs too, but says little
there, since a process that runs can always be killed: `EveryRequestEnds` says that no
request is stuck. It is not checked for `Gossip` and `OrderStore`, whose behaviours stop
when their bounds are used up.

## 4. Fairness

`OrderExecution`: weak fairness of each connection thread (`OrderStep`, `TaskStep`,
`HandleDeliver`). Threads are the operating system's, each blocking call has a
timeout (`recv_timeout` 30 s, reads and writes of a forward 10 s), and the time-out
actions are the ones that make progress certain. Only connecting has no timeout of
the program's: the kernel's is taken for one. Nothing is asked of clients, of
gossip, of the network or of crashes.

`Gossip`: `EveryoneIsDiscovered` and `StormsEnd` need the handling of datagrams (weak:
the loop reads the socket until its slot ends) and ticks (strong: the loop ticks
again and again, but in the calm specification only when the network is empty, which
comes and goes). The calm specification says that what a tick causes is handled before
the next tick: milliseconds against two seconds. Loss is off there, since no finite
number of attempts beats a network that loses everything. `GossipZombie` adds that
time passes for a peer that is down.

`RecipeLookup`: weak fairness of each thread (`CallStep`) and of the asker's read of an
answer that is there (`Receive`), for the same reasons. The client's own time-out is not
fair: `EveryRequestEnds` says that the answer comes without it. The bound `MaxCalls` is
not what makes it true: a thread that waits on a circle is enabled to give up, and tries
each peer once, however many threads there are behind it.

## 5. Proofs

Twenty-nine theorems, for every value of the constants:

* thirteen about `Spec` of `OrderExecution`: any sets of nodes, orders and actions, any
  recipes, any bounds;
* five about `Spec` of `RecipeLookup`: any nodes, setups, files and bounds;
* two about the recipe language of `RecipeDsl`: texts of any length and any words, any
  repeat suffixes and any width of a count;
* three about `Spec` of `RecipeTravel`: all of the former, and any texts as recipe files;
* three about `Spec` of `OrderStore`: any clients, ids and number of exits;
* three about `Spec` of `Gossip`: any nodes, bootstrap peers, unreachable addresses, limit
  of the counter, clocks and bounds, with or without loss.

They assume what the modules assume of their constants: the capabilities and recipes of
each start and the initial tables are over the declared sets, no initial table is ahead of
the starts it describes, clocks read naturals, recipes are sequences of actions, a shelf is a sequence of
named texts, addresses are positive numbers, bounds are naturals, repeat suffixes are
tokens other than the punctuation, recipe files are sequences of tokens, and the setups
that load and their shelves are what these files parse to. Each strengthening of an
invariant below was an invariant of a TLC run before it was proved.

### Orders

What a step can do to a task (work, forward, lose or hear its child, return), to the
table of tasks and to a handler is said once, in `TaskMoves`, `TableSteps` and
`HandlerSteps`; the proofs that relate tasks cite these and not the actions.

* `TypeCorrect`: `Spec => []TypeOK`. One lemma per group of steps; everything else
  uses it.
* `SignalsNeverBlock`, `WaitersReachable`. Neither is inductive: that the channel is
  empty while its entry exists does not say that the entry is not re-inserted, and a
  waiter is reachable only because every step before the wait left either the entry
  or the message. `ChannelDiscipline` is the strengthening: an entry exists only with
  an empty channel and only once its handler registered it, and from there until
  after the wait one of the two is there. A `deliver` trades entry for message under
  the lock; the handler registers once; a crash removes both with the handler.
* `CompletedOrdersAreWhole`, `AnswerTrailsAreHonest`. An answer's content says nothing
  of where it came from, so `PizzaTrace` follows the payload: in every task the
  content is the first `index` actions of its recipe, the trail is honest, and as
  long as the task runs its node is the last hop of the trail; messages and answers
  are sound. Executing appends what the index says and the node can; forwarding
  hands the payload to the node the hop names; delivering happens at the end of the
  recipe.
* `HopsAdvance`. That a hop leads somewhere is not a matter of its own step: the entry is
  read, the receiver restarts, the forward comes later. `Routing` says what a forward is
  based on: the process of the node cannot execute the wanted action, and the start each
  candidate was chosen for can. It keeps that start in the receiver's `entry`, so a
  receiver that is the sender, or that has to forward without having executed anything,
  runs in another start than that one. It needs that tasks which run are of their node's
  present process, through crashes and restarts.
* `PlaceholdersMeanDelivered`, `DrivenOrdersLeaveNoEntry`. `Family` is the strengthening,
  read off the calls: a task works for an order that was driven; its child works on the
  same order, and a task that executes or looks for a peer has none; a task that sent a
  `deliver` has no child and returned the placeholder; and behind every placeholder, and
  every handler that waits, some task of the order sent a `deliver`.
* `ExecutedOnce`, `ErrorsMeanUndelivered`. Two tasks of one order could both work.
  `OneChain` says that as long as no forward of the order was given up, its tasks are one
  chain: of any two, one has a child, ended where the other starts or before it, and if
  it returned, returned what the end of the chain did. So one works at a time, no index
  of the recipe is executed by two, and when the root hears an error no one in the chain
  sent the pizza.
* `AnswerTrailsAreExact`. `ExactTrails` says of every payload that its trail is the record
  of the actions in `content`; only a payload nobody has worked on since its hop ends with
  a hop; and where two hops are next to each other some task was handed the first part of
  the trail by an entry of another start (`Misled`). Such a task stays one, whatever happens
  to it, so what was said of a trail stays true of its clones. That a receiver passes on
  what it was handed only in that case is `Routing`'s.
* `FailuresHaveCauses`. That an order was told an error says nothing of what its tasks
  met. `Smooth` follows the orders that the tables cover and that met no failure: while
  there is one, every node is up in its first start of the behaviour, and every table
  describes these starts and has lost no peer; a task of it that forwards
  has a candidate left, one that returned returned the placeholder, and every `deliver`
  is a success, on its way or in the channel of a handler that is not done. So the only
  answer such a handler can give is the pizza.
* `NodesImplementService`: `Spec => ImplementsService`. `Lifecycle` ties the state of a
  handler to what its client was told, and a message in a channel to an order that was
  made. Executing the last action is `Make` (a drive that starts, for a recipe without
  actions); a receipt and an answer are the service's, and every other step stutters.

### Recipes

* `LookupTypeCorrect`: `Spec => []TypeOK` of `RecipeLookup`, in three parts (nodes and
  tables, threads, the listing). The hard part is the threads: parent and child name
  each other, and a request, a reply, a time-out and a crash each change that on both
  sides.
* `AnswersAreHeld`, `NotFoundIsCaused`, `DetoursAreStale`. None is inductive: why a node
  was asked is known to its parent, why an answer is true to the child. `Reasons` is the
  strengthening. Of every thread: the start that made a parent choose it had the name;
  it searches only if its node's current start has not; while no connection failed every
  candidate it saw is still to be tried. Of every parent and child: the child's `entry`
  is what the parent saw. So when an error is passed on, the start that was announced
  had the name and the current one has not, and they differ. Starts are only appended,
  and never to a node that runs, so what is said of starts stays true.
* `ListingsAreTrue`. `ListingIsTrue` speaks of what a client sees, and says nothing before
  the answer. `ListingTold` is the strengthening: from the first read on, `caps` are the
  node's and those of the entries that read found, and the rows are those of `caps` and of
  the second read, encoded. `MissingNames` shows that `Missing` is what it is meant to be
  for every recipe and all capabilities: each action outside them, once. The rank of a
  first occurrence is an injection from these positions into as many numbers, so it
  reaches each of them. `RowsAreShown` shows that no row is mistaken for another one by
  either decoder.
* `PrintedReadsBack`, `PrintedFilesLoad`. For every text that parses, the source kept with
  each of its recipes, which is what `get_recipe` sends, parses to that recipe and nothing
  else; and a file that joins such sources by blank lines loads as these recipes, in their
  order. Both but for the spellings of `ReadsBack`. `LoopFunction` shows that a `Scan` over
  any value exists and what its steps are; `Climb`, that what is closed under steps holds
  after the last one, from a least number for which it does not. (The induction theorems
  of the library take a predicate as parameter, which the provers cannot instantiate;
  `Climb` takes the set of numbers for which it holds.) On these rest the lemmas about cutting
  and joining: a separator that no part has cuts a joined text where it was joined, a comma
  inside parentheses does not cut, and a depth adds up over parts. The strengthening of the
  printer's side is `IsStep`, what `ParseStep` returns for any text: no name holds an opening
  parenthesis, an arrow or a blank line, none from a parallel step a comma, one that stands
  alone does not start with a bracket, and a key has no `=` or comma. These are the facts the
  printed text needs to be read the same way, and `ReadsBack` lists what is not among them.
* `SourcesReadBack`. A start of a node that runs loaded its file, so its recipes are those
  `PrintedReadsBack` is about, whether or not the file was well written.
* `OrdersCookTheFile`, `OrdersCookWhatIsMeant`. An answer to a lookup has the source of the
  first recipe of that name in a file some node was started with (`AnswersAreHeld`), and
  that source parses, alone, to the recipe it was printed from. So the kitchen finds the name
  and executes what the recipe of the file flattens to: for every file (the first theorem),
  hence what its author meant, as long as nodes are started with files that load as meant
  (the second one, with the hypothesis `AllWellWritten`). The run's two recipe files are such
  files, so its lookups are all in the theorem's reach; its drafts are read once and answer
  nobody.

### History

* `StoreTypeCorrect`, `AcceptedOrdersAreNamed`. `StoreInv` says that an accepted order has
  its id wherever it is kept, in the file or in any client's copy, and that the updates a
  client has yet to make fit the order they are made to: the id comes first, or is there.
* `SerialClientsKeepOrders`. `SerialInv` says what holds as long as no two clients
  overlapped, none was killed or failed to read the file, and none left it truncated: one
  client at most is active, its copy has all that the others left in the file, a client
  that ended has its last status there if its last save succeeded, and a file it truncated
  stays empty until it has written. A save that fails without touching the file loses
  nothing but itself: the next one writes the whole copy.

### Gossip

* `GossipTypeCorrect`, `TablesNeverAhead`. What an announce says is written into a table
  without a comparison, so that tables are never ahead depends on what is in flight, and
  that on who sends. `Truth` is the strengthening: a datagram carries a version some start
  of its subject reached, an announce one of the start whose capabilities it has, and so is
  the version of every entry, unless it is still zero; a node that is down has an empty
  table, and one that runs has started. Versions of starts that are over stay, the present
  one only goes up by a bump of the counter, also at its limit, so what was true stays true;
  a relay keeps the subject, its start and its version. Nothing is assumed of the clock:
  that a version is not ahead of *the present start* would be false, as a node that starts
  again within a second, or with its clock set back, is behind what its peers hold.
* `GossipIsPeerTables`: `Spec => ImplementsPeerTables`. The view of a table is, for each peer,
  the start its entry describes, 0 if nothing was announced. A start is a `Restart` (`Truth`
  says the table was empty), a stop a `Crash`, a tick a `Forget` of the stale peers, an
  announce, whether answered or not, a `Learn` of the node it speaks of with the start that
  made it (which happened, by `Truth`); the peers it lists are inserted undescribed. Pings,
  pongs, lost datagrams and passing time change nothing the handlers read.

### What only TLC says

TLC checks the theorems' properties in `OrderRelay`, `OrderCrash`, `RecipeTravel`,
`StoreClients` and `GossipMixed`. Only model-checked are

* the liveness properties (`ReceiptLeadsToAnswer`, `EveryTaskEnds`, `EveryRequestEnds`,
  `EveryoneIsDiscovered`, `StormsEnd`): liveness under fairness and `ENABLED` are beyond
  the prover;
* `WellWrittenFilesLoad`, that a file a careful author writes parses to what is meant: what
  is well written and what is meant are the instance's, and that they agree is a computation
  over its texts. What does not depend on the instance is proved: a node runs with a file
  that parses and is refused with any other (`LookupTypeCorrect`), and a file printed as
  `to_dsl_string` prints loads as what was printed (`PrintedFilesLoad`).

## 6. Where code and words differ

Each has a run that ends in a violation, and an entry under "findings".

1. **Entries that stay** (`OrderLeak`). The early returns of `handle_order` after the
   registration (recipe not fetched, not parsed, not found) leave the entry in
   `pending_orders`, a leak per such order. `DrivenOrderLeavesNoEntry` shows that no
   other exit does.
2. **An error that hides a delivered pizza** (`OrderLateSuccess`). After a forward
   timed out, the peer tried next can report an error although the first one
   delivers: the comment that any other value means "execution failed before reaching
   the deliver step" holds without time-outs only.
3. **Announces that go back** (`GossipReordered`). Announces overwrite an entry
   without comparing versions; pings and pongs compare.
4. **Dead peers that return** (`GossipZombie`). A stale peer comes back from another
   node's peer list as "never seen", which is never removed.
5. **One bad address** (`GossipUnreachable`). An address nothing can be sent to
   spreads in announces and ends the gossip threads of the nodes it reaches.
6. **"Complete" recipes** (`ListingAlone`). `handle_list_recipes` counts the capabilities of
   every peer of the table as its own. `missing_actions` is documented as what the agent
   cannot execute itself (`protocol.rs`, `PROTOCOLE-SPEC.md`); an empty list can mean that
   peers are needed, also peers that are gone. The TUI's panel shows the same recipe with
   the actions missing. The comment above the function and its test
   (`handle_list_recipes_local_missing_actions_account_for_peer_capabilities`) say what the
   code does, so it is the documents of the message that are wrong. `ListingIsTrue` states
   what the rows do mean.

Differences that have no run of their own. The comment of `handle_process_payload` says a
payload "is forwarded to a peer that has" the action; it goes to a peer some announce said
that of, possibly one of an earlier start, and that peer can only hand it on
(`EveryHopAdvances` and `AnswerTrailIsExact` say precisely when). `PROTOCOLE-SPEC.md` says
"generation distinguishes node incarnations"; the generation is the clock in seconds, so
two starts within one have the same, and after a clock was set back generations go down
(`NothingFromTheFuture` says what versions still mean then). The error text "no peer advertised it" is also given when
candidates were there and failed, or when one that restarted said so
(`NotFoundHasACause` lists the cases). A file with `)` before `(` in an action ends the
program with a panic, not with a parse error, and a text like that from a peer ends a
connection thread. The names and parameters `ReadsBack` excludes are printed as something
else than they were. A blank line inside a recipe makes what follows a recipe of its own.
Two of the shapes `RecipeAvailability` can be read from are never reached, since an
earlier one fits whatever they fit.

Two races the models contain without a statement of the code against them: a deliver
between the receive time-out and the removal of the entry is logged as delivered while
the client is told of a time-out (`ReceiveTimesOut`, `SignalHandler`,
`AnswerTimeout`); two client commands that overlap overwrite each other's orders in the
history, which is why `SerialClientsLoseNothing` asks for clients one after the other.

## 7. Not modelled

* Framing and CBOR: a frame is read whole or not at all, and an undecodable one changes
  nothing. Memory: a repeat count makes as many actions as it says.
* White space inside the recipe language: every part is trimmed by the code.
* The TUI's drawing and keys, argument parsing, logging, `client list` and `client get`
  but for what they decode: no state another part reads.
* Round-trip times: measured and shown, never used for a decision. The version of a
  table's entry is in `Gossip`; it is compared by pings only, and no handler reads it.
* A write that fails after part of a text went on top of another writer's: what is left is
  taken not to parse, though a text could end where the other's bytes complete it.
* An endless chain of forwards through entries that are out of date (see the bounds): the
  number of calls is bounded by `MaxForwards`, and `RecipeLookup`'s by `MaxCalls`.
* The history's status "Receipt" of an order whose client stopped waiting: it is in
  `OrderStore`, and contradicts nothing the code or its documents say.

## 8. Plan

Done: `OrderExecution` with its abstract service; `Gossip` with `PeerTables`; `OrderStore`;
`RecipeDsl`, `RecipeListing`, `RecipeLookup` and their composition; proofs of both
refinements, of every safety invariant the runs check but `WellWrittenFilesLoad`, and of
what the parser and the printer do to each other.

1. Proofs about pure operators that need no induction: the encoding of a listing's
   rows for rows of any shape, the least peer a name is attributed to.
2. The order in which the client's read and the handler's wait time out.
