----------------------------- MODULE OrderStore -----------------------------
(***************************************************************************)
(* The order history of the clients, src/store.rs and client_order of      *)
(* src/cli/client_impl.rs.                                                 *)
(*                                                                         *)
(* Every `client order` command is a process of its own. It loads          *)
(* db/orders.json when it starts, changes its copy as the frames of the    *)
(* server arrive, and writes the whole copy back after every change. A TUI *)
(* reads the file at every redraw and removes it when it exits. Nothing    *)
(* orders the processes: a client is named here by the order it places. An *)
(* error of the file system is logged, if at all, and the client goes on.  *)
(*                                                                         *)
(* Definitions named Wrong... are the code with one plausible mistake.     *)
(***************************************************************************)
EXTENDS Naturals, Sequences

CONSTANTS Clients, \* the `client order` commands
          MaxExits \* bound: exits of a TUI

ASSUME ExitsAssumption == MaxExits \in Nat

VARIABLES
    pc,         \* pc[c]: where client_order of c is
    mem,        \* mem[c]: the ORDERS map of process c
    updates,    \* updates[c]: the changes its last frame calls for, not yet made
    file,       \* db/orders.json
    open,       \* processes that truncated the present file and have yet to write
    exits,      \* how many TUIs exited
    \* history, for the properties:
    overlapped, \* whether a client started while another one ran
    killed,     \* whether a client was killed
    unread,     \* whether a client could not read the file when it started
    saved       \* saved[c]: how the last save of c went: "ok"; "failed", the file
                \* untouched; or "torn", truncated and not written in full since

vars == <<pc, mem, updates, file, open, exits, overlapped, killed, unread, saved>>

-----------------------------------------------------------------------------
Statuses == {"Sending", "Receipt", "Declined", "Delivered", "Failed", "Error"}
Absent == [status |-> "absent", server |-> FALSE]
Order == [status : Statuses, server : BOOLEAN]
History == [Clients -> Order \union {Absent}]
NoOrders == [c \in Clients |-> Absent]

\* The file: none, just truncated, a JSON text of a history, or what two writers
\* left when the text of one ends in the middle of the other's.
File == [kind : {"missing", "empty", "json", "garbled"}, orders : History]
Without(kind) == [kind |-> kind, orders |-> NoOrders]

\* What init_store and get_orders make of it: nothing at all unless it parses.
Parsed == IF file.kind = "json" THEN file.orders ELSE NoOrders

Changes == Statuses \union {"server_id"}

TypeOK ==
    /\ pc \in [Clients -> {"new", "asking", "waiting", "ended"}]
    /\ mem \in [Clients -> History]
    /\ updates \in [Clients -> Seq(Changes)]
    /\ file \in File
    /\ open \subseteq Clients
    /\ exits \in 0 .. MaxExits
    /\ overlapped \in BOOLEAN
    /\ killed \in BOOLEAN
    /\ unread \in BOOLEAN
    /\ saved \in [Clients -> {"ok", "failed", "torn"}]

Init ==
    /\ pc = [c \in Clients |-> "new"]
    /\ mem = [c \in Clients |-> NoOrders]
    /\ updates = [c \in Clients |-> <<>>]
    /\ file = Without("missing")
    /\ open = {}
    /\ exits = 0
    /\ overlapped = FALSE
    /\ killed = FALSE
    /\ unread = FALSE
    /\ saved = [c \in Clients |-> "ok"]

Active(c) == pc[c] \notin {"new", "ended"} \/ updates[c] # <<>> \/ c \in open

\* The store is only loaded by the server's commands.
WrongLoaded == NoOrders
Loaded == Parsed

-----------------------------------------------------------------------------
\* init_store, in main, before anything else. A file that cannot be read is an
\* empty history.
Start(c) ==
    /\ pc[c] = "new"
    /\ pc' = [pc EXCEPT ![c] = "asking"]
    /\ \/ mem' = [mem EXCEPT ![c] = Loaded] /\ unread' = unread
       \/ mem' = [mem EXCEPT ![c] = NoOrders] /\ unread' = TRUE
    /\ overlapped' = (overlapped \/ \E d \in Clients \ {c} : Active(d))
    /\ UNCHANGED <<updates, file, open, exits, killed, saved>>

\* A frame is handled only when the changes of the one before are saved.
Ready(c, at) == pc[c] = at /\ updates[c] = <<>> /\ c \notin open

\* Connecting, writing or reading fails, or the frame is none of those expected.
GiveUp(c) ==
    /\ Ready(c, "asking") \/ Ready(c, "waiting")
    /\ pc' = [pc EXCEPT ![c] = "ended"]
    /\ UNCHANGED <<mem, updates, file, open, exits, overlapped, killed, unread, saved>>

\* The status is set before the server's id.
WrongFirstChanges(frame) ==
    CASE frame = "OrderReceipt"  -> <<"Sending", "Receipt", "server_id">>
      [] frame = "OrderDeclined" -> <<"Sending", "Declined">>
      [] frame = "Error"         -> <<"Sending", "Error">>
      [] frame = "other"         -> <<"Sending">>

\* What client_order does to the store for frame 1.
FirstChanges(frame) ==
    CASE frame = "OrderReceipt"  -> <<"Sending", "server_id", "Receipt">>
      [] frame = "OrderDeclined" -> <<"Sending", "Declined">>
      [] frame = "Error"         -> <<"Sending", "Error">>
      [] frame = "other"         -> <<"Sending">>

Frame1(c) ==
    /\ Ready(c, "asking")
    /\ \E frame \in {"OrderReceipt", "OrderDeclined", "Error", "other"} :
         /\ updates' = [updates EXCEPT ![c] = FirstChanges(frame)]
         /\ pc' = [pc EXCEPT ![c] =
                     IF frame = "OrderReceipt" THEN "waiting" ELSE "ended"]
    /\ UNCHANGED <<mem, file, open, exits, overlapped, killed, unread, saved>>

Frame2(c) ==
    /\ Ready(c, "waiting")
    /\ \E status \in {"Delivered", "Failed", "Error"} :
         updates' = [updates EXCEPT ![c] = <<status>>]
    /\ pc' = [pc EXCEPT ![c] = "ended"]
    /\ UNCHANGED <<mem, file, open, exits, overlapped, killed, unread, saved>>

\* Every change is put in the status.
WrongChanged(m, c, change) ==
    [m EXCEPT ![c] = [status |-> change, server |-> @.server]]

\* A change of the order of c in the map m: add_order for "Sending".
Changed(m, c, change) ==
    CASE change = "server_id" -> [m EXCEPT ![c].server = TRUE]
      [] change = "Sending" ->
           [m EXCEPT ![c] = [status |-> "Sending", server |-> FALSE]]
      [] OTHER -> [m EXCEPT ![c].status = change]

\* add_order or update_order_...: the map is changed, and save_to_file called.
Change(c) ==
    /\ updates[c] # <<>>
    /\ c \notin open
    /\ mem' = [mem EXCEPT ![c] = Changed(@, c, Head(updates[c]))]
    /\ updates' = [updates EXCEPT ![c] = Tail(@)]
    /\ UNCHANGED <<pc, exits, overlapped, killed, unread>>

\* The file is created or truncated.
Update(c) ==
    /\ Change(c)
    /\ file' = Without("empty")
    /\ open' = open \union {c}
    /\ UNCHANGED saved

\* The directory cannot be created, or the file not opened: it stays as it is.
UpdateFails(c) ==
    /\ Change(c)
    /\ saved' = [saved EXCEPT ![c] = IF @ = "torn" THEN "torn" ELSE "failed"]
    /\ UNCHANGED <<file, open>>

\* The whole map is written, from the start of the file. On top of a longer text
\* it leaves that text's end; into a removed file it is lost.
Write(c) ==
    /\ c \in open
    /\ open' = open \ {c}
    /\ \/ file' = [kind |-> "json", orders |-> mem[c]]
       \/ file.kind \in {"json", "garbled"} /\ file' = Without("garbled")
    /\ saved' = [saved EXCEPT ![c] = "ok"]
    /\ UNCHANGED <<pc, mem, updates, exits, overlapped, killed, unread>>

\* The disk is full, say: nothing is written, or a part of the text, on top of
\* whatever others have written since. What then begins with one text and goes on
\* with another is taken for no history.
WriteFails(c) ==
    /\ c \in open
    /\ open' = open \ {c}
    /\ file' \in {file, Without("garbled")}
    /\ saved' = [saved EXCEPT ![c] = "torn"]
    /\ UNCHANGED <<pc, mem, updates, exits, overlapped, killed, unread>>

\* The process is killed.
Kill(c) ==
    /\ Active(c)
    /\ pc' = [pc EXCEPT ![c] = "ended"]
    /\ updates' = [updates EXCEPT ![c] = <<>>]
    /\ open' = open \ {c}
    /\ killed' = TRUE
    /\ UNCHANGED <<mem, file, exits, overlapped, unread, saved>>

\* StoreGuard is dropped: the file is removed, whoever is about to write it.
TuiExit ==
    /\ exits < MaxExits
    /\ exits' = exits + 1
    /\ file' = Without("missing")
    /\ open' = {}
    /\ UNCHANGED <<pc, mem, updates, overlapped, killed, unread, saved>>

Next == \/ \E c \in Clients : \/ Start(c) \/ GiveUp(c) \/ Frame1(c) \/ Frame2(c)
                              \/ Update(c) \/ UpdateFails(c)
                              \/ Write(c) \/ WriteFails(c) \/ Kill(c)
        \/ TuiExit

Spec == Init /\ [][Next]_vars

-----------------------------------------------------------------------------
(* Properties.                                                             *)

\* While clients run one after the other, each reads the file, none is killed, no
\* TUI exits, and no client leaves the file truncated, it keeps the order of every
\* client whose last save succeeded, with its last status: a process loads what
\* the others left and writes it back with its own, whatever saves of its own or
\* of the others failed before.
SerialClientsLoseNothing ==
    (/\ ~overlapped /\ ~killed /\ ~unread /\ exits = 0 /\ open = {}
     /\ \A c \in Clients : saved[c] # "torn")
      => \A c \in Clients :
           (saved[c] = "ok" /\ mem[c][c] # Absent) => Parsed[c] = mem[c][c]

\* Whatever the processes do to each other, the file shows no order as received,
\* delivered or failed without the id the server gave it: the TUI names it so.
AcceptedOrdersHaveServerIds ==
    \A c \in Clients :
      Parsed[c].status \in {"Receipt", "Delivered", "Failed"} => Parsed[c].server
=============================================================================
