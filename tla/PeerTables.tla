----------------------------- MODULE PeerTables -----------------------------
(***************************************************************************)
(* What the gossip layer is to the order handlers of the same process: a   *)
(* table whose entries each describe one start of a peer, not always the   *)
(* latest one, that at any moment gains an entry, has one overwritten or   *)
(* loses some, and that a process which restarts begins without.           *)
(***************************************************************************)
EXTENDS Naturals

CONSTANT Nodes

VARIABLES up,     \* the processes that run
          starts, \* starts[n]: how often n was started
          known   \* known[n][p]: the start of p whose capabilities and recipes the
                  \* entry of p in n's table has; 0 if there is none

vars == <<up, starts, known>>

Empty == [p \in Nodes |-> 0]

Init == /\ up \in SUBSET Nodes
        /\ starts \in [Nodes -> Nat]
        /\ known \in [Nodes -> [Nodes -> Nat]]
        /\ \A n, p \in Nodes : known[n][p] <= starts[p]

\* The entry of p is inserted or overwritten: an announce of its g-th start came.
Learn(n, p, g) == /\ n \in up
                  /\ g \in 1 .. starts[p]
                  /\ known' = [known EXCEPT ![n][p] = g]
                  /\ UNCHANGED <<up, starts>>

\* The entries of ps are removed.
Forget(n, ps) == /\ n \in up
                 /\ ps # {} /\ \A p \in ps : known[n][p] # 0
                 /\ known' = [known EXCEPT ![n] =
                                [p \in Nodes |-> IF p \in ps THEN 0 ELSE @[p]]]
                 /\ UNCHANGED <<up, starts>>

Crash(n) == /\ n \in up
            /\ up' = up \ {n}
            /\ known' = [known EXCEPT ![n] = Empty]
            /\ UNCHANGED starts

Restart(n) == /\ n \notin up
              /\ up' = up \union {n}
              /\ starts' = [starts EXCEPT ![n] = @ + 1]
              /\ UNCHANGED known

Next == \/ \E n \in up :
             \/ \E p \in Nodes : \E g \in 1 .. starts[p] : Learn(n, p, g)
             \/ \E ps \in SUBSET {p \in Nodes : known[n][p] # 0} : Forget(n, ps)
             \/ Crash(n)
        \/ \E n \in Nodes : Restart(n)

Spec == Init /\ [][Next]_vars
=============================================================================
