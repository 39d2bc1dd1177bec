---------------------------- MODULE MCOrderStore ----------------------------
(***************************************************************************)
(* Instances of OrderStore for TLC.                                        *)
(***************************************************************************)
EXTENDS OrderStore, TLC, FiniteSets

CONSTANTS x, y, z \* `client order` commands

\* The clients are interchangeable.
AnyClient == Permutations(Clients)

\* One misfortune in all. (A save that fails is no longer counted when a later one
\* of the same client succeeds.)
OneMisfortune ==
    LET count(happened) == IF happened THEN 1 ELSE 0
    IN  exits + count(killed) + count(unread) + count(overlapped)
          + Cardinality({c \in Clients : saved[c] # "ok"}) <= 1

\* Bound: whatever happens to two clients, and one misfortune to three.
TwoOrLucky == (\E c \in Clients : pc[c] = "new") \/ OneMisfortune
=============================================================================
