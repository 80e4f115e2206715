------------------------- MODULE MCEarningsControl ---------------------------
(***************************************************************************)
(* Four days of two months.  The days 1 and 2 can be closed, rebuilt (in   *)
(* two overlapping jobs), adjusted, and paid out.                          *)
(***************************************************************************)
EXTENDS EarningsControl, TLC

CONSTANTS
    Ops,       \* the kinds of requests
    Rebuilds   \* the keys of the requested rebuilds

Ask(op, key, from, to, wanted) ==
    [op |-> op, key |-> key, from |-> from, to |-> to,
     kind |-> "weekly", mode |-> wanted]

AllRequests ==
    {Ask("adjust", "a1", 1, 1, "none"),
     Ask("settle", "s1", 1, 2, "none"),
     Ask("edit", "s1", 0, 0, "none"),
     Ask("close", "none", 1, 2, "none"),
     Ask("queue", "j1", 1, 1, "none"),
     Ask("queue", "j2", 1, 3, "none"),
     Ask("mode", "none", 1, 2, "authoritative"),
     Ask("mode", "none", 0, 0, "shadow")}

MCRequest == {r \in AllRequests : r.op \in Ops /\ (r.op = "queue" => r.key \in Rebuilds)}

\* Clients and instances are interchangeable; only for runs without liveness.
Interchangeable == Permutations(Client) \cup Permutations(Instance)

MCSourceRow == {[source |-> "order", date |-> 1], [source |-> "trip", date |-> 3]}
=============================================================================
