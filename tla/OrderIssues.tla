----------------------------- MODULE OrderIssues -----------------------------
(***************************************************************************)
(* The index of order reconciliation issues (order_issues.go,              *)
(* order_issues_repository.go): scans detect what does not add up in       *)
(* completed orders, and admins recheck, accept or align what was found,   *)
(* while the orders keep changing.                                         *)
(*                                                                         *)
(* Every handler is a series of database commands on single documents and  *)
(* nothing locks; a step below is one command, and what a handler keeps    *)
(* between two commands may be stale.  An issue is identified by its order *)
(* and its type: issue_key is unique and the _id is given once.            *)
(***************************************************************************)
EXTENDS Sums, Sequences, FiniteSetsExt, SequencesExt

CONSTANTS
    Order, Client,
    InitialOrders,  \* the documents of the orders at first, one function each
    Revisions,      \* fields another service may overwrite in an order
    Payments,       \* entries another service may append to a payment history
    Ranges,         \* ranges of service dates an admin scans
    NoTotal,        \* a total that is missing, negative or not finite
    MaxRequests, MaxEdits, MaxFaults    \* bounds

\* Issue types.
Mismatch == "payment_total_mismatch"
Missing == "missing_payment"
InvalidTotal == "order_total_formula_mismatch"
MissingBeautician == "missing_beautician_assignment"
DeletedBeautician == "deleted_beautician_profile"
MissingCommission == "missing_commission_snapshot"
InvalidCommission == "invalid_commission_snapshot"
IssueType == {Mismatch, Missing, InvalidTotal, MissingBeautician,
              DeletedBeautician, MissingCommission, InvalidCommission}

IssueKey == Order \X IssueType
NoIssue == <<>>

\* What is read of an entry of a payment history that this service did not write.
Payment == [label : {"payment", "tip", "refund"}, amount : Int, issue : {NoIssue}]

\* What is read of an order.  The base is the sum of its charges less the
\* discount; an order is scannable when it is completed, not deleted and all
\* its amounts are sane.  The profile of the beautician is found under the
\* order's beautician_id; "none" is an order that has no such field and
\* "unknown" one whose profile is not in the office.
OrderDocument ==
    [date : Nat, scannable : BOOLEAN,
     beautician : {"none", "unknown", "deleted", "active"},
     snapshot : {"none", "invalid", "valid"},
     base : Int, tip : Int, paid : Int, total : Int \cup {NoTotal}, history : Seq(Payment)]

ASSUME ConstantsAssumption ==
    /\ InitialOrders \subseteq [Order -> OrderDocument]
    /\ \A r \in Revisions : \A x \in DOMAIN r :
        /\ x # "history"
        /\ x \in {"date", "base", "tip", "paid"} => r[x] \in Int
        /\ x = "total" => r[x] \in Int \cup {NoTotal}
    /\ Payments \subseteq Payment
    /\ \A r \in Ranges : r.from \in Nat /\ r.to \in Nat
    /\ {MaxRequests, MaxEdits, MaxFaults} \subseteq Nat

VARIABLES
    orders,     \* the documents of the orders
    issues,     \* the documents of the issues, by key
    client,     \* per request handler, where it is and what it keeps
    alone,      \* per handler, whether nothing else happened since it began
    cut,        \* history: issues whose correction was written by a handler that
                \* did not get to record it
    requests, edits, faults     \* how many there were

vars == <<orders, issues, client, alone, cut, requests, edits, faults>>
-----------------------------------------------------------------------------
(* Detection, from one reading of an order.                                *)

Abs(n) == IF n < 0 THEN -n ELSE n

\* The amounts of the entries that pass a test, added up.
Total(history, Test(_)) ==
    SumTo([n \in DOMAIN history |-> IF Test(history[n]) THEN history[n].amount ELSE 0],
          Len(history))

\* mutant of Counted: corrections that give money back are left out.
CountedPositive(entry) == entry.label \notin {"tip", "refund"} /\ entry.amount > 0

\* Only positive entries count, a correction counts with its sign, and a
\* refund or a cancellation charge not at all.
Counted(entry) ==
    /\ entry.label \notin {"tip", "refund"}
    /\ entry.amount > 0 \/ entry.label = "adjustment"

SeparateTip(entry) == entry.label = "tip" /\ entry.amount > 0

\* What was received and the tips that were recorded apart from it.
ReceivedCandidates(order) ==
    IF order.history # <<>>
    THEN [received |-> Total(order.history, Counted),
          tips |-> Total(order.history, SeparateTip)]
    ELSE [received |-> order.paid, tips |-> 0]

\* Tips recorded apart count when that brings the total nearer to the expected.
ReceivedForExpected(order, expected) ==
    LET c == ReceivedCandidates(order)
        withTips == c.received + c.tips
    IN  IF c.tips > 0 /\ Abs(withTips - expected) < Abs(c.received - expected)
        THEN withTips
        ELSE c.received

Issue(type, expected, actual) ==
    [type |-> type, expected |-> expected, actual |-> actual]

TipIncluded(order) == Abs(order.total - (order.base + order.tip)) <= 1
TipSeparate(order) == ~TipIncluded(order) /\ Abs(order.total - order.base) <= 1

WithoutTotal(order) == {Issue(InvalidTotal, order.base, 0)}

DetectOrderIssues(order) ==
    IF order.total = NoTotal
    THEN WithoutTotal(order)
    ELSE IF ~TipIncluded(order) /\ ~TipSeparate(order)
    THEN {Issue(InvalidTotal, order.base + order.tip, order.total)}
    ELSE LET expected == IF TipIncluded(order) THEN order.total ELSE order.total + order.tip
             actual == ReceivedForExpected(order, expected)
             type == IF actual = 0 /\ expected > 0 THEN Missing ELSE Mismatch
         IN  IF actual = expected THEN {} ELSE {Issue(type, expected, actual)}

\* Orders with neither field come from before commissions.
DetectCommissionIssues(order) ==
    IF order.beautician = "none" /\ order.snapshot = "none"
    THEN {}
    ELSE {Issue(t, 0, 0) : t \in
            {u \in {MissingBeautician} : order.beautician \in {"none", "unknown"}}
            \cup {u \in {DeletedBeautician} : order.beautician = "deleted"}
            \cup {u \in {MissingCommission} : order.snapshot = "none"}
            \cup {u \in {InvalidCommission} : order.snapshot = "invalid"}}

Detected(order) == DetectOrderIssues(order) \cup DetectCommissionIssues(order)

InRange(date, range) == range.from <= date /\ date <= range.to
-----------------------------------------------------------------------------
(* Handlers.  A handler that is done forgets everything.                   *)

Idle == [pc |-> "idle"]

Init ==
    /\ orders \in InitialOrders
    /\ issues = <<>>
    /\ client = [c \in Client |-> Idle]
    /\ alone = [c \in Client |-> FALSE]
    /\ cut = {}
    /\ requests = 0 /\ edits = 0 /\ faults = 0

\* The handler goes on; whoever else is at work is not alone any more.
Continue(c, state) ==
    /\ client' = [client EXCEPT ![c] = state]
    /\ alone' = [d \in Client |-> d = c /\ state # Idle /\ alone[c]]
    /\ UNCHANGED <<cut, requests, edits, faults>>

Begin(c, state) ==
    /\ client[c] = Idle
    /\ requests < MaxRequests
    /\ requests' = requests + 1
    /\ client' = [client EXCEPT ![c] = state]
    /\ alone' = [d \in Client |-> d = c /\ \A e \in Client \ {c} : client[e] = Idle]
    /\ UNCHANGED <<cut, edits, faults>>

\* What a scan of the range finds in the orders of its cursor (their first
\* batch is read at once), as documents to upsert.
Found(o) ==
    {[key |-> <<o, i.type>>, date |-> orders[o].date,
      expected |-> i.expected, actual |-> i.actual] : i \in Detected(orders[o])}

InScan(o, range) == orders[o].scannable /\ InRange(orders[o].date, range)

ScanOrders(c) ==
    \E range \in Ranges :
        LET found == UNION {Found(o) : o \in {p \in Order : InScan(p, range)}}
        IN  /\ Begin(c, [pc |-> IF found = {} THEN "stale" ELSE "find",
                         op |-> "scan", range |-> range, todo |-> found,
                         detected |-> {f.key : f \in found}])
            /\ UNCHANGED <<orders, issues>>

\* upsertOrderIssue first looks for the issue of one detection.
UpsertFind(c) ==
    /\ client[c].pc = "find"
    /\ \E f \in client[c].todo :
        Continue(c, [pc |-> "write", of |-> f, handler |-> client[c],
                     existing |-> IF f.key \in DOMAIN issues THEN issues[f.key] ELSE NoIssue])
    /\ UNCHANGED <<orders, issues>>

Upserted(c) ==
    LET h == client[c].handler
        todo == h.todo \ {client[c].of}
    IN  IF h.op = "recheck" THEN Idle
        ELSE [h EXCEPT !.todo = todo, !.pc = IF todo = {} THEN "stale" ELSE "find"]

Put(index, key, issue) ==
    [k \in DOMAIN index \cup {key} |-> IF k = key THEN issue ELSE index[k]]

\* A duplicate key makes it look again.
UpsertInsert(c) ==
    /\ client[c].pc = "write" /\ client[c].existing = NoIssue
    /\ LET f == client[c].of
       IN  IF f.key \in DOMAIN issues
           THEN Continue(c, client[c].handler) /\ UNCHANGED issues
           ELSE /\ Continue(c, Upserted(c))
                /\ issues' = Put(issues, f.key,
                    [status |-> "open", date |-> f.date, expected |-> f.expected,
                     actual |-> f.actual, history |-> <<>>])
    /\ UNCHANGED orders

Difference(issue) == issue.actual - issue.expected

\* mutant of Reopens: what was resolved stays resolved.
ReopensAccepted(existing, f) ==
    existing.status = "accepted" /\ Difference(existing) # Difference(f)

\* mutant of Reopens: what was accepted is not compared.
ReopensClosed(existing, f) == existing.status # "open"

\* Decided on the issue as it was found.
Reopens(existing, f) ==
    \/ existing.status = "resolved"
    \/ existing.status = "accepted" /\ Difference(existing) # Difference(f)

Updated(issue, f, reopen) ==
    [issue EXCEPT !.status = IF reopen THEN "open" ELSE @,
                  !.date = f.date, !.expected = f.expected, !.actual = f.actual]

UpsertUpdate(c) ==
    /\ client[c].pc = "write" /\ client[c].existing # NoIssue
    /\ LET f == client[c].of
       IN  issues' = [issues EXCEPT ![f.key] = Updated(@, f, Reopens(client[c].existing, f))]
    /\ Continue(c, Upserted(c))
    /\ UNCHANGED orders

\* mutant of Closed: the resolution is not pushed to the history.
ClosedUnlogged(issue, status, resolution) == [issue EXCEPT !.status = status]

Closed(issue, status, resolution) ==
    [issue EXCEPT !.status = status, !.history = Append(@, resolution)]

Resolution(action, adjustment) == [action |-> action, adjustment |-> adjustment]

\* The last command of a scan resolves the open issues of its dates that it
\* did not detect.
CloseStale(c) ==
    /\ client[c].pc = "stale"
    /\ issues' = [k \in DOMAIN issues |->
            IF /\ issues[k].status = "open"
               /\ InRange(issues[k].date, client[c].range)
               /\ k \notin client[c].detected
            THEN Closed(issues[k], "resolved", Resolution("auto_recheck", 0))
            ELSE issues[k]]
    /\ Continue(c, Idle)
    /\ UNCHANGED orders

\* ActOnOrderIssue reads the issue and refuses to act on a closed one.
ActOnOrderIssue(c) ==
    /\ \E k \in DOMAIN issues, op \in {"recheck", "accept", "align"} :
        /\ issues[k].status = "open" \/ op = "recheck"
        /\ op = "align" => k[2] \in {Mismatch, Missing}
        /\ Begin(c, IF op = "accept"
                    THEN [pc |-> "close", key |-> k, status |-> "accepted",
                          resolution |-> Resolution("accept_variance", 0), wrote |-> FALSE]
                    ELSE [pc |-> "load", op |-> op, key |-> k])
    /\ UNCHANGED <<orders, issues>>

ClosingRechecked(k) ==
    [pc |-> "close", key |-> k, status |-> "resolved",
     resolution |-> Resolution("recheck", 0), wrote |-> FALSE]

RecheckOrderIssue(c) ==
    /\ client[c].pc = "load" /\ client[c].op = "recheck"
    /\ LET k == client[c].key
           same == {f \in Found(k[1]) : f.key = k}
       IN  Continue(c, IF same = {} THEN ClosingRechecked(k)
                       ELSE [pc |-> "find", op |-> "recheck", todo |-> same])
    /\ UNCHANGED <<orders, issues>>

\* Legacy payments without history cannot be aligned.
AlignOrderPayment(c) ==
    /\ client[c].pc = "load" /\ client[c].op = "align"
    /\ LET k == client[c].key
           same == {i \in DetectOrderIssues(orders[k[1]]) : i.type = k[2]}
       IN  IF orders[k[1]].history = <<>> THEN Continue(c, Idle)
           ELSE IF same = {} THEN Continue(c, ClosingRechecked(k))
           ELSE \E current \in same :
                    Continue(c, [pc |-> "push", key |-> k, adjustment |-> -Difference(current)])
    /\ UNCHANGED <<orders, issues>>

\* mutant of AdjustedBy: only the last entry is looked at.
AdjustedLast(order, k) == Last(order.history).issue = k

AdjustedBy(order, k) == \E n \in DOMAIN order.history : order.history[n].issue = k

Recorded(order, entry) == [order EXCEPT !.history = Append(@, entry)]

\* One update, conditional on there being no entry of this issue.  When there
\* is one (the count that follows always finds it) the handler goes on to
\* close the issue as if it had written the entry; only the history of the
\* properties tells the two apart (wrote).
PushAdjustment(c) ==
    /\ client[c].pc = "push"
    /\ LET k == client[c].key
           entry == [label |-> "adjustment", amount |-> client[c].adjustment, issue |-> k]
       IN  /\ orders' = IF AdjustedBy(orders[k[1]], k) THEN orders
                        ELSE [orders EXCEPT ![k[1]] = Recorded(@, entry)]
           /\ Continue(c, [pc |-> "close", key |-> k, status |-> "resolved",
                           resolution |-> Resolution("align_payment_record", client[c].adjustment),
                           wrote |-> ~AdjustedBy(orders[k[1]], k)])
    /\ UNCHANGED issues

\* Whatever the issue has become since it was read.
CloseOrderIssue(c) ==
    /\ client[c].pc = "close"
    /\ issues' = [issues EXCEPT ![client[c].key] =
                    Closed(@, client[c].status, client[c].resolution)]
    /\ Continue(c, Idle)
    /\ UNCHANGED orders
-----------------------------------------------------------------------------
(* Around the handlers.                                                    *)

\* A command fails, or the instance stops: the handler is gone.
Abandon(c) ==
    /\ client[c] # Idle
    /\ faults < MaxFaults
    /\ faults' = faults + 1
    /\ client' = [client EXCEPT ![c] = Idle]
    /\ alone' = [d \in Client |-> FALSE]
    /\ cut' = cut \cup {k \in DOMAIN issues :
                            client[c].pc = "close" /\ client[c].key = k /\ client[c].wrote}
    /\ UNCHANGED <<orders, issues, requests, edits>>

\* The order with the fields of r.
Overwritten(order, r) ==
    [x \in DOMAIN order \cup DOMAIN r |-> IF x \in DOMAIN r THEN r[x] ELSE order[x]]

\* Another service changes an order or records what was paid.
EditOrder(o) ==
    /\ edits < MaxEdits
    /\ edits' = edits + 1
    /\ \/ \E r \in Revisions : orders' = [orders EXCEPT ![o] = Overwritten(@, r)]
       \/ \E p \in Payments : orders' = [orders EXCEPT ![o] = Recorded(@, p)]
    /\ alone' = [d \in Client |-> FALSE]
    /\ UNCHANGED <<issues, client, cut, requests, faults>>

Handle(c) ==
    \/ UpsertFind(c) \/ UpsertInsert(c) \/ UpsertUpdate(c) \/ CloseStale(c)
    \/ RecheckOrderIssue(c) \/ AlignOrderPayment(c) \/ PushAdjustment(c)
    \/ CloseOrderIssue(c)

Next ==
    \/ \E c \in Client : ScanOrders(c) \/ ActOnOrderIssue(c) \/ Handle(c) \/ Abandon(c)
    \/ \E o \in Order : EditOrder(o)

Spec == Init /\ [][Next]_vars
-----------------------------------------------------------------------------
(* Properties.                                                             *)

\* Types of the documents and of the ghosts.
TypeOK ==
    /\ DOMAIN orders = Order
    /\ DOMAIN issues \subseteq IssueKey
    /\ \A k \in DOMAIN issues :
        /\ issues[k].status \in {"open", "resolved", "accepted"}
        /\ {issues[k].date, issues[k].expected, issues[k].actual} \subseteq Int
        /\ \A n \in DOMAIN issues[k].history : issues[k].history[n].adjustment \in Int
    /\ \A c \in Client : client[c].pc \in {"idle", "find", "write", "stale", "load", "push", "close"}
    /\ alone \in [Client -> BOOLEAN] /\ cut \subseteq DOMAIN issues
    /\ requests \in 0..MaxRequests /\ edits \in 0..MaxEdits /\ faults \in 0..MaxFaults

\* However many admins align an issue at once, and however often, the order
\* gets one correction for it: "The issue ID makes the correction idempotent".
AdjustedOnce ==
    \A o \in Order : \A m, n \in DOMAIN orders[o].history :
        orders[o].history[m].issue # NoIssue /\ orders[o].history[m].issue = orders[o].history[n].issue
            => m = n

\* The handler that wrote the correction is still to record it.
Aligning(k, amount) ==
    \E c \in Client : /\ client[c].pc = "close"
                      /\ client[c].key = k /\ client[c].wrote
                      /\ client[c].resolution = Resolution("align_payment_record", amount)

\* A correction in a payment history is accounted for in the history of its
\* issue, with its amount, unless the very handler that wrote it is still to do
\* so or was itself cut off before it could; failures of any other handler, or
\* of this one at any other command, excuse nothing.
AdjustmentsAudited ==
    \A o \in Order : \A n \in DOMAIN orders[o].history :
        LET e == orders[o].history[n]
        IN  e.issue # NoIssue =>
                \/ Resolution("align_payment_record", e.amount) \in Range(issues[e.issue].history)
                \/ Aligning(e.issue, e.amount)
                \/ e.issue \in cut

\* The issue stands for what is to be said of its order now.
Reported(o, i) ==
    LET k == <<o, i.type>>
    IN  /\ k \in DOMAIN issues
        /\ \/ issues[k].status = "open"
           \/ issues[k].status = "accepted"
        /\ Difference(issues[k]) = i.actual - i.expected

IndexComplete(range) ==
    /\ \A o \in Order : InScan(o, range) => \A i \in Detected(orders[o]) : Reported(o, i)
    /\ \A k \in DOMAIN issues :
        issues[k].status = "open" /\ InRange(issues[k].date, range) =>
            InScan(k[1], range) /\ \E i \in Detected(orders[k[1]]) : i.type = k[2]

\* A scan that runs by itself leaves a complete index of its range, whatever
\* interleavings, faults and edits it starts from: every discrepancy of a
\* scannable order is open, or accepted as it stands, and nothing else is
\* open.  "idempotently recreates the persisted issue index".
ScanRecreatesIndex ==
    [][\A c \in Client, range \in Ranges :
        /\ client[c].pc = "stale" /\ client[c].range = range /\ alone[c]
        /\ client'[c] = Idle /\ faults' = faults
        => IndexComplete(range)']_vars

\* An accepted variance stands until it changes: a handler that runs by itself
\* reopens it exactly when it finds a different amount.
AcceptedVarianceStands ==
    [][\A c \in Client, k \in DOMAIN issues :
        /\ client[c].pc = "write" /\ alone[c] /\ client'[c] # client[c]
        /\ client[c].of.key = k /\ issues[k].status = "accepted" /\ faults' = faults
        => (issues'[k].status = "open" <=> Difference(issues'[k]) # Difference(issues[k]))]_vars

\* When an alignment that ran by itself closes its issue, the order reconciles,
\* be it to pay or to give back, with tips inside or apart; except when the
\* issue was aligned before and came back.
AlignmentReconciles ==
    [][\A c \in Client :
        /\ client[c].pc = "push" /\ alone[c] /\ client'[c].pc = "close"
        /\ ~AdjustedBy(orders[client[c].key[1]], client[c].key)
        => DetectOrderIssues(orders'[client[c].key[1]]) = {}]_vars

\* While no handler is at work, the corrections an issue claims in its history
\* are those its order got.
RecordedAdjustmentsApplied ==
    (\A c \in Client : client[c] = Idle) =>
        \A k \in DOMAIN issues :
            FoldSeq(LAMBDA r, sum : r.adjustment + sum, 0, issues[k].history)
            = Total(orders[k[1]].history, LAMBDA e : e.issue = k)
=============================================================================
